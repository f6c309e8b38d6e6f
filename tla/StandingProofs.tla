--------------------------- MODULE StandingProofs ---------------------------
(***************************************************************************)
(* Type correctness of Standing, that no driver who stays suspended enters *)
(* the pool, and, as long as no two strikes of a driver overlap, that the  *)
(* last strike suspends: for every number of drivers, documents and        *)
(* workers.                                                                *)
(***************************************************************************)
EXTENDS Standing, TLAPS

\* What a handler in flight relies on without looking again.
Sound(w) == req[w].pc # "idle" => req[w].driver \in Drivers

InFlight == \A w \in Workers : Sound(w)

IInv == TypeOK /\ InFlight

\* What a step does to the profiles and to the requests.
ProfileStep == profile' \in [Drivers -> Profile]

RequestStep == req' \in [Workers -> Request] /\ InFlight'

-----------------------------------------------------------------------------
(* Steps of a worker *)

LEMMA Move ==
    ASSUME IInv, NEW w \in Workers, NEW q \in Request,
           req' = [req EXCEPT ![w] = q], req'[w] = q => Sound(w)'
    PROVE  RequestStep
<1>1. req' \in [Workers -> Request] /\ req'[w] = q
  BY DEF IInv, TypeOK
<1>2. ASSUME NEW v \in Workers, v # w PROVE Sound(v)'
  <2>1. req'[v] = req[v] /\ Sound(v)
    BY <1>2 DEF IInv, TypeOK, InFlight
  <2> QED
    BY <2>1 DEF Sound
<1> QED
  BY <1>1, <1>2 DEF RequestStep, InFlight

LEMMA DoneMove ==
    ASSUME IInv, NEW w \in Workers, Done(w)
    PROVE  RequestStep
<1>1. Idle \in Request
  BY DEF Idle, Request, Step
<1>2. req' = [req EXCEPT ![w] = Idle]
  BY DEF Done
<1>3. req'[w] = Idle => Sound(w)'
  BY DEF Sound, Idle
<1> QED
  BY <1>1, <1>2, <1>3, Move

LEMMA BeginMove ==
    ASSUME IInv, NEW w \in Workers, NEW pc \in Step,
           NEW d \in Drivers, NEW n \in Nat, Begin(w, pc, d, n)
    PROVE  RequestStep
<1> DEFINE q == [pc |-> pc, driver |-> d, read |-> n]
<1>1. q \in Request /\ q.pc = pc /\ q.driver = d /\ q.read = n
  BY DEF Request
<1>2. req' = [req EXCEPT ![w] = q]
  BY DEF Begin
<1> HIDE DEF q
<1>3. req'[w] = q => Sound(w)'
  BY <1>1 DEF Sound
<1> QED
  BY <1>1, <1>2, <1>3, Move

\* A step of no worker.
LEMMA Rest ==
    ASSUME IInv, UNCHANGED req
    PROVE  RequestStep
BY DEF IInv, TypeOK, InFlight, RequestStep, Sound

-----------------------------------------------------------------------------
(* Writes to a profile *)

LEMMA ProfileSame == ASSUME IInv, profile' = profile PROVE ProfileStep
BY DEF IInv, TypeOK, ProfileStep

LEMMA WithdrawnProfile ==
    ASSUME NEW p \in Profile
    PROVE  Withdrawn(p) \in Profile /\ Withdrawn(p).subscribed = FALSE
BY DEF Withdrawn, Profile

LEMMA ProfileWrite ==
    ASSUME IInv, NEW d \in Drivers, NEW p \in Profile, profile' = [profile EXCEPT ![d] = p]
    PROVE  ProfileStep
BY DEF IInv, TypeOK, ProfileStep

LEMMA WithdrawWrite ==
    ASSUME IInv, NEW d \in Drivers, profile' = [profile EXCEPT ![d] = Withdrawn(@)]
    PROVE  ProfileStep
<1> DEFINE p == Withdrawn(profile[d])
<1>1. profile[d] \in Profile
  BY DEF IInv, TypeOK
<1>2. p \in Profile
  BY <1>1, WithdrawnProfile
<1>3. profile' = [profile EXCEPT ![d] = p]
  OBVIOUS
<1> HIDE DEF p
<1> QED
  BY <1>2, <1>3, ProfileWrite

LEMMA AvailabilityWrite ==
    ASSUME IInv, NEW d \in Drivers, NEW a \in {"ONLINE", "OFFLINE", "ON_RIDE"},
           SetAvailability(d, a)
    PROVE  ProfileStep
<1> DEFINE p == [profile[d] EXCEPT !.availability = a]
<1>1. profile[d] \in Profile
  BY DEF IInv, TypeOK
<1>2. p \in Profile
  BY <1>1 DEF Profile
<1>3. profile' = [profile EXCEPT ![d] = p]
  BY DEF SetAvailability
<1> HIDE DEF p
<1> QED
  BY <1>2, <1>3, ProfileWrite

\* A subscription is set to run out in some month.
LEMMA SubscribeWrite ==
    ASSUME IInv, NEW d \in Drivers, NEW e \in Int,
           profile' = [profile EXCEPT ![d].subscribed = TRUE, ![d].expires = e]
    PROVE  ProfileStep
<1> DEFINE p == [profile[d] EXCEPT !.subscribed = TRUE, !.expires = e]
<1>1. profile[d] \in Profile
  BY DEF IInv, TypeOK
<1>2. p \in Profile
  BY <1>1 DEF Profile
<1>3. profile' = [profile EXCEPT ![d] = p]
  BY <1>1 DEF IInv, TypeOK, Profile
<1> HIDE DEF p
<1> QED
  BY <1>2, <1>3, ProfileWrite

-----------------------------------------------------------------------------
(* Administrators *)

LEMMA TypeParts ==
    ASSUME IInv, ProfileStep, RequestStep,
           account' \in [Drivers -> Account], strikes' \in [Drivers -> 0 .. MaxStrikes],
           rides' \in [Drivers -> [live : 0 .. MaxRides, completed : BOOLEAN]],
           now' \in 0 .. MaxNow, faults' \in 0 .. MaxFaults
    PROVE  IInv'
BY DEF IInv, TypeOK, ProfileStep, RequestStep

LEMMA AdminKeeps ==
    ASSUME IInv, NEW w \in Workers, NEW d \in Drivers,
           \/ Onboard(w, d) \/ Suspend(w, d) \/ ReinstateStart(w, d) \/ RenewStart(w, d)
    PROVE  IInv'
<1> USE StandingAssumption
<1>1. CASE Onboard(w, d)
  <2>1. PICK months \in 1 .. MaxMonths :
          profile' = [profile EXCEPT ![d].subscribed = TRUE, ![d].expires = now + months]
    BY <1>1 DEF Onboard
  <2>2. now + months \in Int
    BY DEF IInv, TypeOK
  <2>3. ProfileStep
    BY <2>1, <2>2, SubscribeWrite
  <2>4. RequestStep
    BY <1>1, <2>3, Rest DEF Onboard, ProfileStep
  <2> QED
    BY <1>1, <2>3, <2>4, TypeParts DEF Onboard, IInv, TypeOK, Account
<1>2. CASE Suspend(w, d)
  <2>1. ProfileStep
    BY <1>2, WithdrawWrite DEF Suspend
  <2>2. RequestStep
    BY <1>2, <2>1, Rest DEF Suspend, Free, ProfileStep
  <2> QED
    BY <1>2, <2>1, <2>2, TypeParts DEF Suspend, IInv, TypeOK, Account
<1>3. CASE ReinstateStart(w, d)
  <2> DEFINE n == IF profile[d].expires > now THEN 1 ELSE 0
  <2>1. Begin(w, "reinstate", d, n) /\ n \in Nat
    BY <1>3 DEF ReinstateStart
  <2>2. ProfileStep
    BY <1>3, ProfileSame DEF ReinstateStart
  <2> HIDE DEF n
  <2>3. RequestStep
    BY <1>3, <2>1, BeginMove DEF ReinstateStart, Step
  <2> QED
    BY <1>3, <2>2, <2>3, TypeParts DEF ReinstateStart, IInv, TypeOK
<1>4. CASE RenewStart(w, d)
  <2> DEFINE n == IF profile[d].expires > now THEN profile[d].expires ELSE now
  <2>1. profile[d].expires \in Int /\ now \in Nat
    BY DEF IInv, TypeOK, Profile
  <2>2. Begin(w, "renew", d, n) /\ n \in Nat
    BY <1>4, <2>1 DEF RenewStart
  <2>3. ProfileStep
    BY <1>4, ProfileSame DEF RenewStart
  <2> HIDE DEF n
  <2>4. RequestStep
    BY <1>4, <2>2, BeginMove DEF RenewStart, Step
  <2> QED
    BY <1>4, <2>3, <2>4, TypeParts DEF RenewStart, IInv, TypeOK
<1> QED
  BY <1>1, <1>2, <1>3, <1>4

LEMMA AdminFinishes ==
    ASSUME IInv, NEW w \in Workers, Reinstate(w) \/ Renew(w)
    PROVE  IInv'
<1> DEFINE d == req[w].driver
<1> USE StandingAssumption
<1>1. d \in Drivers /\ Sound(w) /\ profile[d] \in Profile /\ req[w].read \in Nat /\ now \in Nat
  BY DEF Reinstate, Renew, At, IInv, InFlight, Sound, TypeOK, Request
<1>2. CASE Reinstate(w)
  <2> DEFINE p == [profile[d] EXCEPT !.subscribed = (req[w].read = 1)]
  <2>1. p \in Profile
    BY <1>1 DEF Profile
  <2>2. profile' = [profile EXCEPT ![d] = p]
    BY <1>2 DEF Reinstate
  <2> HIDE DEF p
  <2>4. ProfileStep
    BY <1>1, <2>1, <2>2, ProfileWrite
  <2>5. RequestStep
    BY <1>2, <2>4, DoneMove DEF Reinstate, ProfileStep
  <2> QED
    BY <1>1, <1>2, <2>4, <2>5, TypeParts DEF Reinstate, IInv, TypeOK, Account
<1>3. CASE Renew(w)
  <2>1. PICK months \in -MaxMonths .. MaxMonths :
          profile' = [profile EXCEPT ![d].subscribed = TRUE,
                                     ![d].expires = req[w].read + months]
    BY <1>3 DEF Renew
  <2>2. req[w].read + months \in Int
    BY <1>1
  <2>3. ProfileStep
    BY <1>1, <2>1, <2>2, SubscribeWrite
  <2>4. RequestStep
    BY <1>3, <2>3, DoneMove DEF Renew, ProfileStep
  <2>5. account' \in [Drivers -> Account]
    BY <1>1, <1>3 DEF Renew, IInv, TypeOK, Account
  <2> QED
    BY <1>3, <2>3, <2>4, <2>5, TypeParts DEF Renew, IInv, TypeOK
<1> QED
  BY <1>2, <1>3

-----------------------------------------------------------------------------
(* Strikes and documents *)

LEMMA StrikeKeeps ==
    ASSUME IInv, NEW w \in Workers, Strike(w)
    PROVE  IInv'
<1> DEFINE d == req[w].driver
<1> USE StandingAssumption
<1>1. d \in Drivers
  BY DEF Strike, At, IInv, InFlight, Sound
<1>2. strikes' \in [Drivers -> 0 .. MaxStrikes]
  BY <1>1 DEF Strike, IInv, TypeOK
<1>3. account' \in [Drivers -> Account] /\ ProfileStep
  <2>1. CASE req[w].read >= StrikeLimit
    BY <1>1, <2>1, WithdrawWrite DEF Strike, IInv, TypeOK, Account
  <2>2. CASE ~(req[w].read >= StrikeLimit)
    BY <2>2, ProfileSame DEF Strike, IInv, TypeOK
  <2> QED
    BY <2>1, <2>2
<1>4. RequestStep
  BY <1>3, DoneMove DEF Strike, ProfileStep
<1> QED
  BY <1>2, <1>3, <1>4, TypeParts DEF Strike, IInv, TypeOK

LEMMA StartKeeps ==
    ASSUME IInv, NEW w \in Workers, NEW d \in Drivers,
           \/ StrikeCount(w, d) \/ VerifyStart(w, d) \/ MatchStart(w, d)
           \/ \E online \in BOOLEAN : ToggleStart(w, d, online)
    PROVE  IInv'
<1> USE StandingAssumption
<1>1. UNCHANGED <<account, profile, strikes, rides, now, faults>>
  BY DEF StrikeCount, VerifyStart, MatchStart, ToggleStart, IInv, TypeOK
<1>2. ProfileStep
  BY <1>1, ProfileSame
<1>3. strikes[d] + 1 \in Nat
  BY DEF IInv, TypeOK
<1>4. PICK pc \in Step, n \in Nat : Begin(w, pc, d, n)
  <2>1. CASE StrikeCount(w, d)
    BY <1>3, <2>1 DEF StrikeCount, Step
  <2>2. CASE VerifyStart(w, d)
    BY <2>2 DEF VerifyStart, Step
  <2>3. CASE MatchStart(w, d)
    BY <2>3 DEF MatchStart, Step
  <2>4. CASE \E online \in BOOLEAN : ToggleStart(w, d, online)
    BY <2>4 DEF ToggleStart, Step
  <2> QED
    BY <2>1, <2>2, <2>3, <2>4
<1>5. RequestStep
  BY <1>1, <1>4, BeginMove
<1> QED
  BY <1>1, <1>2, <1>5, TypeParts DEF IInv, TypeOK

LEMMA DocumentsKeep ==
    ASSUME IInv, NEW w \in Workers, NEW d \in Drivers, NEW doc \in Documents,
           UploadDocument(w, d, doc)
    PROVE  IInv'
<1> DEFINE p == [profile[d] EXCEPT !.docs = @ \cup {doc}, !.verified = FALSE]
<1>1. profile[d] \in Profile
  BY DEF IInv, TypeOK
<1>2. p \in Profile
  BY <1>1 DEF Profile
<1>3. profile' = [profile EXCEPT ![d] = p]
  BY <1>1 DEF UploadDocument, IInv, TypeOK, Profile
<1> HIDE DEF p
<1>4. ProfileStep
  BY <1>2, <1>3, ProfileWrite
<1>5. RequestStep
  BY <1>4, Rest DEF UploadDocument, Free, ProfileStep
<1> QED
  BY <1>4, <1>5, TypeParts DEF UploadDocument, IInv, TypeOK

LEMMA VerifyKeeps ==
    ASSUME IInv, NEW w \in Workers, Verify(w)
    PROVE  IInv'
<1> DEFINE d == req[w].driver
           p == [profile[d] EXCEPT !.verified = TRUE]
<1>1. d \in Drivers /\ profile[d] \in Profile
  BY DEF Verify, At, IInv, InFlight, Sound, TypeOK
<1>2. p \in Profile
  BY <1>1 DEF Profile
<1>3. profile' = [profile EXCEPT ![d] = p]
  BY DEF Verify
<1> HIDE DEF p
<1>4. ProfileStep
  BY <1>1, <1>2, <1>3, ProfileWrite
<1>5. RequestStep
  BY <1>4, DoneMove DEF Verify, ProfileStep
<1> QED
  BY <1>4, <1>5, TypeParts DEF Verify, IInv, TypeOK

-----------------------------------------------------------------------------
(* Availability, time and failure *)

LEMMA AvailabilityKeeps ==
    ASSUME IInv, NEW w \in Workers, NEW d \in Drivers, RideEnds(w, d) \/ LowBalanceOffline(w, d)
    PROVE  IInv'
<1> USE StandingAssumption
<1>1. ProfileStep
  BY AvailabilityWrite DEF RideEnds, LowBalanceOffline
<1>2. RequestStep
  BY <1>1, Rest DEF RideEnds, LowBalanceOffline, Free, ProfileStep
<1>3. rides' \in [Drivers -> [live : 0 .. MaxRides, completed : BOOLEAN]]
  BY DEF RideEnds, LowBalanceOffline, IInv, TypeOK
<1> QED
  BY <1>1, <1>2, <1>3, TypeParts DEF RideEnds, LowBalanceOffline, IInv, TypeOK

LEMMA AvailabilityFinishes ==
    ASSUME IInv, NEW w \in Workers, Toggle(w) \/ Match(w)
    PROVE  IInv'
<1> USE StandingAssumption
<1>1. req[w].driver \in Drivers
  BY DEF Toggle, Match, At, IInv, InFlight, Sound
<1>2. ProfileStep
  BY <1>1, AvailabilityWrite DEF Toggle, Match
<1>3. RequestStep
  BY <1>2, DoneMove DEF Toggle, Match, ProfileStep
<1>4. rides' \in [Drivers -> [live : 0 .. MaxRides, completed : BOOLEAN]]
  BY <1>1 DEF Toggle, Match, IInv, TypeOK
<1> QED
  BY <1>2, <1>3, <1>4, TypeParts DEF Toggle, Match, IInv, TypeOK

LEMMA FaultKeeps ==
    ASSUME IInv, NEW w \in Workers, Fault(w)
    PROVE  IInv'
<1> USE StandingAssumption
<1>1. ProfileStep
  BY ProfileSame DEF Fault
<1>2. RequestStep
  BY <1>1, DoneMove DEF Fault, ProfileStep
<1> QED
  BY <1>1, <1>2, TypeParts DEF Fault, IInv, TypeOK

LEMMA CheckKeeps ==
    ASSUME IInv, SubscriptionCheck
    PROVE  IInv'
<1>1. \A d \in Drivers : /\ profile[d] \in Profile
                         /\ profile'[d] \in {profile[d], Withdrawn(profile[d])}
  BY DEF SubscriptionCheck, IInv, TypeOK
<1>2. \A d \in Drivers : /\ profile'[d] \in Profile
  BY <1>1, WithdrawnProfile
<1>3. profile' \in [Drivers -> Profile]
  BY <1>2 DEF SubscriptionCheck
<1>4. ProfileStep
  BY <1>2, <1>3 DEF ProfileStep
<1>5. RequestStep
  BY <1>4, Rest DEF SubscriptionCheck, ProfileStep
<1> QED
  BY <1>4, <1>5, TypeParts DEF SubscriptionCheck, IInv, TypeOK

LEMMA TimeKeeps ==
    ASSUME IInv, MonthPasses \/ \E d \in Drivers : StrikeAges(d)
    PROVE  IInv'
<1> USE StandingAssumption
<1>1. ProfileStep
  BY ProfileSame DEF MonthPasses, StrikeAges
<1>2. CASE MonthPasses
  <2>1. RequestStep
    BY <1>2 DEF MonthPasses, At, RequestStep, IInv, TypeOK, InFlight, Sound
  <2>2. now' \in 0 .. MaxNow
    BY <1>2 DEF MonthPasses, IInv, TypeOK
  <2> QED
    BY <1>1, <1>2, <2>1, <2>2, TypeParts DEF MonthPasses, IInv, TypeOK
<1>3. CASE \E d \in Drivers : StrikeAges(d)
  <2>1. RequestStep
    BY <1>1, <1>3, Rest DEF StrikeAges, ProfileStep
  <2>2. strikes' \in [Drivers -> 0 .. MaxStrikes]
    BY <1>3 DEF StrikeAges, IInv, TypeOK
  <2> QED
    BY <1>1, <1>3, <2>1, <2>2, TypeParts DEF StrikeAges, IInv, TypeOK
<1> QED
  BY <1>2, <1>3

-----------------------------------------------------------------------------
(* The invariant and the theorems *)

LEMMA InitHolds == Init => IInv
BY StandingAssumption DEF Init, IInv, TypeOK, InFlight, Sound, Account, Profile, NewProfile,
   Request, Step, Idle

LEMMA NextKeeps == IInv /\ [Next]_vars => IInv'
<1> SUFFICES ASSUME IInv, [Next]_vars PROVE IInv'
  OBVIOUS
<1>1. ASSUME NEW w \in Workers, Arrive(w) PROVE IInv'
  BY <1>1, AdminKeeps, StartKeeps, DocumentsKeep, AvailabilityKeeps DEF Arrive
<1>2. ASSUME NEW w \in Workers, Continue(w) PROVE IInv'
  BY <1>2, AdminFinishes, StrikeKeeps, VerifyKeeps, AvailabilityFinishes DEF Continue
<1>3. CASE UNCHANGED vars
  BY <1>3 DEF vars, IInv, TypeOK, InFlight, Sound
<1> QED
  BY <1>1, <1>2, <1>3, FaultKeeps, CheckKeeps, TimeKeeps DEF Next

LEMMA Inductive == Spec => []IInv
  BY InitHolds, NextKeeps, PTL DEF Spec

\* The rows of driver_profiles, users and driver_strikes that the handlers of
\* admin.py write are well typed, whatever the interleaving.
THEOREM TypeCorrect == Spec => []TypeOK
<1>1. IInv => TypeOK
  BY DEF IInv
<1> QED
  BY <1>1, Inductive, PTL

-----------------------------------------------------------------------------
(* Suspension keeps out of the pool, in every interleaving *)

SuspendedInv == \A d \in Drivers : account[d] = "suspended" => ~profile[d].subscribed

LEMMA SuspendedKeeps == ASSUME IInv, SuspendedInv, Next PROVE SuspendedInv'
<1>1. /\ account \in [Drivers -> Account] /\ profile \in [Drivers -> Profile]
      /\ \A w \in Workers : req[w].pc # "idle" => req[w].driver \in Drivers
  BY DEF IInv, TypeOK, InFlight, Sound
\* A step that touches one driver, and leaves him without a subscription or
\* not suspended.
<1>2. ASSUME NEW d \in Drivers,
             \A e \in Drivers \ {d} : account'[e] = account[e] /\ profile'[e] = profile[e],
             account'[d] # "suspended" \/ ~profile'[d].subscribed
      PROVE  SuspendedInv'
  BY <1>2 DEF SuspendedInv
\* A step that subscribes nobody and suspends nobody.
<1>3. ASSUME UNCHANGED account, \A d \in Drivers : profile'[d].subscribed => profile[d].subscribed
      PROVE  SuspendedInv'
  BY <1>3 DEF SuspendedInv
<1>4. ASSUME NEW d \in Drivers, NEW a, SetAvailability(d, a), UNCHANGED account PROVE SuspendedInv'
  <2>1. profile' = [profile EXCEPT ![d].availability = a]
    BY <1>4 DEF SetAvailability
  <2>2. \A e \in Drivers : profile'[e].subscribed = profile[e].subscribed
    BY <1>1, <2>1 DEF Profile
  <2> QED
    BY <1>3, <1>4, <2>2
<1>5. \A p \in Profile : ~Withdrawn(p).subscribed
  BY WithdrawnProfile
<1>6. ASSUME NEW w \in Workers, NEW d \in Drivers, Onboard(w, d) PROVE SuspendedInv'
  BY <1>1, <1>2, <1>6 DEF Onboard
<1>7. ASSUME NEW w \in Workers, NEW d \in Drivers, Suspend(w, d) PROVE SuspendedInv'
  BY <1>1, <1>2, <1>5, <1>7 DEF Suspend
<1>8. ASSUME NEW w \in Workers, Reinstate(w) PROVE SuspendedInv'
  <2>1. req[w].driver \in Drivers
    BY <1>1, <1>8 DEF Reinstate, At
  <2> QED
    BY <1>1, <1>2, <1>8, <2>1 DEF Reinstate
<1>9. ASSUME NEW w \in Workers, Renew(w) PROVE SuspendedInv'
  <2>1. req[w].driver \in Drivers
    BY <1>1, <1>9 DEF Renew, At
  <2> QED
    BY <1>1, <1>2, <1>9, <2>1 DEF Renew
<1>10. ASSUME NEW w \in Workers, Strike(w) PROVE SuspendedInv'
  <2>1. req[w].driver \in Drivers
    BY <1>1, <1>10 DEF Strike, At
  <2>2. CASE req[w].read >= StrikeLimit
    BY <1>1, <1>2, <1>5, <1>10, <2>1, <2>2 DEF Strike
  <2>3. CASE ~(req[w].read >= StrikeLimit)
    BY <1>3, <1>10, <2>3 DEF Strike
  <2> QED
    BY <2>2, <2>3
<1>11. ASSUME NEW w \in Workers, Verify(w) PROVE SuspendedInv'
  <2>1. req[w].driver \in Drivers
    BY <1>1, <1>11 DEF Verify, At
  <2>2. \A e \in Drivers : profile'[e].subscribed = profile[e].subscribed
    BY <1>1, <1>11, <2>1 DEF Verify, Profile
  <2> QED
    BY <1>3, <1>11, <2>2 DEF Verify
<1>12. ASSUME NEW w \in Workers, NEW d \in Drivers, NEW doc \in Documents, UploadDocument(w, d, doc)
       PROVE  SuspendedInv'
  <2>1. \A e \in Drivers : profile'[e].subscribed = profile[e].subscribed
    BY <1>1, <1>12 DEF UploadDocument, Profile
  <2> QED
    BY <1>3, <1>12, <2>1 DEF UploadDocument
<1>13. ASSUME NEW w \in Workers, Toggle(w) \/ Match(w) PROVE SuspendedInv'
  <2>1. req[w].driver \in Drivers
    BY <1>1, <1>13 DEF Toggle, Match, At
  <2> QED
    BY <1>4, <1>13, <2>1 DEF Toggle, Match
<1>14. ASSUME NEW w \in Workers, NEW d \in Drivers, RideEnds(w, d) \/ LowBalanceOffline(w, d)
       PROVE  SuspendedInv'
  BY <1>4, <1>14 DEF RideEnds, LowBalanceOffline
<1>15. CASE SubscriptionCheck
  BY <1>1, <1>3, <1>5, <1>15 DEF SubscriptionCheck
<1>16. ASSUME UNCHANGED <<account, profile>> PROVE SuspendedInv'
  BY <1>16 DEF SuspendedInv
<1>17. ASSUME NEW w \in Workers, Arrive(w) PROVE SuspendedInv'
  BY <1>6, <1>7, <1>12, <1>14, <1>16, <1>17
     DEF Arrive, ReinstateStart, RenewStart, StrikeCount, VerifyStart, ToggleStart, MatchStart
<1>18. ASSUME NEW w \in Workers, Continue(w) PROVE SuspendedInv'
  BY <1>8, <1>9, <1>10, <1>11, <1>13, <1>18 DEF Continue
<1> QED
  BY <1>15, <1>16, <1>17, <1>18 DEF Next, Fault, StrikeAges, MonthPasses

\* suspend_driver, issue_driver_strike: however strikes, rides, reinstatements
\* and switches overlap, dispatch selects no suspended driver whose
\* subscription was not renewed since.
THEOREM SuspendedStayOutOfPool == Spec => []SuspendedOutOfPool
<1>1. Init => SuspendedInv
  BY DEF Init, SuspendedInv
<1>2. IInv /\ SuspendedInv /\ [Next]_vars => SuspendedInv'
  BY SuspendedKeeps DEF vars, SuspendedInv
<1>3. SuspendedInv => SuspendedOutOfPool
  BY DEF SuspendedInv, SuspendedOutOfPool, Pool
<1> QED
  BY <1>1, <1>2, <1>3, Inductive, PTL DEF Spec

-----------------------------------------------------------------------------
(* Strikes *)

\* Strikes may age after they were counted, but none is added.
CountInv ==
    \A w \in Workers : req[w].pc = "strike" => req[w].read > strikes[req[w].driver]

\* The step of ThirdStrikeSuspends.
StrikesSuspend ==
    \A d \in Drivers :
        strikes'[d] > strikes[d] /\ strikes'[d] >= StrikeLimit
            => account'[d] = "suspended" /\ d \notin Pool'

\* A step that neither counts a strike nor adds one.
LEMMA CountSame ==
    ASSUME IInv, CountInv, UNCHANGED strikes,
           \A w \in Workers : req'[w] = req[w] \/ req'[w].pc # "strike"
    PROVE  CountInv' /\ StrikesSuspend
<1>1. \A d \in Drivers : ~(strikes'[d] > strikes[d])
  BY StandingAssumption DEF IInv, TypeOK
<1> QED
  BY <1>1 DEF CountInv, StrikesSuspend

\* What a worker that begins or ends does to the requests.
LEMMA BeginRequests ==
    ASSUME IInv, NEW w \in Workers, NEW pc, NEW d, NEW n, Begin(w, pc, d, n)
    PROVE  /\ req'[w].pc = pc /\ req'[w].driver = d /\ req'[w].read = n
           /\ \A v \in Workers : v # w => req'[v] = req[v]
<1>1. req' = [req EXCEPT ![w] = [pc |-> pc, driver |-> d, read |-> n]]
  BY DEF Begin
<1>2. req'[w] = [pc |-> pc, driver |-> d, read |-> n]
  BY <1>1 DEF IInv, TypeOK
<1> QED
  BY <1>1, <1>2 DEF IInv, TypeOK

LEMMA DoneRequests ==
    ASSUME IInv, NEW w \in Workers, Done(w)
    PROVE  /\ req'[w].pc = "idle"
           /\ \A v \in Workers : v # w => req'[v] = req[v]
BY DEF Done, Idle, IInv, TypeOK

LEMMA StrikeCounted ==
    ASSUME IInv, CountInv, NEW w \in Workers, NEW d \in Drivers, StrikeCount(w, d)
    PROVE  CountInv' /\ StrikesSuspend
<1>1. strikes' = strikes /\ strikes[d] \in Nat /\ \A e \in Drivers : ~(strikes[e] > strikes[e])
  BY StandingAssumption DEF StrikeCount, IInv, TypeOK
<1>2. /\ req'[w].driver = d /\ req'[w].read = strikes[d] + 1
      /\ \A v \in Workers : v # w => req'[v] = req[v]
  BY BeginRequests DEF StrikeCount
<1> QED
  BY <1>1, <1>2 DEF CountInv, StrikesSuspend

LEMMA StrikeAdded ==
    ASSUME StrikesApart, IInv, CountInv, NEW w \in Workers, Strike(w)
    PROVE  CountInv' /\ StrikesSuspend
<1> DEFINE d == req[w].driver
<1>1. /\ d \in Drivers /\ req[w].read \in Nat /\ strikes[d] \in Nat
      /\ profile \in [Drivers -> Profile] /\ account \in [Drivers -> Account]
      /\ At(w, "strike")
  BY StandingAssumption DEF Strike, At, IInv, InFlight, Sound, TypeOK, Request
<1>2. req[w].read > strikes[d]
  BY <1>1 DEF At, CountInv
<1>3. \A e \in Drivers : strikes'[e] = IF e = d THEN strikes[d] + 1 ELSE strikes[e]
  BY DEF Strike, IInv, TypeOK
<1>4. ASSUME strikes[d] + 1 >= StrikeLimit
      PROVE  account'[d] = "suspended" /\ ~profile'[d].subscribed
  <2>1. req[w].read >= StrikeLimit
    BY <1>1, <1>2, <1>4, StandingAssumption
  <2>2. /\ account' = [account EXCEPT ![d] = "suspended"]
        /\ profile' = [profile EXCEPT ![d] = Withdrawn(profile[d])]
    BY <2>1 DEF Strike
  <2> HIDE DEF d
  <2> QED
    BY <1>1, <2>2, WithdrawnProfile
<1>5. StrikesSuspend
  <2>1. \A e \in Drivers : strikes[e] \in Nat
    BY StandingAssumption DEF IInv, TypeOK
  <2> QED
    BY <1>3, <1>4, <2>1 DEF StrikesSuspend, Pool
\* Nobody else counts strikes of d.
<1>6. ASSUME NEW v \in Workers, req'[v].pc = "strike" PROVE req'[v].read > strikes'[req'[v].driver]
  <2>1. v # w /\ req'[v] = req[v]
    BY <1>6, DoneRequests DEF Strike
  <2>2. req[v].driver \in Drivers /\ req[v].driver # d
    BY <1>1, <1>6, <2>1 DEF StrikesApart, At, IInv, InFlight, Sound
  <2> QED
    BY <1>3, <1>6, <2>1, <2>2 DEF CountInv
<1> QED
  BY <1>5, <1>6 DEF CountInv

LEMMA StrikesAge ==
    ASSUME IInv, CountInv, NEW d \in Drivers, StrikeAges(d)
    PROVE  CountInv' /\ StrikesSuspend
<1>1. \A e \in Drivers : strikes'[e] \in Nat /\ strikes[e] \in Nat /\ strikes'[e] <= strikes[e]
  BY StandingAssumption DEF StrikeAges, IInv, TypeOK
<1>2. \A w \in Workers : req[w].read \in Nat /\ (req[w].pc = "strike" => req[w].driver \in Drivers)
  BY DEF IInv, InFlight, Sound, TypeOK, Request
<1> QED
  BY <1>1, <1>2 DEF CountInv, StrikesSuspend, StrikeAges

LEMMA CountKeeps ==
    ASSUME StrikesApart, IInv, CountInv, Next
    PROVE  CountInv' /\ StrikesSuspend
<1>1. ASSUME NEW w \in Workers, NEW d \in Drivers, NEW pc, NEW n, Begin(w, pc, d, n),
             pc # "strike", UNCHANGED strikes
      PROVE  CountInv' /\ StrikesSuspend
  BY <1>1, BeginRequests, CountSame
<1>2. ASSUME NEW w \in Workers, Done(w), UNCHANGED strikes PROVE CountInv' /\ StrikesSuspend
  BY <1>2, DoneRequests, CountSame
<1>3. ASSUME UNCHANGED <<req, strikes>> PROVE CountInv' /\ StrikesSuspend
  BY <1>3, CountSame
<1>4. ASSUME NEW w \in Workers, Arrive(w) PROVE CountInv' /\ StrikesSuspend
  <2>1. PICK d \in Drivers :
          \/ Onboard(w, d) \/ Suspend(w, d) \/ ReinstateStart(w, d) \/ RenewStart(w, d)
          \/ StrikeCount(w, d) \/ VerifyStart(w, d)
          \/ \E doc \in Documents : UploadDocument(w, d, doc)
          \/ \E online \in BOOLEAN : ToggleStart(w, d, online)
          \/ MatchStart(w, d) \/ RideEnds(w, d) \/ LowBalanceOffline(w, d)
    BY <1>4 DEF Arrive
  <2>2. CASE \/ Onboard(w, d) \/ Suspend(w, d) \/ RideEnds(w, d) \/ LowBalanceOffline(w, d)
             \/ \E doc \in Documents : UploadDocument(w, d, doc)
    BY <1>3, <2>2 DEF Onboard, Suspend, RideEnds, LowBalanceOffline, UploadDocument, Free
  <2>3. CASE \/ ReinstateStart(w, d) \/ RenewStart(w, d) \/ VerifyStart(w, d) \/ MatchStart(w, d)
             \/ \E online \in BOOLEAN : ToggleStart(w, d, online)
    BY <1>1, <2>3 DEF ReinstateStart, RenewStart, VerifyStart, MatchStart, ToggleStart
  <2> QED
    BY <2>1, <2>2, <2>3, StrikeCounted
<1>5. ASSUME NEW w \in Workers, Continue(w) \/ Fault(w) PROVE CountInv' /\ StrikesSuspend
  BY <1>2, <1>5, StrikeAdded DEF Continue, Reinstate, Renew, Verify, Toggle, Match, Fault
<1> QED
  BY <1>3, <1>4, <1>5, StrikesAge DEF Next, SubscriptionCheck, MonthPasses

\* issue_driver_strike: as long as no two strikes of one driver are counted at
\* once, the strike that reaches the limit suspends, whatever the limit and
\* however strikes aged.
THEOREM LastStrikesSuspend == Spec /\ []StrikesApart => ThirdStrikeSuspends
<1>1. Init => CountInv
  BY DEF Init, CountInv, Idle
<1>2. StrikesApart /\ IInv /\ CountInv /\ [Next]_vars => CountInv'
  BY CountKeeps DEF vars, CountInv
<1>3. StrikesApart /\ IInv /\ CountInv /\ [Next]_vars =>
        [\A d \in Drivers :
            strikes'[d] > strikes[d] /\ strikes'[d] >= StrikeLimit
                => account'[d] = "suspended" /\ d \notin Pool']_vars
  BY CountKeeps DEF StrikesSuspend
<1> QED
  BY <1>1, <1>2, <1>3, Inductive, PTL DEF Spec, ThirdStrikeSuspends

=============================================================================
