---------------------------- MODULE WalletProofs ----------------------------
(***************************************************************************)
(* The four invariants of Wallet that hold however handlers overlap, for   *)
(* every number of users, rows and workers and every amount; and that      *)
(* Wallet implements Purse, and its ledger adds up to its balances, as     *)
(* long as no two handlers concern one user.                               *)
(***************************************************************************)
EXTENDS WalletRefines, FiniteSetTheorems, TLAPS

TopupStep == {"submit", "submitFailed", "ipnFail", "ipnFind", "ipnRead", "ipnCredit"}

RideStep == {"complete", "readPassenger", "readDriver", "split", "confirm", "deduct"}

WithdrawalStep == {"hold", "payout", "payoutDone", "payoutFailed"}

OwnedTopup(t) == t \in Topups /\ topup[t].user \in Users

OwnedWithdrawal(x) == x \in Withdrawals /\ withdrawal[x].user \in Users

\* What a handler in flight relies on without looking again.
Sound(w) ==
    /\ req[w].pc \in TopupStep => OwnedTopup(Item(w))
    /\ req[w].pc \in RideStep => Item(w) \in Rides
    /\ req[w].pc \in WithdrawalStep => OwnedWithdrawal(Item(w))
    /\ req[w].pc \in {"ipnFind", "ipnRead", "ipnCredit"} => gateway[Item(w)] = "completed"
    /\ req[w].pc = "payoutDone" => withdrawal[Item(w)].paidOut
    /\ req[w].pc \in {"ipnCredit", "split", "deduct", "payout", "payoutFailed"}
         => req[w].payee \in Nat
    /\ req[w].pc = "hold" => req[w].payee \in Nat /\ req[w].payee >= WithdrawAmount

InFlight == \A w \in Workers : Sound(w)

\* An order exists only for a top-up that somebody started.
OrdersOwned == \A t \in Topups : gateway[t] # "none" => topup[t].user \in Users

RowsOK == PaidRideHasCommission /\ SettledAtGateway /\ OrdersOwned

IInv == TypeOK /\ RowsOK /\ InFlight

\* What no step takes back, and so every other handler may rely on.
Kept ==
    /\ \A t \in Topups : topup[t].user \in Users => topup'[t].user \in Users
    /\ \A t \in Topups : gateway[t] = "completed" => gateway'[t] = "completed"
    /\ \A x \in Withdrawals : withdrawal[x].user \in Users => withdrawal'[x].user \in Users
    /\ \A x \in Withdrawals : withdrawal[x].paidOut => withdrawal'[x].paidOut

-----------------------------------------------------------------------------
(* One worker moves, the others keep what they rely on *)

LEMMA OthersSound ==
    ASSUME TypeOK, InFlight, Kept, NEW w \in Workers, NEW q \in Request,
           req' = [req EXCEPT ![w] = q], Sound(w)'
    PROVE  req' \in [Workers -> Request] /\ InFlight'
<1>1. req' \in [Workers -> Request]
  BY DEF TypeOK
<1>2. ASSUME NEW v \in Workers, v # w PROVE Sound(v)'
  <2>1. req'[v] = req[v] /\ Sound(v)
    BY <1>2 DEF TypeOK, InFlight
  <2> QED
    BY <2>1 DEF Sound, Kept, Item, OwnedTopup, OwnedWithdrawal, TopupStep, WithdrawalStep
<1> QED
  BY <1>1, <1>2 DEF InFlight

LEMMA DoneMove ==
    ASSUME TypeOK, InFlight, Kept, NEW w \in Workers, Done(w)
    PROVE  req' \in [Workers -> Request] /\ InFlight'
<1>1. Idle \in Request
  BY DEF Idle, Request, Step
<1>2. req' = [req EXCEPT ![w] = Idle] /\ req'[w] = Idle
  BY DEF Done, TypeOK
<1>3. Sound(w)'
  BY <1>2 DEF Sound, Idle, TopupStep, RideStep, WithdrawalStep
<1> QED
  BY <1>1, <1>2, <1>3, OthersSound

\* A move that changes the step, and perhaps the item and the balances read.
LEMMA Move ==
    ASSUME TypeOK, InFlight, Kept, NEW w \in Workers, NEW q \in Request,
           req' = [req EXCEPT ![w] = q], req'[w] = q => Sound(w)'
    PROVE  req' \in [Workers -> Request] /\ InFlight'
<1>1. req'[w] = q
  BY DEF TypeOK
<1> QED
  BY <1>1, OthersSound

LEMMA GotoMove ==
    ASSUME TypeOK, InFlight, Kept, NEW w \in Workers, NEW pc \in Step, Goto(w, pc),
           /\ req'[w].pc = pc /\ req'[w].item = req[w].item
           /\ req'[w].payee = req[w].payee
           => Sound(w)'
    PROVE  req' \in [Workers -> Request] /\ InFlight'
<1> DEFINE q == [req[w] EXCEPT !.pc = pc]
<1>1. q \in Request
  BY DEF TypeOK, Request
<1>2. q.pc = pc /\ q.item = req[w].item /\ q.payee = req[w].payee
  BY DEF TypeOK, Request
<1>3. req' = [req EXCEPT ![w] = q]
  BY DEF Goto
<1> HIDE DEF q
<1> QED
  BY <1>1, <1>2, <1>3, Move

LEMMA BeginMove ==
    ASSUME TypeOK, InFlight, Kept, NEW w \in Workers, NEW pc \in Step,
           NEW i \in Topups \cup Rides \cup Withdrawals, NEW b \in Nat \cup {None},
           Begin(w, pc, i, b),
           req'[w].pc = pc /\ req'[w].item = i /\ req'[w].payee = b => Sound(w)'
    PROVE  req' \in [Workers -> Request] /\ InFlight'
<1> DEFINE q == [pc |-> pc, item |-> i, payer |-> 0, payee |-> b]
<1>1. q \in Request
  BY DEF Request
<1>2. q.pc = pc /\ q.item = i /\ q.payee = b
  OBVIOUS
<1>3. req' = [req EXCEPT ![w] = q]
  BY DEF Begin
<1> HIDE DEF q
<1> QED
  BY <1>1, <1>2, <1>3, Move

LEMMA RowsSame ==
    ASSUME RowsOK, UNCHANGED <<topup, gateway, ride, withdrawal>>
    PROVE  RowsOK' /\ Kept
BY DEF RowsOK, PaidRideHasCommission, SettledAtGateway, OrdersOwned, Kept

-----------------------------------------------------------------------------
(* Writes to the rows *)

LEMMA TopupWrite ==
    ASSUME TypeOK, RowsOK, NEW t \in Topups, NEW s \in TransactionStatus,
           s = "COMPLETED" => gateway[t] = "completed",
           topup' = [topup EXCEPT ![t].status = s], UNCHANGED <<gateway, ride, withdrawal>>
    PROVE  topup' \in [Topups -> TopupRow] /\ RowsOK' /\ Kept
<1>1. \A x \in Topups : /\ topup'[x].user = topup[x].user
                        /\ topup'[x].status = IF x = t THEN s ELSE topup[x].status
  BY DEF TypeOK, TopupRow
<1>2. topup' \in [Topups -> TopupRow]
  BY DEF TypeOK, TopupRow
<1> QED
  BY <1>1, <1>2 DEF RowsOK, PaidRideHasCommission, SettledAtGateway, OrdersOwned, Kept

LEMMA RideWrite ==
    ASSUME TypeOK, RowsOK, NEW r \in Rides, NEW row \in RideRow,
           row.status = "PAID" => row.commissions > 0,
           ride' = [ride EXCEPT ![r] = row], UNCHANGED <<topup, gateway, withdrawal>>
    PROVE  ride' \in [Rides -> RideRow] /\ RowsOK' /\ Kept
<1>1. \A x \in Rides : ride'[x] = IF x = r THEN row ELSE ride[x]
  BY DEF TypeOK
<1>2. ride' \in [Rides -> RideRow]
  BY DEF TypeOK
<1> QED
  BY <1>1, <1>2 DEF RowsOK, PaidRideHasCommission, SettledAtGateway, OrdersOwned, Kept

LEMMA WithdrawalWrite ==
    ASSUME TypeOK, RowsOK, NEW x \in Withdrawals, NEW row \in WithdrawalRow,
           row.status = "COMPLETED" => row.paidOut,
           withdrawal[x].user \in Users => row.user \in Users,
           withdrawal[x].paidOut => row.paidOut,
           withdrawal' = [withdrawal EXCEPT ![x] = row], UNCHANGED <<topup, gateway, ride>>
    PROVE  /\ withdrawal' \in [Withdrawals -> WithdrawalRow] /\ withdrawal'[x] = row
           /\ RowsOK' /\ Kept
<1>1. \A y \in Withdrawals : withdrawal'[y] = IF y = x THEN row ELSE withdrawal[y]
  BY DEF TypeOK
<1>2. withdrawal' \in [Withdrawals -> WithdrawalRow]
  BY DEF TypeOK
<1> QED
  BY <1>1, <1>2 DEF RowsOK, PaidRideHasCommission, SettledAtGateway, OrdersOwned, Kept

-----------------------------------------------------------------------------
(* Every step of a running handler *)

LEMMA ContinueKeeps ==
    ASSUME IInv, NEW w \in Workers, Continue(w)
    PROVE  IInv'
<1> USE DEF At
<1>0. TypeOK /\ RowsOK /\ InFlight /\ Sound(w)
  BY DEF IInv, InFlight
<1> DEFINE i == Item(w)
<1> USE DEF Item
<1>1. CASE SubmitOrder(w)
  <2>1. i \in Topups /\ topup[i].user \in Users
    BY <1>0, <1>1 DEF SubmitOrder, Sound, TopupStep, OwnedTopup
  <2>2. UNCHANGED <<balance, topup, ride, withdrawal, faults>>
    BY <1>1 DEF SubmitOrder
  <2>3. CASE gateway' = [gateway EXCEPT ![i] = Registered(@)] /\ Done(w)
    <3>1. \A t \in Topups : gateway'[t] = IF t = i THEN Registered(gateway[t]) ELSE gateway[t]
      BY <1>0, <2>3 DEF TypeOK
    <3>2. gateway' \in [Topups -> Gateway]
      BY <1>0, <2>3 DEF TypeOK, Gateway, Registered
    <3>3. RowsOK' /\ Kept
      BY <1>0, <2>1, <2>2, <2>3, <3>1 DEF RowsOK, PaidRideHasCommission, SettledAtGateway,
         OrdersOwned, Kept, Registered
    <3>4. req' \in [Workers -> Request] /\ InFlight'
      BY <1>0, <2>3, <3>3, DoneMove
    <3> QED
      BY <1>0, <2>2, <3>2, <3>3, <3>4 DEF IInv, TypeOK
  <2>4. CASE Goto(w, "submitFailed") /\ UNCHANGED gateway
    <3>1. RowsOK' /\ Kept
      BY <1>0, <2>2, <2>4, RowsSame
    <3>2. req' \in [Workers -> Request] /\ InFlight'
      BY <1>0, <2>1, <2>2, <2>4, <3>1, GotoMove
         DEF Step, Sound, TopupStep, RideStep, WithdrawalStep, OwnedTopup
    <3> QED
      BY <1>0, <2>2, <2>4, <3>1, <3>2 DEF IInv, TypeOK
  <2> QED
    BY <1>1, <2>3, <2>4 DEF SubmitOrder
<1>2. ASSUME NEW pc \in {"submitFailed", "ipnFail"}, FailTopup(w, pc) PROVE IInv'
  <2>1. i \in Topups
    BY <1>0, <1>2 DEF FailTopup, Sound, TopupStep, OwnedTopup
  <2>2. topup' = [topup EXCEPT ![i].status = "FAILED"] /\ Done(w)
        /\ UNCHANGED <<balance, gateway, ride, withdrawal, faults>>
    BY <1>2 DEF FailTopup
  <2>3. topup' \in [Topups -> TopupRow] /\ RowsOK' /\ Kept
    BY <1>0, <2>1, <2>2, TopupWrite DEF TransactionStatus
  <2>4. req' \in [Workers -> Request] /\ InFlight'
    BY <1>0, <2>2, <2>3, DoneMove
  <2> QED
    BY <1>0, <2>2, <2>3, <2>4 DEF IInv, TypeOK
<1>3. CASE IpnFind(w)
  <2>1. OwnedTopup(i) /\ gateway[i] = "completed"
    BY <1>0, <1>3 DEF IpnFind, Sound, TopupStep
  <2>2. UNCHANGED <<balance, topup, gateway, ride, withdrawal, faults>>
        /\ (Goto(w, "ipnRead") \/ Done(w))
    BY <1>3 DEF IpnFind
  <2>3. RowsOK' /\ Kept
    BY <1>0, <2>2, RowsSame
  <2>4. CASE Goto(w, "ipnRead")
    <3>1. req' \in [Workers -> Request] /\ InFlight'
      BY <1>0, <2>1, <2>2, <2>3, <2>4, GotoMove
         DEF Step, Sound, TopupStep, RideStep, WithdrawalStep, OwnedTopup
    <3> QED
      BY <1>0, <2>2, <2>3, <3>1 DEF IInv, TypeOK
  <2>5. CASE Done(w)
    <3>1. req' \in [Workers -> Request] /\ InFlight'
      BY <1>0, <2>3, <2>5, DoneMove
    <3> QED
      BY <1>0, <2>2, <2>3, <3>1 DEF IInv, TypeOK
  <2> QED
    BY <2>2, <2>4, <2>5
<1>4. CASE IpnRead(w)
  <2> DEFINE b == balance[topup[i].user]
         q == [req[w] EXCEPT !.pc = "ipnCredit", !.payee = b]
  <2>1. OwnedTopup(i) /\ gateway[i] = "completed" /\ b \in Nat
    BY <1>0, <1>4 DEF IpnRead, Sound, TopupStep, OwnedTopup, TypeOK
  <2>2. UNCHANGED <<balance, topup, gateway, ride, withdrawal, faults>>
        /\ req' = [req EXCEPT ![w] = q]
    BY <1>4 DEF IpnRead
  <2> HIDE DEF b
  <2>0. q \in Request /\ q.pc = "ipnCredit" /\ q.item = i /\ q.payee = b
    BY <1>0, <2>1 DEF TypeOK, Request, Step
  <2> HIDE DEF q
  <2>3. RowsOK' /\ Kept
    BY <1>0, <2>2, RowsSame
  <2>4. req' \in [Workers -> Request] /\ InFlight'
    BY <1>0, <2>1, <2>2, <2>3, <2>0, Move
       DEF Sound, TopupStep, RideStep, WithdrawalStep, OwnedTopup
  <2> QED
    BY <1>0, <2>2, <2>3, <2>4 DEF IInv, TypeOK
<1>5. CASE IpnCredit(w)
  <2>1. OwnedTopup(i) /\ gateway[i] = "completed" /\ req[w].payee \in Nat
    BY <1>0, <1>5 DEF IpnCredit, Sound, TopupStep
  <2>2. topup' = [topup EXCEPT ![i].status = "COMPLETED"] /\ Done(w)
        /\ UNCHANGED <<gateway, ride, withdrawal, faults>>
        /\ balance' = [balance EXCEPT ![topup[i].user] = req[w].payee + TopupAmount]
    BY <1>5 DEF IpnCredit
  <2>3. topup' \in [Topups -> TopupRow] /\ RowsOK' /\ Kept
    BY <1>0, <2>1, <2>2, TopupWrite DEF TransactionStatus, OwnedTopup
  <2>4. req' \in [Workers -> Request] /\ InFlight'
    BY <1>0, <2>2, <2>3, DoneMove
  <2>5. req[w].payee + TopupAmount \in Nat
    BY <2>1, WalletAssumption
  <2>6. balance' \in [Users -> Nat]
    BY <1>0, <2>1, <2>2, <2>5 DEF TypeOK
  <2> QED
    BY <1>0, <2>2, <2>3, <2>4, <2>6 DEF IInv, TypeOK
<1>6. CASE CommitComplete(w)
  <2> DEFINE row == [ride[i] EXCEPT !.status = "COMPLETED"]
  <2>1. i \in Rides
    BY <1>0, <1>6 DEF CommitComplete, Sound, RideStep
  <2>2. row \in RideRow /\ row.status = "COMPLETED"
    BY <1>0, <2>1 DEF TypeOK, RideRow
  <2>3. ride' = [ride EXCEPT ![i] = row] /\ Goto(w, "readPassenger")
        /\ UNCHANGED <<balance, topup, gateway, withdrawal, faults>>
    BY <1>6 DEF CommitComplete
  <2> HIDE DEF row
  <2>4. ride' \in [Rides -> RideRow] /\ RowsOK' /\ Kept
    BY <1>0, <2>1, <2>2, <2>3, RideWrite
  <2>5. req' \in [Workers -> Request] /\ InFlight'
    BY <1>0, <2>1, <2>3, <2>4, GotoMove DEF Step, Sound, TopupStep, RideStep, WithdrawalStep
  <2> QED
    BY <1>0, <2>3, <2>4, <2>5 DEF IInv, TypeOK
<1>7. CASE ReadPassenger(w)
  <2> DEFINE q == [req[w] EXCEPT !.pc = "readDriver", !.payer = balance[ride[i].passenger]]
  <2>1. i \in Rides
    BY <1>0, <1>7 DEF ReadPassenger, Sound, RideStep
  <2>2. balance[ride[i].passenger] \in Nat
    BY <1>0, <2>1 DEF TypeOK, RideRow, Users
  <2>3. q \in Request /\ q.pc = "readDriver" /\ q.item = i
    BY <1>0, <2>2 DEF TypeOK, Request, Step
  <2>4. req' = [req EXCEPT ![w] = q]
        /\ UNCHANGED <<balance, topup, gateway, ride, withdrawal, faults>>
    BY <1>7 DEF ReadPassenger
  <2> HIDE DEF q
  <2>5. RowsOK' /\ Kept
    BY <1>0, <2>4, RowsSame
  <2>6. req' \in [Workers -> Request] /\ InFlight'
    BY <1>0, <2>1, <2>3, <2>4, <2>5, Move DEF Sound, TopupStep, RideStep, WithdrawalStep
  <2> QED
    BY <1>0, <2>4, <2>5, <2>6 DEF IInv, TypeOK
<1>8. CASE ReadDriver(w)
  <2> DEFINE b == IF req[w].payee = None THEN balance[ride[i].driver] ELSE req[w].payee
         q == [req[w] EXCEPT !.pc = "split", !.payee = b]
  <2>1. i \in Rides
    BY <1>0, <1>8 DEF ReadDriver, Sound, RideStep
  <2>2. b \in Nat
    BY <1>0, <2>1, WalletAssumption DEF TypeOK, RideRow, Users, Request
  <2>3. req' = [req EXCEPT ![w] = q]
        /\ UNCHANGED <<balance, topup, gateway, ride, withdrawal, faults>>
    BY <1>8 DEF ReadDriver
  <2> HIDE DEF b
  <2>0. q \in Request /\ q.pc = "split" /\ q.item = i /\ q.payee = b
    BY <1>0, <2>2 DEF TypeOK, Request, Step
  <2> HIDE DEF q
  <2>4. RowsOK' /\ Kept
    BY <1>0, <2>3, RowsSame
  <2>5. req' \in [Workers -> Request] /\ InFlight'
    BY <1>0, <2>1, <2>2, <2>3, <2>4, <2>0, Move
       DEF Sound, TopupStep, RideStep, WithdrawalStep
  <2> QED
    BY <1>0, <2>3, <2>4, <2>5 DEF IInv, TypeOK
<1>9. CASE SplitFare(w)
  <2> DEFINE row == [ride[i] EXCEPT !.status = "PAID", !.payments = @ + 1, !.commissions = @ + 1]
  <2>1. i \in Rides /\ req[w].payee \in Nat /\ req[w].payer \in Nat
    BY <1>0, <1>9 DEF SplitFare, Sound, RideStep, TypeOK, Request
  <2>2. row \in RideRow /\ row.commissions > 0
    <3>1. ride[i] \in RideRow
      BY <1>0, <2>1 DEF TypeOK
    <3>2. ride[i].payments + 1 \in Nat /\ ride[i].commissions + 1 \in Nat \ {0}
      BY <3>1 DEF RideRow
    <3>3. row.commissions = ride[i].commissions + 1
      BY <3>1 DEF RideRow
    <3>4. row \in RideRow
      BY <3>1, <3>2 DEF RideRow
    <3> QED
      BY <3>2, <3>3, <3>4
  <2>3. ride' = [ride EXCEPT ![i] = row] /\ Done(w)
        /\ UNCHANGED <<topup, gateway, withdrawal, faults>>
    BY <1>9 DEF SplitFare
  <2>4. balance' \in [Users -> Nat]
    <3>1. req[w].payer - Fare \in Nat /\ req[w].payee + (Fare - Commission) \in Nat
      BY <1>9, <2>1, WalletAssumption DEF SplitFare
    <3>2. balance' = [balance EXCEPT ![ride[i].passenger] = req[w].payer - Fare,
                                     ![ride[i].driver] = req[w].payee + (Fare - Commission)]
      BY <1>9 DEF SplitFare
    <3> QED
      BY <1>0, <3>1, <3>2 DEF TypeOK
  <2> HIDE DEF row
  <2>5. ride' \in [Rides -> RideRow] /\ RowsOK' /\ Kept
    BY <1>0, <2>1, <2>2, <2>3, RideWrite
  <2>6. req' \in [Workers -> Request] /\ InFlight'
    BY <1>0, <2>3, <2>5, DoneMove
  <2> QED
    BY <1>0, <2>3, <2>4, <2>5, <2>6 DEF IInv, TypeOK
<1>10. CASE InsufficientBalance(w)
  <2>1. UNCHANGED <<balance, topup, gateway, ride, withdrawal, faults>> /\ Done(w)
    BY <1>10 DEF InsufficientBalance
  <2>2. RowsOK' /\ Kept
    BY <1>0, <2>1, RowsSame
  <2>3. req' \in [Workers -> Request] /\ InFlight'
    BY <1>0, <2>1, <2>2, DoneMove
  <2> QED
    BY <1>0, <2>1, <2>2, <2>3 DEF IInv, TypeOK
<1>11. CASE ConfirmRead(w)
  <2> DEFINE b == balance[ride[i].driver]
         q == [req[w] EXCEPT !.pc = "deduct", !.payee = b]
  <2>1. i \in Rides
    BY <1>0, <1>11 DEF ConfirmRead, Sound, RideStep
  <2>2. b \in Nat
    BY <1>0, <2>1 DEF TypeOK, RideRow, Users
  <2>3. req' = [req EXCEPT ![w] = q]
        /\ UNCHANGED <<balance, topup, gateway, ride, withdrawal, faults>>
    BY <1>11 DEF ConfirmRead
  <2> HIDE DEF b
  <2>0. q \in Request /\ q.pc = "deduct" /\ q.item = i /\ q.payee = b
    BY <1>0, <2>2 DEF TypeOK, Request, Step
  <2> HIDE DEF q
  <2>4. RowsOK' /\ Kept
    BY <1>0, <2>3, RowsSame
  <2>5. req' \in [Workers -> Request] /\ InFlight'
    BY <1>0, <2>1, <2>2, <2>3, <2>4, <2>0, Move
       DEF Sound, TopupStep, RideStep, WithdrawalStep
  <2> QED
    BY <1>0, <2>3, <2>4, <2>5 DEF IInv, TypeOK
<1>12. CASE DeductCommission(w)
  <2> DEFINE row == [ride[i] EXCEPT !.status = "PAID", !.commissions = @ + 1]
  <2>1. i \in Rides /\ req[w].payee \in Nat
    BY <1>0, <1>12 DEF DeductCommission, Sound, RideStep
  <2>2. row \in RideRow /\ row.commissions > 0
    <3>1. ride[i] \in RideRow
      BY <1>0, <2>1 DEF TypeOK
    <3>2. ride[i].payments + 1 \in Nat /\ ride[i].commissions + 1 \in Nat \ {0}
      BY <3>1 DEF RideRow
    <3>3. row.commissions = ride[i].commissions + 1
      BY <3>1 DEF RideRow
    <3>4. row \in RideRow
      BY <3>1, <3>2 DEF RideRow
    <3> QED
      BY <3>2, <3>3, <3>4
  <2>3. ride' = [ride EXCEPT ![i] = row] /\ Done(w)
        /\ UNCHANGED <<topup, gateway, withdrawal, faults>>
        /\ balance' = [balance EXCEPT ![ride[i].driver] = LessCommission(req[w].payee)]
    BY <1>12 DEF DeductCommission
  <2>4. LessCommission(req[w].payee) \in Nat
    BY <2>1, WalletAssumption DEF LessCommission
  <2>5. balance' \in [Users -> Nat]
    BY <1>0, <2>3, <2>4 DEF TypeOK
  <2> HIDE DEF row
  <2>6. ride' \in [Rides -> RideRow] /\ RowsOK' /\ Kept
    BY <1>0, <2>1, <2>2, <2>3, RideWrite
  <2>7. req' \in [Workers -> Request] /\ InFlight'
    BY <1>0, <2>3, <2>6, DoneMove
  <2> QED
    BY <1>0, <2>3, <2>5, <2>6, <2>7 DEF IInv, TypeOK
<1>13. CASE WithdrawHold(w)
  <2> DEFINE new == req[w].payee - WithdrawAmount
             row == [withdrawal[i] EXCEPT !.status = "PENDING"]
             q == [req[w] EXCEPT !.pc = "payout", !.payee = new]
  <2>1. OwnedWithdrawal(i) /\ new \in Nat
    BY <1>0, <1>13, WalletAssumption DEF WithdrawHold, Sound, WithdrawalStep
  <2>2. row \in WithdrawalRow /\ row.status = "PENDING" /\ row.user = withdrawal[i].user
        /\ row.paidOut = withdrawal[i].paidOut
    BY <1>0, <2>1 DEF TypeOK, WithdrawalRow, TransactionStatus, OwnedWithdrawal
  <2>3. q \in Request /\ q.pc = "payout" /\ q.item = i /\ q.payee = new
    BY <1>0, <2>1 DEF TypeOK, Request, Step
  <2>4. withdrawal' = [withdrawal EXCEPT ![i] = row] /\ req' = [req EXCEPT ![w] = q]
        /\ UNCHANGED <<topup, gateway, ride, faults>>
        /\ balance' = [balance EXCEPT ![withdrawal[i].user] = new]
    BY <1>13 DEF WithdrawHold
  <2> HIDE DEF row, q, new
  <2>5. balance' \in [Users -> Nat]
    BY <1>0, <2>1, <2>4 DEF TypeOK
  <2>6. /\ withdrawal' \in [Withdrawals -> WithdrawalRow] /\ withdrawal'[i] = row
        /\ RowsOK' /\ Kept
    BY <1>0, <2>1, <2>2, <2>4, WithdrawalWrite DEF OwnedWithdrawal
  <2>7. req' \in [Workers -> Request] /\ InFlight'
    BY <1>0, <2>1, <2>2, <2>3, <2>4, <2>6, Move
       DEF Sound, TopupStep, RideStep, WithdrawalStep, OwnedWithdrawal
  <2> QED
    BY <1>0, <2>4, <2>5, <2>6, <2>7 DEF IInv, TypeOK
<1>14. CASE Payout(w)
  <2> DEFINE row == [withdrawal[i] EXCEPT !.paidOut = TRUE]
  <2>1. OwnedWithdrawal(i) /\ req[w].payee \in Nat
    BY <1>0, <1>14 DEF Payout, Sound, WithdrawalStep
  <2>2. row \in WithdrawalRow /\ row.paidOut /\ row.user = withdrawal[i].user
    BY <1>0, <2>1 DEF TypeOK, WithdrawalRow, OwnedWithdrawal
  <2>3. UNCHANGED <<balance, topup, gateway, ride, faults>>
    BY <1>14 DEF Payout
  <2>4. CASE /\ withdrawal' = [withdrawal EXCEPT ![i] = row]
             /\ Goto(w, "payoutDone") \/ Goto(w, "payoutFailed")
    <3> HIDE DEF row
    <3>1. /\ withdrawal' \in [Withdrawals -> WithdrawalRow] /\ withdrawal'[i] = row
          /\ RowsOK' /\ Kept
      BY <1>0, <2>1, <2>2, <2>3, <2>4, WithdrawalWrite DEF OwnedWithdrawal
    <3>2. ASSUME NEW pc \in {"payoutDone", "payoutFailed"}, Goto(w, pc)
          PROVE  req' \in [Workers -> Request] /\ InFlight'
      <4>1. pc \in Step
        BY DEF Step
      <4> QED
        BY <1>0, <2>1, <2>2, <3>1, <3>2, <4>1, GotoMove
           DEF Sound, TopupStep, RideStep, WithdrawalStep, OwnedWithdrawal
    <3>3. req' \in [Workers -> Request] /\ InFlight'
      BY <2>4, <3>2
    <3> QED
      BY <1>0, <2>3, <3>1, <3>3 DEF IInv, TypeOK
  <2>5. CASE Goto(w, "payoutFailed") /\ UNCHANGED withdrawal
    <3>1. RowsOK' /\ Kept
      BY <1>0, <2>3, <2>5, RowsSame
    <3>2. req' \in [Workers -> Request] /\ InFlight'
      BY <1>0, <2>1, <2>5, <3>1, GotoMove
         DEF Step, Sound, TopupStep, RideStep, WithdrawalStep, OwnedWithdrawal
    <3> QED
      BY <1>0, <2>3, <2>5, <3>1, <3>2 DEF IInv, TypeOK
  <2> QED
    BY <1>14, <2>4, <2>5 DEF Payout
<1>15. CASE PayoutDone(w)
  <2> DEFINE row == [withdrawal[i] EXCEPT !.status = "COMPLETED"]
  <2>1. OwnedWithdrawal(i) /\ withdrawal[i].paidOut
    BY <1>0, <1>15 DEF PayoutDone, Sound, WithdrawalStep
  <2>2. row \in WithdrawalRow /\ row.paidOut /\ row.user = withdrawal[i].user
    BY <1>0, <2>1 DEF TypeOK, WithdrawalRow, TransactionStatus, OwnedWithdrawal
  <2>3. withdrawal' = [withdrawal EXCEPT ![i] = row] /\ Done(w)
        /\ UNCHANGED <<balance, topup, gateway, ride, faults>>
    BY <1>15 DEF PayoutDone
  <2> HIDE DEF row
  <2>4. withdrawal' \in [Withdrawals -> WithdrawalRow] /\ RowsOK' /\ Kept
    BY <1>0, <2>1, <2>2, <2>3, WithdrawalWrite DEF OwnedWithdrawal
  <2>5. req' \in [Workers -> Request] /\ InFlight'
    BY <1>0, <2>3, <2>4, DoneMove
  <2> QED
    BY <1>0, <2>3, <2>4, <2>5 DEF IInv, TypeOK
<1>16. CASE PayoutFails(w)
  <2> DEFINE row == [withdrawal[i] EXCEPT !.status = "FAILED"]
  <2>1. OwnedWithdrawal(i) /\ req[w].payee \in Nat
    BY <1>0, <1>16 DEF PayoutFails, Sound, WithdrawalStep
  <2>2. row \in WithdrawalRow /\ row.status = "FAILED" /\ row.user = withdrawal[i].user
        /\ row.paidOut = withdrawal[i].paidOut
    BY <1>0, <2>1 DEF TypeOK, WithdrawalRow, TransactionStatus, OwnedWithdrawal
  <2>3. withdrawal' = [withdrawal EXCEPT ![i] = row] /\ Done(w)
        /\ UNCHANGED <<topup, gateway, ride, faults>>
        /\ balance' = [balance EXCEPT ![withdrawal[i].user] = req[w].payee]
    BY <1>16 DEF PayoutFails
  <2> HIDE DEF row
  <2>4. withdrawal' \in [Withdrawals -> WithdrawalRow] /\ RowsOK' /\ Kept
    BY <1>0, <2>1, <2>2, <2>3, WithdrawalWrite DEF OwnedWithdrawal
  <2>5. req' \in [Workers -> Request] /\ InFlight'
    BY <1>0, <2>3, <2>4, DoneMove
  <2>6. balance' \in [Users -> Nat]
    BY <1>0, <2>1, <2>3 DEF TypeOK
  <2> QED
    BY <1>0, <2>3, <2>4, <2>5, <2>6 DEF IInv, TypeOK
<1> QED
  BY <1>1, <1>2, <1>3, <1>4, <1>5, <1>6, <1>7, <1>8, <1>9, <1>10, <1>11, <1>12, <1>13, <1>14,
     <1>15, <1>16 DEF Continue, SubmitFails, IpnFails

-----------------------------------------------------------------------------
(* Requests arriving, late taps, PesaPal, failures *)

\* The two ids of a callback are those of one order (NotificationsMatch).
LEMMA OwnIds ==
    ASSUME NEW n \in Notified
    PROVE  n[1] \in Topups /\ n[2] = n[1]
<1>1. PICK t \in Topups : n = <<t, t>>
  BY NotificationsMatch
<1> QED
  BY <1>1

LEMMA ArriveKeeps ==
    ASSUME IInv, NEW w \in Workers, Arrive(w)
    PROVE  IInv'
<1> USE DEF Item
<1>0. TypeOK /\ RowsOK /\ InFlight
  BY DEF IInv
<1>1. ASSUME NEW t \in Topups, IpnStart(w, t, t) PROVE IInv'
  <2> DEFINE pc == IF gateway[t] = "completed" THEN "ipnFind" ELSE "ipnFail"
  <2>1. OwnedTopup(t)
    BY <1>0, <1>1 DEF IpnStart, RowsOK, OrdersOwned, OwnedTopup
  <2>2. Begin(w, pc, t, None) /\ UNCHANGED <<balance, topup, gateway, ride, withdrawal, faults>>
    BY <1>1 DEF IpnStart
  <2>3. pc \in Step /\ pc \in {"ipnFind", "ipnFail"} /\ (pc = "ipnFind" => gateway[t] = "completed")
    BY DEF Step
  <2> HIDE DEF pc
  <2>4. RowsOK' /\ Kept
    BY <1>0, <2>2, RowsSame
  <2>5. req' \in [Workers -> Request] /\ InFlight'
    BY <1>0, <2>1, <2>2, <2>3, <2>4, BeginMove
       DEF Sound, TopupStep, RideStep, WithdrawalStep, OwnedTopup
  <2> QED
    BY <1>0, <2>2, <2>4, <2>5 DEF IInv, TypeOK
<1>2. ASSUME NEW t \in Topups, NEW u \in Users, TopupStart(w, t, u) PROVE IInv'
  <2> DEFINE row == [status |-> "PENDING", user |-> u]
  <2>1. row \in TopupRow
    BY DEF TopupRow, TransactionStatus
  <2>2. topup' = [topup EXCEPT ![t] = row] /\ Begin(w, "submit", t, None)
        /\ UNCHANGED <<balance, gateway, ride, withdrawal, faults>>
    BY <1>2 DEF TopupStart
  <2>3. topup' \in [Topups -> TopupRow]
    BY <1>0, <2>1, <2>2 DEF TypeOK
  <2>4. \A x \in Topups : topup'[x] = IF x = t THEN row ELSE topup[x]
    BY <1>0, <2>2 DEF TypeOK
  <2>5. RowsOK' /\ Kept
    BY <1>0, <2>2, <2>4 DEF RowsOK, PaidRideHasCommission, SettledAtGateway, OrdersOwned, Kept
  <2>6. topup'[t].user \in Users
    BY <2>4
  <2> HIDE DEF row
  <2>7. req' \in [Workers -> Request] /\ InFlight'
    BY <1>0, <2>2, <2>5, <2>6, BeginMove
       DEF Step, Sound, TopupStep, RideStep, WithdrawalStep, OwnedTopup
  <2> QED
    BY <1>0, <2>2, <2>3, <2>5, <2>7 DEF IInv, TypeOK
<1>3. ASSUME NEW r \in Rides, NEW pc \in {"complete", "confirm"}, NEW b \in Nat \cup {None},
             Begin(w, pc, r, b), UNCHANGED <<balance, topup, gateway, ride, withdrawal, faults>>
      PROVE  IInv'
  <2>1. RowsOK' /\ Kept
    BY <1>0, <1>3, RowsSame
  <2>2. pc \in Step
    BY DEF Step
  <2>3. req' \in [Workers -> Request] /\ InFlight'
    BY <1>0, <1>3, <2>1, <2>2, BeginMove DEF Sound, TopupStep, RideStep, WithdrawalStep
  <2> QED
    BY <1>0, <1>3, <2>1, <2>3 DEF IInv, TypeOK
<1>4. ASSUME NEW r \in Rides, CompleteTap(w, r) PROVE IInv'
  <2>1. balance[ride[r].driver] \in Nat
    BY <1>0 DEF TypeOK, RideRow, Users
  <2> QED
    BY <1>3, <1>4, <2>1 DEF CompleteTap
<1>5. ASSUME NEW r \in Rides, CompleteTask(w, r) \/ ConfirmStart(w, r) PROVE IInv'
  BY <1>3, <1>5 DEF CompleteTask, ConfirmStart
<1>6. ASSUME NEW x \in Withdrawals, NEW u \in Drivers, WithdrawStart(w, x, u) PROVE IInv'
  <2> DEFINE row == [withdrawal[x] EXCEPT !.user = u]
             b == balance[u]
  <2>1. row \in WithdrawalRow /\ row.user \in Users /\ row.status = "NONE"
        /\ row.paidOut = withdrawal[x].paidOut
    BY <1>0, <1>6 DEF TypeOK, WithdrawalRow, Users, WithdrawStart
  <2>2. withdrawal' = [withdrawal EXCEPT ![x] = row] /\ Begin(w, "hold", x, b)
        /\ UNCHANGED <<balance, topup, gateway, ride, faults>>
    BY <1>6 DEF WithdrawStart
  <2>3. b \in Nat /\ b >= WithdrawAmount
    BY <1>0, <1>6 DEF TypeOK, Users, WithdrawStart
  <2> HIDE DEF row, b
  <2>4. /\ withdrawal' \in [Withdrawals -> WithdrawalRow] /\ withdrawal'[x] = row
        /\ RowsOK' /\ Kept
    BY <1>0, <2>1, <2>2, WithdrawalWrite
  <2>5. req' \in [Workers -> Request] /\ InFlight'
    BY <1>0, <2>1, <2>2, <2>3, <2>4, BeginMove
       DEF Step, Sound, TopupStep, RideStep, WithdrawalStep, OwnedWithdrawal
  <2> QED
    BY <1>0, <2>2, <2>4, <2>5 DEF IInv, TypeOK
<1>7. ASSUME NEW n \in Notified, IpnStart(w, n[1], n[2]) PROVE IInv'
  BY <1>1, <1>7, OwnIds
<1> QED
  BY <1>2, <1>4, <1>5, <1>6, <1>7 DEF Arrive

\* A late tap puts a ride on the road again; it loses no row of its ledger.
LEMMA ReopenKeeps ==
    ASSUME IInv, NEW r \in Rides, Reopen(r)
    PROVE  IInv'
<1> DEFINE row == [ride[r] EXCEPT !.status = "RIDING", !.openings = @ + 1]
<1>1. TypeOK /\ RowsOK /\ InFlight
  BY DEF IInv
<1>2. row \in RideRow /\ row.status # "PAID"
  <2>1. ride[r] \in RideRow
    BY <1>1 DEF TypeOK
  <2>2. ride[r].openings + 1 \in Nat
    BY <2>1 DEF RideRow
  <2> QED
    BY <2>1, <2>2 DEF RideRow
<1>3. ride' = [ride EXCEPT ![r] = row]
      /\ UNCHANGED <<balance, topup, gateway, withdrawal, req, faults>>
  BY DEF Reopen
<1> HIDE DEF row
<1>4. ride' \in [Rides -> RideRow] /\ RowsOK'
  BY <1>1, <1>2, <1>3, RideWrite
<1>5. InFlight'
  BY <1>1, <1>3 DEF InFlight, Sound, Item, OwnedTopup, OwnedWithdrawal
<1> QED
  BY <1>1, <1>3, <1>4, <1>5 DEF IInv, TypeOK

LEMMA GatewayKeeps ==
    ASSUME IInv, NEW t \in Topups, GatewaySettles(t)
    PROVE  IInv'
<1>1. PICK s \in {"completed", "failed"} : gateway' = [gateway EXCEPT ![t] = s]
  BY DEF GatewaySettles
<1>2. UNCHANGED <<balance, topup, ride, withdrawal, req, faults>> /\ gateway[t] = "pending"
  BY DEF GatewaySettles
<1>3. \A x \in Topups : gateway'[x] = IF x = t THEN s ELSE gateway[x]
  BY <1>1 DEF IInv, TypeOK
<1>4. gateway' \in [Topups -> Gateway]
  BY <1>1 DEF IInv, TypeOK, Gateway
<1>5. RowsOK'
  BY <1>2, <1>3 DEF IInv, RowsOK, PaidRideHasCommission, SettledAtGateway, OrdersOwned
<1>6. InFlight'
  BY <1>2, <1>3 DEF IInv, InFlight, Sound, Item, OwnedTopup, OwnedWithdrawal, TopupStep
<1> QED
  BY <1>2, <1>4, <1>5, <1>6 DEF IInv, TypeOK

LEMMA FaultKeeps ==
    ASSUME IInv, NEW w \in Workers, Fault(w)
    PROVE  IInv'
<1>1. UNCHANGED <<balance, topup, gateway, ride, withdrawal>> /\ Done(w)
  BY DEF Fault
<1>2. RowsOK' /\ Kept
  BY <1>1, RowsSame DEF IInv
<1>3. req' \in [Workers -> Request] /\ InFlight'
  BY <1>1, <1>2, DoneMove DEF IInv
<1>4. faults' \in 0 .. MaxFaults
  BY WalletAssumption DEF Fault, IInv, TypeOK
<1> QED
  BY <1>1, <1>2, <1>3, <1>4 DEF IInv, TypeOK

LEMMA InitHolds == Init => IInv
<1> SUFFICES ASSUME Init PROVE IInv
  OBVIOUS
<1>1. TypeOK
  BY WalletAssumption DEF Init, TypeOK, TopupRow, WithdrawalRow, RideRow, TransactionStatus,
     Gateway, Request, Step, Idle
<1>2. RowsOK
  BY DEF Init, RowsOK, PaidRideHasCommission, SettledAtGateway, OrdersOwned
<1>3. InFlight
  BY DEF Init, InFlight, Sound, Idle, TopupStep, RideStep, WithdrawalStep
<1> QED
  BY <1>1, <1>2, <1>3 DEF IInv

LEMMA NextKeeps == IInv /\ [Next]_vars => IInv'
<1> SUFFICES ASSUME IInv, [Next]_vars PROVE IInv'
  OBVIOUS
<1>1. ASSUME NEW w \in Workers, Arrive(w) \/ Continue(w) \/ Fault(w) PROVE IInv'
  BY <1>1, ArriveKeeps, ContinueKeeps, FaultKeeps
<1>2. ASSUME NEW t \in Topups, GatewaySettles(t) PROVE IInv'
  BY <1>2, GatewayKeeps
<1>3. ASSUME NEW r \in Rides, Reopen(r) PROVE IInv'
  BY <1>3, ReopenKeeps
<1>4. CASE UNCHANGED vars
  BY <1>4 DEF vars, IInv, TypeOK, RowsOK, PaidRideHasCommission, SettledAtGateway, OrdersOwned,
     InFlight, Sound, Item, OwnedTopup, OwnedWithdrawal
<1> QED
  BY <1>1, <1>2, <1>3, <1>4 DEF Next

-----------------------------------------------------------------------------
(* The theorems *)

LEMMA Inductive == Spec => []IInv
  BY InitHolds, NextKeeps, PTL DEF Spec

\* No interleaving of top-ups, rides, commissions and withdrawals makes a
\* balance negative (ck_wallet_non_negative), although each of them tests one
\* reading of the balance and writes over another: what it writes is computed
\* from the reading it tested.
THEOREM BalancesNeverNegative == Spec => []TypeOK
<1>1. IInv => TypeOK
  BY DEF IInv
<1> QED
  BY <1>1, Inductive, PTL

\* process_ride_payment and process_commission_deduction leave no PAID ride
\* without the platform's COMMISSION row.
THEOREM PaidRidesHaveCommission == Spec => []PaidRideHasCommission
<1>1. IInv => PaidRideHasCommission
  BY DEF IInv, RowsOK
<1> QED
  BY <1>1, Inductive, PTL

\* process_ipn_callback completes no top-up PesaPal has not been paid for, and
\* no withdrawal is COMPLETED that PesaPal did not carry out.
THEOREM SettledRowsAreAtGateway == Spec => []SettledAtGateway
<1>1. IInv => SettledAtGateway
  BY DEF IInv, RowsOK
<1> QED
  BY <1>1, Inductive, PTL

-----------------------------------------------------------------------------
(* Completions of one ride that overlap *)

ChargeStep == {"complete", "readPassenger", "readDriver", "split"}

\* The handlers that may yet take the ride's fare.
Charging(r) == {w \in Workers : req[w].pc \in ChargeStep /\ Item(w) = r}

\* Each time a ride is put on the road no more handlers come to charge it than
\* there are, and none before.
ChargedAtMost(r) ==
    LET payments == ride[r].payments
        limit    == ride[r].openings * Cardinality(Workers) IN
    /\ ride[r].status = "RIDING" => payments + Cardinality(Workers) <= limit
    /\ payments + Cardinality(Charging(r)) <= limit

ChargeInv == \A r \in Rides : ChargedAtMost(r)

LEMMA ChargingIsFinite ==
    ASSUME NEW r
    PROVE  /\ IsFiniteSet(Charging(r)) /\ Cardinality(Charging(r)) \in Nat
           /\ Cardinality(Charging(r)) <= Cardinality(Workers) /\ Cardinality(Workers) \in Nat
<1>1. Charging(r) \in SUBSET Workers /\ IsFiniteSet(Workers)
  BY WalletAssumption DEF Charging
<1> QED
  BY <1>1, FS_Subset, FS_CardinalityType

LEMMA Limits ==
    ASSUME NEW n \in Nat
    PROVE  /\ n * Cardinality(Workers) \in Nat
           /\ (n + 1) * Cardinality(Workers) = n * Cardinality(Workers) + Cardinality(Workers)
<1>1. Cardinality(Workers) \in Nat
  BY WalletAssumption, FS_CardinalityType
<1>2. \A m \in Nat : n * m \in Nat /\ (n + 1) * m = n * m + m
  OBVIOUS
<1> QED
  BY <1>1, <1>2

\* A step that takes no fare and adds no handler that might.
LEMMA FewerCharging ==
    ASSUME TypeOK, NEW r \in Rides, ChargedAtMost(r), ride'[r].payments = ride[r].payments,
           ride'[r].openings = ride[r].openings,
           ride'[r].status = "RIDING" => ride[r].status = "RIDING", Charging(r)' \subseteq Charging(r)
    PROVE  ChargedAtMost(r)'
<1>1. /\ Cardinality(Charging(r)') \in Nat /\ Cardinality(Charging(r)) \in Nat
      /\ Cardinality(Charging(r)') <= Cardinality(Charging(r)) /\ Cardinality(Workers) \in Nat
  <2>1. IsFiniteSet(Charging(r)) /\ Charging(r)' \in SUBSET Charging(r)
    BY ChargingIsFinite
  <2>2. IsFiniteSet(Charging(r)') /\ Cardinality(Charging(r)') <= Cardinality(Charging(r))
    BY <2>1, FS_Subset
  <2> QED
    BY <2>1, <2>2, ChargingIsFinite, FS_CardinalityType
<1>2. ride[r].payments \in Nat /\ ride[r].openings * Cardinality(Workers) \in Nat
  BY Limits DEF TypeOK, RideRow
<1> QED
  BY <1>1, <1>2 DEF ChargedAtMost

\* The step of a handler that ends, or that moves on with its item.
LEMMA DoneShrinks == ASSUME TypeOK, NEW w \in Workers, Done(w), NEW r PROVE Charging(r)' \subseteq Charging(r)
<1>1. \A v \in Workers : req'[v] = IF v = w THEN Idle ELSE req[v]
  BY DEF TypeOK, Done
<1>2. Idle.pc \notin ChargeStep
  BY DEF Idle, ChargeStep
<1> QED
  BY <1>1, <1>2 DEF Charging, Item

LEMMA GotoShrinks ==
    ASSUME TypeOK, NEW w \in Workers, NEW pc, Goto(w, pc),
           pc \in ChargeStep => req[w].pc \in ChargeStep, NEW r
    PROVE  Charging(r)' \subseteq Charging(r)
<1>1. \A v \in Workers : /\ req'[v].item = req[v].item
                         /\ req'[v].pc = IF v = w THEN pc ELSE req[v].pc
  BY DEF TypeOK, Request, Goto
<1> QED
  BY <1>1 DEF Charging, Item

\* The fare is taken by a handler that was charging the ride and then ends.
LEMMA SplitCharges ==
    ASSUME IInv, ChargeInv, NEW w \in Workers, SplitFare(w), NEW r \in Rides
    PROVE  ChargedAtMost(r)'
<1>1. TypeOK /\ ChargedAtMost(r) /\ Item(w) \in Rides /\ Done(w)
  BY DEF IInv, InFlight, Sound, RideStep, ChargeInv, SplitFare, At
<1>2. \A x \in Rides : /\ ride'[x].status = IF x = Item(w) THEN "PAID" ELSE ride[x].status
                       /\ ride'[x].payments = IF x = Item(w) THEN ride[x].payments + 1
                                                             ELSE ride[x].payments
  BY <1>1 DEF SplitFare, TypeOK, RideRow
<1>0. ride'[r].openings = ride[r].openings
  BY <1>1 DEF SplitFare, TypeOK, RideRow
<1>3. CASE Item(w) # r
  BY <1>0, <1>1, <1>2, <1>3, DoneShrinks, FewerCharging
<1>4. CASE Item(w) = r
  <2>1. w \in Charging(r)
    BY <1>4 DEF Charging, SplitFare, At, ChargeStep
  <2>2. Charging(r)' = Charging(r) \ {w}
    <3>1. \A v \in Workers : req'[v] = IF v = w THEN Idle ELSE req[v]
      BY <1>1 DEF TypeOK, Done
    <3>2. Idle.pc \notin ChargeStep
      BY DEF Idle, ChargeStep
    <3> QED
      BY <3>1, <3>2 DEF Charging, Item
  <2>3. Cardinality(Charging(r) \ {w}) = Cardinality(Charging(r)) - 1
    BY <2>1, ChargingIsFinite, FS_RemoveElement
  <2>4. ride[r].payments \in Nat /\ ride[r].openings * Cardinality(Workers) \in Nat
    BY <1>1, Limits DEF TypeOK, RideRow
  <2> QED
    BY <1>0, <1>1, <1>2, <1>4, <2>2, <2>3, <2>4, ChargingIsFinite DEF ChargedAtMost
<1> QED
  BY <1>3, <1>4

\* A ride under way has room for a charge by every worker.
LEMMA CompleteCharges ==
    ASSUME TypeOK, ChargeInv, NEW w \in Workers, NEW x \in Rides, CompleteTap(w, x) \/ CompleteTask(w, x),
           NEW r \in Rides
    PROVE  ChargedAtMost(r)'
<1>1. ChargedAtMost(r) /\ UNCHANGED ride
  BY DEF ChargeInv, CompleteTap, CompleteTask
<1>2. CASE ride[r].status = "RIDING"
  <2>1. Cardinality(Charging(r)') <= Cardinality(Workers) /\ Cardinality(Charging(r)') \in Nat
    <3>1. Charging(r)' \in SUBSET Workers /\ IsFiniteSet(Workers)
      BY WalletAssumption DEF Charging
    <3> QED
      BY <3>1, FS_Subset, FS_CardinalityType
  <2>2. ride[r].payments \in Nat /\ ride[r].openings * Cardinality(Workers) \in Nat
    BY Limits DEF TypeOK, RideRow
  <2> QED
    BY <1>1, <1>2, <2>1, <2>2, ChargingIsFinite DEF ChargedAtMost
<1>3. CASE ride[r].status # "RIDING"
  <2>1. x # r
    BY <1>3 DEF CompleteTap, CompleteTask
  <2>2. \A v \in Workers : v # w => req'[v] = req[v]
    BY DEF CompleteTap, CompleteTask, Begin, TypeOK
  <2>3. req'[w].item = x
    BY DEF CompleteTap, CompleteTask, Begin, TypeOK
  <2>4. Charging(r)' \subseteq Charging(r)
    BY <2>1, <2>2, <2>3 DEF Charging, Item
  <2> QED
    BY <1>1, <2>4, FewerCharging
<1> QED
  BY <1>2, <1>3

LEMMA ContinueCharges ==
    ASSUME IInv, ChargeInv, NEW w \in Workers, Continue(w), NEW r \in Rides
    PROVE  ChargedAtMost(r)'
<1>1. TypeOK /\ ChargedAtMost(r) /\ Sound(w)
  BY DEF IInv, InFlight, ChargeInv
<1>2. CASE SplitFare(w)
  BY <1>2, SplitCharges
<1>3. CASE CommitComplete(w)
  <2>1. \A x \in Rides : /\ ride'[x].status = IF x = Item(w) THEN "COMPLETED" ELSE ride[x].status
                         /\ ride'[x].payments = ride[x].payments
                         /\ ride'[x].openings = ride[x].openings
    BY <1>1, <1>3 DEF CommitComplete, At, Sound, RideStep, TypeOK, RideRow
  <2>2. Charging(r)' \subseteq Charging(r)
    BY <1>1, <1>3, GotoShrinks DEF CommitComplete, At, ChargeStep
  <2> QED
    BY <1>1, <2>1, <2>2, FewerCharging
<1>4. CASE DeductCommission(w)
  <2>1. \A x \in Rides : /\ ride'[x].status = IF x = Item(w) THEN "PAID" ELSE ride[x].status
                         /\ ride'[x].payments = ride[x].payments
                         /\ ride'[x].openings = ride[x].openings
    BY <1>1, <1>4 DEF DeductCommission, At, Sound, RideStep, TypeOK, RideRow
  <2>2. Charging(r)' \subseteq Charging(r)
    BY <1>1, <1>4, DoneShrinks DEF DeductCommission
  <2> QED
    BY <1>1, <2>1, <2>2, FewerCharging
<1>5. CASE UNCHANGED ride /\ Charging(r)' \subseteq Charging(r)
  BY <1>1, <1>5, FewerCharging
<1>6. CASE SubmitOrder(w) \/ SubmitFails(w) \/ IpnFails(w) \/ IpnFind(w)
  <2>1. Done(w) \/ Goto(w, "submitFailed") \/ Goto(w, "ipnRead")
    BY <1>6 DEF SubmitOrder, SubmitFails, IpnFails, FailTopup, IpnFind
  <2>2. Charging(r)' \subseteq Charging(r)
    BY <1>1, <2>1, DoneShrinks, GotoShrinks DEF ChargeStep
  <2> QED
    BY <1>5, <1>6, <2>2 DEF SubmitOrder, SubmitFails, IpnFails, FailTopup, IpnFind
<1>7. CASE IpnCredit(w) \/ InsufficientBalance(w) \/ PayoutDone(w) \/ PayoutFails(w)
  BY <1>1, <1>5, <1>7, DoneShrinks DEF IpnCredit, InsufficientBalance, PayoutDone, PayoutFails
<1>8. CASE Payout(w)
  <2>1. Goto(w, "payoutDone") \/ Goto(w, "payoutFailed")
    BY <1>8 DEF Payout
  <2> QED
    BY <1>1, <1>5, <1>8, <2>1, GotoShrinks DEF Payout, ChargeStep
<1>9. CASE IpnRead(w) \/ ConfirmRead(w) \/ WithdrawHold(w) \/ ReadPassenger(w) \/ ReadDriver(w)
  <2>1. \A v \in Workers : v # w => req'[v] = req[v]
    BY <1>1, <1>9 DEF IpnRead, ConfirmRead, WithdrawHold, ReadPassenger, ReadDriver, TypeOK
  <2>2. /\ req'[w].pc \in ChargeStep => req[w].pc \in ChargeStep
        /\ req'[w].item = req[w].item
    BY <1>1, <1>9 DEF IpnRead, ConfirmRead, WithdrawHold, ReadPassenger, ReadDriver, TypeOK, Request,
       At, ChargeStep
  <2>3. Charging(r)' \subseteq Charging(r)
    BY <2>1, <2>2 DEF Charging, Item
  <2> QED
    BY <1>5, <1>9, <2>3 DEF IpnRead, ConfirmRead, WithdrawHold, ReadPassenger, ReadDriver
<1> QED
  BY <1>2, <1>3, <1>4, <1>6, <1>7, <1>8, <1>9 DEF Continue

LEMMA ArriveCharges ==
    ASSUME TypeOK, ChargeInv, NEW w \in Workers, Arrive(w), NEW r \in Rides
    PROVE  ChargedAtMost(r)'
<1>1. ASSUME NEW pc \in Step \ ChargeStep, NEW i, NEW b, Begin(w, pc, i, b) PROVE Charging(r)' \subseteq Charging(r)
  <2>1. \A v \in Workers : v # w => req'[v] = req[v]
    BY <1>1 DEF Begin, TypeOK
  <2>2. req'[w].pc = pc
    BY <1>1 DEF Begin, TypeOK
  <2> QED
    BY <2>1, <2>2 DEF Charging, Item
<1>2. {"submit", "ipnFind", "ipnFail", "confirm", "hold"} \subseteq Step \ ChargeStep
  BY DEF Step, ChargeStep
<1>3. ASSUME UNCHANGED ride, Charging(r)' \subseteq Charging(r) PROVE ChargedAtMost(r)'
  BY <1>3, FewerCharging DEF ChargeInv
<1>4. ASSUME NEW n \in Notified, IpnStart(w, n[1], n[2]) PROVE ChargedAtMost(r)'
  <2>1. Begin(w, "ipnFind", n[2], None) \/ Begin(w, "ipnFail", n[2], None)
    BY <1>4 DEF IpnStart
  <2> QED
    BY <1>1, <1>2, <1>3, <1>4, <2>1 DEF IpnStart
<1>5. ASSUME NEW t \in Topups, NEW u \in Users, TopupStart(w, t, u) PROVE ChargedAtMost(r)'
  BY <1>1, <1>2, <1>3, <1>5 DEF TopupStart
<1>6. ASSUME NEW x \in Rides, CompleteTap(w, x) \/ CompleteTask(w, x) PROVE ChargedAtMost(r)'
  BY <1>6, CompleteCharges
<1>7. ASSUME NEW x \in Rides, ConfirmStart(w, x) PROVE ChargedAtMost(r)'
  BY <1>1, <1>2, <1>3, <1>7 DEF ConfirmStart
<1>8. ASSUME NEW x \in Withdrawals, NEW u \in Drivers, WithdrawStart(w, x, u) PROVE ChargedAtMost(r)'
  BY <1>1, <1>2, <1>3, <1>8 DEF WithdrawStart
<1> QED
  BY <1>4, <1>5, <1>6, <1>7, <1>8 DEF Arrive

\* A late tap makes room for as many charges as before.
LEMMA ReopenCharges ==
    ASSUME TypeOK, ChargeInv, NEW x \in Rides, Reopen(x), NEW r \in Rides
    PROVE  ChargedAtMost(r)'
<1>1. ChargedAtMost(r) /\ Charging(r)' = Charging(r)
  BY DEF ChargeInv, Reopen, Charging, Item
<1>2. CASE x # r
  <2>1. ride'[r] = ride[r]
    BY <1>2 DEF Reopen, TypeOK
  <2> QED
    BY <1>1, <2>1 DEF ChargedAtMost
<1>3. CASE x = r
  <2>1. /\ ride'[r].payments = ride[r].payments /\ ride'[r].openings = ride[r].openings + 1
        /\ ride[r].payments \in Nat /\ ride[r].openings \in Nat
    BY <1>3 DEF Reopen, TypeOK, RideRow
  <2>2. /\ ride[r].openings * Cardinality(Workers) \in Nat
        /\ ride'[r].openings * Cardinality(Workers)
             = ride[r].openings * Cardinality(Workers) + Cardinality(Workers)
    BY <2>1, Limits
  <2> QED
    BY <1>1, <2>1, <2>2, ChargingIsFinite DEF ChargedAtMost
<1> QED
  BY <1>2, <1>3

\* complete_ride run several times on one ride, by a double tap or by a tap and
\* a redelivered task: each run that saw the ride under way may take the fare
\* once, and each time the ride is put on the road there are no more such runs
\* than there are workers.
THEOREM OnePaymentEachAlways == Spec => []OnePaymentEach
<1>1. Init => ChargeInv
  <2> SUFFICES ASSUME Init, NEW r \in Rides PROVE ChargedAtMost(r)
    BY DEF ChargeInv
  <2>1. ride[r].payments = 0 /\ ride[r].openings = 1
    BY DEF Init
  <2>2. 1 * Cardinality(Workers) = Cardinality(Workers)
    BY ChargingIsFinite
  <2> QED
    BY <2>1, <2>2, ChargingIsFinite DEF ChargedAtMost
<1>2. IInv /\ ChargeInv /\ [Next]_vars => ChargeInv'
  <2> SUFFICES ASSUME IInv, ChargeInv, [Next]_vars, NEW r \in Rides PROVE ChargedAtMost(r)'
    BY DEF ChargeInv
  <2>1. TypeOK /\ ChargedAtMost(r)
    BY DEF IInv, ChargeInv
  <2>2. ASSUME NEW w \in Workers, Fault(w) PROVE ChargedAtMost(r)'
    BY <2>1, <2>2, DoneShrinks, FewerCharging DEF Fault
  <2>3. ASSUME UNCHANGED <<ride, req>> PROVE ChargedAtMost(r)'
    BY <2>1, <2>3 DEF ChargedAtMost, Charging, Item
  <2> QED
    BY <2>1, <2>2, <2>3, ContinueCharges, ArriveCharges, ReopenCharges DEF Next, GatewaySettles, vars
<1>3. IInv /\ ChargeInv => OnePaymentEach
  <2> SUFFICES ASSUME IInv, ChargeInv, NEW r \in Rides
               PROVE  ride[r].payments <= ride[r].openings * Cardinality(Workers)
    BY DEF OnePaymentEach
  <2>1. /\ ChargedAtMost(r) /\ ride[r].payments \in Nat
        /\ ride[r].openings * Cardinality(Workers) \in Nat
    BY Limits DEF IInv, TypeOK, RideRow, ChargeInv
  <2> QED
    BY <2>1, ChargingIsFinite DEF ChargedAtMost
<1> QED
  BY <1>1, <1>2, <1>3, Inductive, PTL DEF Spec

-----------------------------------------------------------------------------
(* Handlers apart: Wallet implements Purse.  HeldInv says that a balance   *)
(* or a status that a handler has read is still the row's.                 *)

TopupIs(w, pcs, statuses) == req[w].pc \in pcs => topup[Item(w)].status \in statuses

RideIs(w, pcs, statuses) == req[w].pc \in pcs => ride[Item(w)].status \in statuses

WithdrawalIs(w, pcs, statuses) == req[w].pc \in pcs => withdrawal[Item(w)].status \in statuses

Fresh(w) ==
    /\ req[w].pc = "ipnCredit" => req[w].payee = balance[topup[Item(w)].user]
    /\ req[w].pc \in {"complete", "readPassenger", "readDriver"} =>
         req[w].payee \in {None, balance[ride[Item(w)].driver]}
    /\ req[w].pc \in {"split", "deduct"} => req[w].payee = balance[ride[Item(w)].driver]
    /\ req[w].pc \in {"readDriver", "split"} => req[w].payer = balance[ride[Item(w)].passenger]
    /\ req[w].pc \in {"hold", "payout", "payoutFailed"} =>
         req[w].payee = balance[withdrawal[Item(w)].user]

\* The ride was put on the road once more than it was charged.
Unpaid(r) == ride[r].commissions < ride[r].openings

Held(w) ==
    /\ TopupIs(w, {"submit", "submitFailed", "ipnFail"}, {"NONE", "PENDING", "FAILED"})
    /\ TopupIs(w, {"ipnRead", "ipnCredit"}, {"PENDING"})
    /\ RideIs(w, {"complete"}, {"RIDING"})
    /\ req[w].pc \in {"readPassenger", "readDriver", "split", "confirm", "deduct"} => Unpaid(Item(w))
    /\ WithdrawalIs(w, {"hold"}, {"NONE"})
    /\ WithdrawalIs(w, {"payout", "payoutDone", "payoutFailed"}, {"PENDING"})
    /\ Fresh(w)

DriversWithdraw == \A x \in Withdrawals : withdrawal[x].user \in Drivers \cup {None}

RidesCharged ==
    \A r \in Rides : /\ ride[r].commissions <= ride[r].openings
                     /\ ride[r].status # "PAID" => Unpaid(r)

HeldInv == DriversWithdraw /\ RidesCharged /\ \A w \in Workers : Held(w)

\* Every user has finitely many rows, and they add up.
FiniteRows(u) ==
    /\ IsFiniteSet(TopupRows(u)) /\ IsFiniteSet(WithdrawalRows(u))
    /\ IsFiniteSet(PaymentRows(u)) /\ IsFiniteSet(CommissionRows(u))

\* A driver's upper bound with the withdrawals that FAILED as well: the code
\* does not give their money back, which LedgerReconciles leaves open.
RowsAddUp ==
    /\ \A p \in Passengers :
         balance[p] + Worth(Fare, PaymentRows(p)) = Worth(TopupAmount, TopupRows(p))
    /\ \A d \in Drivers :
         LET out == balance[d] + Worth(WithdrawAmount, WithdrawalRows(d))
             in  == Worth(TopupAmount, TopupRows(d)) IN
         /\ out <= in + Worth(Fare - Commission, PaymentRows(d))
         /\ out + Worth(Commission, CommissionRows(d)) >= in + Worth(Fare, PaymentRows(d))

LedgerInv == RowsAddUp /\ \A u \in Users : FiniteRows(u)

Fine == HeldInv' /\ [Ledger!Next]_(Ledger!vars) /\ (LedgerInv => LedgerInv')

-----------------------------------------------------------------------------
(* What the rows are worth after a step *)

LEMMA WorthType ==
    ASSUME NEW amount \in Nat, NEW rows, IsFiniteSet(rows)
    PROVE  Worth(amount, rows) \in Nat
<1>1. Cardinality(rows) \in Nat
  BY FS_CardinalityType
<1> QED
  BY <1>1 DEF Worth

LEMMA WorthAdd ==
    ASSUME NEW amount \in Nat, NEW rows, NEW row, IsFiniteSet(rows), row \notin rows
    PROVE  /\ IsFiniteSet(rows \cup {row})
           /\ Worth(amount, rows \cup {row}) = Worth(amount, rows) + amount
<1>1. /\ IsFiniteSet(rows \cup {row}) /\ Cardinality(rows) \in Nat
      /\ Cardinality(rows \cup {row}) = Cardinality(rows) + 1
  BY FS_CardinalityType, FS_AddElement
<1>2. \A n \in Nat : amount * (n + 1) = amount * n + amount
  OBVIOUS
<1> QED
  BY <1>1, <1>2 DEF Worth

LEMMA WorthNothing == \A amount \in Nat : Worth(amount, {}) = 0
BY FS_EmptySet DEF Worth

\* What every user's rows are worth is a number.
LEMMA WorthsAreNumbers ==
    ASSUME LedgerInv, NEW u \in Users
    PROVE  /\ Worth(TopupAmount, TopupRows(u)) \in Nat
           /\ Worth(WithdrawAmount, WithdrawalRows(u)) \in Nat
           /\ Worth(Fare, PaymentRows(u)) \in Nat
           /\ Worth(Fare - Commission, PaymentRows(u)) \in Nat
           /\ Worth(Commission, CommissionRows(u)) \in Nat
<1>1. FiniteRows(u)
  BY DEF LedgerInv
<1>2. {TopupAmount, Fare, Commission, WithdrawAmount, Fare - Commission} \subseteq Nat
  BY WalletAssumption
<1> QED
  BY <1>1, <1>2, WorthType DEF FiniteRows

LEMMA RowsAre ==
    ASSUME NEW rs, NEW n, NEW row
    PROVE  row \in RowsOf(rs, n) <=> \E x \in rs : \E i \in 1 .. n[x] : row = <<x, i>>
BY DEF RowsOf

\* m is n with one more for the ride r.
OneMore(n, m, r) == \A x \in Rides : m[x] = IF x = r THEN n[x] + 1 ELSE n[x]

LEMMA RowAdded ==
    ASSUME NEW rs \in SUBSET Rides, NEW r \in Rides, NEW n \in [Rides -> Nat], NEW m,
           OneMore(n, m, r)
    PROVE  /\ <<r, n[r] + 1>> \notin RowsOf(rs, n)
           /\ r \in rs => RowsOf(rs, m) = RowsOf(rs, n) \cup {<<r, n[r] + 1>>}
           /\ r \notin rs => RowsOf(rs, m) = RowsOf(rs, n)
<1>1. <<r, n[r] + 1>> \notin RowsOf(rs, n)
  BY RowsAre
<1>2. ASSUME NEW x \in rs, NEW i PROVE i \in 1 .. m[x] <=> i \in 1 .. n[x] \/ (x = r /\ i = n[r] + 1)
  <2>1. \A k \in Nat : i \in 1 .. (k + 1) <=> i \in 1 .. k \/ i = k + 1
    OBVIOUS
  <2>2. CASE x = r
    <3>1. n[r] \in Nat /\ m[x] = n[r] + 1
      BY <2>2 DEF OneMore
    <3> QED
      BY <2>1, <2>2, <3>1
  <2>3. CASE x # r
    BY <2>3 DEF OneMore
  <2> QED
    BY <2>2, <2>3
<1>3. ASSUME NEW row
      PROVE  row \in RowsOf(rs, m) <=> row \in RowsOf(rs, n) \/ (r \in rs /\ row = <<r, n[r] + 1>>)
  <2>1. row \in RowsOf(rs, m) <=> \E x \in rs : \E i \in 1 .. m[x] : row = <<x, i>>
    BY RowsAre
  <2>2. row \in RowsOf(rs, n) <=> \E x \in rs : \E i \in 1 .. n[x] : row = <<x, i>>
    BY RowsAre
  <2>3. ASSUME row \in RowsOf(rs, m)
        PROVE  row \in RowsOf(rs, n) \/ (r \in rs /\ row = <<r, n[r] + 1>>)
    <3>1. PICK x \in rs : \E i \in 1 .. m[x] : row = <<x, i>>
      BY <2>1, <2>3
    <3>2. PICK i \in 1 .. m[x] : row = <<x, i>>
      BY <3>1
    <3>3. i \in 1 .. n[x] \/ (x = r /\ i = n[r] + 1)
      BY <1>2
    <3> QED
      BY <2>2, <3>2, <3>3, Zenon
  <2>4. ASSUME row \in RowsOf(rs, n) PROVE row \in RowsOf(rs, m)
    <3>1. PICK x \in rs : \E i \in 1 .. n[x] : row = <<x, i>>
      BY <2>2, <2>4
    <3>2. PICK i \in 1 .. n[x] : row = <<x, i>>
      BY <3>1
    <3>3. i \in 1 .. m[x]
      BY <1>2
    <3> QED
      BY <2>1, <3>2, <3>3, Zenon
  <2>5. ASSUME r \in rs, row = <<r, n[r] + 1>> PROVE row \in RowsOf(rs, m)
    <3>1. n[r] + 1 \in 1 .. m[r]
      BY <1>2, <2>5
    <3> QED
      BY <2>1, <2>5, <3>1, Zenon
  <2> QED
    BY <2>3, <2>4, <2>5
<1>4. ASSUME r \in rs PROVE RowsOf(rs, m) = RowsOf(rs, n) \cup {<<r, n[r] + 1>>}
  <2>1. \A row : row \in RowsOf(rs, m) <=> row \in RowsOf(rs, n) \cup {<<r, n[r] + 1>>}
    BY <1>3, <1>4
  <2> QED
    BY <2>1
<1>5. ASSUME r \notin rs PROVE RowsOf(rs, m) = RowsOf(rs, n)
  <2>1. \A row : row \in RowsOf(rs, m) <=> row \in RowsOf(rs, n)
    BY <1>3, <1>5
  <2> QED
    BY <2>1
<1> QED
  BY <1>1, <1>4, <1>5

\* A ride keeps its passenger and its driver.
SameParties ==
    \A r \in Rides : ride'[r].passenger = ride[r].passenger /\ ride'[r].driver = ride[r].driver

LEMMA RidesOfStay == ASSUME SameParties PROVE \A u : RidesOf(u)' = RidesOf(u)
BY DEF SameParties, RidesOf

\* The rows that count and the users they name stay as they are.
SameTopups ==
    \A t \in Topups : /\ topup'[t].status = "COMPLETED" <=> topup[t].status = "COMPLETED"
                      /\ topup[t].status = "COMPLETED" => topup'[t].user = topup[t].user

SameWithdrawals ==
    \A x \in Withdrawals : /\ withdrawal'[x].status = "NONE" <=> withdrawal[x].status = "NONE"
                           /\ withdrawal[x].status # "NONE" => withdrawal'[x].user = withdrawal[x].user

SameCounts ==
    \A r \in Rides : /\ ride'[r].payments = ride[r].payments
                     /\ ride'[r].commissions = ride[r].commissions

SameRides ==
    /\ SameParties /\ SameCounts
    /\ \A r \in Rides : /\ ride'[r].openings = ride[r].openings
                        /\ ride'[r].status = "PAID" <=> ride[r].status = "PAID"

SameFailures ==
    \A x \in Withdrawals : withdrawal'[x].status = "FAILED" <=> withdrawal[x].status = "FAILED"

LEMMA TopupRowsStay == ASSUME SameTopups PROVE \A u : TopupRows(u)' = TopupRows(u)
BY DEF SameTopups, TopupRows

LEMMA WithdrawalRowsStay == ASSUME SameWithdrawals PROVE \A u : WithdrawalRows(u)' = WithdrawalRows(u)
BY DEF SameWithdrawals, WithdrawalRows

LEMMA RideRowsStay ==
    ASSUME SameParties, SameCounts
    PROVE  \A u : PaymentRows(u)' = PaymentRows(u) /\ CommissionRows(u)' = CommissionRows(u)
<1>1. /\ [r \in Rides |-> ride'[r].payments] = [r \in Rides |-> ride[r].payments]
      /\ [r \in Rides |-> ride'[r].commissions] = [r \in Rides |-> ride[r].commissions]
  BY DEF SameCounts
<1>2. \A u : RidesOf(u)' = RidesOf(u)
  BY RidesOfStay
<1> QED
  BY <1>1, <1>2 DEF PaymentRows, CommissionRows

LEMMA QuietCounts ==
    ASSUME LedgerInv, UNCHANGED balance, SameTopups, SameWithdrawals, SameParties, SameCounts
    PROVE  LedgerInv'
<1>1. \A u : /\ TopupRows(u)' = TopupRows(u) /\ WithdrawalRows(u)' = WithdrawalRows(u)
             /\ PaymentRows(u)' = PaymentRows(u) /\ CommissionRows(u)' = CommissionRows(u)
  BY TopupRowsStay, WithdrawalRowsStay, RideRowsStay
<1>2. \A u \in Users : FiniteRows(u)'
  BY <1>1 DEF LedgerInv, FiniteRows
<1>3. RowsAddUp'
  BY <1>1 DEF LedgerInv, RowsAddUp, Worth
<1> QED
  BY <1>2, <1>3 DEF LedgerInv

\* A completed top-up is a row of its user, worth what he is credited.
LEMMA CreditCounts ==
    ASSUME TypeOK, LedgerInv, NEW t \in Topups, NEW u \in Users, topup[t].status # "COMPLETED",
           \A x \in Topups : /\ topup'[x].status = IF x = t THEN "COMPLETED" ELSE topup[x].status
                             /\ topup'[x].user = topup[x].user,
           topup[t].user = u, balance' = [balance EXCEPT ![u] = @ + TopupAmount],
           UNCHANGED <<ride, withdrawal>>
    PROVE  LedgerInv'
<1>1. \A v : v # u => TopupRows(v)' = TopupRows(v)
  BY DEF TopupRows
<1>2. TopupRows(u)' = TopupRows(u) \cup {t} /\ t \notin TopupRows(u)
  BY DEF TopupRows
<1>3. \A v : /\ WithdrawalRows(v)' = WithdrawalRows(v)
             /\ PaymentRows(v)' = PaymentRows(v) /\ CommissionRows(v)' = CommissionRows(v)
  BY DEF WithdrawalRows, PaymentRows, CommissionRows, RidesOf
<1>4. \A v \in Users : FiniteRows(v)
  BY DEF LedgerInv
<1>5. /\ IsFiniteSet(TopupRows(u)')
      /\ Worth(TopupAmount, TopupRows(u)') = Worth(TopupAmount, TopupRows(u)) + TopupAmount
  <2>1. IsFiniteSet(TopupRows(u)) /\ TopupAmount \in Nat
    BY <1>4, WalletAssumption DEF FiniteRows
  <2>2. /\ IsFiniteSet(TopupRows(u) \cup {t})
        /\ Worth(TopupAmount, TopupRows(u) \cup {t}) = Worth(TopupAmount, TopupRows(u)) + TopupAmount
    BY <1>2, <2>1, WorthAdd
  <2> QED
    BY <1>2, <2>2
<1>6. \A v \in Users : FiniteRows(v)'
  BY <1>1, <1>3, <1>4, <1>5 DEF FiniteRows
<1>7. \A v \in Users : /\ balance[v] \in Nat
                       /\ balance'[v] = IF v = u THEN balance[v] + TopupAmount ELSE balance[v]
  BY DEF TypeOK
<1>8. \A v \in Users :
        Worth(TopupAmount, TopupRows(v)') = IF v = u THEN Worth(TopupAmount, TopupRows(v)) + TopupAmount
                                                     ELSE Worth(TopupAmount, TopupRows(v))
  BY <1>1, <1>5
<1>9. ASSUME NEW p \in Passengers
      PROVE  balance'[p] + Worth(Fare, PaymentRows(p)') = Worth(TopupAmount, TopupRows(p)')
  <2>1. p \in Users /\ balance[p] + Worth(Fare, PaymentRows(p)) = Worth(TopupAmount, TopupRows(p))
    BY DEF Users, LedgerInv, RowsAddUp
  <2>2. PaymentRows(p)' = PaymentRows(p)
    BY <1>3
  <2> QED
    BY <1>7, <1>8, <2>1, <2>2, WorthsAreNumbers, WalletAssumption
<1>10. ASSUME NEW d \in Drivers
       PROVE  LET out == balance'[d] + Worth(WithdrawAmount, WithdrawalRows(d)')
                  in  == Worth(TopupAmount, TopupRows(d)') IN
              /\ out <= in + Worth(Fare - Commission, PaymentRows(d)')
              /\ out + Worth(Commission, CommissionRows(d)') >= in + Worth(Fare, PaymentRows(d)')
  <2>1. /\ d \in Users
        /\ balance[d] + Worth(WithdrawAmount, WithdrawalRows(d))
              <= Worth(TopupAmount, TopupRows(d)) + Worth(Fare - Commission, PaymentRows(d))
        /\ balance[d] + Worth(WithdrawAmount, WithdrawalRows(d)) + Worth(Commission, CommissionRows(d))
              >= Worth(TopupAmount, TopupRows(d)) + Worth(Fare, PaymentRows(d))
    BY DEF Users, LedgerInv, RowsAddUp
  <2>2. /\ WithdrawalRows(d)' = WithdrawalRows(d)
        /\ PaymentRows(d)' = PaymentRows(d) /\ CommissionRows(d)' = CommissionRows(d)
    BY <1>3
  <2> QED
    BY <1>7, <1>8, <2>1, <2>2, WorthsAreNumbers, WalletAssumption
<1>11. RowsAddUp'
  BY <1>9, <1>10 DEF RowsAddUp, Worth
<1> QED
  BY <1>6, <1>11 DEF LedgerInv

LEMMA PaymentCounted ==
    ASSUME TypeOK, SameParties, NEW r \in Rides,
           \A x \in Rides : ride'[x].payments = IF x = r THEN ride[x].payments + 1
                                                  ELSE ride[x].payments,
           NEW u, IsFiniteSet(PaymentRows(u)), NEW amount \in Nat
    PROVE  /\ IsFiniteSet(PaymentRows(u)')
           /\ Worth(amount, PaymentRows(u)') = IF r \in RidesOf(u) THEN Worth(amount, PaymentRows(u)) + amount
                                                             ELSE Worth(amount, PaymentRows(u))
<1>1. PICK n \in [Rides -> Nat] : n = [x \in Rides |-> ride[x].payments]
  BY DEF TypeOK, RideRow
<1>2. PICK m : m = [x \in Rides |-> ride'[x].payments]
  OBVIOUS
<1>3. PICK rs \in SUBSET Rides : rs = RidesOf(u) /\ rs = RidesOf(u)'
  BY RidesOfStay DEF RidesOf
<1>4. PaymentRows(u) = RowsOf(rs, n) /\ PaymentRows(u)' = RowsOf(rs, m)
  BY <1>1, <1>2, <1>3 DEF PaymentRows
<1>5. /\ <<r, n[r] + 1>> \notin PaymentRows(u)
      /\ PaymentRows(u)' = IF r \in RidesOf(u) THEN PaymentRows(u) \cup {<<r, n[r] + 1>>} ELSE PaymentRows(u)
  <2>1. OneMore(n, m, r)
    BY <1>1, <1>2 DEF OneMore
  <2>2. /\ <<r, n[r] + 1>> \notin RowsOf(rs, n)
        /\ r \in rs => RowsOf(rs, m) = RowsOf(rs, n) \cup {<<r, n[r] + 1>>}
        /\ r \notin rs => RowsOf(rs, m) = RowsOf(rs, n)
    BY <2>1, RowAdded
  <2> QED
    BY <1>3, <1>4, <2>2
<1>6. /\ IsFiniteSet(PaymentRows(u) \cup {<<r, n[r] + 1>>})
      /\ Worth(amount, PaymentRows(u) \cup {<<r, n[r] + 1>>}) = Worth(amount, PaymentRows(u)) + amount
  BY <1>5, WorthAdd
<1> QED
  BY <1>5, <1>6

LEMMA CommissionCounted ==
    ASSUME TypeOK, SameParties, NEW r \in Rides,
           \A x \in Rides : ride'[x].commissions = IF x = r THEN ride[x].commissions + 1
                                                  ELSE ride[x].commissions,
           NEW u, IsFiniteSet(CommissionRows(u)), NEW amount \in Nat
    PROVE  /\ IsFiniteSet(CommissionRows(u)')
           /\ Worth(amount, CommissionRows(u)') = IF r \in RidesOf(u) THEN Worth(amount, CommissionRows(u)) + amount
                                                             ELSE Worth(amount, CommissionRows(u))
<1>1. PICK n \in [Rides -> Nat] : n = [x \in Rides |-> ride[x].commissions]
  BY DEF TypeOK, RideRow
<1>2. PICK m : m = [x \in Rides |-> ride'[x].commissions]
  OBVIOUS
<1>3. PICK rs \in SUBSET Rides : rs = RidesOf(u) /\ rs = RidesOf(u)'
  BY RidesOfStay DEF RidesOf
<1>4. CommissionRows(u) = RowsOf(rs, n) /\ CommissionRows(u)' = RowsOf(rs, m)
  BY <1>1, <1>2, <1>3 DEF CommissionRows
<1>5. /\ <<r, n[r] + 1>> \notin CommissionRows(u)
      /\ CommissionRows(u)' = IF r \in RidesOf(u) THEN CommissionRows(u) \cup {<<r, n[r] + 1>>} ELSE CommissionRows(u)
  <2>1. OneMore(n, m, r)
    BY <1>1, <1>2 DEF OneMore
  <2>2. /\ <<r, n[r] + 1>> \notin RowsOf(rs, n)
        /\ r \in rs => RowsOf(rs, m) = RowsOf(rs, n) \cup {<<r, n[r] + 1>>}
        /\ r \notin rs => RowsOf(rs, m) = RowsOf(rs, n)
    BY <2>1, RowAdded
  <2> QED
    BY <1>3, <1>4, <2>2
<1>6. /\ IsFiniteSet(CommissionRows(u) \cup {<<r, n[r] + 1>>})
      /\ Worth(amount, CommissionRows(u) \cup {<<r, n[r] + 1>>}) = Worth(amount, CommissionRows(u)) + amount
  BY <1>5, WorthAdd
<1> QED
  BY <1>5, <1>6

\* The wallet split adds a payment and a commission to the passenger's rows and
\* to the driver's.
LEMMA SplitCounts ==
    ASSUME TypeOK, LedgerInv, SameParties, NEW r \in Rides, NEW p \in Passengers, NEW d \in Drivers,
           p = ride[r].passenger, d = ride[r].driver, balance[p] >= Fare,
           balance' = [balance EXCEPT ![p] = @ - Fare, ![d] = @ + (Fare - Commission)],
           \A x \in Rides :
             /\ ride'[x].payments = IF x = r THEN ride[x].payments + 1 ELSE ride[x].payments
             /\ ride'[x].commissions = IF x = r THEN ride[x].commissions + 1 ELSE ride[x].commissions,
           UNCHANGED <<topup, withdrawal>>
    PROVE  LedgerInv'
<1>1. \A v : TopupRows(v)' = TopupRows(v) /\ WithdrawalRows(v)' = WithdrawalRows(v)
  BY DEF TopupRows, WithdrawalRows
<1>2. {Fare, Commission, Fare - Commission} \subseteq Nat
  BY WalletAssumption
<1>3. \A v \in Users : FiniteRows(v)
  BY DEF LedgerInv
<1>4. \A v \in Users : \A amount \in Nat :
        /\ IsFiniteSet(PaymentRows(v)')
        /\ Worth(amount, PaymentRows(v)') = IF r \in RidesOf(v) THEN Worth(amount, PaymentRows(v)) + amount
                                                               ELSE Worth(amount, PaymentRows(v))
  BY <1>3, PaymentCounted DEF FiniteRows
<1>5. \A v \in Users : \A amount \in Nat :
        /\ IsFiniteSet(CommissionRows(v)')
        /\ Worth(amount, CommissionRows(v)') = IF r \in RidesOf(v) THEN Worth(amount, CommissionRows(v)) + amount
                                                                  ELSE Worth(amount, CommissionRows(v))
  BY <1>3, CommissionCounted DEF FiniteRows
<1>6. \A v \in Users : FiniteRows(v)'
  BY <1>1, <1>2, <1>3, <1>4, <1>5 DEF FiniteRows
<1>7. \A v \in Users : balance[v] \in Nat
  BY DEF TypeOK
<1>8. p # d /\ p \in Users /\ d \in Users
  BY WalletAssumption DEF Users
<1>9. \A v \in Users : balance'[v] = IF v = p THEN balance[v] - Fare
                                    ELSE IF v = d THEN balance[v] + (Fare - Commission) ELSE balance[v]
  BY <1>8 DEF TypeOK
<1>10. ASSUME NEW v \in Passengers
       PROVE  balance'[v] + Worth(Fare, PaymentRows(v)') = Worth(TopupAmount, TopupRows(v)')
  <2>1. v \in Users /\ v # d /\ balance[v] + Worth(Fare, PaymentRows(v)) = Worth(TopupAmount, TopupRows(v))
    BY WalletAssumption DEF Users, LedgerInv, RowsAddUp
  <2>2. r \in RidesOf(v) <=> v = p
    BY <2>1 DEF RidesOf
  <2>3. balance'[v] = IF v = p THEN balance[v] - Fare ELSE balance[v]
    BY <1>9, <2>1
  <2>4. Worth(Fare, PaymentRows(v)') = IF v = p THEN Worth(Fare, PaymentRows(v)) + Fare
                                              ELSE Worth(Fare, PaymentRows(v))
    BY <1>2, <1>4, <2>1, <2>2
  <2>5. TopupRows(v)' = TopupRows(v)
    BY <1>1
  <2> QED
    BY <1>2, <1>7, <2>1, <2>3, <2>4, <2>5, WorthsAreNumbers
<1>11. ASSUME NEW v \in Drivers
       PROVE  LET out == balance'[v] + Worth(WithdrawAmount, WithdrawalRows(v)')
                  in  == Worth(TopupAmount, TopupRows(v)') IN
              /\ out <= in + Worth(Fare - Commission, PaymentRows(v)')
              /\ out + Worth(Commission, CommissionRows(v)') >= in + Worth(Fare, PaymentRows(v)')
  <2>1. /\ v \in Users /\ v # p
        /\ balance[v] + Worth(WithdrawAmount, WithdrawalRows(v))
              <= Worth(TopupAmount, TopupRows(v)) + Worth(Fare - Commission, PaymentRows(v))
        /\ balance[v] + Worth(WithdrawAmount, WithdrawalRows(v)) + Worth(Commission, CommissionRows(v))
              >= Worth(TopupAmount, TopupRows(v)) + Worth(Fare, PaymentRows(v))
    BY WalletAssumption DEF Users, LedgerInv, RowsAddUp
  <2>2. r \in RidesOf(v) <=> v = d
    BY <2>1 DEF RidesOf
  <2>3. balance'[v] = IF v = d THEN balance[v] + (Fare - Commission) ELSE balance[v]
    BY <1>9, <2>1
  <2>4. \A amount \in {Fare, Fare - Commission} :
          Worth(amount, PaymentRows(v)') = IF v = d THEN Worth(amount, PaymentRows(v)) + amount
                                                  ELSE Worth(amount, PaymentRows(v))
    BY <1>2, <1>4, <2>1, <2>2
  <2>5. Worth(Commission, CommissionRows(v)') = IF v = d THEN Worth(Commission, CommissionRows(v)) + Commission
                                                       ELSE Worth(Commission, CommissionRows(v))
    BY <1>2, <1>5, <2>1, <2>2
  <2>6. TopupRows(v)' = TopupRows(v) /\ WithdrawalRows(v)' = WithdrawalRows(v)
    BY <1>1
  <2> QED
    BY <1>2, <1>7, <2>1, <2>3, <2>4, <2>5, <2>6, WorthsAreNumbers
<1>12. RowsAddUp'
  BY <1>10, <1>11 DEF RowsAddUp, Worth
<1> QED
  BY <1>6, <1>12 DEF LedgerInv

\* Cash adds a commission to the driver's rows, and takes at most as much.
LEMMA DeductCounts ==
    ASSUME TypeOK, LedgerInv, SameParties, NEW r \in Rides, NEW d \in Drivers, d = ride[r].driver,
           NEW taken \in Nat, taken <= Commission, taken <= balance[d],
           balance' = [balance EXCEPT ![d] = @ - taken],
           \A x \in Rides :
             /\ ride'[x].payments = ride[x].payments
             /\ ride'[x].commissions = IF x = r THEN ride[x].commissions + 1 ELSE ride[x].commissions,
           UNCHANGED <<topup, withdrawal>>
    PROVE  LedgerInv'
<1>1. \A v : TopupRows(v)' = TopupRows(v) /\ WithdrawalRows(v)' = WithdrawalRows(v)
  BY DEF TopupRows, WithdrawalRows
<1>2. \A v : PaymentRows(v)' = PaymentRows(v)
  <2>1. [x \in Rides |-> ride'[x].payments] = [x \in Rides |-> ride[x].payments]
    OBVIOUS
  <2>2. \A v : RidesOf(v)' = RidesOf(v)
    BY RidesOfStay
  <2> QED
    BY <2>1, <2>2 DEF PaymentRows
<1>3. \A v \in Users : FiniteRows(v)
  BY DEF LedgerInv
<1>4. Commission \in Nat
  BY WalletAssumption
<1>5. \A v \in Users :
        /\ IsFiniteSet(CommissionRows(v)')
        /\ Worth(Commission, CommissionRows(v)') =
             IF r \in RidesOf(v) THEN Worth(Commission, CommissionRows(v)) + Commission
                                ELSE Worth(Commission, CommissionRows(v))
  BY <1>3, <1>4, CommissionCounted DEF FiniteRows
<1>6. \A v \in Users : FiniteRows(v)'
  BY <1>1, <1>2, <1>3, <1>5 DEF FiniteRows
<1>7. \A v \in Users : /\ balance[v] \in Nat
                       /\ balance'[v] = IF v = d THEN balance[v] - taken ELSE balance[v]
  BY DEF TypeOK, Users
<1>8. ASSUME NEW v \in Passengers
      PROVE  balance'[v] + Worth(Fare, PaymentRows(v)') = Worth(TopupAmount, TopupRows(v)')
  <2>1. v \in Users /\ v # d /\ balance[v] + Worth(Fare, PaymentRows(v)) = Worth(TopupAmount, TopupRows(v))
    BY WalletAssumption DEF Users, LedgerInv, RowsAddUp
  <2> QED
    BY <1>1, <1>2, <1>7, <2>1
<1>9. ASSUME NEW v \in Drivers
      PROVE  LET out == balance'[v] + Worth(WithdrawAmount, WithdrawalRows(v)')
                 in  == Worth(TopupAmount, TopupRows(v)') IN
             /\ out <= in + Worth(Fare - Commission, PaymentRows(v)')
             /\ out + Worth(Commission, CommissionRows(v)') >= in + Worth(Fare, PaymentRows(v)')
  <2>1. /\ v \in Users
        /\ balance[v] + Worth(WithdrawAmount, WithdrawalRows(v))
              <= Worth(TopupAmount, TopupRows(v)) + Worth(Fare - Commission, PaymentRows(v))
        /\ balance[v] + Worth(WithdrawAmount, WithdrawalRows(v)) + Worth(Commission, CommissionRows(v))
              >= Worth(TopupAmount, TopupRows(v)) + Worth(Fare, PaymentRows(v))
    BY DEF Users, LedgerInv, RowsAddUp
  <2>2. v # d \/ r \in RidesOf(v)
    BY DEF RidesOf
  <2>3. /\ TopupRows(v)' = TopupRows(v) /\ WithdrawalRows(v)' = WithdrawalRows(v)
        /\ PaymentRows(v)' = PaymentRows(v)
    BY <1>1, <1>2
  <2> QED
    BY <1>4, <1>5, <1>7, <2>1, <2>2, <2>3, WorthsAreNumbers
<1>10. RowsAddUp'
  BY <1>8, <1>9 DEF RowsAddUp, Worth
<1> QED
  BY <1>6, <1>10 DEF LedgerInv

\* The hold makes a withdrawal a row of its driver's.
LEMMA HoldCounts ==
    ASSUME TypeOK, LedgerInv, NEW x \in Withdrawals, NEW d \in Drivers, withdrawal[x].status = "NONE",
           withdrawal[x].user = d,
           \A y \in Withdrawals : /\ withdrawal'[y].status = IF y = x THEN "PENDING" ELSE withdrawal[y].status
                                  /\ withdrawal'[y].user = withdrawal[y].user,
           balance[d] >= WithdrawAmount, balance' = [balance EXCEPT ![d] = @ - WithdrawAmount],
           UNCHANGED <<topup, ride>>
    PROVE  LedgerInv'
<1>1. \A v : v # d => WithdrawalRows(v)' = WithdrawalRows(v)
  BY DEF WithdrawalRows
<1>2. WithdrawalRows(d)' = WithdrawalRows(d) \cup {x} /\ x \notin WithdrawalRows(d)
  BY DEF WithdrawalRows
<1>3. \A v : /\ TopupRows(v)' = TopupRows(v)
             /\ PaymentRows(v)' = PaymentRows(v) /\ CommissionRows(v)' = CommissionRows(v)
  BY DEF TopupRows, PaymentRows, CommissionRows, RidesOf
<1>4. \A v \in Users : FiniteRows(v)
  BY DEF LedgerInv
<1>5. d \in Users /\ WithdrawAmount \in Nat
  BY WalletAssumption DEF Users
<1>6. /\ IsFiniteSet(WithdrawalRows(d)')
      /\ Worth(WithdrawAmount, WithdrawalRows(d)') = Worth(WithdrawAmount, WithdrawalRows(d)) + WithdrawAmount
  <2>1. IsFiniteSet(WithdrawalRows(d))
    BY <1>4, <1>5 DEF FiniteRows
  <2>2. /\ IsFiniteSet(WithdrawalRows(d) \cup {x})
        /\ Worth(WithdrawAmount, WithdrawalRows(d) \cup {x}) = Worth(WithdrawAmount, WithdrawalRows(d)) + WithdrawAmount
    BY <1>2, <1>5, <2>1, WorthAdd
  <2> QED
    BY <1>2, <2>2
<1>7. \A v \in Users : FiniteRows(v)'
  BY <1>1, <1>3, <1>4, <1>6 DEF FiniteRows
<1>8. \A v \in Users : /\ balance[v] \in Nat
                       /\ balance'[v] = IF v = d THEN balance[v] - WithdrawAmount ELSE balance[v]
  BY DEF TypeOK, Users
<1>9. ASSUME NEW v \in Passengers
      PROVE  balance'[v] + Worth(Fare, PaymentRows(v)') = Worth(TopupAmount, TopupRows(v)')
  <2>1. v \in Users /\ v # d /\ balance[v] + Worth(Fare, PaymentRows(v)) = Worth(TopupAmount, TopupRows(v))
    BY WalletAssumption DEF Users, LedgerInv, RowsAddUp
  <2> QED
    BY <1>3, <1>8, <2>1
<1>10. ASSUME NEW v \in Drivers
       PROVE  LET out == balance'[v] + Worth(WithdrawAmount, WithdrawalRows(v)')
                  in  == Worth(TopupAmount, TopupRows(v)') IN
              /\ out <= in + Worth(Fare - Commission, PaymentRows(v)')
              /\ out + Worth(Commission, CommissionRows(v)') >= in + Worth(Fare, PaymentRows(v)')
  <2>1. /\ v \in Users
        /\ balance[v] + Worth(WithdrawAmount, WithdrawalRows(v))
              <= Worth(TopupAmount, TopupRows(v)) + Worth(Fare - Commission, PaymentRows(v))
        /\ balance[v] + Worth(WithdrawAmount, WithdrawalRows(v)) + Worth(Commission, CommissionRows(v))
              >= Worth(TopupAmount, TopupRows(v)) + Worth(Fare, PaymentRows(v))
    BY DEF Users, LedgerInv, RowsAddUp
  <2>2. balance'[v] + Worth(WithdrawAmount, WithdrawalRows(v)')
          = balance[v] + Worth(WithdrawAmount, WithdrawalRows(v))
    BY <1>1, <1>5, <1>6, <1>8, <2>1, WorthsAreNumbers
  <2>3. /\ TopupRows(v)' = TopupRows(v)
        /\ PaymentRows(v)' = PaymentRows(v) /\ CommissionRows(v)' = CommissionRows(v)
    BY <1>3
  <2> QED
    BY <2>1, <2>2, <2>3
<1>11. RowsAddUp'
  BY <1>9, <1>10 DEF RowsAddUp, Worth
<1> QED
  BY <1>7, <1>11 DEF LedgerInv

-----------------------------------------------------------------------------
(* One lemma per kind of step *)

\* What the mapping to Purse makes of the rows stays when they do.
LEMMA CreditedStay ==
    ASSUME SameTopups
    PROVE  {t \in Topups : topup'[t].status = "COMPLETED"} = {t \in Topups : topup[t].status = "COMPLETED"}
BY DEF SameTopups

LEMMA TakersStay ==
    ASSUME SameWithdrawals
    PROVE  [x \in Withdrawals |-> TakerOf(x)'] = [x \in Withdrawals |-> TakerOf(x)]
BY DEF SameWithdrawals, TakerOf

LEMMA FailuresStay ==
    ASSUME SameFailures
    PROVE  {x \in Withdrawals : withdrawal'[x].status = "FAILED"}
             = {x \in Withdrawals : withdrawal[x].status = "FAILED"}
BY DEF SameFailures

LEMMA TripsStay ==
    ASSUME \A r \in Rides : ride'[r].openings = ride[r].openings
    PROVE  [r \in Rides |-> ride'[r].openings] = [r \in Rides |-> ride[r].openings]
OBVIOUS

LEMMA ChargedStay ==
    ASSUME SameCounts
    PROVE  [r \in Rides |-> ride'[r].commissions] = [r \in Rides |-> ride[r].commissions]
BY DEF SameCounts

LEMMA MappedSame ==
    ASSUME UNCHANGED balance, SameTopups, SameRides, SameWithdrawals, SameFailures
    PROVE  UNCHANGED Ledger!vars
BY CreditedStay, TakersStay, FailuresStay, TripsStay, ChargedStay DEF SameRides, Ledger!vars

\* A charge, as the mapping sees it, of a ride that had room for one.
LEMMA RideCharged ==
    ASSUME TypeOK, RidesCharged, NEW r \in Rides, Unpaid(r),
           \A x \in Rides :
             /\ ride'[x].status = IF x = r THEN "PAID" ELSE ride[x].status
             /\ ride'[x].commissions = IF x = r THEN ride[x].commissions + 1 ELSE ride[x].commissions
             /\ ride'[x].openings = ride[x].openings
    PROVE  /\ RidesCharged'
           /\ [x \in Rides |-> ride[x].commissions][r] < [x \in Rides |-> ride[x].openings][r]
           /\ [x \in Rides |-> ride'[x].commissions]
                = [[x \in Rides |-> ride[x].commissions] EXCEPT ![r] = @ + 1]
<1>1. \A x \in Rides : ride[x].commissions \in Nat /\ ride[x].openings \in Nat
  BY DEF TypeOK, RideRow
<1>2. RidesCharged'
  BY <1>1 DEF RidesCharged, Unpaid
<1> QED
  BY <1>2 DEF Unpaid

LEMMA RidesStayCharged == ASSUME RidesCharged, SameRides PROVE RidesCharged'
BY DEF RidesCharged, SameRides, SameCounts, Unpaid

\* What a step of w writes is its own, or a new row.
OwnWrites(w) ==
    /\ \A v \in Workers : v # w => req'[v] = req[v]
    /\ \A u \in Users : balance'[u] = balance[u] \/ Concerns(w, u)
    /\ \A t \in Topups : \/ topup'[t] = topup[t]
                         \/ Concerns(w, topup[t].user)
                         \/ (topup[t].status = "NONE" /\ topup'[t].status = "PENDING")
    /\ \A r \in Rides : ride'[r] = ride[r] \/ Concerns(w, ride[r].driver)
    /\ \A x \in Withdrawals : \/ withdrawal'[x] = withdrawal[x]
                              \/ Concerns(w, withdrawal[x].user)
                              \/ withdrawal[x].user = None

LEMMA OnlyHeld ==
    ASSUME Apart, IInv, HeldInv, NEW w \in Workers, OwnWrites(w), Held(w)'
    PROVE  \A v \in Workers : Held(v)'
<1>1. SUFFICES ASSUME NEW v \in Workers, v # w PROVE Held(v)'
  OBVIOUS
<1>2. TypeOK /\ Sound(v) /\ Held(v) /\ req'[v] = req[v]
  BY <1>1 DEF IInv, InFlight, HeldInv, OwnWrites
<1>3. \A u \in Users : Concerns(v, u) => ~Concerns(w, u) /\ balance'[u] = balance[u]
  BY <1>1 DEF Apart, OwnWrites
<1>4. CASE req[v].pc \in TopupStep
  <2>1. PICK t \in Topups, u \in Users : t = Item(v) /\ u = topup[t].user
    BY <1>2, <1>4 DEF Sound, OwnedTopup
  <2>2. ~Concerns(w, u) /\ balance'[u] = balance[u]
    BY <1>3, <2>1 DEF Concerns
  <2>3. topup'[t] = topup[t] \/ (topup[t].status = "NONE" /\ topup'[t].status = "PENDING")
    BY <2>1, <2>2 DEF OwnWrites
  <2> QED
    BY <1>2, <1>4, <2>1, <2>2, <2>3
       DEF Held, Fresh, TopupIs, RideIs, WithdrawalIs, TopupStep, Item
<1>5. CASE req[v].pc \in RideStep
  <2>1. PICK r \in Rides, p \in Users, d \in Users : r = Item(v) /\ p = ride[r].passenger /\ d = ride[r].driver
    BY <1>2, <1>5 DEF Sound, TypeOK, RideRow, Users
  <2>2. ~Concerns(w, d) /\ balance'[d] = balance[d] /\ balance'[p] = balance[p]
    BY <1>3, <2>1 DEF Concerns
  <2>3. ride'[r] = ride[r]
    BY <2>1, <2>2 DEF OwnWrites
  <2> QED
    BY <1>2, <1>5, <2>1, <2>2, <2>3
       DEF Held, Fresh, TopupIs, RideIs, WithdrawalIs, RideStep, Item, Unpaid
<1>6. CASE req[v].pc \in WithdrawalStep
  <2>1. PICK x \in Withdrawals, u \in Users : x = Item(v) /\ u = withdrawal[x].user
    BY <1>2, <1>6 DEF Sound, OwnedWithdrawal
  <2>2. ~Concerns(w, u) /\ balance'[u] = balance[u] /\ u # None
    BY <1>3, <2>1, WalletAssumption DEF Concerns
  <2>3. withdrawal'[x] = withdrawal[x]
    BY <2>1, <2>2 DEF OwnWrites
  <2> QED
    BY <1>2, <1>6, <2>1, <2>2, <2>3
       DEF Held, Fresh, TopupIs, RideIs, WithdrawalIs, WithdrawalStep, Item
<1>7. CASE req[v].pc = "idle"
  BY <1>2, <1>7 DEF Held, Fresh, TopupIs, RideIs, WithdrawalIs
<1> QED
  BY <1>2, <1>4, <1>5, <1>6, <1>7 DEF TypeOK, Request, Step, TopupStep, RideStep, WithdrawalStep

\* Requests: a worker writes its own.
LEMMA OwnRequest ==
    ASSUME TypeOK, NEW w \in Workers, Continue(w) \/ Arrive(w) \/ Fault(w)
    PROVE  \A v \in Workers : v # w => req'[v] = req[v]
<1>1. ASSUME NEW pc, Goto(w, pc) PROVE \A v \in Workers : v # w => req'[v] = req[v]
  BY <1>1 DEF Goto, TypeOK
<1>2. ASSUME Done(w) PROVE \A v \in Workers : v # w => req'[v] = req[v]
  BY <1>2 DEF Done, TypeOK
<1>3. ASSUME NEW pc, NEW i, NEW b, Begin(w, pc, i, b) PROVE \A v \in Workers : v # w => req'[v] = req[v]
  BY <1>3 DEF Begin, TypeOK
<1>4. CASE Arrive(w)
  <2>1. ASSUME NEW n \in Notified, IpnStart(w, n[1], n[2]) PROVE \A v \in Workers : v # w => req'[v] = req[v]
    BY <1>3, <2>1 DEF IpnStart
  <2>2. ASSUME NEW t \in Topups, NEW u \in Users, TopupStart(w, t, u)
        PROVE  \A v \in Workers : v # w => req'[v] = req[v]
    BY <1>3, <2>2 DEF TopupStart
  <2>3. ASSUME NEW r \in Rides, CompleteTap(w, r) \/ CompleteTask(w, r) \/ ConfirmStart(w, r)
        PROVE  \A v \in Workers : v # w => req'[v] = req[v]
    BY <1>3, <2>3 DEF CompleteTap, CompleteTask, ConfirmStart
  <2>4. ASSUME NEW x \in Withdrawals, NEW u \in Drivers, WithdrawStart(w, x, u)
        PROVE  \A v \in Workers : v # w => req'[v] = req[v]
    BY <1>3, <2>4 DEF WithdrawStart
  <2> QED
    BY <1>4, <2>1, <2>2, <2>3, <2>4 DEF Arrive
<1>5. CASE SubmitOrder(w) \/ SubmitFails(w) \/ IpnFails(w) \/ IpnFind(w) \/ IpnCredit(w)
  BY <1>1, <1>2, <1>5 DEF SubmitOrder, SubmitFails, IpnFails, FailTopup, IpnFind, IpnCredit
<1>6. CASE IpnRead(w) \/ ReadPassenger(w) \/ ReadDriver(w) \/ ConfirmRead(w) \/ WithdrawHold(w)
  BY <1>6 DEF IpnRead, ReadPassenger, ReadDriver, ConfirmRead, WithdrawHold, TypeOK
<1>7. CASE CommitComplete(w) \/ SplitFare(w) \/ InsufficientBalance(w) \/ DeductCommission(w)
  BY <1>1, <1>2, <1>7 DEF CommitComplete, SplitFare, InsufficientBalance, DeductCommission
<1>8. CASE Payout(w) \/ PayoutDone(w) \/ PayoutFails(w) \/ Fault(w)
  BY <1>1, <1>2, <1>8 DEF Payout, PayoutDone, PayoutFails, Fault
<1> QED
  BY <1>4, <1>5, <1>6, <1>7, <1>8 DEF Continue

LEMMA WritesAreOwn ==
    ASSUME IInv, NEW w \in Workers, Continue(w) \/ Arrive(w) \/ Fault(w)
    PROVE  OwnWrites(w)
<1>1. TypeOK /\ Sound(w)
  BY DEF IInv, InFlight
<1>2. \A v \in Workers : v # w => req'[v] = req[v]
  BY <1>1, OwnRequest
<1>3. CASE UNCHANGED <<balance, topup, ride, withdrawal>>
  BY <1>2, <1>3 DEF OwnWrites
<1>4. CASE \/ SubmitOrder(w) \/ IpnFind(w) \/ IpnRead(w) \/ ReadPassenger(w) \/ ReadDriver(w)
           \/ InsufficientBalance(w) \/ ConfirmRead(w) \/ Fault(w)
  BY <1>3, <1>4 DEF SubmitOrder, IpnFind, IpnRead, ReadPassenger, ReadDriver, InsufficientBalance,
                    ConfirmRead, Fault
<1>5. CASE SubmitFails(w) \/ IpnFails(w) \/ IpnCredit(w)
  <2>1. PICK t \in Topups : t = Item(w) /\ \E s : topup' = [topup EXCEPT ![t].status = s]
    BY <1>1, <1>5 DEF SubmitFails, IpnFails, FailTopup, IpnCredit, At, Sound, TopupStep, OwnedTopup
  <2>2. Concerns(w, topup[t].user) /\ \A x \in Topups : x # t => topup'[x] = topup[x]
    BY <1>1, <2>1 DEF Concerns, TypeOK
  <2>3. \A u \in Users : u # topup[t].user => balance'[u] = balance[u]
    BY <1>1, <1>5, <2>1 DEF SubmitFails, IpnFails, FailTopup, IpnCredit, TypeOK
  <2>4. UNCHANGED <<ride, withdrawal>>
    BY <1>5 DEF SubmitFails, IpnFails, FailTopup, IpnCredit
  <2> QED
    BY <1>2, <2>2, <2>3, <2>4 DEF OwnWrites
<1>6. CASE CommitComplete(w) \/ SplitFare(w) \/ DeductCommission(w)
  <2>1. PICK r \in Rides : r = Item(w)
    BY <1>1, <1>6 DEF CommitComplete, SplitFare, DeductCommission, At, Sound, RideStep
  <2>2. \A u : u \in {ride[r].passenger, ride[r].driver} => Concerns(w, u)
    BY <2>1 DEF Concerns
  <2>3. \A x \in Rides : x # r => ride'[x] = ride[x]
    BY <1>1, <1>6, <2>1 DEF CommitComplete, SplitFare, DeductCommission, TypeOK
  <2>4. \A u \in Users : u \notin {ride[r].passenger, ride[r].driver} => balance'[u] = balance[u]
    <3>1. CASE CommitComplete(w)
      BY <3>1 DEF CommitComplete
    <3>2. CASE SplitFare(w)
      BY <1>1, <2>1, <3>2 DEF SplitFare, TypeOK
    <3>3. CASE DeductCommission(w)
      BY <1>1, <2>1, <3>3 DEF DeductCommission, TypeOK
    <3> QED
      BY <1>6, <3>1, <3>2, <3>3
  <2>5. UNCHANGED <<topup, withdrawal>>
    BY <1>6 DEF CommitComplete, SplitFare, DeductCommission
  <2> QED
    BY <1>2, <2>2, <2>3, <2>4, <2>5 DEF OwnWrites
<1>7. CASE WithdrawHold(w) \/ Payout(w) \/ PayoutDone(w) \/ PayoutFails(w)
  <2>1. PICK x \in Withdrawals : x = Item(w)
    BY <1>1, <1>7 DEF WithdrawHold, Payout, PayoutDone, PayoutFails, At, Sound, WithdrawalStep, OwnedWithdrawal
  <2>2. Concerns(w, withdrawal[x].user)
    BY <2>1 DEF Concerns
  <2>3. \A y \in Withdrawals : y # x => withdrawal'[y] = withdrawal[y]
    BY <1>1, <1>7, <2>1 DEF WithdrawHold, Payout, PayoutDone, PayoutFails, TypeOK
  <2>4. \A u \in Users : u # withdrawal[x].user => balance'[u] = balance[u]
    BY <1>1, <1>7, <2>1 DEF WithdrawHold, Payout, PayoutDone, PayoutFails, TypeOK
  <2>5. UNCHANGED <<topup, ride>>
    BY <1>7 DEF WithdrawHold, Payout, PayoutDone, PayoutFails
  <2> QED
    BY <1>2, <2>2, <2>3, <2>4, <2>5 DEF OwnWrites
<1>8. ASSUME NEW t \in Topups, NEW u \in Users, TopupStart(w, t, u) PROVE OwnWrites(w)
  <2>1. /\ topup[t].status = "NONE" /\ topup'[t].status = "PENDING"
        /\ \A x \in Topups : x # t => topup'[x] = topup[x]
    BY <1>1, <1>8 DEF TopupStart, TypeOK
  <2> QED
    BY <1>2, <1>8, <2>1 DEF OwnWrites, TopupStart
<1>9. ASSUME NEW x \in Withdrawals, NEW u \in Drivers, WithdrawStart(w, x, u) PROVE OwnWrites(w)
  <2>1. withdrawal[x].user = None /\ \A y \in Withdrawals : y # x => withdrawal'[y] = withdrawal[y]
    BY <1>1, <1>9 DEF WithdrawStart, TypeOK
  <2> QED
    BY <1>2, <1>9, <2>1 DEF OwnWrites, WithdrawStart
<1>10. CASE Arrive(w)
  BY <1>3, <1>8, <1>9, <1>10 DEF Arrive, IpnStart, CompleteTap, CompleteTask, ConfirmStart
<1> QED
  BY <1>4, <1>5, <1>6, <1>7, <1>10 DEF Continue

LEMMA IdleHeld == ASSUME TypeOK, NEW w \in Workers, Done(w) PROVE Held(w)'
<1>1. req'[w].pc = "idle"
  BY DEF TypeOK, Done, Idle
<1> QED
  BY <1>1 DEF Held, Fresh, TopupIs, RideIs, WithdrawalIs

LEMMA GotoIs ==
    ASSUME TypeOK, NEW w \in Workers, NEW pc, Goto(w, pc)
    PROVE  /\ req'[w].pc = pc /\ req'[w].item = req[w].item
           /\ req'[w].payer = req[w].payer /\ req'[w].payee = req[w].payee
BY DEF TypeOK, Request, Goto

\* A step that changes no balance and moves no money.
LEMMA NoMoney ==
    ASSUME Apart, IInv, HeldInv, NEW w \in Workers, OwnWrites(w), Held(w)', UNCHANGED balance,
           SameTopups, SameRides, SameWithdrawals, SameFailures,
           \A x \in Withdrawals : withdrawal'[x].user \in Drivers \cup {None}
    PROVE  Fine
<1>1. DriversWithdraw' /\ RidesCharged'
  BY RidesStayCharged DEF DriversWithdraw, HeldInv
<1>2. UNCHANGED Ledger!vars
  BY MappedSame
<1>3. LedgerInv => LedgerInv'
  BY QuietCounts DEF SameRides
<1> QED
  BY <1>1, <1>2, <1>3, OnlyHeld DEF Fine, HeldInv

LEMMA RidesUntouched == ASSUME UNCHANGED ride PROVE SameRides
BY DEF SameRides, SameParties, SameCounts

LEMMA WithdrawalsUntouched == ASSUME UNCHANGED withdrawal PROVE SameWithdrawals /\ SameFailures
BY DEF SameWithdrawals, SameFailures

LEMMA TopupsUntouched == ASSUME UNCHANGED topup PROVE SameTopups
BY DEF SameTopups

LEMMA TopupSteps ==
    ASSUME Apart, IInv, HeldInv, NEW w \in Workers, OwnWrites(w),
           SubmitOrder(w) \/ SubmitFails(w) \/ IpnFails(w) \/ IpnFind(w) \/ IpnRead(w)
    PROVE  Fine
<1>1. TypeOK /\ Sound(w) /\ Held(w) /\ DriversWithdraw
  BY DEF IInv, InFlight, HeldInv
<1>2. UNCHANGED <<balance, ride, withdrawal>>
  BY DEF SubmitOrder, SubmitFails, IpnFails, FailTopup, IpnFind, IpnRead
<1>3. Held(w)'
  <2>1. CASE Done(w)
    BY <1>1, <2>1, IdleHeld
  <2>2. CASE SubmitOrder(w) /\ Goto(w, "submitFailed")
    <3>1. req'[w].pc = "submitFailed" /\ req'[w].item = req[w].item /\ topup' = topup /\ req[w].pc = "submit"
      BY <1>1, <2>2, GotoIs DEF SubmitOrder, At
    <3> QED
      BY <1>1, <3>1 DEF Held, Fresh, TopupIs, RideIs, WithdrawalIs, Item
  <2>3. CASE IpnFind(w) /\ Goto(w, "ipnRead")
    <3>1. req'[w].pc = "ipnRead" /\ req'[w].item = req[w].item /\ topup' = topup
      BY <1>1, <2>3, GotoIs DEF IpnFind
    <3>2. topup[Item(w)].status = "PENDING"
      <4>1. CASE Done(w)
        BY <1>1, <3>1, <4>1 DEF Done, Idle, TypeOK
      <4> QED
        BY <2>3, <4>1 DEF IpnFind
    <3> QED
      BY <1>1, <3>1, <3>2 DEF Held, Fresh, TopupIs, RideIs, WithdrawalIs, Item
  <2>4. CASE IpnRead(w)
    <3>1. /\ req'[w].pc = "ipnCredit" /\ req'[w].item = req[w].item /\ UNCHANGED <<topup, balance>>
          /\ req'[w].payee = balance[topup[Item(w)].user] /\ req[w].pc = "ipnRead"
      BY <1>1, <2>4 DEF IpnRead, At, TypeOK, Request
    <3> QED
      BY <1>1, <3>1 DEF Held, Fresh, TopupIs, RideIs, WithdrawalIs, Item
  <2> QED
    BY <2>1, <2>2, <2>3, <2>4 DEF SubmitOrder, SubmitFails, IpnFails, FailTopup, IpnFind
<1>4. SameTopups
  <2>1. CASE UNCHANGED topup
    BY <2>1, TopupsUntouched
  <2>2. CASE topup' = [topup EXCEPT ![Item(w)].status = "FAILED"] /\ req[w].pc \in {"submitFailed", "ipnFail"}
    <3>1. topup[Item(w)].status # "COMPLETED"
      BY <1>1, <2>2 DEF Held, TopupIs
    <3>2. \A t \in Topups : /\ topup'[t].status = IF t = Item(w) THEN "FAILED" ELSE topup[t].status
                            /\ topup'[t].user = topup[t].user
      BY <1>1, <2>2 DEF TypeOK, TopupRow
    <3> QED
      BY <3>1, <3>2 DEF SameTopups
  <2> QED
    BY <2>1, <2>2 DEF SubmitOrder, SubmitFails, IpnFails, FailTopup, IpnFind, IpnRead, At
<1> QED
  BY <1>1, <1>2, <1>3, <1>4, RidesUntouched, WithdrawalsUntouched, NoMoney DEF DriversWithdraw

LEMMA CreditStep ==
    ASSUME Apart, IInv, HeldInv, NEW w \in Workers, OwnWrites(w), IpnCredit(w)
    PROVE  Fine
<1>1. TypeOK /\ Sound(w) /\ Held(w) /\ DriversWithdraw
  BY DEF IInv, InFlight, HeldInv
<1>2. PICK t \in Topups, u \in Users :
        t = Item(w) /\ u = topup[t].user /\ topup[t].status = "PENDING" /\ req[w].payee = balance[u]
  BY <1>1 DEF IpnCredit, At, Sound, TopupStep, OwnedTopup, Held, TopupIs, Fresh
<1>3. balance' = [balance EXCEPT ![u] = @ + TopupAmount]
  BY <1>1, <1>2 DEF IpnCredit, TypeOK
<1>4. \A x \in Topups : /\ topup'[x].status = IF x = t THEN "COMPLETED" ELSE topup[x].status
                        /\ topup'[x].user = topup[x].user
  BY <1>1, <1>2 DEF IpnCredit, TypeOK, TopupRow
<1>5. UNCHANGED <<ride, withdrawal>> /\ Done(w)
  BY DEF IpnCredit
<1>6. SameRides /\ SameWithdrawals /\ SameFailures
  BY <1>5, RidesUntouched, WithdrawalsUntouched
<1>11. /\ t \notin {x \in Topups : topup[x].status = "COMPLETED"}
       /\ {x \in Topups : topup'[x].status = "COMPLETED"}
            = {x \in Topups : topup[x].status = "COMPLETED"} \cup {t}
  BY <1>2, <1>4
<1>7. Ledger!Credit(t, u)
  BY <1>3, <1>6, <1>11, TakersStay, FailuresStay, TripsStay, ChargedStay DEF Ledger!Credit, SameRides
<1>8. Ledger!Next
  BY <1>7 DEF Ledger!Next, Ledger!Users, Users
<1>9. HeldInv'
  BY <1>1, <1>5, <1>6, IdleHeld, OnlyHeld, RidesStayCharged DEF HeldInv, DriversWithdraw
<1>10. LedgerInv => LedgerInv'
  BY <1>1, <1>2, <1>3, <1>4, <1>5, CreditCounts
<1> QED
  BY <1>8, <1>9, <1>10 DEF Fine

LEMMA CompleteStep ==
    ASSUME Apart, IInv, HeldInv, NEW w \in Workers, OwnWrites(w), CommitComplete(w)
    PROVE  Fine
<1>1. TypeOK /\ Sound(w) /\ Held(w) /\ DriversWithdraw
  BY DEF IInv, InFlight, HeldInv
<1>2. PICK r \in Rides : r = Item(w)
  BY <1>1 DEF CommitComplete, At, Sound, RideStep
<1>3. ride[r].status = "RIDING" /\ req[w].payee \in {None, balance[ride[r].driver]}
  BY <1>1, <1>2 DEF CommitComplete, At, Held, RideIs, Fresh
<1>4. /\ \A x \in Rides : ride'[x].status = IF x = r THEN "COMPLETED" ELSE ride[x].status
      /\ \A x \in Rides : ride'[x].openings = ride[x].openings
      /\ SameParties /\ SameCounts
  BY <1>1, <1>2 DEF CommitComplete, TypeOK, RideRow, SameParties, SameCounts
<1>5. UNCHANGED <<balance, topup, withdrawal>>
  BY DEF CommitComplete
<1>6. /\ req'[w].pc = "readPassenger" /\ req'[w].item = r /\ req'[w].payee = req[w].payee
  BY <1>1, <1>2, GotoIs DEF CommitComplete, Item
<1>9. Unpaid(r)
  BY <1>3 DEF HeldInv, RidesCharged
<1>7. Held(w)'
  BY <1>2, <1>3, <1>4, <1>5, <1>6, <1>9
     DEF Held, Fresh, TopupIs, RideIs, WithdrawalIs, Item, SameParties, SameCounts, Unpaid
<1>8. SameRides
  BY <1>3, <1>4 DEF SameRides
<1> QED
  BY <1>1, <1>5, <1>7, <1>8, TopupsUntouched, WithdrawalsUntouched, NoMoney DEF DriversWithdraw

LEMMA ReadSteps ==
    ASSUME Apart, IInv, HeldInv, NEW w \in Workers, OwnWrites(w),
           ReadPassenger(w) \/ ReadDriver(w) \/ ConfirmRead(w) \/ InsufficientBalance(w)
    PROVE  Fine
<1>1. TypeOK /\ Sound(w) /\ Held(w) /\ DriversWithdraw
  BY DEF IInv, InFlight, HeldInv
<1>2. /\ UNCHANGED <<balance, topup, ride, withdrawal>>
      /\ SameTopups /\ SameRides /\ SameWithdrawals /\ SameFailures
  BY TopupsUntouched, RidesUntouched, WithdrawalsUntouched
     DEF ReadPassenger, ReadDriver, ConfirmRead, InsufficientBalance
<1>3. CASE ReadPassenger(w)
  <2>1. /\ req[w].pc = "readPassenger" /\ req'[w].pc = "readDriver" /\ req'[w].item = req[w].item
        /\ req'[w].payer = balance[ride[Item(w)].passenger] /\ req'[w].payee = req[w].payee
    BY <1>1, <1>3 DEF ReadPassenger, At, TypeOK, Request
  <2>2. Held(w)'
    BY <1>1, <1>2, <2>1 DEF Held, Fresh, TopupIs, RideIs, WithdrawalIs, Item, Unpaid
  <2> QED
    BY <1>1, <1>2, <2>2, NoMoney DEF DriversWithdraw
<1>4. CASE ReadDriver(w)
  <2>1. /\ req[w].pc = "readDriver" /\ req'[w].pc = "split" /\ req'[w].item = req[w].item
        /\ req'[w].payer = req[w].payer
        /\ req'[w].payee = IF req[w].payee = None THEN balance[ride[Item(w)].driver] ELSE req[w].payee
    BY <1>1, <1>4 DEF ReadDriver, At, TypeOK, Request
  <2>2. Held(w)'
    BY <1>1, <1>2, <2>1 DEF Held, Fresh, TopupIs, RideIs, WithdrawalIs, Item, Unpaid
  <2> QED
    BY <1>1, <1>2, <2>2, NoMoney DEF DriversWithdraw
<1>5. CASE ConfirmRead(w)
  <2>1. /\ req[w].pc = "confirm" /\ req'[w].pc = "deduct" /\ req'[w].item = req[w].item
        /\ req'[w].payee = balance[ride[Item(w)].driver]
    BY <1>1, <1>5 DEF ConfirmRead, At, TypeOK, Request
  <2>2. Held(w)'
    BY <1>1, <1>2, <2>1 DEF Held, Fresh, TopupIs, RideIs, WithdrawalIs, Item, Unpaid
  <2> QED
    BY <1>1, <1>2, <2>2, NoMoney DEF DriversWithdraw
<1>6. CASE InsufficientBalance(w)
  BY <1>1, <1>2, <1>6, IdleHeld, NoMoney DEF InsufficientBalance, DriversWithdraw
<1> QED
  BY <1>3, <1>4, <1>5, <1>6

LEMMA SplitStep ==
    ASSUME Apart, IInv, HeldInv, NEW w \in Workers, OwnWrites(w), SplitFare(w)
    PROVE  Fine
<1>1. TypeOK /\ Sound(w) /\ Held(w) /\ DriversWithdraw
  BY DEF IInv, InFlight, HeldInv
<1>2. PICK r \in Rides : r = Item(w)
  BY <1>1 DEF SplitFare, At, Sound, RideStep
<1>3. PICK p \in Passengers, d \in Drivers : p = ride[r].passenger /\ d = ride[r].driver
  BY <1>1 DEF TypeOK, RideRow
<1>4. /\ Unpaid(r) /\ RidesCharged /\ req[w].payer >= Fare
      /\ req[w].payee = balance[d] /\ req[w].payer = balance[p]
  BY <1>1, <1>2, <1>3 DEF SplitFare, At, Held, RideIs, Fresh, HeldInv
<1>5. p # d /\ p \in Users /\ d \in Users
  BY <1>3, WalletAssumption DEF Users
<1>6. balance' = [balance EXCEPT ![p] = @ - Fare, ![d] = @ + (Fare - Commission)]
  <2>1. balance' = [balance EXCEPT ![p] = req[w].payer - Fare, ![d] = req[w].payee + (Fare - Commission)]
    BY <1>2, <1>3 DEF SplitFare
  <2> QED
    BY <1>1, <1>4, <1>5, <2>1 DEF TypeOK
<1>7. \A x \in Rides :
        /\ ride'[x].status = IF x = r THEN "PAID" ELSE ride[x].status
        /\ ride'[x].commissions = IF x = r THEN ride[x].commissions + 1 ELSE ride[x].commissions
        /\ ride'[x].openings = ride[x].openings
  BY <1>1, <1>2 DEF SplitFare, TypeOK, RideRow
<1>8. UNCHANGED <<topup, withdrawal>> /\ Done(w)
  BY DEF SplitFare
<1>9. SameTopups /\ SameWithdrawals /\ SameFailures
  BY <1>8, TopupsUntouched, WithdrawalsUntouched
<1>14. /\ RidesCharged'
       /\ [x \in Rides |-> ride[x].commissions][r] < [x \in Rides |-> ride[x].openings][r]
       /\ [x \in Rides |-> ride'[x].commissions]
            = [[x \in Rides |-> ride[x].commissions] EXCEPT ![r] = @ + 1]
  BY <1>1, <1>4, <1>7, RideCharged
<1>10. Ledger!PayByWallet(r, p, d)
  BY <1>4, <1>6, <1>7, <1>9, <1>14, CreditedStay, TakersStay, FailuresStay, TripsStay
     DEF Ledger!PayByWallet, Ledger!Charge
<1>11. HeldInv'
  BY <1>1, <1>8, <1>14, IdleHeld, OnlyHeld DEF HeldInv, DriversWithdraw
<1>12. /\ SameParties
       /\ \A x \in Rides :
            /\ ride'[x].payments = IF x = r THEN ride[x].payments + 1 ELSE ride[x].payments
            /\ ride'[x].commissions = IF x = r THEN ride[x].commissions + 1 ELSE ride[x].commissions
  BY <1>1, <1>2 DEF SplitFare, TypeOK, RideRow, SameParties
<1>13. LedgerInv => LedgerInv'
  BY <1>1, <1>3, <1>4, <1>6, <1>8, <1>12, SplitCounts
<1> QED
  BY <1>10, <1>11, <1>13 DEF Fine, Ledger!Next

LEMMA DeductStep ==
    ASSUME Apart, IInv, HeldInv, NEW w \in Workers, OwnWrites(w), DeductCommission(w)
    PROVE  Fine
<1>1. TypeOK /\ Sound(w) /\ Held(w) /\ DriversWithdraw
  BY DEF IInv, InFlight, HeldInv
<1>2. PICK r \in Rides : r = Item(w)
  BY <1>1 DEF DeductCommission, At, Sound, RideStep
<1>3. PICK d \in Drivers : d = ride[r].driver
  BY <1>1 DEF TypeOK, RideRow
<1>4. Unpaid(r) /\ RidesCharged /\ req[w].payee = balance[d]
  BY <1>1, <1>2, <1>3 DEF DeductCommission, At, Held, RideIs, Fresh, HeldInv
<1>5. d \in Users /\ balance[d] \in Nat
  BY <1>1, <1>3 DEF Users, TypeOK
<1>6. \/ balance[d] >= Commission /\ balance' = [balance EXCEPT ![d] = @ - Commission]
      \/ balance[d] < Commission /\ balance' = [balance EXCEPT ![d] = 0]
  <2>1. balance' = [balance EXCEPT ![d] = LessCommission(balance[d])]
    BY <1>2, <1>3, <1>4 DEF DeductCommission
  <2>2. CASE balance[d] >= Commission
    BY <2>1, <2>2 DEF LessCommission
  <2>3. CASE balance[d] < Commission
    <3>1. ~(balance[d] >= Commission)
      BY <1>5, <2>3, WalletAssumption
    <3> QED
      BY <2>1, <2>3, <3>1 DEF LessCommission
  <2> QED
    BY <1>5, <2>2, <2>3, WalletAssumption
<1>7. \A x \in Rides :
        /\ ride'[x].status = IF x = r THEN "PAID" ELSE ride[x].status
        /\ ride'[x].commissions = IF x = r THEN ride[x].commissions + 1 ELSE ride[x].commissions
        /\ ride'[x].openings = ride[x].openings
  BY <1>1, <1>2 DEF DeductCommission, TypeOK, RideRow
<1>8. UNCHANGED <<topup, withdrawal>> /\ Done(w)
  BY DEF DeductCommission
<1>9. SameTopups /\ SameWithdrawals /\ SameFailures
  BY <1>8, TopupsUntouched, WithdrawalsUntouched
<1>15. /\ RidesCharged'
       /\ [x \in Rides |-> ride[x].commissions][r] < [x \in Rides |-> ride[x].openings][r]
       /\ [x \in Rides |-> ride'[x].commissions]
            = [[x \in Rides |-> ride[x].commissions] EXCEPT ![r] = @ + 1]
  BY <1>1, <1>4, <1>7, RideCharged
<1>10. Ledger!PayInCash(r, d)
  BY <1>6, <1>7, <1>9, <1>15, CreditedStay, TakersStay, FailuresStay, TripsStay
     DEF Ledger!PayInCash, Ledger!Charge, Ledger!Take
<1>11. HeldInv'
  BY <1>1, <1>8, <1>15, IdleHeld, OnlyHeld DEF HeldInv, DriversWithdraw
<1>12. /\ SameParties
       /\ \A x \in Rides :
            /\ ride'[x].payments = ride[x].payments
            /\ ride'[x].commissions = IF x = r THEN ride[x].commissions + 1 ELSE ride[x].commissions
  BY <1>1, <1>2 DEF DeductCommission, TypeOK, RideRow, SameParties
<1>13. PICK taken \in Nat : /\ taken <= Commission /\ taken <= balance[d]
                            /\ balance' = [balance EXCEPT ![d] = @ - taken]
  <2>1. balance[d] - balance[d] = 0 /\ Commission \in Nat
    BY <1>5, WalletAssumption
  <2> QED
    BY <1>5, <1>6, <2>1
<1>14. LedgerInv => LedgerInv'
  BY <1>1, <1>3, <1>8, <1>12, <1>13, DeductCounts
<1> QED
  BY <1>10, <1>11, <1>14 DEF Fine, Ledger!Next

LEMMA HoldStep ==
    ASSUME Apart, IInv, HeldInv, NEW w \in Workers, OwnWrites(w), WithdrawHold(w)
    PROVE  Fine
<1>1. TypeOK /\ Sound(w) /\ Held(w) /\ DriversWithdraw
  BY DEF IInv, InFlight, HeldInv
<1>2. PICK x \in Withdrawals, d \in Drivers : x = Item(w) /\ d = withdrawal[x].user
  BY <1>1, WalletAssumption
     DEF WithdrawHold, At, Sound, WithdrawalStep, OwnedWithdrawal, DriversWithdraw
<1>3. /\ withdrawal[x].status = "NONE" /\ req[w].payee = balance[d]
      /\ balance[d] \in Nat /\ balance[d] >= WithdrawAmount /\ d \in Users
  BY <1>1, <1>2 DEF WithdrawHold, At, Sound, Held, WithdrawalIs, Fresh, TypeOK, Users
<1>4. balance' = [balance EXCEPT ![d] = @ - WithdrawAmount]
  BY <1>1, <1>2, <1>3 DEF WithdrawHold, TypeOK
<1>5. \A y \in Withdrawals : /\ withdrawal'[y].status = IF y = x THEN "PENDING" ELSE withdrawal[y].status
                             /\ withdrawal'[y].user = withdrawal[y].user
  BY <1>1, <1>2 DEF WithdrawHold, TypeOK, WithdrawalRow
<1>6. UNCHANGED <<topup, ride>>
  BY DEF WithdrawHold
<1>7. /\ SameTopups /\ SameRides /\ SameFailures
      /\ TakerOf(x) = None
      /\ [y \in Withdrawals |-> TakerOf(y)'] = [[y \in Withdrawals |-> TakerOf(y)] EXCEPT ![x] = d]
  BY <1>2, <1>3, <1>5, <1>6, TopupsUntouched, RidesUntouched DEF SameFailures, TakerOf
<1>8. Ledger!Withdraw(x, d)
  BY <1>3, <1>4, <1>7, CreditedStay, FailuresStay, TripsStay, ChargedStay
     DEF Ledger!Withdraw, Ledger!Take, SameRides
<1>9. /\ req'[w].pc = "payout" /\ req'[w].item = x
      /\ req'[w].payee = balance[d] - WithdrawAmount
  BY <1>1, <1>2, <1>3 DEF WithdrawHold, TypeOK, Request, Item
<1>10. balance'[d] = balance[d] - WithdrawAmount
  BY <1>1, <1>3, <1>4 DEF TypeOK
<1>11. Held(w)'
  BY <1>2, <1>5, <1>9, <1>10 DEF Held, Fresh, TopupIs, RideIs, WithdrawalIs, Item
<1>12. HeldInv'
  BY <1>1, <1>5, <1>7, <1>11, OnlyHeld, RidesStayCharged DEF HeldInv, DriversWithdraw
<1>13. LedgerInv => LedgerInv'
  BY <1>1, <1>2, <1>3, <1>4, <1>5, <1>6, HoldCounts
<1> QED
  BY <1>8, <1>12, <1>13 DEF Fine, Ledger!Next

LEMMA PayoutSteps ==
    ASSUME Apart, IInv, HeldInv, NEW w \in Workers, OwnWrites(w), Payout(w) \/ PayoutDone(w) \/ PayoutFails(w)
    PROVE  Fine
<1>1. TypeOK /\ Sound(w) /\ Held(w) /\ DriversWithdraw
  BY DEF IInv, InFlight, HeldInv
<1>2. PICK x \in Withdrawals, d \in Drivers : x = Item(w) /\ d = withdrawal[x].user
  BY <1>1, WalletAssumption
     DEF Payout, PayoutDone, PayoutFails, At, Sound, WithdrawalStep, OwnedWithdrawal, DriversWithdraw
<1>3. /\ withdrawal[x].status = "PENDING" /\ d \in Users
      /\ req[w].pc \in {"payout", "payoutFailed"} => req[w].payee = balance[d]
  BY <1>1, <1>2 DEF Payout, PayoutDone, PayoutFails, At, Held, WithdrawalIs, Fresh, Users
<1>4. SameTopups /\ SameRides /\ UNCHANGED <<topup, ride>>
  BY TopupsUntouched, RidesUntouched DEF Payout, PayoutDone, PayoutFails
<1>5. CASE Payout(w)
  <2>1. balance' = balance /\ req[w].pc = "payout"
    BY <1>5 DEF Payout, At
  <2>2. \A y \in Withdrawals : withdrawal'[y].status = withdrawal[y].status /\ withdrawal'[y].user = withdrawal[y].user
    <3>1. CASE UNCHANGED withdrawal
      BY <3>1
    <3>2. CASE withdrawal' = [withdrawal EXCEPT ![Item(w)].paidOut = TRUE]
      BY <1>1, <3>2 DEF TypeOK, WithdrawalRow
    <3> QED
      BY <1>5, <3>1, <3>2 DEF Payout
  <2>3. req'[w].pc \in {"payoutDone", "payoutFailed"} /\ req'[w].item = x /\ req'[w].payee = req[w].payee
    BY <1>1, <1>2, <1>5, GotoIs DEF Payout, Item
  <2>4. Held(w)'
    BY <1>2, <1>3, <2>1, <2>2, <2>3 DEF Held, Fresh, TopupIs, RideIs, WithdrawalIs, Item
  <2>5. SameWithdrawals /\ SameFailures
    BY <2>2 DEF SameWithdrawals, SameFailures
  <2> QED
    BY <1>1, <1>4, <2>1, <2>2, <2>4, <2>5, NoMoney DEF DriversWithdraw
<1>6. CASE PayoutDone(w)
  <2>1. \A y \in Withdrawals : /\ withdrawal'[y].status = IF y = x THEN "COMPLETED" ELSE withdrawal[y].status
                               /\ withdrawal'[y].user = withdrawal[y].user
    BY <1>1, <1>2, <1>6 DEF PayoutDone, TypeOK, WithdrawalRow
  <2>2. Held(w)' /\ balance' = balance
    BY <1>1, <1>6, IdleHeld DEF PayoutDone
  <2>3. SameWithdrawals /\ SameFailures
    BY <1>2, <1>3, <2>1 DEF SameWithdrawals, SameFailures
  <2> QED
    BY <1>1, <1>4, <2>1, <2>2, <2>3, NoMoney DEF DriversWithdraw
<1>7. CASE PayoutFails(w)
  <2>1. \A y \in Withdrawals : /\ withdrawal'[y].status = IF y = x THEN "FAILED" ELSE withdrawal[y].status
                               /\ withdrawal'[y].user = withdrawal[y].user
    BY <1>1, <1>2, <1>7 DEF PayoutFails, TypeOK, WithdrawalRow
  <2>2. balance' = balance
    BY <1>1, <1>2, <1>3, <1>7 DEF PayoutFails, At, TypeOK
  <2>3. SameWithdrawals
    BY <1>2, <1>3, <2>1 DEF SameWithdrawals
  <2>4. /\ x \notin {y \in Withdrawals : withdrawal[y].status = "FAILED"}
        /\ {y \in Withdrawals : withdrawal'[y].status = "FAILED"}
             = {y \in Withdrawals : withdrawal[y].status = "FAILED"} \cup {x}
    BY <1>3, <2>1
  <2>5. TakerOf(x) # None
    BY <1>2, <1>3, WalletAssumption DEF TakerOf
  <2>6. Ledger!Fail(x)
    BY <1>4, <2>2, <2>3, <2>4, <2>5, CreditedStay, TakersStay, TripsStay, ChargedStay
       DEF Ledger!Fail, SameRides
  <2>7. HeldInv'
    BY <1>1, <1>4, <1>7, <2>1, IdleHeld, OnlyHeld, RidesStayCharged DEF HeldInv, DriversWithdraw, PayoutFails
  <2>8. LedgerInv => LedgerInv'
    BY <1>4, <2>2, <2>3, QuietCounts DEF SameRides
  <2> QED
    BY <2>6, <2>7, <2>8 DEF Fine, Ledger!Next
<1> QED
  BY <1>5, <1>6, <1>7

LEMMA ArriveFine ==
    ASSUME Apart, IInv, HeldInv, NEW w \in Workers, OwnWrites(w), Arrive(w)
    PROVE  Fine
<1>1. TypeOK /\ RowsOK /\ DriversWithdraw
  BY DEF IInv, HeldInv
<1>2. ASSUME NEW pc, NEW i, NEW b, Begin(w, pc, i, b)
      PROVE  req'[w].pc = pc /\ req'[w].item = i /\ req'[w].payee = b
  BY <1>1, <1>2 DEF Begin, TypeOK
<1>3. ASSUME NEW t \in Topups, IpnStart(w, t, t) PROVE Fine
  <2>1. UNCHANGED <<balance, topup, ride, withdrawal>>
    BY <1>3 DEF IpnStart
  <2>2. /\ req'[w].item = t
        /\ req'[w].pc \in {"ipnFind", "ipnFail"}
        /\ req'[w].pc = "ipnFail" => gateway[t] # "completed"
    <3>1. \/ Begin(w, "ipnFind", t, None)
          \/ Begin(w, "ipnFail", t, None) /\ gateway[t] # "completed"
      BY <1>3 DEF IpnStart
    <3> QED
      BY <1>2, <3>1
  <2>3. gateway[t] # "completed" => topup[t].status \in {"NONE", "PENDING", "FAILED"}
    BY <1>1 DEF RowsOK, SettledAtGateway, TypeOK, TopupRow, TransactionStatus
  <2>4. Held(w)'
    BY <2>1, <2>2, <2>3 DEF Held, Fresh, TopupIs, RideIs, WithdrawalIs, Item
  <2> QED
    BY <1>1, <2>1, <2>4, TopupsUntouched, RidesUntouched, WithdrawalsUntouched, NoMoney DEF DriversWithdraw
<1>4. ASSUME NEW t \in Topups, NEW u \in Users, TopupStart(w, t, u) PROVE Fine
  <2>1. UNCHANGED <<balance, ride, withdrawal>> /\ topup[t].status = "NONE"
    BY <1>4 DEF TopupStart
  <2>2. req'[w].item = t /\ req'[w].pc = "submit"
    BY <1>2, <1>4 DEF TopupStart
  <2>3. \A x \in Topups : /\ topup'[x].status = IF x = t THEN "PENDING" ELSE topup[x].status
                          /\ topup'[x].user = IF x = t THEN u ELSE topup[x].user
    BY <1>1, <1>4 DEF TopupStart, TypeOK
  <2>4. Held(w)'
    BY <2>2, <2>3 DEF Held, Fresh, TopupIs, RideIs, WithdrawalIs, Item
  <2>5. SameTopups
    BY <2>1, <2>3 DEF SameTopups
  <2> QED
    BY <1>1, <2>1, <2>4, <2>5, RidesUntouched, WithdrawalsUntouched, NoMoney DEF DriversWithdraw
<1>5. ASSUME NEW r \in Rides, CompleteTap(w, r) \/ CompleteTask(w, r) \/ ConfirmStart(w, r) PROVE Fine
  <2>1. UNCHANGED <<balance, topup, ride, withdrawal>>
    BY <1>5 DEF CompleteTap, CompleteTask, ConfirmStart
  <2>2. /\ req'[w].item = r
        /\ \/ /\ req'[w].pc = "complete" /\ ride[r].status = "RIDING"
              /\ req'[w].payee \in {None, balance[ride[r].driver]}
           \/ req'[w].pc = "confirm" /\ ride[r].status = "COMPLETED"
    <3>1. PICK b : b = balance[ride[r].driver]
      OBVIOUS
    <3>2. \/ Begin(w, "complete", r, b) /\ ride[r].status = "RIDING"
          \/ Begin(w, "complete", r, None) /\ ride[r].status = "RIDING"
          \/ Begin(w, "confirm", r, None) /\ ride[r].status = "COMPLETED"
      BY <1>5, <3>1 DEF CompleteTap, CompleteTask, ConfirmStart, Begin
    <3> QED
      BY <1>2, <3>1, <3>2
  <2>4. Unpaid(r)
    BY <2>2 DEF HeldInv, RidesCharged
  <2>3. Held(w)'
    BY <2>1, <2>2, <2>4 DEF Held, Fresh, TopupIs, RideIs, WithdrawalIs, Item, Unpaid
  <2> QED
    BY <1>1, <2>1, <2>3, TopupsUntouched, RidesUntouched, WithdrawalsUntouched, NoMoney DEF DriversWithdraw
<1>6. ASSUME NEW x \in Withdrawals, NEW d \in Drivers, WithdrawStart(w, x, d) PROVE Fine
  <2>1. UNCHANGED <<balance, topup, ride>> /\ withdrawal[x].status = "NONE"
    BY <1>6 DEF WithdrawStart
  <2>2. /\ req'[w].item = x /\ req'[w].pc = "hold" /\ req'[w].payee = balance[d]
    BY <1>1, <1>6 DEF WithdrawStart, Begin, TypeOK
  <2>3. \A y \in Withdrawals : /\ withdrawal'[y].status = withdrawal[y].status
                               /\ withdrawal'[y].user = IF y = x THEN d ELSE withdrawal[y].user
    BY <1>1, <1>6 DEF WithdrawStart, TypeOK, WithdrawalRow
  <2>4. Held(w)'
    BY <2>1, <2>2, <2>3 DEF Held, Fresh, TopupIs, RideIs, WithdrawalIs, Item
  <2>5. SameWithdrawals /\ SameFailures
    BY <2>1, <2>3 DEF SameWithdrawals, SameFailures
  <2> QED
    BY <1>1, <2>1, <2>3, <2>4, <2>5, TopupsUntouched, RidesUntouched, NoMoney DEF DriversWithdraw
<1>7. ASSUME NEW n \in Notified, IpnStart(w, n[1], n[2]) PROVE Fine
  BY <1>3, <1>7, OwnIds
<1> QED
  BY <1>4, <1>5, <1>6, <1>7 DEF Arrive

\* A late tap is one more trip, and takes nothing from who charges for the last.
LEMMA ReopenFine ==
    ASSUME IInv, HeldInv, NEW r \in Rides, Reopen(r)
    PROVE  Fine
<1>1. TypeOK /\ RidesCharged /\ DriversWithdraw
  BY DEF IInv, HeldInv
<1>2. UNCHANGED <<balance, topup, withdrawal, req>> /\ ride[r].status # "RIDING"
  BY DEF Reopen
<1>3. \A x \in Rides :
        /\ ride'[x].status = IF x = r THEN "RIDING" ELSE ride[x].status
        /\ ride'[x].openings = IF x = r THEN ride[x].openings + 1 ELSE ride[x].openings
  BY <1>1 DEF Reopen, TypeOK, RideRow
<1>4. SameParties /\ SameCounts
  BY <1>1 DEF Reopen, TypeOK, RideRow, SameParties, SameCounts
<1>5. \A x \in Rides : ride[x].commissions \in Nat /\ ride[x].openings \in Nat
  BY <1>1 DEF TypeOK, RideRow
<1>6. RidesCharged'
  BY <1>1, <1>3, <1>4, <1>5 DEF RidesCharged, Unpaid, SameCounts
<1>7. ASSUME NEW w \in Workers PROVE Held(w)'
  <2>1. Held(w) /\ Sound(w)
    BY DEF HeldInv, IInv, InFlight
  <2>2. req[w].pc \in RideStep => Item(w) \in Rides
    BY <2>1 DEF Sound
  <2>3. CASE req[w].pc \in RideStep
    BY <1>2, <1>3, <1>4, <1>5, <2>1, <2>2, <2>3
       DEF Held, Fresh, TopupIs, RideIs, WithdrawalIs, Item, Unpaid, SameParties, SameCounts, RideStep
  <2>4. CASE req[w].pc \notin RideStep
    BY <1>2, <2>1, <2>4 DEF Held, Fresh, TopupIs, RideIs, WithdrawalIs, Item, RideStep
  <2> QED
    BY <2>3, <2>4
<1>8. HeldInv'
  BY <1>1, <1>2, <1>6, <1>7 DEF HeldInv, DriversWithdraw
<1>9. SameTopups /\ SameWithdrawals /\ SameFailures
  BY <1>2, TopupsUntouched, WithdrawalsUntouched
<1>10. LedgerInv => LedgerInv'
  BY <1>2, <1>4, <1>9, QuietCounts
<1>11. [x \in Rides |-> ride'[x].openings] = [[x \in Rides |-> ride[x].openings] EXCEPT ![r] = @ + 1]
  BY <1>3
<1>12. Ledger!Open(r)
  BY <1>2, <1>4, <1>9, <1>11, CreditedStay, TakersStay, FailuresStay, ChargedStay DEF Ledger!Open
<1> QED
  BY <1>8, <1>10, <1>12 DEF Fine, Ledger!Next

\* PesaPal's own steps, and steps that do nothing.
LEMMA RestFine ==
    ASSUME HeldInv, UNCHANGED <<balance, topup, ride, withdrawal, req>>
    PROVE  Fine
<1>1. HeldInv'
  BY DEF HeldInv, DriversWithdraw, RidesCharged, Unpaid, Held, Fresh, TopupIs, RideIs, WithdrawalIs, Item
<1>2. SameTopups /\ SameRides /\ SameWithdrawals /\ SameFailures
  BY TopupsUntouched, RidesUntouched, WithdrawalsUntouched
<1>3. LedgerInv => LedgerInv'
  BY <1>2, QuietCounts DEF SameRides
<1> QED
  BY <1>1, <1>2, <1>3, MappedSame DEF Fine

LEMMA NextFine == ASSUME Apart, IInv, HeldInv, [Next]_vars PROVE Fine
<1>1. ASSUME NEW w \in Workers, Continue(w) PROVE Fine
  BY <1>1, WritesAreOwn, TopupSteps, CreditStep, CompleteStep, ReadSteps, SplitStep, DeductStep, HoldStep,
     PayoutSteps DEF Continue
<1>2. ASSUME NEW w \in Workers, Arrive(w) PROVE Fine
  BY <1>2, WritesAreOwn, ArriveFine
<1>3. ASSUME NEW w \in Workers, Fault(w) PROVE Fine
  <2>1. Held(w)' /\ UNCHANGED <<balance, topup, ride, withdrawal>>
    BY <1>3, IdleHeld DEF Fault, IInv
  <2> QED
    BY <1>3, <2>1, WritesAreOwn, TopupsUntouched, RidesUntouched, WithdrawalsUntouched, NoMoney
       DEF IInv, HeldInv, DriversWithdraw
<1>4. ASSUME NEW t \in Topups, GatewaySettles(t) PROVE Fine
  BY <1>4, RestFine DEF GatewaySettles
<1>5. ASSUME NEW r \in Rides, Reopen(r) PROVE Fine
  BY <1>5, ReopenFine
<1>6. CASE UNCHANGED vars
  BY <1>6, RestFine DEF vars
<1> QED
  BY <1>1, <1>2, <1>3, <1>4, <1>5, <1>6 DEF Next

\* The operations of payment.py, kept apart, implement Purse: each moves its
\* money once, at one instant, and no more than the wallet holds, whatever dies
\* between two awaits, whatever PesaPal answers and repeats, and whichever late
\* tap puts a ride on the road again: that is one more trip to charge.
THEOREM WalletImplementsPurse == Spec /\ []Apart => RefinesPurse
<1>1. Init => HeldInv /\ Ledger!Init
  <2> SUFFICES ASSUME Init PROVE HeldInv /\ Ledger!Init
    OBVIOUS
  <2>1. HeldInv
    BY DEF Init, HeldInv, DriversWithdraw, RidesCharged, Unpaid, Held, Fresh, TopupIs, RideIs,
           WithdrawalIs, Idle
  <2>2. /\ {t \in Topups : topup[t].status = "COMPLETED"} = {}
        /\ {x \in Withdrawals : withdrawal[x].status = "FAILED"} = {}
        /\ [x \in Withdrawals |-> TakerOf(x)] = [x \in Withdrawals |-> None]
        /\ [r \in Rides |-> ride[r].openings] = [r \in Rides |-> 1]
        /\ [r \in Rides |-> ride[r].commissions] = [r \in Rides |-> 0]
    BY DEF Init, TakerOf
  <2> QED
    BY <2>1, <2>2 DEF Init, Ledger!Init, Ledger!Users, Users
<1>2. Apart /\ IInv /\ HeldInv /\ [Next]_vars => HeldInv' /\ [Ledger!Next]_(Ledger!vars)
  BY NextFine DEF Fine
<1> QED
  BY <1>1, <1>2, Inductive, PTL DEF Spec, RefinesPurse, Ledger!Spec

\* Withdrawals that stand are among those that were asked for.
LEMMA StandingRowsCount == ASSUME TypeOK, LedgerInv PROVE LedgerReconciles
<1>1. ASSUME NEW d \in Drivers
      PROVE  balance[d] + Worth(WithdrawAmount, StandingRows(d))
               <= Worth(TopupAmount, TopupRows(d)) + Worth(Fare - Commission, PaymentRows(d))
  <2>1. d \in Users /\ balance[d] \in Nat
    BY DEF Users, TypeOK
  <2>2. IsFiniteSet(WithdrawalRows(d)) /\ StandingRows(d) \in SUBSET WithdrawalRows(d)
    BY <2>1 DEF LedgerInv, FiniteRows, StandingRows
  <2>3. PICK m \in Nat, n \in Nat :
          m = Cardinality(StandingRows(d)) /\ n = Cardinality(WithdrawalRows(d)) /\ m <= n
    BY <2>2, FS_Subset, FS_CardinalityType
  <2>4. WithdrawAmount * m <= WithdrawAmount * n /\ WithdrawAmount * m \in Nat
    <3>1. PICK k \in Nat : n = m + k
      <4>1. n - m \in Nat /\ n = m + (n - m)
        BY <2>3
      <4> QED
        BY <4>1
    <3>2. WithdrawAmount \in Nat
      BY WalletAssumption
    <3>3. \A a, i, j \in Nat : a * (i + j) = a * i + a * j /\ a * i \in Nat /\ a * j \in Nat
      OBVIOUS
    <3>4. /\ WithdrawAmount * n = WithdrawAmount * m + WithdrawAmount * k
          /\ WithdrawAmount * m \in Nat /\ WithdrawAmount * k \in Nat
      BY <3>1, <3>2, <3>3
    <3> QED
      BY <3>4
  <2>5. /\ Worth(WithdrawAmount, StandingRows(d)) <= Worth(WithdrawAmount, WithdrawalRows(d))
        /\ Worth(WithdrawAmount, StandingRows(d)) \in Nat
    BY <2>3, <2>4 DEF Worth
  <2>6. balance[d] + Worth(WithdrawAmount, WithdrawalRows(d))
          <= Worth(TopupAmount, TopupRows(d)) + Worth(Fare - Commission, PaymentRows(d))
    BY DEF LedgerInv, RowsAddUp
  <2> QED
    BY <2>1, <2>5, <2>6, WorthsAreNumbers
<1> QED
  BY <1>1 DEF LedgerInv, RowsAddUp, LedgerReconciles

\* The ledger, one operation at a time, adds up: a passenger's balance is what
\* his COMPLETED rows say, to the shilling; a driver never has more than his
\* rows say, and is never short of more than the commissions recorded and the
\* withdrawals that FAILED.
THEOREM LedgerAlwaysReconciles == Spec /\ []Apart => []LedgerReconciles
<1>1. Init => HeldInv /\ LedgerInv
  <2> SUFFICES ASSUME Init PROVE HeldInv /\ LedgerInv
    OBVIOUS
  <2>1. HeldInv
    BY DEF Init, HeldInv, DriversWithdraw, RidesCharged, Unpaid, Held, Fresh, TopupIs, RideIs,
           WithdrawalIs, Idle
  <2>2. \A u \in Users : /\ TopupRows(u) = {} /\ WithdrawalRows(u) = {}
                         /\ PaymentRows(u) = {} /\ CommissionRows(u) = {}
    <3>1. \A r \in Rides : ride[r].payments = 0 /\ ride[r].commissions = 0
      BY DEF Init
    <3> QED
      BY <3>1 DEF Init, TopupRows, WithdrawalRows, PaymentRows, CommissionRows, RowsOf, RidesOf
  <2>3. \A u \in Users : FiniteRows(u)
    BY <2>2, FS_EmptySet DEF FiniteRows
  <2>4. RowsAddUp
    <3>1. {TopupAmount, Fare, Commission, WithdrawAmount, Fare - Commission} \subseteq Nat
      BY WalletAssumption
    <3>2. \A u \in Users : balance[u] = 0
      BY DEF Init
    <3>3. \A u \in Users : /\ Worth(TopupAmount, TopupRows(u)) = 0
                           /\ Worth(WithdrawAmount, WithdrawalRows(u)) = 0
                           /\ Worth(Fare, PaymentRows(u)) = 0
                           /\ Worth(Fare - Commission, PaymentRows(u)) = 0
                           /\ Worth(Commission, CommissionRows(u)) = 0
      BY <2>2, <3>1, WorthNothing
    <3> QED
      BY <3>2, <3>3 DEF RowsAddUp, Users
  <2> QED
    BY <2>1, <2>3, <2>4 DEF LedgerInv
<1>2. Apart /\ IInv /\ HeldInv /\ LedgerInv /\ [Next]_vars => HeldInv' /\ LedgerInv'
  BY NextFine DEF Fine
<1>3. IInv /\ LedgerInv => LedgerReconciles
  BY StandingRowsCount DEF IInv
<1> QED
  BY <1>1, <1>2, <1>3, Inductive, PTL DEF Spec

=============================================================================
