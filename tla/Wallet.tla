------------------------------- MODULE Wallet -------------------------------
(***************************************************************************)
(* Wallets and the transaction ledger: app/services/payment.py with the    *)
(* handlers and tasks that call it.                                        *)
(*                                                                         *)
(* No balance is ever changed in place: every operation reads it, computes *)
(* and writes the result back, so what a handler read is kept in its       *)
(* record req[w] until it writes.  A handler is cut at its awaits, and the *)
(* UPDATEs and INSERTs of one transaction take effect at its commit.       *)
(* Amounts are fixed per kind of operation.                                *)
(***************************************************************************)
EXTENDS Naturals, FiniteSets

CONSTANTS
    Passengers, Drivers,  \* users; an administrator's wallet works like a driver's
    Topups,               \* WALLET_TOPUP rows that can be created
    Rides,
    Withdrawals,          \* WITHDRAWAL rows that can be created
    Workers,              \* handlers and tasks that can be in flight together
    None,                 \* no user, nothing read
    TopupAmount, Fare, Commission, WithdrawAmount,
    Notified,             \* external: the pairs of ids that PesaPal's callbacks carry
    MaxOpenings,          \* bound: times one ride is put on the road
    MaxFaults             \* bound: handlers that die between two awaits

Users == Passengers \cup Drivers

ASSUME WalletAssumption ==
    /\ None \notin Users \cup Topups \cup Rides \cup Withdrawals \cup Nat
    /\ Passengers \cap Drivers = {}
    /\ Topups \cap (Rides \cup Withdrawals) = {} /\ Rides \cap Withdrawals = {}
    /\ {TopupAmount, Fare, Commission, WithdrawAmount} \subseteq Nat
    /\ Commission <= Fare
    /\ MaxOpenings \in Nat /\ MaxFaults \in Nat
    /\ IsFiniteSet(Workers)

\* External: OrderTrackingId and OrderMerchantReference of a callback are the
\* two names of one order.  process_ipn_callback does not compare them.
ASSUME NotificationsMatch == Notified \subseteq {<<t, t>> : t \in Topups}

VARIABLES
    balance,     \* users.wallet_balance_ugx
    topup,       \* the WALLET_TOPUP rows
    gateway,     \* external: what PesaPal answers about each order
    ride,        \* rides, with the number of their ledger rows
    withdrawal,  \* the WITHDRAWAL rows, and whether PesaPal paid out
    req,         \* the handler or task each worker is running
    faults       \* handlers that have died so far

vars == <<balance, topup, gateway, ride, withdrawal, req, faults>>

-----------------------------------------------------------------------------
(* Rows and requests *)

\* "NONE" is a row not yet created.
TransactionStatus == {"NONE", "PENDING", "COMPLETED", "FAILED"}

TopupRow == [status : TransactionStatus, user : Users \cup {None}]

WithdrawalRow == [status : TransactionStatus, user : Users \cup {None}, paidOut : BOOLEAN]

\* "RIDING" stands for IN_PROGRESS and DRIVER_ARRIVING, and for the statuses
\* from which a ride gets there; openings counts the times it got there.
RideRow == [status : {"RIDING", "COMPLETED", "PAID"},
            passenger : Passengers, driver : Drivers,
            payments : Nat, commissions : Nat, openings : Nat]

Gateway == {"none", "pending", "completed", "failed"}

Step == {"idle", "submit", "submitFailed", "ipnFail", "ipnFind", "ipnRead", "ipnCredit",
         "complete", "readPassenger", "readDriver", "split", "confirm", "deduct",
         "hold", "payout", "payoutDone", "payoutFailed"}

\* payer and payee are balances as the handler read them.
Request == [pc : Step, item : Topups \cup Rides \cup Withdrawals \cup {None},
            payer : Nat, payee : Nat \cup {None}]

Idle == [pc |-> "idle", item |-> None, payer |-> 0, payee |-> None]

\* A balance is a natural number: ck_wallet_non_negative is never hit.
TypeOK ==
    /\ balance \in [Users -> Nat]
    /\ topup \in [Topups -> TopupRow]
    /\ gateway \in [Topups -> Gateway]
    /\ ride \in [Rides -> RideRow]
    /\ withdrawal \in [Withdrawals -> WithdrawalRow]
    /\ req \in [Workers -> Request]
    /\ faults \in 0 .. MaxFaults

Init ==
    /\ balance = [u \in Users |-> 0]
    /\ topup = [t \in Topups |-> [status |-> "NONE", user |-> None]]
    /\ gateway = [t \in Topups |-> "none"]
    /\ ride \in [Rides -> [status : {"RIDING"}, passenger : Passengers, driver : Drivers,
                           payments : {0}, commissions : {0}, openings : {1}]]
    /\ withdrawal = [x \in Withdrawals |->
                       [status |-> "NONE", user |-> None, paidOut |-> FALSE]]
    /\ req = [w \in Workers |-> Idle]
    /\ faults = 0

-----------------------------------------------------------------------------
(* Control of a worker *)

At(w, pc) == req[w].pc = pc

Begin(w, pc, item, payee) ==
    /\ At(w, "idle")
    /\ req' = [req EXCEPT ![w] = [pc |-> pc, item |-> item, payer |-> 0, payee |-> payee]]

Goto(w, pc) == req' = [req EXCEPT ![w].pc = pc]

Done(w) == req' = [req EXCEPT ![w] = Idle]

Item(w) == req[w].item

-----------------------------------------------------------------------------
(* initiate_wallet_topup: a PENDING row, then the order *)

TopupStart(w, t, u) ==
    /\ topup[t].status = "NONE"
    /\ topup' = [topup EXCEPT ![t] = [status |-> "PENDING", user |-> u]]
    /\ Begin(w, "submit", t, None)
    /\ UNCHANGED <<balance, gateway, ride, withdrawal, faults>>

\* External: what PesaPal does with an order; one it knows keeps its state.
Registered(g) == IF g = "none" THEN "pending" ELSE g

\* On an HTTP error the user never sees the payment page of the order.
SubmitOrder(w) ==
    /\ At(w, "submit")
    /\ \/ gateway' = [gateway EXCEPT ![Item(w)] = Registered(@)] /\ Done(w)
       \/ Goto(w, "submitFailed") /\ UNCHANGED gateway
    /\ UNCHANGED <<balance, topup, ride, withdrawal, faults>>

\* FAILED by an UPDATE that names the order only.
FailTopup(w, pc) ==
    /\ At(w, pc)
    /\ topup' = [topup EXCEPT ![Item(w)].status = "FAILED"]
    /\ Done(w)
    /\ UNCHANGED <<balance, gateway, ride, withdrawal, faults>>

SubmitFails(w) == FailTopup(w, "submitFailed")

\* External: the user pays on PesaPal's page, or gives up.
GatewaySettles(t) ==
    /\ gateway[t] = "pending"
    /\ \E s \in {"completed", "failed"} : gateway' = [gateway EXCEPT ![t] = s]
    /\ UNCHANGED <<balance, topup, ride, withdrawal, req, faults>>

-----------------------------------------------------------------------------
(* process_ipn_callback: PesaPal may call at any time, and again *)

\* Mutant: the callback is believed without asking PesaPal.
IpnStartTrusting(w, tracking, reference) ==
    /\ gateway[tracking] # "none"
    /\ Begin(w, "ipnFind", reference, None)
    /\ UNCHANGED <<balance, topup, gateway, ride, withdrawal, faults>>

\* PesaPal is asked about one id, and the row of the other is worked on; what
\* it answers of the amount is not used.
IpnStart(w, tracking, reference) ==
    /\ gateway[tracking] # "none"
    /\ Begin(w, IF gateway[tracking] = "completed" THEN "ipnFind" ELSE "ipnFail", reference, None)
    /\ UNCHANGED <<balance, topup, gateway, ride, withdrawal, faults>>

IpnFails(w) == FailTopup(w, "ipnFail")

\* Mutant: the select does not ask for PENDING.
IpnFindAnyStatus(w) ==
    /\ At(w, "ipnFind")
    /\ Goto(w, "ipnRead")
    /\ UNCHANGED <<balance, topup, gateway, ride, withdrawal, faults>>

IpnFind(w) ==
    /\ At(w, "ipnFind")
    /\ IF topup[Item(w)].status = "PENDING" THEN Goto(w, "ipnRead") ELSE Done(w)
    /\ UNCHANGED <<balance, topup, gateway, ride, withdrawal, faults>>

IpnRead(w) ==
    /\ At(w, "ipnRead")
    /\ req' = [req EXCEPT ![w].pc = "ipnCredit", ![w].payee = balance[topup[Item(w)].user]]
    /\ UNCHANGED <<balance, topup, gateway, ride, withdrawal, faults>>

IpnCredit(w) ==
    /\ At(w, "ipnCredit")
    /\ balance' = [balance EXCEPT ![topup[Item(w)].user] = req[w].payee + TopupAmount]
    /\ topup' = [topup EXCEPT ![Item(w)].status = "COMPLETED"]
    /\ Done(w)
    /\ UNCHANGED <<gateway, ride, withdrawal, faults>>

-----------------------------------------------------------------------------
(* complete_ride and process_ride_payment.  When the driver taps, his user *)
(* row was loaded with the request and is not read again; the task reads   *)
(* it when it needs it.                                                    *)

\* Mutant: the driver's tap is taken whatever the ride's status.
CompleteTapAgain(w, r) ==
    /\ Begin(w, "complete", r, balance[ride[r].driver])
    /\ UNCHANGED <<balance, topup, gateway, ride, withdrawal, faults>>

CompleteTap(w, r) ==
    /\ ride[r].status = "RIDING"
    /\ Begin(w, "complete", r, balance[ride[r].driver])
    /\ UNCHANGED <<balance, topup, gateway, ride, withdrawal, faults>>

CompleteTask(w, r) ==
    /\ ride[r].status = "RIDING"
    /\ Begin(w, "complete", r, None)
    /\ UNCHANGED <<balance, topup, gateway, ride, withdrawal, faults>>

CommitComplete(w) ==
    /\ At(w, "complete")
    /\ ride' = [ride EXCEPT ![Item(w)].status = "COMPLETED"]
    /\ Goto(w, "readPassenger")
    /\ UNCHANGED <<balance, topup, gateway, withdrawal, faults>>

ReadPassenger(w) ==
    /\ At(w, "readPassenger")
    /\ req' = [req EXCEPT ![w].pc = "readDriver",
                          ![w].payer = balance[ride[Item(w)].passenger]]
    /\ UNCHANGED <<balance, topup, gateway, ride, withdrawal, faults>>

ReadDriver(w) ==
    /\ At(w, "readDriver")
    /\ req' = [req EXCEPT ![w].pc = "split",
                          ![w].payee = IF @ = None THEN balance[ride[Item(w)].driver] ELSE @]
    /\ UNCHANGED <<balance, topup, gateway, ride, withdrawal, faults>>

\* Mutant: no test for a sufficient balance.
SplitFareUnchecked(w) ==
    /\ At(w, "split")
    /\ LET r == Item(w) IN
       /\ balance' = [balance EXCEPT ![ride[r].passenger] = req[w].payer - Fare,
                                     ![ride[r].driver] = req[w].payee + (Fare - Commission)]
       /\ ride' = [ride EXCEPT ![r].status = "PAID", ![r].payments = @ + 1,
                               ![r].commissions = @ + 1]
    /\ Done(w)
    /\ UNCHANGED <<topup, gateway, withdrawal, faults>>

\* Mutant: the driver is credited the whole fare.
SplitFareUnshared(w) ==
    /\ At(w, "split")
    /\ req[w].payer >= Fare
    /\ LET r == Item(w) IN
       /\ balance' = [balance EXCEPT ![ride[r].passenger] = req[w].payer - Fare,
                                     ![ride[r].driver] = req[w].payee + Fare]
       /\ ride' = [ride EXCEPT ![r].status = "PAID", ![r].payments = @ + 1,
                               ![r].commissions = @ + 1]
    /\ Done(w)
    /\ UNCHANGED <<topup, gateway, withdrawal, faults>>

\* Both balances, the three rows and PAID in one transaction.
SplitFare(w) ==
    /\ At(w, "split")
    /\ req[w].payer >= Fare
    /\ LET r == Item(w) IN
       /\ balance' = [balance EXCEPT ![ride[r].passenger] = req[w].payer - Fare,
                                     ![ride[r].driver] = req[w].payee + (Fare - Commission)]
       /\ ride' = [ride EXCEPT ![r].status = "PAID", ![r].payments = @ + 1,
                               ![r].commissions = @ + 1]
    /\ Done(w)
    /\ UNCHANGED <<topup, gateway, withdrawal, faults>>

InsufficientBalance(w) ==
    /\ At(w, "split")
    /\ req[w].payer < Fare
    /\ Done(w)
    /\ UNCHANGED <<balance, topup, gateway, ride, withdrawal, faults>>

\* A late arrived or start tap of the ride's driver, or a GPS commit, of a ride
\* that was completed or paid meanwhile (module Dispatch).
Reopen(r) ==
    /\ ride[r].status # "RIDING"
    /\ ride[r].openings < MaxOpenings
    /\ ride' = [ride EXCEPT ![r].status = "RIDING", ![r].openings = @ + 1]
    /\ UNCHANGED <<balance, topup, gateway, withdrawal, req, faults>>

-----------------------------------------------------------------------------
(* confirm_payment and process_commission_deduction: the passenger has     *)
(* paid in cash, the driver owes the commission                            *)

ConfirmStart(w, r) ==
    /\ ride[r].status = "COMPLETED"
    /\ Begin(w, "confirm", r, None)
    /\ UNCHANGED <<balance, topup, gateway, ride, withdrawal, faults>>

ConfirmRead(w) ==
    /\ At(w, "confirm")
    /\ req' = [req EXCEPT ![w].pc = "deduct", ![w].payee = balance[ride[Item(w)].driver]]
    /\ UNCHANGED <<balance, topup, gateway, ride, withdrawal, faults>>

\* max(0, balance - commission)
LessCommission(b) == IF b >= Commission THEN b - Commission ELSE 0

\* Mutant: a driver who cannot pay is let off, without a row.
DeductCommissionIfAble(w) ==
    /\ At(w, "deduct")
    /\ LET r == Item(w)
           able == req[w].payee >= Commission IN
       /\ balance' = [balance EXCEPT ![ride[r].driver] = LessCommission(req[w].payee)]
       /\ ride' = [ride EXCEPT ![r].status = "PAID", ![r].commissions = IF able THEN @ + 1 ELSE @]
    /\ Done(w)
    /\ UNCHANGED <<topup, gateway, withdrawal, faults>>

DeductCommission(w) ==
    /\ At(w, "deduct")
    /\ LET r == Item(w) IN
       /\ balance' = [balance EXCEPT ![ride[r].driver] = LessCommission(req[w].payee)]
       /\ ride' = [ride EXCEPT ![r].status = "PAID", ![r].commissions = @ + 1]
    /\ Done(w)
    /\ UNCHANGED <<topup, gateway, withdrawal, faults>>

-----------------------------------------------------------------------------
(* initiate_driver_withdrawal and initiate_admin_withdrawal *)

\* The balance tested is the one loaded with the request.  The row is created
\* at the hold; naming its user here only reserves x.
WithdrawStart(w, x, u) ==
    /\ withdrawal[x].status = "NONE" /\ withdrawal[x].user = None
    /\ balance[u] >= WithdrawAmount
    /\ withdrawal' = [withdrawal EXCEPT ![x].user = u]
    /\ Begin(w, "hold", x, balance[u])
    /\ UNCHANGED <<balance, topup, gateway, ride, faults>>

\* The ORM applies the UPDATE to the loaded user too: from here on the handler
\* knows the new balance only.
WithdrawHold(w) ==
    /\ At(w, "hold")
    /\ LET x == Item(w)
           new == req[w].payee - WithdrawAmount IN
       /\ balance' = [balance EXCEPT ![withdrawal[x].user] = new]
       /\ withdrawal' = [withdrawal EXCEPT ![x].status = "PENDING"]
       /\ req' = [req EXCEPT ![w].pc = "payout", ![w].payee = new]
    /\ UNCHANGED <<topup, gateway, ride, faults>>

\* An HTTP error may hide a payout that was carried out.
Payout(w) ==
    /\ At(w, "payout")
    /\ \/ /\ withdrawal' = [withdrawal EXCEPT ![Item(w)].paidOut = TRUE]
          /\ \/ Goto(w, "payoutDone")
             \/ Goto(w, "payoutFailed")
       \/ Goto(w, "payoutFailed") /\ UNCHANGED withdrawal
    /\ UNCHANGED <<balance, topup, gateway, ride, faults>>

PayoutDone(w) ==
    /\ At(w, "payoutDone")
    /\ withdrawal' = [withdrawal EXCEPT ![Item(w)].status = "COMPLETED"]
    /\ Done(w)
    /\ UNCHANGED <<balance, topup, gateway, ride, faults>>

PayoutFails(w) ==
    /\ At(w, "payoutFailed")
    /\ withdrawal' = [withdrawal EXCEPT ![Item(w)].status = "FAILED"]
    /\ balance' = [balance EXCEPT ![withdrawal[Item(w)].user] = req[w].payee]
    /\ Done(w)
    /\ UNCHANGED <<topup, gateway, ride, faults>>

-----------------------------------------------------------------------------
(* Failure, and the specification *)

\* A handler dies between two awaits: what it committed stays.
Fault(w) ==
    /\ ~At(w, "idle")
    /\ faults < MaxFaults
    /\ faults' = faults + 1
    /\ Done(w)
    /\ UNCHANGED <<balance, topup, gateway, ride, withdrawal>>

Continue(w) ==
    \/ SubmitOrder(w) \/ SubmitFails(w)
    \/ IpnFails(w) \/ IpnFind(w) \/ IpnRead(w) \/ IpnCredit(w)
    \/ CommitComplete(w) \/ ReadPassenger(w) \/ ReadDriver(w)
    \/ SplitFare(w) \/ InsufficientBalance(w)
    \/ ConfirmRead(w) \/ DeductCommission(w)
    \/ WithdrawHold(w) \/ Payout(w) \/ PayoutDone(w) \/ PayoutFails(w)

Arrive(w) ==
    \/ \E n \in Notified : IpnStart(w, n[1], n[2])
    \/ \E t \in Topups, u \in Users : TopupStart(w, t, u)
    \/ \E r \in Rides : CompleteTap(w, r) \/ CompleteTask(w, r) \/ ConfirmStart(w, r)
    \/ \E x \in Withdrawals, u \in Drivers : WithdrawStart(w, x, u)

Next ==
    \/ \E w \in Workers : Arrive(w) \/ Continue(w) \/ Fault(w)
    \/ \E t \in Topups : GatewaySettles(t)
    \/ \E r \in Rides : Reopen(r)

Spec == Init /\ [][Next]_vars

\* Handlers run on, and PesaPal repeats the notification of a paid order as
\* long as a worker is free to take it.
Fairness ==
    /\ \A w \in Workers : WF_vars(Continue(w))
    /\ \A n \in Notified :
         SF_vars(gateway[n[1]] = "completed" /\ \E w \in Workers : IpnStart(w, n[1], n[2]))

FairSpec == Spec /\ Fairness

-----------------------------------------------------------------------------
(* Properties that hold however handlers overlap *)

\* A ride becomes PAID only together with a COMMISSION row, by the wallet
\* split or by the deduction, whichever of them and of complete_ride overlap.
PaidRideHasCommission ==
    \A r \in Rides : ride[r].status = "PAID" => ride[r].commissions > 0

\* Each time a ride is put on the road its fare is taken at most once by each of
\* the handlers and tasks that overlap in completing it: no retry, redelivered
\* task or cash payment leads back to the split of a fare, only a late tap does.
OnePaymentEach ==
    \A r \in Rides : ride[r].payments <= ride[r].openings * Cardinality(Workers)

\* A COMPLETED row is money that PesaPal has received or paid out, whichever
\* notifications of an order (NotificationsMatch) come early, late or again.
SettledAtGateway ==
    /\ \A t \in Topups : topup[t].status = "COMPLETED" => gateway[t] = "completed"
    /\ \A x \in Withdrawals : withdrawal[x].status = "COMPLETED" => withdrawal[x].paidOut

-----------------------------------------------------------------------------
(* What comments and docstrings say of the code, and the code does not do: *)
(* each of these is refuted by a run of its own.                           *)

\* "PesaPal calls our IPN endpoint; we verify and credit the wallet": a top-up
\* that was paid is credited in the end.
PaidTopupCredited ==
    \A t \in Topups : gateway[t] = "completed" ~> topup[t].status = "COMPLETED"

\* "Reverse the wallet deduction on failure".
FailedWithdrawalReversed ==
    [][\A x \in Withdrawals :
         withdrawal[x].status = "PENDING" /\ withdrawal'[x].status = "FAILED"
            => balance'[withdrawal[x].user] = balance[withdrawal[x].user] + WithdrawAmount]_vars

=============================================================================
