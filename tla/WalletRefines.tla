--------------------------- MODULE WalletRefines ----------------------------
(***************************************************************************)
(* Wallet seen as a Purse, and its ledger against its balances.            *)
(***************************************************************************)
EXTENDS Wallet

\* A row that is only reserved names nobody yet.
TakerOf(x) == IF withdrawal[x].status = "NONE" THEN None ELSE withdrawal[x].user

Ledger == INSTANCE Purse WITH
    purse    <- balance,
    credited <- {t \in Topups : topup[t].status = "COMPLETED"},
    trips    <- [r \in Rides |-> ride[r].openings],
    charged  <- [r \in Rides |-> ride[r].commissions],
    taker    <- [x \in Withdrawals |-> TakerOf(x)],
    failed   <- {x \in Withdrawals : withdrawal[x].status = "FAILED"}

\* The users whose rows or balances the handler of w is at work on.
Concerns(w, u) ==
    \/ Item(w) \in Topups /\ topup[Item(w)].user = u
    \/ Item(w) \in Rides /\ u \in {ride[Item(w)].passenger, ride[Item(w)].driver}
    \/ Item(w) \in Withdrawals /\ withdrawal[Item(w)].user = u

\* No two handlers in flight concern the same user.
Apart == \A v, w \in Workers, u \in Users : Concerns(v, u) /\ Concerns(w, u) => v = w

\* As long as handlers stay apart every payment operation moves its money once,
\* at one instant, and never more than the wallet holds, and a ride is charged
\* once, by wallet or in cash, each time it is put on the road (payment.py).
RefinesPurse == Ledger!Spec

-----------------------------------------------------------------------------
(* The rows of the ledger that name a user, and what they are worth *)

TopupRows(u) == {t \in Topups : topup[t].status = "COMPLETED" /\ topup[t].user = u}

WithdrawalRows(u) ==
    {x \in Withdrawals : withdrawal[x].status # "NONE" /\ withdrawal[x].user = u}

\* Those that are, or may yet be, money on the driver's phone.
StandingRows(u) == {x \in WithdrawalRows(u) : withdrawal[x].status # "FAILED"}

RidesOf(u) == {r \in Rides : u \in {ride[r].passenger, ride[r].driver}}

\* n[r] rows for each ride r of rs.
RowsOf(rs, n) == UNION {{r} \X (1 .. n[r]) : r \in rs}

PaymentRows(u) == RowsOf(RidesOf(u), [r \in Rides |-> ride[r].payments])

CommissionRows(u) == RowsOf(RidesOf(u), [r \in Rides |-> ride[r].commissions])

Worth(amount, rows) == amount * Cardinality(rows)

\* As long as handlers stay apart a passenger's balance is what the ledger's
\* rows add up to.  A driver never has more than his rows say, so no operation
\* makes money.  Nor does he lose more than the commissions recorded, of which
\* a part is taken when the balance is smaller, and the withdrawals that FAILED,
\* whose money he may or may not be given back.
LedgerReconciles ==
    /\ \A p \in Passengers :
         balance[p] + Worth(Fare, PaymentRows(p)) = Worth(TopupAmount, TopupRows(p))
    /\ \A d \in Drivers :
         LET in == Worth(TopupAmount, TopupRows(d)) IN
         /\ balance[d] + Worth(WithdrawAmount, StandingRows(d))
              <= in + Worth(Fare - Commission, PaymentRows(d))
         /\ balance[d] + Worth(WithdrawAmount, WithdrawalRows(d))
              + Worth(Commission, CommissionRows(d)) >= in + Worth(Fare, PaymentRows(d))

=============================================================================
