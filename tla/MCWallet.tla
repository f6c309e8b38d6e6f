------------------------------ MODULE MCWallet ------------------------------
(***************************************************************************)
(* Instances of Wallet for TLC.                                            *)
(***************************************************************************)
EXTENDS WalletRefines, TLC

\* Users of one role, rows and workers are interchangeable in every action.
Symmetry ==
    Permutations(Passengers) \cup Permutations(Drivers) \cup Permutations(Topups)
    \cup Permutations(Rides) \cup Permutations(Withdrawals) \cup Permutations(Workers)

\* Every order may be notified, by its own two ids.
Notifications == {<<t, t>> : t \in Topups}

=============================================================================
