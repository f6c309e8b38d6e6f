----------------------------- MODULE MCDispatch -----------------------------
(***************************************************************************)
(* Instances of Dispatch for TLC.                                          *)
(***************************************************************************)
EXTENDS DispatchRefines, TLC

\* Rides, drivers and workers are interchangeable in every action.
Symmetry == Permutations(Rides) \cup Permutations(Drivers) \cup Permutations(Workers)

=============================================================================
