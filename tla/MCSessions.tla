----------------------------- MODULE MCSessions -----------------------------
(***************************************************************************)
(* An instance of Sessions for TLC.                                        *)
(***************************************************************************)
EXTENDS Sessions, TLC

\* Workers are interchangeable in every action and property.
Symmetry == Permutations(Workers)

=============================================================================
