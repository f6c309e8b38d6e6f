--------------------------- MODULE MCConversation ---------------------------
(***************************************************************************)
(* An instance of Conversation for TLC, with the prices of config.py.  The *)
(* measured route costs 2050 UGX, a tie of the rounding to hundreds; the   *)
(* estimated one and a ride without a trail stay at the minimum.           *)
(***************************************************************************)
EXTENDS Conversation

MCRoutes == {<<875, 0>>}
MCTrails == {875}
MCLasted == {60}

=============================================================================
