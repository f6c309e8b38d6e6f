------------------------------ MODULE Helpdesk ------------------------------
(***************************************************************************)
(* What the delivery desk promises, without chat turns, transactions and   *)
(* background tasks: a ticket that opened stays, only the administrators   *)
(* move it on, and the passenger hears nothing but their messages, each    *)
(* after it was sent.                                                      *)
(***************************************************************************)
CONSTANTS Tickets, Replies, Statuses, Pending

VARIABLES
    ticket, \* status of each opened ticket
    said,   \* the ticket each reply of an administrator is about
    heard   \* replies relayed to the passenger

vars == <<ticket, said, heard>>

Init ==
    /\ ticket = [d \in {} |-> Pending]
    /\ said = [n \in {} |-> CHOOSE d \in Tickets : TRUE]
    /\ heard = {}

Open(d) ==
    /\ d \notin DOMAIN ticket
    /\ ticket' = [e \in DOMAIN ticket \cup {d} |-> IF e = d THEN Pending ELSE ticket[e]]
    /\ UNCHANGED <<said, heard>>

Say(n, d) ==
    /\ n \notin DOMAIN said
    /\ d \in DOMAIN ticket
    /\ said' = [m \in DOMAIN said \cup {n} |-> IF m = n THEN d ELSE said[m]]
    /\ \E status \in Statuses : ticket' = [ticket EXCEPT ![d] = status]
    /\ UNCHANGED heard

Hear(n) ==
    /\ n \in DOMAIN said \ heard
    /\ heard' = heard \cup {n}
    /\ UNCHANGED <<ticket, said>>

Next ==
    \/ \E d \in Tickets : Open(d)
    \/ \E n \in Replies, d \in Tickets : Say(n, d)
    \/ \E n \in Replies : Hear(n)

Spec == Init /\ [][Next]_vars

=============================================================================
