-------------------------- MODULE ConversationProofs --------------------------
(***************************************************************************)
(* Proofs about Conversation for any number of handlers, rides, tickets,   *)
(* messages and replies, and any prices whose minimum is a round amount.   *)
(* IInv is what the handlers keep between two awaits; the properties rest  *)
(* on it.                                                                  *)
(***************************************************************************)
EXTENDS Conversation, FiniteSetTheorems, TLAPS

-----------------------------------------------------------------------------
(* Fares *)

Clean(fare) == fare % 100 = 0 /\ fare >= MinimumFare

LEMMA RoundedType ==
    ASSUME NEW n \in Nat, NEW k \in Nat \ {0}
    PROVE  Rounded(n, k) \in Nat /\ Rounded(n, k) >= n \div k
<1>1. n \div k \in Nat
  OBVIOUS
<1> QED
  BY <1>1 DEF Rounded

\* calculate_fare: the result is a multiple of 100 and not below the minimum.
LEMMA FareClean ==
    ASSUME NEW metres \in Nat, NEW seconds \in Nat
    PROVE  CalculateFare(metres, seconds) \in Nat /\ Clean(CalculateFare(metres, seconds))
<1> DEFINE c == Charge(metres, seconds)
           r == Rounded(c, 100)
<1>1. c \in Nat /\ c >= MinimumFare
  <2>1. metres * RatePerKm \in Nat /\ seconds * RatePerMinute \in Nat
    BY PricingAssumption
  <2>2. \A x \in Nat : x \div 1000 \in Nat /\ x \div 60 \in Nat
    OBVIOUS
  <2>3. (metres * RatePerKm) \div 1000 \in Nat /\ (seconds * RatePerMinute) \div 60 \in Nat
    BY <2>1, <2>2
  <2> QED
    BY <2>3, PricingAssumption DEF Charge
<1>2. r \in Nat /\ r >= c \div 100
  BY <1>1, RoundedType
<1>3. CalculateFare(metres, seconds) = 100 * r
  BY DEF CalculateFare
<1> HIDE DEF c, r
<1>4. (100 * r) % 100 = 0
  BY <1>2
<1>5. 100 * r >= MinimumFare
  <2>1. MinimumFare \in Nat /\ MinimumFare % 100 = 0
    BY PricingAssumption
  <2> QED
    BY <1>1, <1>2, <2>1
<1> QED
  BY <1>2, <1>3, <1>4, <1>5 DEF Clean

LEMMA QuoteClean ==
    ASSUME NEW quote \in {Measured(r[1], r[2]) : r \in Routes} \cup {Estimated(Straight)}
    PROVE  quote \in Route /\ Clean(quote.fare)
<1>1. CASE quote \in {Measured(r[1], r[2]) : r \in Routes}
  <2>1. PICK r \in Routes : quote = Measured(r[1], r[2])
    BY <1>1
  <2>2. r[1] \in Nat /\ r[2] \in Nat
    BY <2>1, ConversationAssumption
  <2>3. Rounded(r[1], 10) \in Nat /\ Rounded(r[2], 6) \in Nat
    <3>1. \A n \in Nat : \A k \in Nat \ {0} : Rounded(n, k) \in Nat
      BY RoundedType
    <3>2. 10 \in Nat \ {0} /\ 6 \in Nat \ {0}
      OBVIOUS
    <3> QED
      BY <2>2, <3>1, <3>2
  <2> QED
    BY <2>1, <2>2, <2>3, FareClean DEF Measured, Route
<1>2. CASE quote = Estimated(Straight)
  <2> DEFINE distance == Rounded(Straight * 135, 1000)
             duration == Rounded(distance * 3, 10)
  <2>1. Straight * 135 \in Nat
    BY ConversationAssumption
  <2>2. distance \in Nat
    BY <2>1, RoundedType
  <2>3. distance * 3 \in Nat
    BY <2>2
  <2>4. duration \in Nat
    <3> HIDE DEF distance
    <3>1. \A n \in Nat : \A k \in Nat \ {0} : Rounded(n, k) \in Nat
      BY RoundedType
    <3> QED
      BY <2>3, <3>1
  <2>5. quote = [distance |-> distance, duration |-> duration,
                 fare |-> CalculateFare(10 * distance, 6 * duration)]
    BY <1>2 DEF Estimated
  <2> HIDE DEF distance, duration
  <2>6. 10 * distance \in Nat /\ 6 * duration \in Nat
    BY <2>2, <2>4
  <2> QED
    BY <2>2, <2>4, <2>5, <2>6, FareClean DEF Route
<1> QED
  BY <1>1, <1>2

LEMMA FinalClean ==
    ASSUME NEW quote \in Route, Clean(quote.fare), NEW fare \in FinalFares(quote)
    PROVE  fare \in Nat /\ Clean(fare)
<1>1. CASE fare = quote.fare
  BY <1>1 DEF Route
<1>2. CASE fare \in {CalculateFare(metres, seconds) : metres \in Trails, seconds \in Lasted}
  <2>1. PICK metres \in Trails, seconds \in Lasted : fare = CalculateFare(metres, seconds)
    BY <1>2
  <2>2. metres \in Nat /\ seconds \in Nat
    BY ConversationAssumption
  <2> QED
    BY <2>1, <2>2, FareClean
<1> QED
  BY <1>1, <1>2 DEF FinalFares

-----------------------------------------------------------------------------
(* The inductive invariant *)

\* What a handler may carry when the rides are rows and the messages msgs: a
\* clean quote, a ride or a reply that exists; and a turn that cancels a ride
\* answers about nothing else.
Carries(r, rows, msgs) ==
    /\ r \in Request
    /\ r.pc = "hours" => Clean(r.quote.fare)
    /\ r.pc \in {"dispatch", "cancel", "rate"} => rows[r.ride].status # "NONE"
    /\ r.pc \in {"reply", "save"} /\ r.cancels # None =>
         r.about = None /\ rows[r.cancels].status # "NONE"
    /\ r.pc = "task" => \E d \in Tickets : AdminMessage(r.reply, d) \in msgs

RequestInv == \A w \in Workers : Carries(req[w], ride, messages)

\* An identifier that was not given to a ride has no data, a ride has its quote.
RideInv ==
    \A i \in Rides :
        /\ ride[i].status = "NONE" => ride[i] = NoRide
        /\ ride[i].status # "NONE" =>
             /\ ride[i].quote \in Route /\ Clean(ride[i].quote.fare)
             /\ ride[i].final = 0 \/ Clean(ride[i].final)

\* A relay has its message.
RelayInv == \A n \in relays : \E d \in Tickets : AdminMessage(n, d) \in messages

IInv == TypeOK /\ RequestInv /\ RideInv /\ RelayInv

\* No handler gives an identifier back.
RidesStay == \A i \in Rides : ride[i].status # "NONE" => ride'[i].status # "NONE"

LEMMA CarriesIdle == \A rows, msgs : Carries(Idle, rows, msgs)
BY DEF Carries, Idle, Request

\* A handler carries what the other handlers did not take away.
LEMMA RequestMoves ==
    ASSUME IInv, RidesStay, messages \subseteq messages', NEW w \in Workers, NEW r, Carries(r, ride', messages'), Goto(w, r)
    PROVE  req' \in [Workers -> Request] /\ RequestInv'
<1>1. req \in [Workers -> Request] /\ r \in Request
  BY DEF IInv, TypeOK, Carries
<1>2. req' = [req EXCEPT ![w] = r]
  BY DEF Goto
<1>3. req' \in [Workers -> Request]
  BY <1>1, <1>2
<1>4. ASSUME NEW x \in Workers PROVE Carries(req'[x], ride', messages')
  <2>1. CASE x = w
    BY <1>1, <1>2, <2>1
  <2>2. CASE x # w
    <3>1. req'[x] = req[x] /\ Carries(req[x], ride, messages)
      BY <1>1, <1>2, <2>2 DEF IInv, RequestInv
    <3>2. req[x].pc \in {"dispatch", "cancel", "rate"} => req[x].ride \in Rides
      BY <1>1 DEF Request
    <3>3. req[x].pc \in {"reply", "save"} => req[x].cancels \in Rides \cup {None}
      BY <1>1 DEF Request
    <3> QED
      BY <3>1, <3>2, <3>3 DEF Carries, RidesStay
  <2> QED
    BY <2>1, <2>2
<1> QED
  BY <1>3, <1>4 DEF RequestInv

LEMMA RequestStays ==
    ASSUME IInv, RidesStay, messages \subseteq messages', UNCHANGED req
    PROVE  req' \in [Workers -> Request] /\ RequestInv'
<1>1. req \in [Workers -> Request]
  BY DEF IInv, TypeOK
<1>2. ASSUME NEW x \in Workers PROVE Carries(req'[x], ride', messages')
  <2>1. req'[x] = req[x] /\ Carries(req[x], ride, messages)
    BY DEF IInv, RequestInv
  <2>2. req[x].pc \in {"dispatch", "cancel", "rate"} => req[x].ride \in Rides
    BY <1>1 DEF Request
  <2>3. req[x].pc \in {"reply", "save"} => req[x].cancels \in Rides \cup {None}
    BY <1>1 DEF Request
  <2> QED
    BY <2>1, <2>2, <2>3 DEF Carries, RidesStay
<1> QED
  BY <1>1, <1>2 DEF RequestInv

\* A handler that writes nothing.
LEMMA Quiet ==
    ASSUME IInv, UNCHANGED <<messages, ride, ticket, relays, replies>>,
           lost' \subseteq Reply, turns' \in 0 .. MaxTurns,
           NEW w \in Workers, NEW r, Carries(r, ride, messages), Goto(w, r)
    PROVE  IInv'
<1>1. RidesStay
  BY DEF RidesStay
<1>2. req' \in [Workers -> Request] /\ RequestInv'
  BY <1>1, RequestMoves
<1>3. TypeOK'
  BY <1>2 DEF IInv, TypeOK
<1>4. RideInv' /\ RelayInv'
  BY DEF IInv, RideInv, RelayInv
<1> QED
  BY <1>2, <1>3, <1>4 DEF IInv

\* The requests the handlers make, and what they carry.
LEMMA Requests ==
    ASSUME NEW t \in Turn, NEW rows, NEW msgs
    PROVE  /\ \A pc \in {"extract", "ride", "route", "delivery", "cancellation"} :
                Carries([pc |-> pc, turn |-> t], rows, msgs)
           /\ \A quote \in Route : Clean(quote.fare) =>
                Carries([pc |-> "hours", turn |-> t, quote |-> quote], rows, msgs)
           /\ \A i \in Rides : \A pc \in {"dispatch", "cancel"} : rows[i].status # "NONE" =>
                Carries([pc |-> pc, turn |-> t, ride |-> i], rows, msgs)
           /\ \A x \in Rides \cup Tickets \cup {None} : \A pc \in {"reply", "save"} :
                Carries([pc |-> pc, turn |-> t, cancels |-> None, about |-> x], rows, msgs)
           /\ \A i \in Rides : \A pc \in {"reply", "save"} : rows[i].status # "NONE" =>
                Carries([pc |-> pc, turn |-> t, cancels |-> i, about |-> None], rows, msgs)
<1>1. \A pc \in {"extract", "ride", "route", "delivery", "cancellation"} :
        Carries([pc |-> pc, turn |-> t], rows, msgs)
  BY DEF Carries, Request
<1>2. \A quote \in Route : Clean(quote.fare) =>
        Carries([pc |-> "hours", turn |-> t, quote |-> quote], rows, msgs)
  BY DEF Carries, Request
<1>3. \A i \in Rides : \A pc \in {"dispatch", "cancel"} : rows[i].status # "NONE" =>
        Carries([pc |-> pc, turn |-> t, ride |-> i], rows, msgs)
  BY DEF Carries, Request
<1>4. \A x \in Rides \cup Tickets \cup {None} : \A pc \in {"reply", "save"} :
        Carries([pc |-> pc, turn |-> t, cancels |-> None, about |-> x], rows, msgs)
  BY DEF Carries, Request
<1>5. \A i \in Rides : \A pc \in {"reply", "save"} : rows[i].status # "NONE" =>
        Carries([pc |-> pc, turn |-> t, cancels |-> i, about |-> None], rows, msgs)
  BY DEF Carries, Request
<1> QED
  BY <1>1, <1>2, <1>3, <1>4, <1>5

LEMMA Carried ==
    ASSUME IInv, NEW w \in Workers
    PROVE  /\ req[w] \in Request
           /\ req[w].pc \in {"extract", "ride", "route", "delivery", "cancellation", "hours",
                             "dispatch", "cancel", "reply", "save"} => req[w].turn \in Turn
           /\ req[w].pc = "hours" => req[w].quote \in Route /\ Clean(req[w].quote.fare)
           /\ req[w].pc \in {"dispatch", "cancel", "rate"} =>
                req[w].ride \in Rides /\ ride[req[w].ride].status # "NONE"
           /\ req[w].pc = "rate" => req[w].by \in Party
           /\ req[w].pc = "task" =>
                req[w].reply \in Reply /\ \E d \in Tickets : AdminMessage(req[w].reply, d) \in messages
           /\ req[w].pc \in {"reply", "save"} =>
                /\ req[w].about \in Rides \cup Tickets \cup {None}
                /\ req[w].cancels \in Rides \cup {None}
                /\ req[w].cancels # None => req[w].about = None /\ ride[req[w].cancels].status # "NONE"
<1>1. req[w] \in Request /\ Carries(req[w], ride, messages)
  BY DEF IInv, TypeOK, RequestInv
<1>2. /\ req[w].pc \in {"extract", "ride", "route", "delivery", "cancellation", "hours",
                        "dispatch", "cancel", "reply", "save"} => req[w].turn \in Turn
      /\ req[w].pc = "hours" => req[w].quote \in Route
      /\ req[w].pc \in {"dispatch", "cancel", "rate"} => req[w].ride \in Rides
      /\ req[w].pc = "rate" => req[w].by \in Party
      /\ req[w].pc = "task" => req[w].reply \in Reply
      /\ req[w].pc \in {"reply", "save"} =>
           req[w].about \in Rides \cup Tickets \cup {None} /\ req[w].cancels \in Rides \cup {None}
  BY <1>1 DEF Request
<1> QED
  BY <1>1, <1>2 DEF Carries

-----------------------------------------------------------------------------
(* The steps that write *)

LEMMA IInit == Init => IInv
<1> SUFFICES ASSUME Init PROVE IInv
  OBVIOUS
<1>1. NoRide \in RideRow /\ NoTicket \in TicketRow /\ Idle \in Request
  BY ConversationAssumption DEF NoRide, RideRow, RideStatus, NoTicket, TicketRow, Idle, Request
<1>2. TypeOK
  BY <1>1, ConversationAssumption DEF Init, TypeOK
<1>3. RequestInv
  BY CarriesIdle DEF Init, RequestInv
<1>4. RideInv /\ RelayInv
  BY DEF Init, RideInv, RelayInv, NoRide
<1> QED
  BY <1>2, <1>3, <1>4 DEF IInv

\* A ride moves on, with what it was quoted, to a status it may have.
LEMMA RideMoves ==
    ASSUME IInv, NEW i \in Rides, ride[i].status # "NONE",
           NEW row \in RideRow, row.status # "NONE", row.quote = ride[i].quote,
           row.final = 0 \/ Clean(row.final),
           ride' = [ride EXCEPT ![i] = row]
    PROVE  ride' \in [Rides -> RideRow] /\ RideInv' /\ RidesStay
<1>1. ride \in [Rides -> RideRow]
  BY DEF IInv, TypeOK
<1>2. ride' \in [Rides -> RideRow]
  BY <1>1
<1>3. \A j \in Rides : ride'[j] = IF j = i THEN row ELSE ride[j]
  BY <1>1
<1>4. RideInv'
  BY <1>3 DEF IInv, RideInv
<1> QED
  BY <1>2, <1>3, <1>4 DEF RidesStay

\* A row whose status alone changes.
LEMMA StatusMoves ==
    ASSUME IInv, NEW i \in Rides, ride[i].status # "NONE",
           NEW status \in RideStatus, status # "NONE",
           ride' = [ride EXCEPT ![i].status = status]
    PROVE  ride' \in [Rides -> RideRow] /\ RideInv' /\ RidesStay
<1> DEFINE row == [ride[i] EXCEPT !.status = status]
<1>1. ride[i] \in RideRow
  BY DEF IInv, TypeOK
<1>2. row \in RideRow /\ row.status = status /\ row.quote = ride[i].quote /\ row.final = ride[i].final
  BY <1>1 DEF RideRow
<1>3. ride' = [ride EXCEPT ![i] = row]
  OBVIOUS
<1>4. ride[i].final = 0 \/ Clean(ride[i].final)
  BY DEF IInv, RideInv
<1> HIDE DEF row
<1> QED
  BY <1>2, <1>3, <1>4, RideMoves

LEMMA ICreateRide == ASSUME IInv, NEW w \in Workers, CreateRide(w) PROVE IInv'
<1>1. req[w].pc = "hours" /\ req[w].turn \in Turn /\ req[w].quote \in Route /\ Clean(req[w].quote.fare)
  BY Carried DEF CreateRide, At
<1> DEFINE row == [NoRide EXCEPT !.status = "REQUESTED", !.asked = req[w].turn, !.quote = req[w].quote]
<1>2. PICK i \in Rides :
        /\ ride[i].status = "NONE" /\ ride' = [ride EXCEPT ![i] = row]
        /\ Goto(w, [pc |-> "dispatch", turn |-> req[w].turn, ride |-> i])
  BY DEF CreateRide
<1>3. /\ row \in RideRow /\ row.status = "REQUESTED" /\ row.quote = req[w].quote /\ row.final = 0
  <2>1. req[w].turn \in 0 .. MaxTurns
    BY <1>1, ConversationAssumption DEF Turn
  <2>2. NoRide \in RideRow /\ NoRide.final = 0
    BY ConversationAssumption DEF NoRide, RideRow, RideStatus
  <2> QED
    BY <1>1, <2>1, <2>2 DEF RideRow, RideStatus
<1>4. ride \in [Rides -> RideRow]
  BY DEF IInv, TypeOK
<1> HIDE DEF row
<1>5. ride' \in [Rides -> RideRow] /\ \A j \in Rides : ride'[j] = IF j = i THEN row ELSE ride[j]
  BY <1>2, <1>3, <1>4
<1>6. RidesStay /\ RideInv'
  BY <1>1, <1>3, <1>5 DEF RidesStay, IInv, RideInv
<1>7. Carries([pc |-> "dispatch", turn |-> req[w].turn, ride |-> i], ride', messages')
  <2>1. ride'[i].status # "NONE"
    BY <1>3, <1>5
  <2> QED
    BY <1>1, <2>1, Requests
<1>8. req' \in [Workers -> Request] /\ RequestInv'
  BY <1>2, <1>6, <1>7, RequestMoves DEF CreateRide
<1>9. messages' = messages \cup {Question(req[w].turn)} /\ Question(req[w].turn) \in Message
  BY <1>1, ConversationAssumption DEF CreateRide, Question, Message, Turn
<1>10. TypeOK'
  BY <1>5, <1>8, <1>9 DEF CreateRide, IInv, TypeOK
<1>11. RelayInv'
  BY <1>9 DEF CreateRide, IInv, RelayInv
<1> QED
  BY <1>6, <1>8, <1>10, <1>11 DEF IInv

LEMMA IDispatch == ASSUME IInv, NEW w \in Workers, DriverFound(w) \/ NoDriver(w) PROVE IInv'
<1>1. /\ req[w].pc = "dispatch" /\ req[w].turn \in Turn
      /\ req[w].ride \in Rides /\ ride[req[w].ride].status # "NONE"
  BY Carried DEF DriverFound, NoDriver, At
<1>2. PICK status \in {"MATCHED", "CANCELLED"} : ride' = [ride EXCEPT ![req[w].ride].status = status]
  BY DEF DriverFound, NoDriver
<1>3. status \in RideStatus /\ status # "NONE"
  BY DEF RideStatus
<1>4. ride' \in [Rides -> RideRow] /\ RideInv' /\ RidesStay
  BY <1>1, <1>2, <1>3, StatusMoves
<1>5. PICK r : Carries(r, ride', messages') /\ Goto(w, r)
  <2>1. CASE DriverFound(w)
    BY <1>1, <2>1, Requests DEF DriverFound, Generate
  <2>2. CASE NoDriver(w)
    BY <1>1, <2>2, Requests DEF NoDriver, Say
  <2> QED
    BY <2>1, <2>2
<1>6. req' \in [Workers -> Request] /\ RequestInv'
  BY <1>4, <1>5, RequestMoves DEF DriverFound, NoDriver
<1>7. TypeOK' /\ RelayInv'
  BY <1>4, <1>6 DEF DriverFound, NoDriver, IInv, TypeOK, RelayInv
<1> QED
  BY <1>4, <1>6, <1>7 DEF IInv

LEMMA ISave == ASSUME IInv, NEW w \in Workers, Save(w) PROVE IInv'
<1> DEFINE t == req[w].turn
           x == req[w].about
           c == req[w].cancels
<1>1. /\ t \in Turn /\ x \in Rides \cup Tickets \cup {None} /\ c \in Rides \cup {None}
      /\ c # None => ride[c].status # "NONE"
  BY Carried DEF Save, At
<1>2. t \in 0 .. MaxTurns
  BY <1>1, ConversationAssumption DEF Turn
<1>3. messages' = messages \cup {Question(t), Answer(t, x)}
  BY DEF Save
<1>4. messages' \subseteq Message
  <2>1. Question(t) \in Message /\ Answer(t, x) \in Message
    BY <1>1, <1>2, ConversationAssumption DEF Question, Answer, Message
  <2> QED
    BY <1>3, <2>1 DEF IInv, TypeOK
<1>5. ticket' \in [Tickets -> TicketRow]
  <2>1. [NoTicket EXCEPT !.status = "PENDING"] \in TicketRow
    BY DEF NoTicket, TicketRow, DeliveryStatus
  <2> QED
    BY <2>1 DEF Save, IInv, TypeOK
<1>6. ride' = [i \in Rides |-> IF i = c THEN [ride[i] EXCEPT !.status = "CANCELLED", !.cancelledIn = t]
                               ELSE ride[i]]
  BY DEF Save
<1>7. ASSUME NEW i \in Rides
      PROVE  /\ ride'[i] \in RideRow /\ ride'[i].quote = ride[i].quote /\ ride'[i].final = ride[i].final
             /\ IF i = c THEN ride'[i].status = "CANCELLED" ELSE ride'[i] = ride[i]
  <2>1. ride[i] \in RideRow
    BY DEF IInv, TypeOK
  <2>2. CASE i = c
    <3>1. ride'[i] = [ride[i] EXCEPT !.status = "CANCELLED", !.cancelledIn = t]
      BY <1>6, <2>2
    <3> QED
      BY <1>2, <2>1, <2>2, <3>1 DEF RideRow, RideStatus
  <2>3. CASE i # c
    BY <1>6, <2>1, <2>3
  <2> QED
    BY <2>2, <2>3
<1>8. c \notin Rides => c = None
  BY <1>1
<1>9. ride' \in [Rides -> RideRow] /\ RidesStay
  BY <1>6, <1>7 DEF RidesStay
<1>10. RideInv'
  <2>1. \A i \in Rides : i = c => ride[i].status # "NONE"
    BY <1>1, ConversationAssumption
  <2> QED
    BY <1>7, <2>1 DEF IInv, RideInv
<1>11. req' \in [Workers -> Request] /\ RequestInv'
  BY <1>9, CarriesIdle, RequestMoves DEF Save
<1>12. TypeOK' /\ RelayInv'
  BY <1>3, <1>4, <1>5, <1>9, <1>11 DEF Save, IInv, TypeOK, RelayInv
<1> QED
  BY <1>10, <1>11, <1>12 DEF IInv

LEMMA MovedType ==
    ASSUME NEW row \in TicketRow, NEW wants \in DeliveryStatus \cup {None}
    PROVE  /\ Moved(row, wants) \in TicketRow
           /\ row.status # None => Moved(row, wants).status # None
           /\ (row.status \in Resolved => row.resolved) =>
                (Moved(row, wants).status \in Resolved => Moved(row, wants).resolved)
<1>1. CASE wants = None
  BY <1>1 DEF Moved
<1>2. CASE wants # None
  <2> DEFINE b == row.resolved \/ wants \in Resolved
  <2>1. Moved(row, wants) = [row EXCEPT !.status = wants, !.resolved = b]
    BY <1>2 DEF Moved
  <2>2. b \in BOOLEAN
    BY DEF TicketRow
  <2>3. \A d \in BOOLEAN : /\ [row EXCEPT !.status = wants, !.resolved = d] \in TicketRow
                           /\ [row EXCEPT !.status = wants, !.resolved = d].status = wants
                           /\ [row EXCEPT !.status = wants, !.resolved = d].resolved = d
    BY <1>2 DEF TicketRow
  <2>4. Moved(row, wants) \in TicketRow /\ Moved(row, wants).status = wants /\ Moved(row, wants).resolved = b
    BY <2>1, <2>2, <2>3
  <2>5. wants \in Resolved => b
    OBVIOUS
  <2> QED
    BY <1>2, <2>4, <2>5
<1> QED
  BY <1>1, <1>2

LEMMA IAdminReply ==
    ASSUME IInv, NEW w \in Workers, NEW d \in Tickets, NEW wants \in Chosen \cup {None}, AdminReply(w, d, wants)
    PROVE  IInv'
<1>1. replies + 1 \in 0 .. MaxReplies /\ replies + 1 \in Reply
  BY ConversationAssumption DEF AdminReply, IInv, TypeOK, Reply
<1>2. AdminMessage(replies + 1, d) \in Message
  BY <1>1, ConversationAssumption DEF AdminMessage, Message
<1>3. ticket' \in [Tickets -> TicketRow]
  <2>1. wants \in DeliveryStatus \cup {None} /\ ticket[d] \in TicketRow
    BY ConversationAssumption DEF IInv, TypeOK
  <2>2. Moved(ticket[d], wants) \in TicketRow
    BY <2>1, MovedType
  <2>3. ticket' = [ticket EXCEPT ![d] = Moved(ticket[d], wants)]
    BY DEF AdminReply
  <2> QED
    BY <2>2, <2>3 DEF IInv, TypeOK
<1>4. RidesStay /\ messages' = messages \cup {AdminMessage(replies + 1, d)}
  BY DEF RidesStay, AdminReply
<1>5. Carries([pc |-> "task", reply |-> replies + 1], ride', messages')
  BY <1>1, <1>4 DEF Carries, Request
<1>6. req' \in [Workers -> Request] /\ RequestInv'
  BY <1>4, <1>5, RequestMoves DEF AdminReply
<1>7. TypeOK'
  BY <1>1, <1>2, <1>3, <1>6 DEF AdminReply, IInv, TypeOK
<1>8. RideInv' /\ RelayInv'
  BY DEF AdminReply, IInv, RideInv, RelayInv
<1> QED
  BY <1>6, <1>7, <1>8 DEF IInv

LEMMA IStartRelay == ASSUME IInv, NEW w \in Workers, StartRelay(w) PROVE IInv'
<1>1. req[w].reply \in Reply /\ \E d \in Tickets : AdminMessage(req[w].reply, d) \in messages
  BY Carried DEF StartRelay, At
<1>2. RidesStay /\ UNCHANGED <<messages, ride>> /\ relays' = relays \cup {req[w].reply}
  BY DEF RidesStay, StartRelay
<1>3. req' \in [Workers -> Request] /\ RequestInv'
  BY <1>2, CarriesIdle, RequestMoves DEF StartRelay
<1>4. TypeOK' /\ RideInv' /\ RelayInv'
  BY <1>1, <1>2, <1>3 DEF StartRelay, IInv, TypeOK, RideInv, RelayInv
<1> QED
  BY <1>3, <1>4 DEF IInv

LEMMA IRelay == ASSUME IInv, NEW n \in Reply, Relay(n) PROVE IInv'
<1>1. About(n) \in Tickets
  BY DEF Relay, IInv, RelayInv, About
<1>2. Relayed(n, About(n)) \in Message
  BY <1>1, ConversationAssumption DEF Relayed, Message, Reply
<1>3. RidesStay /\ UNCHANGED <<req, ride>>
  BY DEF RidesStay, Relay
<1>4. req' \in [Workers -> Request] /\ RequestInv'
  BY <1>3, RequestStays DEF Relay
<1>5. TypeOK'
  BY <1>2, <1>4 DEF Relay, IInv, TypeOK
<1>6. RideInv' /\ RelayInv'
  BY DEF Relay, IInv, RideInv, RelayInv
<1> QED
  BY <1>4, <1>5, <1>6 DEF IInv

LEMMA ICommitRating == ASSUME IInv, NEW w \in Workers, CommitRating(w) PROVE IInv'
<1> DEFINE i == req[w].ride
           by == req[w].by
           row == [ride[i] EXCEPT !.ratings = [ride[i].ratings EXCEPT ![by] = ride[i].ratings[by] + 1]]
<1>1. i \in Rides /\ ride[i].status # "NONE" /\ req[w].by \in Party
  BY Carried DEF CommitRating, At
<1>2. ride[i] \in RideRow
  BY <1>1 DEF IInv, TypeOK
<1>3. /\ row \in RideRow /\ row.status = ride[i].status
      /\ row.quote = ride[i].quote /\ row.final = ride[i].final
  <2>1. ride[i].ratings \in [Party -> Nat]
    BY <1>2 DEF RideRow
  <2>2. ride[i].ratings[by] + 1 \in Nat
    BY <1>1, <2>1
  <2>3. [ride[i].ratings EXCEPT ![by] = ride[i].ratings[by] + 1] \in [Party -> Nat]
    BY <2>1, <2>2
  <2> QED
    BY <1>2, <2>3 DEF RideRow
<1>4. ride' = [ride EXCEPT ![i] = row]
  BY DEF CommitRating
<1>5. ride[i].final = 0 \/ Clean(ride[i].final)
  BY <1>1 DEF IInv, RideInv
<1> HIDE DEF i, row
<1>6. ride' \in [Rides -> RideRow] /\ RideInv' /\ RidesStay
  BY <1>1, <1>3, <1>4, <1>5, RideMoves
<1>7. req' \in [Workers -> Request] /\ RequestInv'
  BY <1>6, CarriesIdle, RequestMoves DEF CommitRating
<1>8. TypeOK' /\ RelayInv'
  BY <1>6, <1>7 DEF CommitRating, IInv, TypeOK, RelayInv
<1> QED
  BY <1>6, <1>7, <1>8 DEF IInv

LEMMA IDriver == ASSUME IInv, NEW i \in Rides, DriverMoves(i) \/ Complete(i) PROVE IInv'
<1>1. ride' \in [Rides -> RideRow] /\ RideInv' /\ RidesStay
  <2>1. CASE DriverMoves(i)
    <3>1. PICK status \in Moves : ride[i].status # "NONE" /\ ride' = [ride EXCEPT ![i].status = status]
      BY <2>1 DEF DriverMoves
    <3>2. status \in RideStatus /\ status # "NONE"
      BY DEF Moves, RideStatus
    <3> QED
      BY <3>1, <3>2, StatusMoves
  <2>2. CASE Complete(i)
    <3>1. ride[i].status = "IN_PROGRESS" /\ ride[i] \in RideRow
      BY <2>2 DEF Complete, IInv, TypeOK
    <3>2. ride[i].quote \in Route /\ Clean(ride[i].quote.fare)
      BY <3>1 DEF IInv, RideInv
    <3>3. PICK fare \in FinalFares(ride[i].quote) :
            ride' = [ride EXCEPT ![i].status = "COMPLETED", ![i].final = fare]
      BY <2>2 DEF Complete
    <3>4. fare \in Nat /\ Clean(fare)
      BY <3>2, FinalClean
    <3> DEFINE row == [ride[i] EXCEPT !.status = "COMPLETED", !.final = fare]
    <3>5. /\ row \in RideRow /\ row.status = "COMPLETED" /\ row.quote = ride[i].quote /\ row.final = fare
      BY <3>1, <3>4 DEF RideRow, RideStatus
    <3>6. ride' = [ride EXCEPT ![i] = row]
      BY <3>3 DEF IInv, TypeOK
    <3> HIDE DEF row
    <3> QED
      BY <3>1, <3>4, <3>5, <3>6, RideMoves
  <2> QED
    BY <2>1, <2>2
<1>2. UNCHANGED <<messages, ticket, relays, lost, req, turns, replies>>
  BY DEF DriverMoves, Complete
<1>3. req' \in [Workers -> Request] /\ RequestInv'
  BY <1>1, <1>2, RequestStays
<1>4. TypeOK' /\ RelayInv'
  BY <1>1, <1>2, <1>3 DEF IInv, TypeOK, RelayInv
<1> QED
  BY <1>1, <1>3, <1>4 DEF IInv

-----------------------------------------------------------------------------
(* Every step keeps the invariant *)

LEMMA IArrive == ASSUME IInv, NEW w \in Workers, Arrive(w) PROVE IInv'
<1>1. CASE Ask(w)
  <2>1. turns + 1 \in Turn /\ turns' \in 0 .. MaxTurns
    BY <1>1, ConversationAssumption DEF Ask, IInv, TypeOK, Turn
  <2>2. Carries([pc |-> "extract", turn |-> turns + 1], ride, messages)
    BY <2>1, Requests
  <2> QED
    BY <1>1, <2>1, <2>2, Quiet DEF Ask, IInv, TypeOK
<1>2. ASSUME NEW d \in Tickets, NEW wants \in Chosen \cup {None}, AdminReply(w, d, wants) PROVE IInv'
  BY <1>2, IAdminReply
<1>3. ASSUME NEW d \in Tickets, UploadPhoto(w, d) PROVE IInv'
  <2>1. ticket' \in [Tickets -> TicketRow]
    <3>1. [ticket[d] EXCEPT !.photo = TRUE] \in TicketRow
      BY DEF IInv, TypeOK, TicketRow
    <3> QED
      BY <1>3, <3>1 DEF UploadPhoto, IInv, TypeOK
  <2>2. RidesStay /\ UNCHANGED <<req, ride>>
    BY <1>3 DEF RidesStay, UploadPhoto
  <2>3. req' \in [Workers -> Request] /\ RequestInv'
    BY <1>3, <2>2, RequestStays DEF UploadPhoto
  <2>4. TypeOK' /\ RideInv' /\ RelayInv'
    BY <1>3, <2>1, <2>3 DEF UploadPhoto, IInv, TypeOK, RideInv, RelayInv
  <2> QED
    BY <2>3, <2>4 DEF IInv
<1>4. ASSUME NEW i \in Rides, NEW by \in Party, RateStart(w, i, by) PROVE IInv'
  <2> DEFINE r == [pc |-> "rate", ride |-> i, by |-> by]
  <2>1. Carries(r, ride, messages)
    BY <1>4 DEF RateStart, Carries, Request
  <2> QED
    BY <1>4, <2>1, Quiet DEF RateStart, IInv, TypeOK
<1> QED
  BY <1>1, <1>2, <1>3, <1>4 DEF Arrive

LEMMA IContinue == ASSUME IInv, NEW w \in Workers, Continue(w) PROVE IInv'
<1> DEFINE t == req[w].turn
\* A handler that writes nothing carries what it may.
<1>1. ASSUME NEW r, Carries(r, ride, messages), Goto(w, r),
             UNCHANGED <<messages, ride, ticket, relays, lost, turns, replies>>
      PROVE  IInv'
  BY <1>1, Quiet DEF IInv, TypeOK
<1>2. CASE Extract(w)
  <2>1. t \in Turn
    BY <1>2, Carried DEF Extract, At
  <2>2. PICK pc \in {"ride", "delivery", "cancellation"} : Goto(w, [pc |-> pc, turn |-> t])
    BY <1>2 DEF Extract
  <2>3. Carries([pc |-> pc, turn |-> t], ride, messages)
    BY <2>1, Requests
  <2> QED
    BY <1>1, <1>2, <2>2, <2>3 DEF Extract
<1>3. CASE \/ AnswerQuestion(w) \/ RideRefused(w) \/ Closed(w) \/ AskForDetails(w) \/ NothingToCancel(w)
  <2>1. t \in Turn
    BY <1>3, Carried DEF AnswerQuestion, RideRefused, Closed, AskForDetails, NothingToCancel, At
  <2>2. PICK pc \in {"reply", "save"} : Goto(w, [pc |-> pc, turn |-> t, cancels |-> None, about |-> None])
    BY <1>3 DEF AnswerQuestion, RideRefused, Closed, AskForDetails, NothingToCancel, Generate, Say
  <2>3. Carries([pc |-> pc, turn |-> t, cancels |-> None, about |-> None], ride, messages)
    BY <2>1, Requests
  <2> QED
    BY <1>1, <1>3, <2>2, <2>3 DEF AnswerQuestion, RideRefused, Closed, AskForDetails, NothingToCancel
<1>4. CASE Geocode(w)
  <2>1. t \in Turn /\ req[w] \in Request /\ req[w].pc = "ride"
    BY <1>4, Carried DEF Geocode, At
  <2>2. [req[w] EXCEPT !.pc = "route"] = [pc |-> "route", turn |-> t]
    BY <2>1 DEF Request
  <2>3. Carries([pc |-> "route", turn |-> t], ride, messages)
    BY <2>1, Requests
  <2> QED
    BY <1>1, <1>4, <2>2, <2>3 DEF Geocode
<1>5. CASE QuoteRide(w)
  <2>1. t \in Turn
    BY <1>5, Carried DEF QuoteRide, At
  <2>2. PICK quote \in {Measured(r[1], r[2]) : r \in Routes} \cup {Estimated(Straight)} :
          Goto(w, [pc |-> "hours", turn |-> t, quote |-> quote])
    BY <1>5 DEF QuoteRide
  <2>3. quote \in Route /\ Clean(quote.fare)
    BY QuoteClean
  <2>4. Carries([pc |-> "hours", turn |-> t, quote |-> quote], ride, messages)
    BY <2>1, <2>3, Requests
  <2> QED
    BY <1>1, <1>5, <2>2, <2>4 DEF QuoteRide
<1>6. CASE CreateRide(w)
  BY <1>6, ICreateRide
<1>7. CASE DriverFound(w) \/ NoDriver(w)
  BY <1>7, IDispatch
<1>8. CASE OpenTicket(w)
  <2>1. t \in Turn
    BY <1>8, Carried DEF OpenTicket, At
  <2>2. PICK d \in Tickets : Goto(w, [pc |-> "reply", turn |-> t, cancels |-> None, about |-> d])
    BY <1>8 DEF OpenTicket, Generate
  <2>3. Carries([pc |-> "reply", turn |-> t, cancels |-> None, about |-> d], ride, messages)
    BY <2>1, Requests
  <2> QED
    BY <1>1, <1>8, <2>2, <2>3 DEF OpenTicket
<1>9. CASE CancelStart(w)
  <2>1. t \in Turn
    BY <1>9, Carried DEF CancelStart, At
  <2>2. PICK i \in Newest : /\ ride[i].status \in {"REQUESTED", "MATCHED"}
                            /\ Goto(w, [pc |-> "cancel", turn |-> t, ride |-> i])
    BY <1>9 DEF CancelStart
  <2>3. i \in Rides
    BY DEF Newest, ActiveRides
  <2>4. Carries([pc |-> "cancel", turn |-> t, ride |-> i], ride, messages)
    BY <2>1, <2>2, <2>3, Requests
  <2> QED
    BY <1>1, <1>9, <2>2, <2>4 DEF CancelStart
<1>10. CASE CancelRide(w)
  <2>1. t \in Turn /\ req[w].ride \in Rides /\ ride[req[w].ride].status # "NONE"
    BY <1>10, Carried DEF CancelRide, At
  <2>2. Carries([pc |-> "reply", turn |-> t, cancels |-> req[w].ride, about |-> None], ride, messages)
    BY <2>1, Requests
  <2> QED
    BY <1>1, <1>10, <2>2 DEF CancelRide
<1>11. CASE Phrase(w)
  <2>1. /\ t \in Turn /\ req[w] \in Request /\ req[w].pc = "reply"
        /\ req[w].about \in Rides \cup Tickets \cup {None}
        /\ req[w].cancels \in Rides \cup {None}
        /\ req[w].cancels # None => req[w].about = None /\ ride[req[w].cancels].status # "NONE"
    BY <1>11, Carried DEF Phrase, At
  <2> DEFINE r == [pc |-> "save", turn |-> t, cancels |-> req[w].cancels, about |-> req[w].about]
  <2>2. [req[w] EXCEPT !.pc = "save"] = r
    BY <2>1 DEF Request
  <2>3. Carries(r, ride, messages)
    BY <2>1 DEF Carries, Request
  <2>4. Goto(w, r)
    BY <1>11, <2>2 DEF Phrase
  <2> QED
    BY <1>1, <1>11, <2>3, <2>4 DEF Phrase
<1>12. CASE Save(w)
  BY <1>12, ISave
<1>13. CASE Fails(w)
  <2>1. lost' \subseteq Reply /\ turns' \in 0 .. MaxTurns
    BY <1>13 DEF Fails, IInv, TypeOK
  <2> QED
    BY <1>13, <2>1, CarriesIdle, Quiet DEF Fails
<1>14. CASE StartRelay(w)
  BY <1>14, IStartRelay
<1>15. CASE CommitRating(w)
  BY <1>15, ICommitRating
<1> QED
  BY <1>2, <1>3, <1>4, <1>5, <1>6, <1>7, <1>8, <1>9, <1>10, <1>11, <1>12, <1>13, <1>14, <1>15 DEF Continue

LEMMA INext == ASSUME IInv, Next PROVE IInv'
<1>1. ASSUME NEW w \in Workers, Arrive(w) PROVE IInv'
  BY <1>1, IArrive
<1>2. ASSUME NEW w \in Workers, Continue(w) PROVE IInv'
  BY <1>2, IContinue
<1>3. ASSUME NEW n \in Reply, Relay(n) PROVE IInv'
  BY <1>3, IRelay
<1>4. ASSUME NEW n \in Reply, RelayFails(n) PROVE IInv'
  <2>1. RidesStay /\ UNCHANGED <<req, ride>>
    BY <1>4 DEF RidesStay, RelayFails
  <2>2. req' \in [Workers -> Request] /\ RequestInv'
    BY <1>4, <2>1, RequestStays DEF RelayFails
  <2>3. TypeOK' /\ RideInv' /\ RelayInv'
    BY <1>4, <2>2 DEF RelayFails, IInv, TypeOK, RideInv, RelayInv
  <2> QED
    BY <2>2, <2>3 DEF IInv
<1>5. ASSUME NEW i \in Rides, DriverMoves(i) \/ Complete(i) PROVE IInv'
  BY <1>5, IDriver
<1>6. CASE Crash
  <2>1. Idle \in Request /\ \A w \in Workers : req'[w] = Idle
    BY <1>6, CarriesIdle DEF Crash, Carries
  <2>2. RequestInv'
    BY <2>1, CarriesIdle DEF RequestInv
  <2>3. TypeOK' /\ RideInv' /\ RelayInv'
    BY <1>6, <2>1 DEF Crash, IInv, TypeOK, RideInv, RelayInv
  <2> QED
    BY <2>2, <2>3 DEF IInv
<1> QED
  BY <1>1, <1>2, <1>3, <1>4, <1>5, <1>6 DEF Next

LEMMA IStutter == ASSUME IInv, UNCHANGED vars PROVE IInv'
BY DEF IInv, TypeOK, RequestInv, RideInv, RelayInv, vars

\* Every state of the conversation has the types of the tables and requests.
THEOREM TypeCorrect == Spec => []TypeOK
<1>1. Init => IInv
  BY IInit
<1>2. IInv /\ [Next]_vars => IInv'
  BY INext, IStutter
<1>3. IInv => TypeOK
  BY DEF IInv
<1> QED
  BY <1>1, <1>2, <1>3, PTL DEF Spec

\* calculate_fare and calculate_actual_fare_from_trail: for every prices whose
\* minimum is a round amount, every route and every trail, a fare that is
\* quoted or final is a round amount that reaches the minimum.
THEOREM FaresAlwaysClean == Spec => []FaresAreClean
<1>1. Init => IInv
  BY IInit
<1>2. IInv /\ [Next]_vars => IInv'
  BY INext, IStutter
<1>3. IInv => FaresAreClean
  <2> SUFFICES ASSUME IInv, NEW i \in Rides, ride[i].quote # None,
                      NEW fare \in {ride[i].quote.fare} \cup ({ride[i].final} \ {0})
               PROVE  Clean(fare)
    BY DEF FaresAreClean, Clean
  <2>1. ride[i].status # "NONE"
    BY DEF IInv, RideInv, NoRide
  <2> QED
    BY <2>1 DEF IInv, RideInv
<1> QED
  BY <1>1, <1>2, <1>3, PTL DEF Spec

-----------------------------------------------------------------------------
(* What the steps of a ride leave of its row *)

\* What was written when the ride was created or rated.
Kept(j) ==
    /\ ride'[j].asked = ride[j].asked
    /\ ride'[j].quote = ride[j].quote
    /\ ride'[j].ratings = ride[j].ratings

LEMMA DriversKeep ==
    ASSUME IInv, NEW i \in Rides, DriverMoves(i) \/ Complete(i), NEW j \in Rides
    PROVE  Kept(j) /\ ride'[j].cancelledIn = ride[j].cancelledIn
<1>1. ride \in [Rides -> RideRow] /\ ride[j] \in RideRow
  BY DEF IInv, TypeOK
<1>2. PICK status, final :
        \/ ride' = [ride EXCEPT ![i] = [ride[i] EXCEPT !.status = status]]
        \/ ride' = [ride EXCEPT ![i] = [ride[i] EXCEPT !.status = status, !.final = final]]
  <2>1. CASE DriverMoves(i)
    <3>1. PICK status \in Moves : ride' = [ride EXCEPT ![i].status = status]
      BY <2>1 DEF DriverMoves
    <3>2. ride' = [ride EXCEPT ![i] = [ride[i] EXCEPT !.status = status]]
      BY <3>1
    <3> QED
      BY <3>2
  <2>2. CASE Complete(i)
    <3>1. PICK fare \in FinalFares(ride[i].quote) :
            ride' = [ride EXCEPT ![i].status = "COMPLETED", ![i].final = fare]
      BY <2>2 DEF Complete
    <3>2. ride' = [ride EXCEPT ![i] = [ride[i] EXCEPT !.status = "COMPLETED", !.final = fare]]
      BY <1>1, <3>1
    <3> QED
      BY <3>2
  <2> QED
    BY <2>1, <2>2
<1>3. CASE j # i
  BY <1>1, <1>2, <1>3 DEF Kept
<1>4. CASE j = i
  <2>1. CASE ride'[j] = [ride[j] EXCEPT !.status = status]
    BY <1>1, <2>1 DEF RideRow, Kept
  <2>2. CASE ride'[j] = [ride[j] EXCEPT !.status = status, !.final = final]
    BY <1>1, <2>2 DEF RideRow, Kept
  <2> QED
    BY <1>1, <1>2, <1>4, <2>1, <2>2
<1> QED
  BY <1>3, <1>4

LEMMA TurnKeeps ==
    ASSUME IInv, NEW w \in Workers, DriverFound(w) \/ NoDriver(w) \/ Save(w), NEW j \in Rides
    PROVE  Kept(j)
<1>1. ride \in [Rides -> RideRow] /\ ride[j] \in RideRow
  BY DEF IInv, TypeOK
<1>2. PICK status, turn :
        \/ ride'[j] = ride[j]
        \/ ride'[j] = [ride[j] EXCEPT !.status = status]
        \/ ride'[j] = [ride[j] EXCEPT !.status = status, !.cancelledIn = turn]
  <2>1. CASE DriverFound(w)
    BY <1>1, <2>1 DEF DriverFound
  <2>2. CASE NoDriver(w)
    BY <1>1, <2>2 DEF NoDriver
  <2>3. CASE Save(w)
    BY <2>3 DEF Save
  <2> QED
    BY <2>1, <2>2, <2>3
<1>3. CASE ride'[j] = ride[j]
  BY <1>3 DEF Kept
<1>4. CASE ride'[j] = [ride[j] EXCEPT !.status = status]
  BY <1>1, <1>4 DEF RideRow, Kept
<1>5. CASE ride'[j] = [ride[j] EXCEPT !.status = status, !.cancelledIn = turn]
  BY <1>1, <1>5 DEF RideRow, Kept
<1> QED
  BY <1>2, <1>3, <1>4, <1>5

-----------------------------------------------------------------------------
(* A rating is overwritten by those who found none *)

Raters(i, by) == {w \in Workers : req[w] = [pc |-> "rate", ride |-> i, by |-> by]}

\* What was committed and what is on its way.
RatedInv ==
    \A i \in Rides, by \in Party :
        ride[i].ratings[by] + Cardinality(Raters(i, by)) <= Cardinality(Workers)

LEMMA RatersCount ==
    ASSUME NEW S \in SUBSET Workers, NEW T \in SUBSET S
    PROVE  /\ IsFiniteSet(S) /\ Cardinality(S) \in Nat /\ Cardinality(T) \in Nat
           /\ Cardinality(T) <= Cardinality(S)
BY FS_Subset, FS_CardinalityType, ConversationAssumption

\* A step that commits no rating, and lets nobody rate who found a rating.
RatedUntouched ==
    \A i \in Rides, by \in Party :
        /\ ride'[i].ratings[by] = ride[i].ratings[by]
        /\ Raters(i, by)' \subseteq Raters(i, by) \/ ride[i].ratings[by] = 0

LEMMA RatedStays ==
    ASSUME IInv, RatedInv, RatedUntouched
    PROVE  RatedInv'
<1> SUFFICES ASSUME NEW i \in Rides, NEW by \in Party
             PROVE  ride'[i].ratings[by] + Cardinality(Raters(i, by)') <= Cardinality(Workers)
  BY DEF RatedInv
<1>1. ride[i].ratings[by] \in Nat
  BY DEF IInv, TypeOK, RideRow
<1>2. Raters(i, by) \in SUBSET Workers /\ Raters(i, by)' \in SUBSET Workers
  BY DEF Raters
<1>3. /\ Cardinality(Raters(i, by)) \in Nat /\ Cardinality(Raters(i, by)') \in Nat
      /\ Cardinality(Workers) \in Nat /\ Cardinality(Raters(i, by)') <= Cardinality(Workers)
  BY <1>2, RatersCount
<1>4. CASE Raters(i, by)' \subseteq Raters(i, by)
  <2>1. Cardinality(Raters(i, by)') <= Cardinality(Raters(i, by))
    BY <1>2, <1>4, RatersCount
  <2> QED
    BY <1>1, <1>3, <2>1 DEF RatedUntouched, RatedInv
<1>5. CASE ride[i].ratings[by] = 0
  BY <1>3, <1>5 DEF RatedUntouched
<1> QED
  BY <1>4, <1>5 DEF RatedUntouched

\* A handler that starts something else than a rating.
LEMMA RatersGoto ==
    ASSUME IInv, NEW w \in Workers, NEW r, r.pc # "rate", Goto(w, r), NEW i \in Rides, NEW by \in Party
    PROVE  Raters(i, by)' \subseteq Raters(i, by)
<1>1. req' = [req EXCEPT ![w] = r] /\ req \in [Workers -> Request]
  BY DEF Goto, IInv, TypeOK
<1>2. ASSUME NEW v \in Workers, req'[v] = [pc |-> "rate", ride |-> i, by |-> by]
      PROVE  req[v] = [pc |-> "rate", ride |-> i, by |-> by]
  BY <1>1, <1>2
<1> QED
  BY <1>2 DEF Raters

LEMMA RatedCommit ==
    ASSUME IInv, RatedInv, NEW w \in Workers, CommitRating(w)
    PROVE  RatedInv'
<1>1. PICK i \in Rides, by \in Party : req[w] = [pc |-> "rate", ride |-> i, by |-> by]
  <2>1. req[w] \in Request /\ req[w].pc = "rate"
    BY Carried DEF CommitRating, At
  <2> QED
    BY <2>1 DEF Request
<1>2. req' = [req EXCEPT ![w] = Idle] /\ req \in [Workers -> Request] /\ Idle.pc = "idle"
  BY DEF CommitRating, Goto, IInv, TypeOK, Idle
<1>3. ride' = [ride EXCEPT ![i].ratings[by] = ride[i].ratings[by] + 1]
  BY <1>1 DEF CommitRating
<1>4. \A j \in Rides : ride[j].ratings \in [Party -> Nat] /\ ride[j] \in RideRow
  BY DEF IInv, TypeOK, RideRow
<1>5. ASSUME NEW j \in Rides, NEW p \in Party
      PROVE  ride'[j].ratings[p] = ride[j].ratings[p] + (IF j = i /\ p = by THEN 1 ELSE 0)
  <2>1. ride \in [Rides -> RideRow]
    BY DEF IInv, TypeOK
  <2>2. CASE j # i
    <3>1. ride'[j] = ride[j]
      BY <1>3, <2>1, <2>2
    <3> QED
      BY <1>4, <2>2, <3>1
  <2>3. CASE j = i
    <3>1. ride'[i].ratings = [ride[i].ratings EXCEPT ![by] = ride[i].ratings[by] + 1]
      BY <1>1, <1>3, <1>4, <2>1 DEF RideRow
    <3> QED
      BY <1>1, <1>4, <2>3, <3>1
  <2> QED
    BY <2>2, <2>3
<1>6. Raters(i, by)' = Raters(i, by) \ {w} /\ w \in Raters(i, by)
  <2>1. \A v \in Workers : req'[v] = IF v = w THEN Idle ELSE req[v]
    BY <1>2
  <2>2. Idle # [pc |-> "rate", ride |-> i, by |-> by]
    BY <1>2
  <2> QED
    BY <1>1, <2>1, <2>2 DEF Raters
<1>7. ASSUME NEW j \in Rides, NEW p \in Party
      PROVE  ride'[j].ratings[p] + Cardinality(Raters(j, p)') <= Cardinality(Workers)
  <2>1. Raters(j, p) \in SUBSET Workers /\ Raters(j, p)' \subseteq Raters(j, p)
    <3>1. Goto(w, Idle) /\ Idle.pc # "rate"
      BY DEF CommitRating, Idle
    <3> QED
      BY <3>1, RatersGoto DEF Raters
  <2>2. /\ IsFiniteSet(Raters(j, p)) /\ Cardinality(Raters(j, p)) \in Nat
        /\ Cardinality(Raters(j, p)') \in Nat /\ Cardinality(Workers) \in Nat
        /\ Cardinality(Raters(j, p)') <= Cardinality(Raters(j, p))
    BY <2>1, RatersCount
  <2>3. ride[j].ratings[p] \in Nat /\ ride[j].ratings[p] + Cardinality(Raters(j, p)) <= Cardinality(Workers)
    BY <1>4 DEF RatedInv
  <2>4. CASE j = i /\ p = by
    <3>1. Cardinality(Raters(j, p)') = Cardinality(Raters(j, p)) - 1
      <4>1. Raters(j, p)' = Raters(j, p) \ {w} /\ w \in Raters(j, p)
        BY <1>6, <2>4
      <4> QED
        BY <2>2, <4>1, FS_RemoveElement
    <3>2. ride'[j].ratings[p] = ride[j].ratings[p] + 1
      BY <1>5, <2>4
    <3> QED
      BY <2>2, <2>3, <3>1, <3>2
  <2>5. CASE ~(j = i /\ p = by)
    <3>1. ride'[j].ratings[p] = ride[j].ratings[p]
      BY <1>5, <2>3, <2>5
    <3> QED
      BY <2>2, <2>3, <3>1
  <2> QED
    BY <2>4, <2>5
<1> QED
  BY <1>7 DEF RatedInv

LEMMA RatedNext == ASSUME IInv, RatedInv, Next PROVE RatedInv'
<1>1. ride \in [Rides -> RideRow] /\ req \in [Workers -> Request]
  BY DEF IInv, TypeOK
\* What a handler does to the rides' ratings, and where it goes.
<1>2. ASSUME NEW w \in Workers, NEW r, r.pc # "rate", Goto(w, r),
             \A i \in Rides : ride'[i].ratings = ride[i].ratings
      PROVE  RatedInv'
  <2>1. RatedUntouched
    BY <1>2, RatersGoto DEF RatedUntouched
  <2> QED
    BY <2>1, RatedStays
<1>3. ASSUME NEW w \in Workers, Arrive(w) PROVE RatedInv'
  <2>1. UNCHANGED ride
    BY <1>3 DEF Arrive, Ask, AdminReply, UploadPhoto, RateStart
  <2>2. CASE Ask(w) \/ \E d \in Tickets, wants \in Chosen \cup {None} : AdminReply(w, d, wants)
    <3>1. PICK r : r.pc # "rate" /\ Goto(w, r)
      BY <2>2 DEF Ask, AdminReply
    <3> QED
      BY <1>2, <2>1, <3>1
  <2>3. ASSUME NEW d \in Tickets, UploadPhoto(w, d) PROVE RatedInv'
    <3>1. RatedUntouched
      BY <2>3 DEF UploadPhoto, RatedUntouched, Raters
    <3> QED
      BY <3>1, RatedStays
  <2>4. ASSUME NEW i \in Rides, NEW by \in Party, RateStart(w, i, by) PROVE RatedInv'
    <3> DEFINE r == [pc |-> "rate", ride |-> i, by |-> by]
    <3>1. ride[i].ratings[by] = 0 /\ req' = [req EXCEPT ![w] = r]
      BY <2>4 DEF RateStart, Goto
    <3>2. ASSUME NEW j \in Rides, NEW p \in Party, ~(j = i /\ p = by)
          PROVE  Raters(j, p)' \subseteq Raters(j, p)
      <4>1. r # [pc |-> "rate", ride |-> j, by |-> p]
        BY <3>2
      <4> QED
        BY <1>1, <3>1, <4>1 DEF Raters
    <3>3. RatedUntouched
      BY <2>1, <3>1, <3>2 DEF RatedUntouched
    <3> QED
      BY <3>3, RatedStays
  <2> QED
    BY <1>3, <2>2, <2>3, <2>4 DEF Arrive
<1>4. ASSUME NEW w \in Workers, Continue(w), ~CommitRating(w) PROVE RatedInv'
  <2>1. \A i \in Rides : ride'[i].ratings = ride[i].ratings
    <3>1. CASE CreateRide(w)
      <4>1. PICK j \in Rides :
              /\ ride[j].status = "NONE"
              /\ ride' = [ride EXCEPT ![j] = [NoRide EXCEPT
                              !.status = "REQUESTED", !.asked = req[w].turn, !.quote = req[w].quote]]
        BY <3>1 DEF CreateRide
      <4>2. ride[j].ratings = NoRide.ratings
        BY <4>1 DEF IInv, RideInv
      <4>3. ride'[j].ratings = NoRide.ratings
        BY <1>1, <4>1 DEF NoRide
      <4>4. \A i \in Rides \ {j} : ride'[i] = ride[i]
        BY <1>1, <4>1
      <4> QED
        BY <4>2, <4>3, <4>4
    <3>2. CASE DriverFound(w) \/ NoDriver(w) \/ Save(w)
      BY <3>2, TurnKeeps DEF Kept
    <3> QED
      BY <1>4, <3>1, <3>2
         DEF Continue, Extract, AnswerQuestion, Phrase, Fails, RideRefused, Geocode, QuoteRide, Closed,
             AskForDetails, OpenTicket, CancelStart, NothingToCancel, CancelRide, StartRelay
  <2>2. PICK r : r.pc # "rate" /\ Goto(w, r)
    <3>1. CASE Phrase(w)
      <4>1. req[w] \in Request /\ req[w].pc = "reply"
        BY <3>1, Carried DEF Phrase, At
      <4>2. [req[w] EXCEPT !.pc = "save"].pc = "save"
        BY <4>1 DEF Request
      <4> QED
        BY <3>1, <4>2 DEF Phrase
    <3>2. CASE Geocode(w)
      <4>1. req[w] \in Request /\ req[w].pc = "ride"
        BY <3>2, Carried DEF Geocode, At
      <4>2. [req[w] EXCEPT !.pc = "route"].pc = "route"
        BY <4>1 DEF Request
      <4> QED
        BY <3>2, <4>2 DEF Geocode
    <3>3. CASE Extract(w)
      BY <3>3 DEF Extract
    <3>4. CASE QuoteRide(w)
      BY <3>4 DEF QuoteRide
    <3>5. CASE CreateRide(w) \/ CancelStart(w) \/ CancelRide(w)
      BY <3>5 DEF CreateRide, CancelStart, CancelRide
    <3>6. CASE \/ AnswerQuestion(w) \/ RideRefused(w) \/ Closed(w) \/ AskForDetails(w)
               \/ NothingToCancel(w) \/ OpenTicket(w) \/ DriverFound(w) \/ NoDriver(w)
      BY <3>6 DEF AnswerQuestion, RideRefused, Closed, AskForDetails, NothingToCancel, OpenTicket,
                  DriverFound, NoDriver, Generate, Say
    <3>7. CASE Save(w) \/ Fails(w) \/ StartRelay(w)
      BY <3>7 DEF Save, Fails, StartRelay, Idle
    <3> QED
      BY <1>4, <3>1, <3>2, <3>3, <3>4, <3>5, <3>6, <3>7 DEF Continue
  <2> QED
    BY <1>2, <2>1, <2>2
<1>5. ASSUME NEW n \in Reply, Relay(n) \/ RelayFails(n) PROVE RatedInv'
  <2>1. RatedUntouched
    BY <1>5 DEF Relay, RelayFails, RatedUntouched, Raters
  <2> QED
    BY <2>1, RatedStays
<1>6. ASSUME NEW j \in Rides, DriverMoves(j) \/ Complete(j) PROVE RatedInv'
  <2>1. \A i \in Rides : ride'[i].ratings = ride[i].ratings
    BY <1>6, DriversKeep DEF Kept
  <2>2. RatedUntouched
    BY <1>6, <2>1 DEF DriverMoves, Complete, RatedUntouched, Raters
  <2> QED
    BY <2>2, RatedStays
<1>7. CASE Crash
  <2>1. RatedUntouched
    BY <1>7 DEF Crash, Idle, RatedUntouched, Raters
  <2> QED
    BY <2>1, RatedStays
<1> QED
  BY <1>3, <1>4, <1>5, <1>6, <1>7, RatedCommit DEF Next

\* rate_ride: however requests to rate one ride overlap, with each other and
\* with chat turns, drivers and restarts, a party's rating is committed no
\* more often than handlers run together; one at a time, exactly once.
THEOREM RatingsAreOfReaders == Spec => []RatedByReaders
<1>1. Init => IInv /\ RatedInv
  <2>1. ASSUME Init PROVE RatedInv
    <3> SUFFICES ASSUME NEW i \in Rides, NEW by \in Party
                 PROVE  ride[i].ratings[by] + Cardinality(Raters(i, by)) <= Cardinality(Workers)
      BY DEF RatedInv
    <3>1. ride[i].ratings[by] = 0
      BY <2>1 DEF Init, NoRide
    <3>2. /\ Cardinality(Raters(i, by)) \in Nat /\ Cardinality(Workers) \in Nat
          /\ Cardinality(Raters(i, by)) <= Cardinality(Workers)
      BY RatersCount DEF Raters
    <3> QED
      BY <3>1, <3>2
  <2> QED
    BY <2>1, IInit
<1>2. IInv /\ RatedInv /\ [Next]_vars => IInv' /\ RatedInv'
  <2>1. ASSUME IInv, RatedInv, UNCHANGED vars PROVE RatedInv'
    <3>1. RatedUntouched
      BY <2>1 DEF vars, RatedUntouched, Raters
    <3> QED
      BY <2>1, <3>1, RatedStays
  <2> QED
    BY <2>1, RatedNext, INext, IStutter
<1>3. IInv /\ RatedInv => RatedByReaders
  <2> SUFFICES ASSUME IInv, RatedInv, NEW i \in Rides, NEW by \in Party
               PROVE  ride[i].ratings[by] <= Cardinality(Workers)
    BY DEF RatedByReaders
  <2>1. ride[i].ratings[by] \in Nat
    BY DEF IInv, TypeOK, RideRow
  <2>2. Cardinality(Raters(i, by)) \in Nat /\ Cardinality(Workers) \in Nat
    BY RatersCount DEF Raters
  <2> QED
    BY <2>1, <2>2 DEF RatedInv
<1> QED
  BY <1>1, <1>2, <1>3, PTL DEF Spec

-----------------------------------------------------------------------------
(* Turns are saved whole, final tickets are stamped *)

\* The four kinds of messages differ.
LEMMA Kinds ==
    ASSUME NEW t \in Turn, NEW n, NEW u, NEW x, NEW y
    PROVE  /\ Question(t) # Answer(u, x) /\ Question(t) # AdminMessage(n, x) /\ Question(t) # Relayed(n, x)
           /\ Answer(t, x) # AdminMessage(n, y) /\ Answer(t, x) # Relayed(n, y)
           /\ Answer(t, x) # Question(u)
           /\ Question(t) = Question(u) => t = u
           /\ Answer(t, x) = Answer(u, y) => t = u /\ x = y
<1>1. t # 0
  BY DEF Turn
<1>2. /\ Question(t).role = "user" /\ Question(t).turn = t
      /\ Answer(t, x).role = "agent" /\ Answer(t, x).turn = t /\ Answer(t, x).about = x
      /\ Answer(u, x).role = "agent" /\ Answer(u, y).turn = u /\ Answer(u, y).about = y
      /\ Question(u).role = "user" /\ Question(u).turn = u
      /\ AdminMessage(n, x).role = "admin" /\ AdminMessage(n, y).role = "admin"
      /\ Relayed(n, x).role = "agent" /\ Relayed(n, y).turn = 0
  BY DEF Question, Answer, AdminMessage, Relayed
<1> QED
  BY <1>1, <1>2

LEMMA WholeQuiet ==
    ASSUME IInv, NoHalfTurns, messages \subseteq messages',
           \A t \in Turn : Question(t) \in messages' => Question(t) \in messages,
           \A t \in Turn, x \in Rides \cup Tickets \cup {None} :
               Answer(t, x) \in messages' => Answer(t, x) \in messages,
           \A i \in Rides : /\ ride'[i].asked = ride[i].asked
                            /\ ride'[i].cancelledIn = ride[i].cancelledIn,
           \A d \in Tickets : ticket'[d].status # None => ticket[d].status # None
    PROVE  NoHalfTurns'
<1>1. \A t \in Turn, x \in Rides \cup Tickets \cup {None} :
        Answer(t, x) \in messages' => Question(t) \in messages'
  BY DEF NoHalfTurns
<1>2. \A d \in Opened' : \E t \in Turn : Answer(t, d) \in messages'
  BY DEF NoHalfTurns, Opened
<1>3. \A i \in Rides : ride'[i].cancelledIn # 0 => Answer(ride'[i].cancelledIn, None) \in messages'
  BY DEF NoHalfTurns
<1>4. ASSUME NEW t \in Turn, Question(t) \in messages'
      PROVE  \/ \E x \in Rides \cup Tickets \cup {None} : Answer(t, x) \in messages'
             \/ \E i \in Rides : ride'[i].asked = t
  <2>1. \/ \E x \in Rides \cup Tickets \cup {None} : Answer(t, x) \in messages
        \/ \E i \in Rides : ride[i].asked = t
    BY <1>4 DEF NoHalfTurns
  <2> QED
    BY <2>1
<1> QED
  BY <1>1, <1>2, <1>3, <1>4 DEF NoHalfTurns

LEMMA WholeCreateRide ==
    ASSUME IInv, NoHalfTurns, NEW w \in Workers, CreateRide(w)
    PROVE  NoHalfTurns'
<1> DEFINE t == req[w].turn
<1>1. t \in Turn
  BY Carried DEF CreateRide, At
<1>2. PICK j \in Rides :
        /\ ride[j].status = "NONE"
        /\ ride' = [ride EXCEPT ![j] = [NoRide EXCEPT
                        !.status = "REQUESTED", !.asked = t, !.quote = req[w].quote]]
  BY DEF CreateRide
<1>3. ride \in [Rides -> RideRow] /\ ride[j] = NoRide
  BY <1>2 DEF IInv, TypeOK, RideInv
<1>4. /\ ride'[j].asked = t /\ ride'[j].cancelledIn = 0
      /\ ride[j].asked = 0
      /\ \A i \in Rides \ {j} : ride'[i] = ride[i]
  BY <1>2, <1>3 DEF NoRide
<1>5. messages' = messages \cup {Question(t)} /\ ticket' = ticket
  BY DEF CreateRide
<1>6. \A u \in Turn, x \in Rides \cup Tickets \cup {None} : Answer(u, x) \in messages' => Answer(u, x) \in messages
  BY <1>1, <1>5, Kinds
<1>7. \A u \in Turn, x \in Rides \cup Tickets \cup {None} : Answer(u, x) \in messages' => Question(u) \in messages'
  BY <1>5, <1>6 DEF NoHalfTurns
<1>8. \A d \in Opened' : \E u \in Turn : Answer(u, d) \in messages'
  BY <1>5 DEF NoHalfTurns, Opened
<1>9. \A i \in Rides : ride'[i].cancelledIn # 0 => Answer(ride'[i].cancelledIn, None) \in messages'
  BY <1>4, <1>5 DEF NoHalfTurns
<1>10. ASSUME NEW u \in Turn, Question(u) \in messages'
       PROVE  \/ \E x \in Rides \cup Tickets \cup {None} : Answer(u, x) \in messages'
              \/ \E i \in Rides : ride'[i].asked = u
  <2>1. CASE u = t
    BY <1>4, <2>1
  <2>2. CASE u # t
    <3>1. Question(u) \in messages
      BY <1>1, <1>5, <1>10, <2>2, Kinds
    <3>2. \/ \E x \in Rides \cup Tickets \cup {None} : Answer(u, x) \in messages
          \/ \E i \in Rides : ride[i].asked = u
      BY <3>1 DEF NoHalfTurns
    <3>3. \A i \in Rides : ride[i].asked = u => ride'[i].asked = u
      BY <1>4 DEF Turn
    <3> QED
      BY <1>5, <3>2, <3>3
  <2> QED
    BY <2>1, <2>2
<1> QED
  BY <1>7, <1>8, <1>9, <1>10 DEF NoHalfTurns

LEMMA WholeSave ==
    ASSUME IInv, NoHalfTurns, NEW w \in Workers, Save(w)
    PROVE  NoHalfTurns'
<1> DEFINE t == req[w].turn
           y == req[w].about
           c == req[w].cancels
<1>1. /\ t \in Turn /\ y \in Rides \cup Tickets \cup {None} /\ c \in Rides \cup {None}
      /\ c # None => y = None
  BY Carried DEF Save, At
<1>2. messages' = messages \cup {Question(t), Answer(t, y)}
  BY DEF Save
<1>3. ASSUME NEW i \in Rides
      PROVE  /\ ride'[i].asked = ride[i].asked
             /\ ride'[i].cancelledIn = IF i = c THEN t ELSE ride[i].cancelledIn
  <2>1. ride[i] \in RideRow
    BY DEF IInv, TypeOK
  <2> QED
    BY <2>1 DEF Save, RideRow
<1>4. \A d \in Tickets : ticket'[d].status # None => d = y \/ ticket[d].status # None
  BY DEF Save
<1>5. \A u \in Turn, x \in Rides \cup Tickets \cup {None} :
        Answer(u, x) \in messages' => Answer(u, x) \in messages \/ (u = t /\ x = y)
  BY <1>1, <1>2, Kinds
<1>6. \A u \in Turn, x \in Rides \cup Tickets \cup {None} : Answer(u, x) \in messages' => Question(u) \in messages'
  BY <1>2, <1>5 DEF NoHalfTurns
<1>7. \A d \in Opened' : \E u \in Turn : Answer(u, d) \in messages'
  BY <1>1, <1>2, <1>4 DEF NoHalfTurns, Opened
<1>8. \A i \in Rides : ride'[i].cancelledIn # 0 => Answer(ride'[i].cancelledIn, None) \in messages'
  <2>1. \A i \in Rides : i # None
    BY ConversationAssumption
  <2> QED
    BY <1>1, <1>2, <1>3, <2>1 DEF NoHalfTurns
<1>9. ASSUME NEW u \in Turn, Question(u) \in messages'
      PROVE  \/ \E x \in Rides \cup Tickets \cup {None} : Answer(u, x) \in messages'
             \/ \E i \in Rides : ride'[i].asked = u
  <2>1. CASE u = t
    BY <1>1, <1>2, <2>1
  <2>2. CASE u # t
    <3>1. Question(u) \in messages
      BY <1>1, <1>2, <1>9, <2>2, Kinds
    <3>2. \/ \E x \in Rides \cup Tickets \cup {None} : Answer(u, x) \in messages
          \/ \E i \in Rides : ride[i].asked = u
      BY <3>1 DEF NoHalfTurns
    <3> QED
      BY <1>2, <1>3, <3>2
  <2> QED
    BY <2>1, <2>2
<1> QED
  BY <1>6, <1>7, <1>8, <1>9 DEF NoHalfTurns

LEMMA WholeNext == ASSUME IInv, NoHalfTurns, Next PROVE NoHalfTurns'
<1>1. ride \in [Rides -> RideRow] /\ ticket \in [Tickets -> TicketRow]
  BY DEF IInv, TypeOK
<1>2. ASSUME UNCHANGED <<messages, ticket>>,
             \A i \in Rides : /\ ride'[i].asked = ride[i].asked
                              /\ ride'[i].cancelledIn = ride[i].cancelledIn
      PROVE  NoHalfTurns'
  BY <1>2, WholeQuiet
<1>3. ASSUME UNCHANGED <<messages, ticket, ride>> PROVE NoHalfTurns'
  BY <1>2, <1>3
<1>4. ASSUME NEW w \in Workers, CreateRide(w) PROVE NoHalfTurns'
  BY <1>4, WholeCreateRide
<1>5. ASSUME NEW w \in Workers, Save(w) PROVE NoHalfTurns'
  BY <1>5, WholeSave
<1>6. ASSUME NEW w \in Workers, DriverFound(w) \/ NoDriver(w) \/ CommitRating(w) PROVE NoHalfTurns'
  <2>1. \A i \in Rides : /\ ride'[i].asked = ride[i].asked
                         /\ ride'[i].cancelledIn = ride[i].cancelledIn
    BY <1>1, <1>6 DEF DriverFound, NoDriver, CommitRating, RideRow
  <2> QED
    BY <1>2, <1>6, <2>1 DEF DriverFound, NoDriver, CommitRating
<1>7. ASSUME NEW j \in Rides, DriverMoves(j) \/ Complete(j) PROVE NoHalfTurns'
  <2>1. \A i \in Rides : /\ ride'[i].asked = ride[i].asked
                         /\ ride'[i].cancelledIn = ride[i].cancelledIn
    BY <1>7, DriversKeep DEF Kept
  <2> QED
    BY <1>2, <1>7, <2>1 DEF DriverMoves, Complete
<1>8. ASSUME NEW w \in Workers, NEW d \in Tickets, NEW wants \in Chosen \cup {None}, AdminReply(w, d, wants)
      PROVE  NoHalfTurns'
  <2>1. messages' = messages \cup {AdminMessage(replies + 1, d)} /\ UNCHANGED ride /\ d \in Opened
    BY <1>8 DEF AdminReply
  <2>2. \A e \in Tickets : ticket'[e].status # None => ticket[e].status # None
    BY <1>1, <1>8 DEF AdminReply, Opened
  <2>3. /\ \A t \in Turn : Question(t) \in messages' => Question(t) \in messages
        /\ \A t \in Turn, x \in Rides \cup Tickets \cup {None} :
             Answer(t, x) \in messages' => Answer(t, x) \in messages
    BY <2>1, Kinds
  <2> QED
    BY <2>1, <2>2, <2>3, WholeQuiet
<1>9. ASSUME NEW n \in Reply, Relay(n) PROVE NoHalfTurns'
  <2>1. messages' = messages \cup {Relayed(n, About(n))} /\ UNCHANGED <<ride, ticket>>
    BY <1>9 DEF Relay
  <2>2. /\ \A t \in Turn : Question(t) \in messages' => Question(t) \in messages
        /\ \A t \in Turn, x \in Rides \cup Tickets \cup {None} :
             Answer(t, x) \in messages' => Answer(t, x) \in messages
    BY <2>1, Kinds
  <2> QED
    BY <2>1, <2>2, WholeQuiet
<1>10. ASSUME NEW w \in Workers, NEW d \in Tickets, UploadPhoto(w, d) PROVE NoHalfTurns'
  <2>1. \A e \in Tickets : ticket'[e].status # None => ticket[e].status # None
    BY <1>1, <1>10 DEF UploadPhoto, TicketRow
  <2>2. UNCHANGED <<messages, ride>>
    BY <1>10 DEF UploadPhoto
  <2> QED
    BY <2>1, <2>2, WholeQuiet
<1>11. ASSUME NEW w \in Workers, Arrive(w) PROVE NoHalfTurns'
  BY <1>3, <1>8, <1>10, <1>11 DEF Arrive, Ask, RateStart
<1>12. ASSUME NEW w \in Workers, Continue(w) PROVE NoHalfTurns'
  <2>1. \/ CreateRide(w) \/ Save(w) \/ DriverFound(w) \/ NoDriver(w) \/ CommitRating(w)
        \/ UNCHANGED <<messages, ticket, ride>>
    BY <1>12 DEF Continue, Extract, AnswerQuestion, Phrase, Fails, RideRefused, Geocode, QuoteRide, Closed,
                 AskForDetails, OpenTicket, CancelStart, NothingToCancel, CancelRide, StartRelay
  <2> QED
    BY <2>1, <1>3, <1>4, <1>5, <1>6
<1>13. ASSUME (\E n \in Reply : RelayFails(n)) \/ Crash PROVE NoHalfTurns'
  BY <1>3, <1>13 DEF RelayFails, Crash
<1> QED
  BY <1>7, <1>9, <1>11, <1>12, <1>13 DEF Next

\* process_message and get_db: whatever fails between the two calls of the
\* model, a turn is saved whole or not at all, but for a ride it created.
THEOREM NoHalfTurnsEver == Spec => []NoHalfTurns
<1>1. Init => IInv /\ NoHalfTurns
  <2>1. Init => NoHalfTurns
    BY DEF Init, NoHalfTurns, Opened, NoRide, NoTicket
  <2> QED
    BY <2>1, IInit
<1>2. IInv /\ NoHalfTurns /\ [Next]_vars => IInv' /\ NoHalfTurns'
  <2>1. ASSUME IInv, NoHalfTurns, UNCHANGED vars PROVE NoHalfTurns'
    BY <2>1 DEF NoHalfTurns, Opened, vars
  <2> QED
    BY <2>1, WholeNext, INext, IStutter
<1> QED
  BY <1>1, <1>2, PTL DEF Spec

\* reply_to_delivery: however replies, photos and chat turns overlap, a ticket
\* whose status is final has its resolved_at.
THEOREM ResolvedAlwaysStamped == Spec => []ResolvedIsStamped
<1>1. Init => IInv /\ ResolvedIsStamped
  <2>1. Init => ResolvedIsStamped
    <3>1. None \notin Resolved
      BY ConversationAssumption DEF Resolved, DeliveryStatus
    <3> QED
      BY <3>1 DEF Init, ResolvedIsStamped, NoTicket
  <2> QED
    BY <2>1, IInit
<1>2. IInv /\ ResolvedIsStamped /\ [Next]_vars => IInv' /\ ResolvedIsStamped'
  <2>1. ASSUME IInv, ResolvedIsStamped, Next PROVE ResolvedIsStamped'
    <3>1. ticket \in [Tickets -> TicketRow]
      BY <2>1 DEF IInv, TypeOK
    <3>2. ASSUME UNCHANGED ticket PROVE ResolvedIsStamped'
      BY <2>1, <3>2 DEF ResolvedIsStamped
    <3>3. ASSUME NEW w \in Workers, Save(w) PROVE ResolvedIsStamped'
      <4>1. ticket' = [d \in Tickets |-> IF d = req[w].about THEN [NoTicket EXCEPT !.status = "PENDING"] ELSE ticket[d]]
        BY <3>3 DEF Save
      <4>2. [NoTicket EXCEPT !.status = "PENDING"].status \notin Resolved
        BY DEF NoTicket, Resolved
      <4> QED
        BY <2>1, <4>1, <4>2 DEF ResolvedIsStamped
    <3>4. ASSUME NEW w \in Workers, NEW d \in Tickets, NEW wants \in Chosen \cup {None}, AdminReply(w, d, wants)
          PROVE  ResolvedIsStamped'
      <4>1. wants \in DeliveryStatus \cup {None} /\ ticket[d] \in TicketRow
        BY <3>1, ConversationAssumption
      <4>2. ticket' = [ticket EXCEPT ![d] = Moved(ticket[d], wants)]
        BY <3>4 DEF AdminReply
      <4>3. Moved(ticket[d], wants).status \in Resolved => Moved(ticket[d], wants).resolved
        BY <2>1, <4>1, MovedType DEF ResolvedIsStamped
      <4> QED
        BY <2>1, <3>1, <4>2, <4>3 DEF ResolvedIsStamped
    <3>5. ASSUME NEW w \in Workers, NEW d \in Tickets, UploadPhoto(w, d) PROVE ResolvedIsStamped'
      <4>1. ticket' = [ticket EXCEPT ![d] = [ticket[d] EXCEPT !.photo = TRUE]]
        BY <3>5 DEF UploadPhoto
      <4>2. /\ [ticket[d] EXCEPT !.photo = TRUE].status = ticket[d].status
            /\ [ticket[d] EXCEPT !.photo = TRUE].resolved = ticket[d].resolved
        BY <3>1 DEF TicketRow
      <4>3. \A e \in Tickets : ticket'[e].status = ticket[e].status /\ ticket'[e].resolved = ticket[e].resolved
        BY <3>1, <4>1, <4>2
      <4> QED
        BY <2>1, <4>3 DEF ResolvedIsStamped
    <3>6. ASSUME NEW w \in Workers, Arrive(w) PROVE ResolvedIsStamped'
      BY <3>2, <3>4, <3>5, <3>6 DEF Arrive, Ask, RateStart
    <3>7. ASSUME NEW w \in Workers, Continue(w) PROVE ResolvedIsStamped'
      <4>1. Save(w) \/ UNCHANGED ticket
        BY <3>7 DEF Continue, Extract, AnswerQuestion, Phrase, Fails, RideRefused, Geocode, QuoteRide, Closed,
                    CreateRide, DriverFound, NoDriver, AskForDetails, OpenTicket,
                    CancelStart, NothingToCancel, CancelRide, StartRelay, CommitRating
      <4> QED
        BY <4>1, <3>2, <3>3
    <3>8. ASSUME NEW n \in Reply, Relay(n) \/ RelayFails(n) PROVE ResolvedIsStamped'
      BY <3>2, <3>8 DEF Relay, RelayFails
    <3>9. ASSUME NEW i \in Rides, DriverMoves(i) \/ Complete(i) PROVE ResolvedIsStamped'
      BY <3>2, <3>9 DEF DriverMoves, Complete
    <3>10. CASE Crash
      BY <3>2, <3>10 DEF Crash
    <3> QED
      BY <2>1, <3>6, <3>7, <3>8, <3>9, <3>10 DEF Next
  <2>2. ASSUME ResolvedIsStamped, UNCHANGED vars PROVE ResolvedIsStamped'
    BY <2>2 DEF ResolvedIsStamped, vars
  <2> QED
    BY <2>1, <2>2, INext, IStutter
<1> QED
  BY <1>1, <1>2, PTL DEF Spec

-----------------------------------------------------------------------------
(* The fare on the card and the route stored beside it *)

\* Python's round is off by half a unit at most.
LEMMA RoundedNear ==
    ASSUME NEW n \in Nat
    PROVE  /\ 10 * Rounded(n, 10) \in n - 5 .. n + 5
           /\ 6 * Rounded(n, 6) \in n - 3 .. n + 3
           /\ 100 * Rounded(n, 100) \in n - 50 .. n + 50
<1>1. 10 * Rounded(n, 10) \in n - 5 .. n + 5
  BY DEF Rounded
<1>2. 6 * Rounded(n, 6) \in n - 3 .. n + 3
  BY DEF Rounded
<1>3. 100 * Rounded(n, 100) \in n - 50 .. n + 50
  BY DEF Rounded
<1> QED
  BY <1>1, <1>2, <1>3

\* A quantity that is larger by k at most costs k times the rate more at most.
LEMMA RateMonotone ==
    ASSUME NEW x \in Nat, NEW y \in Nat, NEW k \in Nat, NEW rate \in Nat, x <= y + k
    PROVE  x * rate <= y * rate + k * rate
<1>1. PICK c \in Nat : x + c = y + k
  BY y + k - x \in Nat
<1>2. (x + c) * rate = x * rate + c * rate /\ (y + k) * rate = y * rate + k * rate
  OBVIOUS
<1>3. x * rate \in Nat /\ c * rate \in Nat /\ y * rate \in Nat /\ k * rate \in Nat
  OBVIOUS
<1>4. x * rate + c * rate = y * rate + k * rate
  BY <1>1, <1>2
<1> QED
  BY <1>3, <1>4

\* 5 metres more cost no more than this.
LEMMA MetresMonotone ==
    ASSUME NEW x \in Nat, NEW y \in Nat, NEW rate \in Nat, x <= y + 5
    PROVE  (x * rate) \div 1000 <= (y * rate) \div 1000 + rate \div 200 + 1
<1> DEFINE a == x * rate
           b == y * rate
<1>1. a \in Nat /\ b \in Nat /\ a <= b + 5 * rate
  BY RateMonotone
<1> HIDE DEF a, b
<1>2. a \div 1000 <= b \div 1000 + rate \div 200 + 1
  BY <1>1
<1> QED
  BY <1>2 DEF a, b

\* 3 seconds more cost no more than this.
LEMMA SecondsMonotone ==
    ASSUME NEW x \in Nat, NEW y \in Nat, NEW rate \in Nat, x <= y + 3
    PROVE  (x * rate) \div 60 <= (y * rate) \div 60 + rate \div 20 + 1
<1> DEFINE a == x * rate
           b == y * rate
<1>1. a \in Nat /\ b \in Nat /\ a <= b + 3 * rate
  BY RateMonotone
<1> HIDE DEF a, b
<1>2. a \div 60 <= b \div 60 + rate \div 20 + 1
  BY <1>1
<1> QED
  BY <1>2 DEF a, b

\* What rounding a route to 10 m and 6 s can add to its fare.
Spread == RatePerKm \div 200 + RatePerMinute \div 20 + 2

\* calculate_fare on a route and on the same route rounded for storage.
LEMMA ChargeMonotone ==
    ASSUME NEW m1 \in Nat, NEW s1 \in Nat, NEW m2 \in Nat, NEW s2 \in Nat, m1 <= m2 + 5, s1 <= s2 + 3
    PROVE  /\ Charge(m1, s1) \in Nat /\ Charge(m2, s2) \in Nat
           /\ Charge(m1, s1) <= Charge(m2, s2) + Spread
<1>1. {BaseFee, RatePerKm, RatePerMinute, MinimumFare} \subseteq Nat
  BY PricingAssumption
<1>2. /\ (m1 * RatePerKm) \div 1000 <= (m2 * RatePerKm) \div 1000 + RatePerKm \div 200 + 1
      /\ (s1 * RatePerMinute) \div 60 <= (s2 * RatePerMinute) \div 60 + RatePerMinute \div 20 + 1
  BY <1>1, MetresMonotone, SecondsMonotone
<1>3. /\ (m1 * RatePerKm) \div 1000 \in Nat /\ (m2 * RatePerKm) \div 1000 \in Nat
      /\ (s1 * RatePerMinute) \div 60 \in Nat /\ (s2 * RatePerMinute) \div 60 \in Nat
      /\ RatePerKm \div 200 \in Nat /\ RatePerMinute \div 20 \in Nat
  <2>1. /\ m1 * RatePerKm \in Nat /\ m2 * RatePerKm \in Nat
        /\ s1 * RatePerMinute \in Nat /\ s2 * RatePerMinute \in Nat
    BY <1>1
  <2>2. \A x \in Nat : x \div 1000 \in Nat /\ x \div 60 \in Nat /\ x \div 200 \in Nat /\ x \div 20 \in Nat
    OBVIOUS
  <2> QED
    BY <1>1, <2>1, <2>2
<1> DEFINE d1 == (m1 * RatePerKm) \div 1000
           d2 == (m2 * RatePerKm) \div 1000
           t1 == (s1 * RatePerMinute) \div 60
           t2 == (s2 * RatePerMinute) \div 60
           x == RatePerKm \div 200
           y == RatePerMinute \div 20
<1>4. /\ Charge(m1, s1) = IF BaseFee + d1 + t1 < MinimumFare THEN MinimumFare ELSE BaseFee + d1 + t1
      /\ Charge(m2, s2) = IF BaseFee + d2 + t2 < MinimumFare THEN MinimumFare ELSE BaseFee + d2 + t2
  BY DEF Charge
<1>5. /\ d1 \in Nat /\ d2 \in Nat /\ t1 \in Nat /\ t2 \in Nat /\ x \in Nat /\ y \in Nat
      /\ d1 <= d2 + x + 1 /\ t1 <= t2 + y + 1
  BY <1>2, <1>3
<1>6. Charge(m1, s1) \in Nat /\ Charge(m2, s2) \in Nat /\ Charge(m1, s1) <= Charge(m2, s2) + x + y + 2
  <2> HIDE DEF d1, d2, t1, t2, x, y
  <2> QED
    BY <1>1, <1>4, <1>5
<1>7. Spread = x + y + 2
  BY DEF Spread
<1> HIDE DEF d1, d2, t1, t2, x, y
<1> QED
  BY <1>5, <1>6, <1>7

Fits(quote) ==
    LET charge == Charge(10 * quote.distance, 6 * quote.duration)
        slack == 52 + RatePerKm \div 200 + RatePerMinute \div 20
    IN  quote.fare \in charge - slack .. charge + slack

\* A fare computed from a route that differs from the stored one by what the
\* rounding takes away.
LEMMA NearFits ==
    ASSUME NEW quote, quote.distance \in Nat, quote.duration \in Nat, NEW m \in Nat, NEW s \in Nat,
           10 * quote.distance \in m - 5 .. m + 5, 6 * quote.duration \in s - 3 .. s + 3,
           quote.fare = CalculateFare(m, s)
    PROVE  Fits(quote)
<1>1. PICK d \in Nat, t \in Nat :
        /\ d = 10 * quote.distance /\ t = 6 * quote.duration
        /\ d <= m + 5 /\ m <= d + 5 /\ t <= s + 3 /\ s <= t + 3
  OBVIOUS
<1>2. /\ Charge(d, t) \in Nat /\ Charge(m, s) \in Nat
      /\ Charge(m, s) <= Charge(d, t) + Spread
      /\ Charge(d, t) <= Charge(m, s) + Spread
  <2>1. /\ Charge(m, s) \in Nat
        /\ Charge(m, s) <= Charge(d, t) + Spread
    BY <1>1, ChargeMonotone
  <2>2. /\ Charge(d, t) \in Nat
        /\ Charge(d, t) <= Charge(m, s) + Spread
    BY <1>1, ChargeMonotone
  <2> QED
    BY <2>1, <2>2
<1>3. quote.fare \in Charge(m, s) - 50 .. Charge(m, s) + 50
  BY <1>2, RoundedNear DEF CalculateFare
<1>4. RatePerKm \div 200 \in Nat /\ RatePerMinute \div 20 \in Nat
  <2>1. RatePerKm \in Nat /\ RatePerMinute \in Nat
    BY PricingAssumption
  <2> QED
    BY <2>1
<1>5. LET slack == 52 + RatePerKm \div 200 + RatePerMinute \div 20
      IN  quote.fare \in Charge(d, t) - slack .. Charge(d, t) + slack
  <2> DEFINE c == Charge(d, t)
             e == Charge(m, s)
             x == RatePerKm \div 200
             y == RatePerMinute \div 20
  <2>1. /\ c \in Nat /\ e \in Nat /\ x \in Nat /\ y \in Nat
        /\ e <= c + x + y + 2 /\ c <= e + x + y + 2 /\ quote.fare \in e - 50 .. e + 50
    BY <1>2, <1>3, <1>4 DEF Spread
  <2>2. quote.fare \in c - (52 + x + y) .. c + (52 + x + y)
    <3> HIDE DEF c, e, x, y
    <3> QED
      BY <2>1
  <2> QED
    BY <2>2
<1> QED
  BY <1>1, <1>5 DEF Fits

LEMMA QuoteFits ==
    ASSUME NEW quote \in {Measured(r[1], r[2]) : r \in Routes} \cup {Estimated(Straight)}
    PROVE  Fits(quote)
<1>1. quote.distance \in Nat /\ quote.duration \in Nat
  BY QuoteClean DEF Route
<1>2. CASE quote \in {Measured(r[1], r[2]) : r \in Routes}
  <2>1. PICK r \in Routes : quote = Measured(r[1], r[2])
    BY <1>2
  <2>2. PICK m \in Nat, s \in Nat : m = r[1] /\ s = r[2]
    BY <2>1, ConversationAssumption
  <2>3. quote.distance = Rounded(m, 10) /\ quote.duration = Rounded(s, 6) /\ quote.fare = CalculateFare(m, s)
    BY <2>1, <2>2 DEF Measured
  <2>4. 10 * Rounded(m, 10) \in m - 5 .. m + 5 /\ 6 * Rounded(s, 6) \in s - 3 .. s + 3
    BY RoundedNear
  <2> QED
    BY <1>1, <2>3, <2>4, NearFits
<1>3. CASE quote = Estimated(Straight)
  <2>1. PICK m \in Nat, s \in Nat : m = 10 * quote.distance /\ s = 6 * quote.duration
    BY <1>1
  <2>2. quote.fare = CalculateFare(m, s)
    BY <1>3, <2>1 DEF Estimated
  <2> QED
    BY <1>1, <2>1, <2>2, NearFits
<1> QED
  BY <1>2, <1>3

FitInv ==
    /\ \A w \in Workers : req[w].pc = "hours" => Fits(req[w].quote)
    /\ \A i \in Rides : ride[i].quote # None => Fits(ride[i].quote)

\* A handler's quote is the one QuoteRide gave it.
LEMMA HoursFit ==
    ASSUME TypeOK, FitInv, NEW w \in Workers, NEW r, r.pc = "hours" => Fits(r.quote), Goto(w, r)
    PROVE  \A x \in Workers : req'[x].pc = "hours" => Fits(req'[x].quote)
<1>1. \A x \in Workers : req'[x] = IF x = w THEN r ELSE req[x]
  BY DEF TypeOK, Goto
<1> QED
  BY <1>1 DEF FitInv

LEMMA QuotesStayFit ==
    ASSUME FitInv, \A i \in Rides : ride'[i].quote = ride[i].quote
    PROVE  \A i \in Rides : ride'[i].quote # None => Fits(ride'[i].quote)
BY DEF FitInv

\* Steps of a handler that leave every quote as it is.
LEMMA ElsewhereFits ==
    ASSUME TypeOK, FitInv, NEW w \in Workers, NEW r, r.pc # "hours", Goto(w, r),
           \A i \in Rides : ride'[i].quote = ride[i].quote
    PROVE  FitInv'
<1>1. \A x \in Workers : req'[x].pc = "hours" => Fits(req'[x].quote)
  BY HoursFit
<1> QED
  BY <1>1, QuotesStayFit DEF FitInv, Fits

LEMMA FitNext == ASSUME IInv, FitInv, Next PROVE FitInv'
<1>1. TypeOK /\ ride \in [Rides -> RideRow]
  BY DEF IInv, TypeOK
<1>2. ASSUME NEW w \in Workers, QuoteRide(w) PROVE FitInv'
  <2>1. PICK quote \in {Measured(r[1], r[2]) : r \in Routes} \cup {Estimated(Straight)} :
          Goto(w, [pc |-> "hours", turn |-> req[w].turn, quote |-> quote])
    BY <1>2 DEF QuoteRide
  <2>2. \A x \in Workers : req'[x].pc = "hours" => Fits(req'[x].quote)
    BY <1>1, <2>1, QuoteFits, HoursFit
  <2>3. UNCHANGED ride
    BY <1>2 DEF QuoteRide
  <2> QED
    BY <2>2, <2>3, QuotesStayFit DEF FitInv, Fits
<1>3. ASSUME NEW w \in Workers, CreateRide(w) PROVE FitInv'
  <2>1. req[w].pc = "hours" /\ Fits(req[w].quote)
    BY <1>3 DEF CreateRide, At, FitInv
  <2>2. PICK i \in Rides :
          /\ ride' = [ride EXCEPT ![i] = [NoRide EXCEPT
                          !.status = "REQUESTED", !.asked = req[w].turn, !.quote = req[w].quote]]
          /\ Goto(w, [pc |-> "dispatch", turn |-> req[w].turn, ride |-> i])
    BY <1>3 DEF CreateRide
  <2>3. \A j \in Rides : ride'[j].quote = IF j = i THEN req[w].quote ELSE ride[j].quote
    BY <1>1, <2>2 DEF NoRide
  <2>4. \A j \in Rides : ride'[j].quote # None => Fits(ride'[j].quote)
    BY <2>1, <2>3 DEF FitInv
  <2>5. \A x \in Workers : req'[x].pc = "hours" => Fits(req'[x].quote)
    BY <1>1, <2>2, HoursFit
  <2> QED
    BY <2>4, <2>5 DEF FitInv, Fits
<1>4. ASSUME NEW w \in Workers, NEW r, r.pc # "hours", Goto(w, r), UNCHANGED ride PROVE FitInv'
  BY <1>1, <1>4, ElsewhereFits
<1>5. ASSUME NEW w \in Workers, DriverFound(w) \/ NoDriver(w) \/ Save(w) \/ CommitRating(w) PROVE FitInv'
  <2>1. ASSUME NEW i \in Rides PROVE ride'[i].quote = ride[i].quote
    <3>1. ride[i] \in RideRow
      BY <1>1
    <3>2. CASE DriverFound(w) \/ NoDriver(w)
      BY <1>1, <3>1, <3>2 DEF DriverFound, NoDriver, RideRow
    <3>3. CASE Save(w)
      BY <3>1, <3>3 DEF Save, RideRow
    <3>4. CASE CommitRating(w)
      BY <1>1, <3>1, <3>4 DEF CommitRating, RideRow
    <3> QED
      BY <1>5, <3>2, <3>3, <3>4
  <2>2. PICK r : r.pc # "hours" /\ Goto(w, r)
    <3>1. CASE DriverFound(w)
      BY <3>1 DEF DriverFound, Generate
    <3>2. CASE NoDriver(w)
      BY <3>2 DEF NoDriver, Say
    <3>3. CASE Save(w)
      BY <3>3 DEF Save, Idle
    <3>4. CASE CommitRating(w)
      BY <3>4 DEF CommitRating, Idle
    <3> QED
      BY <1>5, <3>1, <3>2, <3>3, <3>4
  <2> QED
    BY <1>1, <2>1, <2>2, ElsewhereFits
<1>6. ASSUME NEW w \in Workers, Extract(w) PROVE FitInv'
  <2>1. PICK r : r.pc # "hours" /\ Goto(w, r)
    <3>1. PICK next \in {"ride", "delivery", "cancellation"} : Goto(w, [pc |-> next, turn |-> req[w].turn])
      BY <1>6 DEF Extract
    <3>2. next # "hours"
      OBVIOUS
    <3>3. [pc |-> next, turn |-> req[w].turn].pc = next
      OBVIOUS
    <3> QED
      BY <3>1, <3>2, <3>3
  <2> QED
    BY <1>4, <1>6, <2>1 DEF Extract
<1>7. ASSUME NEW w \in Workers, Geocode(w) \/ Phrase(w) PROVE FitInv'
  <2>1. req[w] \in Request /\ req[w].pc \in {"ride", "reply"}
    BY <1>1, <1>7 DEF TypeOK, Geocode, Phrase, At
  <2>2. PICK pc \in {"route", "save"} : Goto(w, [req[w] EXCEPT !.pc = pc])
    BY <1>7 DEF Geocode, Phrase
  <2>3. [req[w] EXCEPT !.pc = pc].pc # "hours"
    BY <2>1, <2>2 DEF Request
  <2> QED
    BY <1>4, <1>7, <2>2, <2>3 DEF Geocode, Phrase
<1>8. ASSUME NEW w \in Workers,
             \/ AnswerQuestion(w) \/ Fails(w) \/ RideRefused(w) \/ Closed(w) \/ AskForDetails(w)
             \/ OpenTicket(w) \/ CancelStart(w) \/ NothingToCancel(w) \/ CancelRide(w) \/ StartRelay(w)
      PROVE  FitInv'
  <2>1. PICK r : r.pc # "hours" /\ Goto(w, r)
    BY <1>8 DEF AnswerQuestion, Fails, RideRefused, Closed, AskForDetails, OpenTicket, CancelStart,
                NothingToCancel, CancelRide, StartRelay, Generate, Say, Idle
  <2> QED
    BY <1>4, <1>8, <2>1 DEF AnswerQuestion, Fails, RideRefused, Closed, AskForDetails, OpenTicket, CancelStart,
                            NothingToCancel, CancelRide, StartRelay
<1>9. ASSUME UNCHANGED req, \A i \in Rides : ride'[i].quote = ride[i].quote PROVE FitInv'
  BY <1>9, QuotesStayFit DEF FitInv, Fits
<1>10. ASSUME NEW w \in Workers, Arrive(w) PROVE FitInv'
  <2>1. ASSUME \/ Ask(w)
               \/ \E i \in Rides, by \in Party : RateStart(w, i, by)
               \/ \E d \in Tickets, wants \in Chosen \cup {None} : AdminReply(w, d, wants)
        PROVE  FitInv'
    <3>1. PICK r : r.pc # "hours" /\ Goto(w, r)
      BY <2>1 DEF Ask, RateStart, AdminReply
    <3> QED
      BY <1>4, <2>1, <3>1 DEF Ask, RateStart, AdminReply
  <2>2. ASSUME NEW d \in Tickets, UploadPhoto(w, d) PROVE FitInv'
    BY <1>9, <2>2 DEF UploadPhoto
  <2> QED
    BY <1>10, <2>1, <2>2 DEF Arrive
<1>11. ASSUME NEW i \in Rides, DriverMoves(i) \/ Complete(i) PROVE FitInv'
  <2>1. \A j \in Rides : ride'[j].quote = ride[j].quote
    BY <1>11, DriversKeep DEF Kept
  <2> QED
    BY <1>9, <1>11, <2>1 DEF DriverMoves, Complete
<1>12. ASSUME NEW n \in Reply, Relay(n) \/ RelayFails(n) PROVE FitInv'
  BY <1>9, <1>12 DEF Relay, RelayFails
<1>13. ASSUME Crash PROVE FitInv'
  <2>1. \A x \in Workers : req'[x].pc # "hours"
    BY <1>13 DEF Crash, Idle
  <2>2. UNCHANGED ride
    BY <1>13 DEF Crash
  <2> QED
    BY <2>1, <2>2, QuotesStayFit DEF FitInv, Fits
<1>14. ASSUME NEW w \in Workers, Continue(w) PROVE FitInv'
  BY <1>14, <1>2, <1>3, <1>5, <1>6, <1>7, <1>8 DEF Continue
<1> QED
  BY <1>10, <1>11, <1>12, <1>13, <1>14 DEF Next

\* The card in the chat: measured routes are priced before they are rounded for
\* storage, estimated ones after, and both stay within the slack of what the
\* stored distance and duration cost, for all prices and routes.
THEOREM QuotesAlwaysFitRoute == Spec => []QuoteFitsRoute
<1>1. Init => IInv /\ FitInv
  <2>1. Init => FitInv
    BY DEF Init, FitInv, NoRide, Idle
  <2> QED
    BY <2>1, IInit
<1>2. IInv /\ FitInv /\ [Next]_vars => IInv' /\ FitInv'
  <2>1. ASSUME FitInv, UNCHANGED vars PROVE FitInv'
    BY <2>1 DEF FitInv, Fits, vars
  <2> QED
    BY <2>1, FitNext, INext, IStutter
<1>3. FitInv => QuoteFitsRoute
  BY DEF FitInv, Fits, QuoteFitsRoute
<1> QED
  BY <1>1, <1>2, <1>3, PTL DEF Spec

===============================================================================
