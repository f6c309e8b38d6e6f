--------------------------- MODULE HelpdeskProofs ---------------------------
(***************************************************************************)
(* Conversation implements Helpdesk, for any number of handlers, tickets   *)
(* and replies.  DeskInv is what the refinement mapping needs: who may     *)
(* still open a ticket, and which replies were sent.                       *)
(***************************************************************************)
EXTENDS ConversationProofs

\* Worker w carries the new ticket d to the commit of its turn.
Opens(w, d) == req[w].pc \in {"reply", "save"} /\ req[w].about = d

DeskInv ==
    /\ \A w \in Workers, d \in Tickets : Opens(w, d) =>
         d \notin Opened /\ \A v \in Workers : Opens(v, d) => v = w
    /\ \A n \in Reply, d \in Tickets : AdminMessage(n, d) \in messages =>
         n <= replies /\ \A e \in Tickets : AdminMessage(n, e) \in messages => e = d

\* What a step adds to the messages of administrators and their relays, to the
\* statuses and to the tickets on their way, when it adds nothing.
DeskUntouched ==
    /\ UNCHANGED replies
    /\ \A n \in Reply, d \in Tickets :
         /\ AdminMessage(n, d) \in messages' <=> AdminMessage(n, d) \in messages
         /\ Relayed(n, d) \in messages' <=> Relayed(n, d) \in messages
    /\ \A d \in Tickets : ticket'[d].status = ticket[d].status
    /\ \A w \in Workers, d \in Tickets : Opens(w, d)' => Opens(w, d)

-----------------------------------------------------------------------------
(* Messages and the tickets they are about *)

LEMMA DeskKinds ==
    ASSUME NEW t \in Turn, NEW n, NEW m, NEW d, NEW e, NEW x
    PROVE  /\ AdminMessage(n, d) \notin {Question(t), Answer(t, x), Relayed(m, e)}
           /\ Relayed(n, d) \notin {Question(t), Answer(t, x), AdminMessage(m, e)}
           /\ AdminMessage(n, d) = AdminMessage(m, e) => n = m /\ d = e
           /\ Relayed(n, d) = Relayed(m, e) => n = m /\ d = e
<1>1. t # 0
  BY DEF Turn
<1>2. /\ AdminMessage(n, d).role = "admin" /\ AdminMessage(n, d).reply = n /\ AdminMessage(n, d).about = d
      /\ AdminMessage(m, e).role = "admin" /\ AdminMessage(m, e).reply = m /\ AdminMessage(m, e).about = e
      /\ Relayed(n, d).role = "agent" /\ Relayed(n, d).turn = 0
      /\ Relayed(n, d).reply = n /\ Relayed(n, d).about = d
      /\ Relayed(m, e).role = "agent" /\ Relayed(m, e).reply = m /\ Relayed(m, e).about = e
      /\ Question(t).role = "user" /\ Answer(t, x).role = "agent" /\ Answer(t, x).turn = t
  BY DEF Question, Answer, AdminMessage, Relayed
<1> QED
  BY <1>1, <1>2

\* A reply is about the one ticket its message names.
LEMMA AboutIs ==
    ASSUME NEW msgs, NEW n, NEW d \in Tickets, AdminMessage(n, d) \in msgs,
           \A e \in Tickets : AdminMessage(n, e) \in msgs => e = d
    PROVE  (CHOOSE e \in Tickets : AdminMessage(n, e) \in msgs) = d
<1> HIDE DEF AdminMessage
<1>1. \E e \in Tickets : AdminMessage(n, e) \in msgs
  OBVIOUS
<1> QED
  BY <1>1

-----------------------------------------------------------------------------
(* Steps that do not touch the desk *)

\* The tickets on their way after a handler went on.
LEMMA OpensGoto ==
    ASSUME IInv, NEW w \in Workers, NEW r, Goto(w, r),
           \A d \in Tickets : r.pc \in {"reply", "save"} /\ r.about = d => Opens(w, d)
    PROVE  \A v \in Workers, d \in Tickets : Opens(v, d)' => Opens(v, d)
<1>1. req \in [Workers -> Request] /\ req' = [req EXCEPT ![w] = r]
  BY DEF IInv, TypeOK, Goto
<1>2. \A v \in Workers : req'[v] = IF v = w THEN r ELSE req[v]
  BY <1>1
<1> QED
  BY <1>2 DEF Opens

LEMMA UntouchedKeeps == ASSUME IInv, DeskInv, DeskUntouched PROVE DeskInv'
<1>1. Opened' = Opened
  BY DEF DeskUntouched, Opened
<1>2. \A w \in Workers, d \in Tickets : Opens(w, d)' =>
        d \notin Opened' /\ \A v \in Workers : Opens(v, d)' => v = w
  BY <1>1 DEF DeskUntouched, DeskInv
<1>3. \A n \in Reply, d \in Tickets : AdminMessage(n, d) \in messages' =>
        n <= replies' /\ \A e \in Tickets : AdminMessage(n, e) \in messages' => e = d
  BY DEF DeskUntouched, DeskInv
<1> QED
  BY <1>2, <1>3 DEF DeskInv

\* The tickets replies are about stay the same when their messages do.
LEMMA SaidStays ==
    ASSUME DeskInv, DeskInv',
           \A n \in Reply, d \in Tickets :
               AdminMessage(n, d) \in messages' <=> AdminMessage(n, d) \in messages
    PROVE  Said' = Said /\ [n \in Said' |-> About(n)'] = [n \in Said |-> About(n)]
<1>1. Said' = Said
  BY DEF Said
<1>2. ASSUME NEW n \in Said PROVE About(n)' = About(n)
  <2>1. PICK d \in Tickets : AdminMessage(n, d) \in messages
    BY DEF Said
  <2>2. n \in Reply
    BY DEF Said
  <2>3. About(n) = d
    BY <2>1, <2>2, AboutIs DEF About, DeskInv
  <2>4. About(n)' = d
    BY <2>1, <2>2, AboutIs DEF About, DeskInv
  <2> QED
    BY <2>3, <2>4
<1> QED
  BY <1>1, <1>2

LEMMA UntouchedStutters == ASSUME IInv, DeskInv, DeskInv', DeskUntouched PROVE UNCHANGED Desk!vars
<1>1. [n \in Said' |-> About(n)'] = [n \in Said |-> About(n)]
  BY SaidStays DEF DeskUntouched
<1>2. Opened' = Opened
  BY DEF DeskUntouched, Opened
<1>3. [d \in Opened' |-> ticket'[d].status] = [d \in Opened |-> ticket[d].status]
  BY <1>2 DEF DeskUntouched, Opened
<1>4. {n \in Reply : \E d \in Tickets : Relayed(n, d) \in messages'}
        = {n \in Reply : \E d \in Tickets : Relayed(n, d) \in messages}
  BY DEF DeskUntouched
<1> QED
  BY <1>1, <1>3, <1>4 DEF Desk!vars, DeskUntouched

-----------------------------------------------------------------------------
(* The steps of the desk *)

\* create_delivery: a turn carries ticket d, which nobody else has.
LEMMA OpenTicketKeeps ==
    ASSUME IInv, DeskInv, NEW w \in Workers, OpenTicket(w)
    PROVE  DeskInv' /\ UNCHANGED Desk!vars
<1>1. PICK d \in Tickets :
        /\ ticket[d].status = None /\ \A v \in Workers : ~Opens(v, d)
        /\ Goto(w, [pc |-> "reply", turn |-> req[w].turn, cancels |-> None, about |-> d])
  BY DEF OpenTicket, Generate, Opens
<1>2. UNCHANGED <<messages, ticket, replies>>
  BY DEF OpenTicket
<1>3. ASSUME NEW v \in Workers, NEW e \in Tickets, Opens(v, e)'
      PROVE  IF v = w THEN e = d ELSE Opens(v, e)
  <2>1. req \in [Workers -> Request]
    BY DEF IInv, TypeOK
  <2> QED
    BY <1>1, <1>3, <2>1 DEF Goto, Opens
<1>4. Opened' = Opened /\ d \notin Opened
  BY <1>1, <1>2 DEF Opened
<1>5. DeskInv'
  <2>1. ASSUME NEW v \in Workers, NEW e \in Tickets, Opens(v, e)'
        PROVE  e \notin Opened' /\ \A u \in Workers : Opens(u, e)' => u = v
    <3>1. CASE e = d
      BY <1>1, <1>3, <1>4, <2>1, <3>1
    <3>2. CASE e # d
      BY <1>1, <1>3, <1>4, <2>1, <3>2 DEF DeskInv
    <3> QED
      BY <3>1, <3>2
  <2> QED
    BY <1>2, <2>1 DEF DeskInv
<1>6. [n \in Said' |-> About(n)'] = [n \in Said |-> About(n)]
  BY <1>2, <1>5, SaidStays
<1>7. [e \in Opened' |-> ticket'[e].status] = [e \in Opened |-> ticket[e].status]
  BY <1>2, <1>4
<1> QED
  BY <1>2, <1>5, <1>6, <1>7 DEF Desk!vars

\* The commit of a turn with a new ticket d opens it.
LEMMA SaveOpens ==
    ASSUME IInv, DeskInv, NEW w \in Workers, Save(w), req[w].about \in Tickets
    PROVE  DeskInv' /\ \E d \in Tickets : Desk!Open(d)
<1>0. PICK d \in Tickets : d = req[w].about
  OBVIOUS
<1> DEFINE t == req[w].turn
<1>1. t \in Turn /\ Opens(w, d)
  BY <1>0, Carried DEF Save, At, Opens
<1>2. /\ messages' = messages \cup {Question(t), Answer(t, d)}
      /\ ticket' = [e \in Tickets |-> IF e = d THEN [NoTicket EXCEPT !.status = "PENDING"] ELSE ticket[e]]
      /\ Goto(w, Idle) /\ UNCHANGED <<relays, replies>>
  BY <1>0 DEF Save
<1>3. \A n \in Reply, e \in Tickets :
        /\ AdminMessage(n, e) \in messages' <=> AdminMessage(n, e) \in messages
        /\ Relayed(n, e) \in messages' <=> Relayed(n, e) \in messages
  BY <1>1, <1>2, DeskKinds
<1>4. \A v \in Workers, e \in Tickets : Opens(v, e)' => Opens(v, e) /\ v # w
  <2>1. req \in [Workers -> Request]
    BY DEF IInv, TypeOK
  <2>2. Idle.pc \notin {"reply", "save"}
    BY DEF Idle
  <2> QED
    BY <1>2, <2>1, <2>2 DEF Goto, Opens
<1>5. /\ d \notin Opened
      /\ \A v \in Workers : Opens(v, d) => v = w
  BY <1>1 DEF DeskInv
<1>6. \A e \in Tickets : ticket'[e].status = IF e = d THEN "PENDING" ELSE ticket[e].status
  <2>1. [NoTicket EXCEPT !.status = "PENDING"].status = "PENDING"
    BY DEF NoTicket
  <2> QED
    BY <1>2, <2>1
<1>7. Opened' = Opened \cup {d}
  <2>1. "PENDING" # None
    BY ConversationAssumption DEF DeliveryStatus
  <2> QED
    BY <1>6, <2>1 DEF Opened
<1>8. DeskInv'
  <2>1. \A v \in Workers, e \in Tickets : Opens(v, e)' =>
          e \notin Opened' /\ \A u \in Workers : Opens(u, e)' => u = v
    BY <1>2, <1>4, <1>5, <1>7 DEF DeskInv
  <2> QED
    BY <1>2, <1>3, <2>1 DEF DeskInv
<1>9. Desk!Open(d)
  <2>1. [n \in Said' |-> About(n)'] = [n \in Said |-> About(n)]
    BY <1>3, <1>8, SaidStays
  <2>2. [e \in Opened' |-> ticket'[e].status]
          = [e \in Opened \cup {d} |-> IF e = d THEN "PENDING" ELSE [f \in Opened |-> ticket[f].status][e]]
    BY <1>6, <1>7 DEF Opened
  <2>3. {n \in Reply : \E e \in Tickets : Relayed(n, e) \in messages'}
          = {n \in Reply : \E e \in Tickets : Relayed(n, e) \in messages}
    BY <1>3
  <2> QED
    BY <1>2, <1>5, <2>1, <2>2, <2>3 DEF Desk!Open
<1> QED
  BY <1>8, <1>9

\* reply_to_delivery sends the next reply, about d.
LEMMA AdminReplySays ==
    ASSUME IInv, DeskInv, NEW w \in Workers, NEW d \in Tickets, NEW wants \in Chosen \cup {None},
           AdminReply(w, d, wants)
    PROVE  DeskInv' /\ Desk!Say(replies + 1, d)
<1> DEFINE m == replies + 1
<1>1. /\ replies \in Nat /\ m \in Reply /\ replies' = m
      /\ messages' = messages \cup {AdminMessage(m, d)}
      /\ d \in Opened /\ Goto(w, [pc |-> "task", reply |-> m])
  BY ConversationAssumption DEF AdminReply, IInv, TypeOK, Reply
<1>2. /\ \A e \in Tickets \ {d} : ticket'[e] = ticket[e]
      /\ ticket'[d].status \in DeliveryStatus
  <2>1. ticket \in [Tickets -> TicketRow] /\ wants \in DeliveryStatus \cup {None} /\ ticket[d].status # None
    BY <1>1, ConversationAssumption DEF IInv, TypeOK, Opened
  <2>2. ticket' = [ticket EXCEPT ![d] = Moved(ticket[d], wants)]
    BY DEF AdminReply
  <2>3. Moved(ticket[d], wants) \in TicketRow /\ Moved(ticket[d], wants).status # None
    BY <2>1, MovedType
  <2> QED
    BY <2>1, <2>2, <2>3 DEF TicketRow
<1>3. Opened' = Opened
  <2>1. None \notin DeliveryStatus
    BY ConversationAssumption
  <2> QED
    BY <1>1, <1>2, <2>1 DEF Opened
<1>4. \A n \in Reply, e \in Tickets :
        /\ AdminMessage(n, e) \in messages' <=> AdminMessage(n, e) \in messages \/ (n = m /\ e = d)
        /\ Relayed(n, e) \in messages' <=> Relayed(n, e) \in messages
  <2>1. \A n, k, e, f : /\ Relayed(n, e) # AdminMessage(k, f)
                        /\ AdminMessage(n, e) = AdminMessage(k, f) => n = k /\ e = f
    BY DEF Relayed, AdminMessage
  <2> QED
    BY <1>1, <2>1
<1>5. \A e \in Tickets : AdminMessage(m, e) \notin messages
  BY <1>1 DEF DeskInv
<1>6. DeskInv'
  <2>1. \A v \in Workers, e \in Tickets : Opens(v, e)' => Opens(v, e)
    BY <1>1, OpensGoto
  <2>2. \A v \in Workers, e \in Tickets : Opens(v, e)' =>
          e \notin Opened' /\ \A u \in Workers : Opens(u, e)' => u = v
    BY <1>3, <2>1 DEF DeskInv
  <2>3. \A n \in Reply, e \in Tickets : AdminMessage(n, e) \in messages' =>
          n <= replies' /\ \A f \in Tickets : AdminMessage(n, f) \in messages' => f = e
    BY <1>1, <1>4, <1>5 DEF DeskInv, Reply
  <2> QED
    BY <2>2, <2>3 DEF DeskInv
<1>7. Desk!Say(m, d)
  <2>1. m \notin Said /\ Said' = Said \cup {m}
    BY <1>1, <1>4, <1>5 DEF Said
  <2>2. ASSUME NEW n \in Said' PROVE About(n)' = IF n = m THEN d ELSE About(n)
    <3>1. n \in Reply
      BY DEF Said
    <3>2. PICK e \in Tickets : AdminMessage(n, e) \in messages'
      BY DEF Said
    <3>3. About(n)' = e
      BY <1>6, <3>1, <3>2, AboutIs DEF About, DeskInv
    <3>4. CASE n = m
      BY <1>4, <1>5, <3>1, <3>2, <3>3, <3>4
    <3>5. CASE n # m
      <4>1. AdminMessage(n, e) \in messages
        BY <1>4, <3>1, <3>2, <3>5
      <4>2. About(n) = e
        BY <3>1, <4>1, AboutIs DEF About, DeskInv
      <4> QED
        BY <3>3, <3>5, <4>2
    <3> QED
      BY <3>4, <3>5
  <2>3. [n \in Said' |-> About(n)']
          = [n \in Said \cup {m} |-> IF n = m THEN d ELSE [k \in Said |-> About(k)][n]]
    BY <2>1, <2>2
  <2>4. [e \in Opened' |-> ticket'[e].status]
          = [[e \in Opened |-> ticket[e].status] EXCEPT ![d] = ticket'[d].status]
    BY <1>1, <1>2, <1>3 DEF Opened
  <2>5. {n \in Reply : \E e \in Tickets : Relayed(n, e) \in messages'}
          = {n \in Reply : \E e \in Tickets : Relayed(n, e) \in messages}
    BY <1>4
  <2> QED
    BY <1>1, <1>2, <2>1, <2>3, <2>4, <2>5 DEF Desk!Say
<1> QED
  BY <1>6, <1>7

\* _relay_admin_message: the passenger hears reply n.
LEMMA RelayHeard ==
    ASSUME IInv, DeskInv, NEW n \in Reply, Relay(n)
    PROVE  DeskInv' /\ (Desk!Hear(n) \/ UNCHANGED Desk!vars)
<1> DEFINE Heard == {k \in Reply : \E e \in Tickets : Relayed(k, e) \in messages}
<1>1. n \in relays /\ relays' = relays \ {n} /\ UNCHANGED <<ticket, req, replies>>
  BY DEF Relay
<1>2. PICK d \in Tickets : AdminMessage(n, d) \in messages
  BY <1>1 DEF IInv, RelayInv
<1>3. About(n) = d
  BY <1>2, AboutIs DEF About, DeskInv
<1>4. messages' = messages \cup {Relayed(n, d)}
  BY <1>3 DEF Relay
<1>5. \A k \in Reply, e \in Tickets :
        /\ AdminMessage(k, e) \in messages' <=> AdminMessage(k, e) \in messages
        /\ Relayed(k, e) \in messages' <=> Relayed(k, e) \in messages \/ (k = n /\ e = d)
  <2>1. \A k, j, e, f : /\ Relayed(k, e) # AdminMessage(j, f)
                        /\ Relayed(k, e) = Relayed(j, f) => k = j /\ e = f
    BY DEF Relayed, AdminMessage
  <2> QED
    BY <1>4, <2>1
<1>6. DeskInv'
  <2>1. Opened' = Opened
    BY <1>1 DEF Opened
  <2>2. \A v \in Workers, e \in Tickets : Opens(v, e)' =>
          e \notin Opened' /\ \A u \in Workers : Opens(u, e)' => u = v
    BY <1>1, <2>1 DEF DeskInv, Opens
  <2>3. \A k \in Reply, e \in Tickets : AdminMessage(k, e) \in messages' =>
          k <= replies' /\ \A f \in Tickets : AdminMessage(k, f) \in messages' => f = e
    BY <1>1, <1>5 DEF DeskInv
  <2> QED
    BY <2>2, <2>3 DEF DeskInv
<1>7. n \in Said /\ Heard' = Heard \cup {n}
  BY <1>1, <1>2, <1>5 DEF Said
<1>8. [k \in Said' |-> About(k)'] = [k \in Said |-> About(k)]
  BY <1>5, <1>6, SaidStays
<1>9. [e \in Opened' |-> ticket'[e].status] = [e \in Opened |-> ticket[e].status]
  BY <1>1 DEF Opened
<1>10. CASE n \in Heard
  BY <1>6, <1>7, <1>8, <1>9, <1>10 DEF Desk!vars
<1>11. CASE n \notin Heard
  BY <1>6, <1>7, <1>8, <1>9, <1>11 DEF Desk!Hear
<1> QED
  BY <1>10, <1>11

-----------------------------------------------------------------------------
(* All steps *)

LEMMA DeskInit == Init => DeskInv /\ Desk!Init
<1> SUFFICES ASSUME Init PROVE DeskInv /\ Desk!Init
  OBVIOUS
<1>1. Opened = {} /\ Said = {}
  BY DEF Init, Opened, NoTicket, Said
<1>2. DeskInv
  BY <1>1 DEF Init, DeskInv, Opens, Idle
<1>3. Desk!Init
  <2>1. [d \in Opened |-> ticket[d].status] = [d \in {} |-> "PENDING"]
    BY <1>1
  <2>2. [n \in Said |-> About(n)] = [n \in {} |-> CHOOSE d \in Tickets : TRUE]
    BY <1>1
  <2>3. {n \in Reply : \E d \in Tickets : Relayed(n, d) \in messages} = {}
    BY DEF Init
  <2> QED
    BY <2>1, <2>2, <2>3 DEF Init, Desk!Init
<1> QED
  BY <1>2, <1>3

\* What handlers do to rides, photos and replies under way is not the desk's.
LEMMA ArriveUntouched ==
    ASSUME IInv, NEW w \in Workers, Arrive(w)
    PROVE  \/ \E d \in Tickets, wants \in Chosen \cup {None} : AdminReply(w, d, wants)
           \/ DeskUntouched
<1>1. CASE Ask(w)
  <2>1. Goto(w, [pc |-> "extract", turn |-> turns + 1])
    BY <1>1 DEF Ask
  <2>2. \A v \in Workers, d \in Tickets : Opens(v, d)' => Opens(v, d)
    BY <2>1, OpensGoto
  <2> QED
    BY <1>1, <2>2 DEF Ask, DeskUntouched
<1>2. ASSUME NEW d \in Tickets, UploadPhoto(w, d) PROVE DeskUntouched
  <2>1. \A e \in Tickets : ticket'[e].status = ticket[e].status
    BY <1>2 DEF UploadPhoto, IInv, TypeOK, TicketRow
  <2> QED
    BY <1>2, <2>1 DEF UploadPhoto, DeskUntouched, Opens
<1>3. ASSUME NEW i \in Rides, NEW by \in Party, RateStart(w, i, by) PROVE DeskUntouched
  <2>1. Goto(w, [pc |-> "rate", ride |-> i, by |-> by])
    BY <1>3 DEF RateStart
  <2>2. \A v \in Workers, d \in Tickets : Opens(v, d)' => Opens(v, d)
    BY <2>1, OpensGoto
  <2> QED
    BY <1>3, <2>2 DEF RateStart, DeskUntouched
<1> QED
  BY <1>1, <1>2, <1>3 DEF Arrive

LEMMA ContinueUntouched ==
    ASSUME IInv, NEW w \in Workers, Continue(w)
    PROVE  \/ OpenTicket(w)
           \/ Save(w) /\ req[w].about \in Tickets
           \/ DeskUntouched
<1> DEFINE t == req[w].turn
\* A handler that neither carries a new ticket nor answers an administrator.
<1>1. ASSUME NEW r, Goto(w, r),
             \A d \in Tickets : r.pc \in {"reply", "save"} /\ r.about = d => Opens(w, d),
             UNCHANGED <<ticket, replies>>,
             \/ messages' = messages
             \/ t \in Turn /\ messages' \subseteq messages \cup {Question(t), Answer(t, req[w].about)}
                  /\ messages \subseteq messages'
      PROVE  DeskUntouched
  <2>1. \A v \in Workers, d \in Tickets : Opens(v, d)' => Opens(v, d)
    BY <1>1, OpensGoto
  <2>2. \A n \in Reply, d \in Tickets :
          /\ AdminMessage(n, d) \in messages' <=> AdminMessage(n, d) \in messages
          /\ Relayed(n, d) \in messages' <=> Relayed(n, d) \in messages
    BY <1>1, DeskKinds
  <2> QED
    BY <1>1, <2>1, <2>2 DEF DeskUntouched
<1>2. \A i \in Rides \cup {None} : i \notin Tickets
  BY ConversationAssumption
<1>3. CASE Extract(w) \/ QuoteRide(w) \/ CancelStart(w) \/ Geocode(w)
  <2>1. PICK r : Goto(w, r) /\ r.pc \notin {"reply", "save"}
    <3>1. CASE Geocode(w)
      <4>1. req[w] \in Request /\ req[w].pc = "ride"
        BY <3>1, Carried DEF Geocode, At
      <4>2. [req[w] EXCEPT !.pc = "route"].pc = "route"
        BY <4>1 DEF Request
      <4> QED
        BY <3>1, <4>2 DEF Geocode
    <3>2. CASE Extract(w)
      BY <3>2 DEF Extract
    <3>3. CASE QuoteRide(w)
      BY <3>3 DEF QuoteRide
    <3>4. CASE CancelStart(w)
      BY <3>4 DEF CancelStart
    <3> QED
      BY <1>3, <3>1, <3>2, <3>3, <3>4
  <2> QED
    BY <1>1, <1>3, <2>1 DEF Extract, QuoteRide, CancelStart, Geocode
<1>4. CASE \/ AnswerQuestion(w) \/ RideRefused(w) \/ Closed(w) \/ AskForDetails(w)
           \/ NothingToCancel(w) \/ CancelRide(w)
  <2>1. PICK r : Goto(w, r) /\ r.about = None
    BY <1>4 DEF AnswerQuestion, RideRefused, Closed, AskForDetails, NothingToCancel, CancelRide, Generate, Say
  <2> QED
    BY <1>1, <1>2, <1>4, <2>1
       DEF AnswerQuestion, RideRefused, Closed, AskForDetails, NothingToCancel, CancelRide
<1>5. CASE DriverFound(w) \/ NoDriver(w)
  <2>1. req[w].ride \in Rides
    BY <1>5, Carried DEF DriverFound, NoDriver, At
  <2>2. PICK r : Goto(w, r) /\ r.about \in Rides \cup {None}
    BY <1>5, <2>1 DEF DriverFound, NoDriver, Generate, Say
  <2> QED
    BY <1>1, <1>2, <1>5, <2>2 DEF DriverFound, NoDriver
<1>6. CASE CreateRide(w)
  <2>1. t \in Turn
    BY <1>6, Carried DEF CreateRide, At
  <2>2. PICK r : Goto(w, r) /\ r.pc = "dispatch"
    BY <1>6 DEF CreateRide
  <2> QED
    BY <1>1, <1>6, <2>1, <2>2 DEF CreateRide
<1>7. CASE Phrase(w)
  <2>1. req[w] \in Request /\ req[w].pc = "reply"
    BY <1>7, Carried DEF Phrase, At
  <2>2. [req[w] EXCEPT !.pc = "save"].about = req[w].about
    BY <2>1 DEF Request
  <2>3. \A d \in Tickets : [req[w] EXCEPT !.pc = "save"].about = d => Opens(w, d)
    BY <2>1, <2>2 DEF Opens
  <2> QED
    BY <1>1, <1>7, <2>3 DEF Phrase
<1>8. CASE Save(w) /\ req[w].about \notin Tickets
  <2>1. t \in Turn
    BY <1>8, Carried DEF Save, At
  <2>2. ticket' = ticket
    <3>1. ticket \in [Tickets -> TicketRow]
      BY DEF IInv, TypeOK
    <3>2. ticket' = [d \in Tickets |->
                       IF d = req[w].about THEN [NoTicket EXCEPT !.status = "PENDING"] ELSE ticket[d]]
      BY <1>8 DEF Save
    <3>3. ticket' = [d \in Tickets |-> ticket[d]]
      BY <1>8, <3>2
    <3> QED
      BY <3>1, <3>3
  <2>3. Goto(w, Idle) /\ Idle.pc = "idle"
    BY <1>8 DEF Save, Idle
  <2> QED
    BY <1>1, <1>8, <2>1, <2>2, <2>3 DEF Save
<1>9. CASE Fails(w) \/ StartRelay(w) \/ CommitRating(w)
  <2>1. Goto(w, Idle) /\ Idle.pc = "idle"
    BY <1>9 DEF Fails, StartRelay, CommitRating, Idle
  <2> QED
    BY <1>1, <1>9, <2>1 DEF Fails, StartRelay, CommitRating
<1> QED
  BY <1>3, <1>4, <1>5, <1>6, <1>7, <1>8, <1>9 DEF Continue

LEMMA DeskNext == ASSUME IInv, DeskInv, Next PROVE DeskInv' /\ [Desk!Next]_(Desk!vars)
<1>1. ASSUME DeskUntouched PROVE DeskInv' /\ UNCHANGED Desk!vars
  BY <1>1, UntouchedKeeps, UntouchedStutters
<1>2. ASSUME NEW w \in Workers, Arrive(w) PROVE DeskInv' /\ [Desk!Next]_(Desk!vars)
  <2>1. ASSUME NEW d \in Tickets, NEW wants \in Chosen \cup {None}, AdminReply(w, d, wants)
        PROVE  DeskInv' /\ Desk!Next
    <3>1. DeskInv' /\ Desk!Say(replies + 1, d)
      BY <2>1, AdminReplySays
    <3>2. replies + 1 \in Reply
      BY <2>1, ConversationAssumption DEF AdminReply, IInv, TypeOK, Reply
    <3> QED
      BY <3>1, <3>2 DEF Desk!Next
  <2> QED
    BY <1>1, <1>2, <2>1, ArriveUntouched
<1>3. ASSUME NEW w \in Workers, Continue(w) PROVE DeskInv' /\ [Desk!Next]_(Desk!vars)
  <2>1. CASE OpenTicket(w)
    BY <2>1, OpenTicketKeeps
  <2>2. CASE Save(w) /\ req[w].about \in Tickets
    BY <2>2, SaveOpens DEF Desk!Next
  <2> QED
    BY <1>1, <1>3, <2>1, <2>2, ContinueUntouched
<1>4. ASSUME NEW n \in Reply, Relay(n) PROVE DeskInv' /\ [Desk!Next]_(Desk!vars)
  BY <1>4, RelayHeard DEF Desk!Next
<1>5. ASSUME \/ \E n \in Reply : RelayFails(n)
             \/ \E i \in Rides : DriverMoves(i) \/ Complete(i)
      PROVE  DeskUntouched
  BY <1>5 DEF RelayFails, DriverMoves, Complete, DeskUntouched, Opens
<1>6. CASE Crash
  <2>1. \A w \in Workers : req'[w].pc = "idle"
    BY <1>6 DEF Crash, Idle
  <2>2. DeskUntouched
    BY <1>6, <2>1 DEF Crash, DeskUntouched, Opens
  <2> QED
    BY <1>1, <2>2
<1> QED
  BY <1>1, <1>2, <1>3, <1>4, <1>5, <1>6 DEF Next

\* Conversation implements Helpdesk: however chat turns, administrators and
\* background tasks overlap, fail or die, a ticket that opened stays, only
\* administrators move it on, and nothing but their replies is heard, each
\* after it was committed.
THEOREM ConversationImplementsHelpdesk == Spec => RefinesHelpdesk
<1>1. Init => IInv /\ DeskInv /\ Desk!Init
  BY IInit, DeskInit
<1>2. IInv /\ DeskInv /\ [Next]_vars => IInv' /\ DeskInv' /\ [Desk!Next]_(Desk!vars)
  <2>1. ASSUME IInv, DeskInv, UNCHANGED vars PROVE DeskUntouched
    BY <2>1 DEF vars, DeskUntouched, Opens
  <2> QED
    BY <2>1, UntouchedKeeps, UntouchedStutters, DeskNext, INext, IStutter
<1> QED
  BY <1>1, <1>2, PTL DEF Spec, RefinesHelpdesk, Desk!Spec

=============================================================================
