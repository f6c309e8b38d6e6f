---------------------------- MODULE Conversation ----------------------------
(***************************************************************************)
(* One passenger's conversation: the chat turns of AgentService, the rides *)
(* and delivery tickets they create, the administrators' replies and the   *)
(* background tasks that relay them, the photos and the ratings.           *)
(*                                                                         *)
(* A worker is a handler in flight with its own session: what it adds      *)
(* before its commit stays in its request and is lost when the handler     *)
(* fails or the process stops; a handler that awaits nothing between what  *)
(* it reads and its commit is one step.  A turn waits twice for a language *)
(* model, whose answer may be an error.  What drivers do to a ride is      *)
(* module Dispatch; here it is the environment of the conversation.        *)
(***************************************************************************)
EXTENDS Pricing, FiniteSets

CONSTANTS
    Workers,    \* handlers that can be in flight together
    Rides,      \* identifiers rides are given
    Party,      \* who rates a ride, its passenger and its driver: a column each
    Tickets,    \* identifiers delivery tickets are given
    None,       \* no ride, ticket, status or quote
    Routes,     \* <<metres, seconds>> OpenRouteService may answer
    Straight,   \* metres of the straight line, for its time-outs
    Trails,     \* metres of the GPS trails a ride may leave
    Lasted,     \* seconds a completed ride may have lasted
    Chosen,     \* bound: delivery statuses administrators choose
    MaxTurns,   \* bound: chat messages
    MaxReplies  \* bound: replies of administrators

VARIABLES
    messages, \* committed rows of table messages
    ride,     \* rows of table rides
    ticket,   \* rows of table deliveries
    relays,   \* replies that a background task is relaying
    lost,     \* replies whose task failed, died or was never started
    req,      \* the handler each worker is running
    turns,    \* chat messages so far
    replies   \* replies of administrators so far

vars == <<messages, ride, ticket, relays, lost, req, turns, replies>>

-----------------------------------------------------------------------------
(* Rows *)

RideStatus == {"NONE", "REQUESTED", "MATCHED", "ACCEPTED", "DRIVER_ARRIVING",
               "IN_PROGRESS", "COMPLETED", "PAID", "CANCELLED"}

DeliveryStatus == {"PENDING", "UNDER_REVIEW", "NEGOTIATING", "CONFIRMED",
                   "ASSIGNED", "IN_PROGRESS", "COMPLETED", "CANCELLED"}

Resolved == {"COMPLETED", "CANCELLED"}

ASSUME ConversationAssumption ==
    /\ None \notin Rides \cup Tickets \cup DeliveryStatus
    /\ Rides \cap Tickets = {}
    /\ IsFiniteSet(Workers)
    /\ Chosen \subseteq DeliveryStatus
    /\ {MaxTurns, MaxReplies, Straight} \subseteq Nat
    /\ Routes \subseteq Nat \X Nat
    /\ Trails \subseteq Nat /\ Lasted \subseteq Nat

Turn == 1 .. MaxTurns

Reply == 1 .. MaxReplies

Route == [distance : Nat, duration : Nat, fare : Nat]

\* asked and cancelledIn are the turns that created and cancelled the ride;
\* ratings counts the UPDATEs of each party's rating that were committed, the
\* last of which is the one the row keeps.
RideRow == [status : RideStatus, asked : 0 .. MaxTurns, quote : Route \cup {None},
            final : Nat, cancelledIn : 0 .. MaxTurns, ratings : [Party -> Nat]]

NoRide == [status |-> "NONE", asked |-> 0, quote |-> None, final |-> 0,
           cancelledIn |-> 0, ratings |-> [by \in Party |-> 0]]

\* photo stands for the passenger's photo and the administrators', which have
\* a column and an endpoint each.
TicketRow == [status : DeliveryStatus \cup {None}, resolved : BOOLEAN, photo : BOOLEAN]

NoTicket == [status |-> None, resolved |-> FALSE, photo |-> FALSE]

\* A row of table messages: turn is 0 unless a chat turn wrote it, reply is 0
\* unless it is an administrator's message or its relay.
Message == [role : {"user", "agent", "admin"}, turn : 0 .. MaxTurns,
            reply : 0 .. MaxReplies, about : Rides \cup Tickets \cup {None}]

Question(t) == [role |-> "user", turn |-> t, reply |-> 0, about |-> None]

Answer(t, x) == [role |-> "agent", turn |-> t, reply |-> 0, about |-> x]

AdminMessage(n, d) == [role |-> "admin", turn |-> 0, reply |-> n, about |-> d]

Relayed(n, d) == [role |-> "agent", turn |-> 0, reply |-> n, about |-> d]

-----------------------------------------------------------------------------
(* Requests: what a handler keeps between two awaits *)

Request ==
    [pc : {"idle"}]
    \cup [pc : {"extract", "ride", "route", "delivery", "cancellation"}, turn : Turn]
    \cup [pc : {"hours"}, turn : Turn, quote : Route]
    \cup [pc : {"dispatch", "cancel"}, turn : Turn, ride : Rides]
    \cup [pc : {"reply", "save"}, turn : Turn, cancels : Rides \cup {None},
          about : Rides \cup Tickets \cup {None}]
    \cup [pc : {"rate"}, ride : Rides, by : Party]
    \cup [pc : {"task"}, reply : Reply]

Idle == [pc |-> "idle"]

At(w, pc) == req[w].pc = pc

Goto(w, r) == req' = [req EXCEPT ![w] = r]

\* The reply of a turn: written by the language model, or a fixed text.
Generate(w, x) ==
    Goto(w, [pc |-> "reply", turn |-> req[w].turn, cancels |-> None, about |-> x])

Say(w) ==
    Goto(w, [pc |-> "save", turn |-> req[w].turn, cancels |-> None, about |-> None])

TypeOK ==
    /\ messages \subseteq Message
    /\ ride \in [Rides -> RideRow]
    /\ ticket \in [Tickets -> TicketRow]
    /\ relays \subseteq Reply
    /\ lost \subseteq Reply
    /\ req \in [Workers -> Request]
    /\ turns \in 0 .. MaxTurns
    /\ replies \in 0 .. MaxReplies

Init ==
    /\ messages = {}
    /\ ride = [i \in Rides |-> NoRide]
    /\ ticket = [d \in Tickets |-> NoTicket]
    /\ relays = {}
    /\ lost = {}
    /\ req = [w \in Workers |-> Idle]
    /\ turns = 0
    /\ replies = 0

-----------------------------------------------------------------------------
(* A chat turn: the message, what the model makes of it, the handlers *)

Ask(w) ==
    /\ At(w, "idle")
    /\ turns < MaxTurns
    /\ turns' = turns + 1
    /\ Goto(w, [pc |-> "extract", turn |-> turns + 1])
    /\ UNCHANGED <<messages, ride, ticket, relays, lost, replies>>

\* First call of the model, which names the intent.
Extract(w) ==
    /\ At(w, "extract")
    /\ \E pc \in {"ride", "delivery", "cancellation"} :
         Goto(w, [pc |-> pc, turn |-> req[w].turn])
    /\ UNCHANGED <<messages, ride, ticket, relays, lost, turns, replies>>

\* Status inquiries, questions, greetings and unclear messages only read before
\* the second call; an answer that is not JSON or names no known intent counts
\* as unclear.
AnswerQuestion(w) ==
    /\ At(w, "extract")
    /\ Generate(w, None)
    /\ UNCHANGED <<messages, ride, ticket, relays, lost, turns, replies>>

\* A place is missing or unknown, or one of the two services is down.
RideRefused(w) ==
    /\ req[w].pc \in {"ride", "route"}
    /\ Say(w)
    /\ UNCHANGED <<messages, ride, ticket, relays, lost, turns, replies>>

\* Nominatim, or its answer of the last day, knows both places.
Geocode(w) ==
    /\ At(w, "ride")
    /\ Goto(w, [req[w] EXCEPT !.pc = "route"])
    /\ UNCHANGED <<messages, ride, ticket, relays, lost, turns, replies>>

\* Mutant: no estimate stands in for a route that could not be measured.
QuoteRideOrNone(w) ==
    /\ At(w, "route")
    /\ \E quote \in {Measured(r[1], r[2]) : r \in Routes} \cup {None} :
         Goto(w, [pc |-> "hours", turn |-> req[w].turn, quote |-> quote])
    /\ UNCHANGED <<messages, ride, ticket, relays, lost, turns, replies>>

\* The service measures the route or times out; for an hour the answer comes
\* from the cache, which holds what was quoted before.
QuoteRide(w) ==
    /\ At(w, "route")
    /\ \E quote \in {Measured(r[1], r[2]) : r \in Routes} \cup {Estimated(Straight)} :
         Goto(w, [pc |-> "hours", turn |-> req[w].turn, quote |-> quote])
    /\ UNCHANGED <<messages, ride, ticket, relays, lost, turns, replies>>

Closed(w) ==
    /\ At(w, "hours")
    /\ Say(w)
    /\ UNCHANGED <<messages, ride, ticket, relays, lost, turns, replies>>

\* create_ride and the commit that also saves the passenger's message.
CreateRide(w) ==
    /\ At(w, "hours")
    /\ \E i \in Rides :
         /\ ride[i].status = "NONE"
         /\ ride' = [ride EXCEPT ![i] = [NoRide EXCEPT
                         !.status = "REQUESTED", !.asked = req[w].turn, !.quote = req[w].quote]]
         /\ Goto(w, [pc |-> "dispatch", turn |-> req[w].turn, ride |-> i])
    /\ messages' = messages \cup {Question(req[w].turn)}
    /\ UNCHANGED <<ticket, relays, lost, turns, replies>>

\* A cancellation that waits for its reply holds the lock of the ride's row.
Locked(i) == \E w \in Workers : req[w].pc \in {"reply", "save"} /\ req[w].cancels = i

\* dispatch_ride, whose UPDATE does not look at the status again.
DriverFound(w) ==
    /\ At(w, "dispatch")
    /\ ~Locked(req[w].ride)
    /\ ride' = [ride EXCEPT ![req[w].ride].status = "MATCHED"]
    /\ Generate(w, req[w].ride)
    /\ UNCHANGED <<messages, ticket, relays, lost, turns, replies>>

NoDriver(w) ==
    /\ At(w, "dispatch")
    /\ ~Locked(req[w].ride)
    /\ ride' = [ride EXCEPT ![req[w].ride].status = "CANCELLED"]
    /\ Say(w)
    /\ UNCHANGED <<messages, ticket, relays, lost, turns, replies>>

\* Details are missing: asked for in a fixed text, or by the model.
AskForDetails(w) ==
    /\ At(w, "delivery")
    /\ Say(w) \/ Generate(w, None)
    /\ UNCHANGED <<messages, ride, ticket, relays, lost, turns, replies>>

\* create_delivery, in the open transaction, gives the ticket an identifier
\* nobody has.  The push that tells the administrators may reach none of them,
\* and may tell of a ticket that is then rolled back: nothing depends on it.
OpenTicket(w) ==
    /\ At(w, "delivery")
    /\ \E d \in Tickets :
         /\ ticket[d].status = None
         /\ \A v \in Workers : req[v].pc \in {"reply", "save"} => req[v].about # d
         /\ Generate(w, d)
    /\ UNCHANGED <<messages, ride, ticket, relays, lost, turns, replies>>

\* get_active_ride_for_passenger: the newest of the rides that are not over.
ActiveRides ==
    {i \in Rides : ride[i].status \in RideStatus \ {"NONE", "COMPLETED", "PAID", "CANCELLED"}}

Newest == {i \in ActiveRides : \A j \in ActiveRides : ride[j].asked <= ride[i].asked}

CancelStart(w) ==
    /\ At(w, "cancellation")
    /\ \E i \in Newest :
         /\ ride[i].status \in {"REQUESTED", "MATCHED"}
         /\ Goto(w, [pc |-> "cancel", turn |-> req[w].turn, ride |-> i])
    /\ UNCHANGED <<messages, ride, ticket, relays, lost, turns, replies>>

NothingToCancel(w) ==
    /\ At(w, "cancellation")
    /\ \A i \in Newest : ride[i].status \notin {"REQUESTED", "MATCHED"}
    /\ Generate(w, None)
    /\ UNCHANGED <<messages, ride, ticket, relays, lost, turns, replies>>

\* Mutant: cancel_ride commits.
CancelRideAtOnce(w) ==
    /\ At(w, "cancel")
    /\ ~Locked(req[w].ride)
    /\ ride' = [ride EXCEPT ![req[w].ride].status = "CANCELLED",
                            ![req[w].ride].cancelledIn = req[w].turn]
    /\ Generate(w, None)
    /\ UNCHANGED <<messages, ticket, relays, lost, turns, replies>>

\* cancel_ride: the UPDATE is sent, and holds the row until the turn commits.
CancelRide(w) ==
    /\ At(w, "cancel")
    /\ ~Locked(req[w].ride)
    /\ Goto(w, [pc |-> "reply", turn |-> req[w].turn, cancels |-> req[w].ride, about |-> None])
    /\ UNCHANGED <<messages, ride, ticket, relays, lost, turns, replies>>

\* Second call of the model.
Phrase(w) ==
    /\ At(w, "reply")
    /\ Goto(w, [req[w] EXCEPT !.pc = "save"])
    /\ UNCHANGED <<messages, ride, ticket, relays, lost, turns, replies>>

\* The reply is saved and get_db commits the turn.
Save(w) ==
    /\ At(w, "save")
    /\ messages' = messages \cup {Question(req[w].turn), Answer(req[w].turn, req[w].about)}
    /\ ticket' = [d \in Tickets |->
                    IF d = req[w].about THEN [NoTicket EXCEPT !.status = "PENDING"] ELSE ticket[d]]
    /\ ride' = [i \in Rides |->
                  IF i = req[w].cancels
                  THEN [ride[i] EXCEPT !.status = "CANCELLED", !.cancelledIn = req[w].turn]
                  ELSE ride[i]]
    /\ Goto(w, Idle)
    /\ UNCHANGED <<relays, lost, turns, replies>>

-----------------------------------------------------------------------------
(* Administrators' replies and their relay *)

Opened == {d \in Tickets : ticket[d].status # None}

\* Mutant: only a completed delivery is stamped.
StampedIfCompleted(row, wants) ==
    IF wants = None THEN row
    ELSE [row EXCEPT !.status = wants, !.resolved = @ \/ wants = "COMPLETED"]

\* The row after a reply: resolved_at is set with a final status, and stays.
Moved(row, wants) ==
    IF wants = None THEN row
    ELSE [row EXCEPT !.status = wants, !.resolved = @ \/ wants \in Resolved]

\* The message, the status and the audit row are one transaction.
AdminReply(w, d, wants) ==
    /\ At(w, "idle")
    /\ d \in Opened
    /\ replies < MaxReplies
    /\ replies' = replies + 1
    /\ messages' = messages \cup {AdminMessage(replies + 1, d)}
    /\ ticket' = [ticket EXCEPT ![d] = Moved(@, wants)]
    /\ Goto(w, [pc |-> "task", reply |-> replies + 1])
    /\ UNCHANGED <<ride, relays, lost, turns>>

\* Mutant: one task at a time.
StartRelayAlone(w) ==
    /\ At(w, "task")
    /\ relays' = IF relays = {} THEN {req[w].reply} ELSE relays
    /\ Goto(w, Idle)
    /\ UNCHANGED <<messages, ride, ticket, lost, turns, replies>>

\* asyncio.create_task, once the commit is through.
StartRelay(w) ==
    /\ At(w, "task")
    /\ relays' = relays \cup {req[w].reply}
    /\ Goto(w, Idle)
    /\ UNCHANGED <<messages, ride, ticket, lost, turns, replies>>

\* The ticket reply n is about.
About(n) == CHOOSE d \in Tickets : AdminMessage(n, d) \in messages

\* The model phrases the message; a session of its own saves it.
Relay(n) ==
    /\ n \in relays
    /\ messages' = messages \cup {Relayed(n, About(n))}
    /\ relays' = relays \ {n}
    /\ UNCHANGED <<ride, ticket, lost, req, turns, replies>>

\* Any exception is logged and the message is not relayed.
RelayFails(n) ==
    /\ n \in relays
    /\ relays' = relays \ {n}
    /\ lost' = lost \cup {n}
    /\ UNCHANGED <<messages, ride, ticket, req, turns, replies>>

-----------------------------------------------------------------------------
(* Photos of a delivery and ratings of a ride *)

\* Mutant: the photo comes with a new row.
UploadPhotoAsNew(w, d) ==
    /\ At(w, "idle")
    /\ d \in Opened
    /\ ticket' = [ticket EXCEPT ![d] = [NoTicket EXCEPT !.status = "PENDING", !.photo = TRUE]]
    /\ UNCHANGED <<messages, ride, relays, lost, req, turns, replies>>

\* The file is stored and one column updated, whatever became of the ticket
\* since it was looked up; of the push that follows, see OpenTicket.
UploadPhoto(w, d) ==
    /\ At(w, "idle")
    /\ d \in Opened
    /\ ticket' = [ticket EXCEPT ![d].photo = TRUE]
    /\ UNCHANGED <<messages, ride, relays, lost, req, turns, replies>>

\* Mutant: nobody asks whether there is a rating.
RateStartAgain(w, i, by) ==
    /\ At(w, "idle")
    /\ ride[i].status \in {"COMPLETED", "PAID"}
    /\ Goto(w, [pc |-> "rate", ride |-> i, by |-> by])
    /\ UNCHANGED <<messages, ride, ticket, relays, lost, turns, replies>>

RateStart(w, i, by) ==
    /\ At(w, "idle")
    /\ ride[i].status \in {"COMPLETED", "PAID"}
    /\ ride[i].ratings[by] = 0
    /\ Goto(w, [pc |-> "rate", ride |-> i, by |-> by])
    /\ UNCHANGED <<messages, ride, ticket, relays, lost, turns, replies>>

\* The UPDATE does not ask again: it overwrites a rating committed meanwhile.
CommitRating(w) ==
    /\ At(w, "rate")
    /\ ~Locked(req[w].ride)
    /\ ride' = [ride EXCEPT ![req[w].ride].ratings[req[w].by] = @ + 1]
    /\ Goto(w, Idle)
    /\ UNCHANGED <<messages, ticket, relays, lost, turns, replies>>

-----------------------------------------------------------------------------
(* The rides' drivers, failures *)

\* What drivers, tasks and the fare card do to the status once a driver was
\* searched (module Dispatch).  Their UPDATEs do not look at it, so each may come
\* late, a tap of a ride that is over included.  To the conversation REQUESTED is
\* as MATCHED, ACCEPTED and DRIVER_ARRIVING as IN_PROGRESS, PAID as COMPLETED.
Moves == {"MATCHED", "IN_PROGRESS", "CANCELLED"}

DriverMoves(i) ==
    /\ ride[i].status # "NONE"
    /\ ~Locked(i)
    /\ \A w \in Workers : At(w, "dispatch") => req[w].ride # i
    /\ \E status \in Moves : ride' = [ride EXCEPT ![i].status = status]
    /\ UNCHANGED <<messages, ticket, relays, lost, req, turns, replies>>

\* The fare of the trail's segments and of the time the ride lasted; the quote
\* when no point of a trail was recorded.
FinalFares(quote) ==
    {quote.fare} \cup {CalculateFare(metres, seconds) : metres \in Trails, seconds \in Lasted}

Complete(i) ==
    /\ ride[i].status = "IN_PROGRESS"
    /\ ~Locked(i)
    /\ \E fare \in FinalFares(ride[i].quote) :
         ride' = [ride EXCEPT ![i].status = "COMPLETED", ![i].final = fare]
    /\ UNCHANGED <<messages, ticket, relays, lost, req, turns, replies>>

\* An exception - the model, the storage, the database - rolls back what the
\* handler has not committed.  A reply that was committed is lost with the task
\* that was not started.
Fails(w) ==
    /\ ~At(w, "idle")
    /\ lost' = lost \cup {n \in Reply : req[w] = [pc |-> "task", reply |-> n]}
    /\ Goto(w, Idle)
    /\ UNCHANGED <<messages, ride, ticket, relays, turns, replies>>

\* The process stops with its handlers and background tasks.
Crash ==
    /\ lost' = lost \cup relays
              \cup {n \in Reply : \E w \in Workers : req[w] = [pc |-> "task", reply |-> n]}
    /\ relays' = {}
    /\ req' = [w \in Workers |-> Idle]
    /\ UNCHANGED <<messages, ride, ticket, turns, replies>>

-----------------------------------------------------------------------------
Arrive(w) ==
    \/ Ask(w)
    \/ \E d \in Tickets :
         \/ \E wants \in Chosen \cup {None} : AdminReply(w, d, wants)
         \/ UploadPhoto(w, d)
    \/ \E i \in Rides, by \in Party : RateStart(w, i, by)

Continue(w) ==
    \/ Extract(w) \/ AnswerQuestion(w) \/ Phrase(w) \/ Save(w) \/ Fails(w)
    \/ RideRefused(w) \/ Geocode(w) \/ QuoteRide(w) \/ Closed(w)
    \/ CreateRide(w) \/ DriverFound(w) \/ NoDriver(w)
    \/ AskForDetails(w) \/ OpenTicket(w)
    \/ CancelStart(w) \/ NothingToCancel(w) \/ CancelRide(w)
    \/ StartRelay(w) \/ CommitRating(w)

Next ==
    \/ \E w \in Workers : Arrive(w) \/ Continue(w)
    \/ \E n \in Reply : Relay(n) \/ RelayFails(n)
    \/ \E i \in Rides : DriverMoves(i) \/ Complete(i)
    \/ Crash

Spec == Init /\ [][Next]_vars

\* The event loop runs every handler and every task it was given: one that
\* waits for the model gets its answer or the time-out of 30 seconds.
Fairness ==
    /\ \A w \in Workers : WF_vars(Continue(w))
    /\ \A n \in Reply : WF_vars(Relay(n) \/ RelayFails(n))

FairSpec == Spec /\ Fairness

-----------------------------------------------------------------------------
(* Properties *)

\* A turn is saved as a whole, although it spans two calls of the model and
\* pushes in between: no reply without its message, no ticket and no ride
\* cancelled in the chat without the reply that says so, and a message without
\* a reply only if it created a ride (create_ride's commit comes first).
NoHalfTurns ==
    /\ \A t \in Turn, x \in Rides \cup Tickets \cup {None} :
         Answer(t, x) \in messages => Question(t) \in messages
    /\ \A d \in Opened : \E t \in Turn : Answer(t, d) \in messages
    /\ \A i \in Rides : ride[i].cancelledIn # 0 => Answer(ride[i].cancelledIn, None) \in messages
    /\ \A t \in Turn : Question(t) \in messages =>
         \/ \E x \in Rides \cup Tickets \cup {None} : Answer(t, x) \in messages
         \/ \E i \in Rides : ride[i].asked = t

\* However replies and photos of one ticket overlap, a completed or cancelled
\* delivery has its resolved_at.
ResolvedIsStamped == \A d \in Tickets : ticket[d].status \in Resolved => ticket[d].resolved

\* Every fare, quoted or final, is a round amount that reaches the minimum
\* (test_pricing.py), also where the formula ends on a tie of the rounding.
FaresAreClean ==
    \A i \in Rides : ride[i].quote # None =>
        \A fare \in {ride[i].quote.fare} \cup ({ride[i].final} \ {0}) :
            fare % 100 = 0 /\ fare >= MinimumFare

\* The fare on the card is the formula's for the distance and the duration
\* stored beside it, to the nearest 100 and what was lost to their rounding,
\* whether they were measured, estimated or cached.
QuoteFitsRoute ==
    \A i \in Rides : ride[i].quote # None =>
        LET quote == ride[i].quote
            charge == Charge(10 * quote.distance, 6 * quote.duration)
            slack == 52 + RatePerKm \div 200 + RatePerMinute \div 20
        IN  quote.fare \in charge - slack .. charge + slack

\* A party rates a ride once but for the handlers that found it unrated
\* together, each of which overwrites what the one before committed: never more
\* often than handlers are in flight at once.
RatedByReaders == \A i \in Rides, by \in Party : ride[i].ratings[by] <= Cardinality(Workers)

\* What an administrator replies reaches the passenger's thread unless its own
\* handler or relay fails or dies, whatever else is in flight.
ReplyReachesPassenger ==
    \A n \in Reply :
        (\E d \in Tickets : AdminMessage(n, d) \in messages)
            ~> (n \in lost \/ \E d \in Tickets : Relayed(n, d) \in messages)

-----------------------------------------------------------------------------
(* The conversation implements the helpdesk *)

Said == {n \in Reply : \E d \in Tickets : AdminMessage(n, d) \in messages}

Desk == INSTANCE Helpdesk WITH
    Replies <- Reply,
    Statuses <- DeliveryStatus,
    Pending <- "PENDING",
    ticket <- [d \in Opened |-> ticket[d].status],
    said <- [n \in Said |-> About(n)],
    heard <- {n \in Reply : \E d \in Tickets : Relayed(n, d) \in messages}

\* A ticket that opened is never lost, nor does a second turn or a photo take it
\* back to where it began: only administrators move it on, and the passenger hears
\* their messages only, each after it was committed.
RefinesHelpdesk == Desk!Spec

=============================================================================
