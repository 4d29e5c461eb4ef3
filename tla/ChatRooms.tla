----------------------------- MODULE ChatRooms -----------------------------
(***************************************************************************)
(* The chat rooms of one listing: opening a room and the interest counter  *)
(* of the listing, the messages with the denormalized snapshot of the room *)
(* (last message, two unread counters), idempotency keys, and the pages in *)
(* which a room is read.                                                   *)
(*                                                                         *)
(* As in ChatTransactions, a handler is a sequence of steps that end at its *)
(* awaits; a $transaction reads without locks and its writes become visible *)
(* together.  A room is named after its buyer: listing, buyer and seller   *)
(* are a unique key.  createdAt is a number taken when the row is inserted, *)
(* before the commit.                                                      *)
(*                                                                         *)
(* Left out, because here they only refuse a handler: the status of the    *)
(* listing (see ChatTransactions), the keyword filter (Moderation), rate   *)
(* limits (LiveLocation), banned accounts (Accounts), and blocks between   *)
(* users.  Contents and realtime events are left out too.                  *)
(***************************************************************************)
EXTENDS Integers, FiniteSetsExt, SequencesExt

CONSTANTS
    Buyers,         \* the users who may open a room
    Seller,         \* the seller of the listing
    Chatting,       \* the buyers in whose rooms messages are sent and read
    Resending,      \* the users whose client sends an idempotency key
    Slots,          \* handlers that can be in flight at the same time
    Keys,           \* idempotency keys that a client can choose
    NoKey,          \* idempotencyKey = undefined
    MaxMessage,     \* bound on the messages that are inserted
    MaxLease,       \* bound on the reservations of a key
    MaxHidden,      \* bound on the messages that are hidden
    PageSize,       \* take, of the pages of a room
    ThresholdStep,  \* the buyers between two reminders, 5 in the code
    MayCrash        \* can a process die between two steps of a handler?

Users == Buyers \cup {Seller}

ASSUME UsersAssumption ==
    Seller \notin Buyers /\ Chatting \subseteq Buyers /\ Resending \subseteq Users
ASSUME KeyAssumption == NoKey \notin Keys
ASSUME BoundsAssumption ==
    /\ MaxMessage \in Nat /\ MaxLease \in Nat /\ MaxHidden \in Nat
    /\ PageSize \in Nat \ {0} /\ ThresholdStep \in Nat \ {0}
ASSUME CrashAssumption == MayCrash \in BOOLEAN

VARIABLES
    listing,      \* interestedBuyerCount, lastInterestReminderCount, deal
    reminders,    \* the interest reminders that the seller was sent
    room,         \* chat_rooms: buyer -> unread counters and last message
    message,      \* chat_messages: createdAt -> row
    clock,        \* the last createdAt that was given
    lease,        \* key -> the reservations made and whether one is held
    request,      \* slot -> the handler in flight and its local variables
    overlapped    \* have two handlers ever been in flight together?

vars == <<listing, reminders, room, message, clock, lease, request,
          overlapped>>

Stamps == 1..MaxMessage
NoMessage == 0

Listing == [interested : Nat, reminder : Nat, deal : BOOLEAN]
Room == [unreadBuyer : Nat, unreadSeller : Nat, last : Stamps \cup {NoMessage}]
Message == [room : Buyers, sender : Users, key : Keys \cup {NoKey},
            lease : Nat, isRead : BOOLEAN, isHidden : BOOLEAN]

\* idempotency keys are scoped by room and user
Scoped == Chatting \X Resending \X Keys

-----------------------------------------------------------------------------
(* Handlers in flight                                                        *)

Idle == [step |-> "idle"]

Sending == [buyer : Buyers, sender : Users, key : Keys \cup {NoKey},
            lease : Nat]

Request ==
    {Idle}
    \cup [step : {"open.read"}, buyer : Buyers]
    \cup [step : {"open.write"}, buyer : Buyers, interested : Nat,
          reminder : Nat, deal : BOOLEAN]
    \cup [step : {"open.notify"}]
    \cup [step : {"send.reserve", "send.insert"}, msg : Sending]
    \cup [step : {"send.write"}, msg : Sending, createdAt : Stamps,
          unreadBuyer : Nat, unreadSeller : Nat]
    \cup [step : {"read.mark"}, buyer : Buyers, user : Users]
    \cup [step : {"read.count"}, buyer : Buyers, user : Users,
          marked : SUBSET Stamps]
    \cup [step : {"read.write"}, buyer : Buyers, user : Users,
          marked : SUBSET Stamps, remaining : Nat]
    \cup [step : {"list.page", "list.done"}, buyer : Buyers, before : SUBSET Stamps,
          cursor : Nat, items : Seq(Stamps)]

At(s, step) == request[s].step = step
Continue(s, r) == request' = [request EXCEPT ![s] = r]
Finish(s) == Continue(s, Idle)

\* A new handler: does it overlap one that is in flight?
Start(s, r) ==
    /\ At(s, "idle")
    /\ Continue(s, r)
    /\ overlapped' = (overlapped \/ \E t \in Slots \ {s} : ~At(t, "idle"))

Init ==
    /\ listing = [interested |-> 0, reminder |-> 0, deal |-> FALSE]
    /\ reminders = 0
    /\ room = [b \in {} |-> [unreadBuyer |-> 0, unreadSeller |-> 0, last |-> NoMessage]]
    /\ message = [t \in {} |-> NoMessage]
    /\ clock = 0
    /\ lease = [k \in Scoped |-> [count |-> 0, held |-> FALSE]]
    /\ request = [s \in Slots |-> Idle]
    /\ overlapped = FALSE

\* f with the row v under the key k, inserted or replaced
WithRow(f, k, v) == [x \in DOMAIN f \cup {k} |-> IF x = k THEN v ELSE f[x]]

-----------------------------------------------------------------------------
(* Opening a room                                                            *)

\* OpenChatRoomUseCase: the checks before getOrCreateRoom passed
BeginOpen(s, b) ==
    /\ Start(s, [step |-> "open.read", buyer |-> b])
    /\ UNCHANGED <<listing, reminders, room, message, clock, lease>>

\* getOrCreateRoom: the room of the unique key, or the counters to write
ReadForOpen(s) ==
    /\ At(s, "open.read")
    /\ IF request[s].buyer \in DOMAIN room
       THEN Finish(s)
       ELSE Continue(s, [step |-> "open.write", buyer |-> request[s].buyer,
                         interested |-> listing.interested,
                         reminder |-> listing.reminder, deal |-> listing.deal])
    /\ UNCHANGED <<listing, reminders, room, message, clock, lease, overlapped>>

\* The seller is reminded of every ThresholdStep new buyers without a deal.
ShouldNotify(r) ==
    ~r.deal /\ r.interested + 1 - r.reminder >= ThresholdStep

\* Mutant: the counters are written although the insert was refused.
WriteOpenTwice(s) ==
    /\ At(s, "open.write")
    /\ LET r == request[s]
       IN /\ room' = IF r.buyer \in DOMAIN room THEN room
                     ELSE WithRow(room, r.buyer, [unreadBuyer |-> 0, unreadSeller |-> 0,
                                                  last |-> NoMessage])
          /\ listing' = [listing EXCEPT !.interested = listing.interested + 1]
    /\ Finish(s)
    /\ UNCHANGED <<reminders, message, clock, lease, overlapped>>

\* ... and the commit: the unique key refuses a second room, and with it the
\* new values of the counters.
WriteOpen(s) ==
    /\ At(s, "open.write")
    /\ LET r == request[s]
       IN IF r.buyer \in DOMAIN room
          THEN Finish(s) /\ UNCHANGED <<room, listing>>
          ELSE /\ room' = WithRow(room, r.buyer, [unreadBuyer |-> 0, unreadSeller |-> 0,
                                                  last |-> NoMessage])
               /\ listing' = [listing EXCEPT
                                !.interested = r.interested + 1,
                                !.reminder = IF ShouldNotify(r) THEN r.interested + 1
                                             ELSE r.reminder]
               /\ IF ShouldNotify(r) THEN Continue(s, [step |-> "open.notify"])
                  ELSE Finish(s)
    /\ UNCHANGED <<reminders, message, clock, lease, overlapped>>

\* The notification is created after the transaction.
NotifySeller(s) ==
    /\ At(s, "open.notify")
    /\ reminders' = reminders + 1
    /\ Finish(s)
    /\ UNCHANGED <<listing, room, message, clock, lease, overlapped>>

-----------------------------------------------------------------------------
(* Sending a message                                                         *)

\* The bound MaxMessage, with the messages that are about to be inserted
MessagesLeft ==
    clock + Cardinality({t \in Slots : request[t].step \in {"send.reserve", "send.insert"}})
        < MaxMessage

Participants(b) == {b, Seller}

\* SendChatMessageUseCase: a participant, whose other checks passed.  The
\* handlers of transactions and locations add their messages in the name of a
\* participant too, without a key.
BeginSend(s, b, u, key) ==
    /\ MessagesLeft
    /\ b \in DOMAIN room
    /\ u \in Participants(b)
    /\ key # NoKey => u \in Resending
    /\ Start(s, [step |-> IF key = NoKey THEN "send.insert" ELSE "send.reserve",
                 msg |-> [buyer |-> b, sender |-> u, key |-> key,
                          lease |-> 0]])
    /\ UNCHANGED <<listing, reminders, room, message, clock, lease>>

ScopedKey(m) == <<m.buyer, m.sender, m.key>>

\* Mutant: a message with the key is looked up instead of the reservation.
ReserveByMessage(s) ==
    /\ At(s, "send.reserve")
    /\ LET m == request[s].msg
       IN Continue(s, IF \E t \in DOMAIN message : message[t].key = m.key
                      THEN Idle
                      ELSE [step |-> "send.insert", msg |-> m])
    /\ UNCHANGED <<listing, reminders, room, message, clock, lease, overlapped>>

\* reserve: SET with NX and EX, or the map of the process, in one step
Reserve(s) ==
    /\ At(s, "send.reserve")
    /\ LET m == request[s].msg
           k == ScopedKey(m)
       IN IF lease[k].held
          THEN Finish(s) /\ UNCHANGED lease
          ELSE /\ lease' = [lease EXCEPT ![k] = [count |-> @.count + 1, held |-> TRUE]]
               /\ Continue(s, [step |-> "send.insert",
                               msg |-> [m EXCEPT !.lease = lease[k].count + 1]])
    /\ UNCHANGED <<listing, reminders, room, message, clock, overlapped>>

\* createMessageWithRoomSnapshot: the counters of the room, and the insert ...
InsertMessage(s) ==
    /\ At(s, "send.insert")
    /\ clock < MaxMessage
    /\ clock' = clock + 1
    /\ LET r == room[request[s].msg.buyer]
       IN Continue(s, [step |-> "send.write", msg |-> request[s].msg,
                       createdAt |-> clock + 1, unreadBuyer |-> r.unreadBuyer,
                       unreadSeller |-> r.unreadSeller])
    /\ UNCHANGED <<listing, reminders, room, message, lease, overlapped>>

Row(m) == [room |-> m.buyer, sender |-> m.sender, key |-> m.key, lease |-> m.lease,
           isRead |-> FALSE, isHidden |-> FALSE]

\* Mutant: the sender's own counter is raised too.
WriteMessageForBoth(s) ==
    /\ At(s, "send.write")
    /\ LET q == request[s]
       IN /\ message' = WithRow(message, q.createdAt, Row(q.msg))
          /\ room' = [room EXCEPT ![q.msg.buyer] =
                [unreadBuyer |-> q.unreadBuyer + 1,
                 unreadSeller |-> q.unreadSeller + 1, last |-> q.createdAt]]
    /\ Finish(s)
    /\ UNCHANGED <<listing, reminders, clock, lease, overlapped>>

\* ... and the commit: the row, the snapshot and both counters
WriteMessage(s) ==
    /\ At(s, "send.write")
    /\ LET q == request[s]
           b == q.msg.buyer
       IN /\ message' = WithRow(message, q.createdAt, Row(q.msg))
          /\ room' = [room EXCEPT ![b] =
                [unreadBuyer |-> q.unreadBuyer + (IF q.msg.sender = b THEN 0 ELSE 1),
                 unreadSeller |-> q.unreadSeller + (IF q.msg.sender = b THEN 1 ELSE 0),
                 last |-> q.createdAt]]
    /\ Finish(s)
    /\ UNCHANGED <<listing, reminders, clock, lease, overlapped>>

\* Redis, or the clock of the process, forgets a key after three minutes.
Expire(k) ==
    /\ lease[k].held
    /\ lease[k].count < MaxLease
    /\ lease' = [lease EXCEPT ![k].held = FALSE]
    /\ UNCHANGED <<listing, reminders, room, message, clock, request, overlapped>>

-----------------------------------------------------------------------------
(* Reading a room                                                            *)

\* The messages that count as unread for a user, hidden ones included
UnreadFor(b, u) ==
    {t \in DOMAIN message : /\ message[t].room = b
                            /\ message[t].sender # u
                            /\ ~message[t].isRead}

\* MarkChatRoomReadUseCase: requireRoomParticipant
BeginRead(s, b, u) ==
    /\ b \in DOMAIN room
    /\ u \in Participants(b)
    /\ Start(s, [step |-> "read.mark", buyer |-> b, user |-> u])
    /\ UNCHANGED <<listing, reminders, room, message, clock, lease>>

\* markRoomMessagesRead: updateMany ...
MarkRead(s) ==
    /\ At(s, "read.mark")
    /\ LET q == request[s]
       IN Continue(s, [step |-> "read.count", buyer |-> q.buyer, user |-> q.user,
                       marked |-> UnreadFor(q.buyer, q.user)])
    /\ UNCHANGED <<listing, reminders, room, message, clock, lease, overlapped>>

\* ... the messages that were committed since, which remain unread ...
CountUnread(s) ==
    /\ At(s, "read.count")
    /\ LET q == request[s]
       IN Continue(s, [step |-> "read.write", buyer |-> q.buyer, user |-> q.user,
                       marked |-> q.marked,
                       remaining |-> Cardinality(UnreadFor(q.buyer, q.user) \ q.marked)])
    /\ UNCHANGED <<listing, reminders, room, message, clock, lease, overlapped>>

\* Mutant: the counter is lowered by the messages that were marked.
WriteReadByDecrement(s) ==
    /\ At(s, "read.write")
    /\ LET q == request[s]
       IN /\ message' = [t \in DOMAIN message |->
                            IF t \in q.marked THEN [message[t] EXCEPT !.isRead = TRUE]
                            ELSE message[t]]
          /\ room' = IF q.user = q.buyer
                     THEN [room EXCEPT ![q.buyer].unreadBuyer = @ - Cardinality(q.marked)]
                     ELSE [room EXCEPT ![q.buyer].unreadSeller = @ - Cardinality(q.marked)]
    /\ Finish(s)
    /\ UNCHANGED <<listing, reminders, clock, lease, overlapped>>

\* ... and the commit, with the counter of the reader
WriteRead(s) ==
    /\ At(s, "read.write")
    /\ LET q == request[s]
       IN /\ message' = [t \in DOMAIN message |->
                            IF t \in q.marked THEN [message[t] EXCEPT !.isRead = TRUE]
                            ELSE message[t]]
          /\ room' = IF q.user = q.buyer
                     THEN [room EXCEPT ![q.buyer].unreadBuyer = q.remaining]
                     ELSE [room EXCEPT ![q.buyer].unreadSeller = q.remaining]
    /\ Finish(s)
    /\ UNCHANGED <<listing, reminders, clock, lease, overlapped>>

-----------------------------------------------------------------------------
(* Pages of a room                                                           *)

Visible(b) == {t \in DOMAIN message : message[t].room = b /\ ~message[t].isHidden}

\* A client starts to read at the newest message; before is what it could see.
BeginList(s, b) ==
    /\ b \in DOMAIN room
    /\ Start(s, [step |-> "list.page", buyer |-> b, before |-> Visible(b),
                 cursor |-> MaxMessage + 1, items |-> <<>>])
    /\ UNCHANGED <<listing, reminders, room, message, clock, lease>>

\* How many stamps of a set are newer than t
Newer(set, t) == Cardinality({x \in set : x > t})

\* The n newest stamps of a set, newest first
Newest(set, n) ==
    [i \in 1..(IF n < Cardinality(set) THEN n ELSE Cardinality(set)) |->
        CHOOSE t \in set : Newer(set, t) = i - 1]

\* Mutant: the cursor counts the rows that were read.
ReadPageByOffset(s) ==
    /\ At(s, "list.page")
    /\ LET q == request[s]
           page == Newest({t \in Visible(q.buyer) : t < MaxMessage + 1},
                          Len(q.items) + PageSize)
           fresh == SubSeq(page, Len(q.items) + 1, Len(page))
       IN Continue(s, [q EXCEPT !.items = @ \o fresh,
                                !.step = IF Len(fresh) < PageSize THEN "list.done" ELSE @])
    /\ UNCHANGED <<listing, reminders, room, message, clock, lease, overlapped>>

\* listMessagesByRoom: the newest rows older than the cursor, and the next
\* cursor if one row more than the page was found
ReadPage(s) ==
    /\ At(s, "list.page")
    /\ LET q == request[s]
           older == {t \in Visible(q.buyer) : t < q.cursor}
           page == Newest(older, PageSize)
       IN Continue(s, [step |-> IF Cardinality(older) > PageSize THEN q.step ELSE "list.done",
                       buyer |-> q.buyer, before |-> q.before,
                       cursor |-> IF page = <<>> THEN q.cursor ELSE Last(page),
                       items |-> q.items \o page])
    /\ UNCHANGED <<listing, reminders, room, message, clock, lease, overlapped>>

FinishList(s) ==
    /\ At(s, "list.done")
    /\ Finish(s)
    /\ UNCHANGED <<listing, reminders, room, message, clock, lease, overlapped>>

-----------------------------------------------------------------------------
(* What other components change                                             *)

\* hideChatMessage, of the moderation: the counters and the last message stay
HideMessage(t) ==
    /\ t \in DOMAIN message
    /\ ~message[t].isHidden
    /\ Cardinality({u \in DOMAIN message : message[u].isHidden}) < MaxHidden
    /\ message' = [message EXCEPT ![t].isHidden = TRUE]
    /\ UNCHANGED <<listing, reminders, room, clock, lease, request, overlapped>>

\* The seller accepts a buyer or drops the deal; see ChatTransactions
SetDeal(deal) ==
    /\ listing.deal # deal
    /\ DOMAIN room # {}
    /\ listing' = [listing EXCEPT !.deal = deal]
    /\ UNCHANGED <<reminders, room, message, clock, lease, request, overlapped>>

\* The process of a handler dies: what it committed stays
Crash(s) ==
    /\ MayCrash
    /\ ~At(s, "idle")
    /\ Finish(s)
    /\ UNCHANGED <<listing, reminders, room, message, clock, lease, overlapped>>

-----------------------------------------------------------------------------

\* The routes of the rooms and their pages ...
RoomRoutes(s) ==
    \/ \E b \in Buyers : BeginOpen(s, b)
    \/ \E b \in Chatting : BeginList(s, b)

\* ... and the events of the socket, which has routes to fall back to.
MessageEvents(s) ==
    \E b \in Chatting, u \in Users :
        \/ \E key \in Keys \cup {NoKey} : BeginSend(s, b, u, key)
        \/ BeginRead(s, b, u)

Begin(s) == RoomRoutes(s) \/ MessageEvents(s)

Step(s) ==
    \/ ReadForOpen(s) \/ WriteOpen(s) \/ NotifySeller(s)
    \/ Reserve(s) \/ InsertMessage(s) \/ WriteMessage(s)
    \/ MarkRead(s) \/ CountUnread(s) \/ WriteRead(s)
    \/ ReadPage(s) \/ FinishList(s)

Elsewhere ==
    \/ \E k \in Scoped : Expire(k)
    \/ \E t \in Stamps : HideMessage(t)
    \/ \E deal \in BOOLEAN : SetDeal(deal)

Next ==
    \/ \E s \in Slots : Begin(s) \/ Step(s) \/ Crash(s)
    \/ Elsewhere

Spec == Init /\ [][Next]_vars

-----------------------------------------------------------------------------
(* Properties                                                                *)

\* The tables and the handlers have their types: the foreign keys and the
\* unique keys of the schema, the local variables of the use cases.
TypeOK ==
    /\ listing \in Listing
    /\ reminders \in Nat
    /\ DOMAIN room \subseteq Buyers /\ \A b \in DOMAIN room : room[b] \in Room
    /\ clock \in 0..MaxMessage
    /\ DOMAIN message \subseteq 1..clock
    /\ \A t \in DOMAIN message : message[t] \in Message /\ message[t].room \in DOMAIN room
    /\ lease \in [Scoped -> [count : Nat, held : BOOLEAN]]
    /\ request \in [Slots -> Request]
    /\ overlapped \in BOOLEAN

\* The interest counter never claims more buyers than there are rooms, although
\* openings that race each write the counters they read plus one.  While no two
\* handlers overlap, the seller gets at most one reminder for every
\* ThresholdStep buyers, however deals begin and end in between.
InterestNeverOverstated ==
    /\ listing.reminder <= listing.interested
    /\ listing.interested <= Cardinality(DOMAIN room)
    /\ ~overlapped => ThresholdStep * reminders <= Cardinality(DOMAIN room)

\* Two messages that carry the same idempotency key of a user in a room were
\* sent under different reservations: a retry adds a message only after the
\* key expired, whatever races.
SentOncePerReservation ==
    \A t1, t2 \in DOMAIN message :
        /\ t1 # t2 /\ message[t1].key # NoKey
        /\ <<message[t1].room, message[t1].sender, message[t1].key>>
             = <<message[t2].room, message[t2].sender, message[t2].key>>
        => message[t1].lease # message[t2].lease

\* listRoomsForUser: the rooms of a user ...
Inbox(u) == {b \in DOMAIN room : u \in Participants(b)}

\* ... and the number that he sees in each (mapRoomSummary)
ShownUnread(b, u) == IF b = u THEN room[b].unreadBuyer ELSE room[b].unreadSeller

\* While no two handlers overlap, the number that a user sees in the list of his
\* rooms is the number of messages of the other side that he has not read.
UnreadIsExact ==
    ~overlapped =>
        \A u \in Users : \A b \in Inbox(u) : ShownUnread(b, u) = Cardinality(UnreadFor(b, u))

\* The pages of a room, read one after the other, give every message that was
\* there at the first page and is still visible, none twice, newest first,
\* whatever is sent, hidden or read in between.
PagesAreComplete ==
    \A s \in Slots :
        At(s, "list.done") =>
            /\ \A t \in request[s].before \cap Visible(request[s].buyer) :
                  \E i \in DOMAIN request[s].items : request[s].items[i] = t
            /\ \A i \in 1..(Len(request[s].items) - 1) :
                  request[s].items[i] > request[s].items[i + 1]

=============================================================================
