---------------------------- MODULE ChatRoomsProofs ----------------------------
(***************************************************************************)
(* What holds of the rooms of a listing for every number of buyers,        *)
(* messages, keys and handlers in flight, and every size of a page.        *)
(*                                                                         *)
(* Three invariants are behind it.  Inv says what a handler knows whatever *)
(* the others do, the pages that it has read above all.  Leased follows    *)
(* the reservation of a key from the handler that made it to the row that  *)
(* it inserts.  Alone says, while no two handlers ever overlapped, that    *)
(* the counters are exact and what the one in flight has read is still so. *)
(***************************************************************************)
EXTENDS ChatRooms, FiniteSetTheorems, WellFoundedInduction, TLAPS

-----------------------------------------------------------------------------
(* Pages                                                                     *)

\* The usual way to find a first failure: a set of naturals has a least element.
LEMMA FirstFailure ==
    ASSUME NEW Bad \in SUBSET Nat, Bad # {}
    PROVE  \E n \in Bad : \A m \in Bad : n <= m
<1>1. IsWellFoundedOn(OpToRel(<, Nat), Nat)
  BY NatLessThanWellFounded
<1>2. PICK n \in Bad : \A m \in Bad : <<m, n>> \notin OpToRel(<, Nat)
  <2> DEFINE R == OpToRel(<, Nat)
  <2>1. IsWellFoundedOn(R, Nat)
    BY <1>1
  <2> HIDE DEF R
  <2>2. \E n \in Bad : \A m \in Bad : ~ (<<m, n>> \in R)
    BY <2>1, WFMin
  <2> QED BY <2>2 DEF R
<1>3. \A m \in Bad : ~(m < n)
  BY <1>2 DEF OpToRel
<1> QED BY <1>3

LEMMA StampsAreNumbers == \A t \in Stamps : t \in Nat /\ t >= 1 /\ t <= MaxMessage
BY BoundsAssumption DEF Stamps

\* A set of stamps that is not empty has a newest one.
LEMMA NewestStamp ==
    ASSUME NEW S \in SUBSET Stamps, S # {}
    PROVE  \E t \in S : \A u \in S : u <= t
<1> DEFINE Above == {n \in Nat : \A u \in S : u <= n}
<1>1. MaxMessage \in Above
  BY BoundsAssumption DEF Stamps
<1>2. PICK n \in Above : \A m \in Above : n <= m
  <2>1. Above \in SUBSET Nat /\ Above # {}
    BY <1>1
  <2> HIDE DEF Above
  <2> QED BY <2>1, FirstFailure
<1>3. CASE n \in S
  BY <1>2, <1>3
<1>4. CASE n \notin S
  <2>1. \A u \in S : u \in Int /\ u >= 1 /\ u <= n /\ u # n
    BY <1>2, <1>4, BoundsAssumption DEF Stamps
  <2>2. n >= 1
    BY <1>2, <2>1
  <2>3. n - 1 \in Above
    BY <1>2, <2>1, <2>2
  <2>4. n \in Nat /\ n <= n - 1
    BY <1>2, <2>3
  <2> QED BY <2>4
<1> QED BY <1>3, <1>4

\* The set of the stamps that are newer is finite, and smaller the newer t is.
LEMMA NewerFacts ==
    ASSUME NEW S \in SUBSET Stamps
    PROVE  /\ IsFiniteSet(S) /\ Cardinality(S) \in Nat
           /\ \A t \in S : Newer(S, t) \in Nat /\ Newer(S, t) < Cardinality(S)
           /\ \A t, u \in S : t < u => Newer(S, u) < Newer(S, t)
<1>1. IsFiniteSet(S) /\ Cardinality(S) \in Nat
  <2>1. IsFiniteSet(Stamps)
    BY BoundsAssumption, FS_Interval DEF Stamps
  <2> QED BY <2>1, FS_Subset, FS_CardinalityType
<1>2. ASSUME NEW T \in SUBSET S, NEW x \in S, x \notin T
      PROVE  IsFiniteSet(T) /\ Cardinality(T) \in Nat /\ Cardinality(T) < Cardinality(S)
  <2>1. IsFiniteSet(T) /\ Cardinality(T) <= Cardinality(S) /\ Cardinality(T) # Cardinality(S)
    BY <1>1, <1>2, FS_Subset
  <2> QED BY <1>1, <2>1, FS_CardinalityType
<1>3. ASSUME NEW t \in S
      PROVE  Newer(S, t) \in Nat /\ Newer(S, t) < Cardinality(S)
  <2>1. {x \in S : x > t} \in SUBSET S /\ t \notin {x \in S : x > t}
    BY StampsAreNumbers
  <2> QED BY <1>2, <2>1 DEF Newer
<1>4. ASSUME NEW t \in S, NEW u \in S, t < u
      PROVE  Newer(S, u) < Newer(S, t)
  <2> DEFINE T == {x \in S : x > t}
             U == {x \in S : x > u}
  <2>1. U \in SUBSET T /\ u \in T /\ u \notin U
    BY <1>4, StampsAreNumbers
  <2>2. IsFiniteSet(T) /\ Cardinality(T) \in Nat
    <3>1. T \in SUBSET S
      OBVIOUS
    <3> QED BY <1>1, <3>1, FS_Subset, FS_CardinalityType
  <2>3. Cardinality(U) <= Cardinality(T) /\ Cardinality(U) # Cardinality(T)
    <3> HIDE DEF T, U
    <3> QED BY <2>1, <2>2, FS_Subset
  <2>4. Cardinality(U) \in Nat
    <3> HIDE DEF T, U
    <3> QED BY <2>1, <2>2, FS_Subset, FS_CardinalityType
  <2> QED BY <2>2, <2>3, <2>4 DEF Newer
<1> QED BY <1>1, <1>3, <1>4

\* There is a stamp with k newer ones, for every k that is smaller than the set.
LEMMA RankExists ==
    ASSUME NEW S \in SUBSET Stamps, NEW k \in Nat, k < Cardinality(S)
    PROVE  \E t \in S : Newer(S, t) = k
<1> DEFINE Bad == {n \in Nat : n < Cardinality(S) /\ \A t \in S : Newer(S, t) # n}
<1> SUFFICES ASSUME Bad # {} PROVE FALSE
  OBVIOUS
<1>1. PICK n \in Bad : \A m \in Bad : n <= m
  <2>1. Bad \in SUBSET Nat
    OBVIOUS
  <2> HIDE DEF Bad
  <2> QED BY <2>1, FirstFailure
<1>2. n \in Nat /\ n < Cardinality(S) /\ \A t \in S : Newer(S, t) # n
  BY <1>1
<1>3. IsFiniteSet(S) /\ Cardinality(S) \in Nat
  BY NewerFacts
<1>4. CASE n = 0
  <2>1. S # {}
    BY <1>2, <1>4, FS_EmptySet
  <2>2. PICK t \in S : \A u \in S : u <= t
    BY <2>1, NewestStamp
  <2>3. {x \in S : x > t} = {}
    BY <2>2, StampsAreNumbers
  <2> QED BY <1>2, <1>4, <2>3, FS_EmptySet DEF Newer
<1>5. CASE n # 0
  <2>1. n - 1 \in Nat /\ n - 1 \notin Bad /\ n - 1 < Cardinality(S)
    <3>1. n - 1 \in Nat /\ ~(n <= n - 1) /\ n - 1 < Cardinality(S)
      BY <1>2, <1>3, <1>5
    <3> QED BY <1>1, <3>1
  <2>2. PICK t \in S : Newer(S, t) = n - 1
    BY <2>1
  <2> DEFINE T == {x \in S : x > t}
             W == {x \in S : x < t}
  <2>3. /\ IsFiniteSet(T) /\ Cardinality(T) = n - 1
        /\ IsFiniteSet(T \cup {t}) /\ Cardinality(T \cup {t}) = n
    <3>1. T \in SUBSET S /\ t \notin T
      BY StampsAreNumbers
    <3>2. IsFiniteSet(T) /\ Cardinality(T) = n - 1
      BY <1>3, <2>2, <3>1, FS_Subset DEF Newer
    <3> HIDE DEF T
    <3>3. IsFiniteSet(T \cup {t}) /\ Cardinality(T \cup {t}) = Cardinality(T) + 1
      BY <3>1, <3>2, FS_AddElement
    <3> QED BY <1>2, <3>2, <3>3
  <2>4. W # {}
    <3> SUFFICES ASSUME W = {} PROVE FALSE
      OBVIOUS
    <3>1. S = T \cup {t}
      BY StampsAreNumbers
    <3> QED BY <1>2, <2>3, <3>1
  <2>5. PICK m \in W : \A u \in W : u <= m
    <3>1. W \in SUBSET Stamps
      OBVIOUS
    <3> HIDE DEF W
    <3> QED BY <2>4, <3>1, NewestStamp
  <2>6. m \in S /\ {x \in S : x > m} = T \cup {t}
    BY <2>5, StampsAreNumbers
  <2> QED BY <1>2, <2>3, <2>6 DEF Newer
<1> QED BY <1>4, <1>5

\* A page holds the newest stamps in order, and leaves out only older ones; it
\* holds all if they are no more than fit in it.
LEMMA PageFacts ==
    ASSUME NEW S \in SUBSET Stamps, NEW n \in Nat
    PROVE  LET page == Newest(S, n)
           IN  /\ page \in Seq(S)
               /\ Len(page) = IF n < Cardinality(S) THEN n ELSE Cardinality(S)
               /\ \A i, j \in 1..Len(page) : i < j => page[i] > page[j]
               /\ \A i \in 1..Len(page), t \in S :
                     t >= page[i] => \E j \in 1..Len(page) : page[j] = t
               /\ Cardinality(S) <= n =>
                     \A t \in S : \E j \in 1..Len(page) : page[j] = t
<1> DEFINE N == IF n < Cardinality(S) THEN n ELSE Cardinality(S)
           page == Newest(S, n)
<1>1. /\ N \in Nat /\ N <= n /\ N <= Cardinality(S) /\ Cardinality(S) \in Nat
      /\ Cardinality(S) <= n => N = Cardinality(S)
  BY NewerFacts
<1>2. page = [i \in 1..N |-> CHOOSE t \in S : Newer(S, t) = i - 1]
  BY DEF Newest
<1> HIDE DEF N, page
<1>3. ASSUME NEW i \in 1..N PROVE page[i] \in S /\ Newer(S, page[i]) = i - 1
  <2>1. i - 1 \in Nat /\ i - 1 < Cardinality(S)
    BY <1>1
  <2>2. \E t \in S : Newer(S, t) = i - 1
    BY <2>1, RankExists
  <2> QED BY <1>2, <2>2
<1>4. page \in Seq(S) /\ Len(page) = N
  <2>1. page \in [1..N -> S]
    <3>1. \A i \in 1..N : page[i] = CHOOSE t \in S : Newer(S, t) = i - 1
      BY <1>2
    <3>2. page = [i \in 1..N |-> page[i]]
      BY <1>2
    <3> QED BY <1>3, <3>2
  <2> QED BY <1>1, <2>1
<1>5. \A t, u \in S : Newer(S, t) = Newer(S, u) => t = u
  <2> SUFFICES ASSUME NEW t \in S, NEW u \in S, Newer(S, t) = Newer(S, u), t # u PROVE FALSE
    OBVIOUS
  <2>1. t < u \/ u < t
    BY StampsAreNumbers
  <2>2. Newer(S, t) \in Nat /\ Newer(S, u) \in Nat
    BY NewerFacts
  <2> QED BY <2>1, <2>2, NewerFacts
<1>6. ASSUME NEW t \in S, Newer(S, t) < N PROVE \E j \in 1..N : page[j] = t
  <2>1. Newer(S, t) + 1 \in 1..N /\ (Newer(S, t) + 1) - 1 = Newer(S, t)
    BY <1>1, <1>6, NewerFacts
  <2>2. page[Newer(S, t) + 1] \in S /\ Newer(S, page[Newer(S, t) + 1]) = Newer(S, t)
    BY <1>3, <2>1
  <2> QED BY <1>5, <2>1, <2>2
<1>7. ASSUME NEW i \in 1..N, NEW t \in S, t >= page[i] PROVE \E j \in 1..N : page[j] = t
  <2>1. page[i] \in S /\ Newer(S, page[i]) = i - 1
    BY <1>3
  <2>2. t = page[i] \/ page[i] < t
    BY <1>7, <2>1, StampsAreNumbers
  <2>3. Newer(S, t) \in Nat /\ Newer(S, t) <= Newer(S, page[i])
    BY <2>1, <2>2, NewerFacts
  <2>4. Newer(S, t) < N
    BY <1>1, <2>1, <2>3
  <2> QED BY <1>6, <2>4
<1>8. ASSUME NEW i \in 1..N, NEW j \in 1..N, i < j PROVE page[i] > page[j]
  <2>1. /\ page[i] \in S /\ Newer(S, page[i]) = i - 1
        /\ page[j] \in S /\ Newer(S, page[j]) = j - 1
    BY <1>3
  <2>2. page[i] # page[j] /\ ~(page[i] < page[j])
    BY <1>8, <2>1, NewerFacts
  <2> QED BY <2>1, <2>2, StampsAreNumbers
<1>9. Cardinality(S) <= n => \A t \in S : \E j \in 1..N : page[j] = t
  BY <1>1, <1>6, NewerFacts
<1> QED BY <1>4, <1>7, <1>8, <1>9 DEF page, N
-----------------------------------------------------------------------------
(* The invariant                                                             *)

SendSteps == {"send.reserve", "send.insert", "send.write"}
ReadSteps == {"read.mark", "read.count", "read.write"}
ListSteps == {"list.page", "list.done"}

\* Who may send m: a participant, and the key is one of his
MaySend(buyer, sender, key) ==
    /\ buyer \in Chatting \cap DOMAIN room
    /\ sender \in Participants(buyer)
    /\ key # NoKey => sender \in Resending

\* The rows of the tables
Sent ==
    \A t \in DOMAIN message : MaySend(message[t].room, message[t].sender, message[t].key)

Counted ==
    /\ listing.reminder <= listing.interested
    /\ listing.interested <= Cardinality(DOMAIN room)

TablesOK ==
    /\ listing \in Listing
    /\ reminders \in Nat
    /\ DOMAIN room \subseteq Buyers /\ IsFiniteSet(DOMAIN room)
    /\ \A b \in DOMAIN room : room[b] \in Room
    /\ clock \in 0..MaxMessage
    /\ DOMAIN message \subseteq 1..clock
    /\ \A t \in DOMAIN message : message[t] \in Message
    /\ lease \in [Scoped -> [count : Nat, held : BOOLEAN]]
    /\ overlapped \in BOOLEAN
    /\ Sent /\ Counted

\* The stamps were messages of the room when a handler saw them, and still are.
AreIn(stamps, buyer) == \A t \in stamps : t \in DOMAIN message /\ message[t].room = buyer

\* The stamps are listed in items.
Listed(items, t) == \E i \in DOMAIN items : items[i] = t

\* The pages that were read so far: the newest first, down to the cursor, and
\* none is missing that was there at the first page and is still visible
Paged(q) ==
    /\ AreIn(q.before, q.buyer)
    /\ \A i \in 1..(Len(q.items) - 1) : q.items[i] > q.items[i + 1]
    /\ IF q.items = <<>> THEN q.cursor = MaxMessage + 1 ELSE q.cursor = q.items[Len(q.items)]
    /\ \A t \in q.before \cap Visible(q.buyer) :
          q.step = "list.done" \/ t >= q.cursor => Listed(q.items, t)

\* What a handler knows, whatever the others do
Knows(q) ==
    /\ q.step = "open.write" =>
          q.reminder <= q.interested /\ q.interested <= Cardinality(DOMAIN room)
    /\ q.step \in SendSteps => MaySend(q.msg.buyer, q.msg.sender, q.msg.key)
    /\ q.step = "send.reserve" => q.msg.key # NoKey
    /\ q.step = "send.write" => q.createdAt \in (1..clock) \ DOMAIN message
    /\ q.step \in ReadSteps => q.buyer \in DOMAIN room /\ q.user \in Participants(q.buyer)
    /\ q.step \in {"read.count", "read.write"} =>
          AreIn(q.marked, q.buyer) /\ \A t \in q.marked : message[t].sender # q.user
    /\ q.step \in ListSteps => Paged(q)

\* No two handlers insert the same row.
Distinct ==
    \A s, t \in Slots :
        /\ s # t /\ At(s, "send.write") /\ At(t, "send.write")
        => request[s].createdAt # request[t].createdAt

Inv ==
    /\ TablesOK
    /\ request \in [Slots -> Request]
    /\ \A s \in Slots : Knows(request[s])
    /\ Distinct

\* The scoped key of a row, and of what a handler is about to insert
KeyOf(t) == <<message[t].room, message[t].sender, message[t].key>>
Holds(s) == (At(s, "send.insert") \/ At(s, "send.write")) /\ request[s].msg.key # NoKey
HeldKey(s) == ScopedKey(request[s].msg)

\* The reservations of a key are numbered, and each is used by one handler or by
\* the row that it has inserted.
Leased ==
    /\ \A t \in DOMAIN message :
          message[t].key # NoKey => message[t].lease <= lease[KeyOf(t)].count
    /\ \A s \in Slots :
          Holds(s) =>
             /\ request[s].msg.lease <= lease[HeldKey(s)].count
             /\ \A t \in DOMAIN message :
                   KeyOf(t) = HeldKey(s) => message[t].lease # request[s].msg.lease
             /\ \A u \in Slots \ {s} :
                   Holds(u) /\ HeldKey(u) = HeldKey(s) =>
                      request[u].msg.lease # request[s].msg.lease
    /\ SentOncePerReservation

\* The counters of a room are exact.
Exact ==
    \A b \in DOMAIN room :
        /\ room[b].unreadBuyer = Cardinality(UnreadFor(b, b))
        /\ room[b].unreadSeller = Cardinality(UnreadFor(b, Seller))

\* What the only handler in flight has read is still so.
KnowsAlone(q) ==
    /\ q.step = "open.write" =>
          q.interested = listing.interested /\ q.reminder = listing.reminder
    /\ q.step = "open.notify" => ThresholdStep * (reminders + 1) <= listing.reminder
    /\ q.step = "send.write" =>
          /\ q.unreadBuyer = room[q.msg.buyer].unreadBuyer
          /\ q.unreadSeller = room[q.msg.buyer].unreadSeller
    /\ q.step \in {"read.count", "read.write"} => q.marked = UnreadFor(q.buyer, q.user)
    /\ q.step = "read.write" => q.remaining = 0

Busy(s) == ~At(s, "idle")

Alone ==
    ~overlapped =>
        /\ \A s, t \in Slots : Busy(s) /\ Busy(t) => s = t
        /\ \A s \in Slots : KnowsAlone(request[s])
        /\ ThresholdStep * reminders <= listing.reminder
        /\ Exact

-----------------------------------------------------------------------------
(* Handlers                                                                  *)

tables == <<listing, reminders, room, message, clock, lease>>

LEMMA RequestFields ==
    ASSUME NEW q \in Request
    PROVE  /\ q.step \in {"open.read", "open.write"} => q.buyer \in Buyers
           /\ q.step = "open.write" =>
                 q.interested \in Nat /\ q.reminder \in Nat /\ q.deal \in BOOLEAN
           /\ q.step \in SendSteps => q.msg \in Sending
           /\ q.step = "send.write" =>
                 q.createdAt \in Stamps /\ q.unreadBuyer \in Nat /\ q.unreadSeller \in Nat
           /\ q.step \in ReadSteps => q.buyer \in Buyers /\ q.user \in Users
           /\ q.step \in {"read.count", "read.write"} => q.marked \in SUBSET Stamps
           /\ q.step = "read.write" => q.remaining \in Nat
           /\ q.step \in ListSteps =>
                 /\ q.buyer \in Buyers /\ q.before \in SUBSET Stamps
                 /\ q.cursor \in Nat /\ q.items \in Seq(Stamps)
<1>1. CASE q = Idle \/ q.step \in ListSteps
  <2>1. Idle.step = "idle"
    BY DEF Idle
  <2>2. q.step \in ListSteps =>
          q \in [step : ListSteps, buyer : Buyers, before : SUBSET Stamps,
                cursor : Nat, items : Seq(Stamps)]
    BY DEF Request, ListSteps, Idle
  <2> HIDE DEF Idle
  <2> QED BY <1>1, <2>1, <2>2 DEF SendSteps, ReadSteps, ListSteps
<1>2. CASE q # Idle /\ q.step \notin ListSteps
  <2>1. \/ q \in [step : {"open.read"}, buyer : Buyers]
        \/ q \in [step : {"open.write"}, buyer : Buyers, interested : Nat,
                  reminder : Nat, deal : BOOLEAN]
        \/ q.step = "open.notify"
        \/ q \in [step : {"send.reserve", "send.insert"}, msg : Sending]
        \/ q \in [step : {"send.write"}, msg : Sending, createdAt : Stamps,
                  unreadBuyer : Nat, unreadSeller : Nat]
        \/ q \in [step : {"read.mark"}, buyer : Buyers, user : Users]
        \/ q \in [step : {"read.count"}, buyer : Buyers, user : Users,
                  marked : SUBSET Stamps]
        \/ q \in [step : {"read.write"}, buyer : Buyers, user : Users,
                  marked : SUBSET Stamps, remaining : Nat]
    BY <1>2 DEF Request, ListSteps
  <2> QED BY <1>2, <2>1 DEF SendSteps, ReadSteps, ListSteps
<1> QED BY <1>1, <1>2

LEMMA IdleIsRequest == Idle \in Request /\ Idle.step = "idle"
BY DEF Idle, Request

\* A handler that goes on changes its own local variables.
LEMMA HandlerTyped ==
    ASSUME request \in [Slots -> Request], NEW s \in Slots, NEW q \in Request, Continue(s, q)
    PROVE  /\ request' \in [Slots -> Request]
           /\ \A t \in Slots : request'[t] = IF t = s THEN q ELSE request[t]
BY DEF Continue

\* Rooms and messages stay, and what is hidden stays hidden.
Grows ==
    /\ DOMAIN room \subseteq DOMAIN room'
    /\ clock <= clock'
    /\ \A t \in DOMAIN message :
          /\ t \in DOMAIN message'
          /\ message'[t].room = message[t].room /\ message'[t].sender = message[t].sender
          /\ message[t].isHidden => message'[t].isHidden

LEMMA PagedKept ==
    ASSUME Grows, NEW q, Paged(q)
    PROVE  Paged(q)'
<1>1. AreIn(q.before, q.buyer)'
  BY DEF Paged, AreIn, Grows
<1>2. \A t \in q.before : t \in Visible(q.buyer)' => t \in Visible(q.buyer)
  BY DEF Paged, AreIn, Grows, Visible
<1> QED BY <1>1, <1>2 DEF Paged, Listed

\* The steps of others take nothing back that a handler knows.
LEMMA KnowsKept ==
    ASSUME TablesOK, TablesOK', Grows, NEW q \in Request, Knows(q),
           q.step = "send.write" => q.createdAt \notin DOMAIN message'
    PROVE  Knows(q)'
<1>1. q.step = "open.write" =>
          q.reminder <= q.interested /\ q.interested <= Cardinality(DOMAIN room')
  <2>1. /\ Cardinality(DOMAIN room) <= Cardinality(DOMAIN room')
        /\ Cardinality(DOMAIN room) \in Nat /\ Cardinality(DOMAIN room') \in Nat
    BY FS_Subset, FS_CardinalityType DEF TablesOK, Grows
  <2> QED BY <2>1, RequestFields DEF Knows
<1>2. q.step \in SendSteps => MaySend(q.msg.buyer, q.msg.sender, q.msg.key)'
  BY DEF Knows, MaySend, Participants, Grows
<1>3. q.step = "send.write" => q.createdAt \in (1..clock') \ DOMAIN message'
  BY DEF Knows, Grows, TablesOK
<1>4. q.step \in ReadSteps => q.buyer \in DOMAIN room' /\ q.user \in Participants(q.buyer)
  BY DEF Knows, Grows
<1>5. q.step \in {"read.count", "read.write"} =>
          AreIn(q.marked, q.buyer)' /\ \A t \in q.marked : message'[t].sender # q.user
  BY DEF Knows, AreIn, Grows
<1>6. q.step \in ListSteps => Paged(q)'
  BY PagedKept DEF Knows
<1> QED BY <1>1, <1>2, <1>3, <1>4, <1>5, <1>6 DEF Knows, Participants

\* A handler goes on with q.
LEMMA GoesOn ==
    ASSUME Inv, TablesOK', Grows, NEW s \in Slots, NEW q \in Request, Continue(s, q), Knows(q)',
           \A t \in Slots \ {s} :
              At(t, "send.write") =>
                 /\ request[t].createdAt \notin DOMAIN message'
                 /\ q.step = "send.write" => request[t].createdAt # q.createdAt
    PROVE  Inv'
<1>1. /\ request' \in [Slots -> Request]
      /\ \A t \in Slots : request'[t] = IF t = s THEN q ELSE request[t]
  BY HandlerTyped DEF Inv
<1>2. ASSUME NEW t \in Slots PROVE Knows(request[t])'
  <2>1. CASE t = s
    BY <1>1, <2>1 DEF Knows
  <2>2. CASE t # s
    <3> DEFINE p == request[t]
    <3>1. p \in Request /\ Knows(p) /\ (p.step = "send.write" => p.createdAt \notin DOMAIN message')
      BY <2>2 DEF Inv, At
    <3>2. \A r \in Request :
             Knows(r) /\ (r.step = "send.write" => r.createdAt \notin DOMAIN message')
             => Knows(r)'
      BY KnowsKept DEF Inv
    <3>3. request'[t] = p
      BY <1>1, <2>2
    <3> QED BY <3>1, <3>2, <3>3
  <2> QED BY <2>1, <2>2
<1>3. Distinct'
  BY <1>1 DEF Inv, Distinct, At
<1> QED BY <1>1, <1>2, <1>3 DEF Inv

\* ... and the tables stay as they are.
LEMMA Quiet ==
    ASSUME Inv, UNCHANGED tables, overlapped' \in BOOLEAN, NEW s \in Slots, NEW q \in Request,
           Continue(s, q), Knows(q), q.step # "send.write"
    PROVE  Inv'
<1>1. TablesOK' /\ Grows
  BY DEF Inv, TablesOK, Sent, Counted, MaySend, Grows, tables
<1>2. Knows(q)'
  BY <1>1, KnowsKept DEF Inv
<1>3. \A t \in Slots : At(t, "send.write") => request[t].createdAt \notin DOMAIN message'
  BY DEF Inv, Knows, At, tables
<1> QED BY <1>1, <1>2, <1>3, GoesOn

LEMMA IdleKnows == Knows(Idle)
BY IdleIsRequest DEF Knows, SendSteps, ReadSteps, ListSteps

\* What others than the handlers change
LEMMA FromElsewhere ==
    ASSUME Inv, TablesOK', Grows, UNCHANGED request, DOMAIN message' = DOMAIN message
    PROVE  Inv'
<1>1. ASSUME NEW t \in Slots PROVE Knows(request[t])'
  <2> DEFINE p == request[t]
  <2>1. p \in Request /\ Knows(p) /\ (p.step = "send.write" => p.createdAt \notin DOMAIN message')
    BY DEF Inv, Knows
  <2>2. \A r \in Request :
           Knows(r) /\ (r.step = "send.write" => r.createdAt \notin DOMAIN message')
           => Knows(r)'
    BY KnowsKept DEF Inv
  <2> QED BY <2>1, <2>2
<1>2. Distinct'
  BY DEF Inv, Distinct, At
<1> QED BY <1>1, <1>2 DEF Inv

-----------------------------------------------------------------------------
(* The steps that only read                                                  *)

BeginSteps == {"open.read", "send.reserve", "send.insert", "read.mark", "list.page"}

\* A handler starts with what it was given, and has checked it.
LEMMA BeginFacts ==
    ASSUME Inv, NEW s \in Slots, Begin(s)
    PROVE  \E q \in Request :
              /\ Start(s, q) /\ UNCHANGED tables
              /\ Knows(q) /\ q.step \in BeginSteps
              /\ q.step = "send.insert" => q.msg.key = NoKey
<1>1. ASSUME NEW b \in Buyers, BeginOpen(s, b)
      PROVE  \E q \in Request :
                /\ Start(s, q) /\ UNCHANGED tables
                /\ Knows(q) /\ q.step \in BeginSteps \ {"send.insert"}
  <2> DEFINE q == [step |-> "open.read", buyer |-> b]
  <2>1. q \in Request
    BY DEF Request
  <2>2. Knows(q) /\ q.step \in BeginSteps \ {"send.insert"}
    BY DEF Knows, SendSteps, ReadSteps, ListSteps, BeginSteps
  <2>3. Start(s, q) /\ UNCHANGED tables
    BY <1>1 DEF BeginOpen, tables
  <2> HIDE DEF q
  <2> QED BY <2>1, <2>2, <2>3
<1>2. ASSUME NEW b \in Chatting, NEW u \in Users, NEW key \in Keys \cup {NoKey},
             BeginSend(s, b, u, key)
      PROVE  \E q \in Request :
                /\ Start(s, q) /\ UNCHANGED tables
                /\ Knows(q) /\ q.step \in BeginSteps
                /\ q.step = "send.insert" => q.msg.key = NoKey
  <2> DEFINE msg == [buyer |-> b, sender |-> u, key |-> key, lease |-> 0]
             q == [step |-> IF key = NoKey THEN "send.insert" ELSE "send.reserve",
                   msg |-> msg]
  <2>1. msg \in Sending
    BY <1>2, UsersAssumption DEF Sending
  <2>2. q \in Request
    <3> HIDE DEF msg
    <3> QED BY <2>1 DEF Request
  <2>3. MaySend(msg.buyer, msg.sender, msg.key)
    BY <1>2 DEF BeginSend, MaySend
  <2>4. /\ Knows(q) /\ q.step \in BeginSteps
        /\ q.step = "send.insert" => q.msg.key = NoKey
    BY <2>3 DEF Knows, SendSteps, ReadSteps, ListSteps, BeginSteps
  <2>5. Start(s, q) /\ UNCHANGED tables
    BY <1>2 DEF BeginSend, tables
  <2> HIDE DEF q
  <2> QED BY <2>2, <2>4, <2>5
<1>3. ASSUME NEW b \in Chatting, NEW u \in Users, BeginRead(s, b, u)
      PROVE  \E q \in Request :
                /\ Start(s, q) /\ UNCHANGED tables
                /\ Knows(q) /\ q.step \in BeginSteps \ {"send.insert"}
  <2> DEFINE q == [step |-> "read.mark", buyer |-> b, user |-> u]
  <2>1. q \in Request
    BY UsersAssumption DEF Request
  <2>2. Knows(q) /\ q.step \in BeginSteps \ {"send.insert"}
    BY <1>3 DEF BeginRead, Knows, SendSteps, ReadSteps, ListSteps, BeginSteps
  <2>3. Start(s, q) /\ UNCHANGED tables
    BY <1>3 DEF BeginRead, tables
  <2> HIDE DEF q
  <2> QED BY <2>1, <2>2, <2>3
<1>4. ASSUME NEW b \in Chatting, BeginList(s, b)
      PROVE  \E q \in Request :
                /\ Start(s, q) /\ UNCHANGED tables
                /\ Knows(q) /\ q.step \in BeginSteps \ {"send.insert"}
  <2> DEFINE q == [step |-> "list.page", buyer |-> b, before |-> Visible(b),
                   cursor |-> MaxMessage + 1, items |-> <<>>]
  <2>1. Visible(b) \in SUBSET Stamps
    BY BoundsAssumption DEF Inv, TablesOK, Visible, Stamps
  <2>2. q \in Request
    <3>1. <<>> \in Seq(Stamps) /\ MaxMessage + 1 \in Nat /\ b \in Buyers
      BY BoundsAssumption, UsersAssumption
    <3> QED BY <2>1, <3>1 DEF Request
  <2>3. Paged(q)
    <3>1. AreIn(q.before, q.buyer)
      BY DEF AreIn, Visible
    <3>2. \A t \in q.before : ~(t >= q.cursor)
      BY <2>1, StampsAreNumbers, BoundsAssumption
    <3> QED BY <3>1, <3>2 DEF Paged
  <2>4. q.step = "list.page"
    OBVIOUS
  <2>5. Start(s, q) /\ UNCHANGED tables
    BY <1>4 DEF BeginList, tables
  <2> HIDE DEF q
  <2>6. Knows(q) /\ q.step \in BeginSteps \ {"send.insert"}
    BY <2>3, <2>4 DEF Knows, SendSteps, ReadSteps, ListSteps, BeginSteps
  <2> QED BY <2>2, <2>5, <2>6
<1> QED BY <1>1, <1>2, <1>3, <1>4 DEF Begin, RoomRoutes, MessageEvents

LEMMA BeginInv == ASSUME Inv, NEW s \in Slots, Begin(s) PROVE Inv'
<1>1. PICK q \in Request :
         Start(s, q) /\ UNCHANGED tables /\ Knows(q) /\ q.step \in BeginSteps
  BY BeginFacts
<1>2. Continue(s, q) /\ overlapped' \in BOOLEAN /\ q.step # "send.write"
  BY <1>1 DEF Start, BeginSteps, Inv, TablesOK
<1> QED BY <1>1, <1>2, Quiet

\* The next page continues where the last one ended.
LEMMA ReadPageFacts ==
    ASSUME Inv, NEW s \in Slots, ReadPage(s)
    PROVE  \E q \in Request :
              /\ Continue(s, q) /\ UNCHANGED <<tables, overlapped>>
              /\ Knows(q) /\ q.step \in ListSteps
<1> DEFINE r == request[s]
           older == {t \in Visible(r.buyer) : t < r.cursor}
           page == Newest(older, PageSize)
           cursor == IF page = <<>> THEN r.cursor ELSE Last(page)
           step == IF Cardinality(older) > PageSize THEN r.step ELSE "list.done"
           q == [step |-> step, buyer |-> r.buyer, before |-> r.before,
                 cursor |-> cursor, items |-> r.items \o page]
<1>1. /\ r \in Request /\ r.step = "list.page" /\ Paged(r)
      /\ r.buyer \in Buyers /\ r.before \in SUBSET Stamps
      /\ r.cursor \in Nat /\ r.items \in Seq(Stamps)
  BY RequestFields DEF Inv, ReadPage, At, Knows, ListSteps
<1>2. older \in SUBSET Stamps /\ PageSize \in Nat /\ PageSize >= 1
  BY BoundsAssumption DEF Inv, TablesOK, Visible, Stamps
<1>3. /\ page \in Seq(older)
      /\ Len(page) = IF PageSize < Cardinality(older) THEN PageSize ELSE Cardinality(older)
      /\ \A i, j \in 1..Len(page) : i < j => page[i] > page[j]
      /\ \A i \in 1..Len(page), t \in older :
            t >= page[i] => \E j \in 1..Len(page) : page[j] = t
      /\ Cardinality(older) <= PageSize =>
            \A t \in older : \E j \in 1..Len(page) : page[j] = t
  <2> HIDE DEF older
  <2> QED BY <1>2, PageFacts
<1>4. Continue(s, q) /\ UNCHANGED <<tables, overlapped>>
  BY DEF ReadPage, tables
<1> DEFINE items == r.items \o page
<1>5. Cardinality(older) \in Nat
  <2> HIDE DEF older
  <2> QED BY <1>2, NewerFacts
<1> HIDE DEF older, page
<1>6. page \in Seq(Stamps) /\ Len(page) \in Nat /\ \A i \in 1..Len(page) : page[i] \in older
  BY <1>2, <1>3
<1>7. /\ items \in Seq(Stamps)
      /\ Len(r.items) \in Nat /\ Len(items) = Len(r.items) + Len(page)
      /\ \A i \in 1..Len(r.items) : items[i] = r.items[i]
      /\ \A i \in 1..Len(page) : items[Len(r.items) + i] = page[i]
  BY <1>1, <1>6
<1> HIDE DEF items
<1>8. /\ cursor \in Nat /\ step \in ListSteps
      /\ page # <<>> => Len(page) >= 1 /\ cursor = page[Len(page)]
  <2>1. page # <<>> => Len(page) >= 1 /\ page[Len(page)] \in Stamps
    BY <1>6
  <2> QED BY <1>1, <2>1, StampsAreNumbers DEF Last, ListSteps
<1>9. q \in Request
  <2> HIDE DEF cursor, step
  <2> QED BY <1>1, <1>7, <1>8 DEF Request, ListSteps, items
<1>10. \A i \in 1..(Len(items) - 1) : items[i] > items[i + 1]
  <2> SUFFICES ASSUME NEW i \in 1..(Len(items) - 1) PROVE items[i] > items[i + 1]
    OBVIOUS
  <2>1. CASE i < Len(r.items)
    <3>1. /\ i \in 1..Len(r.items) /\ i + 1 \in 1..Len(r.items)
          /\ i \in 1..(Len(r.items) - 1)
      BY <1>7, <2>1
    <3>2. r.items[i] > r.items[i + 1]
      BY <1>1, <3>1 DEF Paged
    <3> QED BY <1>7, <3>1, <3>2
  <2>2. CASE i = Len(r.items)
    <3>1. i \in 1..Len(r.items) /\ 1 \in 1..Len(page) /\ r.items # <<>>
      BY <1>1, <1>6, <1>7, <2>2
    <3>2. items[i] = r.cursor
      BY <1>1, <1>7, <2>2, <3>1 DEF Paged
    <3>3. items[i + 1] = page[1] /\ page[1] \in older
      BY <1>6, <1>7, <2>2, <3>1
    <3>4. page[1] \in Nat /\ page[1] < r.cursor
      BY <1>2, <3>3, StampsAreNumbers DEF older
    <3> QED BY <1>1, <3>2, <3>3, <3>4
  <2>3. CASE i > Len(r.items)
    <3> DEFINE k == i - Len(r.items)
    <3>1. /\ k \in 1..Len(page) /\ k + 1 \in 1..Len(page) /\ k < k + 1
          /\ i = Len(r.items) + k /\ i + 1 = Len(r.items) + (k + 1)
      <4>1. /\ i \in Int /\ Len(r.items) \in Int /\ Len(page) \in Int
            /\ i < Len(r.items) + Len(page)
        BY <1>6, <1>7
      <4>2. \A a, b, c \in Int :
               a > b /\ a < b + c =>
                  /\ a - b \in 1..c /\ (a - b) + 1 \in 1..c /\ a + 1 = b + ((a - b) + 1)
                  /\ a - b < (a - b) + 1 /\ a = b + (a - b)
        OBVIOUS
      <4>3. k \in Int /\ k >= 1 /\ k < Len(page)
        BY <2>3, <4>1
      <4> QED BY <2>3, <4>1, <4>2
    <3> HIDE DEF k
    <3>2. page[k] > page[k + 1]
      BY <1>3, <3>1
    <3>3. items[i] = page[k] /\ items[i + 1] = page[k + 1]
      BY <1>7, <3>1
    <3> QED BY <3>2, <3>3
  <2> QED BY <1>6, <1>7, <2>1, <2>2, <2>3
<1>11. IF items = <<>> THEN cursor = MaxMessage + 1 ELSE cursor = items[Len(items)]
  <2>1. CASE page = <<>>
    <3>1. items = r.items /\ cursor = r.cursor
      BY <1>1, <2>1 DEF items
    <3> QED BY <1>1, <3>1 DEF Paged
  <2>2. CASE page # <<>>
    <3>1. Len(page) \in 1..Len(page) /\ Len(items) = Len(r.items) + Len(page)
      BY <1>6, <1>7, <1>8, <2>2
    <3>2. items[Len(items)] = page[Len(page)] /\ items # <<>>
      BY <1>6, <1>7, <3>1
    <3> QED BY <1>8, <2>2, <3>2
  <2> QED BY <2>1, <2>2
<1>12. ASSUME NEW t \in r.before \cap Visible(r.buyer), step = "list.done" \/ t >= cursor
       PROVE  Listed(items, t)
  <2>1. t \in Stamps /\ t \in Nat
    BY <1>1, StampsAreNumbers
  <2>2. CASE t >= r.cursor
    <3>1. PICK i \in DOMAIN r.items : r.items[i] = t
      BY <1>1, <1>12, <2>2 DEF Paged, Listed
    <3>2. i \in 1..Len(r.items) /\ i \in 1..Len(items)
      BY <1>1, <1>6, <1>7
    <3> QED BY <1>7, <3>1, <3>2 DEF Listed
  <2>3. CASE ~(t >= r.cursor)
    <3>1. t \in older
      BY <1>1, <1>12, <2>1, <2>3 DEF older
    <3>2. \E j \in 1..Len(page) : page[j] = t
      <4>1. CASE Cardinality(older) <= PageSize
        BY <1>3, <3>1, <4>1
      <4>2. CASE Cardinality(older) > PageSize
        <5>1. Len(page) = PageSize /\ page # <<>>
          BY <1>2, <1>3, <1>5, <4>2
        <5>2. t >= page[Len(page)] /\ Len(page) \in 1..Len(page)
          BY <1>1, <1>2, <1>8, <1>12, <4>2, <5>1
        <5> QED BY <1>3, <3>1, <5>2
      <4> QED BY <1>2, <1>5, <4>1, <4>2
    <3>3. PICK j \in 1..Len(page) : page[j] = t
      BY <3>2
    <3>4. Len(r.items) + j \in 1..Len(items) /\ items[Len(r.items) + j] = t
      BY <1>6, <1>7, <3>3
    <3> QED BY <1>7, <3>4 DEF Listed
  <2> QED BY <2>2, <2>3
<1>13. /\ q.step = step /\ q.buyer = r.buyer /\ q.before = r.before
       /\ q.cursor = cursor /\ q.items = items
  BY DEF items
<1> HIDE DEF q, cursor, step
<1>14. Paged(q)
  BY <1>1, <1>10, <1>11, <1>12, <1>13 DEF Paged
<1>15. Knows(q) /\ q.step \in ListSteps
  BY <1>8, <1>13, <1>14 DEF Knows, SendSteps, ReadSteps, ListSteps
<1> QED BY <1>4, <1>9, <1>15

LEMMA UnreadFacts ==
    ASSUME TablesOK, NEW b, NEW u
    PROVE  /\ UnreadFor(b, u) \in SUBSET Stamps /\ IsFiniteSet(UnreadFor(b, u))
           /\ Cardinality(UnreadFor(b, u)) \in Nat
           /\ AreIn(UnreadFor(b, u), b)
           /\ \A t \in UnreadFor(b, u) : message[t].sender # u
<1>1. UnreadFor(b, u) \in SUBSET Stamps
  BY BoundsAssumption DEF TablesOK, UnreadFor, Stamps
<1>2. IsFiniteSet(UnreadFor(b, u)) /\ Cardinality(UnreadFor(b, u)) \in Nat
  BY <1>1, NewerFacts
<1> QED BY <1>1, <1>2 DEF UnreadFor, AreIn

\* What a step leads to that leaves the tables as they are
LocalStep(s) ==
    \/ ReadForOpen(s) \/ MarkRead(s) \/ CountUnread(s) \/ ReadPage(s) \/ FinishList(s)
    \/ Crash(s)

LEMMA LocalFacts ==
    ASSUME Inv, NEW s \in Slots, LocalStep(s)
    PROVE  \E q \in Request :
              /\ Continue(s, q) /\ UNCHANGED <<tables, overlapped>>
              /\ Knows(q) /\ q.step \notin SendSteps \cup {"open.notify", "read.mark"}
<1> DEFINE r == request[s]
           Result == \E q \in Request :
                        /\ Continue(s, q) /\ UNCHANGED <<tables, overlapped>>
                        /\ Knows(q) /\ q.step \notin SendSteps \cup {"open.notify", "read.mark"}
<1>1. r \in Request /\ Knows(r) /\ TablesOK
  BY DEF Inv
<1>2. ASSUME Finish(s), UNCHANGED <<tables, overlapped>> PROVE Result
  BY <1>2, IdleIsRequest, IdleKnows DEF Finish, SendSteps
<1>3. CASE ReadForOpen(s)
  <2> DEFINE q == [step |-> "open.write", buyer |-> r.buyer, interested |-> listing.interested,
                   reminder |-> listing.reminder, deal |-> listing.deal]
  <2>1. (Finish(s) \/ Continue(s, q)) /\ UNCHANGED <<tables, overlapped>>
    BY <1>3 DEF ReadForOpen, tables
  <2>2. q \in Request
    BY <1>1, <1>3, RequestFields DEF ReadForOpen, At, TablesOK, Listing, Request
  <2>3. q.step = "open.write" /\ q.reminder <= q.interested
        /\ q.interested <= Cardinality(DOMAIN room)
    BY <1>1 DEF TablesOK, Counted
  <2> HIDE DEF q
  <2>4. Knows(q) /\ q.step \notin SendSteps \cup {"open.notify", "read.mark"}
    BY <2>3 DEF Knows, SendSteps, ReadSteps, ListSteps
  <2> QED BY <1>2, <2>1, <2>2, <2>4
<1>4. CASE MarkRead(s)
  <2> DEFINE marked == UnreadFor(r.buyer, r.user)
             q == [step |-> "read.count", buyer |-> r.buyer, user |-> r.user, marked |-> marked]
  <2>1. Continue(s, q) /\ UNCHANGED <<tables, overlapped>>
    BY <1>4 DEF MarkRead, tables
  <2>2. /\ r.step = "read.mark" /\ r.buyer \in Buyers /\ r.user \in Users
        /\ r.buyer \in DOMAIN room /\ r.user \in Participants(r.buyer)
    BY <1>1, <1>4, RequestFields DEF MarkRead, At, Knows, ReadSteps
  <2>3. /\ marked \in SUBSET Stamps /\ AreIn(marked, r.buyer)
        /\ \A t \in marked : message[t].sender # r.user
    BY <1>1, UnreadFacts
  <2> HIDE DEF marked
  <2>4. q \in Request
    BY <2>2, <2>3 DEF Request
  <2>5. Knows(q) /\ q.step \notin SendSteps \cup {"open.notify", "read.mark"}
    BY <2>2, <2>3 DEF Knows, SendSteps, ReadSteps, ListSteps
  <2> HIDE DEF q
  <2> QED BY <2>1, <2>4, <2>5
<1>5. CASE CountUnread(s)
  <2> DEFINE unread == UnreadFor(r.buyer, r.user)
             q == [step |-> "read.write", buyer |-> r.buyer, user |-> r.user,
                   marked |-> r.marked, remaining |-> Cardinality(unread \ r.marked)]
  <2>1. Continue(s, q) /\ UNCHANGED <<tables, overlapped>>
    BY <1>5 DEF CountUnread, tables
  <2>2. /\ r.step = "read.count" /\ r.buyer \in Buyers /\ r.user \in Users
        /\ r.marked \in SUBSET Stamps
        /\ r.buyer \in DOMAIN room /\ r.user \in Participants(r.buyer)
        /\ AreIn(r.marked, r.buyer) /\ \A t \in r.marked : message[t].sender # r.user
    BY <1>1, <1>5, RequestFields DEF CountUnread, At, Knows, ReadSteps
  <2>3. Cardinality(unread \ r.marked) \in Nat
    <3>1. IsFiniteSet(unread)
      BY <1>1, UnreadFacts
    <3> HIDE DEF unread
    <3> QED BY <3>1, FS_Difference, FS_CardinalityType
  <2>4. q \in Request
    <3> HIDE DEF unread
    <3> QED BY <2>2, <2>3 DEF Request
  <2>5. Knows(q) /\ q.step \notin SendSteps \cup {"open.notify", "read.mark"}
    BY <2>2 DEF Knows, SendSteps, ReadSteps, ListSteps
  <2> HIDE DEF q
  <2> QED BY <2>1, <2>4, <2>5
<1>6. CASE ReadPage(s)
  BY <1>6, ReadPageFacts DEF ListSteps, SendSteps
<1>7. CASE FinishList(s) \/ Crash(s)
  <2>1. Finish(s) /\ UNCHANGED <<tables, overlapped>>
    BY <1>7 DEF FinishList, Crash, tables
  <2> QED BY <1>2, <2>1
<1> QED BY <1>3, <1>4, <1>5, <1>6, <1>7 DEF LocalStep

LEMMA LocalInv == ASSUME Inv, NEW s \in Slots, LocalStep(s) PROVE Inv'
<1>1. PICK q \in Request :
         /\ Continue(s, q) /\ UNCHANGED <<tables, overlapped>>
         /\ Knows(q) /\ q.step \notin SendSteps
  BY LocalFacts
<1> QED BY <1>1, Quiet DEF Inv, TablesOK, SendSteps

-----------------------------------------------------------------------------
(* The steps that write                                                      *)

\* A buyer opens a room: one room and one more interested buyer, at most.
LEMMA OpenFacts ==
    ASSUME Inv, NEW s \in Slots, WriteOpen(s), request[s].buyer \notin DOMAIN room
    PROVE  LET r == request[s]
               q == IF ShouldNotify(r) THEN [step |-> "open.notify"] ELSE Idle
           IN  /\ r.buyer \in Buyers
               /\ r.interested \in Nat /\ r.reminder \in Nat
               /\ r.reminder <= r.interested /\ r.interested <= Cardinality(DOMAIN room)
               /\ DOMAIN room' = DOMAIN room \cup {r.buyer} /\ IsFiniteSet(DOMAIN room')
               /\ Cardinality(DOMAIN room) \in Nat
               /\ Cardinality(DOMAIN room') = Cardinality(DOMAIN room) + 1
               /\ \A b \in DOMAIN room : room'[b] = room[b]
               /\ room'[r.buyer] = [unreadBuyer |-> 0, unreadSeller |-> 0, last |-> NoMessage]
               /\ listing'.interested = r.interested + 1
               /\ listing'.reminder = IF ShouldNotify(r) THEN r.interested + 1 ELSE r.reminder
               /\ listing' \in Listing
               /\ q \in Request /\ Continue(s, q)
               /\ UNCHANGED <<reminders, message, clock, lease, overlapped>>
<1> DEFINE r == request[s]
           q == IF ShouldNotify(r) THEN [step |-> "open.notify"] ELSE Idle
<1>1. /\ TablesOK
      /\ r.buyer \in Buyers /\ r.interested \in Nat /\ r.reminder \in Nat
      /\ r.reminder <= r.interested /\ r.interested <= Cardinality(DOMAIN room)
  <2>1. r \in Request /\ r.step = "open.write" /\ Knows(r) /\ TablesOK
    BY DEF Inv, WriteOpen, At
  <2> QED BY <2>1, RequestFields DEF Knows
<1>2. /\ room' = WithRow(room, r.buyer, [unreadBuyer |-> 0, unreadSeller |-> 0,
                                         last |-> NoMessage])
      /\ listing' = [listing EXCEPT
                        !.interested = r.interested + 1,
                        !.reminder = IF ShouldNotify(r) THEN r.interested + 1 ELSE r.reminder]
      /\ Continue(s, q)
      /\ UNCHANGED <<reminders, message, clock, lease, overlapped>>
  BY DEF WriteOpen, Finish
<1>3. q \in Request
  BY IdleIsRequest DEF Request
<1>4. /\ DOMAIN room' = DOMAIN room \cup {r.buyer}
      /\ \A b \in DOMAIN room : room'[b] = room[b]
      /\ room'[r.buyer] = [unreadBuyer |-> 0, unreadSeller |-> 0, last |-> NoMessage]
  BY <1>2 DEF WithRow
<1>5. /\ Cardinality(DOMAIN room) \in Nat /\ IsFiniteSet(DOMAIN room')
      /\ Cardinality(DOMAIN room') = Cardinality(DOMAIN room) + 1
  BY <1>1, <1>4, FS_AddElement, FS_CardinalityType DEF TablesOK
<1>6. /\ listing'.interested = r.interested + 1
      /\ listing'.reminder = IF ShouldNotify(r) THEN r.interested + 1 ELSE r.reminder
      /\ listing' \in Listing
  <2> DEFINE reminder == IF ShouldNotify(r) THEN r.interested + 1 ELSE r.reminder
  <2>1. r.interested + 1 \in Nat /\ reminder \in Nat
    BY <1>1
  <2>2. listing \in Listing
    BY <1>1 DEF TablesOK
  <2>3. listing' = [listing EXCEPT !.interested = r.interested + 1, !.reminder = reminder]
    BY <1>2
  <2> HIDE DEF reminder
  <2>4. /\ listing'.interested = r.interested + 1 /\ listing'.reminder = reminder
        /\ listing' \in Listing
    BY <2>1, <2>2, <2>3 DEF Listing
  <2> QED BY <2>4 DEF reminder
<1> QED BY <1>1, <1>2, <1>3, <1>4, <1>5, <1>6

LEMMA OpenInv == ASSUME Inv, NEW s \in Slots, WriteOpen(s) PROVE Inv'
<1> DEFINE r == request[s]
<1>1. CASE r.buyer \in DOMAIN room
  <2>1. Continue(s, Idle) /\ UNCHANGED <<tables, overlapped>>
    BY <1>1 DEF WriteOpen, Finish, tables
  <2> QED BY <2>1, IdleIsRequest, IdleKnows, Quiet DEF Inv, TablesOK
<1>2. CASE r.buyer \notin DOMAIN room
  <2> DEFINE q == IF ShouldNotify(r) THEN [step |-> "open.notify"] ELSE Idle
  <2>1. /\ r.buyer \in Buyers
        /\ r.interested \in Nat /\ r.reminder \in Nat
        /\ r.reminder <= r.interested /\ r.interested <= Cardinality(DOMAIN room)
        /\ DOMAIN room' = DOMAIN room \cup {r.buyer} /\ IsFiniteSet(DOMAIN room')
        /\ Cardinality(DOMAIN room) \in Nat
        /\ Cardinality(DOMAIN room') = Cardinality(DOMAIN room) + 1
        /\ \A b \in DOMAIN room : room'[b] = room[b]
        /\ room'[r.buyer] = [unreadBuyer |-> 0, unreadSeller |-> 0, last |-> NoMessage]
        /\ listing'.interested = r.interested + 1
        /\ listing'.reminder = IF ShouldNotify(r) THEN r.interested + 1 ELSE r.reminder
        /\ listing' \in Listing
        /\ q \in Request /\ Continue(s, q)
        /\ UNCHANGED <<reminders, message, clock, lease, overlapped>>
    BY <1>2, OpenFacts
  <2>2. Counted'
    BY <2>1 DEF Counted
  <2>3. Sent'
    BY <2>1 DEF Inv, TablesOK, Sent, MaySend
  <2>4. TablesOK'
    <3>1. [unreadBuyer |-> 0, unreadSeller |-> 0, last |-> NoMessage] \in Room
      BY DEF Room, NoMessage
    <3> QED BY <2>1, <2>2, <2>3, <3>1 DEF Inv, TablesOK
  <2>5. Grows
    BY <2>1 DEF Grows, Inv, TablesOK
  <2>6. q.step \in {"idle", "open.notify"}
    BY IdleIsRequest
  <2> HIDE DEF q
  <2>7. PICK p \in Request : p = q
    BY <2>1
  <2>8. Knows(p)'
    BY <2>6, <2>7 DEF Knows, SendSteps, ReadSteps, ListSteps
  <2>9. \A t \in Slots : At(t, "send.write") => request[t].createdAt \notin DOMAIN message'
    BY <2>1 DEF Inv, Knows, At
  <2> QED BY <2>1, <2>4, <2>5, <2>6, <2>7, <2>8, <2>9, GoesOn
<1> QED BY <1>1, <1>2

LEMMA NotifyInv == ASSUME Inv, NEW s \in Slots, NotifySeller(s) PROVE Inv'
<1>1. /\ Continue(s, Idle) /\ reminders' = reminders + 1
      /\ UNCHANGED <<listing, room, message, clock, lease, overlapped>>
  BY DEF NotifySeller, Finish
<1>2. TablesOK' /\ Grows
  BY <1>1 DEF Inv, TablesOK, Sent, Counted, MaySend, Grows
<1>3. Knows(Idle)'
  BY IdleIsRequest DEF Knows, SendSteps, ReadSteps, ListSteps
<1>4. \A t \in Slots : At(t, "send.write") => request[t].createdAt \notin DOMAIN message'
  BY <1>1 DEF Inv, Knows, At
<1> QED BY <1>1, <1>2, <1>3, <1>4, IdleIsRequest, GoesOn

\* What a handler that reserves a key knows: the key is held, by another or by itself.
LEMMA ReserveFacts ==
    ASSUME Inv, NEW s \in Slots, Reserve(s)
    PROVE  LET m == request[s].msg
               k == ScopedKey(m)
               q == [step |-> "send.insert", msg |-> [m EXCEPT !.lease = lease[k].count + 1]]
           IN  /\ m \in Sending /\ MaySend(m.buyer, m.sender, m.key)
               /\ m.key # NoKey /\ k \in Scoped
               /\ UNCHANGED <<listing, reminders, room, message, clock, overlapped>>
               /\ \/ Continue(s, Idle) /\ UNCHANGED lease
                  \/ /\ lease' = [lease EXCEPT ![k] = [count |-> @.count + 1, held |-> TRUE]]
                     /\ Continue(s, q)
BY RequestFields DEF Inv, Reserve, At, Knows, SendSteps, Finish, MaySend, Sending, ScopedKey,
                     Scoped

LEMMA ReserveInv == ASSUME Inv, NEW s \in Slots, Reserve(s) PROVE Inv'
<1> DEFINE m == request[s].msg
           k == ScopedKey(m)
           msg == [m EXCEPT !.lease = lease[k].count + 1]
           q == [step |-> "send.insert", msg |-> msg]
<1>1. /\ m \in Sending /\ MaySend(m.buyer, m.sender, m.key)
      /\ k \in Scoped
      /\ UNCHANGED <<listing, reminders, room, message, clock, overlapped>>
      /\ \/ Continue(s, Idle) /\ UNCHANGED lease
         \/ /\ lease' = [lease EXCEPT ![k] = [count |-> @.count + 1, held |-> TRUE]]
            /\ Continue(s, q)
  BY ReserveFacts
<1>2. \A t \in Slots : At(t, "send.write") => request[t].createdAt \notin DOMAIN message'
  BY <1>1 DEF Inv, Knows, At
<1>3. lease[k] \in [count : Nat, held : BOOLEAN]
  BY <1>1 DEF Inv, TablesOK
<1>4. /\ msg \in Sending /\ msg.buyer = m.buyer /\ msg.sender = m.sender /\ msg.key = m.key
  <2>1. lease[k].count + 1 \in Nat
    BY <1>3
  <2> HIDE DEF m, k
  <2> QED BY <1>1, <2>1 DEF Sending
<1>5. TablesOK' /\ Grows
  <2>1. lease' \in [Scoped -> [count : Nat, held : BOOLEAN]]
    <3>1. lease \in [Scoped -> [count : Nat, held : BOOLEAN]]
      BY DEF Inv, TablesOK
    <3>2. [count |-> lease[k].count + 1, held |-> TRUE] \in [count : Nat, held : BOOLEAN]
      BY <1>3
    <3>3. \/ lease' = lease
          \/ lease' = [lease EXCEPT ![k] = [count |-> lease[k].count + 1, held |-> TRUE]]
      BY <1>1
    <3> HIDE DEF k, q
    <3> QED BY <1>1, <3>1, <3>2, <3>3
  <2> QED BY <1>1, <2>1 DEF Inv, TablesOK, Sent, Counted, MaySend, Grows
<1>6. CASE Continue(s, Idle)
  <2>1. Knows(Idle)'
    BY IdleIsRequest DEF Knows, SendSteps, ReadSteps, ListSteps
  <2> QED BY <1>2, <1>5, <1>6, <2>1, IdleIsRequest, GoesOn
<1>7. CASE Continue(s, q)
  <2>1. q \in Request /\ q.step = "send.insert" /\ q.msg = msg
    <3> HIDE DEF msg
    <3> QED BY <1>4 DEF Request
  <2>2. MaySend(q.msg.buyer, q.msg.sender, q.msg.key)
    BY <1>1, <1>4
  <2> HIDE DEF q
  <2>3. PICK p \in Request : p = q
    BY <2>1
  <2>4. Knows(p)'
    BY <1>1, <2>1, <2>2, <2>3 DEF Knows, MaySend, SendSteps, ReadSteps, ListSteps
  <2> QED BY <1>2, <1>5, <1>7, <2>1, <2>3, <2>4, GoesOn
<1> QED BY <1>1, <1>6, <1>7

\* An insert takes the next stamp, and the counters of the room.
LEMMA InsertFacts ==
    ASSUME Inv, NEW s \in Slots, InsertMessage(s)
    PROVE  LET m == request[s].msg
           IN  /\ m \in Sending /\ MaySend(m.buyer, m.sender, m.key) /\ At(s, "send.insert")
               /\ clock \in Nat /\ clock < MaxMessage /\ clock' = clock + 1
               /\ UNCHANGED <<listing, reminders, room, message, lease, overlapped>>
               /\ \E q \in Request :
                     /\ Continue(s, q) /\ q.step = "send.write"
                     /\ q.msg = m /\ q.createdAt = clock + 1
                     /\ q.unreadBuyer = room[m.buyer].unreadBuyer
                     /\ q.unreadSeller = room[m.buyer].unreadSeller
<1> DEFINE r == request[s]
           m == r.msg
           q == [step |-> "send.write", msg |-> m, createdAt |-> clock + 1,
                 unreadBuyer |-> room[m.buyer].unreadBuyer,
                 unreadSeller |-> room[m.buyer].unreadSeller]
<1>1. /\ r \in Request /\ r.step = "send.insert" /\ Knows(r) /\ TablesOK
  BY DEF Inv, InsertMessage, At
<1>2. m \in Sending /\ MaySend(m.buyer, m.sender, m.key)
  BY <1>1, RequestFields DEF Knows, SendSteps
<1>3. /\ clock \in Nat /\ clock < MaxMessage /\ clock' = clock + 1
      /\ UNCHANGED <<listing, reminders, room, message, lease, overlapped>>
      /\ Continue(s, q)
  BY <1>1 DEF InsertMessage, TablesOK
<1>4. room[m.buyer] \in Room /\ clock + 1 \in Stamps
  BY <1>1, <1>2, <1>3, BoundsAssumption DEF TablesOK, MaySend, Stamps
<1>5. q \in Request
  <2> HIDE DEF m
  <2>1. room[m.buyer].unreadBuyer \in Nat /\ room[m.buyer].unreadSeller \in Nat
    BY <1>4 DEF Room
  <2> QED BY <1>2, <1>4, <2>1 DEF Request
<1> QED BY <1>1, <1>2, <1>3, <1>5 DEF At

LEMMA InsertInv == ASSUME Inv, NEW s \in Slots, InsertMessage(s) PROVE Inv'
<1> DEFINE m == request[s].msg
<1>1. /\ m \in Sending /\ MaySend(m.buyer, m.sender, m.key)
      /\ clock \in Nat /\ clock < MaxMessage /\ clock' = clock + 1
      /\ UNCHANGED <<listing, reminders, room, message, lease, overlapped>>
  BY InsertFacts
<1>2. PICK q \in Request :
         /\ Continue(s, q) /\ q.step = "send.write"
         /\ q.msg = m /\ q.createdAt = clock + 1
  BY InsertFacts
<1>3. TablesOK' /\ Grows
  BY <1>1, BoundsAssumption DEF Inv, TablesOK, Sent, Counted, MaySend, Grows
<1>4. Knows(q)'
  <2>1. clock + 1 \in (1..clock') \ DOMAIN message'
    BY <1>1 DEF Inv, TablesOK
  <2>2. MaySend(q.msg.buyer, q.msg.sender, q.msg.key)'
    BY <1>1, <1>2 DEF MaySend
  <2> QED BY <1>2, <2>1, <2>2 DEF Knows, SendSteps, ReadSteps, ListSteps
<1>5. ASSUME NEW t \in Slots, At(t, "send.write")
      PROVE  request[t].createdAt \notin DOMAIN message' /\ request[t].createdAt # q.createdAt
  BY <1>1, <1>2, <1>5 DEF Inv, Knows, At
<1> QED BY <1>2, <1>3, <1>4, <1>5, GoesOn

\* A message becomes visible, with the counters that were read at its insert.
LEMMA MessageFacts ==
    ASSUME Inv, NEW s \in Slots, WriteMessage(s)
    PROVE  LET q == request[s]
               b == q.msg.buyer
               mine == q.msg.sender = b
           IN  /\ q \in Request /\ q.step = "send.write" /\ Knows(q) /\ Continue(s, Idle)
               /\ q.msg \in Sending /\ MaySend(b, q.msg.sender, q.msg.key)
               /\ q.createdAt \in 1..clock /\ q.createdAt \notin DOMAIN message
               /\ q.unreadBuyer \in Nat /\ q.unreadSeller \in Nat
               /\ UNCHANGED <<listing, reminders, clock, lease, overlapped>>
               /\ DOMAIN message' = DOMAIN message \cup {q.createdAt}
               /\ \A t \in DOMAIN message : message'[t] = message[t]
               /\ message'[q.createdAt] = Row(q.msg)
               /\ DOMAIN room' = DOMAIN room /\ b \in DOMAIN room
               /\ \A c \in DOMAIN room : c # b => room'[c] = room[c]
               /\ room'[b] \in Room
               /\ room'[b].unreadBuyer = q.unreadBuyer + (IF mine THEN 0 ELSE 1)
               /\ room'[b].unreadSeller = q.unreadSeller + (IF mine THEN 1 ELSE 0)
<1> DEFINE q == request[s]
           b == q.msg.buyer
           mine == q.msg.sender = b
<1>1. /\ q \in Request /\ q.step = "send.write" /\ Knows(q) /\ TablesOK
  BY DEF Inv, WriteMessage, At
<1>2. /\ q.msg \in Sending /\ MaySend(b, q.msg.sender, q.msg.key) /\ b \in DOMAIN room
      /\ q.createdAt \in 1..clock /\ q.createdAt \notin DOMAIN message
      /\ q.createdAt \in Stamps /\ q.unreadBuyer \in Nat /\ q.unreadSeller \in Nat
  BY <1>1, RequestFields DEF Knows, SendSteps, MaySend
<1>3. /\ message' = WithRow(message, q.createdAt, Row(q.msg))
      /\ room' = [room EXCEPT ![b] =
                    [unreadBuyer |-> q.unreadBuyer + (IF mine THEN 0 ELSE 1),
                     unreadSeller |-> q.unreadSeller + (IF mine THEN 1 ELSE 0),
                     last |-> q.createdAt]]
      /\ UNCHANGED <<listing, reminders, clock, lease, overlapped>> /\ Continue(s, Idle)
  BY DEF WriteMessage, Finish
<1>4. /\ DOMAIN message' = DOMAIN message \cup {q.createdAt}
      /\ \A t \in DOMAIN message : message'[t] = message[t]
      /\ message'[q.createdAt] = Row(q.msg)
  BY <1>2, <1>3 DEF WithRow
<1>5. /\ DOMAIN room' = DOMAIN room
      /\ \A c \in DOMAIN room : c # b => room'[c] = room[c]
      /\ room'[b] \in Room
      /\ room'[b].unreadBuyer = q.unreadBuyer + (IF mine THEN 0 ELSE 1)
      /\ room'[b].unreadSeller = q.unreadSeller + (IF mine THEN 1 ELSE 0)
  <2> DEFINE row == [unreadBuyer |-> q.unreadBuyer + (IF mine THEN 0 ELSE 1),
                     unreadSeller |-> q.unreadSeller + (IF mine THEN 1 ELSE 0),
                     last |-> q.createdAt]
  <2>1. row \in Room
    BY <1>2 DEF Room
  <2>2. DOMAIN room' = DOMAIN room /\ room'[b] = row
        /\ \A c \in DOMAIN room : c # b => room'[c] = room[c]
    BY <1>2, <1>3
  <2> QED BY <2>1, <2>2
<1> QED BY <1>1, <1>2, <1>3, <1>4, <1>5

LEMMA MessageInv == ASSUME Inv, NEW s \in Slots, WriteMessage(s) PROVE Inv'
<1> DEFINE q == request[s]
           b == q.msg.buyer
<1>1. /\ q \in Request /\ q.step = "send.write" /\ Knows(q) /\ Continue(s, Idle)
      /\ q.msg \in Sending /\ MaySend(b, q.msg.sender, q.msg.key)
      /\ q.createdAt \in 1..clock /\ q.createdAt \notin DOMAIN message
      /\ UNCHANGED <<listing, reminders, clock, lease, overlapped>>
      /\ DOMAIN message' = DOMAIN message \cup {q.createdAt}
      /\ \A t \in DOMAIN message : message'[t] = message[t]
      /\ message'[q.createdAt] = Row(q.msg)
      /\ DOMAIN room' = DOMAIN room /\ b \in DOMAIN room
      /\ \A c \in DOMAIN room : c # b => room'[c] = room[c]
      /\ room'[b] \in Room
  BY MessageFacts
<1>2. Row(q.msg) \in Message
  <2>1. b \in Buyers
    BY <1>1, UsersAssumption DEF MaySend
  <2> HIDE DEF q
  <2> QED BY <1>1, <2>1 DEF Row, Message, Sending
<1>3. Row(q.msg).room = b /\ Row(q.msg).sender = q.msg.sender /\ Row(q.msg).key = q.msg.key
  BY DEF Row
<1>4. Sent'
  <2>1. \A t \in DOMAIN message' :
           MaySend(message'[t].room, message'[t].sender, message'[t].key)
    BY <1>1, <1>3 DEF Inv, TablesOK, Sent
  <2> QED BY <1>1, <2>1 DEF Sent, MaySend
<1>5. TablesOK' /\ Grows
  <2>1. \A c \in DOMAIN room' : room'[c] \in Room
    BY <1>1 DEF Inv, TablesOK
  <2>2. \A t \in DOMAIN message' : message'[t] \in Message
    BY <1>1, <1>2 DEF Inv, TablesOK
  <2> QED BY <1>1, <1>4, <2>1, <2>2 DEF Inv, TablesOK, Counted, Grows
<1>6. Knows(Idle)'
  BY IdleIsRequest DEF Knows, SendSteps, ReadSteps, ListSteps
<1>7. \A t \in Slots \ {s} : At(t, "send.write") => request[t].createdAt \notin DOMAIN message'
  BY <1>1 DEF Inv, Knows, Distinct, At
<1> QED BY <1>1, <1>5, <1>6, <1>7, IdleIsRequest, GoesOn

\* The messages that were marked are read, and the counter is what remained.
LEMMA ReadFacts ==
    ASSUME Inv, NEW s \in Slots, WriteRead(s)
    PROVE  LET q == request[s]
               b == q.buyer
           IN  /\ q \in Request /\ q.step = "read.write" /\ Knows(q) /\ Continue(s, Idle)
               /\ b \in DOMAIN room /\ q.user \in Participants(b)
               /\ AreIn(q.marked, b) /\ \A t \in q.marked : message[t].sender # q.user
               /\ q.remaining \in Nat
               /\ UNCHANGED <<listing, reminders, clock, lease, overlapped>>
               /\ DOMAIN message' = DOMAIN message
               /\ \A t \in DOMAIN message :
                     message'[t] = IF t \in q.marked THEN [message[t] EXCEPT !.isRead = TRUE]
                                   ELSE message[t]
               /\ DOMAIN room' = DOMAIN room
               /\ \A c \in DOMAIN room : c # b => room'[c] = room[c]
               /\ room'[b] = IF q.user = b THEN [room[b] EXCEPT !.unreadBuyer = q.remaining]
                             ELSE [room[b] EXCEPT !.unreadSeller = q.remaining]
<1> DEFINE q == request[s]
           b == q.buyer
<1>1. /\ q \in Request /\ q.step = "read.write" /\ Knows(q)
  BY DEF Inv, WriteRead, At
<1>2. /\ b \in DOMAIN room /\ q.user \in Participants(b)
      /\ AreIn(q.marked, b) /\ \A t \in q.marked : message[t].sender # q.user
      /\ q.remaining \in Nat
  BY <1>1, RequestFields DEF Knows, ReadSteps
<1>3. /\ message' = [t \in DOMAIN message |->
                        IF t \in q.marked THEN [message[t] EXCEPT !.isRead = TRUE]
                        ELSE message[t]]
      /\ room' = IF q.user = b THEN [room EXCEPT ![b].unreadBuyer = q.remaining]
                 ELSE [room EXCEPT ![b].unreadSeller = q.remaining]
      /\ Continue(s, Idle) /\ UNCHANGED <<listing, reminders, clock, lease, overlapped>>
  BY DEF WriteRead, Finish
<1>4. /\ DOMAIN room' = DOMAIN room
      /\ \A c \in DOMAIN room : c # b => room'[c] = room[c]
      /\ room'[b] = IF q.user = b THEN [room[b] EXCEPT !.unreadBuyer = q.remaining]
                    ELSE [room[b] EXCEPT !.unreadSeller = q.remaining]
  BY <1>2, <1>3
<1> QED BY <1>1, <1>2, <1>3, <1>4

LEMMA ReadInv == ASSUME Inv, NEW s \in Slots, WriteRead(s) PROVE Inv'
<1> DEFINE q == request[s]
           b == q.buyer
<1>1. /\ Continue(s, Idle) /\ b \in DOMAIN room /\ q.remaining \in Nat
      /\ UNCHANGED <<listing, reminders, clock, lease, overlapped>>
      /\ DOMAIN message' = DOMAIN message
      /\ \A t \in DOMAIN message :
            message'[t] = IF t \in q.marked THEN [message[t] EXCEPT !.isRead = TRUE]
                          ELSE message[t]
      /\ DOMAIN room' = DOMAIN room
      /\ \A c \in DOMAIN room : c # b => room'[c] = room[c]
      /\ room'[b] = IF q.user = b THEN [room[b] EXCEPT !.unreadBuyer = q.remaining]
                    ELSE [room[b] EXCEPT !.unreadSeller = q.remaining]
  BY ReadFacts
<1>2. \A c \in DOMAIN room' : room'[c] \in Room
  <2>1. room[b] \in Room
    BY <1>1 DEF Inv, TablesOK
  <2>2. /\ [room[b] EXCEPT !.unreadBuyer = q.remaining] \in Room
        /\ [room[b] EXCEPT !.unreadSeller = q.remaining] \in Room
    BY <1>1, <2>1 DEF Room
  <2> QED BY <1>1, <2>2 DEF Inv, TablesOK
<1>3. \A t \in DOMAIN message :
         /\ message'[t] \in Message /\ message'[t].room = message[t].room
         /\ message'[t].sender = message[t].sender /\ message'[t].key = message[t].key
         /\ message'[t].isHidden = message[t].isHidden
  <2> SUFFICES ASSUME NEW t \in DOMAIN message
               PROVE  /\ message'[t] \in Message /\ message'[t].room = message[t].room
                      /\ message'[t].sender = message[t].sender
                      /\ message'[t].key = message[t].key
                      /\ message'[t].isHidden = message[t].isHidden
    OBVIOUS
  <2>1. message[t] \in Message
    BY DEF Inv, TablesOK
  <2>2. message'[t] = message[t] \/ message'[t] = [message[t] EXCEPT !.isRead = TRUE]
    BY <1>1
  <2> QED BY <2>1, <2>2 DEF Message
<1>4. TablesOK' /\ Grows
  <2>1. Sent'
    BY <1>1, <1>3 DEF Inv, TablesOK, Sent, MaySend
  <2> QED BY <1>1, <1>2, <1>3, <2>1 DEF Inv, TablesOK, Counted, Grows
<1>5. Knows(Idle)'
  BY IdleIsRequest DEF Knows, SendSteps, ReadSteps, ListSteps
<1>6. \A t \in Slots : At(t, "send.write") => request[t].createdAt \notin DOMAIN message'
  BY <1>1 DEF Inv, Knows, At
<1> QED BY <1>1, <1>4, <1>5, <1>6, IdleIsRequest, GoesOn

\* A key expires, a message is hidden, a deal begins or ends.
LEMMA ElsewhereInv == ASSUME Inv, Elsewhere PROVE Inv'
<1>1. ASSUME NEW k \in Scoped, Expire(k) PROVE Inv'
  <2>1. /\ lease' = [lease EXCEPT ![k].held = FALSE]
        /\ UNCHANGED <<listing, reminders, room, message, clock, request, overlapped>>
    BY <1>1 DEF Expire
  <2>2. lease' \in [Scoped -> [count : Nat, held : BOOLEAN]]
    BY <2>1 DEF Inv, TablesOK
  <2>3. TablesOK' /\ Grows
    BY <2>1, <2>2 DEF Inv, TablesOK, Sent, Counted, MaySend, Grows
  <2> QED BY <2>1, <2>3, FromElsewhere
<1>2. ASSUME NEW t \in Stamps, HideMessage(t) PROVE Inv'
  <2>1. /\ t \in DOMAIN message
        /\ message' = [message EXCEPT ![t].isHidden = TRUE]
        /\ UNCHANGED <<listing, reminders, room, clock, lease, request, overlapped>>
    BY <1>2 DEF HideMessage
  <2>2. DOMAIN message' = DOMAIN message
    BY <2>1
  <2>3. \A u \in DOMAIN message :
           /\ message'[u] \in Message /\ message'[u].room = message[u].room
           /\ message'[u].sender = message[u].sender /\ message'[u].key = message[u].key
           /\ message[u].isHidden => message'[u].isHidden
    BY <2>1 DEF Inv, TablesOK, Message
  <2>4. TablesOK' /\ Grows
    <3>1. Sent'
      BY <2>1, <2>2, <2>3 DEF Inv, TablesOK, Sent, MaySend
    <3>2. TablesOK'
      BY <2>1, <2>2, <2>3, <3>1 DEF Inv, TablesOK, Counted
    <3>3. /\ DOMAIN room \subseteq DOMAIN room' /\ clock' = clock
          /\ \A u \in DOMAIN message : u \in DOMAIN message'
      BY <2>1, <2>2
    <3>4. clock <= clock'
      BY <3>3 DEF Inv, TablesOK
    <3> QED BY <2>3, <3>2, <3>3, <3>4 DEF Grows
  <2> QED BY <2>1, <2>2, <2>4, FromElsewhere
<1>3. ASSUME NEW deal \in BOOLEAN, SetDeal(deal) PROVE Inv'
  <2>1. /\ listing' = [listing EXCEPT !.deal = deal]
        /\ UNCHANGED <<reminders, room, message, clock, lease, request, overlapped>>
    BY <1>3 DEF SetDeal
  <2>2. /\ listing' \in Listing /\ listing'.reminder = listing.reminder
        /\ listing'.interested = listing.interested
    BY <2>1 DEF Inv, TablesOK, Listing
  <2>3. TablesOK' /\ Grows
    BY <2>1, <2>2 DEF Inv, TablesOK, Sent, Counted, MaySend, Grows
  <2> QED BY <2>1, <2>3, FromElsewhere
<1> QED BY <1>1, <1>2, <1>3 DEF Elsewhere

LEMMA InitInv == Init => Inv
<1> SUFFICES ASSUME Init PROVE Inv
  OBVIOUS
<1>1. DOMAIN room = {} /\ DOMAIN message = {} /\ listing \in Listing
  BY DEF Init, Listing
<1>2. IsFiniteSet(DOMAIN room) /\ Cardinality(DOMAIN room) = 0
  BY <1>1, FS_EmptySet
<1>3. lease \in [Scoped -> [count : Nat, held : BOOLEAN]]
  BY DEF Init
<1>4. Counted
  BY <1>2 DEF Init, Counted
<1>5. TablesOK
  <2>1. reminders \in Nat /\ overlapped \in BOOLEAN
    BY DEF Init
  <2>2. clock \in 0..MaxMessage
    BY BoundsAssumption DEF Init
  <2>3. /\ DOMAIN room \subseteq Buyers /\ \A b \in DOMAIN room : room[b] \in Room
        /\ DOMAIN message \subseteq 1..clock
        /\ \A t \in DOMAIN message : message[t] \in Message
    BY <1>1
  <2>4. Sent
    BY <1>1 DEF Sent
  <2> QED BY <1>1, <1>2, <1>3, <1>4, <2>1, <2>2, <2>3, <2>4 DEF TablesOK
<1>6. /\ request \in [Slots -> Request]
      /\ \A s \in Slots : request[s] = Idle
  BY IdleIsRequest DEF Init
<1>7. Distinct
  BY <1>6, IdleIsRequest DEF Distinct, At
<1> QED BY <1>5, <1>6, <1>7, IdleKnows DEF Inv

LEMMA StepInv == ASSUME Inv, NEW s \in Slots, Step(s) PROVE Inv'
<1>1. CASE LocalStep(s)
  BY <1>1, LocalInv
<1>2. CASE WriteOpen(s)
  BY <1>2, OpenInv
<1>3. CASE NotifySeller(s)
  BY <1>3, NotifyInv
<1>4. CASE Reserve(s)
  BY <1>4, ReserveInv
<1>5. CASE InsertMessage(s)
  BY <1>5, InsertInv
<1>6. CASE WriteMessage(s)
  BY <1>6, MessageInv
<1>7. CASE WriteRead(s)
  BY <1>7, ReadInv
<1> QED BY <1>1, <1>2, <1>3, <1>4, <1>5, <1>6, <1>7 DEF Step, LocalStep

LEMMA StutterInv == ASSUME Inv, UNCHANGED vars PROVE Inv'
<1>1. TablesOK' /\ Grows
  BY DEF Inv, TablesOK, Sent, Counted, MaySend, Grows, vars
<1> QED BY <1>1, FromElsewhere DEF vars

\* Tables and handlers have their types, and every handler knows what it has read.
THEOREM Invariance == Spec => []Inv
<1>1. Inv /\ [Next]_vars => Inv'
  <2> SUFFICES ASSUME Inv, [Next]_vars PROVE Inv'
    OBVIOUS
  <2>1. ASSUME NEW s \in Slots, Crash(s) PROVE Inv'
    BY <2>1, LocalInv DEF LocalStep
  <2> QED BY <2>1, BeginInv, StepInv, ElsewhereInv, StutterInv DEF Next
<1> QED BY <1>1, InitInv, PTL DEF Spec

-----------------------------------------------------------------------------
(* Idempotency keys                                                          *)

LEMMA KeyFacts ==
    ASSUME Inv
    PROVE  /\ \A t \in DOMAIN message :
                 /\ message[t].lease \in Nat
                 /\ message[t].key # NoKey => KeyOf(t) \in Scoped
           /\ \A s \in Slots :
                 Holds(s) => /\ request[s].msg \in Sending /\ request[s].msg.lease \in Nat
                             /\ HeldKey(s) \in Scoped
           /\ \A k \in Scoped : lease[k].count \in Nat
<1>1. ASSUME NEW t \in DOMAIN message
      PROVE  /\ message[t].lease \in Nat
             /\ message[t].key # NoKey => KeyOf(t) \in Scoped
  <2>1. /\ message[t] \in Message
        /\ MaySend(message[t].room, message[t].sender, message[t].key)
    BY DEF Inv, TablesOK, Sent
  <2> QED BY <2>1 DEF Message, MaySend, KeyOf, Scoped
<1>2. ASSUME NEW s \in Slots, Holds(s)
      PROVE  /\ request[s].msg \in Sending /\ request[s].msg.lease \in Nat
             /\ HeldKey(s) \in Scoped
  <2> DEFINE m == request[s].msg
  <2>1. m \in Sending /\ MaySend(m.buyer, m.sender, m.key) /\ m.key # NoKey
    BY <1>2, RequestFields DEF Inv, Knows, Holds, At, SendSteps
  <2> QED BY <2>1 DEF Sending, MaySend, HeldKey, ScopedKey, Scoped
<1>3. \A k \in Scoped : lease[k].count \in Nat
  BY DEF Inv, TablesOK
<1> QED BY <1>1, <1>2, <1>3

\* A step that sends nothing and reserves nothing
LEMMA LeasedKept ==
    ASSUME Inv, Leased, DOMAIN message' = DOMAIN message,
           \A t \in DOMAIN message :
              KeyOf(t)' = KeyOf(t) /\ message'[t].key = message[t].key
              /\ message'[t].lease = message[t].lease,
           \A k \in Scoped : lease'[k].count = lease[k].count,
           \A s \in Slots : Holds(s)' => Holds(s) /\ request'[s].msg = request[s].msg
    PROVE  Leased'
<1>1. ASSUME NEW t \in DOMAIN message', message'[t].key # NoKey
      PROVE  message'[t].lease <= lease'[KeyOf(t)'].count
  BY <1>1, KeyFacts DEF Leased
<1>2. ASSUME NEW s \in Slots, Holds(s)'
      PROVE  /\ request'[s].msg.lease <= lease'[HeldKey(s)'].count
             /\ \A t \in DOMAIN message' :
                   KeyOf(t)' = HeldKey(s)' => message'[t].lease # request'[s].msg.lease
             /\ \A u \in Slots \ {s} :
                   Holds(u)' /\ HeldKey(u)' = HeldKey(s)' =>
                      request'[u].msg.lease # request'[s].msg.lease
  <2>1. /\ Holds(s) /\ HeldKey(s)' = HeldKey(s) /\ request'[s].msg = request[s].msg
        /\ HeldKey(s) \in Scoped
    BY <1>2, KeyFacts DEF HeldKey
  <2>2. \A u \in Slots : Holds(u)' =>
           Holds(u) /\ HeldKey(u)' = HeldKey(u) /\ request'[u].msg = request[u].msg
    BY DEF HeldKey
  <2> QED BY <2>1, <2>2 DEF Leased
<1>3. SentOncePerReservation'
  <2>1. \A t1, t2 \in DOMAIN message :
           /\ t1 # t2 /\ message[t1].key # NoKey /\ KeyOf(t1) = KeyOf(t2)
           => message[t1].lease # message[t2].lease
    BY DEF Leased, SentOncePerReservation, KeyOf
  <2>2. \A t1, t2 \in DOMAIN message' :
           /\ t1 # t2 /\ message'[t1].key # NoKey /\ KeyOf(t1)' = KeyOf(t2)'
           => message'[t1].lease # message'[t2].lease
    BY <2>1
  <2> QED BY <2>2 DEF SentOncePerReservation, KeyOf
<1> QED BY <1>1, <1>2, <1>3 DEF Leased

\* ... for a handler that goes on with q
LEMMA LeasedGoesOn ==
    ASSUME Inv, Leased, UNCHANGED <<message, lease>>, NEW s \in Slots, NEW q \in Request,
           Continue(s, q),
           q.step \in {"send.insert", "send.write"} /\ q.msg.key # NoKey =>
              Holds(s) /\ q.msg = request[s].msg
    PROVE  Leased'
<1>1. \A t \in Slots : request'[t] = IF t = s THEN q ELSE request[t]
  BY HandlerTyped DEF Inv
<1>2. \A t \in Slots : Holds(t)' => Holds(t) /\ request'[t].msg = request[t].msg
  BY <1>1 DEF Holds, At
<1>3. \A t \in DOMAIN message : KeyOf(t)' = KeyOf(t)
  BY DEF KeyOf
<1> QED BY <1>2, <1>3, LeasedKept

\* A handler that reserves a key gets a number that no other has.
LEMMA ReserveLeased == ASSUME Inv, Leased, NEW s \in Slots, Reserve(s) PROVE Leased'
<1> DEFINE m == request[s].msg
           k == ScopedKey(m)
           msg == [m EXCEPT !.lease = lease[k].count + 1]
           q == [step |-> "send.insert", msg |-> msg]
<1>1. /\ m \in Sending /\ k \in Scoped
      /\ UNCHANGED <<listing, reminders, room, message, clock, overlapped>>
      /\ \/ Continue(s, Idle) /\ UNCHANGED lease
         \/ /\ lease' = [lease EXCEPT ![k] = [count |-> @.count + 1, held |-> TRUE]]
            /\ Continue(s, q)
  BY ReserveFacts
<1>2. CASE Continue(s, Idle) /\ UNCHANGED lease
  BY <1>1, <1>2, IdleIsRequest, LeasedGoesOn
<1>3. CASE /\ lease' = [lease EXCEPT ![k] = [count |-> @.count + 1, held |-> TRUE]]
           /\ Continue(s, q)
  <2>1. lease[k].count \in Nat
    BY <1>1, KeyFacts
  <2>2. /\ msg \in Sending /\ msg.key = m.key /\ ScopedKey(msg) = k
        /\ msg.lease = lease[k].count + 1
    BY <1>1, <2>1 DEF Sending, ScopedKey
  <2>3. /\ lease'[k].count = lease[k].count + 1
        /\ \A l \in Scoped : l # k => lease'[l].count = lease[l].count
    BY <1>1, <1>3 DEF Inv, TablesOK
  <2>4. q \in Request /\ q.step = "send.insert" /\ q.msg = msg
    <3> HIDE DEF msg
    <3> QED BY <2>2 DEF Request
  <2> HIDE DEF q, msg
  <2>5. \A t \in Slots : request'[t] = IF t = s THEN q ELSE request[t]
    BY <1>3, <2>4, HandlerTyped DEF Inv
  <2>6. request'[s].msg = msg /\ HeldKey(s)' = k
    BY <2>2, <2>4, <2>5 DEF HeldKey
  <2>7. \A t \in Slots \ {s} :
           /\ request'[t] = request[t] /\ HeldKey(t)' = HeldKey(t)
           /\ Holds(t)' => Holds(t)
    BY <2>5 DEF HeldKey, Holds, At
  <2>8. \A t \in DOMAIN message : KeyOf(t)' = KeyOf(t)
    BY <1>1 DEF KeyOf
  <2> HIDE DEF m, k
  <2>9. ASSUME NEW t \in DOMAIN message', message'[t].key # NoKey
        PROVE  message'[t].lease <= lease'[KeyOf(t)'].count
    <3>1. /\ message[t].lease <= lease[KeyOf(t)].count /\ KeyOf(t) \in Scoped
          /\ message[t].lease \in Nat /\ KeyOf(t)' = KeyOf(t)
      BY <1>1, <2>8, <2>9, KeyFacts DEF Leased
    <3> QED BY <1>1, <2>1, <2>3, <3>1
  <2>10. \A t \in DOMAIN message : KeyOf(t) = k => message[t].lease < lease[k].count + 1
    <3> SUFFICES ASSUME NEW t \in DOMAIN message, KeyOf(t) = k
                 PROVE  message[t].lease < lease[k].count + 1
      OBVIOUS
    <3>1. message[t].key # NoKey
      BY <1>1, KeyAssumption DEF KeyOf, Scoped
    <3> QED BY <2>1, <3>1, KeyFacts DEF Leased
  <2>11. \A t \in Slots \ {s} : Holds(t) /\ HeldKey(t) = k =>
            request[t].msg.lease < lease[k].count + 1
    BY <2>1, KeyFacts DEF Leased
  <2>12. ASSUME NEW t \in Slots, Holds(t)'
         PROVE  /\ request'[t].msg.lease <= lease'[HeldKey(t)'].count
                /\ \A w \in DOMAIN message' :
                      KeyOf(w)' = HeldKey(t)' => message'[w].lease # request'[t].msg.lease
                /\ \A u \in Slots \ {t} :
                      Holds(u)' /\ HeldKey(u)' = HeldKey(t)' =>
                         request'[u].msg.lease # request'[t].msg.lease
    <3>1. CASE t = s
      <4>1. request'[s].msg.lease <= lease'[HeldKey(s)'].count
        BY <2>1, <2>2, <2>3, <2>6
      <4>2. \A w \in DOMAIN message' :
               KeyOf(w)' = HeldKey(s)' => message'[w].lease # request'[s].msg.lease
        BY <1>1, <2>1, <2>2, <2>6, <2>8, <2>10, KeyFacts
      <4>3. \A u \in Slots \ {s} : Holds(u)' /\ HeldKey(u)' = HeldKey(s)' =>
               request'[u].msg.lease # request'[s].msg.lease
        BY <2>1, <2>2, <2>6, <2>7, <2>11, KeyFacts
      <4> QED BY <3>1, <4>1, <4>2, <4>3
    <3>2. CASE t # s
      <4>1. /\ Holds(t) /\ request'[t] = request[t] /\ HeldKey(t)' = HeldKey(t)
            /\ HeldKey(t) \in Scoped /\ request[t].msg.lease \in Nat
        BY <2>7, <2>12, <3>2, KeyFacts
      <4>2. request'[t].msg.lease <= lease'[HeldKey(t)'].count
        BY <2>1, <2>3, <4>1 DEF Leased
      <4>3. \A w \in DOMAIN message' :
               KeyOf(w)' = HeldKey(t)' => message'[w].lease # request'[t].msg.lease
        BY <1>1, <2>8, <4>1 DEF Leased
      <4>4. ASSUME NEW u \in Slots \ {t}, Holds(u)', HeldKey(u)' = HeldKey(t)'
            PROVE  request'[u].msg.lease # request'[t].msg.lease
        <5>1. CASE u = s
          BY <2>1, <2>2, <2>6, <2>11, <3>2, <4>1, <4>4, <5>1
        <5>2. CASE u # s
          BY <2>7, <4>1, <4>4, <5>2 DEF Leased
        <5> QED BY <5>1, <5>2
      <4> QED BY <4>2, <4>3, <4>4
    <3> QED BY <3>1, <3>2
  <2>13. SentOncePerReservation'
    BY <1>1 DEF Leased, SentOncePerReservation
  <2> QED BY <2>9, <2>12, <2>13 DEF Leased
<1> QED BY <1>1, <1>2, <1>3

\* The row takes over the reservation of the handler that inserts it.
LEMMA MessageLeased == ASSUME Inv, Leased, NEW s \in Slots, WriteMessage(s) PROVE Leased'
<1>0. PICK m \in Sending, n \in 1..clock : m = request[s].msg /\ n = request[s].createdAt
  BY MessageFacts
<1>1. /\ At(s, "send.write") /\ Continue(s, Idle)
      /\ UNCHANGED <<listing, reminders, clock, lease, overlapped>>
      /\ n \notin DOMAIN message /\ DOMAIN message' = DOMAIN message \cup {n}
      /\ \A t \in DOMAIN message : message'[t] = message[t]
      /\ message'[n] = Row(m)
  BY <1>0, MessageFacts DEF At
<1>2. \A t \in Slots : request'[t] = IF t = s THEN Idle ELSE request[t]
  BY <1>1, IdleIsRequest, HandlerTyped DEF Inv
<1>3. \A t \in Slots : Holds(t)' =>
         /\ t # s /\ Holds(t)
         /\ HeldKey(t)' = HeldKey(t) /\ request'[t].msg = request[t].msg
  BY <1>2, IdleIsRequest DEF Holds, At, HeldKey
<1>4. \A t \in DOMAIN message : KeyOf(t)' = KeyOf(t)
  BY <1>1 DEF KeyOf
<1>5. KeyOf(n)' = HeldKey(s) /\ message'[n].key = m.key /\ message'[n].lease = m.lease
  BY <1>0, <1>1 DEF KeyOf, HeldKey, ScopedKey, Row
<1>6. m.key # NoKey => Holds(s)
  BY <1>0, <1>1 DEF Holds
<1>7. \A t \in Slots : Holds(t) /\ m.key = NoKey => HeldKey(t) # HeldKey(s)
  BY <1>0 DEF Holds, HeldKey, ScopedKey
<1>8. ASSUME NEW t \in DOMAIN message', message'[t].key # NoKey
      PROVE  message'[t].lease <= lease'[KeyOf(t)'].count
  <2>1. CASE t = n
    BY <1>0, <1>1, <1>5, <1>6, <1>8, <2>1 DEF Leased
  <2>2. CASE t # n
    BY <1>1, <1>4, <1>8, <2>2 DEF Leased
  <2> QED BY <2>1, <2>2
<1>9. ASSUME NEW t \in Slots, Holds(t)'
      PROVE  /\ request'[t].msg.lease <= lease'[HeldKey(t)'].count
             /\ \A w \in DOMAIN message' :
                   KeyOf(w)' = HeldKey(t)' => message'[w].lease # request'[t].msg.lease
             /\ \A u \in Slots \ {t} :
                   Holds(u)' /\ HeldKey(u)' = HeldKey(t)' =>
                      request'[u].msg.lease # request'[t].msg.lease
  <2>1. /\ t # s /\ Holds(t) /\ HeldKey(t)' = HeldKey(t) /\ request'[t].msg = request[t].msg
    BY <1>3, <1>9
  <2>2. request'[t].msg.lease <= lease'[HeldKey(t)'].count
    BY <1>1, <2>1 DEF Leased
  <2>3. ASSUME NEW w \in DOMAIN message', KeyOf(w)' = HeldKey(t)'
        PROVE  message'[w].lease # request'[t].msg.lease
    <3>1. CASE w = n
      <4>1. HeldKey(s) = HeldKey(t) /\ Holds(s)
        BY <1>5, <1>6, <1>7, <2>1, <2>3, <3>1
      <4>2. m.lease # request[t].msg.lease
        BY <1>0, <2>1, <4>1 DEF Leased
      <4> QED BY <1>5, <2>1, <3>1, <4>2
    <3>2. CASE w # n
      BY <1>1, <1>4, <2>1, <2>3, <3>2 DEF Leased
    <3> QED BY <3>1, <3>2
  <2>4. \A u \in Slots \ {t} :
           Holds(u)' /\ HeldKey(u)' = HeldKey(t)' =>
              request'[u].msg.lease # request'[t].msg.lease
    BY <1>3, <2>1 DEF Leased
  <2> QED BY <2>2, <2>3, <2>4
<1>10. SentOncePerReservation'
  <2>1. ASSUME NEW t1 \in DOMAIN message', NEW t2 \in DOMAIN message',
               t1 # t2, message'[t1].key # NoKey, KeyOf(t1)' = KeyOf(t2)'
        PROVE  message'[t1].lease # message'[t2].lease
    <3>1. message'[t2].key # NoKey
      BY <2>1 DEF KeyOf
    <3>2. CASE t1 # n /\ t2 # n
      <4>1. /\ t1 \in DOMAIN message /\ t2 \in DOMAIN message /\ message[t1].key # NoKey
            /\ KeyOf(t1) = KeyOf(t2)
        BY <1>1, <1>4, <2>1, <3>2
      <4>2. message[t1].lease # message[t2].lease
        BY <2>1, <4>1 DEF Leased, SentOncePerReservation, KeyOf
      <4> QED BY <1>1, <4>1, <4>2
    <3>3. ASSUME NEW t \in DOMAIN message, KeyOf(t)' = KeyOf(n)', m.key # NoKey
          PROVE  message'[t].lease # message'[n].lease
      BY <1>0, <1>1, <1>4, <1>5, <1>6, <3>3 DEF Leased
    <3>4. CASE t1 = n
      BY <1>1, <1>5, <2>1, <3>3, <3>4
    <3>5. CASE t2 = n
      BY <1>1, <1>5, <2>1, <3>1, <3>3, <3>5
    <3> QED BY <3>2, <3>4, <3>5
  <2> QED BY <2>1 DEF SentOncePerReservation, KeyOf
<1> QED BY <1>8, <1>9, <1>10 DEF Leased

LEMMA StepLeased == ASSUME Inv, Leased, NEW s \in Slots, Step(s) \/ Crash(s) PROVE Leased'
<1>1. CASE LocalStep(s)
  <2>1. PICK q \in Request :
           Continue(s, q) /\ UNCHANGED <<tables, overlapped>> /\ q.step \notin SendSteps
    BY <1>1, LocalFacts
  <2> QED BY <2>1, LeasedGoesOn DEF SendSteps, tables
<1>2. CASE WriteOpen(s)
  <2> DEFINE q == IF ShouldNotify(request[s]) THEN [step |-> "open.notify"] ELSE Idle
  <2>1. (Continue(s, Idle) \/ Continue(s, q)) /\ UNCHANGED <<message, lease>>
    BY <1>2 DEF WriteOpen, Finish
  <2>2. q \in Request /\ q.step \in {"idle", "open.notify"}
    BY IdleIsRequest DEF Request
  <2> HIDE DEF q
  <2> QED BY <2>1, <2>2, IdleIsRequest, LeasedGoesOn
<1>3. CASE NotifySeller(s)
  <2>1. Continue(s, Idle) /\ UNCHANGED <<message, lease>>
    BY <1>3 DEF NotifySeller, Finish
  <2> QED BY <2>1, IdleIsRequest, LeasedGoesOn
<1>4. CASE InsertMessage(s)
  <2>1. PICK q \in Request : Continue(s, q) /\ q.msg = request[s].msg
    BY <1>4, InsertFacts
  <2>2. At(s, "send.insert") /\ UNCHANGED <<message, lease>>
    BY <1>4 DEF InsertMessage
  <2> QED BY <2>1, <2>2, LeasedGoesOn DEF Holds
<1>5. CASE WriteRead(s)
  <2> DEFINE q == request[s]
  <2>1. /\ Continue(s, Idle) /\ UNCHANGED lease /\ DOMAIN message' = DOMAIN message
        /\ \A t \in DOMAIN message :
              message'[t] = IF t \in q.marked THEN [message[t] EXCEPT !.isRead = TRUE]
                            ELSE message[t]
    BY <1>5, ReadFacts
  <2>2. \A t \in DOMAIN message :
           /\ message'[t].room = message[t].room /\ message'[t].sender = message[t].sender
           /\ message'[t].key = message[t].key /\ message'[t].lease = message[t].lease
    <3> SUFFICES ASSUME NEW t \in DOMAIN message
                 PROVE  /\ message'[t].room = message[t].room
                        /\ message'[t].sender = message[t].sender
                        /\ message'[t].key = message[t].key
                        /\ message'[t].lease = message[t].lease
      OBVIOUS
    <3>1. message[t] \in Message
      BY DEF Inv, TablesOK
    <3>2. message'[t] = message[t] \/ message'[t] = [message[t] EXCEPT !.isRead = TRUE]
      BY <2>1
    <3> QED BY <3>1, <3>2 DEF Message
  <2>3. \A t \in Slots : Holds(t)' => Holds(t) /\ request'[t].msg = request[t].msg
    BY <2>1, IdleIsRequest, HandlerTyped DEF Inv, Holds, At
  <2>4. \A t \in DOMAIN message : KeyOf(t)' = KeyOf(t)
    BY <2>2 DEF KeyOf
  <2> QED BY <2>1, <2>2, <2>3, <2>4, LeasedKept
<1> QED BY <1>1, <1>2, <1>3, <1>4, <1>5, ReserveLeased, MessageLeased DEF Step, LocalStep

LEMMA ElsewhereLeased == ASSUME Inv, Leased, Elsewhere PROVE Leased'
<1>1. UNCHANGED request
  BY DEF Elsewhere, Expire, HideMessage, SetDeal
<1>2. \A k \in Scoped : lease'[k].count = lease[k].count
  <2>1. ASSUME NEW k \in Scoped, Expire(k)
        PROVE  \A l \in Scoped : lease'[l].count = lease[l].count
    BY <2>1 DEF Expire, Inv, TablesOK
  <2> QED BY <2>1 DEF Elsewhere, HideMessage, SetDeal
<1>3. /\ DOMAIN message' = DOMAIN message
      /\ \A t \in DOMAIN message :
            /\ message'[t].room = message[t].room /\ message'[t].sender = message[t].sender
            /\ message'[t].key = message[t].key /\ message'[t].lease = message[t].lease
  <2>1. ASSUME NEW u \in Stamps, HideMessage(u)
        PROVE  /\ DOMAIN message' = DOMAIN message
               /\ \A t \in DOMAIN message :
                     /\ message'[t].room = message[t].room
                     /\ message'[t].sender = message[t].sender
                     /\ message'[t].key = message[t].key
                     /\ message'[t].lease = message[t].lease
    BY <2>1 DEF HideMessage, Inv, TablesOK, Message
  <2> QED BY <2>1 DEF Elsewhere, Expire, SetDeal
<1>4. \A t \in DOMAIN message : KeyOf(t)' = KeyOf(t)
  BY <1>3 DEF KeyOf
<1>5. \A t \in Slots : Holds(t)' => Holds(t) /\ request'[t].msg = request[t].msg
  BY <1>1 DEF Holds, At
<1> QED BY <1>2, <1>3, <1>4, <1>5, LeasedKept

LEMMA NextLeased == ASSUME Inv, Leased, [Next]_vars PROVE Leased'
<1>1. ASSUME NEW s \in Slots, Begin(s) PROVE Leased'
  <2>1. PICK q \in Request :
           /\ Start(s, q) /\ UNCHANGED tables /\ q.step \in BeginSteps
           /\ q.step = "send.insert" => q.msg.key = NoKey
    BY <1>1, BeginFacts
  <2> QED BY <2>1, LeasedGoesOn DEF Start, BeginSteps, tables
<1>2. CASE UNCHANGED vars
  <2>1. UNCHANGED <<message, lease, request>>
    BY <1>2 DEF vars
  <2>2. \A t \in DOMAIN message : KeyOf(t)' = KeyOf(t)
    BY <2>1 DEF KeyOf
  <2>3. \A t \in Slots : Holds(t)' => Holds(t) /\ request'[t].msg = request[t].msg
    BY <2>1 DEF Holds, At
  <2> QED BY <2>1, <2>2, <2>3, LeasedKept
<1> QED BY <1>1, <1>2, StepLeased, ElsewhereLeased DEF Next

LEMMA InitLeased == Init => Leased
BY IdleIsRequest DEF Init, Leased, Holds, At, SentOncePerReservation

-----------------------------------------------------------------------------
(* One handler at a time                                                     *)

\* The counters of a room count what is unread, and what was read of them stays
\* true while its reader is alone.
LEMMA AloneGoesOn ==
    ASSUME Inv, Alone, NEW s \in Slots, NEW q \in Request, Continue(s, q),
           ~overlapped' =>
              /\ Busy(s) \/ \A t \in Slots \ {s} : ~Busy(t)
              /\ KnowsAlone(q)'
              /\ ThresholdStep * reminders' <= listing'.reminder
              /\ Exact',
           overlapped => overlapped'
    PROVE  Alone'
<1> SUFFICES ASSUME ~overlapped' PROVE Alone'
  BY DEF Alone
<1>1. \A t \in Slots : request'[t] = IF t = s THEN q ELSE request[t]
  BY HandlerTyped DEF Inv
<1>2. \A t \in Slots \ {s} : request[t].step = "idle"
  BY DEF Alone, Busy, At
<1>3. \A t \in Slots : KnowsAlone(request[t])'
  BY <1>1, <1>2 DEF KnowsAlone
<1>4. \A t, u \in Slots : Busy(t)' /\ Busy(u)' => t = u
  BY <1>1, <1>2 DEF Busy, At
<1> QED BY <1>3, <1>4 DEF Alone

LEMMA UnreadKept ==
    ASSUME DOMAIN message' = DOMAIN message,
           \A t \in DOMAIN message :
              /\ message'[t].room = message[t].room /\ message'[t].sender = message[t].sender
              /\ message'[t].isRead = message[t].isRead,
           NEW b, NEW u
    PROVE  UnreadFor(b, u)' = UnreadFor(b, u)
BY DEF UnreadFor

LEMMA ExactKept == ASSUME Exact, UNCHANGED <<room, message>> PROVE Exact'
<1>1. \A b, u : UnreadFor(b, u)' = UnreadFor(b, u)
  BY DEF UnreadFor
<1> QED BY <1>1 DEF Exact

LEMMA LocalAlone == ASSUME Inv, Alone, NEW s \in Slots, LocalStep(s) PROVE Alone'
<1> DEFINE r == request[s]
<1>1. PICK q \in Request : Continue(s, q) /\ UNCHANGED <<tables, overlapped>>
        /\ q.step \notin SendSteps \cup {"open.notify", "read.mark"}
  BY LocalFacts
<1>2. Busy(s)
  BY DEF LocalStep, ReadForOpen, MarkRead, CountUnread, ReadPage, FinishList, Crash, Busy, At
<1>3. request'[s] = q
  BY <1>1, HandlerTyped DEF Inv
<1>4. ASSUME ~overlapped PROVE KnowsAlone(q)'
  <2>1. r \in Request /\ KnowsAlone(r)
    BY <1>4 DEF Inv, Alone
  <2>2. CASE ReadForOpen(s)
    <3>1. q = Idle \/ /\ q.step = "open.write" /\ q.interested = listing.interested
                      /\ q.reminder = listing.reminder
      <4> DEFINE p == [step |-> "open.write", buyer |-> r.buyer,
                       interested |-> listing.interested,
                       reminder |-> listing.reminder, deal |-> listing.deal]
      <4>1. Continue(s, Idle) \/ Continue(s, p)
        BY <2>2 DEF ReadForOpen, Finish
      <4>2. request'[s] = Idle \/ request'[s] = p
        BY <4>1 DEF Continue, Inv
      <4> QED BY <1>3, <4>2
    <3> QED BY <1>1, <3>1, IdleIsRequest DEF KnowsAlone, tables
  <2>3. CASE MarkRead(s)
    <3>1. /\ q.step = "read.count" /\ q.buyer = r.buyer /\ q.user = r.user
          /\ q.marked = UnreadFor(r.buyer, r.user)
      <4>1. request'[s] = [step |-> "read.count", buyer |-> r.buyer, user |-> r.user,
                           marked |-> UnreadFor(r.buyer, r.user)]
        BY <2>3 DEF MarkRead, Continue, Inv
      <4> QED BY <1>3, <4>1
    <3>2. q.marked = UnreadFor(q.buyer, q.user)'
      BY <1>1, <3>1 DEF UnreadFor, tables
    <3> QED BY <3>1, <3>2 DEF KnowsAlone
  <2>4. CASE CountUnread(s)
    <3>1. /\ q.step = "read.write" /\ q.buyer = r.buyer /\ q.user = r.user
          /\ q.marked = r.marked
          /\ q.remaining = Cardinality(UnreadFor(r.buyer, r.user) \ r.marked)
      <4>1. request'[s] = [step |-> "read.write", buyer |-> r.buyer, user |-> r.user,
                           marked |-> r.marked,
                           remaining |-> Cardinality(UnreadFor(r.buyer, r.user) \ r.marked)]
        BY <2>4 DEF CountUnread, Continue, Inv
      <4> QED BY <1>3, <4>1
    <3>2. r.marked = UnreadFor(r.buyer, r.user)
      BY <2>1, <2>4 DEF KnowsAlone, CountUnread, At
    <3>3. q.remaining = 0
      BY <3>1, <3>2, FS_EmptySet
    <3>4. q.marked = UnreadFor(q.buyer, q.user)'
      BY <1>1, <3>1, <3>2 DEF UnreadFor, tables
    <3> QED BY <3>1, <3>3, <3>4 DEF KnowsAlone
  <2>5. CASE ReadPage(s)
    <3>1. PICK p \in Request : Continue(s, p) /\ p.step \in ListSteps
      BY <2>5, ReadPageFacts
    <3>2. p = q
      BY <1>3, <3>1, HandlerTyped DEF Inv
    <3> QED BY <3>1, <3>2 DEF KnowsAlone, ListSteps
  <2>6. CASE FinishList(s) \/ Crash(s)
    <3>1. q = Idle
      BY <1>3, <2>6, IdleIsRequest, HandlerTyped DEF Inv, FinishList, Crash, Finish
    <3> QED BY <3>1, IdleIsRequest DEF KnowsAlone
  <2> QED BY <2>2, <2>3, <2>4, <2>5, <2>6 DEF LocalStep
<1>5. ~overlapped => ThresholdStep * reminders' <= listing'.reminder /\ Exact'
  BY <1>1, ExactKept DEF Alone, tables
<1> QED BY <1>1, <1>2, <1>4, <1>5, AloneGoesOn

\* The buyer who opens a room alone is the first in it, and the seller is reminded
\* when ThresholdStep buyers came since the last reminder.
LEMMA OpenAlone == ASSUME Inv, Alone, NEW s \in Slots, WriteOpen(s) PROVE Alone'
<1> DEFINE r == request[s]
<1>1. r \in Request /\ Busy(s) /\ r.step = "open.write"
  BY DEF Inv, WriteOpen, Busy, At
<1>2. CASE r.buyer \in DOMAIN room
  <2>1. Continue(s, Idle) /\ UNCHANGED <<tables, overlapped>>
    BY <1>2 DEF WriteOpen, Finish, tables
  <2>2. ~overlapped => Exact'
    BY <2>1, ExactKept DEF Alone, tables
  <2> QED BY <1>1, <2>1, <2>2, IdleIsRequest, AloneGoesOn DEF Alone, KnowsAlone, tables
<1>3. CASE r.buyer \notin DOMAIN room
  <2> DEFINE q == IF ShouldNotify(r) THEN [step |-> "open.notify"] ELSE Idle
  <2>1. /\ r.interested \in Nat /\ r.reminder \in Nat /\ r.reminder <= r.interested
        /\ DOMAIN room' = DOMAIN room \cup {r.buyer}
        /\ \A b \in DOMAIN room : room'[b] = room[b]
        /\ room'[r.buyer] = [unreadBuyer |-> 0, unreadSeller |-> 0, last |-> NoMessage]
        /\ listing'.reminder = IF ShouldNotify(r) THEN r.interested + 1 ELSE r.reminder
        /\ q \in Request /\ Continue(s, q)
        /\ UNCHANGED <<reminders, message, clock, lease, overlapped>>
    BY <1>3, OpenFacts
  <2>2. ASSUME ~overlapped
        PROVE  /\ ThresholdStep * reminders <= r.reminder
               /\ Exact
    BY <1>1, <2>2 DEF Alone, KnowsAlone
  <2>3. ASSUME ~overlapped
        PROVE  /\ ThresholdStep * reminders <= listing'.reminder
               /\ q.step = "open.notify" => ThresholdStep * (reminders + 1) <= listing'.reminder
    <3>1. ThresholdStep \in Nat /\ reminders \in Nat
      BY BoundsAssumption DEF Inv, TablesOK
    <3>2. CASE ShouldNotify(r)
      <4>1. r.reminder + ThresholdStep <= r.interested + 1 /\ listing'.reminder = r.interested + 1
        BY <2>1, <3>1, <3>2 DEF ShouldNotify
      <4>2. /\ ThresholdStep * (reminders + 1) = ThresholdStep * reminders + ThresholdStep
            /\ ThresholdStep * reminders \in Nat
        BY <3>1
      <4> QED BY <2>1, <2>2, <2>3, <3>1, <4>1, <4>2
    <3>3. CASE ~ShouldNotify(r)
      <4>1. q.step = "idle"
        BY <3>3, IdleIsRequest
      <4> QED BY <2>1, <2>2, <2>3, <3>3, <4>1
    <3> QED BY <3>2, <3>3
  <2>4. ASSUME ~overlapped PROVE Exact'
    <3>1. \A b, u : UnreadFor(b, u)' = UnreadFor(b, u)
      BY <2>1, UnreadKept
    <3>2. ASSUME NEW u PROVE Cardinality(UnreadFor(r.buyer, u)) = 0
      <4>1. \A t \in DOMAIN message : message[t].room # r.buyer
        BY <1>3 DEF Inv, TablesOK, Sent, MaySend
      <4>2. UnreadFor(r.buyer, u) = {}
        BY <4>1 DEF UnreadFor
      <4> QED BY <4>2, FS_EmptySet
    <3>3. \A b \in DOMAIN room' :
             /\ room'[b].unreadBuyer = Cardinality(UnreadFor(b, b))
             /\ room'[b].unreadSeller = Cardinality(UnreadFor(b, Seller))
      <4> SUFFICES ASSUME NEW b \in DOMAIN room'
                   PROVE  /\ room'[b].unreadBuyer = Cardinality(UnreadFor(b, b))
                          /\ room'[b].unreadSeller = Cardinality(UnreadFor(b, Seller))
        OBVIOUS
      <4>1. CASE b = r.buyer
        BY <2>1, <3>2, <4>1
      <4>2. CASE b # r.buyer
        BY <2>1, <2>2, <2>4, <4>2 DEF Exact
      <4> QED BY <4>1, <4>2
    <3> QED BY <3>1, <3>3 DEF Exact
  <2>5. q.step \in {"idle", "open.notify"}
    BY IdleIsRequest
  <2> HIDE DEF q
  <2>6. PICK p \in Request : p = q
    BY <2>1
  <2>7. ASSUME ~overlapped PROVE KnowsAlone(p)'
    BY <2>1, <2>3, <2>5, <2>6, <2>7 DEF KnowsAlone
  <2> QED BY <1>1, <2>1, <2>3, <2>4, <2>6, <2>7, AloneGoesOn
<1> QED BY <1>2, <1>3

LEMMA NotifyAlone == ASSUME Inv, Alone, NEW s \in Slots, NotifySeller(s) PROVE Alone'
<1>1. /\ Continue(s, Idle) /\ reminders' = reminders + 1 /\ At(s, "open.notify") /\ Busy(s)
      /\ UNCHANGED <<listing, room, message, clock, lease, overlapped>>
  BY DEF NotifySeller, Finish, Busy, At
<1>2. ~overlapped => ThresholdStep * (reminders + 1) <= listing.reminder /\ Exact
  BY <1>1 DEF Alone, KnowsAlone, At
<1>3. ~overlapped => Exact'
  BY <1>1, <1>2, ExactKept
<1>4. KnowsAlone(Idle)'
  BY IdleIsRequest DEF KnowsAlone
<1> QED BY <1>1, <1>2, <1>3, <1>4, IdleIsRequest, AloneGoesOn

LEMMA ReserveAlone == ASSUME Inv, Alone, NEW s \in Slots, Reserve(s) PROVE Alone'
<1> DEFINE m == request[s].msg
           msg == [m EXCEPT !.lease = lease[ScopedKey(m)].count + 1]
           q == [step |-> "send.insert", msg |-> msg]
<1>1. /\ UNCHANGED <<listing, reminders, room, message, clock, overlapped>>
      /\ Continue(s, Idle) \/ Continue(s, q)
      /\ m \in Sending /\ ScopedKey(m) \in Scoped
  BY ReserveFacts
<1>2. q \in Request
  <2>1. lease[ScopedKey(m)].count + 1 \in Nat
    BY <1>1 DEF Inv, TablesOK
  <2>2. msg \in Sending
    BY <1>1, <2>1 DEF Sending
  <2> HIDE DEF msg
  <2> QED BY <2>2 DEF Request
<1>3. PICK p \in Request : Continue(s, p) /\ p.step \in {"idle", "send.insert"}
  <2>1. q.step = "send.insert"
    OBVIOUS
  <2> HIDE DEF q
  <2> QED BY <1>1, <1>2, <2>1, IdleIsRequest
<1>4. Busy(s)
  BY DEF Reserve, Busy, At
<1>5. ~overlapped => ThresholdStep * reminders' <= listing'.reminder /\ Exact'
  BY <1>1, ExactKept DEF Alone
<1>6. KnowsAlone(p)'
  BY <1>3 DEF KnowsAlone
<1> QED BY <1>1, <1>3, <1>4, <1>5, <1>6, AloneGoesOn

LEMMA InsertAlone == ASSUME Inv, Alone, NEW s \in Slots, InsertMessage(s) PROVE Alone'
<1>1. PICK q \in Request :
         /\ Continue(s, q) /\ q.step = "send.write"
         /\ q.msg = request[s].msg
         /\ q.unreadBuyer = room[q.msg.buyer].unreadBuyer
         /\ q.unreadSeller = room[q.msg.buyer].unreadSeller
  BY InsertFacts
<1>2. UNCHANGED <<listing, reminders, room, message, overlapped>> /\ Busy(s)
  BY DEF InsertMessage, Busy, At
<1>3. KnowsAlone(q)'
  BY <1>1, <1>2 DEF KnowsAlone
<1>4. ~overlapped => ThresholdStep * reminders' <= listing'.reminder /\ Exact'
  BY <1>2, ExactKept DEF Alone
<1> QED BY <1>1, <1>2, <1>3, <1>4, AloneGoesOn

\* A message that is sent alone raises the counter of the other side.
LEMMA MessageAlone == ASSUME Inv, Alone, NEW s \in Slots, WriteMessage(s) PROVE Alone'
<1>0. PICK m \in Sending, n \in 1..clock : m = request[s].msg /\ n = request[s].createdAt
  BY MessageFacts
<1> DEFINE b == m.buyer
           mine == m.sender = b
<1>1. /\ Continue(s, Idle) /\ MaySend(b, m.sender, m.key)
      /\ UNCHANGED <<listing, reminders, clock, lease, overlapped>>
      /\ n \notin DOMAIN message /\ DOMAIN message' = DOMAIN message \cup {n}
      /\ \A t \in DOMAIN message : message'[t] = message[t]
      /\ message'[n] = Row(m)
      /\ DOMAIN room' = DOMAIN room /\ b \in DOMAIN room
      /\ \A c \in DOMAIN room : c # b => room'[c] = room[c]
      /\ room'[b].unreadBuyer = request[s].unreadBuyer + (IF mine THEN 0 ELSE 1)
      /\ room'[b].unreadSeller = request[s].unreadSeller + (IF mine THEN 1 ELSE 0)
  BY <1>0, MessageFacts
<1>2. At(s, "send.write") /\ Busy(s)
  BY DEF WriteMessage, Busy, At
<1>3. Row(m).room = b /\ Row(m).sender = m.sender /\ Row(m).isRead = FALSE
  BY DEF Row
<1>4. b # Seller /\ (m.sender = b \/ m.sender = Seller)
  BY <1>1, UsersAssumption DEF MaySend, Participants
<1>5. ASSUME NEW c, NEW u
      PROVE  /\ c = b /\ u # m.sender => UnreadFor(c, u)' = UnreadFor(c, u) \cup {n}
             /\ c # b \/ u = m.sender => UnreadFor(c, u)' = UnreadFor(c, u)
  <2> DEFINE counts(t) == message[t].room = c /\ message[t].sender # u /\ ~message[t].isRead
  <2>1. UnreadFor(c, u) = {t \in DOMAIN message : counts(t)}
    BY DEF UnreadFor
  <2>2. UnreadFor(c, u)' = {t \in DOMAIN message' : counts(t)'}
    BY DEF UnreadFor
  <2>3. \A t \in DOMAIN message : counts(t)' <=> counts(t)
    BY <1>1
  <2>4. counts(n)' <=> c = b /\ u # m.sender
    BY <1>1, <1>3
  <2> HIDE DEF counts
  <2> QED BY <1>1, <2>1, <2>2, <2>3, <2>4
<1>6. ASSUME NEW c, NEW u
      PROVE  Cardinality(UnreadFor(c, u)') = Cardinality(UnreadFor(c, u))
                + (IF c = b /\ u # m.sender THEN 1 ELSE 0)
  <2>1. /\ IsFiniteSet(UnreadFor(c, u)) /\ Cardinality(UnreadFor(c, u)) \in Nat
        /\ n \notin UnreadFor(c, u)
    <3>1. n \notin UnreadFor(c, u)
      BY <1>1 DEF UnreadFor
    <3> QED BY <3>1, UnreadFacts DEF Inv
  <2>2. CASE c = b /\ u # m.sender
    BY <1>5, <2>1, <2>2, FS_AddElement
  <2>3. CASE ~(c = b /\ u # m.sender)
    BY <1>5, <2>1, <2>3
  <2> QED BY <2>2, <2>3
<1>7. ASSUME ~overlapped PROVE Exact'
  <2>1. /\ Exact
        /\ request[s].unreadBuyer = room[b].unreadBuyer
        /\ request[s].unreadSeller = room[b].unreadSeller
    BY <1>0, <1>2, <1>7 DEF Alone, KnowsAlone, At
  <2>2. \A c \in DOMAIN room' :
           /\ room'[c].unreadBuyer = Cardinality(UnreadFor(c, c)')
           /\ room'[c].unreadSeller = Cardinality(UnreadFor(c, Seller)')
    <3> SUFFICES ASSUME NEW c \in DOMAIN room'
                 PROVE  /\ room'[c].unreadBuyer = Cardinality(UnreadFor(c, c)')
                        /\ room'[c].unreadSeller = Cardinality(UnreadFor(c, Seller)')
      OBVIOUS
    <3>1. /\ Cardinality(UnreadFor(c, c)) \in Nat /\ Cardinality(UnreadFor(c, Seller)) \in Nat
          /\ room[c].unreadBuyer = Cardinality(UnreadFor(c, c))
          /\ room[c].unreadSeller = Cardinality(UnreadFor(c, Seller))
      BY <1>1, <2>1, UnreadFacts DEF Exact, Inv
    <3>2. CASE c = b
      BY <1>1, <1>4, <1>6, <2>1, <3>1, <3>2
    <3>3. CASE c # b
      BY <1>1, <1>6, <3>1, <3>3
    <3> QED BY <3>2, <3>3
  <2> QED BY <2>2 DEF Exact
<1>8. KnowsAlone(Idle)'
  BY IdleIsRequest DEF KnowsAlone
<1>9. ~overlapped => ThresholdStep * reminders' <= listing'.reminder
  BY <1>1 DEF Alone
<1> QED BY <1>1, <1>2, <1>7, <1>8, <1>9, IdleIsRequest, AloneGoesOn

\* Who reads alone has nothing left to read, and the other side as much as before.
LEMMA ReadAlone == ASSUME Inv, Alone, NEW s \in Slots, WriteRead(s) PROVE Alone'
<1>0. PICK q \in Request : q = request[s]
  BY DEF Inv
<1> DEFINE b == q.buyer
<1>1. /\ q.step = "read.write" /\ Continue(s, Idle)
      /\ b \in DOMAIN room /\ q.user \in Participants(b)
      /\ AreIn(q.marked, b) /\ \A t \in q.marked : message[t].sender # q.user
      /\ UNCHANGED <<listing, reminders, clock, lease, overlapped>>
      /\ DOMAIN message' = DOMAIN message
      /\ \A t \in DOMAIN message :
            message'[t] = IF t \in q.marked THEN [message[t] EXCEPT !.isRead = TRUE]
                          ELSE message[t]
      /\ DOMAIN room' = DOMAIN room
      /\ \A c \in DOMAIN room : c # b => room'[c] = room[c]
      /\ room'[b] = IF q.user = b THEN [room[b] EXCEPT !.unreadBuyer = q.remaining]
                    ELSE [room[b] EXCEPT !.unreadSeller = q.remaining]
  BY <1>0, ReadFacts
<1>2. At(s, "read.write") /\ Busy(s)
  BY DEF WriteRead, Busy, At
<1>3. b # Seller /\ (q.user = b \/ q.user = Seller)
  BY <1>1, UsersAssumption DEF Inv, TablesOK, Participants
<1>4. \A t \in DOMAIN message :
         /\ message'[t].room = message[t].room /\ message'[t].sender = message[t].sender
         /\ message'[t].isRead <=> message[t].isRead \/ t \in q.marked
         /\ message[t].sender \in {message[t].room, Seller}
  <2> SUFFICES ASSUME NEW t \in DOMAIN message
               PROVE  /\ message'[t].room = message[t].room
                      /\ message'[t].sender = message[t].sender
                      /\ message'[t].isRead <=> message[t].isRead \/ t \in q.marked
                      /\ message[t].sender \in {message[t].room, Seller}
    OBVIOUS
  <2>1. message[t] \in Message /\ message[t].sender \in {message[t].room, Seller}
    BY DEF Inv, TablesOK, Sent, MaySend, Participants
  <2>2. CASE t \in q.marked
    <3>1. message'[t] = [message[t] EXCEPT !.isRead = TRUE]
      BY <1>1, <2>2
    <3>2. /\ message'[t].room = message[t].room /\ message'[t].sender = message[t].sender
          /\ message'[t].isRead
      BY <2>1, <3>1 DEF Message
    <3> QED BY <2>1, <2>2, <3>2
  <2>3. CASE t \notin q.marked
    <3>1. message'[t] = message[t]
      BY <1>1, <2>3
    <3> QED BY <2>1, <2>3, <3>1
  <2> QED BY <2>1, <2>2, <2>3
<1>5. ASSUME ~overlapped PROVE Exact'
  <2>1. /\ Exact /\ q.marked = UnreadFor(b, q.user) /\ q.remaining = 0
    BY <1>0, <1>1, <1>5 DEF Alone, KnowsAlone
  <2>2. UnreadFor(b, q.user)' = {}
    BY <1>1, <1>4, <2>1 DEF UnreadFor
  <2>3. ASSUME NEW c, NEW u \in {c, Seller}, c # b \/ u # q.user
        PROVE  UnreadFor(c, u)' = UnreadFor(c, u)
    <3>1. \A t \in DOMAIN message :
             t \in q.marked => ~(message[t].room = c /\ message[t].sender # u)
      BY <1>1, <1>3, <1>4, <2>3 DEF AreIn
    <3>2. \A t \in DOMAIN message :
             /\ message'[t].room = c /\ message'[t].sender # u /\ ~message'[t].isRead
             <=> /\ message[t].room = c /\ message[t].sender # u /\ ~message[t].isRead
      BY <1>4, <3>1
    <3> QED BY <1>1, <3>2 DEF UnreadFor
  <2>4. \A c \in DOMAIN room' :
           /\ room'[c].unreadBuyer = Cardinality(UnreadFor(c, c)')
           /\ room'[c].unreadSeller = Cardinality(UnreadFor(c, Seller)')
    <3> SUFFICES ASSUME NEW c \in DOMAIN room'
                 PROVE  /\ room'[c].unreadBuyer = Cardinality(UnreadFor(c, c)')
                        /\ room'[c].unreadSeller = Cardinality(UnreadFor(c, Seller)')
      OBVIOUS
    <3>1. /\ room[c].unreadBuyer = Cardinality(UnreadFor(c, c))
          /\ room[c].unreadSeller = Cardinality(UnreadFor(c, Seller))
          /\ room[c] \in Room
      BY <1>1, <2>1 DEF Exact, Inv, TablesOK
    <3>2. CASE c # b
      BY <1>1, <2>3, <3>1, <3>2
    <3>3. CASE c = b /\ q.user = b
      <4>1. room'[c].unreadBuyer = 0 /\ room'[c].unreadSeller = room[c].unreadSeller
        BY <1>1, <2>1, <3>1, <3>3 DEF Room
      <4> QED BY <1>3, <2>2, <2>3, <3>1, <3>3, <4>1, FS_EmptySet
    <3>4. CASE c = b /\ q.user # b
      <4>1. room'[c].unreadSeller = 0 /\ room'[c].unreadBuyer = room[c].unreadBuyer
        BY <1>1, <2>1, <3>1, <3>4 DEF Room
      <4> QED BY <1>3, <2>2, <2>3, <3>1, <3>4, <4>1, FS_EmptySet
    <3> QED BY <3>2, <3>3, <3>4
  <2> QED BY <2>4 DEF Exact
<1>6. KnowsAlone(Idle)'
  BY IdleIsRequest DEF KnowsAlone
<1>7. ~overlapped => ThresholdStep * reminders' <= listing'.reminder
  BY <1>1 DEF Alone
<1> QED BY <1>1, <1>2, <1>5, <1>6, <1>7, IdleIsRequest, AloneGoesOn

LEMMA StepAlone == ASSUME Inv, Alone, NEW s \in Slots, Step(s) \/ Crash(s) PROVE Alone'
BY LocalAlone, OpenAlone, NotifyAlone, ReserveAlone, InsertAlone, MessageAlone, ReadAlone
   DEF Step, LocalStep

LEMMA BeginAlone == ASSUME Inv, Alone, NEW s \in Slots, Begin(s) PROVE Alone'
<1>1. PICK q \in Request : Start(s, q) /\ UNCHANGED tables /\ q.step \in BeginSteps
  BY BeginFacts
<1>2. /\ Continue(s, q)
      /\ ~overlapped' => ~overlapped /\ \A t \in Slots \ {s} : ~Busy(t)
      /\ overlapped => overlapped'
  BY <1>1 DEF Start, Busy
<1>3. KnowsAlone(q)'
  BY <1>1 DEF KnowsAlone, BeginSteps
<1>4. ~overlapped' => ThresholdStep * reminders' <= listing'.reminder /\ Exact'
  BY <1>1, <1>2, ExactKept DEF Alone, tables
<1> QED BY <1>2, <1>3, <1>4, AloneGoesOn

LEMMA ElsewhereAlone == ASSUME Inv, Alone, Elsewhere \/ UNCHANGED vars PROVE Alone'
<1> SUFFICES ASSUME ~overlapped' PROVE Alone'
  BY DEF Alone
<1>1. UNCHANGED <<room, reminders, request, overlapped>>
  BY DEF Elsewhere, Expire, HideMessage, SetDeal, vars
<1>2. listing'.interested = listing.interested /\ listing'.reminder = listing.reminder
  <2>1. listing \in Listing
    BY DEF Inv, TablesOK
  <2> QED BY <2>1 DEF Elsewhere, Expire, HideMessage, SetDeal, vars, Listing
<1>3. /\ DOMAIN message' = DOMAIN message
      /\ \A t \in DOMAIN message :
            /\ message'[t].room = message[t].room /\ message'[t].sender = message[t].sender
            /\ message'[t].isRead = message[t].isRead
  <2>1. ASSUME NEW u \in Stamps, HideMessage(u)
        PROVE  /\ DOMAIN message' = DOMAIN message
               /\ \A t \in DOMAIN message :
                     /\ message'[t].room = message[t].room
                     /\ message'[t].sender = message[t].sender
                     /\ message'[t].isRead = message[t].isRead
    BY <2>1 DEF HideMessage, Inv, TablesOK, Message
  <2> QED BY <2>1 DEF Elsewhere, Expire, SetDeal, vars
<1>4. \A b, u : UnreadFor(b, u)' = UnreadFor(b, u)
  BY <1>3, UnreadKept
<1>5. Exact'
  BY <1>1, <1>4 DEF Alone, Exact
<1>6. \A s \in Slots : KnowsAlone(request[s])'
  BY <1>1, <1>2, <1>4 DEF Alone, KnowsAlone
<1> QED BY <1>1, <1>2, <1>5, <1>6 DEF Alone, Busy, At

LEMMA InitAlone == Init => Alone
<1> SUFFICES ASSUME Init PROVE Alone
  OBVIOUS
<1>1. \A s \in Slots : request[s].step = "idle"
  BY IdleIsRequest DEF Init
<1>2. reminders = 0 /\ listing.reminder = 0 /\ DOMAIN room = {} /\ ThresholdStep \in Nat
  BY BoundsAssumption DEF Init
<1>3. ThresholdStep * reminders <= listing.reminder
  BY <1>2
<1> QED BY <1>1, <1>2, <1>3 DEF Alone, Busy, At, KnowsAlone, Exact

-----------------------------------------------------------------------------
(* What the runs check                                                       *)

\* Inv, Leased and Alone hold together.
THEOREM RoomsInvariance == Spec => [](Inv /\ Leased /\ Alone)
<1>1. Leased /\ Alone /\ Inv /\ [Next]_vars => Leased' /\ Alone'
  BY NextLeased, StepAlone, BeginAlone, ElsewhereAlone DEF Next
<1>2. Init => Leased /\ Alone
  BY InitLeased, InitAlone
<1> QED BY <1>1, <1>2, Invariance, PTL DEF Spec

\* The tables and the handlers have their types, and the room of every message exists.
THEOREM TypeCorrect == Spec => []TypeOK
<1>1. Inv => TypeOK
  BY DEF Inv, TablesOK, Sent, MaySend, TypeOK
<1> QED BY <1>1, Invariance, PTL

\* The interest counter of a listing never claims more buyers than there are
\* rooms, and a seller whose buyers come one at a time gets no reminder too many.
THEOREM InterestSafety == Spec => []InterestNeverOverstated
<1>1. Inv /\ Alone => InterestNeverOverstated
  <2> SUFFICES ASSUME Inv, Alone PROVE InterestNeverOverstated
    OBVIOUS
  <2>1. listing.reminder <= listing.interested /\ listing.interested <= Cardinality(DOMAIN room)
    BY DEF Inv, TablesOK, Counted
  <2>2. /\ listing.reminder \in Nat /\ listing.interested \in Nat
        /\ Cardinality(DOMAIN room) \in Nat /\ ThresholdStep * reminders \in Nat
    BY FS_CardinalityType, BoundsAssumption DEF Inv, TablesOK, Listing
  <2>3. ~overlapped => ThresholdStep * reminders <= listing.reminder
    BY DEF Alone
  <2> QED BY <2>1, <2>2, <2>3 DEF InterestNeverOverstated
<1> QED BY <1>1, RoomsInvariance, PTL

\* A message that is sent again with its key is not inserted again under the same
\* reservation.
THEOREM SentOnce == Spec => []SentOncePerReservation
<1>1. Leased => SentOncePerReservation
  BY DEF Leased
<1> QED BY <1>1, RoomsInvariance, PTL

\* While the handlers of the rooms run one at a time, the unread counters that the
\* lists show are exact.
THEOREM UnreadSafety == Spec => []UnreadIsExact
<1>1. Inv /\ Alone => UnreadIsExact
  <2> SUFFICES ASSUME Inv, Alone, ~overlapped, NEW u \in Users, NEW b \in Inbox(u)
               PROVE  ShownUnread(b, u) = Cardinality(UnreadFor(b, u))
    BY DEF UnreadIsExact
  <2>1. b \in DOMAIN room /\ (u = b \/ u = Seller)
    BY DEF Inbox, Participants
  <2>2. /\ room[b].unreadBuyer = Cardinality(UnreadFor(b, b))
        /\ room[b].unreadSeller = Cardinality(UnreadFor(b, Seller))
    BY <2>1 DEF Alone, Exact
  <2> QED BY <2>1, <2>2 DEF ShownUnread
<1> QED BY <1>1, RoomsInvariance, PTL

\* Who reads a room page by page gets all that stayed visible, newest first,
\* whatever others do in between.
THEOREM PagesSafety == Spec => []PagesAreComplete
<1>1. Inv => PagesAreComplete
  <2> SUFFICES ASSUME Inv, NEW s \in Slots, At(s, "list.done")
               PROVE  /\ \A t \in request[s].before \cap Visible(request[s].buyer) :
                            \E i \in DOMAIN request[s].items : request[s].items[i] = t
                      /\ \A i \in 1..(Len(request[s].items) - 1) :
                            request[s].items[i] > request[s].items[i + 1]
    BY DEF PagesAreComplete
  <2>1. Paged(request[s]) /\ request[s].step = "list.done"
    BY DEF Inv, Knows, At, ListSteps
  <2> QED BY <2>1 DEF Paged, Listed
<1> QED BY <1>1, Invariance, PTL

=============================================================================
