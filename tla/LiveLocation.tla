---------------------------- MODULE LiveLocation ----------------------------
(***************************************************************************)
(* Live locations in the chat of a direct trade: each party starts, moves  *)
(* and stops its own share, and the confirmation or the cancellation of    *)
(* the trade stops shares too.  Moving a share over the socket is limited  *)
(* to one call per window, counted in Redis; over HTTP it is not.          *)
(*                                                                         *)
(* A room has at most one safe payment that counts, but several direct     *)
(* trades in the course of time: one that was cancelled is followed by a   *)
(* new one, and it can still be confirmed, which opens it again.  A share  *)
(* belongs to one trade, the latest open one when it was started, while a  *)
(* completion or a cancellation stops the shares of the latest trade.      *)
(*                                                                         *)
(* A transaction is reduced to what the shares look at: whether it is open *)
(* and the parties that confirmed it; ChatTransactions has the rest, and   *)
(* when a payment can be confirmed or cancelled.  A handler runs to its    *)
(* end: one whose process dies after a confirmation leaves shares active.  *)
(* Left out: the meeting place, coordinates, the expiresAt (stored, never  *)
(* read), the messages that announce a share, the deletion of an account,  *)
(* which stops all shares of its user.                                     *)
(***************************************************************************)
EXTENDS Integers, FiniteSets

CONSTANTS
    Buyer, Seller,  \* the parties
    Movers,         \* the parties that move their shares
    Slots,          \* handlers that can be in flight at the same time
    MaxTrade,       \* bound on the direct trades of the room
    MaxShare,       \* bound on the rows of location_shares
    MaxHits,        \* bound on the calls counted in one window
    MaxActions      \* the calls that a window allows, 1 in the code

Parties == {Buyer, Seller}

ASSUME PartiesAssumption == Buyer # Seller /\ Movers \subseteq Parties
ASSUME BoundsAssumption ==
    /\ MaxTrade \in Nat /\ MaxShare \in Nat
    /\ MaxHits \in Nat /\ MaxActions \in Nat \ {0}

\* OPEN stands for every status before the first confirmation.
Status == {"NONE", "OPEN", "PART_COMPLETED", "COMPLETED", "CANCELLED"}
Terminal == {"COMPLETED", "CANCELLED"}

VARIABLES
    txn,          \* the safe payment and the direct trades: status, done
    share,        \* location_shares: id -> trade, owner and isActive
    window,       \* party -> the counter in Redis and whether it expires
    request,      \* slot -> the handler in flight and its local variables
    overlapped    \* have two handlers ever been in flight together?

vars == <<txn, share, window, request, overlapped>>

\* The latest safe payment has the number 0; the direct trades are numbered in
\* the order of their createdAt.
Payment == 0
TradeIds == 1..MaxTrade
TxnIds == {Payment} \cup TradeIds

Txn == [status : Status, done : SUBSET Parties]
ShareIds == 1..MaxShare
Share == [trade : TradeIds, owner : Parties, isActive : BOOLEAN]
Window == [count : Nat, expires : BOOLEAN]

-----------------------------------------------------------------------------
(* Handlers in flight                                                        *)

Idle == [step |-> "idle"]

Request ==
    {Idle}
    \cup [step : {"trade.find", "trade.create", "all.stop"}]
    \cup [step : {"update.expire", "update.context", "complete.find"}, user : Parties]
    \cup [step : {"start.check", "start.find", "start.create", "update.check", "update.find",
                  "stop.write", "complete.stop"}, user : Parties, trade : TradeIds]
    \cup [step : {"start.refresh", "update.write"}, id : ShareIds]
    \cup [step : {"complete.read"}, user : Parties, txn : TxnIds]
    \cup [step : {"complete.write"}, user : Parties, txn : TxnIds, done : SUBSET Parties]
    \cup [step : {"cancel.write"}, txn : TxnIds]

At(s, step) == request[s].step = step
Continue(s, r) == request' = [request EXCEPT ![s] = r]
Goto(s, step) == Continue(s, [request[s] EXCEPT !.step = step])
Finish(s) == Continue(s, Idle)

\* A new handler: does it overlap one that is in flight?
Start(s, r) ==
    /\ At(s, "idle")
    /\ Continue(s, r)
    /\ overlapped' = (overlapped \/ \E t \in Slots \ {s} : ~At(t, "idle"))

Init ==
    /\ txn = [x \in {Payment} |-> [status |-> "NONE", done |-> {}]]
    /\ share = [i \in {} |-> [trade |-> 1, owner |-> Buyer, isActive |-> FALSE]]
    /\ window = [u \in Movers |-> [count |-> 0, expires |-> FALSE]]
    /\ request = [s \in Slots |-> Idle]
    /\ overlapped = FALSE

\* f with the row v under the key k, inserted or replaced
WithRow(f, k, v) == [x \in DOMAIN f \cup {k} |-> IF x = k THEN v ELSE f[x]]

-----------------------------------------------------------------------------
(* What a share needs                                                        *)

Trades == DOMAIN txn \ {Payment}

\* orderBy createdAt desc, take the first: none, or a set of one
Latest(rows) == {x \in rows : \A y \in rows : y <= x}

\* findTransactionForChat skips closed trades.
Open == {x \in Trades : txn[x].status \notin Terminal}
Context == Latest(Open)

\* findBlockingSafePaymentForChat: not one that was cancelled
PaymentBlocks == txn[Payment].status \notin {"NONE", "CANCELLED"}

\* findAuthoritativeChatTransaction
Authoritative == IF PaymentBlocks THEN {Payment} ELSE Context

\* assertUserCanStartOrUpdateLiveLocation: open, and not confirmed by the user.
\* A direct trade that was closed since is not found, which passes.
MayShare(u) ==
    \A x \in Authoritative : txn[x].status # "COMPLETED" /\ u \notin txn[x].done

ActiveOf(x, u) ==
    {i \in DOMAIN share : share[i].trade = x /\ share[i].owner = u /\ share[i].isActive}

\* updateMany, of some owners in some trades
Stopped(trades, owners) ==
    [i \in DOMAIN share |-> IF share[i].trade \in trades /\ share[i].owner \in owners
                            THEN [share[i] EXCEPT !.isActive = FALSE] ELSE share[i]]

-----------------------------------------------------------------------------
(* Starting a direct trade                                                   *)

\* StartDirectTradeUseCase: assertDirectTradeOpen on the open trade, if any
BeginTrade(s) ==
    /\ \A x \in Context : txn[x].status = "OPEN"
    /\ Start(s, [step |-> "trade.find"])
    /\ UNCHANGED <<txn, share, window>>

\* getOrCreateTransaction: one that is not cancelled, open or completed, is
\* used again ...
FindTrade(s) ==
    /\ At(s, "trade.find")
    /\ IF \E x \in Trades : txn[x].status # "CANCELLED"
       THEN Finish(s) ELSE Goto(s, "trade.create")
    /\ UNCHANGED <<txn, share, window, overlapped>>

\* ... or else a new one is created, and upsertDirectTrade gives it its row.
CreateTrade(s) ==
    /\ At(s, "trade.create")
    /\ \E x \in TradeIds :
          /\ DOMAIN txn = 0..(x - 1)
          /\ txn' = WithRow(txn, x, [status |-> "OPEN", done |-> {}])
    /\ Finish(s)
    /\ UNCHANGED <<share, window, overlapped>>

-----------------------------------------------------------------------------
(* Starting, moving and stopping a share                                     *)

\* StartChatLocationShareUseCase: requireDirectTradeContext, then the
\* confirmations
BeginStart(s, u) ==
    /\ \E x \in Context : Start(s, [step |-> "start.check", user |-> u, trade |-> x])
    /\ UNCHANGED <<txn, share, window>>

CheckStart(s) ==
    /\ At(s, "start.check")
    /\ IF MayShare(request[s].user) THEN Goto(s, "start.find") ELSE Finish(s)
    /\ UNCHANGED <<txn, share, window, overlapped>>

\* The handler continues with the latest of the active shares of its user in
\* its trade.
WithLatest(s, step) ==
    \E i \in Latest(ActiveOf(request[s].trade, request[s].user)) :
        Continue(s, [step |-> step, id |-> i])

\* startLocationShare: an active share is moved, or else one is created, and
\* no transaction holds the two together
FindForStart(s) ==
    /\ At(s, "start.find")
    /\ \/ ActiveOf(request[s].trade, request[s].user) = {} /\ Goto(s, "start.create")
       \/ WithLatest(s, "start.refresh")
    /\ UNCHANGED <<txn, share, window, overlapped>>

CreateShare(s) ==
    /\ At(s, "start.create")
    /\ \E i \in ShareIds :
          /\ DOMAIN share = 1..(i - 1)
          /\ share' = WithRow(share, i, [trade |-> request[s].trade,
                                         owner |-> request[s].user, isActive |-> TRUE])
    /\ Finish(s)
    /\ UNCHANGED <<txn, window, overlapped>>

\* The row that was found is written by its id, with isActive set again.
WriteActive(s, step) ==
    /\ At(s, step)
    /\ share' = [share EXCEPT ![request[s].id].isActive = TRUE]
    /\ Finish(s)
    /\ UNCHANGED <<txn, window, overlapped>>

RefreshShare(s) == WriteActive(s, "start.refresh")

\* chat.location.update: INCR of the counter of the window ...
BeginUpdate(s, u) ==
    /\ window[u].count < MaxHits
    /\ window' = [window EXCEPT ![u].count = @ + 1]
    /\ IF window[u].count = 0
       THEN Start(s, [step |-> "update.expire", user |-> u])
       ELSE /\ window[u].count + 1 <= MaxActions
            /\ Start(s, [step |-> "update.context", user |-> u])
    /\ UNCHANGED <<txn, share>>

\* ... which refuses a call beyond the limit, but counts it ...
RefuseUpdate(u) ==
    /\ window[u].count \in MaxActions..(MaxHits - 1)
    /\ window' = [window EXCEPT ![u].count = @ + 1]
    /\ UNCHANGED <<txn, share, request, overlapped>>

\* Mutant: only a call that is refused makes the window expire.
SkipExpire(s) ==
    /\ At(s, "update.expire")
    /\ Goto(s, "update.context")
    /\ UNCHANGED <<txn, share, window, overlapped>>

\* ... and EXPIRE by the call that created the counter
SetExpire(s) ==
    /\ At(s, "update.expire")
    /\ window' = [window EXCEPT ![request[s].user].expires = TRUE]
    /\ Goto(s, "update.context")
    /\ UNCHANGED <<txn, share, overlapped>>

\* Redis removes the counter.
WindowEnds(u) ==
    /\ window[u].expires
    /\ window' = [window EXCEPT ![u] = [count |-> 0, expires |-> FALSE]]
    /\ UNCHANGED <<txn, share, request, overlapped>>

\* POST :chatRoomId/location calls the same use case and counts nothing.
BeginUpdateByHttp(s, u) ==
    /\ Start(s, [step |-> "update.context", user |-> u])
    /\ UNCHANGED <<txn, share, window>>

\* UpdateChatLocationShareUseCase
ContextForUpdate(s) ==
    /\ At(s, "update.context")
    /\ \/ Context = {} /\ Finish(s)
       \/ \E x \in Context :
             Continue(s, [step |-> "update.check", user |-> request[s].user, trade |-> x])
    /\ UNCHANGED <<txn, share, window, overlapped>>

CheckUpdate(s) ==
    /\ At(s, "update.check")
    /\ IF MayShare(request[s].user) THEN Goto(s, "update.find") ELSE Finish(s)
    /\ UNCHANGED <<txn, share, window, overlapped>>

\* updateLocationShare: the latest active share ...
FindForUpdate(s) ==
    /\ At(s, "update.find")
    /\ \/ ActiveOf(request[s].trade, request[s].user) = {} /\ Finish(s)
       \/ WithLatest(s, "update.write")
    /\ UNCHANGED <<txn, share, window, overlapped>>

\* ... is written by its id
MoveShare(s) == WriteActive(s, "update.write")

\* StopChatLocationShareUseCase needs an open trade, too.
BeginStop(s, u) ==
    /\ \E x \in Context : Start(s, [step |-> "stop.write", user |-> u, trade |-> x])
    /\ UNCHANGED <<txn, share, window>>

\* stopLocationShare
StopOwn(s, step) ==
    /\ At(s, step)
    /\ share' = Stopped({request[s].trade}, {request[s].user})
    /\ Finish(s)
    /\ UNCHANGED <<txn, window, overlapped>>

StopShare(s) == StopOwn(s, "stop.write")

-----------------------------------------------------------------------------
(* What confirmations and cancellations do to the shares                     *)

\* RequestChatSafePaymentUseCase
RequestSafePayment ==
    /\ ~PaymentBlocks
    /\ txn' = [txn EXCEPT ![Payment] = [status |-> "OPEN", done |-> {}]]
    /\ UNCHANGED <<share, window, request, overlapped>>

\* CompleteChatTransactionUseCase: not confirmed yet, and completable, which a
\* direct trade is whatever its own status
BeginComplete(s, u, x) ==
    /\ u \notin txn[x].done
    /\ PaymentBlocks <=> x = Payment
    /\ Start(s, [step |-> "complete.read", user |-> u, txn |-> x])
    /\ UNCHANGED <<txn, share, window>>

\* markTransactionCompletedByUser: the flags ...
ReadForComplete(s) ==
    /\ At(s, "complete.read")
    /\ LET q == request[s]
       IN Continue(s, [step |-> "complete.write", user |-> q.user, txn |-> q.txn,
                       done |-> txn[q.txn].done])
    /\ UNCHANGED <<txn, share, window, overlapped>>

\* ... and the commit.  The second confirmation stops the shares of both, the
\* first one those of its user.
WriteComplete(s) ==
    /\ At(s, "complete.write")
    /\ LET q == request[s]
           both == q.done \cup {q.user} = Parties
       IN /\ txn' = [txn EXCEPT ![q.txn] =
                        [status |-> IF both THEN "COMPLETED" ELSE "PART_COMPLETED",
                         done |-> @.done \cup {q.user}]]
          /\ Continue(s, IF both THEN [step |-> "all.stop"]
                         ELSE [step |-> "complete.find", user |-> q.user])
    /\ UNCHANGED <<share, window, overlapped>>

\* stopLiveLocationShareForCompletingUser: the latest open direct trade, if
\* any, which need not be the one that was confirmed ...
FindForCompletion(s) ==
    /\ At(s, "complete.find")
    /\ \/ Context = {} /\ Finish(s)
       \/ \E x \in Context :
             Continue(s, [step |-> "complete.stop", user |-> request[s].user, trade |-> x])
    /\ UNCHANGED <<txn, share, window, overlapped>>

\* ... and the share of the user who confirmed
StopForCompletion(s) == StopOwn(s, "complete.stop")

\* CancelChatTransactionUseCase: nobody has confirmed, and the row is open ...
BeginCancel(s, x) ==
    /\ txn[x].status = "OPEN"
    /\ Start(s, [step |-> "cancel.write", txn |-> x])
    /\ UNCHANGED <<txn, share, window>>

\* Mutant: the cancellation leaves the shares to the parties.
WriteCancelAndShare(s) ==
    /\ At(s, "cancel.write")
    /\ txn[request[s].txn].status \notin Terminal
    /\ txn' = [txn EXCEPT ![request[s].txn].status = "CANCELLED"]
    /\ Finish(s)
    /\ UNCHANGED <<share, window, overlapped>>

\* ... by now maybe completed, which refuses, or cancelled, which is all
WriteCancel(s) ==
    /\ At(s, "cancel.write")
    /\ LET x == request[s].txn
       IN IF txn[x].status \in Terminal
          THEN Finish(s) /\ UNCHANGED txn
          ELSE /\ txn' = [txn EXCEPT ![x].status = "CANCELLED"]
               /\ Continue(s, [step |-> "all.stop"])
    /\ UNCHANGED <<share, window, overlapped>>

\* stopAllLocationSharesForChatRoom: those of the latest direct trade, open or
\* not, and whatever transaction was completed or cancelled
StopAll(s) ==
    /\ At(s, "all.stop")
    /\ share' = Stopped(Latest(Trades), Parties)
    /\ Finish(s)
    /\ UNCHANGED <<txn, window, overlapped>>

-----------------------------------------------------------------------------

\* The socket's events
LocationEvents(s) ==
    \/ \E u \in Parties : BeginStart(s, u) \/ BeginStop(s, u)
    \/ \E u \in Movers : BeginUpdate(s, u)

\* The same by HTTP
LocationRoutes(s) ==
    \E u \in Parties : BeginStart(s, u) \/ BeginUpdateByHttp(s, u) \/ BeginStop(s, u)

TransactionRoutes(s) ==
    \/ BeginTrade(s)
    \/ \E x \in DOMAIN txn : BeginCancel(s, x) \/ \E u \in Parties : BeginComplete(s, u, x)

Begin(s) == LocationEvents(s) \/ LocationRoutes(s) \/ TransactionRoutes(s)

Step(s) ==
    \/ FindTrade(s) \/ CreateTrade(s)
    \/ CheckStart(s) \/ FindForStart(s) \/ CreateShare(s) \/ RefreshShare(s)
    \/ SetExpire(s) \/ ContextForUpdate(s) \/ CheckUpdate(s) \/ FindForUpdate(s)
    \/ MoveShare(s) \/ StopShare(s)
    \/ ReadForComplete(s) \/ WriteComplete(s) \/ FindForCompletion(s)
    \/ StopForCompletion(s) \/ WriteCancel(s) \/ StopAll(s)

Next ==
    \/ \E s \in Slots : Begin(s) \/ Step(s)
    \/ \E u \in Movers : RefuseUpdate(u) \/ WindowEnds(u)
    \/ RequestSafePayment

Spec == Init /\ [][Next]_vars

\* A handler that was started goes on, and Redis removes what expires.
FairSpec ==
    /\ Spec
    /\ \A s \in Slots : WF_vars(Step(s))
    /\ \A u \in Movers : WF_vars(WindowEnds(u))

-----------------------------------------------------------------------------
(* Properties                                                                *)

\* The tables and the handlers have their types, and a handler that confirms or
\* cancels refers to a transaction that exists.
TypeOK ==
    /\ \E n \in 0..MaxTrade : txn \in [0..n -> Txn]
    /\ \E ids \in SUBSET ShareIds : share \in [ids -> Share]
    /\ window \in [Movers -> Window]
    /\ request \in [Slots -> Request]
    /\ \A s \in Slots : request[s].step \in {"complete.read", "complete.write", "cancel.write"}
                         => request[s].txn \in DOMAIN txn
    /\ overlapped \in BOOLEAN

AtRest == \A s \in Slots : At(s, "idle")

\* While no two handlers overlap, a location that stays shared belongs to a
\* party that may share it: the trade is open, and the party has not confirmed
\* the transaction that counts, whoever started, moved, confirmed or cancelled
\* what before, and also after a safe payment began to count instead of the
\* trade, or ceased to.  The one exception is a trade that was replaced after
\* its cancellation and then confirmed: what stops shares looks at the trade
\* that replaced it, and its own stay active when it is completed.
OnlyRevivedTradesStayShared ==
    ~overlapped /\ AtRest =>
        \A x \in Trades, u \in Parties :
            ActiveOf(x, u) # {} =>
                IF x \in Latest(Trades)
                THEN x \in Open /\ \A y \in Authoritative : u \notin txn[y].done
                ELSE txn[x].done # {}

\* A counter of the rate limit is reset at some time, so that a party that was
\* refused can move its share again: no call counts without one that set the
\* expiry, whatever order INCR and EXPIRE of several calls take.
WindowReopens == \A u \in Movers : window[u].count > 0 ~> window[u].count = 0

=============================================================================
