-------------------------- MODULE LiveLocationProofs --------------------------
(***************************************************************************)
(* What holds of the live locations for every number of trades, shares,    *)
(* calls and handlers in flight.                                           *)
(*                                                                         *)
(* Which locations stay shared is a property of the states in which no     *)
(* handler runs.  Quiet is what holds in between: a handler that has yet   *)
(* to stop a share is the reason why it is still active, and one that will *)
(* activate a share belongs to a party that may share still.               *)
(***************************************************************************)
EXTENDS LiveLocation, TLAPS

\* A trade in which the party u should share nothing any more: one that does
\* not exist yet, the latest one once it is closed or u has confirmed the
\* transaction that counts, and a replaced one that nobody confirmed
Closed(x, u) ==
    \/ x \notin Trades
    \/ x \in Latest(Trades) /\ (x \notin Open \/ \E y \in Authoritative : u \in txn[y].done)
    \/ x \notin Latest(Trades) /\ txn[x].done = {}

\* The handler q is about to stop the shares of u in x.
Stopping(q, x, u) ==
    \/ q.step = "all.stop" /\ x \in Latest(Trades)
    \/ q.step = "complete.find" /\ q.user = u /\ x \in Context
    \/ q.step = "complete.stop" /\ q.user = u /\ q.trade = x

\* What the handler q found holds still.
Relies(q) ==
    /\ q.step = "trade.create" => \A x \in Trades : txn[x].status = "CANCELLED"
    /\ q.step \in {"start.check", "update.check"} => q.trade \in Context
    /\ q.step \in {"start.find", "start.create", "update.find"} => ~Closed(q.trade, q.user)
    /\ q.step \in {"start.refresh", "update.write"}
         => q.id \in DOMAIN share /\ share[q.id].isActive
    /\ q.step \in {"complete.read", "complete.write"} /\ q.txn = Payment => PaymentBlocks

\* A trade that was replaced had been cancelled: it is open only because a party
\* confirmed it.
Revived == \A x \in Open : x \in Latest(Trades) \/ txn[x].done # {}

\* Nothing is active that should not be, except for the handler q.
Settled(q) ==
    /\ Relies(q)
    /\ Revived
    /\ \A x \in TradeIds, u \in Parties :
          Closed(x, u) /\ ~Stopping(q, x, u) => ActiveOf(x, u) = {}

\* At most one handler is in flight, and it, or none, has work to finish.
Quiet ==
    ~overlapped =>
        /\ \A s, t \in Slots : ~At(s, "idle") /\ ~At(t, "idle") => s = t
        /\ \A s \in Slots : ~At(s, "idle") => Settled(request[s])
        /\ AtRest => Settled(Idle)

Txns == \E n \in 0..MaxTrade : txn \in [0..n -> Txn]
Shares == \E ids \in SUBSET ShareIds : share \in [ids -> Share]
Refers(q) == q.step \in {"complete.read", "complete.write", "cancel.write"} => q.txn \in DOMAIN txn

-----------------------------------------------------------------------------
(* Handlers and rows                                                         *)

PlainSteps == {"trade.find", "trade.create", "all.stop"}
UserSteps == {"update.expire", "update.context", "complete.find"}
TradeSteps == {"start.check", "start.find", "start.create", "update.check", "update.find",
               "stop.write", "complete.stop"}
RowSteps == {"start.refresh", "update.write"}
TxnSteps == {"complete.read", "complete.write", "cancel.write"}

\* What a handler carries in each of its steps.
LEMMA RequestFields ==
    ASSUME NEW q \in Request
    PROVE  /\ q.step = "idle" => q = Idle
           /\ q.step \in UserSteps => q.user \in Parties
           /\ q.step \in TradeSteps => q.user \in Parties /\ q.trade \in TradeIds
           /\ q.step \in RowSteps => q.id \in ShareIds
           /\ q.step \in TxnSteps => q.txn \in TxnIds
           /\ q.step \in {"complete.read", "complete.write"} => q.user \in Parties
           /\ q.step = "complete.write" => q.done \subseteq Parties
BY DEF Request, Idle, UserSteps, TradeSteps, RowSteps, TxnSteps

LEMMA IdleTyped == Idle \in Request /\ Idle.step = "idle"
BY DEF Idle, Request

LEMMA PlainTyped == ASSUME NEW step \in PlainSteps PROVE [step |-> step] \in Request
BY DEF PlainSteps, Request

LEMMA UserTyped ==
    ASSUME NEW step \in UserSteps, NEW u \in Parties
    PROVE  [step |-> step, user |-> u] \in Request
BY DEF UserSteps, Request

LEMMA TradeTyped ==
    ASSUME NEW step \in TradeSteps, NEW u \in Parties, NEW x \in TradeIds
    PROVE  [step |-> step, user |-> u, trade |-> x] \in Request
BY DEF TradeSteps, Request

LEMMA RowTyped ==
    ASSUME NEW step \in RowSteps, NEW i \in ShareIds
    PROVE  [step |-> step, id |-> i] \in Request
BY DEF RowSteps, Request

\* A handler that goes on keeps what it carries.
LEMMA GotoTyped ==
    ASSUME NEW q \in Request, NEW step,
           \/ q.step \in TradeSteps /\ step \in TradeSteps
           \/ q.step \in UserSteps /\ step \in UserSteps
           \/ q.step \in PlainSteps /\ step \in PlainSteps
    PROVE  /\ [q EXCEPT !.step = step] \in Request
           /\ [q EXCEPT !.step = step].step = step
           /\ q.step \in TradeSteps => /\ [q EXCEPT !.step = step].user = q.user
                                       /\ [q EXCEPT !.step = step].trade = q.trade
           /\ q.step \in UserSteps => [q EXCEPT !.step = step].user = q.user
<1>1. CASE q.step \in TradeSteps /\ step \in TradeSteps
  <2>1. PICK u \in Parties, x \in TradeIds : q = [step |-> q.step, user |-> u, trade |-> x]
    BY <1>1 DEF Request, Idle, TradeSteps
  <2>2. [q EXCEPT !.step = step] = [step |-> step, user |-> u, trade |-> x]
    BY <2>1
  <2> QED BY <1>1, <2>1, <2>2, TradeTyped DEF TradeSteps, UserSteps
<1>2. CASE q.step \in UserSteps /\ step \in UserSteps
  <2>1. PICK u \in Parties : q = [step |-> q.step, user |-> u]
    BY <1>2 DEF Request, Idle, UserSteps
  <2>2. [q EXCEPT !.step = step] = [step |-> step, user |-> u]
    BY <2>1
  <2> QED BY <1>2, <2>1, <2>2, UserTyped DEF TradeSteps, UserSteps
<1>3. CASE q.step \in PlainSteps /\ step \in PlainSteps
  <2>1. q = [step |-> q.step]
    BY <1>3 DEF Request, Idle, PlainSteps
  <2>2. [q EXCEPT !.step = step] = [step |-> step]
    BY <2>1
  <2> QED BY <1>3, <2>2, PlainTyped DEF TradeSteps, UserSteps, PlainSteps
<1> QED BY <1>1, <1>2, <1>3

LEMMA Deactivated == ASSUME NEW row \in Share PROVE [row EXCEPT !.isActive = FALSE] \in Share
BY DEF Share

LEMMA Activated == ASSUME NEW row \in Share PROVE [row EXCEPT !.isActive = TRUE] \in Share
BY DEF Share

\* The rows that an order by createdAt puts first
LEMMA LatestIsOne ==
    ASSUME NEW rows \in SUBSET Int, NEW x \in Latest(rows), NEW y \in Latest(rows)
    PROVE  x = y /\ x \in rows
BY DEF Latest

LEMMA TradesAre ==
    ASSUME NEW n \in Nat, DOMAIN txn = 0..n
    PROVE  Trades = 1..n /\ \A x : x \in Latest(Trades) <=> x = n /\ n > 0
BY DEF Trades, Payment, Latest

\* What the trades are numbered
LEMMA TradesTyped == ASSUME TypeOK PROVE Trades \subseteq TradeIds /\ Trades \subseteq Int /\ Open \subseteq Trades
<1>1. PICK n \in 0..MaxTrade : txn \in [0..n -> Txn]
  BY DEF TypeOK
<1>2. MaxTrade \in Nat
  BY BoundsAssumption
<1> QED BY <1>1, <1>2, TradesAre DEF TradeIds, Open

\* If the latest trade is open, then the shares of the parties belong to it.
LEMMA LatestIsContext ==
    ASSUME TypeOK, NEW x \in Latest(Trades), x \in Open
    PROVE  Context = {x}
<1>1. x \in Context
  BY TradesTyped DEF Context, Latest
<1>2. ASSUME NEW y \in Context PROVE y = x
  BY <1>1, <1>2, TradesTyped, LatestIsOne DEF Context
<1> QED BY <1>1, <1>2

LEMMA HandlerTyped ==
    ASSUME TypeOK, NEW s \in Slots, NEW q \in Request, Continue(s, q),
           DOMAIN txn \subseteq DOMAIN txn', Refers(q)
    PROVE  /\ request' \in [Slots -> Request]
           /\ \A t \in Slots : Refers(request[t])'
<1>1. request' = [request EXCEPT ![s] = q] /\ request \in [Slots -> Request]
  BY DEF Continue, TypeOK
<1>2. ASSUME NEW t \in Slots PROVE Refers(request[t])'
  BY <1>1 DEF Refers, TypeOK
<1> QED BY <1>1, <1>2

LEMMA InitTyped == Init => TypeOK
<1> SUFFICES ASSUME Init PROVE TypeOK
  OBVIOUS
<1>1. Txns
  <2>1. txn \in [0..0 -> Txn]
    BY DEF Init, Payment, Txn, Status
  <2> QED BY <2>1, BoundsAssumption DEF Txns
<1>2. Shares
  <2>1. share \in [{} -> Share]
    BY DEF Init
  <2> QED BY <2>1 DEF Shares
<1>3. window \in [Movers -> Window]
  BY DEF Init, Window
<1>4. request \in [Slots -> Request] /\ \A s \in Slots : Refers(request[s])
  BY IdleTyped DEF Init, Refers
<1> QED BY <1>1, <1>2, <1>3, <1>4 DEF Init, TypeOK, Txns, Shares, Refers

-----------------------------------------------------------------------------
(* Types                                                                     *)

\* What each kind of call carries when it starts, and what it has found
LEMMA BeginStarts ==
    ASSUME TypeOK, NEW s \in Slots, Begin(s)
    PROVE  \E q \in Request :
              /\ Start(s, q)
              /\ UNCHANGED <<txn, share>>
              /\ q.step \in {"trade.find", "start.check", "update.expire", "update.context",
                             "stop.write", "complete.read", "cancel.write"}
              /\ Relies(q) /\ Refers(q)
<1> DEFINE Good(q) ==
              /\ q \in Request
              /\ q.step \in {"trade.find", "start.check", "update.expire", "update.context",
                             "stop.write", "complete.read", "cancel.write"}
              /\ Relies(q) /\ Refers(q)
<1>1. ASSUME NEW u \in Parties, BeginUpdate(s, u) \/ BeginUpdateByHttp(s, u)
      PROVE  \E q : Good(q) /\ Start(s, q) /\ UNCHANGED <<txn, share>>
  <2>1. ASSUME NEW step \in {"update.expire", "update.context"}
        PROVE  Good([step |-> step, user |-> u])
    BY UserTyped DEF UserSteps, Relies, Refers
  <2> QED BY <1>1, <2>1 DEF BeginUpdate, BeginUpdateByHttp
<1>2. ASSUME NEW u \in Parties, BeginStart(s, u) \/ BeginStop(s, u)
      PROVE  \E q : Good(q) /\ Start(s, q) /\ UNCHANGED <<txn, share>>
  <2>1. ASSUME NEW x \in Context, NEW step \in {"start.check", "stop.write"}
        PROVE  Good([step |-> step, user |-> u, trade |-> x])
    <3>1. x \in TradeIds
      BY TradesTyped DEF Context, Latest
    <3> QED BY <3>1, TradeTyped DEF TradeSteps, Relies, Refers
  <2> QED BY <1>2, <2>1 DEF BeginStart, BeginStop
<1>3. ASSUME BeginTrade(s) PROVE \E q : Good(q) /\ Start(s, q) /\ UNCHANGED <<txn, share>>
  <2>1. Good([step |-> "trade.find"])
    BY PlainTyped DEF PlainSteps, Relies, Refers
  <2> QED BY <1>3, <2>1 DEF BeginTrade
<1>4. ASSUME NEW x \in DOMAIN txn,
             BeginCancel(s, x) \/ \E u \in Parties : BeginComplete(s, u, x)
      PROVE  \E q : Good(q) /\ Start(s, q) /\ UNCHANGED <<txn, share>>
  <2>1. x \in TxnIds
    BY TradesTyped DEF TxnIds, Trades
  <2>2. Good([step |-> "cancel.write", txn |-> x])
    <3>1. [step |-> "cancel.write", txn |-> x] \in Request
      BY <2>1 DEF Request
    <3> QED BY <3>1 DEF Relies, Refers
  <2>3. ASSUME NEW u \in Parties, BeginComplete(s, u, x)
        PROVE  Good([step |-> "complete.read", user |-> u, txn |-> x])
    <3>1. [step |-> "complete.read", user |-> u, txn |-> x] \in Request
      BY <2>1 DEF Request
    <3> QED BY <2>3, <3>1 DEF Relies, Refers, BeginComplete
  <2> QED BY <1>4, <2>2, <2>3 DEF BeginCancel, BeginComplete
<1>5. \E q : Good(q) /\ Start(s, q) /\ UNCHANGED <<txn, share>>
  BY <1>1, <1>2, <1>3, <1>4, PartiesAssumption DEF Begin, LocationEvents, LocationRoutes,
     TransactionRoutes
<1> QED BY <1>5

\* A handler starts; over the socket it is counted.
LEMMA BeginTyped == ASSUME TypeOK, NEW s \in Slots, Begin(s) PROVE TypeOK'
<1>1. PICK q \in Request : Start(s, q) /\ UNCHANGED <<txn, share>> /\ Refers(q)
  BY BeginStarts
<1>2. request' \in [Slots -> Request] /\ overlapped' \in BOOLEAN
  BY <1>1, HandlerTyped DEF Start, TypeOK
<1>3. \A t \in Slots : Refers(request[t])'
  BY <1>1, HandlerTyped DEF Start
<1>4. window' \in [Movers -> Window]
  <2>1. ASSUME NEW u \in Movers, BeginUpdate(s, u) PROVE window' \in [Movers -> Window]
    <3>1. window' = [window EXCEPT ![u].count = @ + 1]
      BY <2>1 DEF BeginUpdate
    <3>2. window \in [Movers -> Window] /\ window[u].count + 1 \in Nat
      BY DEF TypeOK, Window
    <3>3. [window[u] EXCEPT !.count = @ + 1] \in Window
      BY <3>2 DEF Window
    <3> QED BY <3>1, <3>2, <3>3
  <2>2. ASSUME ~\E u \in Movers : BeginUpdate(s, u) PROVE UNCHANGED window
    BY <2>2 DEF Begin, LocationEvents, LocationRoutes, TransactionRoutes, BeginTrade, BeginStart,
       BeginStop, BeginUpdateByHttp, BeginComplete, BeginCancel
  <2> QED BY <2>1, <2>2 DEF TypeOK
<1> QED BY <1>1, <1>2, <1>3, <1>4 DEF TypeOK, Refers

\* Every step of a handler leads to one of its steps, and no row goes away.
LEMMA StepContinues ==
    ASSUME TypeOK, NEW s \in Slots, Step(s)
    PROVE  /\ \E q \in Request : Continue(s, q) /\ Refers(q)
           /\ DOMAIN txn \subseteq DOMAIN txn'
<1> DEFINE p == request[s]
           Goes == \E q \in Request : Continue(s, q) /\ Refers(q)
<1>1. p \in Request
  BY DEF TypeOK
<1>2. Finish(s) => Goes
  BY IdleTyped DEF Finish, Refers
<1>3. ASSUME NEW step, Goto(s, step),
             \/ p.step \in TradeSteps /\ step \in TradeSteps
             \/ p.step \in UserSteps /\ step \in UserSteps
             \/ p.step \in PlainSteps /\ step \in PlainSteps
      PROVE  Goes
  <2>1. [p EXCEPT !.step = step] \in Request /\ [p EXCEPT !.step = step].step = step
    BY <1>1, <1>3, GotoTyped
  <2>2. Refers([p EXCEPT !.step = step])
    BY <1>3, <2>1 DEF Refers, TradeSteps, UserSteps, PlainSteps
  <2> QED BY <1>3, <2>1, <2>2 DEF Goto
<1>4. ASSUME NEW step \in RowSteps, WithLatest(s, step) PROVE Goes
  <2>1. PICK i \in DOMAIN share : Continue(s, [step |-> step, id |-> i])
    BY <1>4 DEF WithLatest, Latest, ActiveOf
  <2>2. i \in ShareIds
    BY DEF TypeOK
  <2> QED BY <2>1, <2>2, RowTyped DEF Refers, RowSteps
<1>5. ASSUME p.step \in UserSteps, NEW step \in TradeSteps, NEW x \in Context,
             Continue(s, [step |-> step, user |-> p.user, trade |-> x])
      PROVE  Goes
  <2>1. p.user \in Parties /\ x \in TradeIds
    BY <1>1, <1>5, RequestFields, TradesTyped DEF Context, Latest
  <2> QED BY <1>5, <2>1, TradeTyped DEF Refers, TradeSteps
<1>6. CASE FindTrade(s) \/ CreateTrade(s)
  <2>1. Goes
    BY <1>2, <1>3, <1>6 DEF FindTrade, CreateTrade, At, PlainSteps
  <2>2. DOMAIN txn \subseteq DOMAIN txn'
    BY <1>6 DEF FindTrade, CreateTrade, WithRow
  <2> QED BY <2>1, <2>2
<1>7. CASE CheckStart(s) \/ FindForStart(s) \/ CheckUpdate(s) \/ FindForUpdate(s)
  BY <1>2, <1>3, <1>4, <1>7 DEF CheckStart, FindForStart, CheckUpdate, FindForUpdate, At,
     TradeSteps, RowSteps
<1>8. CASE SetExpire(s) \/ ContextForUpdate(s) \/ FindForCompletion(s)
  BY <1>2, <1>3, <1>5, <1>8 DEF SetExpire, ContextForUpdate, FindForCompletion, At,
     UserSteps, TradeSteps
<1>9. CASE \/ CreateShare(s) \/ RefreshShare(s) \/ MoveShare(s) \/ StopShare(s)
           \/ StopForCompletion(s) \/ StopAll(s)
  BY <1>2, <1>9 DEF CreateShare, RefreshShare, MoveShare, WriteActive, StopShare,
     StopForCompletion, StopOwn, StopAll
<1>10. CASE ReadForComplete(s)
  <2> DEFINE q == [step |-> "complete.write", user |-> p.user, txn |-> p.txn,
                   done |-> txn[p.txn].done]
  <2>1. p.user \in Parties /\ p.txn \in TxnIds /\ p.txn \in DOMAIN txn
    BY <1>1, <1>10, RequestFields DEF ReadForComplete, At, TypeOK, TxnSteps
  <2>2. txn[p.txn].done \subseteq Parties
    BY <2>1 DEF TypeOK, Txn
  <2>3. q \in Request
    BY <2>1, <2>2 DEF Request
  <2> QED BY <1>10, <2>1, <2>3 DEF ReadForComplete, Refers
<1>11. CASE WriteComplete(s)
  <2>1. p.user \in Parties
    BY <1>1, <1>11, RequestFields DEF WriteComplete, At
  <2>2. Goes
    BY <1>11, <2>1, UserTyped, PlainTyped DEF WriteComplete, UserSteps, PlainSteps, Refers
  <2> QED BY <1>11, <2>2 DEF WriteComplete
<1>12. CASE WriteCancel(s)
  <2>1. Goes
    BY <1>2, <1>12, PlainTyped DEF WriteCancel, PlainSteps, Refers
  <2> QED BY <1>12, <2>1 DEF WriteCancel
<1> QED BY <1>6, <1>7, <1>8, <1>9, <1>10, <1>11, <1>12 DEF Step

\* The tables that a step writes
LEMMA StepWrites ==
    ASSUME TypeOK, NEW s \in Slots, Step(s)
    PROVE  /\ Txns' /\ Shares'
           /\ window' \in [Movers -> Window]
           /\ overlapped' = overlapped
<1>1. UNCHANGED txn => Txns'
  BY DEF TypeOK, Txns
<1>2. UNCHANGED share => Shares'
  BY DEF TypeOK, Shares
<1>3. UNCHANGED window => window' \in [Movers -> Window]
  BY DEF TypeOK
<1>4. ASSUME NEW trades, NEW owners, share' = Stopped(trades, owners) PROVE Shares'
  BY <1>4, Deactivated DEF Stopped, TypeOK, Shares
<1>5. ASSUME NEW i, share' = [share EXCEPT ![i].isActive = TRUE] PROVE Shares'
  BY <1>5, Activated DEF TypeOK, Shares
<1>6. CASE CreateShare(s)
  <2>1. request[s].user \in Parties /\ request[s].trade \in TradeIds
    BY <1>6, RequestFields DEF CreateShare, At, TradeSteps, TypeOK
  <2> DEFINE row == [trade |-> request[s].trade, owner |-> request[s].user, isActive |-> TRUE]
  <2>2. row \in Share
    BY <2>1 DEF Share
  <2>3. PICK i \in ShareIds : share' = WithRow(share, i, row)
    BY <1>6 DEF CreateShare
  <2>4. Shares'
    <3>1. PICK ids \in SUBSET ShareIds : share \in [ids -> Share]
      BY DEF TypeOK
    <3> HIDE DEF row
    <3>2. share' \in [ids \cup {i} -> Share]
      BY <2>2, <2>3, <3>1 DEF WithRow
    <3> QED BY <3>1, <3>2 DEF Shares
  <2> QED BY <1>1, <1>3, <1>6, <2>4 DEF CreateShare
<1>7. CASE CreateTrade(s)
  <2>1. PICK x \in TradeIds :
           /\ DOMAIN txn = 0..(x - 1)
           /\ txn' = WithRow(txn, x, [status |-> "OPEN", done |-> {}])
    BY <1>7 DEF CreateTrade
  <2>2. MaxTrade \in Nat /\ x \in 1..MaxTrade
    BY BoundsAssumption DEF TradeIds
  <2>3. txn \in [0..(x - 1) -> Txn] /\ 0..(x - 1) \cup {x} = 0..x
    BY <2>1, <2>2 DEF TypeOK
  <2>4. [status |-> "OPEN", done |-> {}] \in Txn
    BY DEF Txn, Status
  <2>5. txn' \in [0..x -> Txn]
    BY <2>1, <2>3, <2>4 DEF WithRow
  <2>6. Txns'
    BY <2>2, <2>5 DEF Txns
  <2> QED BY <1>2, <1>3, <1>7, <2>6 DEF CreateTrade
<1>8. CASE SetExpire(s)
  <2>1. window' \in [Movers -> Window]
    BY <1>8 DEF SetExpire, TypeOK, Window
  <2> QED BY <1>1, <1>2, <1>8, <2>1 DEF SetExpire
<1>9. CASE WriteComplete(s)
  <2>1. request[s].user \in Parties
    BY <1>9, RequestFields DEF WriteComplete, At, TypeOK
  <2>2. PICK n \in 0..MaxTrade : txn \in [0..n -> Txn]
    BY DEF TypeOK
  <2>3. ASSUME NEW row \in Txn, NEW status \in Status
        PROVE  [status |-> status, done |-> row.done \cup {request[s].user}] \in Txn
    BY <2>1 DEF Txn
  <2>4. PICK status \in Status :
           txn' = [txn EXCEPT ![request[s].txn] =
                      [status |-> status, done |-> @.done \cup {request[s].user}]]
    BY <1>9 DEF WriteComplete, Status
  <2>5. txn' \in [0..n -> Txn]
    BY <2>2, <2>3, <2>4
  <2>6. Txns'
    BY <2>5 DEF Txns
  <2> QED BY <1>2, <1>3, <1>9, <2>6 DEF WriteComplete
<1>10. CASE WriteCancel(s)
  <2>1. ASSUME NEW row \in Txn PROVE [row EXCEPT !.status = "CANCELLED"] \in Txn
    BY DEF Txn, Status
  <2>2. Txns'
    BY <1>10, <2>1 DEF WriteCancel, TypeOK, Txns
  <2> QED BY <1>2, <1>3, <1>10, <2>2 DEF WriteCancel
<1>11. CASE \/ FindTrade(s) \/ CheckStart(s) \/ FindForStart(s) \/ ContextForUpdate(s)
            \/ CheckUpdate(s) \/ FindForUpdate(s) \/ ReadForComplete(s) \/ FindForCompletion(s)
  BY <1>1, <1>2, <1>3, <1>11 DEF FindTrade, CheckStart, FindForStart, ContextForUpdate,
     CheckUpdate, FindForUpdate, ReadForComplete, FindForCompletion
<1>12. CASE \/ RefreshShare(s) \/ MoveShare(s) \/ StopShare(s) \/ StopForCompletion(s)
            \/ StopAll(s)
  BY <1>1, <1>3, <1>4, <1>5, <1>12 DEF RefreshShare, MoveShare, WriteActive, StopShare,
     StopForCompletion, StopOwn, StopAll
<1> QED BY <1>6, <1>7, <1>8, <1>9, <1>10, <1>11, <1>12 DEF Step

LEMMA StepTyped == ASSUME TypeOK, NEW s \in Slots, Step(s) PROVE TypeOK'
<1>1. request' \in [Slots -> Request] /\ \A t \in Slots : Refers(request[t])'
  BY StepContinues, HandlerTyped
<1> QED BY <1>1, StepWrites DEF TypeOK, Txns, Shares, Refers

\* Redis counts, and a safe payment is requested.
LEMMA OtherTyped ==
    ASSUME TypeOK, (\E u \in Movers : RefuseUpdate(u) \/ WindowEnds(u)) \/ RequestSafePayment
    PROVE  TypeOK'
<1>1. ASSUME NEW u \in Movers, RefuseUpdate(u) \/ WindowEnds(u) PROVE TypeOK'
  <2>1. window' \in [Movers -> Window]
    <3>1. window \in [Movers -> Window]
      BY DEF TypeOK
    <3>2. CASE RefuseUpdate(u)
      BY <3>1, <3>2 DEF RefuseUpdate, Window
    <3>3. CASE WindowEnds(u)
      BY <3>1, <3>3 DEF WindowEnds, Window
    <3> QED BY <1>1, <3>2, <3>3
  <2> QED BY <1>1, <2>1 DEF RefuseUpdate, WindowEnds, TypeOK
<1>2. CASE RequestSafePayment
  <2>1. Txns' /\ DOMAIN txn' = DOMAIN txn
    BY <1>2 DEF RequestSafePayment, TypeOK, Txns, Txn, Status
  <2> QED BY <1>2, <2>1 DEF RequestSafePayment, TypeOK, Txns
<1> QED BY <1>1, <1>2

LEMMA NextTyped == TypeOK /\ [Next]_vars => TypeOK'
<1> SUFFICES ASSUME TypeOK, [Next]_vars PROVE TypeOK'
  OBVIOUS
<1>1. CASE UNCHANGED vars
  BY <1>1 DEF vars, TypeOK
<1> QED BY <1>1, BeginTyped, StepTyped, OtherTyped DEF Next

\* The tables, the windows and the handlers have their types.
THEOREM TypeCorrect == Spec => []TypeOK
<1> QED BY InitTyped, NextTyped, PTL DEF Spec

-----------------------------------------------------------------------------
(* What stays shared                                                         *)

\* What should not be shared, while no handler will stop it
Silent == \A x \in TradeIds, u \in Parties : Closed(x, u) => ActiveOf(x, u) = {}

\* What depends on the tables only
LEMMA SameRows ==
    ASSUME UNCHANGED <<txn, share>>, NEW q
    PROVE  /\ Relies(q)' <=> Relies(q)
           /\ Settled(q)' <=> Settled(q)
           /\ Silent' <=> Silent
BY DEF Relies, Settled, Silent, Revived, Closed, Stopping, Trades, Open, Context, Authoritative,
   PaymentBlocks, ActiveOf

LEMMA IdleIsSilent == Settled(Idle) <=> Revived /\ Silent
BY DEF Settled, Relies, Stopping, Idle, Silent

\* A handler that will stop nothing
LEMMA SilentHandler ==
    ASSUME NEW q, q.step \notin {"all.stop", "complete.find", "complete.stop"}
    PROVE  Settled(q) <=> Relies(q) /\ Revived /\ Silent
BY DEF Settled, Stopping, Silent

\* The state after a step of the only handler, which is q by now
LEMMA LastSettled ==
    ASSUME TypeOK, NEW s \in Slots, NEW q \in Request, Continue(s, q),
           \A t \in Slots \ {s} : At(t, "idle"),
           Settled(q)'
    PROVE  Quiet'
<1>1. request'[s] = q /\ \A t \in Slots \ {s} : request'[t].step = "idle"
  BY DEF Continue, At, TypeOK
<1>2. q.step = "idle" => q = Idle
  BY RequestFields
<1> QED BY <1>1, <1>2 DEF Quiet, AtRest, At

\* The only handler has finished.
LEMMA LastFinished ==
    ASSUME TypeOK, NEW s \in Slots, Finish(s), \A t \in Slots \ {s} : At(t, "idle"),
           Revived', Silent'
    PROVE  Quiet'
<1>1. Settled(Idle)'
  BY IdleIsSilent, PTL
<1> QED BY <1>1, IdleTyped, LastSettled DEF Finish

\* A handler that runs alone
LEMMA Alone ==
    ASSUME TypeOK, Quiet, ~overlapped, NEW s \in Slots, ~At(s, "idle")
    PROVE  /\ \A t \in Slots \ {s} : At(t, "idle")
           /\ Settled(request[s])
BY DEF Quiet

LEMMA InitQuiet == Init => Quiet
<1> SUFFICES ASSUME Init PROVE Quiet
  OBVIOUS
<1>1. Silent /\ Revived
  BY DEF Init, Silent, ActiveOf, Revived, Open, Trades
<1> QED BY <1>1, IdleIsSilent, IdleTyped DEF Quiet, Init, At

\* A handler that starts alone finds nothing to stop.
LEMMA BeginQuiet == ASSUME TypeOK, Quiet, NEW s \in Slots, Begin(s) PROVE Quiet'
<1> SUFFICES ASSUME ~overlapped' PROVE Quiet'
  BY DEF Quiet
<1>1. PICK q \in Request :
         /\ Start(s, q)
         /\ UNCHANGED <<txn, share>>
         /\ q.step \in {"trade.find", "start.check", "update.expire", "update.context",
                        "stop.write", "complete.read", "cancel.write"}
         /\ Relies(q)
  BY BeginStarts
<1>2. AtRest /\ ~overlapped
  BY <1>1 DEF Start, AtRest, TypeOK
<1>3. Revived /\ Silent
  BY <1>2, IdleIsSilent DEF Quiet
<1>4. Settled(q)
  BY <1>1, <1>3, SilentHandler
<1>5. Settled(q)'
  BY <1>1, <1>4, SameRows
<1> QED BY <1>1, <1>2, <1>5, LastSettled DEF Start, AtRest

\* A handler that may activate shares reads, or writes what was active.
LEMMA ReadingQuiet ==
    ASSUME TypeOK, Quiet, NEW s \in Slots, ~overlapped, UNCHANGED <<txn, share>>,
           NEW q \in Request, Continue(s, q), Relies(q),
           request[s].step \notin {"idle", "all.stop", "complete.find", "complete.stop"}
    PROVE  Quiet'
<1>1. Settled(request[s]) /\ \A t \in Slots \ {s} : At(t, "idle")
  BY Alone DEF At
<1>2. Revived /\ Silent
  BY <1>1, SilentHandler
<1>3. Settled(q)
  BY <1>2 DEF Settled, Silent
<1>4. Settled(q)'
  BY <1>3, SameRows
<1> QED BY <1>1, <1>4, LastSettled

\* Who may share in the open trade may have shares in it.
LEMMA MayShareIsOpen ==
    ASSUME TypeOK, Revived, NEW u, NEW x \in Context, MayShare(u) PROVE ~Closed(x, u)
<1>1. x \in Open /\ x \in Trades
  BY TradesTyped DEF Context, Latest
<1> QED BY <1>1 DEF Closed, MayShare, Revived

\* The steps that look at the trades and the shares, up to the one that moves a
\* share: it is active already, so that nothing changes.
LEMMA SharingQuiet ==
    ASSUME TypeOK, Quiet, NEW s \in Slots, ~overlapped,
           \/ FindTrade(s) \/ CheckStart(s) \/ FindForStart(s) \/ SetExpire(s)
           \/ ContextForUpdate(s) \/ CheckUpdate(s) \/ FindForUpdate(s) \/ RefreshShare(s)
           \/ MoveShare(s) \/ ReadForComplete(s)
    PROVE  Quiet'
<1> DEFINE p == request[s]
<1>1. p.step \notin {"idle", "all.stop", "complete.find", "complete.stop"} /\ p \in Request
  BY DEF FindTrade, CheckStart, FindForStart, SetExpire, ContextForUpdate, CheckUpdate,
     FindForUpdate, RefreshShare, MoveShare, WriteActive, ReadForComplete, At, TypeOK
<1>2. Relies(p) /\ Revived /\ Silent
  BY <1>1, Alone, SilentHandler DEF At
<1>3. ASSUME NEW q \in Request, Continue(s, q), Relies(q), UNCHANGED <<txn, share>>
      PROVE  Quiet'
  BY <1>1, <1>3, ReadingQuiet
<1>4. ASSUME Finish(s), UNCHANGED <<txn, share>> PROVE Quiet'
  <2>1. Relies(Idle)
    BY DEF Relies, Idle
  <2> QED BY <1>3, <1>4, <2>1, IdleTyped DEF Finish
<1>5. ASSUME p.step \in TradeSteps, NEW step \in TradeSteps, Goto(s, step),
             UNCHANGED <<txn, share>>,
             step \in {"start.check", "update.check"} => p.trade \in Context,
             step \in {"start.find", "start.create", "update.find"} => ~Closed(p.trade, p.user)
      PROVE  Quiet'
  <2>1. PICK q \in Request : /\ Continue(s, q)
                             /\ q.step = step /\ q.user = p.user /\ q.trade = p.trade
    BY <1>1, <1>5, GotoTyped DEF Goto
  <2>2. Relies(q)
    BY <1>5, <2>1 DEF Relies, TradeSteps
  <2> QED BY <1>3, <1>5, <2>1, <2>2
<1>6. ASSUME NEW step \in RowSteps, WithLatest(s, step), UNCHANGED <<txn, share>> PROVE Quiet'
  <2>1. PICK i \in DOMAIN share : share[i].isActive /\ Continue(s, [step |-> step, id |-> i])
    BY <1>6 DEF WithLatest, Latest, ActiveOf
  <2>2. i \in ShareIds
    BY DEF TypeOK
  <2> DEFINE q == [step |-> step, id |-> i]
  <2>3. q \in Request
    BY <2>2, RowTyped
  <2>4. Relies(q)
    BY <2>1 DEF Relies, RowSteps
  <2> QED BY <1>3, <1>6, <2>1, <2>3, <2>4
<1>7. CASE FindTrade(s)
  <2>1. CASE Finish(s)
    BY <1>4, <1>7, <2>1 DEF FindTrade
  <2>2. CASE Goto(s, "trade.create") /\ \A x \in Trades : txn[x].status = "CANCELLED"
    <3>1. PICK q \in Request : Continue(s, q) /\ q.step = "trade.create"
      BY <1>1, <1>7, <2>2, GotoTyped DEF FindTrade, Goto, At, PlainSteps
    <3>2. Relies(q)
      BY <2>2, <3>1 DEF Relies
    <3> QED BY <1>3, <1>7, <3>1, <3>2 DEF FindTrade
  <2> QED BY <1>7, <2>1, <2>2 DEF FindTrade
<1>8. CASE CheckStart(s) \/ CheckUpdate(s)
  <2>1. p.step \in TradeSteps /\ p.trade \in Context
    BY <1>2, <1>8 DEF CheckStart, CheckUpdate, At, Relies, TradeSteps
  <2>2. MayShare(p.user) => ~Closed(p.trade, p.user)
    BY <1>2, <2>1, MayShareIsOpen
  <2> QED BY <1>4, <1>5, <1>8, <2>1, <2>2 DEF CheckStart, CheckUpdate, TradeSteps
<1>9. CASE FindForStart(s) \/ FindForUpdate(s)
  <2>1. p.step \in TradeSteps /\ ~Closed(p.trade, p.user)
    BY <1>2, <1>9 DEF FindForStart, FindForUpdate, At, Relies, TradeSteps
  <2> QED BY <1>4, <1>5, <1>6, <1>9, <2>1 DEF FindForStart, FindForUpdate, TradeSteps, RowSteps
<1>10. CASE SetExpire(s)
  <2>1. PICK q \in Request : Continue(s, q) /\ q.step = "update.context"
    BY <1>1, <1>10, GotoTyped DEF SetExpire, Goto, At, UserSteps
  <2>2. Relies(q)
    BY <2>1 DEF Relies
  <2> QED BY <1>3, <1>10, <2>1, <2>2 DEF SetExpire
<1>11. CASE ContextForUpdate(s)
  <2>1. p.user \in Parties
    BY <1>1, <1>11, RequestFields DEF ContextForUpdate, At, UserSteps
  <2>2. ASSUME NEW x \in Context, Continue(s, [step |-> "update.check", user |-> p.user, trade |-> x])
        PROVE  Quiet'
    <3> DEFINE q == [step |-> "update.check", user |-> p.user, trade |-> x]
    <3>1. x \in TradeIds
      BY TradesTyped DEF Context, Latest
    <3>2. q \in Request
      BY <2>1, <3>1, TradeTyped DEF TradeSteps
    <3>3. Relies(q)
      BY DEF Relies
    <3> QED BY <1>3, <1>11, <2>2, <3>2, <3>3 DEF ContextForUpdate
  <2> QED BY <1>4, <1>11, <2>2 DEF ContextForUpdate
<1>12. CASE RefreshShare(s) \/ MoveShare(s)
  <2>1. p.id \in DOMAIN share /\ share[p.id].isActive
    BY <1>2, <1>12 DEF RefreshShare, MoveShare, WriteActive, At, Relies
  <2>2. ASSUME NEW row \in Share, row.isActive PROVE [row EXCEPT !.isActive = TRUE] = row
    BY <2>2 DEF Share
  <2>3. [share EXCEPT ![p.id].isActive = TRUE] = share
    <3>1. PICK ids \in SUBSET ShareIds : share \in [ids -> Share]
      BY DEF TypeOK
    <3>2. [share[p.id] EXCEPT !.isActive = TRUE] = share[p.id]
      BY <2>1, <2>2, <3>1
    <3> QED BY <3>1, <3>2
  <2>4. UNCHANGED <<txn, share>>
    BY <1>12, <2>3 DEF RefreshShare, MoveShare, WriteActive
  <2> QED BY <1>4, <1>12, <2>4 DEF RefreshShare, MoveShare, WriteActive
<1>13. CASE ReadForComplete(s)
  <2> DEFINE q == [step |-> "complete.write", user |-> p.user, txn |-> p.txn,
                   done |-> txn[p.txn].done]
  <2>1. p.user \in Parties /\ p.txn \in TxnIds /\ p.txn \in DOMAIN txn
    BY <1>1, <1>13, RequestFields DEF ReadForComplete, At, TypeOK, TxnSteps
  <2>2. txn[p.txn].done \subseteq Parties
    BY <2>1 DEF TypeOK, Txn
  <2>3. q \in Request
    BY <2>1, <2>2 DEF Request
  <2>4. Relies(q)
    BY <1>2, <1>13 DEF Relies, ReadForComplete, At
  <2> QED BY <1>3, <1>13, <2>3, <2>4 DEF ReadForComplete
<1> QED BY <1>7, <1>8, <1>9, <1>10, <1>11, <1>12, <1>13

\* A trade is created after all others were cancelled: what is shared in the one
\* that was the latest is shared because it was confirmed since.
LEMMA CreateTradeQuiet ==
    ASSUME TypeOK, Quiet, NEW s \in Slots, ~overlapped, CreateTrade(s)
    PROVE  Quiet'
<1>1. request[s].step = "trade.create"
  BY DEF CreateTrade, At
<1>2. \A t \in Slots \ {s} : At(t, "idle")
  BY <1>1, Alone DEF At
<1>3. Revived /\ Silent /\ \A x \in Trades : txn[x].status = "CANCELLED"
  BY <1>1, Alone, SilentHandler DEF At, Relies
<1>4. PICK n \in TradeIds :
         /\ DOMAIN txn = 0..(n - 1)
         /\ txn' = WithRow(txn, n, [status |-> "OPEN", done |-> {}])
  BY DEF CreateTrade
<1>5. n \in Nat /\ n > 0
  BY BoundsAssumption DEF TradeIds
<1>6. Trades = 1..(n - 1) /\ Trades' = 1..n
  BY <1>4, <1>5 DEF Trades, WithRow, Payment
<1>7. \A x : x \in Latest(Trades)' <=> x = n
  BY <1>5, <1>6 DEF Latest
<1>8. \A x \in Trades : txn'[x] = txn[x]
  BY <1>4, <1>5, <1>6 DEF WithRow, Trades
<1>9. \A x \in Trades : x \notin Open /\ x \notin Open'
  BY <1>3, <1>8 DEF Open, Terminal
<1>10. Revived'
  <2>1. ASSUME NEW x \in Open' PROVE x \in Latest(Trades)'
    <3>1. x \in 1..n /\ x \notin 1..(n - 1)
      BY <1>6, <1>9 DEF Open
    <3>2. x = n
      BY <1>5, <3>1
    <3> QED BY <1>7, <3>2
  <2> QED BY <2>1 DEF Revived
<1>11. ASSUME NEW x \in TradeIds, NEW u \in Parties, Closed(x, u)' PROVE Closed(x, u)
  <2>1. CASE x \notin Trades
    BY <2>1 DEF Closed
  <2>2. CASE x \in Trades
    <3>1. x \in Trades' /\ x \notin Latest(Trades)'
      BY <1>5, <1>6, <1>7, <2>2
    <3> QED BY <1>8, <1>9, <1>11, <2>2, <3>1 DEF Closed
  <2> QED BY <2>1, <2>2
<1>12. \A x, u : ActiveOf(x, u)' = ActiveOf(x, u)
  BY DEF CreateTrade, ActiveOf
<1>13. Silent'
  BY <1>3, <1>11, <1>12 DEF Silent
<1> QED BY <1>2, <1>10, <1>13, LastFinished DEF CreateTrade

\* A share is created for a party that may share.
LEMMA CreateShareQuiet ==
    ASSUME TypeOK, Quiet, NEW s \in Slots, ~overlapped, CreateShare(s)
    PROVE  Quiet'
<1> DEFINE p == request[s]
<1>1. p.step = "start.create"
  BY DEF CreateShare, At
<1>2. \A t \in Slots \ {s} : At(t, "idle")
  BY <1>1, Alone DEF At
<1>3. Revived /\ Silent /\ ~Closed(p.trade, p.user)
  BY <1>1, Alone, SilentHandler DEF At, Relies
<1> DEFINE row == [trade |-> p.trade, owner |-> p.user, isActive |-> TRUE]
<1>4. PICK i \in ShareIds : /\ DOMAIN share = 1..(i - 1)
                            /\ share' = WithRow(share, i, row)
  BY DEF CreateShare
<1>5. row.trade = p.trade /\ row.owner = p.user
  OBVIOUS
<1>6. \A x, u : Closed(x, u)' <=> Closed(x, u)
  BY DEF CreateShare, Closed, Trades, Open, Context, Authoritative, PaymentBlocks
<1>7. Revived'
  BY <1>3 DEF CreateShare, Revived, Trades, Open
<1>8. ASSUME NEW x \in TradeIds, NEW u \in Parties, x # p.trade \/ u # p.user
      PROVE  ActiveOf(x, u)' \subseteq ActiveOf(x, u)
  <2> HIDE DEF row
  <2> QED BY <1>4, <1>5, <1>8 DEF ActiveOf, WithRow
<1>9. Silent'
  BY <1>3, <1>6, <1>8 DEF Silent
<1> QED BY <1>2, <1>7, <1>9, LastFinished DEF CreateShare

\* Shares are stopped: those that were to be, and maybe more.
LEMMA StopQuiet ==
    ASSUME TypeOK, Quiet, NEW s \in Slots, ~overlapped,
           StopShare(s) \/ StopForCompletion(s) \/ StopAll(s)
    PROVE  Quiet'
<1> DEFINE p == request[s]
<1>1. p.step \in {"stop.write", "complete.stop", "all.stop"} /\ p \in Request
  BY DEF StopShare, StopForCompletion, StopOwn, StopAll, At, TypeOK
<1>2. Settled(p) /\ \A t \in Slots \ {s} : At(t, "idle")
  BY <1>1, Alone DEF At
<1>3. PICK trades, owners :
         /\ share' = Stopped(trades, owners)
         /\ \A x \in TradeIds, u \in Parties : Stopping(p, x, u) => x \in trades /\ u \in owners
  <2>1. CASE StopAll(s)
    <3>1. share' = Stopped(Latest(Trades), Parties)
      BY <2>1 DEF StopAll
    <3>2. \A x \in TradeIds, u \in Parties : Stopping(p, x, u) => x \in Latest(Trades)
      BY <2>1 DEF StopAll, Stopping, At
    <3> QED BY <3>1, <3>2
  <2>2. CASE StopShare(s) \/ StopForCompletion(s)
    <3>1. share' = Stopped({p.trade}, {p.user})
      BY <2>2 DEF StopShare, StopForCompletion, StopOwn
    <3>2. \A x \in TradeIds, u \in Parties : Stopping(p, x, u) => x = p.trade /\ u = p.user
      BY <2>2 DEF StopShare, StopForCompletion, StopOwn, Stopping, At
    <3> QED BY <3>1, <3>2
  <2> QED BY <2>1, <2>2
<1>4. UNCHANGED txn /\ Finish(s)
  BY DEF StopShare, StopForCompletion, StopOwn, StopAll
<1>5. \A x, u : Closed(x, u)' <=> Closed(x, u)
  BY <1>4 DEF Closed, Trades, Open, Context, Authoritative, PaymentBlocks
<1>6. Revived'
  BY <1>2, <1>4 DEF Settled, Revived, Trades, Open
<1>7. ASSUME NEW x \in TradeIds, NEW u \in Parties
      PROVE  /\ ActiveOf(x, u)' \subseteq ActiveOf(x, u)
             /\ x \in trades /\ u \in owners => ActiveOf(x, u)' = {}
  <2>1. ASSUME NEW row \in Share
        PROVE  /\ [row EXCEPT !.isActive = FALSE].isActive = FALSE
               /\ [row EXCEPT !.isActive = FALSE].owner = row.owner
               /\ [row EXCEPT !.isActive = FALSE].trade = row.trade
    BY DEF Share
  <2>2. ASSUME NEW i \in DOMAIN share
        PROVE  /\ share'[i].owner = share[i].owner /\ share'[i].trade = share[i].trade
               /\ \/ share'[i].isActive = FALSE
                  \/ /\ share'[i] = share[i]
                     /\ ~(share[i].trade \in trades /\ share[i].owner \in owners)
    <3>1. share[i] \in Share
      BY DEF TypeOK
    <3> QED BY <1>3, <2>1, <3>1 DEF Stopped
  <2>3. DOMAIN share' = DOMAIN share
    BY <1>3 DEF Stopped
  <2> QED BY <2>2, <2>3 DEF ActiveOf
<1>8. ASSUME NEW x \in TradeIds, NEW u \in Parties, Closed(x, u)' PROVE ActiveOf(x, u)' = {}
  BY <1>2, <1>3, <1>5, <1>7, <1>8 DEF Settled
<1>9. Silent'
  BY <1>8 DEF Silent
<1> QED BY <1>2, <1>4, <1>6, <1>9, LastFinished

\* The first confirmation has been written: the share of its user in the open
\* trade is stopped, or there is no open trade, and no such share.
LEMMA FindQuiet ==
    ASSUME TypeOK, Quiet, NEW s \in Slots, ~overlapped, FindForCompletion(s)
    PROVE  Quiet'
<1> DEFINE p == request[s]
<1>1. p.step = "complete.find" /\ p \in Request
  BY DEF FindForCompletion, At, TypeOK
<1>2. Settled(p) /\ \A t \in Slots \ {s} : At(t, "idle")
  BY <1>1, Alone DEF At
<1>3. UNCHANGED <<txn, share>>
  BY DEF FindForCompletion
<1>4. CASE Context = {} /\ Finish(s)
  <2>1. Settled(Idle)
    BY <1>1, <1>2, <1>4 DEF Settled, Relies, Stopping, Idle
  <2>2. Settled(Idle)'
    BY <1>3, <2>1, SameRows
  <2> QED BY <1>2, <1>4, <2>2, IdleTyped, LastSettled DEF Finish
<1>5. ASSUME NEW x \in Context,
             Continue(s, [step |-> "complete.stop", user |-> p.user, trade |-> x])
      PROVE  Quiet'
  <2>1. p.user \in Parties /\ x \in TradeIds
    BY <1>1, RequestFields, TradesTyped DEF Context, Latest, UserSteps
  <2>2. PICK q \in Request : /\ Continue(s, q)
                             /\ q.step = "complete.stop" /\ q.user = p.user /\ q.trade = x
    BY <1>5, <2>1, TradeTyped DEF TradeSteps
  <2>3. \A y \in Context : y = x
    BY LatestIsOne, TradesTyped DEF Context
  <2>4. Settled(q)
    BY <1>1, <1>2, <2>2, <2>3 DEF Settled, Relies, Stopping
  <2>5. Settled(q)'
    BY <1>3, <2>4, SameRows
  <2> QED BY <1>2, <2>2, <2>5, LastSettled
<1> QED BY <1>4, <1>5 DEF FindForCompletion

\* The last confirmation, and a cancellation, stop the shares in the latest trade.
LEMMA AllStopQuiet ==
    ASSUME TypeOK, NEW s \in Slots, Continue(s, [step |-> "all.stop"]),
           \A t \in Slots \ {s} : At(t, "idle"),
           UNCHANGED share, Revived, Revived', Silent,
           Trades' = Trades, \A x \in Trades : txn'[x].done = {} => txn[x].done = {}
    PROVE  Quiet'
<1> DEFINE q == [step |-> "all.stop"]
<1>1. q \in Request
  BY PlainTyped DEF PlainSteps
<1>2. ASSUME NEW x \in TradeIds, NEW u \in Parties, Closed(x, u)', x \notin Latest(Trades)'
      PROVE  ActiveOf(x, u)' = {}
  <2>1. Closed(x, u)
    BY <1>2 DEF Closed, Latest
  <2> QED BY <2>1 DEF Silent, ActiveOf
<1>3. Settled(q)'
  BY <1>2 DEF Settled, Relies, Stopping
<1> QED BY <1>1, <1>3, LastSettled

\* A confirmation stops the shares of both, or keeps the trade open for the other.
LEMMA CompleteQuiet ==
    ASSUME TypeOK, Quiet, NEW s \in Slots, ~overlapped, WriteComplete(s)
    PROVE  Quiet'
<1>1. request[s].step = "complete.write" /\ request[s] \in Request
  BY DEF WriteComplete, At, TypeOK
<1>2. \A t \in Slots \ {s} : At(t, "idle")
  BY <1>1, Alone DEF At
<1>3. Revived /\ Silent /\ (request[s].txn = Payment => PaymentBlocks)
  BY <1>1, Alone, SilentHandler DEF At, Relies
<1>4. PICK u, y, status :
         /\ u = request[s].user /\ y = request[s].txn
         /\ u \in Parties /\ y \in DOMAIN txn
         /\ status \in {"PART_COMPLETED", "COMPLETED"}
         /\ txn' = [txn EXCEPT ![y] = [status |-> status, done |-> txn[y].done \cup {u}]]
         /\ Continue(s, IF status = "COMPLETED" THEN [step |-> "all.stop"]
                        ELSE [step |-> "complete.find", user |-> u])
  <2> DEFINE both == request[s].done \cup {request[s].user} = Parties
             status == IF both THEN "COMPLETED" ELSE "PART_COMPLETED"
  <2>1. request[s].user \in Parties /\ request[s].txn \in DOMAIN txn
    BY <1>1, RequestFields DEF TypeOK
  <2>2. txn' = [txn EXCEPT ![request[s].txn] =
                   [status |-> status, done |-> txn[request[s].txn].done \cup {request[s].user}]]
    BY DEF WriteComplete
  <2>3. Continue(s, IF status = "COMPLETED" THEN [step |-> "all.stop"]
                    ELSE [step |-> "complete.find", user |-> request[s].user])
    BY DEF WriteComplete
  <2> QED BY <2>1, <2>2, <2>3
<1>5. /\ DOMAIN txn' = DOMAIN txn
      /\ txn'[y].status = status /\ txn'[y].done = txn[y].done \cup {u}
      /\ \A x \in DOMAIN txn : x # y => txn'[x] = txn[x]
  BY <1>4 DEF TypeOK
<1>6. Trades' = Trades /\ Latest(Trades)' = Latest(Trades)
  BY <1>5 DEF Trades, Latest
<1>7. UNCHANGED share
  BY DEF WriteComplete
<1>8. \A x \in Trades : txn'[x].done = {} => txn[x].done = {}
  BY <1>5 DEF Trades
<1>9. Revived'
  <2>1. ASSUME NEW x \in Open', x \notin Latest(Trades)' PROVE txn'[x].done # {}
    <3>1. CASE x = y
      BY <1>5, <3>1
    <3>2. CASE x # y
      BY <1>3, <1>5, <1>6, <2>1, <3>2 DEF Open, Revived, Trades
    <3> QED BY <3>1, <3>2
  <2> QED BY <2>1 DEF Revived
<1>10. CASE status = "COMPLETED"
  <2>1. Continue(s, [step |-> "all.stop"])
    BY <1>4, <1>10
  <2> QED BY <1>2, <1>3, <1>6, <1>7, <1>8, <1>9, <2>1, AllStopQuiet
<1>11. CASE status = "PART_COMPLETED"
  <2>1. PICK q \in Request : Continue(s, q) /\ q.step = "complete.find" /\ q.user = u
    BY <1>4, <1>11, UserTyped DEF UserSteps
  <2>2. PaymentBlocks' <=> PaymentBlocks
    BY <1>3, <1>4, <1>5, <1>11 DEF PaymentBlocks, Payment, TypeOK
  <2>3. ASSUME NEW x \in TradeIds, NEW v \in Parties, Closed(x, v)', ~Closed(x, v)
        PROVE  v = u /\ x \in Context'
    <3>1. x \in Trades /\ x \in Latest(Trades)
      BY <1>6, <1>8, <2>3 DEF Closed
    <3>2. x \in Open /\ \A z \in Authoritative : v \notin txn[z].done
      BY <2>3, <3>1 DEF Closed
    <3>3. x \in Open'
      BY <1>5, <1>6, <1>11, <3>1, <3>2 DEF Open, Terminal, Trades
    <3>4. Context = {x} /\ Context' = {x}
      <4>1. Context = {x}
        BY <3>1, <3>2, LatestIsContext
      <4>2. x \in Context'
        BY <1>6, <3>1, <3>3, TradesTyped DEF Context, Latest, Open
      <4>3. ASSUME NEW z \in Context' PROVE z = x
        <5>1. z \in Open' /\ x <= z
          BY <3>3, <4>3 DEF Context, Latest
        <5>2. z \in Trades /\ z <= x
          BY <1>6, <3>1, <5>1 DEF Latest, Open
        <5> QED BY <3>1, <5>1, <5>2, TradesTyped
      <4> QED BY <4>1, <4>2, <4>3
    <3>5. Authoritative' = Authoritative
      BY <2>2, <3>4 DEF Authoritative
    <3>6. PICK z \in Authoritative : v \in txn'[z].done
      BY <1>6, <2>3, <3>1, <3>3, <3>5 DEF Closed
    <3>7. z \in DOMAIN txn
      BY <3>1, <3>4 DEF Authoritative, Trades, Payment, TypeOK
    <3>8. v = u
      BY <1>5, <3>2, <3>6, <3>7
    <3> QED BY <3>4, <3>8
  <2>4. ASSUME NEW x \in TradeIds, NEW v \in Parties, Closed(x, v)', ~Stopping(q, x, v)'
        PROVE  ActiveOf(x, v)' = {}
    <3>1. Closed(x, v)
      BY <2>1, <2>3, <2>4 DEF Stopping
    <3> QED BY <1>3, <1>7, <3>1 DEF Silent, ActiveOf
  <2>5. Relies(q)'
    BY <2>1 DEF Relies
  <2>6. Settled(q)'
    BY <1>9, <2>4, <2>5 DEF Settled
  <2> QED BY <1>2, <2>1, <2>6, LastSettled
<1> QED BY <1>4, <1>10, <1>11

\* A cancellation stops the shares in the latest trade, or comes too late.
LEMMA CancelQuiet ==
    ASSUME TypeOK, Quiet, NEW s \in Slots, ~overlapped, WriteCancel(s)
    PROVE  Quiet'
<1>1. request[s].step = "cancel.write"
  BY DEF WriteCancel, At
<1>2. \A t \in Slots \ {s} : At(t, "idle")
  BY <1>1, Alone DEF At
<1>3. Revived /\ Silent
  BY <1>1, Alone, SilentHandler DEF At
<1>4. CASE Finish(s) /\ UNCHANGED txn
  <2>1. Relies(Idle)
    BY DEF Relies, Idle
  <2> QED BY <1>1, <1>4, <2>1, IdleTyped, ReadingQuiet DEF WriteCancel, Finish
<1>5. CASE /\ txn' = [txn EXCEPT ![request[s].txn].status = "CANCELLED"]
           /\ Continue(s, [step |-> "all.stop"])
  <2>1. DOMAIN txn' = DOMAIN txn /\ UNCHANGED share
    BY <1>5 DEF WriteCancel
  <2>2. ASSUME NEW row \in Txn
        PROVE  /\ [row EXCEPT !.status = "CANCELLED"].done = row.done
               /\ [row EXCEPT !.status = "CANCELLED"].status = "CANCELLED"
    BY DEF Txn
  <2>3. ASSUME NEW x \in DOMAIN txn
        PROVE  /\ txn'[x].done = txn[x].done
               /\ txn'[x].status \in {txn[x].status, "CANCELLED"}
    BY <1>5, <2>2 DEF TypeOK
  <2>4. Trades' = Trades
    BY <2>1 DEF Trades
  <2>5. Revived'
    BY <1>3, <2>3, <2>4 DEF Revived, Open, Trades, Terminal, Latest
  <2> QED BY <1>2, <1>3, <1>5, <2>1, <2>3, <2>4, <2>5, AllStopQuiet DEF Trades
<1> QED BY <1>4, <1>5 DEF WriteCancel

LEMMA StepQuiet == ASSUME TypeOK, Quiet, NEW s \in Slots, Step(s) PROVE Quiet'
<1>1. CASE overlapped
  BY <1>1, StepWrites DEF Quiet
<1>2. CASE ~overlapped
  BY <1>2, SharingQuiet, CreateTradeQuiet, CreateShareQuiet, StopQuiet, FindQuiet,
     CompleteQuiet, CancelQuiet DEF Step
<1> QED BY <1>1, <1>2

\* A safe payment that begins to count is confirmed by nobody.
LEMMA OtherQuiet ==
    ASSUME TypeOK, Quiet,
           (\E u \in Movers : RefuseUpdate(u) \/ WindowEnds(u)) \/ RequestSafePayment
    PROVE  Quiet'
<1>1. UNCHANGED <<share, request, overlapped>>
  BY DEF RefuseUpdate, WindowEnds, RequestSafePayment
<1>2. CASE UNCHANGED txn
  <2>1. ASSUME NEW q, Settled(q) PROVE Settled(q)'
    BY <1>1, <1>2, <2>1, SameRows
  <2>2. ASSUME NEW s \in Slots, Settled(request[s]) PROVE Settled(request[s])'
    BY <1>1, <2>1, <2>2
  <2> QED BY <1>1, <2>1, <2>2 DEF Quiet, AtRest, At
<1>3. CASE RequestSafePayment
  <2>1. /\ txn' = [txn EXCEPT ![Payment] = [status |-> "OPEN", done |-> {}]]
        /\ Payment \in DOMAIN txn
    BY <1>3 DEF RequestSafePayment, TypeOK, Payment
  <2>2. /\ txn'[Payment].status = "OPEN" /\ txn'[Payment].done = {}
        /\ DOMAIN txn' = DOMAIN txn /\ \A x \in Trades : txn'[x] = txn[x]
    BY <2>1 DEF TypeOK, Trades
  <2>3. Trades' = Trades /\ Open' = Open /\ Context' = Context /\ Latest(Trades)' = Latest(Trades)
    BY <2>2 DEF Trades, Open, Context, Latest
  <2>4. PaymentBlocks' /\ Authoritative' = {Payment}
    BY <2>2 DEF PaymentBlocks, Authoritative
  <2>5. \A x, u : Closed(x, u)' => Closed(x, u)
    BY <2>2, <2>3, <2>4 DEF Closed, Open
  <2>6. Revived => Revived'
    BY <2>2, <2>3 DEF Revived, Open
  <2>7. ASSUME NEW q, Settled(q) PROVE Settled(q)'
    <3>1. Relies(q)'
      BY <1>1, <2>2, <2>3, <2>4, <2>5, <2>7 DEF Settled, Relies
    <3>2. \A x, u : Stopping(q, x, u)' <=> Stopping(q, x, u)
      BY <2>3 DEF Stopping
    <3> QED BY <1>1, <2>5, <2>6, <2>7, <3>1, <3>2 DEF Settled, ActiveOf
  <2>8. ASSUME NEW s \in Slots, Settled(request[s]) PROVE Settled(request[s])'
    <3>1. PICK q : q = request[s]
      OBVIOUS
    <3> QED BY <1>1, <2>7, <2>8, <3>1
  <2> QED BY <1>1, <2>7, <2>8 DEF Quiet, AtRest, At
<1> QED BY <1>2, <1>3 DEF RefuseUpdate, WindowEnds

LEMMA NextQuiet == TypeOK /\ Quiet /\ [Next]_vars => Quiet'
<1> SUFFICES ASSUME TypeOK, Quiet, [Next]_vars PROVE Quiet'
  OBVIOUS
<1>1. CASE UNCHANGED vars
  <2>1. UNCHANGED <<txn, share, request, overlapped>>
    BY <1>1 DEF vars
  <2>2. ASSUME NEW q, Settled(q) PROVE Settled(q)'
    BY <2>1, <2>2, SameRows
  <2>3. ASSUME NEW s \in Slots, Settled(request[s]) PROVE Settled(request[s])'
    BY <2>1, <2>2, <2>3
  <2> QED BY <2>1, <2>2, <2>3 DEF Quiet, AtRest, At
<1> QED BY <1>1, BeginQuiet, StepQuiet, OtherQuiet DEF Next

\* In every behaviour of the live locations, a handler that runs alone leaves
\* nothing active that it will not stop.
THEOREM Invariance == Spec => [](TypeOK /\ Quiet)
<1>1. TypeOK /\ Quiet /\ [Next]_vars => (TypeOK /\ Quiet)'
  BY NextTyped, NextQuiet
<1> QED BY <1>1, InitTyped, InitQuiet, PTL DEF Spec

\* Once the handlers have finished that ran one at a time, what is shared is
\* shared by a party of the open trade that has not confirmed the transaction
\* that counts, or in a trade that was replaced and then confirmed.
THEOREM SharingSafety == Spec => []OnlyRevivedTradesStayShared
<1>1. TypeOK /\ Quiet => OnlyRevivedTradesStayShared
  <2> SUFFICES ASSUME TypeOK, Quiet, ~overlapped, AtRest,
                      NEW x \in Trades, NEW u \in Parties, ActiveOf(x, u) # {}
               PROVE  IF x \in Latest(Trades)
                      THEN x \in Open /\ \A y \in Authoritative : u \notin txn[y].done
                      ELSE txn[x].done # {}
    BY DEF OnlyRevivedTradesStayShared
  <2>1. ~Closed(x, u)
    BY IdleIsSilent, TradesTyped DEF Quiet, Silent
  <2> QED BY <2>1 DEF Closed
<1> QED BY <1>1, Invariance, PTL

=============================================================================
