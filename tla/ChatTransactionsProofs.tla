----------------------- MODULE ChatTransactionsProofs -----------------------
(***************************************************************************)
(* Proofs about ChatTransactions, for every set of rooms, every number of  *)
(* handlers in flight and every size of the tables:                        *)
(*   - Inv is inductive, hence the type invariant and the four safety      *)
(*     invariants hold in every reachable state;                           *)
(*   - no step takes a confirmation, a verification, an instruction or a   *)
(*     transfer back;                                                      *)
(*   - the transactions implement the abstract life of the money, Escrow.  *)
(*   - OneInv is inductive when requests are served one at a time, and the *)
(*     rules between transactions follow: completion, one charge, queues,  *)
(*     one open row per room, the gate of direct trades, the own deal.     *)
(***************************************************************************)
EXTENDS ChatTransactions, TLAPS

-----------------------------------------------------------------------------
(* Local variables of handlers                                               *)

\* Which local variables a handler has depends on its step only: StepsOfRoom
\* have a room, the other steps but those of the listing have an id, and so on.
LEMMA RequestFields ==
    ASSUME NEW q \in Request
    PROVE  /\ q.step \in StepsOfRoom => q.room \in Rooms
           /\ q.step \notin StepsOfListing \cup StepsOfRoom => q.id \in TxnIds
           /\ q.step \in StepsOfComplete => q.party \in Party
           /\ q.step = "complete.place" => q.trade \in TxnIds
           /\ q.step = "complete.write" => q.seen \in SUBSET Party
           /\ q.step = "meet.write" => q.to \in Meetup
BY DEF Request, Idle, StepsOfRoom, StepsOfListing, StepsOfComplete

\* The records that handlers continue with are local variables of a handler.
LEMMA IdleRequest == Idle \in Request
BY DEF Request

\* Records of a handler that works on the listing
LEMMA ListingRequest ==
    /\ [step |-> "delete.write"] \in Request
    /\ [step |-> "complete.sell"] \in Request
BY DEF Request

\* Records of a handler that has found a room
LEMMA RoomRequest ==
    ASSUME NEW step \in StepsOfRoom, NEW r \in Rooms
    PROVE  [step |-> step, room |-> r] \in Request
BY DEF Request, StepsOfRoom

\* Records of a handler that knows a transaction and nothing else
LEMMA IdRequest ==
    ASSUME NEW step \in {"cancel.read", "cancel.write", "cancel.charge",
                         "cancel.deal", "cancel.clear", "request.reset",
                         "request.attach", "start.upsert", "instruct.write",
                         "submit.read", "submit.status", "submit.payer",
                         "transfer.write"},
           NEW t \in TxnIds
    PROVE  [step |-> step, id |-> t] \in Request
BY DEF Request

\* Records of a handler that is about to write a meeting place
LEMMA MeetingRequest ==
    ASSUME NEW t \in TxnIds, NEW to \in Meetup
    PROVE  [step |-> "meet.write", id |-> t, to |-> to] \in Request
BY DEF Request

\* Records of a handler that confirms a transaction
LEMMA CompleteRequest ==
    ASSUME NEW t \in TxnIds, NEW p \in Party
    PROVE  /\ \A step \in {"complete.gate", "complete.meetup", "complete.read"} :
                 [step |-> step, id |-> t, party |-> p] \in Request
           /\ \A d \in TxnIds :
                 [step |-> "complete.place", id |-> t, party |-> p,
                  trade |-> d] \in Request
           /\ \A seen \in SUBSET Party :
                 [step |-> "complete.write", id |-> t, party |-> p,
                  seen |-> seen] \in Request
BY DEF Request

-----------------------------------------------------------------------------
(* What a handler relies on                                                  *)

\* Handlers that work on the listing or on a whole room rely on nothing.
LEMMA NothingRelied ==
    ASSUME NEW q, q.step \in StepsOfListing \cup StepsOfRoom,
           NEW rows, NEW payments
    PROVE  RequestOK(q, rows, payments)
BY DEF RequestOK, StepsOfListing, StepsOfRoom, StepsOfSafePayment,
       StepsOfMeetup, StepsOfComplete

\* A cancellation relies on the row of its transaction only.
LEMMA CancelRelied ==
    ASSUME NEW t \in DOMAIN txn,
           NEW step \in {"cancel.read", "cancel.write", "cancel.charge",
                         "cancel.deal", "cancel.clear"},
           NEW rows, t \in DOMAIN rows, NEW payments
    PROVE  RequestOK([step |-> step, id |-> t], rows, payments)
BY DEF RequestOK, StepsOfListing, StepsOfRoom, StepsOfSafePayment,
       StepsOfMeetup, StepsOfComplete

\* What the handlers in flight rely on survives a step of another handler,
\* because the rows only grow.
LEMMA StillRelied ==
    ASSUME TypeOK, TypeOK', Grows,
           NEW s \in Slots, RequestOK(request[s], txn, safePayment)
    PROVE  RequestOK(request[s], txn', safePayment')
<1> DEFINE q == request[s]
<1>1. q \in Request
  BY DEF TypeOK
<1>2. q.step \notin StepsOfListing \cup StepsOfRoom =>
         /\ q.id \in DOMAIN txn
         /\ q.id \in DOMAIN txn'
         /\ txn'[q.id].kind = txn[q.id].kind
         /\ txn[q.id].completedBy \subseteq txn'[q.id].completedBy
  BY DEF RequestOK, Grows
<1>3. Verified(safePayment, q.id) => Verified(safePayment', q.id)
  BY DEF Verified, Grows
<1>4. q.id \in DOMAIN safePayment /\ safePayment[q.id].instructed =>
         q.id \in DOMAIN safePayment' /\ safePayment'[q.id].instructed
  BY DEF Grows
<1>5. CASE q.step \in StepsOfListing \cup StepsOfRoom
  BY <1>5, NothingRelied
<1>6. CASE q.step \notin StepsOfListing \cup StepsOfRoom
  <2>1. q.step = "transfer.write" => txn'[q.id].completedBy = Party
    <3>1. q.id \in DOMAIN txn' => txn'[q.id].completedBy \subseteq Party
      BY DEF TypeOK, Txn
    <3> QED BY <1>2, <1>6, <3>1 DEF RequestOK
  <2> QED BY <1>2, <1>3, <1>4, <1>6, <2>1 DEF RequestOK
<1> QED BY <1>5, <1>6

-----------------------------------------------------------------------------
(* A step of one handler                                                     *)

\* TypeOK without the handlers, and what Inv says of the rows
TablesOK ==
    /\ DOMAIN txn \subseteq TxnIds
    /\ txn \in [DOMAIN txn -> Txn]
    /\ DOMAIN safePayment \subseteq DOMAIN txn
    /\ safePayment \in [DOMAIN safePayment -> SafePayment]
    /\ DOMAIN meetup \subseteq DOMAIN txn
    /\ meetup \in [DOMAIN meetup -> Meetup]
    /\ listing \in Listing
    /\ charged \in [TxnIds -> 0..2]

RowsOK ==
    /\ RowsInv
    /\ ConfirmationNeedsVerification
    /\ CompletedMeansBothConfirmed
    /\ ReleaseNeedsBothConfirmations
    /\ SubmissionFollowsInstruction

\* A handler continues with q, and the tables are as they should be.
LEMMA HandlerStep ==
    ASSUME Inv, NEW s \in Slots, NEW q \in Request, Continue(s, q),
           TablesOK', RowsOK', Grows, RequestOK(q, txn', safePayment')
    PROVE  Inv'
<1>1. request' \in [Slots -> Request]
  BY DEF Continue, Inv, TypeOK
<1>2. TypeOK'
  BY <1>1 DEF TypeOK, TablesOK
<1>3. ASSUME NEW r \in Slots
      PROVE  RequestOK(request'[r], txn', safePayment')
  <2>1. CASE r = s
    <3>1. request'[r] = q
      BY <2>1 DEF Continue, Inv, TypeOK
    <3> QED BY <3>1
  <2>2. CASE r # s
    <3>1. request'[r] = request[r]
      BY <2>2 DEF Continue, Inv, TypeOK
    <3>2. RequestOK(request[r], txn', safePayment')
      BY <1>2, StillRelied DEF Inv
    <3> QED BY <3>1, <3>2
  <2> QED BY <2>1, <2>2
<1> QED BY <1>2, <1>3 DEF Inv, RowsOK

\* The rows of transactions and safe payments are not written.
LEMMA RowsKept ==
    ASSUME Inv, UNCHANGED <<txn, safePayment>>
    PROVE  RowsOK' /\ Grows
<1>1. RowsOK'
  BY DEF Inv, RowsOK, RowsInv, Verified, ConfirmationNeedsVerification,
         CompletedMeansBothConfirmed, ReleaseNeedsBothConfirmations,
         SubmissionFollowsInstruction
<1>2. Grows
  BY DEF Grows
<1> QED BY <1>1, <1>2

\* A handler continues with q and writes nothing.
LEMMA ReadStep ==
    ASSUME Inv, NEW s \in Slots, NEW q \in Request, Continue(s, q),
           RequestOK(q, txn, safePayment),
           UNCHANGED <<txn, safePayment, meetup, listing, charged>>
    PROVE  Inv' /\ Grows
<1>1. RowsOK' /\ Grows
  BY RowsKept
<1>2. TablesOK'
  BY DEF Inv, TypeOK, TablesOK
<1>3. RequestOK(q, txn', safePayment')
  OBVIOUS
<1> QED BY <1>1, <1>2, <1>3, HandlerStep

\* A handler ends and writes nothing.
LEMMA EndStep ==
    ASSUME Inv, NEW s \in Slots, Finish(s),
           UNCHANGED <<txn, safePayment, meetup, listing, charged>>
    PROVE  Inv' /\ Grows
<1>1. RequestOK(Idle, txn, safePayment)
  BY NothingRelied DEF Idle, StepsOfListing
<1> QED BY <1>1, IdleRequest, ReadStep DEF Finish

\* A handler ends and writes neither a transaction nor a safe payment.
LEMMA EndOtherStep ==
    ASSUME Inv, NEW s \in Slots, Finish(s), UNCHANGED <<txn, safePayment>>,
           TablesOK'
    PROVE  Inv' /\ Grows
<1>1. RowsOK' /\ Grows
  BY RowsKept
<1>2. RequestOK(Idle, txn', safePayment')
  BY NothingRelied DEF Idle, StepsOfListing
<1> QED BY <1>1, <1>2, IdleRequest, HandlerStep DEF Finish

-----------------------------------------------------------------------------
(* The steps of the handlers, one component at a time                        *)

\* SetActiveDeal, UpdateListing and DeleteListing leave the rows alone.
LEMMA ListingSteps ==
    ASSUME Inv
    PROVE  /\ \A r \in Rooms \cup {NoRoom} : SetActiveDeal(r) => Inv' /\ Grows
           /\ \A status \in {"ACTIVE", "SOLD"} :
                 UpdateListing(status) => Inv' /\ Grows
           /\ \A s \in Slots : DeleteListing(s) => Inv' /\ Grows
<1>1. ASSUME UNCHANGED <<txn, safePayment, meetup, request, charged>>,
             listing' \in Listing
      PROVE  Inv' /\ Grows
  <2>1. RowsOK' /\ Grows
    BY <1>1, RowsKept
  <2>2. TypeOK'
    BY <1>1 DEF Inv, TypeOK
  <2>3. \A s \in Slots : RequestOK(request'[s], txn', safePayment')
    BY <1>1 DEF Inv
  <2> QED BY <2>1, <2>2, <2>3 DEF Inv, RowsOK
<1>2. ASSUME NEW r \in Rooms \cup {NoRoom}, SetActiveDeal(r)
      PROVE  Inv' /\ Grows
  <2>1. listing' \in Listing
    BY <1>2 DEF SetActiveDeal, Inv, TypeOK, Listing
  <2> QED BY <1>1, <1>2, <2>1 DEF SetActiveDeal
<1>3. ASSUME NEW status \in {"ACTIVE", "SOLD"}, UpdateListing(status)
      PROVE  Inv' /\ Grows
  <2>1. listing' \in Listing
    BY <1>3 DEF UpdateListing, Inv, TypeOK, Listing
  <2> QED BY <1>1, <1>3, <2>1 DEF UpdateListing
<1>4. ASSUME NEW s \in Slots, DeleteListing(s)
      PROVE  Inv' /\ Grows
  <2>1. TablesOK'
    BY <1>4 DEF DeleteListing, Inv, TypeOK, TablesOK, Listing
  <2> QED BY <1>4, <2>1, EndOtherStep DEF DeleteListing
<1> QED BY <1>2, <1>3, <1>4

\* The handlers start with what they have read.
LEMMA BeginSteps ==
    ASSUME Inv, NEW s \in Slots, Begin(s)
    PROVE  Inv' /\ Grows
<1> USE DEF StepsOfListing, StepsOfRoom, StepsOfSafePayment, StepsOfMeetup,
            StepsOfComplete
<1>1. CASE BeginDelete(s)
  BY <1>1, ListingRequest, NothingRelied, ReadStep DEF BeginDelete
<1>2. ASSUME NEW r \in Rooms, BeginStart(s, r)
      PROVE  Inv' /\ Grows
  BY <1>2, RoomRequest, NothingRelied, ReadStep DEF BeginStart
<1>3. ASSUME NEW r \in Rooms, BeginRequest(s, r)
      PROVE  Inv' /\ Grows
  BY <1>3, RoomRequest, NothingRelied, ReadStep DEF BeginRequest
<1>4. ASSUME NEW t \in TxnIds, BeginMeeting(s, t)
      PROVE  Inv' /\ Grows
  <2>1. t \in DOMAIN meetup /\ t \in DOMAIN txn /\ txn[t].kind = "DIRECT_TRADE"
    BY <1>4 DEF BeginMeeting, IsLatest, Live
  <2>2. MeetingOutcomes(meetup[t]) \subseteq Meetup
    <3>1. meetup[t] \in Meetup
      BY <2>1 DEF Inv, TypeOK
    <3> QED BY <3>1 DEF Meetup, MeetingOutcomes, AfterChoice, AfterRequest, AfterResponse
  <2>3. PICK to \in MeetingOutcomes(meetup[t]) :
           Continue(s, [step |-> "meet.write", id |-> t, to |-> to])
    BY <1>4 DEF BeginMeeting
  <2>4. RequestOK([step |-> "meet.write", id |-> t, to |-> to], txn, safePayment)
    BY <2>1 DEF RequestOK
  <2> QED BY <1>4, <2>2, <2>3, <2>4, MeetingRequest, ReadStep DEF BeginMeeting
<1>5. ASSUME NEW t \in TxnIds, ReadForInstruction(s, t)
      PROVE  Inv' /\ Grows
  <2>1. t \in DOMAIN txn /\ txn[t].kind = "SAFE_PAYMENT"
    BY <1>5 DEF ReadForInstruction, Inv, RowsInv, TypeOK, Txn, TransactionType,
                ClosedForMeetup, NonCancellable
  <2>2. RequestOK([step |-> "instruct.write", id |-> t], txn, safePayment)
    BY <2>1 DEF RequestOK
  <2> QED BY <1>5, <2>2, IdRequest, ReadStep DEF ReadForInstruction
<1>6. ASSUME NEW t \in TxnIds, BeginSubmit(s, t)
      PROVE  Inv' /\ Grows
  <2>1. t \in DOMAIN txn /\ txn[t].kind = "SAFE_PAYMENT"
    BY <1>6 DEF BeginSubmit, IsLatest, Live
  <2>2. RequestOK([step |-> "submit.read", id |-> t], txn, safePayment)
    BY <2>1 DEF RequestOK
  <2> QED BY <1>6, <2>2, IdRequest, ReadStep DEF BeginSubmit
<1>7. ASSUME NEW t \in TxnIds, BeginTransfer(s, t)
      PROVE  Inv' /\ Grows
  <2>1. t \in DOMAIN txn /\ txn[t].completedBy = Party
    BY <1>7 DEF BeginTransfer, Inv, CompletedMeansBothConfirmed
  <2>2. RequestOK([step |-> "transfer.write", id |-> t], txn, safePayment)
    BY <2>1 DEF RequestOK
  <2> QED BY <1>7, <2>2, IdRequest, ReadStep DEF BeginTransfer
<1>8. ASSUME NEW t \in TxnIds, BeginCancel(s, t)
      PROVE  Inv' /\ Grows
  <2>1. RequestOK([step |-> "cancel.read", id |-> t], txn, safePayment)
    BY <1>8, CancelRelied DEF BeginCancel
  <2> QED BY <1>8, <2>1, IdRequest, ReadStep DEF BeginCancel
<1>9. ASSUME NEW t \in TxnIds, NEW p \in Party, BeginComplete(s, t, p)
      PROVE  Inv' /\ Grows
  <2>1. CASE txn[t].kind = "SAFE_PAYMENT"
    <3> DEFINE q == [step |-> "complete.meetup", id |-> t, party |-> p]
    <3>1. t \in DOMAIN txn /\ Verified(safePayment, t) /\ Continue(s, q)
      BY <1>9, <2>1 DEF BeginComplete, Inv, RowsInv
    <3>2. RequestOK(q, txn, safePayment)
      BY <3>1 DEF RequestOK
    <3>3. q \in Request
      BY CompleteRequest
    <3> QED BY <1>9, <3>1, <3>2, <3>3, ReadStep DEF BeginComplete
  <2>2. CASE txn[t].kind # "SAFE_PAYMENT"
    <3> DEFINE q == [step |-> "complete.gate", id |-> t, party |-> p]
    <3>1. t \in DOMAIN txn /\ txn[t].kind = "DIRECT_TRADE" /\ Continue(s, q)
      BY <1>9, <2>2 DEF BeginComplete, Inv, TypeOK, Txn, TransactionType
    <3>2. RequestOK(q, txn, safePayment)
      BY <3>1 DEF RequestOK
    <3>3. q \in Request
      BY CompleteRequest
    <3> QED BY <1>9, <3>1, <3>2, <3>3, ReadStep DEF BeginComplete
  <2> QED BY <2>1, <2>2
<1> QED BY <1>1, <1>2, <1>3, <1>4, <1>5, <1>6, <1>7, <1>8, <1>9
     DEF Begin, DirectTradeRoutes, SafePaymentRoutes, TransactionRoutes, AdminRoutes

-----------------------------------------------------------------------------
(* Steps that write a transaction or its safe payment                        *)

\* RowsOK, row by row
RowOK(t, row, payments) ==
    /\ row.kind = "DIRECT_TRADE" =>
          row.status \in {"INITIATED"} \cup ClosedForMeetup
    /\ row.kind = "SAFE_PAYMENT" =>
          /\ row.status \in SafePaymentCompletable => Verified(payments, t)
          /\ row.completedBy # {} => Verified(payments, t)
    /\ row.status = "COMPLETED" \/ row.completedAt => row.completedBy = Party

PaymentOK(payment, row) ==
    /\ row.kind = "SAFE_PAYMENT"
    /\ payment.isTransferred => payment.isVerified /\ row.completedBy = Party
    /\ payment.paid => payment.instructed

AllRowsOK ==
    /\ \A t \in DOMAIN txn : RowOK(t, txn[t], safePayment)
    /\ \A t \in DOMAIN safePayment : PaymentOK(safePayment[t], txn[t])

\* The invariants of the rows, taken one row at a time
LEMMA RowByRow == (RowsOK <=> AllRowsOK) /\ (RowsOK' <=> AllRowsOK')
<1>1. RowsOK <=> AllRowsOK
  BY DEF RowsOK, AllRowsOK, RowOK, PaymentOK, RowsInv, Verified,
         ConfirmationNeedsVerification, CompletedMeansBothConfirmed,
         ReleaseNeedsBothConfirmations, SubmissionFollowsInstruction
<1>2. RowsOK' <=> AllRowsOK'
  BY DEF RowsOK, AllRowsOK, RowOK, PaymentOK, RowsInv, Verified,
         ConfirmationNeedsVerification, CompletedMeansBothConfirmed,
         ReleaseNeedsBothConfirmations, SubmissionFollowsInstruction
<1> QED BY <1>1, <1>2

\* The row of t is replaced, and the safe payment of t inserted, replaced or
\* left alone; both only grow and are as they should be.
LEMMA RowWritten ==
    ASSUME Inv, NEW t \in DOMAIN txn,
           NEW row \in Txn, txn' = [txn EXCEPT ![t] = row],
           row.room = txn[t].room, row.kind = txn[t].kind,
           txn[t].completedBy \subseteq row.completedBy,
           RowOK(t, row, safePayment'),
           \/ UNCHANGED safePayment
           \/ \E payment \in SafePayment :
                 /\ safePayment' = WithRow(safePayment, t, payment)
                 /\ PaymentOK(payment, row)
                 /\ t \in DOMAIN safePayment =>
                       /\ safePayment[t].instructed => payment.instructed
                       /\ safePayment[t].isVerified => payment.isVerified
                       /\ safePayment[t].isTransferred => payment.isTransferred,
           UNCHANGED <<meetup, listing, charged>>
    PROVE  TablesOK' /\ RowsOK' /\ Grows
<1>1. /\ DOMAIN txn' = DOMAIN txn
      /\ txn'[t] = row
      /\ \A u \in DOMAIN txn \ {t} : txn'[u] = txn[u]
      /\ txn' \in [DOMAIN txn' -> Txn]
      /\ DOMAIN txn \subseteq TxnIds
      /\ DOMAIN safePayment \subseteq DOMAIN txn
  BY DEF Inv, TypeOK
<1>2. /\ DOMAIN safePayment \subseteq DOMAIN safePayment'
      /\ DOMAIN safePayment' \subseteq DOMAIN safePayment \cup {t}
      /\ safePayment' \in [DOMAIN safePayment' -> SafePayment]
      /\ \A u \in DOMAIN safePayment \ {t} : safePayment'[u] = safePayment[u]
      /\ t \in DOMAIN safePayment =>
            /\ safePayment[t].instructed => safePayment'[t].instructed
            /\ safePayment[t].isVerified => safePayment'[t].isVerified
            /\ safePayment[t].isTransferred => safePayment'[t].isTransferred
  BY DEF Inv, TypeOK, WithRow
<1>3. \A u \in DOMAIN safePayment : PaymentOK(safePayment[u], txn[u])
  BY RowByRow DEF Inv, RowsOK, AllRowsOK
<1>4. t \in DOMAIN safePayment' => PaymentOK(safePayment'[t], row)
  <2>1. CASE UNCHANGED safePayment
    <3>1. txn[t].completedBy = Party => row.completedBy = Party
      BY DEF Txn
    <3> QED BY <1>3, <2>1, <3>1 DEF PaymentOK
  <2>2. CASE \E payment \in SafePayment :
                /\ safePayment' = WithRow(safePayment, t, payment)
                /\ PaymentOK(payment, row)
    BY <2>2 DEF WithRow
  <2> QED BY <2>1, <2>2
<1>5. TablesOK'
  BY <1>1, <1>2 DEF TablesOK, Inv, TypeOK
<1>6. Grows
  BY <1>1, <1>2 DEF Grows
<1>7. AllRowsOK'
  <2>1. ASSUME NEW u \in DOMAIN txn'
        PROVE  RowOK(u, txn'[u], safePayment')
    <3>1. CASE u = t
      BY <1>1, <3>1
    <3>2. CASE u # t
      <4>1. RowOK(u, txn[u], safePayment)
        BY <1>1, RowByRow DEF Inv, RowsOK, AllRowsOK
      <4>2. Verified(safePayment, u) => Verified(safePayment', u)
        BY <1>2, <3>2 DEF Verified
      <4> QED BY <1>1, <3>2, <4>1, <4>2 DEF RowOK
    <3> QED BY <3>1, <3>2
  <2>2. ASSUME NEW u \in DOMAIN safePayment'
        PROVE  PaymentOK(safePayment'[u], txn'[u])
    BY <1>1, <1>2, <1>3, <1>4, <2>2
  <2> QED BY <2>1, <2>2 DEF AllRowsOK
<1> QED BY <1>5, <1>6, <1>7, RowByRow

\* A transaction is created.
LEMMA RowCreated ==
    ASSUME Inv, NEW s \in Slots, NEW kind, NEW status, NEW step, NEW t \in TxnIds,
           DOMAIN txn = 1..(t - 1),
           request[s].room \in Rooms,
           \/ kind = "DIRECT_TRADE" /\ status = "INITIATED"
           \/ /\ kind = "SAFE_PAYMENT"
              /\ status = "SAFE_PAYMENT_AWAITING_INSTRUCTION",
           txn' = WithRow(txn, t, NewTxn(request[s].room, kind, status)),
           UNCHANGED <<safePayment, meetup, listing, charged>>
    PROVE  TablesOK' /\ RowsOK' /\ Grows
<1> DEFINE row == NewTxn(request[s].room, kind, status)
<1>1. row \in Txn /\ RowOK(t, row, safePayment)
  BY DEF NewTxn, Txn, RowOK, TransactionType, TransactionStatus, Party,
         SafePaymentCompletable
<1>2. t \notin DOMAIN txn
  BY BoundAssumption DEF TxnIds
<1>3. /\ DOMAIN txn' = DOMAIN txn \cup {t}
      /\ txn'[t] = row
      /\ \A u \in DOMAIN txn : txn'[u] = txn[u]
  BY <1>2 DEF WithRow
<1>4. txn' \in [DOMAIN txn' -> Txn]
  BY <1>1, <1>2 DEF WithRow, Inv, TypeOK
<1>5. TablesOK'
  BY <1>3, <1>4 DEF TablesOK, Inv, TypeOK
<1>6. Grows
  BY <1>3 DEF Grows
<1>7. AllRowsOK'
  <2>1. AllRowsOK /\ DOMAIN safePayment \subseteq DOMAIN txn
    BY RowByRow DEF Inv, RowsOK, TypeOK
  <2> QED BY <1>1, <1>3, <2>1 DEF AllRowsOK
<1> QED BY <1>5, <1>6, <1>7, RowByRow

-----------------------------------------------------------------------------
(* The remaining steps of the handlers                                       *)

\* The meeting place and the direct trade that it belongs to
LEMMA DirectTradeSteps ==
    ASSUME Inv, NEW s \in Slots, DirectTradeStep(s)
    PROVE  Inv' /\ Grows
<1> USE DEF StepsOfListing, StepsOfRoom, StepsOfSafePayment, StepsOfMeetup,
            StepsOfComplete
<1>0. request[s] \in Request /\ RequestOK(request[s], txn, safePayment)
  BY DEF Inv, TypeOK
<1>1. CASE StartCheck(s)
  <2>1. request[s].room \in Rooms
    BY <1>0, <1>1, RequestFields DEF StartCheck, At
  <2>2. CASE Finish(s)
    BY <1>1, <2>2, EndStep DEF StartCheck
  <2>3. CASE Continue(s, [step |-> "start.find", room |-> request[s].room])
    BY <1>1, <2>1, <2>3, RoomRequest, NothingRelied, ReadStep DEF StartCheck
  <2> QED BY <1>1, <2>2, <2>3 DEF StartCheck
<1>2. CASE StartFind(s)
  <2>1. request[s].room \in Rooms
    BY <1>0, <1>2, RequestFields DEF StartFind, At
  <2>2. CASE Continue(s, [step |-> "start.create", room |-> request[s].room])
    BY <1>2, <2>1, <2>2, RoomRequest, NothingRelied, ReadStep DEF StartFind
  <2>3. ASSUME NEW t \in DOMAIN txn,
               IsLatest(t, request[s].room, "DIRECT_TRADE", {"CANCELLED"}),
               Continue(s, [step |-> "start.upsert", id |-> t])
        PROVE  Inv' /\ Grows
    <3>1. RequestOK([step |-> "start.upsert", id |-> t], txn, safePayment)
      BY <2>3 DEF RequestOK, IsLatest, Live
    <3>2. [step |-> "start.upsert", id |-> t] \in Request
      BY IdRequest DEF Inv, TypeOK
    <3> QED BY <1>2, <2>3, <3>1, <3>2, ReadStep DEF StartFind
  <2> QED BY <1>2, <2>2, <2>3 DEF StartFind
<1>3. CASE StartCreate(s)
  <2>1. request[s].room \in Rooms
    BY <1>0, <1>3, RequestFields DEF StartCreate, At
  <2>2. PICK t \in TxnIds :
           /\ DOMAIN txn = 1..(t - 1)
           /\ txn' = WithRow(txn, t,
                             NewTxn(request[s].room, "DIRECT_TRADE", "INITIATED"))
           /\ Continue(s, [step |-> "start.upsert", id |-> t])
    BY <1>3 DEF StartCreate, Create
  <2>3. TablesOK' /\ RowsOK' /\ Grows
    BY <1>3, <2>1, <2>2, RowCreated DEF StartCreate
  <2>4. RequestOK([step |-> "start.upsert", id |-> t], txn', safePayment')
    BY <2>2 DEF RequestOK, WithRow, NewTxn
  <2> QED BY <2>2, <2>3, <2>4, IdRequest, HandlerStep
<1>4. CASE StartUpsert(s)
  <2>1. request[s].id \in DOMAIN txn
    BY <1>0, <1>4 DEF StartUpsert, At, RequestOK
  <2>2. TablesOK'
    BY <1>4, <2>1 DEF StartUpsert, Inv, TypeOK, TablesOK, WithRow, Meetup
  <2> QED BY <1>4, <2>2, EndOtherStep DEF StartUpsert
<1>5. CASE WriteMeeting(s)
  <2>1. request[s].id \in DOMAIN txn /\ request[s].to \in Meetup
    BY <1>0, <1>5, RequestFields DEF WriteMeeting, At, RequestOK
  <2>2. TablesOK'
    BY <1>5, <2>1 DEF WriteMeeting, Inv, TypeOK, TablesOK, WithRow
  <2> QED BY <1>5, <2>2, EndOtherStep DEF WriteMeeting
<1> QED BY <1>1, <1>2, <1>3, <1>4, <1>5 DEF DirectTradeStep

\* Confirmation: the checks of the row, of the gate and of the place, and the
\* block that raises the flag
LEMMA CompleteSteps ==
    ASSUME Inv, NEW s \in Slots, CompleteStep(s)
    PROVE  Inv' /\ Grows
<1> USE DEF StepsOfListing, StepsOfRoom, StepsOfSafePayment, StepsOfMeetup,
            StepsOfComplete
<1> DEFINE t == request[s].id
           p == request[s].party
<1>0. /\ request[s] \in Request
      /\ RequestOK(request[s], txn, safePayment)
      /\ DOMAIN txn \subseteq TxnIds
  BY DEF Inv, TypeOK
<1>1. ASSUME request[s].step \in StepsOfComplete
      PROVE  /\ t \in DOMAIN txn
             /\ t \in TxnIds
             /\ p \in Party
             /\ txn[t].kind = "SAFE_PAYMENT" => Verified(safePayment, t)
  BY <1>0, <1>1, RequestFields DEF RequestOK
<1>2. ASSUME request[s].step \in StepsOfComplete,
             NEW step \in {"complete.meetup", "complete.read"},
             Continue(s, [step |-> step, id |-> t, party |-> p]),
             UNCHANGED <<txn, safePayment, meetup, listing, charged>>
      PROVE  Inv' /\ Grows
  <2> DEFINE q == [step |-> step, id |-> t, party |-> p]
  <2>1. RequestOK(q, txn, safePayment)
    BY <1>1, <1>2 DEF RequestOK
  <2>2. q \in Request
    BY <1>1, <1>2, CompleteRequest
  <2> QED BY <1>2, <2>1, <2>2, ReadStep
<1>3. CASE CompleteGate(s)
  <2>1. CASE Finish(s)
    BY <1>3, <2>1, EndStep DEF CompleteGate
  <2>2. CASE Continue(s, [request[s] EXCEPT !.step = "complete.meetup"])
    <3>1. [request[s] EXCEPT !.step = "complete.meetup"]
             = [step |-> "complete.meetup", id |-> t, party |-> p]
      BY <1>0, <1>3 DEF CompleteGate, At, Request, Idle
    <3> QED BY <1>2, <1>3, <2>2, <3>1 DEF CompleteGate, At
  <2> QED BY <1>3, <2>1, <2>2 DEF CompleteGate
<1>4. CASE CompleteMeetup(s)
  <2>1. CASE Continue(s, [request[s] EXCEPT !.step = "complete.read"])
    <3>1. [request[s] EXCEPT !.step = "complete.read"]
             = [step |-> "complete.read", id |-> t, party |-> p]
      BY <1>0, <1>4 DEF CompleteMeetup, At, Request, Idle
    <3> QED BY <1>2, <1>4, <2>1, <3>1 DEF CompleteMeetup, At
  <2>2. ASSUME NEW d \in DOMAIN txn,
               Continue(s, [step |-> "complete.place", id |-> t, party |-> p,
                            trade |-> d])
        PROVE  Inv' /\ Grows
    <3> DEFINE q == [step |-> "complete.place", id |-> t, party |-> p,
                     trade |-> d]
    <3>1. RequestOK(q, txn, safePayment)
      BY <1>1, <1>4 DEF RequestOK, CompleteMeetup, At
    <3>2. q \in Request
      BY <1>0, <1>1, <1>4, CompleteRequest DEF CompleteMeetup, At
    <3> QED BY <1>4, <2>2, <3>1, <3>2, ReadStep DEF CompleteMeetup
  <2> QED BY <1>4, <2>1, <2>2 DEF CompleteMeetup
<1>5. CASE CompletePlace(s)
  <2>1. CASE Finish(s)
    BY <1>5, <2>1, EndStep DEF CompletePlace
  <2>2. CASE Continue(s, [step |-> "complete.read", id |-> t, party |-> p])
    BY <1>2, <1>5, <2>2 DEF CompletePlace, At
  <2> QED BY <1>5, <2>1, <2>2 DEF CompletePlace
<1>6. CASE ReadForComplete(s)
  <2> DEFINE q == [step |-> "complete.write", id |-> t, party |-> p,
                   seen |-> txn[t].completedBy]
  <2>1. t \in DOMAIN txn /\ txn[t].completedBy \in SUBSET Party
    BY <1>1, <1>6 DEF ReadForComplete, At, Inv, TypeOK, Txn
  <2>2. RequestOK(q, txn, safePayment)
    BY <1>1, <1>6 DEF RequestOK, ReadForComplete, At
  <2>3. q \in Request
    BY <1>1, <1>6, <2>1, CompleteRequest DEF ReadForComplete, At
  <2> QED BY <1>6, <2>2, <2>3, ReadStep DEF ReadForComplete
<1>7. CASE WriteComplete(s)
  <2> DEFINE seen == request[s].seen
             row == Completed(txn[t], p, seen)
  <2>1. /\ t \in DOMAIN txn
        /\ txn[t] \in Txn
        /\ p \in Party
        /\ txn[t].kind = "SAFE_PAYMENT" => Verified(safePayment, t)
        /\ seen \subseteq txn[t].completedBy
    BY <1>0, <1>1, <1>7 DEF WriteComplete, At, RequestOK, Inv, TypeOK
  <2>2. RowOK(t, txn[t], safePayment)
    BY <2>1, RowByRow DEF Inv, RowsOK, AllRowsOK
  <2>3. /\ row \in Txn
        /\ row.room = txn[t].room
        /\ row.kind = txn[t].kind
        /\ txn[t].completedBy \subseteq row.completedBy
    BY <2>1 DEF Completed, Txn, TransactionStatus, CompletedBy, Party
  <2>4. row.status = "COMPLETED" \/ row.completedAt => row.completedBy = Party
    BY <2>1, <2>2 DEF RowOK, Completed, Txn, CompletedBy, Party
  <2>5. row.status \in ClosedForMeetup \/ row = txn[t]
    BY <2>1 DEF Completed, Txn, CompletedBy, Party, ClosedForMeetup,
                NonCancellable
  <2>6. RowOK(t, row, safePayment)
    BY <2>1, <2>2, <2>3, <2>4, <2>5 DEF RowOK
  <2>7. TablesOK' /\ RowsOK' /\ Grows
    BY <1>7, <2>1, <2>3, <2>6, RowWritten DEF WriteComplete
  <2>8. PICK q \in {Idle, [step |-> "complete.sell"]} : Continue(s, q)
    BY <1>7 DEF WriteComplete, Finish
  <2>9. q \in Request /\ RequestOK(q, txn', safePayment')
    BY NothingRelied, IdleRequest, ListingRequest DEF Idle
  <2> QED BY <2>7, <2>8, <2>9, HandlerStep
<1>8. CASE MarkSold(s)
  <2>1. TablesOK'
    BY <1>8 DEF MarkSold, Inv, TypeOK, TablesOK, Listing
  <2> QED BY <1>8, <2>1, EndOtherStep DEF MarkSold
<1> QED BY <1>3, <1>4, <1>5, <1>6, <1>7, <1>8 DEF CompleteStep

\* Cancellation: the row, the penalty and the active deal
LEMMA CancelSteps ==
    ASSUME Inv, NEW s \in Slots, CancelStep(s)
    PROVE  Inv' /\ Grows
<1> USE DEF StepsOfListing, StepsOfRoom
<1> DEFINE t == request[s].id
           q(step) == [step |-> step, id |-> t]
<1>1. /\ t \in DOMAIN txn
      /\ t \in TxnIds
      /\ txn[t] \in Txn
      /\ RowOK(t, txn[t], safePayment)
  <2>1. RequestOK(request[s], txn, safePayment)
    BY DEF Inv
  <2>2. t \in DOMAIN txn
    BY <2>1 DEF RequestOK, CancelStep, ReadForCancel, WriteCancel,
                ChargePenalty, ReadDeal, ClearDeal, At
  <2> QED BY <2>2, RowByRow DEF Inv, TypeOK, RowsOK, AllRowsOK
<1>2. ASSUME NEW step \in {"cancel.write", "cancel.clear"},
             Continue(s, q(step)),
             UNCHANGED <<txn, safePayment, meetup, listing, charged>>
      PROVE  Inv' /\ Grows
  <2>1. RequestOK(q(step), txn, safePayment)
    BY <1>1, CancelRelied
  <2>2. q(step) \in Request
    BY <1>1, IdRequest
  <2> QED BY <1>2, <2>1, <2>2, ReadStep
<1>3. CASE ReadForCancel(s)
  BY <1>2, <1>3, EndStep DEF ReadForCancel
<1>4. CASE WriteCancel(s)
  <2> DEFINE row == [txn[t] EXCEPT !.status = "CANCELLED"]
  <2>1. row \in Txn /\ RowOK(t, row, safePayment)
    BY <1>1 DEF Txn, TransactionStatus, RowOK, ClosedForMeetup,
                SafePaymentCompletable
  <2>2. txn' = [txn EXCEPT ![t] = row] /\ UNCHANGED safePayment
    BY <1>4 DEF WriteCancel, SetStatus
  <2>3. /\ row.room = txn[t].room
        /\ row.kind = txn[t].kind
        /\ row.completedBy = txn[t].completedBy
    BY <1>1 DEF Txn
  <2>4. TablesOK' /\ RowsOK' /\ Grows
    BY <1>1, <1>4, <2>1, <2>2, <2>3, RowWritten DEF WriteCancel
  <2>5. RequestOK(q("cancel.charge"), txn', safePayment')
    BY <1>1, <2>2, CancelRelied
  <2>6. q("cancel.charge") \in Request
    BY <1>1, IdRequest
  <2> QED BY <1>4, <2>4, <2>5, <2>6, HandlerStep DEF WriteCancel
<1>5. CASE ChargePenalty(s)
  <2>1. TablesOK'
    <3>1. charged \in [TxnIds -> 0..2]
      BY DEF Inv, TypeOK
    <3>2. (IF charged[t] = 0 THEN 1 ELSE 2) \in 0..2
      OBVIOUS
    <3>3. charged' \in [TxnIds -> 0..2]
      BY <1>5, <3>1, <3>2 DEF ChargePenalty
    <3> QED BY <1>5, <3>3 DEF ChargePenalty, Inv, TypeOK, TablesOK
  <2>2. RowsOK' /\ Grows
    BY <1>5, RowsKept DEF ChargePenalty
  <2>3. RequestOK(q("cancel.deal"), txn', safePayment')
    BY <1>1, <1>5, CancelRelied DEF ChargePenalty
  <2>4. q("cancel.deal") \in Request
    BY <1>1, IdRequest
  <2> QED BY <1>5, <2>1, <2>2, <2>3, <2>4, HandlerStep DEF ChargePenalty
<1>6. CASE ReadDeal(s)
  BY <1>2, <1>6, EndStep DEF ReadDeal
<1>7. CASE ClearDeal(s)
  <2>1. TablesOK'
    BY <1>7 DEF ClearDeal, Inv, TypeOK, TablesOK, Listing
  <2> QED BY <1>7, <2>1, EndOtherStep DEF ClearDeal
<1> QED BY <1>3, <1>4, <1>5, <1>6, <1>7 DEF CancelStep

\* The row that a write of the status leaves
LEMMA StatusRow ==
    ASSUME NEW row \in Txn, NEW status \in TransactionStatus
    PROVE  LET new == [row EXCEPT !.status = status]
           IN  /\ new \in Txn
               /\ new.room = row.room
               /\ new.kind = row.kind
               /\ new.completedBy = row.completedBy
               /\ new.completedAt = row.completedAt
               /\ new.status = status
BY DEF Txn

\* Statuses of a safe payment that say nothing of its completion
LEMMA PendingRow ==
    ASSUME NEW t, NEW row \in Txn, NEW payments, RowOK(t, row, payments),
           row.kind = "SAFE_PAYMENT",
           NEW status \in {"SAFE_PAYMENT_AWAITING_INSTRUCTION",
                           "SAFE_PAYMENT_INSTRUCTION_SENT",
                           "SAFE_PAYMENT_PENDING"}
    PROVE  RowOK(t, [row EXCEPT !.status = status], payments)
<1>1. status \in TransactionStatus \ (SafePaymentCompletable \cup {"COMPLETED"})
  BY DEF TransactionStatus, SafePaymentCompletable
<1> QED BY <1>1, StatusRow DEF RowOK

\* The safe payment, from the buyer's request to the admin's transfer
LEMMA SafePaymentSteps ==
    ASSUME Inv, NEW s \in Slots, SafePaymentStep(s)
    PROVE  Inv' /\ Grows
<1> USE DEF StepsOfListing, StepsOfRoom, StepsOfSafePayment, StepsOfMeetup,
            StepsOfComplete
<1> DEFINE t == request[s].id
           q(step) == [step |-> step, id |-> t]
<1>0. /\ request[s] \in Request
      /\ RequestOK(request[s], txn, safePayment)
  BY DEF Inv, TypeOK
<1>1. ASSUME request[s].step \in StepsOfSafePayment \cup {"transfer.write"}
      PROVE  /\ t \in DOMAIN txn
             /\ t \in TxnIds
             /\ txn[t] \in Txn
             /\ RowOK(t, txn[t], safePayment)
             /\ t \in DOMAIN safePayment =>
                   /\ safePayment[t] \in SafePayment
                   /\ PaymentOK(safePayment[t], txn[t])
  <2>1. t \in DOMAIN txn
    BY <1>0, <1>1 DEF RequestOK
  <2> QED BY <2>1, RowByRow DEF Inv, TypeOK, RowsOK, AllRowsOK
<1>2. ASSUME request[s].step \in StepsOfSafePayment
      PROVE  txn[t].kind = "SAFE_PAYMENT"
  BY <1>0, <1>2 DEF RequestOK
<1>3. CASE FindActive(s)
  <2>1. request[s].room \in Rooms
    BY <1>0, <1>3, RequestFields DEF FindActive, At
  <2>2. CASE Continue(s, [step |-> "request.create", room |-> request[s].room])
    BY <1>3, <2>1, <2>2, RoomRequest, NothingRelied, ReadStep DEF FindActive
  <2>3. CASE Finish(s)
    BY <1>3, <2>3, EndStep DEF FindActive
  <2>4. ASSUME NEW u \in DOMAIN txn,
               IsLatest(u, request[s].room, "SAFE_PAYMENT", {"CANCELLED"}),
               Continue(s, [step |-> "request.reset", id |-> u])
        PROVE  Inv' /\ Grows
    <3>1. RequestOK([step |-> "request.reset", id |-> u], txn, safePayment)
      BY <2>4 DEF RequestOK, IsLatest, Live
    <3>2. [step |-> "request.reset", id |-> u] \in Request
      BY IdRequest DEF Inv, TypeOK
    <3> QED BY <1>3, <2>4, <3>1, <3>2, ReadStep DEF FindActive
  <2> QED BY <1>3, <2>2, <2>3, <2>4 DEF FindActive
<1>4. CASE CreateSafePayment(s)
  <2>1. request[s].room \in Rooms
    BY <1>0, <1>4, RequestFields DEF CreateSafePayment, At
  <2>2. PICK u \in TxnIds :
           /\ DOMAIN txn = 1..(u - 1)
           /\ txn' = WithRow(txn, u,
                             NewTxn(request[s].room, "SAFE_PAYMENT",
                                    "SAFE_PAYMENT_AWAITING_INSTRUCTION"))
           /\ Continue(s, [step |-> "request.attach", id |-> u])
    BY <1>4 DEF CreateSafePayment, Create
  <2>3. TablesOK' /\ RowsOK' /\ Grows
    BY <1>4, <2>1, <2>2, RowCreated DEF CreateSafePayment
  <2>4. RequestOK([step |-> "request.attach", id |-> u], txn', safePayment')
    BY <2>2 DEF RequestOK, WithRow, NewTxn
  <2> QED BY <2>2, <2>3, <2>4, IdRequest, HandlerStep
<1>5. CASE ResetSafePayment(s)
  <2> DEFINE row == [txn[t] EXCEPT !.status = "SAFE_PAYMENT_AWAITING_INSTRUCTION"]
  <2>1. /\ t \in DOMAIN txn
        /\ txn[t].kind = "SAFE_PAYMENT"
        /\ txn' = [txn EXCEPT ![t] = row]
        /\ UNCHANGED safePayment
    BY <1>1, <1>2, <1>5 DEF ResetSafePayment, At, SetStatus
  <2>2. RowOK(t, row, safePayment')
    BY <1>1, <1>5, <2>1, PendingRow DEF ResetSafePayment, At
  <2>3. /\ row \in Txn
        /\ row.room = txn[t].room
        /\ row.kind = txn[t].kind
        /\ row.completedBy = txn[t].completedBy
    BY <1>1, <1>5, StatusRow DEF ResetSafePayment, At, TransactionStatus
  <2>4. TablesOK' /\ RowsOK' /\ Grows
    BY <1>5, <2>1, <2>2, <2>3, RowWritten DEF ResetSafePayment
  <2>5. RequestOK(q("request.attach"), txn', safePayment')
    BY <1>1, <1>5, <2>1, <2>3 DEF RequestOK, ResetSafePayment, At, Inv, TypeOK
  <2>6. q("request.attach") \in Request
    BY <1>1, <1>5, IdRequest DEF ResetSafePayment, At
  <2> QED BY <1>5, <2>4, <2>5, <2>6, HandlerStep DEF ResetSafePayment
<1>6. ASSUME NEW row \in Txn, NEW payment \in SafePayment, t \in DOMAIN txn,
             txn[t].kind = "SAFE_PAYMENT",
             row.room = txn[t].room, row.kind = txn[t].kind,
             row.completedBy = txn[t].completedBy,
             RowOK(t, row, safePayment'),
             txn' = [txn EXCEPT ![t] = row],
             safePayment' = WithRow(safePayment, t, payment),
             PaymentOK(payment, row),
             t \in DOMAIN safePayment =>
                /\ safePayment[t].instructed => payment.instructed
                /\ safePayment[t].isVerified => payment.isVerified
                /\ safePayment[t].isTransferred => payment.isTransferred,
             Finish(s),
             UNCHANGED <<meetup, listing, charged>>
      PROVE  Inv' /\ Grows
  <2>1. TablesOK' /\ RowsOK' /\ Grows
    BY <1>6, RowWritten
  <2>2. RequestOK(Idle, txn', safePayment')
    BY NothingRelied DEF Idle
  <2> QED BY <1>6, <2>1, <2>2, IdleRequest, HandlerStep DEF Finish
<1>7. CASE AttachSafePayment(s)
  <2>1. CASE t \in DOMAIN safePayment
    BY <1>7, <2>1, EndStep DEF AttachSafePayment
  <2>2. CASE t \notin DOMAIN safePayment
    <3>1. /\ t \in DOMAIN txn
          /\ txn[t] \in Txn
          /\ txn[t].kind = "SAFE_PAYMENT"
          /\ safePayment' = WithRow(safePayment, t, NewSafePayment)
          /\ txn' = [txn EXCEPT ![t] = txn[t]]
      BY <1>1, <1>2, <1>7, <2>2 DEF AttachSafePayment, At, Inv, TypeOK
    <3>2. NewSafePayment \in SafePayment /\ PaymentOK(NewSafePayment, txn[t])
      BY <3>1 DEF NewSafePayment, SafePayment, PaymentOK
    <3>3. RowOK(t, txn[t], safePayment')
      BY <1>1, <1>7, <2>2 DEF AttachSafePayment, At, RowOK, Verified
    <3> QED BY <1>6, <1>7, <2>2, <3>1, <3>2, <3>3 DEF AttachSafePayment
  <2> QED BY <2>1, <2>2
<1>8. CASE WriteInstruction(s)
  <2> DEFINE old == IF t \in DOMAIN safePayment THEN safePayment[t]
                    ELSE NewSafePayment
             payment == [old EXCEPT !.instructed = TRUE]
             row == [txn[t] EXCEPT !.status = "SAFE_PAYMENT_INSTRUCTION_SENT"]
  <2>1. /\ t \in DOMAIN txn
        /\ txn[t].kind = "SAFE_PAYMENT"
        /\ safePayment' = WithRow(safePayment, t, payment)
        /\ txn' = [txn EXCEPT ![t] = row]
    BY <1>1, <1>2, <1>8 DEF WriteInstruction, At, SetStatus
  <2>2. /\ row \in Txn
        /\ row.room = txn[t].room
        /\ row.kind = txn[t].kind
        /\ row.completedBy = txn[t].completedBy
    BY <1>1, <1>8, StatusRow DEF WriteInstruction, At, TransactionStatus
  <2>3. old \in SafePayment /\ PaymentOK(old, txn[t])
    BY <1>1, <1>8, <2>1 DEF WriteInstruction, At, NewSafePayment, SafePayment,
                            PaymentOK
  <2>4. /\ payment \in SafePayment
        /\ payment.instructed
        /\ payment.isVerified = old.isVerified
        /\ payment.isTransferred = old.isTransferred
    BY <2>3 DEF SafePayment
  <2>5. PaymentOK(payment, row)
    BY <2>2, <2>3, <2>4 DEF PaymentOK
  <2>6. Verified(safePayment, t) => Verified(safePayment', t)
    BY <2>1, <2>4 DEF Verified, WithRow
  <2>7. RowOK(t, row, safePayment')
    <3>1. RowOK(t, row, safePayment)
      BY <1>1, <1>8, <2>1, PendingRow DEF WriteInstruction, At
    <3> QED BY <2>6, <3>1 DEF RowOK
  <2> QED BY <1>6, <1>8, <2>1, <2>2, <2>4, <2>5, <2>7 DEF WriteInstruction
<1>9. CASE ReadForSubmit(s)
  <2>1. CASE Finish(s)
    BY <1>9, <2>1, EndStep DEF ReadForSubmit
  <2>2. CASE MaySubmit(t) /\ Continue(s, q("submit.status"))
    <3>1. RequestOK(q("submit.status"), txn, safePayment)
      BY <1>1, <1>2, <1>9, <2>2 DEF RequestOK, ReadForSubmit, At, MaySubmit
    <3>2. q("submit.status") \in Request
      BY <1>1, <1>9, IdRequest DEF ReadForSubmit, At
    <3> QED BY <1>9, <2>2, <3>1, <3>2, ReadStep DEF ReadForSubmit
  <2> QED BY <1>9, <2>1, <2>2 DEF ReadForSubmit
<1>10. CASE WriteSubmitStatus(s)
  <2> DEFINE row == [txn[t] EXCEPT !.status = "SAFE_PAYMENT_PENDING"]
  <2>1. /\ t \in DOMAIN txn
        /\ txn[t].kind = "SAFE_PAYMENT"
        /\ txn' = [txn EXCEPT ![t] = row]
        /\ UNCHANGED safePayment
        /\ t \in DOMAIN safePayment /\ safePayment[t].instructed
    BY <1>0, <1>1, <1>2, <1>10 DEF WriteSubmitStatus, At, SetStatus, RequestOK
  <2>2. RowOK(t, row, safePayment')
    BY <1>1, <1>10, <2>1, PendingRow DEF WriteSubmitStatus, At
  <2>3. /\ row \in Txn
        /\ row.room = txn[t].room
        /\ row.kind = txn[t].kind
        /\ row.completedBy = txn[t].completedBy
    BY <1>1, <1>10, StatusRow DEF WriteSubmitStatus, At, TransactionStatus
  <2>4. TablesOK' /\ RowsOK' /\ Grows
    BY <1>10, <2>1, <2>2, <2>3, RowWritten DEF WriteSubmitStatus
  <2>5. RequestOK(q("submit.payer"), txn', safePayment')
    BY <1>1, <1>10, <2>1, <2>3 DEF RequestOK, WriteSubmitStatus, At, Inv, TypeOK
  <2>6. q("submit.payer") \in Request
    BY <1>1, <1>10, IdRequest DEF WriteSubmitStatus, At
  <2> QED BY <1>10, <2>4, <2>5, <2>6, HandlerStep DEF WriteSubmitStatus
<1>11. CASE WriteSubmitPayer(s)
  <2> DEFINE payment == [safePayment[t] EXCEPT !.paid = TRUE]
  <2>1. /\ t \in DOMAIN txn
        /\ txn[t] \in Txn
        /\ txn[t].kind = "SAFE_PAYMENT"
        /\ t \in DOMAIN safePayment
        /\ safePayment[t] \in SafePayment
        /\ PaymentOK(safePayment[t], txn[t])
        /\ safePayment[t].instructed
        /\ txn' = [txn EXCEPT ![t] = txn[t]]
    BY <1>0, <1>1, <1>2, <1>11 DEF WriteSubmitPayer, At, RequestOK, Inv, TypeOK
  <2>2. /\ payment \in SafePayment
        /\ payment.instructed
        /\ payment.isVerified = safePayment[t].isVerified
        /\ payment.isTransferred = safePayment[t].isTransferred
    BY <2>1 DEF SafePayment
  <2>3. safePayment' = WithRow(safePayment, t, payment)
    BY <1>11, <2>1 DEF WriteSubmitPayer, WithRow, Inv, TypeOK
  <2>4. PaymentOK(payment, txn[t])
    BY <2>1, <2>2 DEF PaymentOK
  <2>5. Verified(safePayment, t) => Verified(safePayment', t)
    BY <2>1, <2>2, <2>3 DEF Verified, WithRow
  <2>6. RowOK(t, txn[t], safePayment')
    BY <1>1, <1>11, <2>5 DEF RowOK, WriteSubmitPayer, At
  <2> QED BY <1>6, <1>11, <2>1, <2>2, <2>3, <2>4, <2>6 DEF WriteSubmitPayer
<1>12. CASE WriteTransfer(s)
  <2>1. CASE ~Verified(safePayment, t)
    BY <1>12, <2>1, EndStep DEF WriteTransfer, Verified
  <2>2. CASE Verified(safePayment, t)
    <3> DEFINE payment == [safePayment[t] EXCEPT !.isTransferred = TRUE]
               row == [txn[t] EXCEPT !.status = "COMPLETED"]
    <3>1. /\ t \in DOMAIN txn
          /\ txn[t].completedBy = Party
          /\ t \in DOMAIN safePayment
          /\ safePayment[t] \in SafePayment
          /\ safePayment[t].isVerified
          /\ PaymentOK(safePayment[t], txn[t])
      BY <1>0, <1>1, <1>12, <2>2 DEF WriteTransfer, At, RequestOK, Verified
    <3>2. txn[t].kind = "SAFE_PAYMENT"
      BY <3>1 DEF PaymentOK
    <3>3. /\ payment \in SafePayment
          /\ payment.instructed = safePayment[t].instructed
          /\ payment.paid = safePayment[t].paid
          /\ payment.isVerified
          /\ payment.isTransferred
      BY <3>1 DEF SafePayment
    <3>4. /\ row \in Txn
          /\ row.room = txn[t].room
          /\ row.kind = txn[t].kind
          /\ row.completedBy = txn[t].completedBy
      BY <1>1, <1>12, StatusRow DEF WriteTransfer, At, TransactionStatus
    <3>5. /\ safePayment' = WithRow(safePayment, t, payment)
          /\ txn' = [txn EXCEPT ![t] = row]
      <4>1. /\ safePayment' = [safePayment EXCEPT ![t] = payment]
            /\ txn' = [txn EXCEPT ![t] = row]
        BY <1>12, <2>2 DEF WriteTransfer, Verified, SetStatus
      <4>2. safePayment \in [DOMAIN safePayment -> SafePayment]
        BY DEF Inv, TypeOK
      <4>3. safePayment' = WithRow(safePayment, t, payment)
        BY <3>1, <4>1, <4>2 DEF WithRow
      <4> QED BY <4>1, <4>3
    <3>6. PaymentOK(payment, row)
      BY <3>1, <3>3, <3>4 DEF PaymentOK
    <3>7. RowOK(t, row, safePayment')
      BY <3>1, <3>2, <3>3, <3>4, <3>5 DEF RowOK, Verified, WithRow
    <3> QED BY <1>6, <1>12, <3>1, <3>2, <3>3, <3>4, <3>5, <3>6, <3>7
            DEF WriteTransfer
  <2> QED BY <2>1, <2>2
<1> QED BY <1>3, <1>4, <1>5, <1>7, <1>8, <1>9, <1>10, <1>11, <1>12
        DEF SafePaymentStep

-----------------------------------------------------------------------------
(* The invariant                                                             *)

\* The admin verifies the money: one step, whatever the status was.
LEMMA MarkReceivedStep ==
    ASSUME Inv, NEW t \in TxnIds, MarkReceived(t)
    PROVE  Inv' /\ Grows
<1> DEFINE payment == [safePayment[t] EXCEPT !.isVerified = TRUE]
           row == [txn[t] EXCEPT !.status = "SAFE_PAYMENT_RECEIVED"]
<1>1. /\ t \in DOMAIN safePayment
      /\ t \in DOMAIN txn
      /\ txn[t] \in Txn
      /\ safePayment[t] \in SafePayment
      /\ PaymentOK(safePayment[t], txn[t])
      /\ RowOK(t, txn[t], safePayment)
  BY RowByRow DEF MarkReceived, Inv, TypeOK, RowsOK, AllRowsOK
<1>2. /\ payment \in SafePayment
      /\ payment.instructed = safePayment[t].instructed
      /\ payment.paid = safePayment[t].paid
      /\ payment.isVerified
      /\ payment.isTransferred = safePayment[t].isTransferred
  BY <1>1 DEF SafePayment
<1>3. /\ row \in Txn
      /\ row.room = txn[t].room
      /\ row.kind = txn[t].kind
      /\ row.completedBy = txn[t].completedBy
      /\ row.completedAt = txn[t].completedAt
      /\ row.status = "SAFE_PAYMENT_RECEIVED"
  BY <1>1, StatusRow DEF TransactionStatus
<1>4. /\ txn' = [txn EXCEPT ![t] = row]
      /\ safePayment' = WithRow(safePayment, t, payment)
  <2>1. /\ txn' = [txn EXCEPT ![t] = row]
        /\ safePayment' = [safePayment EXCEPT ![t] = payment]
    BY DEF MarkReceived, SetStatus
  <2>2. safePayment \in [DOMAIN safePayment -> SafePayment]
    BY DEF Inv, TypeOK
  <2>3. safePayment' = WithRow(safePayment, t, payment)
    BY <1>1, <2>1, <2>2 DEF WithRow
  <2> QED BY <2>1, <2>3
<1>5. PaymentOK(payment, row)
  BY <1>1, <1>2, <1>3 DEF PaymentOK
<1>6. RowOK(t, row, safePayment')
  <2>1. txn[t].kind = "SAFE_PAYMENT"
    BY <1>1 DEF PaymentOK
  <2>2. Verified(safePayment', t)
    BY <1>1, <1>2, <1>4 DEF Verified, WithRow
  <2> QED BY <1>1, <1>3, <2>1, <2>2 DEF RowOK
<1>7. TablesOK' /\ RowsOK' /\ Grows
  BY <1>1, <1>2, <1>3, <1>4, <1>5, <1>6, RowWritten DEF MarkReceived
<1>8. TypeOK'
  BY <1>7 DEF MarkReceived, Inv, TypeOK, TablesOK
<1>9. \A s \in Slots : RequestOK(request'[s], txn', safePayment')
  <2> SUFFICES ASSUME NEW s \in Slots
               PROVE  RequestOK(request'[s], txn', safePayment')
    OBVIOUS
  <2>1. RequestOK(request[s], txn', safePayment')
    BY <1>7, <1>8, StillRelied DEF Inv
  <2> QED BY <2>1 DEF MarkReceived
<1> QED BY <1>7, <1>8, <1>9 DEF Inv, RowsOK

\* The empty tables satisfy the invariant.
LEMMA InitInv == Init => Inv
<1> SUFFICES ASSUME Init
             PROVE  Inv
  OBVIOUS
<1>1. TypeOK
  <2>1. DOMAIN txn = {} /\ DOMAIN safePayment = {} /\ DOMAIN meetup = {}
    BY DEF Init
  <2>2. /\ txn \in [DOMAIN txn -> Txn]
        /\ safePayment \in [DOMAIN safePayment -> SafePayment]
        /\ meetup \in [DOMAIN meetup -> Meetup]
    BY DEF Init
  <2>3. listing \in Listing
    BY DEF Init, Listing
  <2>4. request \in [Slots -> Request]
    BY IdleRequest DEF Init
  <2>5. charged \in [TxnIds -> 0..2]
    BY DEF Init
  <2> QED BY <2>1, <2>2, <2>3, <2>4, <2>5 DEF TypeOK
<1>2. \A s \in Slots : RequestOK(request[s], txn, safePayment)
  <2>1. RequestOK(Idle, txn, safePayment)
    BY NothingRelied DEF Idle, StepsOfListing
  <2> QED BY <2>1 DEF Init
<1>3. DOMAIN txn = {} /\ DOMAIN safePayment = {}
  BY DEF Init
<1> QED BY <1>1, <1>2, <1>3 DEF Inv, RowsInv, ConfirmationNeedsVerification,
           CompletedMeansBothConfirmed, ReleaseNeedsBothConfirmations,
           SubmissionFollowsInstruction

\* Every step keeps the invariant, and the rows only grow.
LEMMA NextInv == Inv /\ [Next]_vars => Inv' /\ (Grows \/ UNCHANGED vars)
<1> SUFFICES ASSUME Inv, [Next]_vars
             PROVE  Inv' /\ (Grows \/ UNCHANGED vars)
  OBVIOUS
<1>1. ASSUME NEW s \in Slots, Step(s)
      PROVE  Inv' /\ Grows
  BY <1>1, DirectTradeSteps, SafePaymentSteps, CompleteSteps, CancelSteps,
     ListingSteps DEF Step
<1>2. ASSUME NEW s \in Slots, Crash(s)
      PROVE  Inv' /\ Grows
  BY <1>2, EndStep DEF Crash
<1>3. ASSUME NEW s \in Slots, Begin(s)
      PROVE  Inv' /\ Grows
  BY <1>3, BeginSteps
<1>4. CASE UNCHANGED vars
  BY <1>4 DEF vars, Inv, TypeOK, RowsInv, Verified,
     ConfirmationNeedsVerification, CompletedMeansBothConfirmed,
     ReleaseNeedsBothConfirmations, SubmissionFollowsInstruction
<1> QED BY <1>1, <1>2, <1>3, <1>4, ListingSteps, MarkReceivedStep DEF Next

\* The inductive invariant holds in every reachable state: what a handler has
\* read and still relies on is never falsified by the others.
THEOREM Invariance == Spec => []Inv
<1>1. Inv /\ [Next]_vars => Inv'
  BY NextInv
<1> QED BY InitInv, <1>1, PTL DEF Spec

\* The tables are well formed whatever the handlers in flight do.
THEOREM TypeCorrect == Spec => []TypeOK
<1>1. Inv => TypeOK
  BY DEF Inv
<1> QED BY <1>1, Invariance, PTL

\* The money of a safe payment reaches the seller only after the admin has
\* verified it and both parties have confirmed.
THEOREM ReleaseSafety == Spec => []ReleaseNeedsBothConfirmations
<1>1. Inv => ReleaseNeedsBothConfirmations
  BY DEF Inv
<1> QED BY <1>1, Invariance, PTL

\* A safe payment is confirmed only after the admin has verified it, although
\* the status is checked long before the flag is written.
THEOREM ConfirmationSafety == Spec => []ConfirmationNeedsVerification
<1>1. Inv => ConfirmationNeedsVerification
  BY DEF Inv
<1> QED BY <1>1, Invariance, PTL

\* COMPLETED is never written over a missing confirmation.
THEOREM CompletionSafety == Spec => []CompletedMeansBothConfirmed
<1>1. Inv => CompletedMeansBothConfirmed
  BY DEF Inv
<1> QED BY <1>1, Invariance, PTL

\* The buyer's transfer is recorded only after the instruction.
THEOREM SubmissionSafety == Spec => []SubmissionFollowsInstruction
<1>1. Inv => SubmissionFollowsInstruction
  BY DEF Inv
<1> QED BY <1>1, Invariance, PTL

\* No handler takes a flag of a transaction or of a safe payment back.
THEOREM MonotoneFlags == Spec => NothingIsTakenBack
<1>1. Inv /\ [Next]_vars => [Grows]_vars
  BY NextInv
<1> QED BY <1>1, Invariance, PTL DEF Spec, NothingIsTakenBack

-----------------------------------------------------------------------------
(* The abstract life of the money                                            *)

EscrowStep == Escrow!Next \/ UNCHANGED Escrow!vars

\* Steps that write none of the columns that Escrow is about
LEMMA EscrowKept ==
    ASSUME DOMAIN txn' = DOMAIN txn,
           \A t \in DOMAIN txn : /\ txn'[t].kind = txn[t].kind
                                 /\ txn'[t].completedBy = txn[t].completedBy,
           Received' = Received, Released' = Released
    PROVE  EscrowStep
<1>1. Held' = Held
  BY DEF Held
<1>2. Confirmed' = Confirmed
  BY DEF Confirmed
<1> QED BY <1>1, <1>2 DEF EscrowStep, Escrow!vars

\* Steps that write neither transactions nor safe payments
LEMMA EscrowTablesKept ==
    ASSUME UNCHANGED <<txn, safePayment>>
    PROVE  EscrowStep
<1>1. Received' = Received /\ Released' = Released
  BY DEF Received, Released
<1> QED BY <1>1, EscrowKept

\* A write of the status alone
LEMMA EscrowStatusStep ==
    ASSUME Inv, NEW t \in DOMAIN txn, NEW status, SetStatus(t, status),
           Received' = Received, Released' = Released
    PROVE  EscrowStep
<1>1. DOMAIN txn' = DOMAIN txn
  BY DEF SetStatus
<1>2. \A u \in DOMAIN txn : /\ txn'[u].kind = txn[u].kind
                            /\ txn'[u].completedBy = txn[u].completedBy
  BY DEF SetStatus, Inv, TypeOK, Txn
<1> QED BY <1>1, <1>2, EscrowKept

\* The row of a handler is there.
LEMMA EscrowRow ==
    ASSUME Inv, NEW s \in Slots,
           request[s].step \notin StepsOfListing \cup StepsOfRoom
    PROVE  /\ request[s].id \in DOMAIN txn
           /\ request[s].id \in TxnIds
           /\ txn[request[s].id] \in Txn
           /\ RequestOK(request[s], txn, safePayment)
           /\ DOMAIN safePayment \subseteq DOMAIN txn
           /\ safePayment \in [DOMAIN safePayment -> SafePayment]
BY DEF Inv, TypeOK, RequestOK

\* The safe payment of t is inserted without flags, or written with the same
\* isVerified and isTransferred.
LEMMA EscrowPaymentKept ==
    ASSUME NEW t, NEW payment \in SafePayment,
           safePayment' = WithRow(safePayment, t, payment),
           IF t \in DOMAIN safePayment
           THEN /\ payment.isVerified = safePayment[t].isVerified
                /\ payment.isTransferred = safePayment[t].isTransferred
           ELSE ~payment.isVerified /\ ~payment.isTransferred
    PROVE  Received' = Received /\ Released' = Released
BY DEF Received, Released, WithRow

\* A transaction is created: a safe payment is held, a direct trade is not.
LEMMA EscrowCreate ==
    ASSUME Inv, NEW s \in Slots, NEW kind, NEW status, NEW step,
           Create(s, kind, status, step), UNCHANGED safePayment
    PROVE  EscrowStep
<1>1. PICK t \in TxnIds :
         /\ DOMAIN txn = 1..(t - 1)
         /\ txn' = WithRow(txn, t, NewTxn(request[s].room, kind, status))
  BY DEF Create
<1>2. t \notin DOMAIN txn
  BY <1>1, BoundAssumption DEF TxnIds
<1>3. Received' = Received /\ Released' = Released
  BY DEF Received, Released
<1>4. Confirmed' = Confirmed /\ Confirmed[t] = {}
  BY <1>1, <1>2 DEF Confirmed, WithRow, NewTxn
<1>5. t \notin Held
  BY <1>2 DEF Held
<1>6. CASE kind = "SAFE_PAYMENT"
  <2>1. Held' = Held \cup {t}
    BY <1>1, <1>2, <1>6 DEF Held, WithRow, NewTxn
  <2>2. Escrow!Hold(t)
    BY <1>3, <1>4, <1>5, <2>1 DEF Escrow!Hold
  <2> QED BY <2>2 DEF EscrowStep, Escrow!Next
<1>7. CASE kind # "SAFE_PAYMENT"
  <2>1. Held' = Held
    BY <1>1, <1>2, <1>7 DEF Held, WithRow, NewTxn
  <2> QED BY <1>3, <1>4, <2>1 DEF EscrowStep, Escrow!vars
<1> QED BY <1>6, <1>7

\* The steps that write a safe payment
LEMMA EscrowSafePaymentStep ==
    ASSUME Inv, NEW s \in Slots, SafePaymentStep(s)
    PROVE  EscrowStep
<1> USE DEF StepsOfListing, StepsOfRoom
<1> DEFINE t == request[s].id
<1>1. CASE FindActive(s) \/ ReadForSubmit(s)
  BY <1>1, EscrowTablesKept DEF FindActive, ReadForSubmit
<1>2. CASE CreateSafePayment(s)
  BY <1>2, EscrowCreate DEF CreateSafePayment
<1>3. CASE ResetSafePayment(s) \/ WriteSubmitStatus(s)
  <2>1. t \in DOMAIN txn
    BY <1>3, EscrowRow DEF ResetSafePayment, WriteSubmitStatus, At
  <2>2. Received' = Received /\ Released' = Released
    BY <1>3 DEF ResetSafePayment, WriteSubmitStatus, Received, Released
  <2> QED BY <1>3, <2>1, <2>2, EscrowStatusStep
          DEF ResetSafePayment, WriteSubmitStatus
<1>4. CASE AttachSafePayment(s)
  <2>1. CASE t \in DOMAIN safePayment
    BY <1>4, <2>1, EscrowTablesKept DEF AttachSafePayment
  <2>2. CASE t \notin DOMAIN safePayment
    <3>1. /\ NewSafePayment \in SafePayment
          /\ ~NewSafePayment.isVerified /\ ~NewSafePayment.isTransferred
      BY DEF NewSafePayment, SafePayment
    <3>2. Received' = Received /\ Released' = Released
      BY <1>4, <2>2, <3>1, EscrowPaymentKept DEF AttachSafePayment
    <3> QED BY <1>4, <3>2, EscrowKept DEF AttachSafePayment
  <2> QED BY <2>1, <2>2
<1>5. CASE WriteInstruction(s)
  <2> DEFINE old == IF t \in DOMAIN safePayment THEN safePayment[t]
                    ELSE NewSafePayment
             payment == [old EXCEPT !.instructed = TRUE]
  <2>1. t \in DOMAIN txn /\ safePayment \in [DOMAIN safePayment -> SafePayment]
    BY <1>5, EscrowRow DEF WriteInstruction, At
  <2>2. old \in SafePayment
    BY <2>1 DEF NewSafePayment, SafePayment
  <2>3. /\ payment \in SafePayment
        /\ payment.isVerified = old.isVerified
        /\ payment.isTransferred = old.isTransferred
    BY <2>2 DEF SafePayment
  <2>4. ~NewSafePayment.isVerified /\ ~NewSafePayment.isTransferred
    BY DEF NewSafePayment
  <2>5. Received' = Received /\ Released' = Released
    <3>1. safePayment' = WithRow(safePayment, t, payment)
      BY <1>5 DEF WriteInstruction
    <3> QED BY <2>3, <2>4, <3>1, EscrowPaymentKept
  <2> QED BY <1>5, <2>1, <2>5, EscrowStatusStep DEF WriteInstruction
<1>6. CASE WriteSubmitPayer(s)
  <2> DEFINE payment == [safePayment[t] EXCEPT !.paid = TRUE]
  <2>1. /\ t \in DOMAIN safePayment
        /\ safePayment \in [DOMAIN safePayment -> SafePayment]
    BY <1>6, EscrowRow DEF WriteSubmitPayer, At, RequestOK
  <2>2. /\ payment \in SafePayment
        /\ payment.isVerified = safePayment[t].isVerified
        /\ payment.isTransferred = safePayment[t].isTransferred
    BY <2>1 DEF SafePayment
  <2>3. safePayment' = WithRow(safePayment, t, payment)
    BY <1>6, <2>1 DEF WriteSubmitPayer, WithRow
  <2>4. Received' = Received /\ Released' = Released
    BY <2>1, <2>2, <2>3, EscrowPaymentKept
  <2> QED BY <1>6, <2>4, EscrowKept DEF WriteSubmitPayer
<1>7. CASE WriteTransfer(s)
  <2>1. CASE ~Verified(safePayment, t)
    BY <1>7, <2>1, EscrowTablesKept DEF WriteTransfer, Verified
  <2>2. CASE Verified(safePayment, t)
    <3>1. /\ t \in DOMAIN txn
          /\ t \in TxnIds
          /\ txn[t] \in Txn
          /\ txn[t].completedBy = Party
          /\ safePayment \in [DOMAIN safePayment -> SafePayment]
      BY <1>7, EscrowRow DEF WriteTransfer, At, RequestOK
    <3>2. /\ safePayment' = [safePayment EXCEPT ![t].isTransferred = TRUE]
          /\ txn' = [txn EXCEPT ![t].status = "COMPLETED"]
      BY <1>7, <2>2 DEF WriteTransfer, Verified, SetStatus
    <3>3. Received' = Received /\ Released' = Released \cup {t}
      BY <2>2, <3>1, <3>2 DEF Received, Released, Verified, SafePayment
    <3>4. Held' = Held /\ Confirmed' = Confirmed
      BY <3>1, <3>2 DEF Held, Confirmed, Txn
    <3>5. t \in Received /\ Confirmed[t] = Escrow!Party
      BY <2>2, <3>1 DEF Received, Verified, Confirmed, Party, Escrow!Party
    <3>6. Escrow!Release(t)
      BY <3>3, <3>4, <3>5 DEF Escrow!Release
    <3> QED BY <3>1, <3>6 DEF EscrowStep, Escrow!Next
  <2> QED BY <2>1, <2>2
<1> QED BY <1>1, <1>2, <1>3, <1>4, <1>5, <1>6, <1>7 DEF SafePaymentStep

\* The block that raises the flag of one party
LEMMA EscrowConfirm ==
    ASSUME Inv, NEW s \in Slots, WriteComplete(s)
    PROVE  EscrowStep
<1> DEFINE t == request[s].id
           p == request[s].party
           seen == request[s].seen
           row == Completed(txn[t], p, seen)
<1>1. /\ t \in DOMAIN txn
      /\ t \in TxnIds
      /\ txn[t] \in Txn
      /\ RequestOK(request[s], txn, safePayment)
  BY EscrowRow DEF WriteComplete, At, StepsOfListing, StepsOfRoom
<1>2. /\ p \in Party
      /\ seen \subseteq txn[t].completedBy
      /\ txn[t].kind = "SAFE_PAYMENT" => Verified(safePayment, t)
  BY <1>1, RequestFields
     DEF WriteComplete, At, RequestOK, StepsOfComplete, Inv, TypeOK
<1>3. row.kind = txn[t].kind
  BY <1>1 DEF Completed, Txn
<1>4. row.completedBy \in {txn[t].completedBy, txn[t].completedBy \cup {p}}
  BY <1>1, <1>2 DEF Completed, Txn, Party
<1>5. txn' = [txn EXCEPT ![t] = row] /\ UNCHANGED safePayment
  BY DEF WriteComplete
<1>6. /\ Held' = Held
      /\ Received' = Received
      /\ Released' = Released
  BY <1>1, <1>3, <1>5 DEF Held, Received, Released
<1>7. CASE row.completedBy = txn[t].completedBy
  <2>1. Confirmed' = Confirmed
    BY <1>1, <1>5, <1>7 DEF Confirmed
  <2> QED BY <1>6, <2>1 DEF EscrowStep, Escrow!vars
<1>8. CASE row.completedBy = txn[t].completedBy \cup {p}
  <2>1. Confirmed' = [Confirmed EXCEPT ![t] = @ \cup {p}]
    BY <1>1, <1>5, <1>8 DEF Confirmed
  <2>2. t \in Held => t \in Received
    BY <1>2 DEF Held, Received, Verified
  <2>3. Escrow!Confirm(t, p)
    BY <1>6, <2>1, <2>2 DEF Escrow!Confirm
  <2> QED BY <1>1, <1>2, <2>3 DEF EscrowStep, Escrow!Next, Party, Escrow!Party
<1> QED BY <1>4, <1>7, <1>8

\* Every step of the handlers is a step of Escrow, or leaves it alone.
LEMMA NextEscrow == Inv /\ [Next]_vars => EscrowStep
<1> SUFFICES ASSUME Inv, [Next]_vars
             PROVE  EscrowStep
  OBVIOUS
<1>1. CASE UNCHANGED vars
  BY <1>1, EscrowTablesKept DEF vars
<1>2. ASSUME NEW s \in Slots, Begin(s) \/ Crash(s) \/ DeleteListing(s)
      PROVE  EscrowStep
  BY <1>2, EscrowTablesKept
     DEF Begin, DirectTradeRoutes, SafePaymentRoutes, TransactionRoutes, AdminRoutes,
         Crash, DeleteListing, BeginDelete, BeginStart, BeginRequest,
         BeginMeeting, ReadForInstruction, BeginSubmit, BeginTransfer,
         BeginCancel, BeginComplete
<1>3. ASSUME NEW s \in Slots, DirectTradeStep(s)
      PROVE  EscrowStep
  <2>1. CASE StartCreate(s)
    BY <2>1, EscrowCreate DEF StartCreate
  <2>2. CASE ~StartCreate(s)
    BY <1>3, <2>2, EscrowTablesKept
       DEF DirectTradeStep, StartCheck, StartFind, StartUpsert, WriteMeeting
  <2> QED BY <2>1, <2>2
<1>4. ASSUME NEW s \in Slots, CompleteStep(s)
      PROVE  EscrowStep
  <2>1. CASE WriteComplete(s)
    BY <2>1, EscrowConfirm
  <2>2. CASE ~WriteComplete(s)
    BY <1>4, <2>2, EscrowTablesKept
       DEF CompleteStep, CompleteGate, CompleteMeetup, CompletePlace,
           ReadForComplete, MarkSold
  <2> QED BY <2>1, <2>2
<1>5. ASSUME NEW s \in Slots, CancelStep(s)
      PROVE  EscrowStep
  <2>1. CASE WriteCancel(s)
    <3>1. request[s].id \in DOMAIN txn
      BY <2>1, EscrowRow DEF WriteCancel, At, StepsOfListing, StepsOfRoom
    <3>2. Received' = Received /\ Released' = Released
      BY <2>1 DEF WriteCancel, Received, Released
    <3> QED BY <2>1, <3>1, <3>2, EscrowStatusStep DEF WriteCancel
  <2>2. CASE ~WriteCancel(s)
    BY <1>5, <2>2, EscrowTablesKept
       DEF CancelStep, ReadForCancel, ChargePenalty, ReadDeal, ClearDeal
  <2> QED BY <2>1, <2>2
<1>6. ASSUME NEW t \in TxnIds, MarkReceived(t)
      PROVE  EscrowStep
  <2>1. /\ t \in DOMAIN safePayment
        /\ t \in DOMAIN txn
        /\ txn[t].kind = "SAFE_PAYMENT"
        /\ safePayment' = [safePayment EXCEPT ![t].isVerified = TRUE]
        /\ txn' = [txn EXCEPT ![t].status = "SAFE_PAYMENT_RECEIVED"]
        /\ txn \in [DOMAIN txn -> Txn]
        /\ safePayment \in [DOMAIN safePayment -> SafePayment]
    BY <1>6 DEF MarkReceived, SetStatus, Inv, TypeOK, RowsInv
  <2>2. Received' = Received \cup {t} /\ Released' = Released
    BY <2>1 DEF Received, Released, SafePayment
  <2>3. Held' = Held /\ Confirmed' = Confirmed /\ t \in Held
    BY <2>1 DEF Held, Confirmed, Txn
  <2>4. Escrow!Receive(t)
    BY <2>2, <2>3 DEF Escrow!Receive
  <2> QED BY <1>6, <2>4 DEF EscrowStep, Escrow!Next
<1>7. ASSUME \/ \E r \in Rooms \cup {NoRoom} : SetActiveDeal(r)
             \/ \E status \in {"ACTIVE", "SOLD"} : UpdateListing(status)
      PROVE  EscrowStep
  BY <1>7, EscrowTablesKept DEF SetActiveDeal, UpdateListing
<1>8. ASSUME NEW s \in Slots, Step(s)
      PROVE  EscrowStep
  BY <1>2, <1>3, <1>4, <1>5, <1>8, EscrowSafePaymentStep DEF Step
<1> QED BY <1>1, <1>2, <1>6, <1>7, <1>8 DEF Next

\* Whatever the interleaving of the handlers, and wherever they die, the
\* parties see the abstract life of the money.
THEOREM Refinement == Spec => ImplementsEscrow
<1>1. Init => Escrow!Init
  BY DEF Init, Escrow!Init, Held, Received, Confirmed, Released
<1>2. Inv /\ [Next]_vars => [Escrow!Next]_Escrow!vars
  BY NextEscrow DEF EscrowStep
<1> QED BY <1>1, <1>2, Invariance, PTL DEF Spec, Escrow!Spec, ImplementsEscrow

-----------------------------------------------------------------------------
(* Requests served one at a time                                             *)

Busy(s) == ~At(s, "idle")

\* The transaction is neither confirmed nor cancelled, and not yet submitted:
\* what may be restarted or cancelled.
Unsubmitted(row) ==
    row.status \in {"INITIATED", "SAFE_PAYMENT_AWAITING_INSTRUCTION",
                    "SAFE_PAYMENT_INSTRUCTION_SENT"}

\* A trade under negotiation, or a payment on the way to its verification
OpenRow(row) == Unsubmitted(row) \/ row.status = "SAFE_PAYMENT_PENDING"

NoneLive(rows, r, kind) ==
    \A t \in DOMAIN rows :
        rows[t].room = r /\ rows[t].kind = kind => rows[t].status = "CANCELLED"

\* What the handler in flight has found is still so: nobody else wrote.
FoundOK(q, rows, charges, deal) ==
    /\ q.step = "start.create" => NoneLive(rows, q.room, "DIRECT_TRADE")
    /\ q.step = "request.create" => NoneLive(rows, q.room, "SAFE_PAYMENT")
    /\ q.step \in {"request.reset", "cancel.read", "cancel.write"} =>
          Unsubmitted(rows[q.id])
    /\ q.step \in {"request.attach", "instruct.write"} =>
          rows[q.id].status = "SAFE_PAYMENT_AWAITING_INSTRUCTION"
    /\ q.step \in {"submit.read", "submit.status"} =>
          rows[q.id].status = "SAFE_PAYMENT_INSTRUCTION_SENT"
    /\ q.step = "submit.payer" => rows[q.id].status = "SAFE_PAYMENT_PENDING"
    /\ q.step \in StepsOfComplete \ {"complete.gate"} =>
          (rows[q.id].kind = "DIRECT_TRADE" =>
              NoneLive(rows, rows[q.id].room, "SAFE_PAYMENT"))
    /\ q.step = "complete.write" => q.seen = rows[q.id].completedBy
    /\ q.step = "cancel.charge" =>
          charges[q.id] = 0 /\ rows[q.id].status = "CANCELLED"
    /\ q.step = "cancel.clear" => deal = rows[q.id].room

\* What is true of each row, and of each safe payment and its transaction
LoneRow(row, charges) ==
    /\ row.kind = "SAFE_PAYMENT" => row.status # "INITIATED"
    /\ row.completedBy = Party => row.completedAt
    /\ charges \in {0, 1}
    /\ OpenRow(row) => charges = 0

QueuedRow(payment, row) ==
    ~payment.isVerified =>
        /\ payment.paid => row.status = "SAFE_PAYMENT_PENDING"
        /\ \/ payment.instructed
           \/ row.status \in {"CANCELLED", "SAFE_PAYMENT_AWAITING_INSTRUCTION"}

Rivals(row, other) ==
    /\ row.room = other.room /\ row.kind = other.kind
    /\ OpenRow(row) /\ OpenRow(other)

LoneRows ==
    /\ \A t \in TxnIds \ DOMAIN txn : charged[t] = 0
    /\ \A t \in DOMAIN txn : LoneRow(txn[t], charged[t])
    /\ \A t \in DOMAIN safePayment : QueuedRow(safePayment[t], txn[t])
    /\ \A t, u \in DOMAIN txn : Rivals(txn[t], txn[u]) => t = u

\* The inductive invariant of the requests that are served one at a time
OneInv ==
    /\ Inv
    /\ LoneRows
    /\ \A s, t \in Slots : Busy(s) /\ Busy(t) => s = t
    /\ \A s \in Slots : FoundOK(request[s], txn, charged, listing.activeDeal)

\* It implies the properties of the run.
LEMMA OneInvImplies ==
    OneInv => /\ BothConfirmedIsCompleted
              /\ ChargedAtMostOnce
              /\ PaymentIsQueued
              /\ OneOpenTransaction
<1> SUFFICES ASSUME OneInv
             PROVE  /\ BothConfirmedIsCompleted
                    /\ ChargedAtMostOnce
                    /\ PaymentIsQueued
                    /\ OneOpenTransaction
  OBVIOUS
<1>0. DOMAIN safePayment \subseteq DOMAIN txn
  BY DEF OneInv, Inv, TypeOK
<1>1. BothConfirmedIsCompleted
  BY DEF OneInv, LoneRows, LoneRow, BothConfirmedIsCompleted
<1>2. ChargedAtMostOnce
  <2>1. \A t \in TxnIds : charged[t] \in {0, 1}
    BY DEF OneInv, LoneRows, LoneRow
  <2> QED BY <2>1 DEF ChargedAtMostOnce
<1>3. PaymentIsQueued
  BY <1>0 DEF OneInv, LoneRows, QueuedRow, PaymentIsQueued, PendingPayments,
              AwaitingInstruction
<1>4. OneOpenTransaction
  BY DEF OneInv, LoneRows, Rivals, OpenRow, Unsubmitted, OneOpenTransaction,
         OneOpenPerRoom
<1> QED BY <1>1, <1>2, <1>3, <1>4

\* A handler continues with q: what it has found is as it says, and the other
\* handlers have not begun.
LEMMA OneHandlerStep ==
    ASSUME OneInv, Inv', NEW s \in Slots, NEW q, Continue(s, q),
           \A r \in Slots \ {s} : ~Busy(r),
           LoneRows', FoundOK(q, txn', charged', listing'.activeDeal)
    PROVE  OneInv'
<1>1. /\ request'[s] = q
      /\ \A r \in Slots \ {s} : request'[r] = request[r]
  BY DEF Continue, OneInv, Inv, TypeOK
<1>2. \A r, t \in Slots : Busy(r)' /\ Busy(t)' => r = t
  BY <1>1 DEF Busy, At
<1>3. ASSUME NEW r \in Slots \ {s}
      PROVE  FoundOK(request'[r], txn', charged', listing'.activeDeal)
  BY <1>1, <1>3 DEF Busy, At, FoundOK, StepsOfComplete
<1> QED BY <1>1, <1>2, <1>3 DEF OneInv

\* The step writes no row that the invariant is about.
LEMMA OneReadStep ==
    ASSUME OneInv, Inv', NEW s \in Slots, NEW q, Continue(s, q),
           \A r \in Slots \ {s} : ~Busy(r),
           UNCHANGED <<txn, safePayment, charged>>,
           FoundOK(q, txn, charged, listing'.activeDeal)
    PROVE  OneInv'
<1>1. LoneRows'
  BY DEF OneInv, LoneRows
<1> QED BY <1>1, OneHandlerStep

\* A handler that ends has found nothing.
LEMMA OneEndStep ==
    ASSUME OneInv, Inv', NEW s \in Slots, Finish(s),
           \A r \in Slots \ {s} : ~Busy(r),
           UNCHANGED <<txn, safePayment, charged>>
    PROVE  OneInv'
<1>1. FoundOK(Idle, txn, charged, listing'.activeDeal)
  BY DEF Idle, FoundOK, StepsOfComplete
<1> QED BY <1>1, OneReadStep DEF Finish

\* One row is written, it is not opened again, and its safe payment stays in
\* the admin's lists.
LEMMA LoneRowWritten ==
    ASSUME Inv, LoneRows, NEW t \in DOMAIN txn, NEW row,
           txn' = [txn EXCEPT ![t] = row],
           row.room = txn[t].room, row.kind = txn[t].kind,
           OpenRow(row) => OpenRow(txn[t]),
           LoneRow(row, charged[t]),
           UNCHANGED charged,
           DOMAIN safePayment \subseteq DOMAIN safePayment',
           DOMAIN safePayment' \subseteq DOMAIN safePayment \cup {t},
           \A u \in DOMAIN safePayment \ {t} : safePayment'[u] = safePayment[u],
           t \in DOMAIN safePayment' => QueuedRow(safePayment'[t], row)
    PROVE  LoneRows'
<1>1. /\ DOMAIN txn' = DOMAIN txn
      /\ txn'[t] = row
      /\ \A u \in DOMAIN txn \ {t} : txn'[u] = txn[u]
      /\ DOMAIN safePayment \subseteq DOMAIN txn
  BY DEF Inv, TypeOK
<1>2. \A u \in DOMAIN txn' : LoneRow(txn'[u], charged'[u])
  BY <1>1 DEF LoneRows
<1>3. \A u \in DOMAIN safePayment' : QueuedRow(safePayment'[u], txn'[u])
  BY <1>1 DEF LoneRows
<1>4. \A u, v \in DOMAIN txn' : Rivals(txn'[u], txn'[v]) => u = v
  <2>1. \A u \in DOMAIN txn :
           /\ txn'[u].room = txn[u].room
           /\ txn'[u].kind = txn[u].kind
           /\ OpenRow(txn'[u]) => OpenRow(txn[u])
    BY <1>1
  <2> QED BY <1>1, <2>1 DEF LoneRows, Rivals
<1> QED BY <1>1, <1>2, <1>3, <1>4 DEF LoneRows

\* A transaction is created in a room that has no live one of its kind.
LEMMA LoneRowCreated ==
    ASSUME Inv, LoneRows, NEW t \in TxnIds, DOMAIN txn = 1..(t - 1),
           NEW r, NEW kind, NEW status,
           \/ kind = "DIRECT_TRADE" /\ status = "INITIATED"
           \/ /\ kind = "SAFE_PAYMENT"
              /\ status = "SAFE_PAYMENT_AWAITING_INSTRUCTION",
           NoneLive(txn, r, kind),
           txn' = WithRow(txn, t, NewTxn(r, kind, status)),
           UNCHANGED <<safePayment, charged>>
    PROVE  LoneRows'
<1> DEFINE row == NewTxn(r, kind, status)
<1>1. t \notin DOMAIN txn /\ DOMAIN safePayment \subseteq DOMAIN txn
  BY BoundAssumption DEF TxnIds, Inv, TypeOK
<1>2. /\ DOMAIN txn' = DOMAIN txn \cup {t}
      /\ txn'[t] = row
      /\ \A u \in DOMAIN txn : txn'[u] = txn[u]
  BY <1>1 DEF WithRow
<1>3. row.room = r /\ row.kind = kind /\ row.status = status /\ row.completedBy = {}
  BY DEF NewTxn
<1>4. LoneRow(row, charged[t])
  BY <1>1, <1>3 DEF LoneRow, LoneRows, Party
<1>5. \A u \in DOMAIN txn : ~Rivals(txn[u], row) /\ ~Rivals(row, txn[u])
  BY <1>3 DEF NoneLive, Rivals, OpenRow, Unsubmitted
<1> QED BY <1>1, <1>2, <1>4, <1>5 DEF LoneRows

\* The latest row is there only if there is one.
LEMMA NoneLiveRows ==
    ASSUME NEW r, NEW kind, Live(r, kind, {"CANCELLED"}) = {}
    PROVE  NoneLive(txn, r, kind)
BY DEF Live, NoneLive

\* A request begins while no other is served.
LEMMA OneBegin ==
    ASSUME OneInv, Inv', NEW s \in Slots, Begin(s), \A r \in Slots : ~Busy(r)
    PROVE  OneInv'
<1> USE DEF StepsOfComplete
<1>1. ASSUME NEW q, Continue(s, q),
             UNCHANGED <<txn, safePayment, meetup, listing, charged>>,
             FoundOK(q, txn, charged, listing.activeDeal)
      PROVE  OneInv'
  BY <1>1, OneReadStep
<1>2. CASE BeginDelete(s)
  BY <1>1, <1>2 DEF BeginDelete, FoundOK
<1>3. CASE DirectTradeRoutes(s)
  BY <1>1, <1>3 DEF DirectTradeRoutes, BeginStart, BeginMeeting, FoundOK
<1>4. CASE SafePaymentRoutes(s)
  BY <1>1, <1>4 DEF SafePaymentRoutes, BeginRequest, BeginSubmit, MaySubmit, FoundOK
<1>5. CASE AdminRoutes(s)
  BY <1>1, <1>5 DEF AdminRoutes, ReadForInstruction, BeginTransfer, FoundOK
<1>6. ASSUME NEW t \in TxnIds, BeginCancel(s, t)
      PROVE  OneInv'
  <2>1. t \in DOMAIN txn /\ RowOK(t, txn[t], safePayment) /\ txn[t] \in Txn
    BY <1>6, RowByRow DEF BeginCancel, OneInv, Inv, TypeOK, RowsOK, AllRowsOK
  <2>2. Unsubmitted(txn[t])
    BY <1>6, <2>1 DEF BeginCancel, Cancellable, RowOK, ClosedForMeetup,
       NonCancellable, Unsubmitted, Txn, TransactionType
  <2> QED BY <1>1, <1>6, <2>2 DEF BeginCancel, FoundOK
<1>7. ASSUME NEW t \in TxnIds, NEW p \in Party, BeginComplete(s, t, p)
      PROVE  OneInv'
  BY <1>1, <1>7 DEF BeginComplete, FoundOK
<1> QED BY <1>2, <1>3, <1>4, <1>5, <1>6, <1>7 DEF Begin, TransactionRoutes

\* What the handler in flight finds
LEMMA OneBusy ==
    ASSUME OneInv, NEW s \in Slots, Busy(s)
    PROVE  /\ \A r \in Slots \ {s} : ~Busy(r)
           /\ request[s] \in Request
           /\ RequestOK(request[s], txn, safePayment)
           /\ FoundOK(request[s], txn, charged, listing.activeDeal)
           /\ request[s].step \notin StepsOfListing \cup StepsOfRoom =>
                 /\ request[s].id \in DOMAIN txn
                 /\ request[s].id \in TxnIds
                 /\ txn[request[s].id] \in Txn
                 /\ RowOK(request[s].id, txn[request[s].id], safePayment)
                 /\ LoneRow(txn[request[s].id], charged[request[s].id])
                 /\ request[s].id \in DOMAIN safePayment =>
                       /\ safePayment[request[s].id] \in SafePayment
                       /\ QueuedRow(safePayment[request[s].id],
                                    txn[request[s].id])
<1>1. \A r \in Slots \ {s} : ~Busy(r)
  BY DEF OneInv
<1>2. /\ request[s] \in Request
      /\ RequestOK(request[s], txn, safePayment)
      /\ FoundOK(request[s], txn, charged, listing.activeDeal)
  BY DEF OneInv, Inv, TypeOK
<1>3. ASSUME request[s].step \notin StepsOfListing \cup StepsOfRoom
      PROVE  request[s].id \in DOMAIN txn
  BY <1>2, <1>3 DEF RequestOK
<1> QED BY <1>1, <1>2, <1>3, RowByRow
        DEF OneInv, Inv, TypeOK, RowsOK, AllRowsOK, LoneRows

\* Direct trade: the room of a new trade has no live one.
LEMMA OneDirectTrade ==
    ASSUME OneInv, Inv', NEW s \in Slots, DirectTradeStep(s)
    PROVE  OneInv'
<1> USE DEF StepsOfListing, StepsOfRoom, StepsOfComplete
<1>0. Busy(s)
  BY DEF DirectTradeStep, StartCheck, StartFind, StartCreate, StartUpsert,
         WriteMeeting, Busy, At
<1>1. ASSUME NEW q, Continue(s, q), UNCHANGED <<txn, safePayment, charged>>,
             UNCHANGED listing, FoundOK(q, txn, charged, listing.activeDeal)
      PROVE  OneInv'
  BY <1>0, <1>1, OneBusy, OneReadStep
<1>2. CASE Finish(s) /\ UNCHANGED <<txn, safePayment, charged>>
  BY <1>0, <1>2, OneBusy, OneEndStep
<1>3. CASE StartCheck(s)
  BY <1>1, <1>2, <1>3 DEF StartCheck, FoundOK
<1>4. CASE StartFind(s)
  BY <1>1, <1>4, NoneLiveRows DEF StartFind, FoundOK
<1>5. CASE StartCreate(s)
  <2>1. PICK t \in TxnIds :
           /\ DOMAIN txn = 1..(t - 1)
           /\ txn' = WithRow(txn, t,
                             NewTxn(request[s].room, "DIRECT_TRADE", "INITIATED"))
           /\ Continue(s, [step |-> "start.upsert", id |-> t])
    BY <1>5 DEF StartCreate, Create
  <2>2. NoneLive(txn, request[s].room, "DIRECT_TRADE")
    BY <1>0, <1>5, OneBusy DEF StartCreate, At, FoundOK
  <2>3. LoneRows'
    BY <1>5, <2>1, <2>2, LoneRowCreated DEF StartCreate, OneInv
  <2>4. FoundOK([step |-> "start.upsert", id |-> t], txn', charged',
                listing'.activeDeal)
    BY DEF FoundOK
  <2> QED BY <1>0, <2>1, <2>3, <2>4, OneBusy, OneHandlerStep
<1>6. CASE StartUpsert(s) \/ WriteMeeting(s)
  BY <1>2, <1>6 DEF StartUpsert, WriteMeeting
<1> QED BY <1>3, <1>4, <1>5, <1>6 DEF DirectTradeStep

\* Confirmation: the flags that the block reads are those that it writes over.
LEMMA OneComplete ==
    ASSUME OneInv, Inv', NEW s \in Slots, CompleteStep(s)
    PROVE  OneInv'
<1> USE DEF StepsOfListing, StepsOfRoom, StepsOfComplete
<1> DEFINE t == request[s].id
           p == request[s].party
<1>0. Busy(s)
  BY DEF CompleteStep, CompleteGate, CompleteMeetup, CompletePlace,
         ReadForComplete, WriteComplete, MarkSold, Busy, At
<1>1. ASSUME NEW q, Continue(s, q), UNCHANGED <<txn, safePayment, charged>>,
             UNCHANGED listing, FoundOK(q, txn, charged, listing.activeDeal)
      PROVE  OneInv'
  BY <1>0, <1>1, OneBusy, OneReadStep
<1>2. CASE Finish(s) /\ UNCHANGED <<txn, safePayment, charged>>
  BY <1>0, <1>2, OneBusy, OneEndStep
<1>3. CASE CompleteGate(s)
  <2>1. CASE Live(txn[t].room, "SAFE_PAYMENT", {"CANCELLED"}) = {}
    <3>1. [request[s] EXCEPT !.step = "complete.meetup"]
             = [step |-> "complete.meetup", id |-> t, party |-> p]
      BY <1>0, <1>3, OneBusy DEF CompleteGate, At, Request, Idle
    <3>2. FoundOK([step |-> "complete.meetup", id |-> t, party |-> p],
                  txn, charged, listing.activeDeal)
      BY <2>1, NoneLiveRows DEF FoundOK
    <3> QED BY <1>1, <1>3, <2>1, <3>1, <3>2 DEF CompleteGate
  <2>2. CASE Live(txn[t].room, "SAFE_PAYMENT", {"CANCELLED"}) # {}
    BY <1>2, <1>3, <2>2 DEF CompleteGate
  <2> QED BY <2>1, <2>2
<1>4. ASSUME request[s].step \in StepsOfComplete \ {"complete.gate"}
      PROVE  txn[t].kind = "DIRECT_TRADE" =>
                NoneLive(txn, txn[t].room, "SAFE_PAYMENT")
  BY <1>0, <1>4, OneBusy DEF FoundOK
<1>5. CASE CompleteMeetup(s)
  <2>1. [request[s] EXCEPT !.step = "complete.read"]
             = [step |-> "complete.read", id |-> t, party |-> p]
    BY <1>0, <1>5, OneBusy DEF CompleteMeetup, At, Request, Idle
  <2>2. \A d : FoundOK([step |-> "complete.place", id |-> t, party |-> p,
                        trade |-> d], txn, charged, listing.activeDeal)
    BY <1>4, <1>5 DEF CompleteMeetup, At, FoundOK
  <2>3. FoundOK([step |-> "complete.read", id |-> t, party |-> p],
                txn, charged, listing.activeDeal)
    BY <1>4, <1>5 DEF CompleteMeetup, At, FoundOK
  <2> QED BY <1>1, <1>5, <2>1, <2>2, <2>3 DEF CompleteMeetup
<1>6. CASE CompletePlace(s)
  <2>1. FoundOK([step |-> "complete.read", id |-> t, party |-> p],
                txn, charged, listing.activeDeal)
    BY <1>4, <1>6 DEF CompletePlace, At, FoundOK
  <2> QED BY <1>1, <1>2, <1>6, <2>1 DEF CompletePlace
<1>7. CASE ReadForComplete(s)
  <2> DEFINE q == [step |-> "complete.write", id |-> t, party |-> p,
                   seen |-> txn[t].completedBy]
  <2>1. FoundOK(q, txn, charged, listing.activeDeal)
    BY <1>4, <1>7 DEF ReadForComplete, At, FoundOK
  <2> QED BY <1>1, <1>7, <2>1 DEF ReadForComplete
<1>8. CASE WriteComplete(s)
  <2> DEFINE row == Completed(txn[t], p, request[s].seen)
  <2>1. /\ t \in DOMAIN txn
        /\ txn[t] \in Txn
        /\ p \in Party
        /\ request[s].seen = txn[t].completedBy
        /\ txn[t].kind = "SAFE_PAYMENT" => Verified(safePayment, t)
        /\ LoneRow(txn[t], charged[t])
    BY <1>0, <1>8, OneBusy, RequestFields
       DEF WriteComplete, At, FoundOK, RequestOK
  <2>2. /\ row.room = txn[t].room
        /\ row.kind = txn[t].kind
        /\ row = txn[t] \/ row.status \in NonCancellable
        /\ row.completedBy = Party => row.completedAt
    BY <2>1 DEF Completed, Txn, CompletedBy, Party, NonCancellable, LoneRow
  <2>3. OpenRow(row) => OpenRow(txn[t])
    BY <2>2 DEF OpenRow, Unsubmitted, NonCancellable
  <2>4. LoneRow(row, charged[t])
    BY <2>1, <2>2, <2>3 DEF LoneRow, NonCancellable
  <2>5. t \in DOMAIN safePayment => safePayment[t].isVerified
    BY <2>1 DEF Verified, OneInv, Inv, RowsInv
  <2>6. LoneRows'
    BY <1>8, <2>1, <2>2, <2>3, <2>4, <2>5, LoneRowWritten
       DEF WriteComplete, OneInv, QueuedRow
  <2>7. PICK q \in {Idle, [step |-> "complete.sell"]} : Continue(s, q)
    BY <1>8 DEF WriteComplete, Finish
  <2>8. FoundOK(q, txn', charged', listing'.activeDeal)
    BY DEF FoundOK, Idle
  <2> QED BY <1>0, <2>6, <2>7, <2>8, OneBusy, OneHandlerStep
<1>9. CASE MarkSold(s)
  BY <1>2, <1>9 DEF MarkSold
<1> QED BY <1>3, <1>5, <1>6, <1>7, <1>8, <1>9 DEF CompleteStep

\* Cancellation: only what nobody has submitted, confirmed or cancelled is
\* cancelled, and only what was open is charged.
LEMMA OneCancel ==
    ASSUME OneInv, Inv', NEW s \in Slots, CancelStep(s)
    PROVE  OneInv'
<1> USE DEF StepsOfListing, StepsOfRoom, StepsOfComplete
<1> DEFINE t == request[s].id
<1>0. Busy(s) /\ request[s].step \notin StepsOfListing \cup StepsOfRoom
  BY DEF CancelStep, ReadForCancel, WriteCancel, ChargePenalty, ReadDeal,
         ClearDeal, Busy, At
<1>1. ASSUME NEW q, Continue(s, q), UNCHANGED <<txn, safePayment, charged>>,
             UNCHANGED listing, FoundOK(q, txn, charged, listing.activeDeal)
      PROVE  OneInv'
  BY <1>0, <1>1, OneBusy, OneReadStep
<1>2. CASE Finish(s) /\ UNCHANGED <<txn, safePayment, charged>>
  BY <1>0, <1>2, OneBusy, OneEndStep
<1>3. CASE ReadForCancel(s)
  <2>1. FoundOK([step |-> "cancel.write", id |-> t], txn, charged,
                listing.activeDeal)
    BY <1>0, <1>3, OneBusy DEF ReadForCancel, At, FoundOK
  <2> QED BY <1>1, <1>2, <1>3, <2>1 DEF ReadForCancel
<1>4. CASE WriteCancel(s)
  <2> DEFINE row == [txn[t] EXCEPT !.status = "CANCELLED"]
  <2>1. /\ t \in DOMAIN txn
        /\ txn[t] \in Txn
        /\ Unsubmitted(txn[t])
        /\ LoneRow(txn[t], charged[t])
        /\ t \in DOMAIN safePayment => QueuedRow(safePayment[t], txn[t])
    BY <1>0, <1>4, OneBusy DEF WriteCancel, At, FoundOK
  <2>2. /\ row.room = txn[t].room
        /\ row.kind = txn[t].kind
        /\ row.completedBy = txn[t].completedBy
        /\ row.completedAt = txn[t].completedAt
        /\ row.status = "CANCELLED"
    BY <2>1 DEF Txn
  <2>3. ~OpenRow(row)
    BY <2>2 DEF OpenRow, Unsubmitted
  <2>4. LoneRow(row, charged[t]) /\ charged[t] = 0
    BY <2>1, <2>2, <2>3 DEF LoneRow, OpenRow
  <2>5. t \in DOMAIN safePayment => QueuedRow(safePayment[t], row)
    BY <2>1, <2>2 DEF QueuedRow, Unsubmitted
  <2>6. txn' = [txn EXCEPT ![t] = row] /\ UNCHANGED <<safePayment, charged>>
    BY <1>4 DEF WriteCancel, SetStatus
  <2>7. LoneRows'
    BY <2>1, <2>2, <2>3, <2>4, <2>5, <2>6, LoneRowWritten DEF OneInv
  <2>8. FoundOK([step |-> "cancel.charge", id |-> t], txn', charged',
                listing'.activeDeal)
    BY <2>1, <2>2, <2>4, <2>6 DEF FoundOK
  <2> QED BY <1>0, <1>4, <2>7, <2>8, OneBusy, OneHandlerStep DEF WriteCancel
<1>5. CASE ChargePenalty(s)
  <2>1. /\ t \in DOMAIN txn
        /\ t \in TxnIds
        /\ charged[t] = 0 /\ txn[t].status = "CANCELLED"
        /\ LoneRow(txn[t], charged[t])
        /\ charged \in [TxnIds -> 0..2]
    BY <1>0, <1>5, OneBusy
       DEF ChargePenalty, At, FoundOK, OneInv, Inv, TypeOK
  <2>2. charged' = [charged EXCEPT ![t] = 1]
    BY <1>5, <2>1 DEF ChargePenalty
  <2>3. LoneRow(txn[t], charged'[t])
    BY <2>1, <2>2 DEF LoneRow, OpenRow, Unsubmitted
  <2>4. LoneRows'
    BY <1>5, <2>1, <2>2, <2>3 DEF ChargePenalty, OneInv, LoneRows
  <2>5. FoundOK([step |-> "cancel.deal", id |-> t], txn', charged',
                listing'.activeDeal)
    BY DEF FoundOK
  <2> QED BY <1>0, <1>5, <2>4, <2>5, OneBusy, OneHandlerStep DEF ChargePenalty
<1>6. CASE ReadDeal(s)
  <2>1. CASE listing.activeDeal = txn[t].room
    <3>1. FoundOK([step |-> "cancel.clear", id |-> t], txn, charged,
                  listing.activeDeal)
      BY <2>1 DEF FoundOK
    <3> QED BY <1>1, <1>6, <2>1, <3>1 DEF ReadDeal
  <2>2. CASE listing.activeDeal # txn[t].room
    BY <1>2, <1>6, <2>2 DEF ReadDeal
  <2> QED BY <2>1, <2>2
<1>7. CASE ClearDeal(s)
  BY <1>2, <1>7 DEF ClearDeal
<1> QED BY <1>3, <1>4, <1>5, <1>6, <1>7 DEF CancelStep

\* Safe payment: one row per room is on its way, and the admin's lists have it.
LEMMA OneSafePayment ==
    ASSUME OneInv, Inv', NEW s \in Slots, SafePaymentStep(s)
    PROVE  OneInv'
<1> USE DEF StepsOfListing, StepsOfRoom, StepsOfComplete
<1> DEFINE t == request[s].id
<1>0. Busy(s)
  BY DEF SafePaymentStep, FindActive, CreateSafePayment, ResetSafePayment,
         AttachSafePayment, WriteInstruction, ReadForSubmit, WriteSubmitStatus,
         WriteSubmitPayer, WriteTransfer, Busy, At
<1>1. ASSUME NEW q, Continue(s, q), UNCHANGED <<txn, safePayment, charged>>,
             UNCHANGED listing, FoundOK(q, txn, charged, listing.activeDeal)
      PROVE  OneInv'
  BY <1>0, <1>1, OneBusy, OneReadStep
<1>2. CASE Finish(s) /\ UNCHANGED <<txn, safePayment, charged>>
  BY <1>0, <1>2, OneBusy, OneEndStep
<1>3. ASSUME LoneRows', Finish(s)
      PROVE  OneInv'
  <2>1. FoundOK(Idle, txn', charged', listing'.activeDeal)
    BY DEF FoundOK, Idle
  <2> QED BY <1>0, <1>3, <2>1, OneBusy, OneHandlerStep DEF Finish
<1>4. ASSUME request[s].step \notin StepsOfListing \cup StepsOfRoom
      PROVE  /\ t \in DOMAIN txn
             /\ txn[t] \in Txn
             /\ LoneRow(txn[t], charged[t])
             /\ t \in DOMAIN safePayment =>
                   /\ safePayment[t] \in SafePayment
                   /\ QueuedRow(safePayment[t], txn[t])
             /\ FoundOK(request[s], txn, charged, listing.activeDeal)
             /\ RequestOK(request[s], txn, safePayment)
  BY <1>0, <1>4, OneBusy
<1>5. CASE FindActive(s)
  <2>1. CASE /\ Live(request[s].room, "SAFE_PAYMENT", {"CANCELLED"}) = {}
             /\ Continue(s, [step |-> "request.create",
                             room |-> request[s].room])
    <3>1. FoundOK([step |-> "request.create", room |-> request[s].room],
                  txn, charged, listing.activeDeal)
      BY <2>1, NoneLiveRows DEF FoundOK
    <3> QED BY <1>1, <1>5, <2>1, <3>1 DEF FindActive
  <2>2. ASSUME NEW u \in DOMAIN txn,
               IsLatest(u, request[s].room, "SAFE_PAYMENT", {"CANCELLED"}),
               txn[u].status \notin BlockedAfterSubmit,
               Continue(s, [step |-> "request.reset", id |-> u])
        PROVE  OneInv'
    <3>1. /\ txn[u] \in Txn
          /\ LoneRow(txn[u], charged[u])
          /\ txn[u].kind = "SAFE_PAYMENT" /\ txn[u].status # "CANCELLED"
      BY <2>2 DEF OneInv, Inv, TypeOK, LoneRows, IsLatest, Live
    <3>2. Unsubmitted(txn[u])
      BY <2>2, <3>1 DEF Txn, TransactionStatus, LoneRow, BlockedAfterSubmit,
         SafePaymentCompletable, Unsubmitted
    <3>3. FoundOK([step |-> "request.reset", id |-> u], txn, charged,
                  listing.activeDeal)
      BY <3>2 DEF FoundOK
    <3> QED BY <1>1, <1>5, <2>2, <3>3 DEF FindActive
  <2> QED BY <1>2, <1>5, <2>1, <2>2 DEF FindActive
<1>6. CASE CreateSafePayment(s)
  <2>1. PICK u \in TxnIds :
           /\ DOMAIN txn = 1..(u - 1)
           /\ txn' = WithRow(txn, u,
                             NewTxn(request[s].room, "SAFE_PAYMENT",
                                    "SAFE_PAYMENT_AWAITING_INSTRUCTION"))
           /\ Continue(s, [step |-> "request.attach", id |-> u])
    BY <1>6 DEF CreateSafePayment, Create
  <2>2. NoneLive(txn, request[s].room, "SAFE_PAYMENT")
    BY <1>0, <1>6, OneBusy DEF CreateSafePayment, At, FoundOK
  <2>3. LoneRows'
    BY <1>6, <2>1, <2>2, LoneRowCreated DEF CreateSafePayment, OneInv
  <2>4. FoundOK([step |-> "request.attach", id |-> u], txn', charged',
                listing'.activeDeal)
    BY <2>1 DEF FoundOK, WithRow, NewTxn
  <2> QED BY <1>0, <2>1, <2>3, <2>4, OneBusy, OneHandlerStep
<1>7. CASE ResetSafePayment(s)
  <2> DEFINE row == [txn[t] EXCEPT !.status = "SAFE_PAYMENT_AWAITING_INSTRUCTION"]
  <2>1. /\ t \in DOMAIN txn
        /\ txn[t] \in Txn
        /\ Unsubmitted(txn[t])
        /\ LoneRow(txn[t], charged[t])
        /\ t \in DOMAIN safePayment => QueuedRow(safePayment[t], txn[t])
    BY <1>4, <1>7 DEF ResetSafePayment, At, FoundOK
  <2>2. /\ row.room = txn[t].room
        /\ row.kind = txn[t].kind
        /\ row.completedBy = txn[t].completedBy
        /\ row.completedAt = txn[t].completedAt
        /\ row.status = "SAFE_PAYMENT_AWAITING_INSTRUCTION"
    BY <2>1 DEF Txn
  <2>3. LoneRow(row, charged[t])
    BY <2>1, <2>2 DEF LoneRow, OpenRow, Unsubmitted
  <2>4. t \in DOMAIN safePayment => QueuedRow(safePayment[t], row)
    BY <2>1, <2>2 DEF QueuedRow, Unsubmitted
  <2>5. txn' = [txn EXCEPT ![t] = row] /\ UNCHANGED <<safePayment, charged>>
    BY <1>7 DEF ResetSafePayment, SetStatus
  <2>6. LoneRows'
    BY <2>1, <2>2, <2>3, <2>4, <2>5, LoneRowWritten DEF OneInv, OpenRow
  <2>7. FoundOK([step |-> "request.attach", id |-> t], txn', charged',
                listing'.activeDeal)
    BY <2>1, <2>2, <2>5 DEF FoundOK
  <2> QED BY <1>0, <1>7, <2>6, <2>7, OneBusy, OneHandlerStep DEF ResetSafePayment
<1>8. CASE AttachSafePayment(s)
  <2>1. CASE t \in DOMAIN safePayment
    BY <1>2, <1>8, <2>1 DEF AttachSafePayment
  <2>2. CASE t \notin DOMAIN safePayment
    <3>1. /\ t \in DOMAIN txn
          /\ txn[t].status = "SAFE_PAYMENT_AWAITING_INSTRUCTION"
      BY <1>4, <1>8 DEF AttachSafePayment, At, FoundOK
    <3>2. QueuedRow(NewSafePayment, txn[t])
      BY <3>1 DEF QueuedRow, NewSafePayment
    <3>3. LoneRows'
      BY <1>8, <2>2, <3>1, <3>2
         DEF AttachSafePayment, OneInv, LoneRows, WithRow
    <3> QED BY <1>3, <1>8, <3>3 DEF AttachSafePayment
  <2> QED BY <2>1, <2>2
<1>9. CASE WriteInstruction(s)
  <2> DEFINE old == IF t \in DOMAIN safePayment THEN safePayment[t]
                    ELSE NewSafePayment
             payment == [old EXCEPT !.instructed = TRUE]
             row == [txn[t] EXCEPT !.status = "SAFE_PAYMENT_INSTRUCTION_SENT"]
  <2>1. /\ t \in DOMAIN txn
        /\ txn[t] \in Txn
        /\ txn[t].status = "SAFE_PAYMENT_AWAITING_INSTRUCTION"
        /\ LoneRow(txn[t], charged[t])
    BY <1>4, <1>9 DEF WriteInstruction, At, FoundOK
  <2>2. old \in SafePayment /\ QueuedRow(old, txn[t])
    BY <1>4, <1>9, <2>1
       DEF WriteInstruction, At, NewSafePayment, SafePayment, QueuedRow
  <2>3. /\ payment.instructed
        /\ payment.paid = old.paid
        /\ payment.isVerified = old.isVerified
    BY <2>2 DEF SafePayment
  <2>4. /\ row.room = txn[t].room
        /\ row.kind = txn[t].kind
        /\ row.completedBy = txn[t].completedBy
        /\ row.completedAt = txn[t].completedAt
        /\ row.status = "SAFE_PAYMENT_INSTRUCTION_SENT"
    BY <2>1 DEF Txn
  <2>5. LoneRow(row, charged[t]) /\ OpenRow(txn[t])
    BY <2>1, <2>4 DEF LoneRow, OpenRow, Unsubmitted
  <2>6. QueuedRow(payment, row)
    BY <2>1, <2>2, <2>3, <2>4 DEF QueuedRow
  <2>7. /\ txn' = [txn EXCEPT ![t] = row]
        /\ safePayment' = WithRow(safePayment, t, payment)
        /\ UNCHANGED charged
    BY <1>9 DEF WriteInstruction, SetStatus
  <2>8. LoneRows'
    BY <2>1, <2>4, <2>5, <2>6, <2>7, LoneRowWritten DEF OneInv, WithRow
  <2> QED BY <1>3, <1>9, <2>8 DEF WriteInstruction
<1>10. CASE ReadForSubmit(s)
  <2>1. CASE MaySubmit(t)
    <3>1. FoundOK([step |-> "submit.status", id |-> t], txn, charged,
                  listing.activeDeal)
      BY <2>1 DEF FoundOK, MaySubmit
    <3> QED BY <1>1, <1>10, <2>1, <3>1 DEF ReadForSubmit
  <2>2. CASE ~MaySubmit(t)
    BY <1>2, <1>10, <2>2 DEF ReadForSubmit
  <2> QED BY <2>1, <2>2
<1>11. CASE WriteSubmitStatus(s)
  <2> DEFINE row == [txn[t] EXCEPT !.status = "SAFE_PAYMENT_PENDING"]
  <2>1. /\ t \in DOMAIN txn
        /\ txn[t] \in Txn
        /\ txn[t].status = "SAFE_PAYMENT_INSTRUCTION_SENT"
        /\ LoneRow(txn[t], charged[t])
        /\ t \in DOMAIN safePayment /\ safePayment[t].instructed
    BY <1>4, <1>11 DEF WriteSubmitStatus, At, FoundOK, RequestOK
  <2>2. /\ row.room = txn[t].room
        /\ row.kind = txn[t].kind
        /\ row.completedBy = txn[t].completedBy
        /\ row.completedAt = txn[t].completedAt
        /\ row.status = "SAFE_PAYMENT_PENDING"
    BY <2>1 DEF Txn
  <2>3. LoneRow(row, charged[t]) /\ OpenRow(txn[t])
    BY <2>1, <2>2 DEF LoneRow, OpenRow, Unsubmitted
  <2>4. QueuedRow(safePayment[t], row)
    BY <2>1, <2>2 DEF QueuedRow
  <2>5. txn' = [txn EXCEPT ![t] = row] /\ UNCHANGED <<safePayment, charged>>
    BY <1>11 DEF WriteSubmitStatus, SetStatus
  <2>6. LoneRows'
    BY <2>1, <2>2, <2>3, <2>4, <2>5, LoneRowWritten DEF OneInv
  <2>7. FoundOK([step |-> "submit.payer", id |-> t], txn', charged',
                listing'.activeDeal)
    BY <2>1, <2>2, <2>5 DEF FoundOK
  <2> QED BY <1>0, <1>11, <2>6, <2>7, OneBusy, OneHandlerStep
          DEF WriteSubmitStatus
<1>12. CASE WriteSubmitPayer(s)
  <2>1. /\ t \in DOMAIN txn
        /\ txn[t].status = "SAFE_PAYMENT_PENDING"
        /\ t \in DOMAIN safePayment
        /\ safePayment[t] \in SafePayment
        /\ safePayment[t].instructed
    BY <1>4, <1>12 DEF WriteSubmitPayer, At, FoundOK, RequestOK
  <2>2. /\ DOMAIN safePayment' = DOMAIN safePayment
        /\ \A u \in DOMAIN safePayment \ {t} : safePayment'[u] = safePayment[u]
        /\ safePayment'[t] = [safePayment[t] EXCEPT !.paid = TRUE]
    BY <1>12, <2>1 DEF WriteSubmitPayer, OneInv, Inv, TypeOK
  <2>3. QueuedRow(safePayment'[t], txn[t])
    BY <2>1, <2>2 DEF QueuedRow, SafePayment
  <2>4. LoneRows'
    BY <1>12, <2>2, <2>3 DEF WriteSubmitPayer, OneInv, LoneRows
  <2> QED BY <1>3, <1>12, <2>4 DEF WriteSubmitPayer
<1>13. CASE WriteTransfer(s)
  <2>1. CASE ~Verified(safePayment, t)
    BY <1>2, <1>13, <2>1 DEF WriteTransfer, Verified
  <2>2. CASE Verified(safePayment, t)
    <3> DEFINE row == [txn[t] EXCEPT !.status = "COMPLETED"]
    <3>1. /\ t \in DOMAIN txn
          /\ txn[t] \in Txn
          /\ LoneRow(txn[t], charged[t])
          /\ t \in DOMAIN safePayment
          /\ safePayment[t] \in SafePayment
          /\ safePayment[t].isVerified
      BY <1>4, <1>13, <2>2 DEF WriteTransfer, At, Verified
    <3>2. /\ txn' = [txn EXCEPT ![t] = row]
          /\ safePayment' = [safePayment EXCEPT ![t].isTransferred = TRUE]
          /\ UNCHANGED charged
      BY <1>13, <2>2 DEF WriteTransfer, Verified, SetStatus
    <3>3. /\ row.room = txn[t].room
          /\ row.kind = txn[t].kind
          /\ row.completedBy = txn[t].completedBy
          /\ row.completedAt = txn[t].completedAt
          /\ row.status = "COMPLETED"
      BY <3>1 DEF Txn
    <3>4. LoneRow(row, charged[t]) /\ ~OpenRow(row)
      BY <3>1, <3>3 DEF LoneRow, OpenRow, Unsubmitted
    <3>5. /\ DOMAIN safePayment' = DOMAIN safePayment
          /\ \A u \in DOMAIN safePayment \ {t} : safePayment'[u] = safePayment[u]
          /\ safePayment'[t].isVerified
      BY <3>1, <3>2 DEF OneInv, Inv, TypeOK, SafePayment
    <3>6. LoneRows'
      BY <3>1, <3>2, <3>3, <3>4, <3>5, LoneRowWritten DEF OneInv, QueuedRow
    <3> QED BY <1>3, <1>13, <3>6 DEF WriteTransfer
  <2> QED BY <2>1, <2>2
<1> QED BY <1>5, <1>6, <1>7, <1>8, <1>9, <1>10, <1>11, <1>12, <1>13
        DEF SafePaymentStep

\* The receipt of the money: whatever the status was, the row is not open.
LEMMA OneMarkReceived ==
    ASSUME OneInv, Inv', NEW t \in TxnIds, MarkReceived(t),
           \A s \in Slots : ~Busy(s)
    PROVE  OneInv'
<1> DEFINE row == [txn[t] EXCEPT !.status = "SAFE_PAYMENT_RECEIVED"]
<1>1. /\ t \in DOMAIN safePayment
      /\ t \in DOMAIN txn
      /\ txn[t] \in Txn
      /\ safePayment[t] \in SafePayment
      /\ LoneRow(txn[t], charged[t])
  BY DEF MarkReceived, OneInv, Inv, TypeOK, LoneRows
<1>2. /\ row.room = txn[t].room
      /\ row.kind = txn[t].kind
      /\ row.completedBy = txn[t].completedBy
      /\ row.completedAt = txn[t].completedAt
      /\ row.status = "SAFE_PAYMENT_RECEIVED"
  BY <1>1 DEF Txn
<1>3. LoneRow(row, charged[t]) /\ ~OpenRow(row)
  BY <1>1, <1>2 DEF LoneRow, OpenRow, Unsubmitted
<1>4. /\ DOMAIN safePayment' = DOMAIN safePayment
      /\ \A u \in DOMAIN safePayment \ {t} : safePayment'[u] = safePayment[u]
      /\ safePayment'[t].isVerified
      /\ txn' = [txn EXCEPT ![t] = row]
      /\ UNCHANGED charged
  BY <1>1 DEF MarkReceived, SetStatus, OneInv, Inv, TypeOK, SafePayment
<1>5. LoneRows'
  BY <1>1, <1>2, <1>3, <1>4, LoneRowWritten DEF OneInv, QueuedRow
<1>6. \A s \in Slots : /\ ~Busy(s)'
                       /\ FoundOK(request'[s], txn', charged', listing'.activeDeal)
  BY DEF MarkReceived, Busy, At, FoundOK, StepsOfComplete
<1> QED BY <1>5, <1>6 DEF OneInv

\* The two requests that change the listing only
LEMMA OneListing ==
    ASSUME OneInv, Inv', UNCHANGED <<txn, safePayment, request, charged>>,
           \A s \in Slots : ~Busy(s)
    PROVE  OneInv'
<1>1. LoneRows'
  BY DEF OneInv, LoneRows
<1>2. \A s \in Slots : /\ ~Busy(s)'
                       /\ FoundOK(request'[s], txn', charged', listing'.activeDeal)
  BY DEF Busy, At, FoundOK, StepsOfComplete
<1> QED BY <1>1, <1>2 DEF OneInv

\* No two requests at a time are still requests.
LEMMA OneIsNext == NextOneAtATime => Next
BY DEF NextOneAtATime, Next

LEMMA OneIsSpec == SpecOneAtATime => Spec
<1>1. [NextOneAtATime]_vars => [Next]_vars
  BY OneIsNext
<1> QED BY <1>1, PTL DEF SpecOneAtATime, Spec

\* Empty tables, and nobody is served
LEMMA InitOneInv == Init => OneInv
<1> SUFFICES ASSUME Init
             PROVE  OneInv
  OBVIOUS
<1>1. Inv
  BY InitInv
<1>2. LoneRows
  BY DEF Init, LoneRows
<1>3. \A s \in Slots : /\ ~Busy(s)
                       /\ FoundOK(request[s], txn, charged, listing.activeDeal)
  BY DEF Init, Idle, Busy, At, FoundOK, StepsOfComplete
<1> QED BY <1>1, <1>2, <1>3 DEF OneInv

\* Each step of the request that is served, and each new one, keeps the
\* invariant.
LEMMA NextOneInv == OneInv /\ [NextOneAtATime]_vars => OneInv'
<1> SUFFICES ASSUME OneInv, [NextOneAtATime]_vars
             PROVE  OneInv'
  OBVIOUS
<1>0. Inv'
  BY NextInv, OneIsNext DEF OneInv
<1>1. ASSUME NEW s \in Slots, Step(s)
      PROVE  OneInv'
  <2>1. CASE DeleteListing(s)
    <3>1. Busy(s)
      BY <2>1 DEF DeleteListing, Busy, At
    <3> QED BY <1>0, <2>1, <3>1, OneBusy, OneEndStep DEF DeleteListing
  <2> QED BY <1>0, <1>1, <2>1, OneDirectTrade, OneSafePayment, OneComplete,
             OneCancel DEF Step
<1>2. ASSUME NEW s \in Slots, Crash(s)
      PROVE  OneInv'
  <2>1. Busy(s)
    BY <1>2 DEF Crash, Busy
  <2> QED BY <1>0, <1>2, <2>1, OneBusy, OneEndStep DEF Crash
<1>3. CASE (\A s \in Slots : At(s, "idle")) /\ Next
  <2>1. \A s \in Slots : ~Busy(s)
    BY <1>3 DEF Busy
  <2>2. ASSUME NEW s \in Slots, Begin(s)
        PROVE  OneInv'
    BY <1>0, <2>1, <2>2, OneBegin
  <2>3. ASSUME NEW t \in TxnIds, MarkReceived(t)
        PROVE  OneInv'
    BY <1>0, <2>1, <2>3, OneMarkReceived
  <2>4. CASE \/ \E r \in Rooms \cup {NoRoom} : SetActiveDeal(r)
             \/ \E status \in {"ACTIVE", "SOLD"} : UpdateListing(status)
    BY <1>0, <2>1, <2>4, OneListing DEF SetActiveDeal, UpdateListing
  <2> QED BY <1>1, <1>2, <1>3, <2>2, <2>3, <2>4 DEF Next
<1>4. CASE UNCHANGED vars
  <2>1. LoneRows'
    BY <1>4 DEF vars, OneInv, LoneRows
  <2> QED BY <1>0, <1>4, <2>1 DEF vars, OneInv, Busy, At
<1> QED BY <1>1, <1>2, <1>3, <1>4 DEF NextOneAtATime

\* When the requests are served one at a time, what each handler has read is
\* still so when it writes.
THEOREM OneAtATime == SpecOneAtATime => []OneInv
BY InitOneInv, NextOneInv, PTL DEF SpecOneAtATime

\* Two confirmations that do not overlap complete the transaction: the second
\* one reads the flag of the first.
THEOREM CompletionHappens == SpecOneAtATime => []BothConfirmedIsCompleted
<1>1. OneInv => BothConfirmedIsCompleted
  BY OneInvImplies
<1> QED BY <1>1, OneAtATime, PTL

\* A transaction that was cancelled and charged is not opened again, so it is
\* not charged again.
THEOREM PenaltyOnce == SpecOneAtATime => []ChargedAtMostOnce
<1>1. OneInv => ChargedAtMostOnce
  BY OneInvImplies
<1> QED BY <1>1, OneAtATime, PTL

\* No request, and no death of a handler between the two writes of a
\* submission, takes unverified money off the admin's lists.
THEOREM MoneyIsQueued == SpecOneAtATime => []PaymentIsQueued
<1>1. OneInv => PaymentIsQueued
  BY OneInvImplies
<1> QED BY <1>1, OneAtATime, PTL

\* A room negotiates one trade, and pays safely once, at a time.
THEOREM OneOpen == SpecOneAtATime => []OneOpenTransaction
<1>1. OneInv => OneOpenTransaction
  BY OneInvImplies
<1> QED BY <1>1, OneAtATime, PTL

-----------------------------------------------------------------------------
(* What a step of the request that is served may not do                      *)

\* The flags of a transaction are written by the block of the confirmation.
LEMMA FlagsKept ==
    ASSUME Inv, [Next]_vars, NEW t \in DOMAIN txn,
           \A s \in Slots : ~WriteComplete(s)
    PROVE  txn'[t].completedBy = txn[t].completedBy
<1>1. CASE UNCHANGED txn
  BY <1>1
<1>2. ASSUME NEW u, NEW status, SetStatus(u, status)
      PROVE  txn'[t].completedBy = txn[t].completedBy
  BY <1>2 DEF SetStatus, Inv, TypeOK, Txn
<1>3. ASSUME NEW s \in Slots, NEW kind, NEW status, NEW step,
             Create(s, kind, status, step)
      PROVE  txn'[t].completedBy = txn[t].completedBy
  BY <1>3, BoundAssumption DEF Create, WithRow, TxnIds
<1>4. ASSUME NEW s \in Slots, Begin(s) \/ Crash(s)
      PROVE  UNCHANGED txn
  BY <1>4 DEF Begin, DirectTradeRoutes, SafePaymentRoutes, TransactionRoutes,
     AdminRoutes, Crash, BeginDelete, BeginStart, BeginRequest, BeginMeeting,
     ReadForInstruction, BeginSubmit, BeginTransfer, BeginCancel, BeginComplete
<1>5. ASSUME NEW s \in Slots, DirectTradeStep(s) \/ DeleteListing(s)
      PROVE  txn'[t].completedBy = txn[t].completedBy
  BY <1>1, <1>3, <1>5 DEF DirectTradeStep, DeleteListing, StartCheck,
     StartFind, StartCreate, StartUpsert, WriteMeeting
<1>6. ASSUME NEW s \in Slots, SafePaymentStep(s)
      PROVE  txn'[t].completedBy = txn[t].completedBy
  BY <1>1, <1>2, <1>3, <1>6 DEF SafePaymentStep, FindActive,
     CreateSafePayment, ResetSafePayment, AttachSafePayment, WriteInstruction,
     ReadForSubmit, WriteSubmitStatus, WriteSubmitPayer, WriteTransfer
<1>7. ASSUME NEW s \in Slots, CompleteStep(s) \/ CancelStep(s)
      PROVE  txn'[t].completedBy = txn[t].completedBy
  BY <1>1, <1>2, <1>7 DEF CompleteStep, CancelStep, CompleteGate,
     CompleteMeetup, CompletePlace, ReadForComplete, MarkSold, ReadForCancel,
     WriteCancel, ChargePenalty, ReadDeal, ClearDeal
<1>8. ASSUME \/ \E u \in TxnIds : MarkReceived(u)
             \/ \E r \in Rooms \cup {NoRoom} : SetActiveDeal(r)
             \/ \E status \in {"ACTIVE", "SOLD"} : UpdateListing(status)
      PROVE  txn'[t].completedBy = txn[t].completedBy
  BY <1>1, <1>2, <1>8 DEF MarkReceived, SetActiveDeal, UpdateListing
<1>9. CASE UNCHANGED vars
  BY <1>1, <1>9 DEF vars
<1> QED BY <1>1, <1>4, <1>5, <1>6, <1>7, <1>8, <1>9 DEF Next, Step

\* A direct trade is confirmed by a handler that passed the gate while the room
\* had no live safe payment; it still has none.
THEOREM GateHolds == SpecOneAtATime => DirectTradeWaitsForSafePayment
<1> DEFINE Gated ==
       \A t \in DOMAIN txn :
          /\ txn[t].kind = "DIRECT_TRADE"
          /\ txn'[t].completedBy # txn[t].completedBy
          => Live(txn[t].room, "SAFE_PAYMENT", {"CANCELLED"}) = {}
<1>1. OneInv /\ [NextOneAtATime]_vars => [Gated]_vars
  <2> SUFFICES ASSUME OneInv, [NextOneAtATime]_vars, NEW t \in DOMAIN txn,
                      txn[t].kind = "DIRECT_TRADE",
                      txn'[t].completedBy # txn[t].completedBy
               PROVE  Live(txn[t].room, "SAFE_PAYMENT", {"CANCELLED"}) = {}
    OBVIOUS
  <2>1. PICK s \in Slots : WriteComplete(s)
    BY FlagsKept, OneIsNext DEF OneInv
  <2>2. request[s].id = t
    BY <2>1 DEF WriteComplete, OneInv, Inv, TypeOK
  <2>3. NoneLive(txn, txn[t].room, "SAFE_PAYMENT")
    BY <2>1, <2>2 DEF OneInv, FoundOK, WriteComplete, At, StepsOfComplete
  <2> QED BY <2>3 DEF NoneLive, Live
<1> QED BY <1>1, OneAtATime, PTL DEF SpecOneAtATime, DirectTradeWaitsForSafePayment

\* The deal that a cancellation clears is the one that it compared with its own
\* room.
THEOREM OwnDealCleared == SpecOneAtATime => CancelClearsItsOwnDeal
<1> DEFINE Own ==
       \A s \in Slots :
          /\ At(s, "cancel.clear") /\ request'[s] = Idle
          /\ listing'.activeDeal # listing.activeDeal
          => listing.activeDeal = txn[request[s].id].room
<1>1. OneInv => Own
  BY DEF OneInv, FoundOK, At
<1> QED BY <1>1, OneAtATime, PTL DEF CancelClearsItsOwnDeal

=============================================================================
