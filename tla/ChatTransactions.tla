-------------------------- MODULE ChatTransactions --------------------------
(***************************************************************************)
(* The transactions of one listing: direct trades and safe payments, opened *)
(* in the chat rooms of the listing, confirmed or cancelled by the buyer   *)
(* and the seller, and moved along by the admin who holds the money.       *)
(*                                                                         *)
(* Every HTTP request runs as a handler that awaits the database several   *)
(* times.  Each `await` is a point where the other handlers (and the other *)
(* instances of the backend) run, so a handler is a sequence of steps and  *)
(* request[s] holds the local variables of the handler that occupies slot  *)
(* s.  A prisma.$transaction block runs at the READ COMMITTED level of     *)
(* PostgreSQL and reads without locking: its reads are one step and its    *)
(* writes, which become visible together at the commit, are another.       *)
(*                                                                         *)
(* Left out: message and notification texts, amounts (the price of a       *)
(* listing cannot be updated, so the expected amount never changes), and   *)
(* the location shares and the points ledger, which no guard here reads.   *)
(***************************************************************************)
EXTENDS Integers

CONSTANTS
    Rooms,      \* the chat rooms of the listing, one per buyer
    NoRoom,     \* activeDealChatRoomId = null
    Slots,      \* handlers that can be in flight at the same time
    MaxTxn,     \* bound on the rows of the transactions table
    Kinds,      \* the transaction types that are opened
    MayCrash    \* can a process die between two steps of a handler?

Party == {"buyer", "seller"}
TransactionType == {"DIRECT_TRADE", "SAFE_PAYMENT"}

ASSUME RoomsAssumption == Rooms # {} /\ NoRoom \notin Rooms
ASSUME BoundAssumption == MaxTxn \in Nat
ASSUME KindsAssumption == Kinds \subseteq TransactionType
ASSUME CrashAssumption == MayCrash \in BOOLEAN

VARIABLES
    txn,          \* transactions table: id -> row
    safePayment,  \* safe_payments table: transaction id -> row
    meetup,       \* direct_trades table: transaction id -> state of the place
    listing,      \* the row of the listing
    request,      \* slot -> the handler in flight and its local variables
    charged       \* history: how often a cancellation of the row was charged

vars == <<txn, safePayment, meetup, listing, request, charged>>

TxnIds == 1..MaxTxn    \* in the order of createdAt

-----------------------------------------------------------------------------
(* The statuses, and the sets of statuses that the guards test. DISPUTED and *)
(* REFUNDED are never written by the code.                                   *)

TransactionStatus ==
    {"INITIATED", "SAFE_PAYMENT_AWAITING_INSTRUCTION",
     "SAFE_PAYMENT_INSTRUCTION_SENT", "SAFE_PAYMENT_PENDING",
     "SAFE_PAYMENT_RECEIVED", "BUYER_COMPLETED", "SELLER_COMPLETED",
     "COMPLETED", "CANCELLED"}

TerminalStatuses == {"COMPLETED", "CANCELLED"}

\* Mutant: a payment can be confirmed as soon as the buyer has submitted it.
CompletableOnceSubmitted ==
    {"SAFE_PAYMENT_PENDING", "SAFE_PAYMENT_RECEIVED", "BUYER_COMPLETED",
     "SELLER_COMPLETED", "COMPLETED"}

SafePaymentCompletable ==
    {"SAFE_PAYMENT_RECEIVED", "BUYER_COMPLETED", "SELLER_COMPLETED", "COMPLETED"}

\* requestSafePayment refuses to restart a payment in one of these
BlockedAfterSubmit == SafePaymentCompletable \cup {"SAFE_PAYMENT_PENDING"}

\* Mutant: a trade that one party confirmed can still be cancelled.
CancellableUntilCompleted == {"COMPLETED"}

NonCancellable == {"BUYER_COMPLETED", "SELLER_COMPLETED", "COMPLETED"}

ClosedForMeetup == NonCancellable \cup {"CANCELLED"}

CompletedBy(p) == IF p = "buyer" THEN "BUYER_COMPLETED" ELSE "SELLER_COMPLETED"

\* assertTransactionCancellable
Cancellable(kind, status) ==
    /\ status \notin NonCancellable
    /\ kind = "SAFE_PAYMENT" =>
          status \in {"SAFE_PAYMENT_AWAITING_INSTRUCTION",
                      "SAFE_PAYMENT_INSTRUCTION_SENT"}

-----------------------------------------------------------------------------
(* Rows.  buyerCompleted and sellerCompleted are the members of completedBy; *)
(* completedAt records that the date was written.                            *)

Txn == [room : Rooms, kind : TransactionType, status : TransactionStatus,
        completedBy : SUBSET Party, completedAt : BOOLEAN]

\* instructionSentAt # null, payer details filled in, isVerified, isTransferred
SafePayment == [instructed : BOOLEAN, paid : BOOLEAN,
                isVerified : BOOLEAN, isTransferred : BOOLEAN]

\* No place, a place agreed on, or a change of it waiting for the seller
Meetup == {"none", "agreed", "pending"}

\* "ACTIVE" stands for every status other than SOLD: no guard here tells
\* them apart.
Listing == [status : {"ACTIVE", "SOLD"}, isDeleted : BOOLEAN,
            activeDeal : Rooms \cup {NoRoom}]

NewTxn(r, kind, status) ==
    [room |-> r, kind |-> kind, status |-> status,
     completedBy |-> {}, completedAt |-> FALSE]

NewSafePayment == [instructed |-> FALSE, paid |-> FALSE,
                   isVerified |-> FALSE, isTransferred |-> FALSE]

\* f with the row v under the key k, inserted or replaced
WithRow(f, k, v) == [x \in DOMAIN f \cup {k} |-> IF x = k THEN v ELSE f[x]]

\* The rows of a room and a type whose status is not excluded, and the latest
\* of them (orderBy createdAt desc)
Live(r, kind, excluded) ==
    {t \in DOMAIN txn : /\ txn[t].room = r
                        /\ txn[t].kind = kind
                        /\ txn[t].status \notin excluded}

IsLatest(t, r, kind, excluded) ==
    /\ t \in Live(r, kind, excluded)
    /\ \A u \in Live(r, kind, excluded) : u <= t

-----------------------------------------------------------------------------
(* Handlers in flight                                                        *)

Idle == [step |-> "idle"]

Request ==
    {Idle}
    \cup [step : {"complete.gate", "complete.meetup", "complete.read"},
          id : TxnIds, party : Party]
    \cup [step : {"complete.place"}, id : TxnIds, party : Party, trade : TxnIds]
    \cup [step : {"complete.write"}, id : TxnIds, party : Party,
          seen : SUBSET Party]
    \cup [step : {"complete.sell"}]
    \cup [step : {"cancel.read", "cancel.write", "cancel.charge", "cancel.deal"},
          id : TxnIds]
    \cup [step : {"cancel.clear"}, id : TxnIds]
    \cup [step : {"request.find", "request.create", "start.check",
                  "start.find", "start.create"}, room : Rooms]
    \cup [step : {"request.reset", "request.attach", "start.upsert",
                  "instruct.write", "submit.read", "submit.status",
                  "submit.payer", "transfer.write"}, id : TxnIds]
    \cup [step : {"meet.write"}, id : TxnIds, to : Meetup]
    \cup [step : {"delete.write"}]

At(s, step) == request[s].step = step
Continue(s, r) == request' = [request EXCEPT ![s] = r]
Finish(s) == Continue(s, Idle)

\* update({where: {id}, data: {status}})
SetStatus(t, status) == txn' = [txn EXCEPT ![t].status = status]

Init ==
    /\ txn = [t \in {} |-> NewTxn(NoRoom, "SAFE_PAYMENT", "INITIATED")]
    /\ safePayment = [t \in {} |-> NewSafePayment]
    /\ meetup = [t \in {} |-> "none"]
    /\ listing = [status |-> "ACTIVE", isDeleted |-> FALSE, activeDeal |-> NoRoom]
    /\ request = [s \in Slots |-> Idle]
    /\ charged = [t \in TxnIds |-> 0]

-----------------------------------------------------------------------------
(* The listing: active deal, status, deletion                                *)

\* SetActiveDealUseCase.  The updateMany repeats the guard of the read before
\* it, so the two are one step.  The handler never looks at the transactions.
SetActiveDeal(r) ==
    /\ ~listing.isDeleted
    /\ listing.status # "SOLD"
    /\ listing' = [listing EXCEPT !.activeDeal = r]
    /\ UNCHANGED <<txn, safePayment, meetup, request, charged>>

\* UpdateProductUseCase: any status of the enum may be written over any other.
UpdateListing(status) ==
    /\ ~listing.isDeleted
    /\ listing' = [listing EXCEPT !.status = status]
    /\ UNCHANGED <<txn, safePayment, meetup, request, charged>>

\* DeleteProductUseCase checks SOLD on the row it read ...
BeginDelete(s) ==
    /\ At(s, "idle")
    /\ ~listing.isDeleted
    /\ listing.status # "SOLD"
    /\ Continue(s, [step |-> "delete.write"])
    /\ UNCHANGED <<txn, safePayment, meetup, listing, charged>>

\* ... and the write checks isDeleted only (status becomes ARCHIVED).
DeleteListing(s) ==
    /\ At(s, "delete.write")
    /\ listing' = IF listing.isDeleted THEN listing
                  ELSE [listing EXCEPT !.isDeleted = TRUE, !.status = "ACTIVE"]
    /\ Finish(s)
    /\ UNCHANGED <<txn, safePayment, meetup, charged>>

-----------------------------------------------------------------------------
(* Direct trade: POST .../direct-trade and the three meeting-place requests  *)

IsActiveDeal(r) == listing.activeDeal = r /\ ~listing.isDeleted

BeginStart(s, r) ==
    /\ At(s, "idle")
    /\ "DIRECT_TRADE" \in Kinds
    /\ IsActiveDeal(r)
    /\ Continue(s, [step |-> "start.check", room |-> r])
    /\ UNCHANGED <<txn, safePayment, meetup, listing, charged>>

\* An open trade that one side already confirmed cannot be restarted.
StartCheck(s) ==
    /\ At(s, "start.check")
    /\ LET r == request[s].room IN
       IF \E t \in DOMAIN txn :
             /\ IsLatest(t, r, "DIRECT_TRADE", TerminalStatuses)
             /\ txn[t].status \in ClosedForMeetup
       THEN Finish(s)
       ELSE Continue(s, [step |-> "start.find", room |-> r])
    /\ UNCHANGED <<txn, safePayment, meetup, listing, charged>>

\* Mutant: starting a direct trade does not look for the one already open.
StartWithoutFinding(s) ==
    /\ At(s, "start.find")
    /\ Continue(s, [step |-> "start.create", room |-> request[s].room])
    /\ UNCHANGED <<txn, safePayment, meetup, listing, charged>>

\* getOrCreateTransaction: unlike the check above, a COMPLETED row counts.
StartFind(s) ==
    /\ At(s, "start.find")
    /\ LET r == request[s].room IN
       \/ /\ Live(r, "DIRECT_TRADE", {"CANCELLED"}) = {}
          /\ Continue(s, [step |-> "start.create", room |-> r])
       \/ \E t \in DOMAIN txn :
             /\ IsLatest(t, r, "DIRECT_TRADE", {"CANCELLED"})
             /\ Continue(s, [step |-> "start.upsert", id |-> t])
    /\ UNCHANGED <<txn, safePayment, meetup, listing, charged>>

\* transaction.create; MaxTxn bounds the table
Create(s, kind, status, next) ==
    \E t \in TxnIds :
       /\ DOMAIN txn = 1..(t - 1)
       /\ txn' = WithRow(txn, t, NewTxn(request[s].room, kind, status))
       /\ Continue(s, [step |-> next, id |-> t])

StartCreate(s) ==
    /\ At(s, "start.create")
    /\ Create(s, "DIRECT_TRADE", "INITIATED", "start.upsert")
    /\ UNCHANGED <<safePayment, meetup, listing, charged>>

\* upsertDirectTrade with buildDirectTradeStartData: the place is cleared.
StartUpsert(s) ==
    /\ At(s, "start.upsert")
    /\ meetup' = WithRow(meetup, request[s].id, "none")
    /\ Finish(s)
    /\ UNCHANGED <<txn, safePayment, listing, charged>>

\* What the three requests write over the state of the place that they read.
\* The buyer chooses one of the listing's places, while no change is pending;
AfterChoice(place) == IF place = "pending" THEN {} ELSE {"agreed"}

\* he asks for another one, once he has chosen;
AfterRequest(place) == IF place = "agreed" THEN {"pending"} ELSE {}

\* the seller accepts or declines, and a place is agreed either way.
AfterResponse(place) == IF place = "pending" THEN {"agreed"} ELSE {}

MeetingOutcomes(place) ==
    AfterChoice(place) \cup AfterRequest(place) \cup AfterResponse(place)

\* loadDirectTradeFlow and the assertions of the three use cases
BeginMeeting(s, t) ==
    /\ At(s, "idle")
    /\ t \in DOMAIN txn
    /\ IsActiveDeal(txn[t].room)
    /\ IsLatest(t, txn[t].room, "DIRECT_TRADE", TerminalStatuses)
    /\ txn[t].status \notin ClosedForMeetup
    /\ t \in DOMAIN meetup
    /\ \E to \in MeetingOutcomes(meetup[t]) :
          Continue(s, [step |-> "meet.write", id |-> t, to |-> to])
    /\ UNCHANGED <<txn, safePayment, meetup, listing, charged>>

\* upsertDirectTrade overwrites every column with the values computed before.
WriteMeeting(s) ==
    /\ At(s, "meet.write")
    /\ meetup' = WithRow(meetup, request[s].id, request[s].to)
    /\ Finish(s)
    /\ UNCHANGED <<txn, safePayment, listing, charged>>

-----------------------------------------------------------------------------
(* Safe payment: the buyer asks, the admin instructs, the buyer pays, the    *)
(* admin confirms the receipt and finally transfers the money to the seller. *)

BeginRequest(s, r) ==
    /\ At(s, "idle")
    /\ "SAFE_PAYMENT" \in Kinds
    /\ IsActiveDeal(r)
    /\ Continue(s, [step |-> "request.find", room |-> r])
    /\ UNCHANGED <<txn, safePayment, meetup, listing, charged>>

\* requestSafePayment: findActiveSafePaymentTransaction and the 409
FindActive(s) ==
    /\ At(s, "request.find")
    /\ LET r == request[s].room IN
       \/ /\ Live(r, "SAFE_PAYMENT", {"CANCELLED"}) = {}
          /\ Continue(s, [step |-> "request.create", room |-> r])
       \/ \E t \in DOMAIN txn :
             /\ IsLatest(t, r, "SAFE_PAYMENT", {"CANCELLED"})
             /\ IF txn[t].status \in BlockedAfterSubmit
                THEN Finish(s)
                ELSE Continue(s, [step |-> "request.reset", id |-> t])
    /\ UNCHANGED <<txn, safePayment, meetup, listing, charged>>

CreateSafePayment(s) ==
    /\ At(s, "request.create")
    /\ Create(s, "SAFE_PAYMENT", "SAFE_PAYMENT_AWAITING_INSTRUCTION",
              "request.attach")
    /\ UNCHANGED <<safePayment, meetup, listing, charged>>

\* The update is by id: the status may have moved since the row was found.
ResetSafePayment(s) ==
    /\ At(s, "request.reset")
    /\ SetStatus(request[s].id, "SAFE_PAYMENT_AWAITING_INSTRUCTION")
    /\ Continue(s, [step |-> "request.attach", id |-> request[s].id])
    /\ UNCHANGED <<safePayment, meetup, listing, charged>>

\* safePayment.upsert with an empty update
AttachSafePayment(s) ==
    /\ At(s, "request.attach")
    /\ safePayment' = IF request[s].id \in DOMAIN safePayment THEN safePayment
                      ELSE WithRow(safePayment, request[s].id, NewSafePayment)
    /\ Finish(s)
    /\ UNCHANGED <<txn, meetup, listing, charged>>

\* sendSafePaymentInstruction: the read ...
ReadForInstruction(s, t) ==
    /\ At(s, "idle")
    /\ t \in DOMAIN txn
    /\ txn[t].status = "SAFE_PAYMENT_AWAITING_INSTRUCTION"
    /\ Continue(s, [step |-> "instruct.write", id |-> t])
    /\ UNCHANGED <<txn, safePayment, meetup, listing, charged>>

\* ... and the commit
WriteInstruction(s) ==
    /\ At(s, "instruct.write")
    /\ LET t == request[s].id
           row == IF t \in DOMAIN safePayment THEN safePayment[t]
                  ELSE NewSafePayment
       IN /\ safePayment' = WithRow(safePayment, t, [row EXCEPT !.instructed = TRUE])
          /\ SetStatus(t, "SAFE_PAYMENT_INSTRUCTION_SENT")
    /\ Finish(s)
    /\ UNCHANGED <<meetup, listing, charged>>

MaySubmit(t) ==
    /\ txn[t].status = "SAFE_PAYMENT_INSTRUCTION_SENT"
    /\ t \in DOMAIN safePayment
    /\ safePayment[t].instructed

\* SubmitChatSafePaymentUseCase: canSubmitPayment of the room's payment
BeginSubmit(s, t) ==
    /\ At(s, "idle")
    /\ t \in DOMAIN txn
    /\ IsLatest(t, txn[t].room, "SAFE_PAYMENT", {"CANCELLED"})
    /\ MaySubmit(t)
    /\ Continue(s, [step |-> "submit.read", id |-> t])
    /\ UNCHANGED <<txn, safePayment, meetup, listing, charged>>

\* submitSafePayment reads the row again, outside any transaction block ...
ReadForSubmit(s) ==
    /\ At(s, "submit.read")
    /\ IF MaySubmit(request[s].id)
       THEN Continue(s, [step |-> "submit.status", id |-> request[s].id])
       ELSE Finish(s)
    /\ UNCHANGED <<txn, safePayment, meetup, listing, charged>>

\* ... writes the status ...
WriteSubmitStatus(s) ==
    /\ At(s, "submit.status")
    /\ SetStatus(request[s].id, "SAFE_PAYMENT_PENDING")
    /\ Continue(s, [step |-> "submit.payer", id |-> request[s].id])
    /\ UNCHANGED <<safePayment, meetup, listing, charged>>

\* ... and then the payer's details, in another statement.
WriteSubmitPayer(s) ==
    /\ At(s, "submit.payer")
    /\ safePayment' = [safePayment EXCEPT ![request[s].id].paid = TRUE]
    /\ Finish(s)
    /\ UNCHANGED <<txn, meetup, listing, charged>>

\* markSafePaymentReceived.  What its block reads (the row exists, and a phone
\* is known or supplied by the admin) never becomes false again, so the block
\* is one step.  The status of the transaction is not read.
MarkReceived(t) ==
    /\ t \in DOMAIN safePayment
    /\ safePayment' = [safePayment EXCEPT ![t].isVerified = TRUE]
    /\ SetStatus(t, "SAFE_PAYMENT_RECEIVED")
    /\ UNCHANGED <<meetup, listing, request, charged>>

\* Mutant: the transfer does not wait for the completion.
BeginTransferEarly(s, t) ==
    /\ At(s, "idle")
    /\ t \in DOMAIN txn
    /\ Continue(s, [step |-> "transfer.write", id |-> t])
    /\ UNCHANGED <<txn, safePayment, meetup, listing, charged>>

\* AdminMarkSafePaymentTransferredUseCase reads the status ...
BeginTransfer(s, t) ==
    /\ At(s, "idle")
    /\ t \in DOMAIN txn
    /\ txn[t].status = "COMPLETED"
    /\ Continue(s, [step |-> "transfer.write", id |-> t])
    /\ UNCHANGED <<txn, safePayment, meetup, listing, charged>>

\* ... and markSafePaymentTransferred only the safe payment.
WriteTransfer(s) ==
    /\ At(s, "transfer.write")
    /\ LET t == request[s].id IN
       IF t \in DOMAIN safePayment /\ safePayment[t].isVerified
       THEN /\ safePayment' = [safePayment EXCEPT ![t].isTransferred = TRUE]
            /\ SetStatus(t, "COMPLETED")
       ELSE UNCHANGED <<safePayment, txn>>
    /\ Finish(s)
    /\ UNCHANGED <<meetup, listing, charged>>

-----------------------------------------------------------------------------
(* Transaction complete                                                      *)

\* CompleteChatTransactionUseCase up to the status part of
\* assertTransactionCompletable, which looks at the row just read.  For a
\* direct trade the status is never looked at.
BeginComplete(s, t, p) ==
    /\ At(s, "idle")
    /\ t \in DOMAIN txn
    /\ p \notin txn[t].completedBy
    /\ IF txn[t].kind = "SAFE_PAYMENT"
       THEN /\ txn[t].status \in SafePaymentCompletable
            /\ Continue(s, [step |-> "complete.meetup", id |-> t, party |-> p])
       ELSE Continue(s, [step |-> "complete.gate", id |-> t, party |-> p])
    /\ UNCHANGED <<txn, safePayment, meetup, listing, charged>>

\* Mutant: a direct trade does not wait for the safe payment of its room.
CompleteWithoutGate(s) ==
    /\ At(s, "complete.gate")
    /\ Continue(s, [request[s] EXCEPT !.step = "complete.meetup"])
    /\ UNCHANGED <<txn, safePayment, meetup, listing, charged>>

\* A direct trade waits for the safe payment of the room, if there is one.
CompleteGate(s) ==
    /\ At(s, "complete.gate")
    /\ IF Live(txn[request[s].id].room, "SAFE_PAYMENT", {"CANCELLED"}) = {}
       THEN Continue(s, [request[s] EXCEPT !.step = "complete.meetup"])
       ELSE Finish(s)
    /\ UNCHANGED <<txn, safePayment, meetup, listing, charged>>

\* assertMeetupLocationAgreedForCompletion: no open direct trade, no check ...
CompleteMeetup(s) ==
    /\ At(s, "complete.meetup")
    /\ LET r == txn[request[s].id].room IN
       \/ /\ Live(r, "DIRECT_TRADE", TerminalStatuses) = {}
          /\ Continue(s, [request[s] EXCEPT !.step = "complete.read"])
       \/ \E d \in DOMAIN txn :
             /\ IsLatest(d, r, "DIRECT_TRADE", TerminalStatuses)
             /\ Continue(s, [step |-> "complete.place", id |-> request[s].id,
                             party |-> request[s].party, trade |-> d])
    /\ UNCHANGED <<txn, safePayment, meetup, listing, charged>>

\* ... otherwise its place must be agreed, with no change pending.
CompletePlace(s) ==
    /\ At(s, "complete.place")
    /\ LET d == request[s].trade IN
       IF d \in DOMAIN meetup /\ meetup[d] = "agreed"
       THEN Continue(s, [step |-> "complete.read", id |-> request[s].id,
                         party |-> request[s].party])
       ELSE Finish(s)
    /\ UNCHANGED <<txn, safePayment, meetup, listing, charged>>

\* markTransactionCompletedByUser: the read of the block ...
ReadForComplete(s) ==
    /\ At(s, "complete.read")
    /\ Continue(s, [step |-> "complete.write", id |-> request[s].id,
                    party |-> request[s].party,
                    seen |-> txn[request[s].id].completedBy])
    /\ UNCHANGED <<txn, safePayment, meetup, listing, charged>>

\* Mutant: the two flags are written and COMPLETED never is.
NeverCompleted(row, p, seen) ==
    [row EXCEPT !.completedBy = @ \cup {p}, !.status = CompletedBy(p)]

\* The columns that the block updates, from the row and the flags it has read
Completed(row, p, seen) ==
    CASE seen \cup {p} = Party ->
            [row EXCEPT !.completedBy = @ \cup ({p} \ seen),
                        !.status = "COMPLETED", !.completedAt = TRUE]
      [] seen = {} ->
            [row EXCEPT !.completedBy = @ \cup {p}, !.status = CompletedBy(p)]
      [] OTHER -> row

\* Mutant: the handler does not go on to mark the listing sold.
WriteCompleteAndStop(s) ==
    /\ At(s, "complete.write")
    /\ LET t == request[s].id IN
       txn' = [txn EXCEPT ![t] = Completed(@, request[s].party, request[s].seen)]
    /\ Finish(s)
    /\ UNCHANGED <<safePayment, meetup, listing, charged>>

\* ... and the commit.  The update returns the row as it is now; when it is
\* COMPLETED the handler goes on to mark the listing sold.
WriteComplete(s) ==
    /\ At(s, "complete.write")
    /\ LET t == request[s].id
           row == Completed(txn[t], request[s].party, request[s].seen)
       IN /\ txn' = [txn EXCEPT ![t] = row]
          /\ IF row.status = "COMPLETED"
             THEN Continue(s, [step |-> "complete.sell"])
             ELSE Finish(s)
    /\ UNCHANGED <<safePayment, meetup, listing, charged>>

\* markAsSold, silent when the listing is deleted or already sold
MarkSold(s) ==
    /\ At(s, "complete.sell")
    /\ listing' = IF listing.isDeleted \/ listing.status = "SOLD" THEN listing
                  ELSE [listing EXCEPT !.status = "SOLD", !.activeDeal = NoRoom]
    /\ Finish(s)
    /\ UNCHANGED <<txn, safePayment, meetup, charged>>

-----------------------------------------------------------------------------
(* Transaction cancel                                                        *)

\* CancelChatTransactionUseCase up to assertTransactionCancellable.  Which of
\* the two parties cancels makes no difference to the tables.
BeginCancel(s, t) ==
    /\ At(s, "idle")
    /\ t \in DOMAIN txn
    /\ txn[t].status # "CANCELLED"
    /\ Cancellable(txn[t].kind, txn[t].status)
    /\ Continue(s, [step |-> "cancel.read", id |-> t])
    /\ UNCHANGED <<txn, safePayment, meetup, listing, charged>>

\* markTransactionCancelledByUser: the read of the block, with weaker checks
ReadForCancel(s) ==
    /\ At(s, "cancel.read")
    /\ IF txn[request[s].id].status \in TerminalStatuses
       THEN Finish(s)
       ELSE Continue(s, [step |-> "cancel.write", id |-> request[s].id])
    /\ UNCHANGED <<txn, safePayment, meetup, listing, charged>>

\* Mutant: the handler forgets the penalty.
WriteCancelUncharged(s) ==
    /\ At(s, "cancel.write")
    /\ SetStatus(request[s].id, "CANCELLED")
    /\ Continue(s, [step |-> "cancel.deal", id |-> request[s].id])
    /\ UNCHANGED <<safePayment, meetup, listing, charged>>

WriteCancel(s) ==
    /\ At(s, "cancel.write")
    /\ SetStatus(request[s].id, "CANCELLED")
    /\ Continue(s, [step |-> "cancel.charge", id |-> request[s].id])
    /\ UNCHANGED <<safePayment, meetup, listing, charged>>

\* deductPointsForTransactionCancellation.  The history counts one charge, or
\* more than one.
ChargePenalty(s) ==
    /\ At(s, "cancel.charge")
    /\ charged' = [charged EXCEPT ![request[s].id] = IF @ = 0 THEN 1 ELSE 2]
    /\ Continue(s, [step |-> "cancel.deal", id |-> request[s].id])
    /\ UNCHANGED <<txn, safePayment, meetup, listing>>

\* Mutant: the active deal is cleared without looking whose it is.
ReadNoDeal(s) ==
    /\ At(s, "cancel.deal")
    /\ Continue(s, [step |-> "cancel.clear", id |-> request[s].id])
    /\ UNCHANGED <<txn, safePayment, meetup, listing, charged>>

\* The handler reads the active deal ...
ReadDeal(s) ==
    /\ At(s, "cancel.deal")
    /\ IF listing.activeDeal = txn[request[s].id].room
       THEN Continue(s, [step |-> "cancel.clear", id |-> request[s].id])
       ELSE Finish(s)
    /\ UNCHANGED <<txn, safePayment, meetup, listing, charged>>

\* ... and clears whichever deal is active when it writes.
ClearDeal(s) ==
    /\ At(s, "cancel.clear")
    /\ listing' = IF listing.isDeleted \/ listing.status = "SOLD" THEN listing
                  ELSE [listing EXCEPT !.activeDeal = NoRoom]
    /\ Finish(s)
    /\ UNCHANGED <<txn, safePayment, meetup, charged>>

-----------------------------------------------------------------------------
\* The process dies, the database connection fails, or the check of the
\* caller's account throws: what was committed stays, the rest never happens.
Crash(s) ==
    /\ MayCrash
    /\ ~At(s, "idle")
    /\ Finish(s)
    /\ UNCHANGED <<txn, safePayment, meetup, listing, charged>>

\* The requests, by the routes of the controllers that take them
DirectTradeRoutes(s) ==
    \/ \E r \in Rooms : BeginStart(s, r)
    \/ \E t \in TxnIds : BeginMeeting(s, t)

SafePaymentRoutes(s) ==
    \/ \E r \in Rooms : BeginRequest(s, r)
    \/ \E t \in TxnIds : BeginSubmit(s, t)

TransactionRoutes(s) ==
    \E t \in TxnIds : BeginCancel(s, t) \/ \E p \in Party : BeginComplete(s, t, p)

\* The admin's; the route of the receipt is MarkReceived.
AdminRoutes(s) ==
    \E t \in TxnIds : ReadForInstruction(s, t) \/ BeginTransfer(s, t)

Begin(s) ==
    \/ BeginDelete(s) \/ DirectTradeRoutes(s) \/ SafePaymentRoutes(s)
    \/ TransactionRoutes(s) \/ AdminRoutes(s)

DirectTradeStep(s) ==
    StartCheck(s) \/ StartFind(s) \/ StartCreate(s) \/ StartUpsert(s)
        \/ WriteMeeting(s)

SafePaymentStep(s) ==
    \/ FindActive(s) \/ CreateSafePayment(s) \/ ResetSafePayment(s)
    \/ AttachSafePayment(s) \/ WriteInstruction(s) \/ ReadForSubmit(s)
    \/ WriteSubmitStatus(s) \/ WriteSubmitPayer(s) \/ WriteTransfer(s)

CompleteStep(s) ==
    CompleteGate(s) \/ CompleteMeetup(s) \/ CompletePlace(s)
        \/ ReadForComplete(s) \/ WriteComplete(s) \/ MarkSold(s)

CancelStep(s) ==
    ReadForCancel(s) \/ WriteCancel(s) \/ ChargePenalty(s) \/ ReadDeal(s)
        \/ ClearDeal(s)

\* The handler in slot s runs up to its next await.
Step(s) ==
    DirectTradeStep(s) \/ SafePaymentStep(s) \/ CompleteStep(s)
        \/ CancelStep(s) \/ DeleteListing(s)

Next ==
    \/ \E s \in Slots : Begin(s) \/ Step(s) \/ Crash(s)
    \/ \E r \in Rooms \cup {NoRoom} : SetActiveDeal(r)
    \/ \E status \in {"ACTIVE", "SOLD"} : UpdateListing(status)
    \/ \E t \in TxnIds : MarkReceived(t)

Spec == Init /\ [][Next]_vars

\* The same system when each request ends before the next one begins
NextOneAtATime ==
    \/ \E s \in Slots : Step(s) \/ Crash(s)
    \/ (\A s \in Slots : At(s, "idle")) /\ Next

SpecOneAtATime == Init /\ [][NextOneAtATime]_vars

\* A handler that was accepted keeps running: the event loop resumes it when
\* its query returns.  Nobody is obliged to send a request.
FairSpec == Spec /\ \A s \in Slots : WF_vars(Step(s))

-----------------------------------------------------------------------------
(* Properties                                                                *)

\* The tables refer to one another: every safe payment and every direct trade
\* belongs to a transaction, and local variables hold values of their types.
TypeOK ==
    /\ DOMAIN txn \subseteq TxnIds
    /\ txn \in [DOMAIN txn -> Txn]
    /\ DOMAIN safePayment \subseteq DOMAIN txn
    /\ safePayment \in [DOMAIN safePayment -> SafePayment]
    /\ DOMAIN meetup \subseteq DOMAIN txn
    /\ meetup \in [DOMAIN meetup -> Meetup]
    /\ listing \in Listing
    /\ request \in [Slots -> Request]
    /\ charged \in [TxnIds -> 0..2]

\* Whatever the interleaving of the handlers of the buyer, the seller and the
\* admin, and wherever they die: the money of a safe payment is passed to the
\* seller only after the admin verified it and both parties confirmed.
ReleaseNeedsBothConfirmations ==
    \A t \in DOMAIN safePayment :
        safePayment[t].isTransferred =>
            safePayment[t].isVerified /\ txn[t].completedBy = Party

\* Nobody confirms a safe payment before the admin verified the money, even
\* though the check is made on a row that was read several awaits earlier and
\* a stale request can put the status back to the start.
ConfirmationNeedsVerification ==
    \A t \in DOMAIN txn :
        (txn[t].kind = "SAFE_PAYMENT" /\ txn[t].completedBy # {}) =>
            t \in DOMAIN safePayment /\ safePayment[t].isVerified

\* COMPLETED, and the date that goes with it, is written only when both
\* parties have confirmed: the flags seen by the block that writes it may be
\* old, but no flag is ever taken back.
CompletedMeansBothConfirmed ==
    \A t \in DOMAIN txn :
        (txn[t].status = "COMPLETED" \/ txn[t].completedAt) =>
            txn[t].completedBy = Party

\* The buyer's transfer is on record only if the admin had sent the number to
\* pay to, whatever happened to the status in between.
SubmissionFollowsInstruction ==
    \A t \in DOMAIN safePayment :
        safePayment[t].paid => safePayment[t].instructed

\* What a step may do to the rows: add some, and raise flags.
Grows ==
    /\ \A t \in DOMAIN txn :
          /\ t \in DOMAIN txn'
          /\ txn'[t].room = txn[t].room
          /\ txn'[t].kind = txn[t].kind
          /\ txn[t].completedBy \subseteq txn'[t].completedBy
    /\ \A t \in DOMAIN safePayment :
          /\ t \in DOMAIN safePayment'
          /\ safePayment[t].instructed => safePayment'[t].instructed
          /\ safePayment[t].isVerified => safePayment'[t].isVerified
          /\ safePayment[t].isTransferred => safePayment'[t].isTransferred

\* No confirmation, verification, instruction or transfer is ever undone, not
\* even by a handler that writes back what it read long before.
NothingIsTakenBack == [][Grows]_vars

-----------------------------------------------------------------------------
(* Why the four invariants above hold: what is true of the rows between any  *)
(* two steps, and what a handler may still rely on from its earlier reads.   *)

Verified(payments, t) == t \in DOMAIN payments /\ payments[t].isVerified

RowsInv ==
    /\ \A t \in DOMAIN safePayment : txn[t].kind = "SAFE_PAYMENT"
    /\ \A t \in DOMAIN txn :
          /\ txn[t].kind = "DIRECT_TRADE" =>
                txn[t].status \in {"INITIATED"} \cup ClosedForMeetup
          /\ txn[t].kind = "SAFE_PAYMENT" =>
                (txn[t].status \in SafePaymentCompletable => Verified(safePayment, t))

StepsOfListing == {"idle", "complete.sell", "delete.write"}

StepsOfRoom == {"request.find", "request.create", "start.check", "start.find",
                "start.create"}

StepsOfSafePayment == {"request.reset", "request.attach", "instruct.write",
                       "submit.read", "submit.status", "submit.payer"}

StepsOfMeetup == {"start.upsert", "meet.write"}

StepsOfComplete == {"complete.gate", "complete.meetup", "complete.place",
                    "complete.read", "complete.write"}

\* What the handler with the local variables q relies on in the tables
RequestOK(q, rows, payments) ==
    /\ q.step \notin StepsOfListing \cup StepsOfRoom => q.id \in DOMAIN rows
    /\ q.step \in StepsOfSafePayment => rows[q.id].kind = "SAFE_PAYMENT"
    /\ q.step \in StepsOfMeetup \cup {"complete.gate"} =>
          rows[q.id].kind = "DIRECT_TRADE"
    /\ q.step \in {"submit.status", "submit.payer"} =>
          q.id \in DOMAIN payments /\ payments[q.id].instructed
    /\ q.step \in StepsOfComplete =>
          (rows[q.id].kind = "SAFE_PAYMENT" => Verified(payments, q.id))
    /\ q.step = "complete.write" => q.seen \subseteq rows[q.id].completedBy
    /\ q.step = "transfer.write" => rows[q.id].completedBy = Party

\* The inductive invariant
Inv ==
    /\ TypeOK
    /\ RowsInv
    /\ \A s \in Slots : RequestOK(request[s], txn, safePayment)
    /\ ConfirmationNeedsVerification
    /\ CompletedMeansBothConfirmed
    /\ ReleaseNeedsBothConfirmations
    /\ SubmissionFollowsInstruction

-----------------------------------------------------------------------------
(* What holds when the requests are served one at a time.                    *)

\* Once both parties have confirmed, the transaction has been completed: the
\* second of the two confirmations sees the first.
BothConfirmedIsCompleted ==
    \A t \in DOMAIN txn :
        txn[t].completedBy = Party => txn[t].completedAt

\* A cancellation is charged once.
ChargedAtMostOnce == \A t \in TxnIds : charged[t] <= 1

\* A room has at most one transaction of the kind with such a status.
OneOpenPerRoom(kind, open) ==
    \A t, u \in DOMAIN txn :
        /\ txn[t].kind = kind /\ txn[u].kind = kind
        /\ txn[t].room = txn[u].room
        /\ txn[t].status \in open /\ txn[u].status \in open
        => t = u

\* The lists that the admin works through
AwaitingInstruction ==
    {t \in DOMAIN txn : txn[t].status = "SAFE_PAYMENT_AWAITING_INSTRUCTION"}

\* Mutant: the list shows the payments whose receipt is on record already.
PendingReceivedPayments ==
    {t \in DOMAIN safePayment :
        txn[t].status = "SAFE_PAYMENT_PENDING" /\ safePayment[t].isVerified}

PendingPayments ==
    {t \in DOMAIN safePayment :
        txn[t].status = "SAFE_PAYMENT_PENDING" /\ ~safePayment[t].isVerified}

\* A buyer's money is never out of the admin's sight: until the receipt is on
\* record, a payment that was submitted is listed as pending, and one that is
\* neither instructed nor cancelled as awaiting, wherever a handler died.
PaymentIsQueued ==
    \A t \in DOMAIN safePayment :
        ~safePayment[t].isVerified =>
            /\ safePayment[t].paid => t \in PendingPayments
            /\ safePayment[t].instructed \/ txn[t].status = "CANCELLED"
                  \/ t \in AwaitingInstruction

\* A room has one direct trade under negotiation and one safe payment on the way
\* to its verification: requests for another share the open row.
OneOpenTransaction ==
    /\ OneOpenPerRoom("DIRECT_TRADE", {"INITIATED"})
    /\ OneOpenPerRoom("SAFE_PAYMENT",
                      {"SAFE_PAYMENT_AWAITING_INSTRUCTION",
                       "SAFE_PAYMENT_INSTRUCTION_SENT", "SAFE_PAYMENT_PENDING"})

\* A direct trade is confirmed only while no safe payment of its room is live.
DirectTradeWaitsForSafePayment ==
    [][\A t \in DOMAIN txn :
          /\ txn[t].kind = "DIRECT_TRADE"
          /\ txn'[t].completedBy # txn[t].completedBy
          => Live(txn[t].room, "SAFE_PAYMENT", {"CANCELLED"}) = {}]_vars

\* The last step of a cancellation clears the active deal of its own room.
CancelClearsItsOwnDeal ==
    [][\A s \in Slots :
          /\ At(s, "cancel.clear") /\ request'[s] = Idle
          /\ listing'.activeDeal # listing.activeDeal
          => listing.activeDeal = txn[request[s].id].room]_vars

\* A completed trade takes the listing off the market, unless the seller has
\* deleted it.  (The seller may put it back later.)
CompletedTradeIsSold ==
    \A t \in TxnIds :
        <>(t \in DOMAIN txn /\ txn[t].completedAt)
            => <>(listing.status = "SOLD" \/ listing.isDeleted)

\* Whoever cancels is charged for it.
CancellationIsCharged ==
    \A t \in TxnIds :
        (t \in DOMAIN txn /\ txn[t].status = "CANCELLED") ~> (charged[t] > 0)

-----------------------------------------------------------------------------
(* What the parties rely on: the abstract life of the money.                 *)

Held == {t \in DOMAIN txn : txn[t].kind = "SAFE_PAYMENT"}
Received == {t \in DOMAIN safePayment : safePayment[t].isVerified}
Confirmed == [t \in TxnIds |-> IF t \in DOMAIN txn THEN txn[t].completedBy ELSE {}]
Released == {t \in DOMAIN safePayment : safePayment[t].isTransferred}

Escrow == INSTANCE Escrow WITH
    Ids <- TxnIds, held <- Held, received <- Received,
    confirmed <- Confirmed, released <- Released

\* Handlers that race, die, or write over stale reads still give the parties
\* the escrow: verification before confirmation, both confirmations before the
\* release, and nothing taken back.
ImplementsEscrow == Escrow!Spec

=============================================================================
