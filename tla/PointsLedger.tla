---------------------------- MODULE PointsLedger ----------------------------
(***************************************************************************)
(* The points of one account: the cached balance and rank in its row, and  *)
(* the ledger of the changes that explains them.  Points come from account *)
(* milestones, a Facebook follow, reviews and suggestions; they go with the *)
(* withdrawals that the admin approves and with the penalties of cancelled *)
(* trades, which can block the account.                                    *)
(*                                                                         *)
(* As in ChatTransactions, a handler is a sequence of steps that end at its *)
(* awaits.  Every block reads the balance without locking the row and later *)
(* writes balance + amount as an absolute value; the writes of a block     *)
(* become visible together.                                                *)
(*                                                                         *)
(* The ledger is abstracted to the number of entries per source and        *)
(* reference, whose amounts these determine.  Left out: the order of the   *)
(* entries, notifications, changes of the rank and star configuration,     *)
(* checks of other tables (OTP, e-mail token, status of the trade), the    *)
(* deletion of the account.  KBZPay stays verified once it is.             *)
(***************************************************************************)
EXTENDS Integers, FiniteSetsExt

CONSTANTS
    Slots,              \* handlers that can be in flight at the same time
    Milestones,         \* the account milestones that can be reached
    Amounts,            \* the amounts that the user asks to withdraw
    MaxWithdrawal,      \* bounds on the rows of the tables: withdrawals,
    MaxSubmission,      \*   Facebook follow submissions,
    MaxSuggestion,      \*   suggestions of the user,
    MaxReview,          \*   trades the other side may review,
    MaxTrade,           \*   and trades that the user cancels
    SuggestionPoints,   \* what the admin gives for a suggestion
    ReviewPoints,       \* what a review gives, by the star configuration
    BlockingDebt,       \* the debt that blocks the account
    MayCrash            \* can a process die between two steps of a handler?

AccountMilestones ==
    {"REGISTRATION_BONUS", "PHONE_VERIFIED_BONUS", "EMAIL_VERIFIED_BONUS",
     "KBZPAY_VERIFIED_BONUS"}

ASSUME MilestonesAssumption == Milestones \subseteq AccountMilestones
ASSUME AmountsAssumption == Amounts \subseteq Nat \ {0}
ASSUME TablesAssumption ==
    /\ MaxWithdrawal \in Nat /\ MaxSubmission \in Nat /\ MaxSuggestion \in Nat
    /\ MaxReview \in Nat /\ MaxTrade \in Nat
ASSUME PointsAssumption ==
    /\ SuggestionPoints \in 1..10000
    /\ ReviewPoints \in Nat
    /\ BlockingDebt \in Nat \ {0}
ASSUME CrashAssumption == MayCrash \in BOOLEAN

ACCOUNT_MILESTONE_BONUS_POINTS == 100
FACEBOOK_FOLLOW_REWARD_POINTS == 500
CANCELLATION_PENALTY_POINTS == 20

\* CANCELLATION_AUTO_BLOCK_THRESHOLD, -500 in the code
Threshold == -BlockingDebt

VARIABLES
    account,      \* the user's row: balance, rank, banned, active, linked
    reached,      \* the milestones that the account has reached
    ledger,       \* point_transactions: entry -> how many there are
    withdrawal,   \* withdrawal_requests: id -> amount and status
    submission,   \* facebook_follow_submissions: id -> status
    suggestion,   \* suggestions: id -> status
    cancelled,    \* the trades whose cancellation is charged to the user
    request       \* slot -> the handler in flight and its local variables

vars == <<account, reached, ledger, withdrawal, submission, suggestion,
          cancelled, request>>

tables == <<reached, withdrawal, submission, suggestion, cancelled>>

WithdrawalIds == 1..MaxWithdrawal      \* in the order of createdAt
SubmissionIds == 1..MaxSubmission
SuggestionIds == 1..MaxSuggestion
ReviewIds == 1..MaxReview
TradeIds == 1..MaxTrade

-----------------------------------------------------------------------------
(* The rank that goes with a balance                                         *)

Tiers == {"NEWBIE", "BRONZE", "SILVER", "GOLD", "VIP"}

NoCap == -1    \* maxPoints = null

\* DEFAULT_RANK_CONFIGS in the order of sortOrder
RankConfigs ==
    <<[tier |-> "NEWBIE", min |-> 0,    max |-> 99],
      [tier |-> "BRONZE", min |-> 100,  max |-> 299],
      [tier |-> "SILVER", min |-> 300,  max |-> 699],
      [tier |-> "GOLD",   min |-> 700,  max |-> 1499],
      [tier |-> "VIP",    min |-> 1500, max |-> NoCap]>>

\* findRankTierForPoints: the first configuration that fits, or NEWBIE
RankOf(points) ==
    LET fits == {i \in 1..5 : /\ points >= RankConfigs[i].min
                              /\ \/ RankConfigs[i].max = NoCap
                                 \/ points <= RankConfigs[i].max}
    IN IF fits = {} THEN "NEWBIE"
       ELSE RankConfigs[CHOOSE i \in fits : \A j \in fits : i <= j].tier

-----------------------------------------------------------------------------
(* Entries of the ledger                                                     *)

\* facebook: is facebookId set?
Account == [points : Int, rank : Tiers, banned : BOOLEAN, active : BOOLEAN,
            facebook : BOOLEAN]

Bonus(m) == [source |-> m, ref |-> 0]
Follow(f) == [source |-> "FACEBOOK_FOLLOW_REWARD", ref |-> f]
Review(v) == [source |-> "REVIEW_RECEIVED", ref |-> v]
Reward(g) == [source |-> "SUGGESTION_REWARD", ref |-> g]
Withdrawn(w) == [source |-> "WITHDRAWAL", ref |-> w]
Penalty(t) == [source |-> "ADMIN_GRANT", ref |-> t]

Entries ==
    {Bonus(m) : m \in Milestones} \cup {Follow(f) : f \in SubmissionIds}
    \cup {Review(v) : v \in ReviewIds} \cup {Reward(g) : g \in SuggestionIds}
    \cup {Withdrawn(w) : w \in WithdrawalIds} \cup {Penalty(t) : t \in TradeIds}

\* f with the row v under the key k, inserted or replaced
WithRow(f, k, v) == [x \in DOMAIN f \cup {k} |-> IF x = k THEN v ELSE f[x]]

\* The sum of the requests that wait for the admin
PendingIn(rows) ==
    LET pending == {w \in DOMAIN rows : rows[w].status = "PENDING"}
    IN MapThenSumSet(LAMBDA w : rows[w].amount, pending)

WithdrawalStatus == {"PENDING", "APPROVED", "REJECTED", "TRANSFERRED"}
Withdrawal == [amount : Nat, status : WithdrawalStatus]
ReviewStatus == {"PENDING", "APPROVED", "REJECTED"}
\* NONE is a suggestion that is not submitted yet; REVIEWED is never written.
SuggestionStatus == {"NONE", "PENDING", "REWARDED", "DISMISSED"}

-----------------------------------------------------------------------------
(* Handlers in flight                                                        *)

Idle == [step |-> "idle"]

Request ==
    {Idle}
    \cup [step : {"bonus.find", "bonus.read"}, source : Milestones]
    \cup [step : {"bonus.write"}, source : Milestones, balance : Int]
    \cup [step : {"link.write", "follow.create", "suggest.create"}]
    \cup [step : {"follow.find", "follow.read", "follow.close", "follow.reject"},
          id : SubmissionIds]
    \cup [step : {"follow.write"}, id : SubmissionIds, balance : Int]
    \cup [step : {"review.read"}, id : ReviewIds]
    \cup [step : {"review.write"}, id : ReviewIds, balance : Int]
    \cup [step : {"withdraw.sum"}, amount : Amounts, balance : Int]
    \cup [step : {"withdraw.create"}, amount : Amounts]
    \cup [step : {"approve.write"}, id : WithdrawalIds, balance : Int]
    \cup [step : {"reject.write", "paid.write"}, id : WithdrawalIds]
    \cup [step : {"reward.read", "dismiss.write"}, id : SuggestionIds]
    \cup [step : {"reward.write"}, id : SuggestionIds, balance : Int]
    \cup [step : {"penalty.write"}, id : TradeIds, balance : Int, block : BOOLEAN]

At(s, step) == request[s].step = step
Continue(s, r) == request' = [request EXCEPT ![s] = r]
Finish(s) == Continue(s, Idle)

Init ==
    /\ account = [points |-> 0, rank |-> "NEWBIE", banned |-> FALSE, active |-> TRUE,
                  facebook |-> FALSE]
    /\ reached = {}
    /\ ledger = [e \in Entries |-> 0]
    /\ withdrawal = [w \in {} |-> [amount |-> 0, status |-> "PENDING"]]
    /\ submission = [f \in {} |-> "PENDING"]
    /\ suggestion = [g \in SuggestionIds |-> "NONE"]
    /\ cancelled = {}
    /\ request = [s \in Slots |-> Idle]

\* JwtStrategy and requireActiveAuthUser
IsActiveUser == account.active /\ ~account.banned

\* tx.user.update and tx.pointTransaction.create of a block that read balance
Post(entry, balance, amount) ==
    /\ account' = [account EXCEPT !.points = balance + amount,
                                  !.rank = RankOf(balance + amount)]
    /\ ledger' = [ledger EXCEPT ![entry] = @ + 1]

-----------------------------------------------------------------------------
(* Account milestones: registration, the verification of the phone and of    *)
(* the e-mail address, and the admin's verification of KBZPay                *)

\* The use cases that mark the milestone and then grant the bonus.  All but
\* the registration can be repeated: nothing checks that the phone, the
\* address or the KBZPay account is verified already.
BeginMilestone(s, m) ==
    /\ At(s, "idle")
    /\ m = "REGISTRATION_BONUS" => m \notin reached
    /\ m \in {"PHONE_VERIFIED_BONUS", "EMAIL_VERIFIED_BONUS"} => IsActiveUser
    /\ reached' = reached \cup {m}
    /\ Continue(s, [step |-> "bonus.find", source |-> m])
    /\ UNCHANGED <<account, ledger, withdrawal, submission, suggestion, cancelled>>

\* Mutant: any earlier entry of the account counts as the bonus.
FindAnyEntry(s) ==
    /\ At(s, "bonus.find")
    /\ IF \E e \in Entries : ledger[e] > 0
       THEN Finish(s)
       ELSE Continue(s, [request[s] EXCEPT !.step = "bonus.read"])
    /\ UNCHANGED <<account, ledger, tables>>

\* grantAccountLifetimeMilestoneBonus: has it been granted? ...
FindBonus(s) ==
    /\ At(s, "bonus.find")
    /\ IF ledger[Bonus(request[s].source)] > 0
       THEN Finish(s)
       ELSE Continue(s, [request[s] EXCEPT !.step = "bonus.read"])
    /\ UNCHANGED <<account, ledger, tables>>

\* ... the balance ...
ReadForBonus(s) ==
    /\ At(s, "bonus.read")
    /\ Continue(s, [step |-> "bonus.write", source |-> request[s].source,
                    balance |-> account.points])
    /\ UNCHANGED <<account, ledger, tables>>

\* ... and the commit
WriteBonus(s) ==
    /\ At(s, "bonus.write")
    /\ Post(Bonus(request[s].source), request[s].balance,
            ACCOUNT_MILESTONE_BONUS_POINTS)
    /\ Finish(s)
    /\ UNCHANGED tables

-----------------------------------------------------------------------------
(* The Facebook follow: the user links his Facebook account and submits a    *)
(* proof, the admin reviews it                                               *)

\* LinkFacebookUseCase: Facebook verifies the token of the user ...
BeginLink(s) ==
    /\ At(s, "idle")
    /\ IsActiveUser
    /\ Continue(s, [step |-> "link.write"])
    /\ UNCHANGED <<account, ledger, tables>>

\* ... and nobody else has linked the account.
SetFacebookLink(s) ==
    /\ At(s, "link.write")
    /\ account' = [account EXCEPT !.facebook = TRUE]
    /\ Finish(s)
    /\ UNCHANGED <<ledger, tables>>

\* SubmitFacebookFollowUseCase: the latest submission must not be pending
BeginSubmission(s) ==
    /\ At(s, "idle")
    /\ IsActiveUser
    /\ DOMAIN submission # SubmissionIds    \* a bound
    /\ account.facebook
    /\ \A f \in DOMAIN submission :
          f + 1 \notin DOMAIN submission => submission[f] # "PENDING"
    /\ Continue(s, [step |-> "follow.create"])
    /\ UNCHANGED <<account, ledger, tables>>

\* The row is created after the upload of the screenshot.
CreateSubmission(s) ==
    /\ At(s, "follow.create")
    /\ \E f \in SubmissionIds :
          /\ DOMAIN submission = 1..(f - 1)
          /\ submission' = WithRow(submission, f, "PENDING")
    /\ Finish(s)
    /\ UNCHANGED <<account, ledger, reached, withdrawal, suggestion, cancelled>>

\* requirePendingSubmission, for approve and reject
BeginFollowReview(s, f, verdict) ==
    /\ At(s, "idle")
    /\ f \in DOMAIN submission
    /\ submission[f] = "PENDING"
    /\ Continue(s, [step |-> verdict, id |-> f])
    /\ UNCHANGED <<account, ledger, tables>>

\* Mutant: only an earlier reward of the same submission counts.
FindFollowOfSubmission(s) ==
    /\ At(s, "follow.find")
    /\ IF ledger[Follow(request[s].id)] > 0
       THEN Finish(s)
       ELSE Continue(s, [step |-> "follow.read", id |-> request[s].id])
    /\ UNCHANGED <<account, ledger, tables>>

\* grantFacebookFollowRewardIfEligible: any earlier reward refuses this one
FindFollow(s) ==
    /\ At(s, "follow.find")
    /\ IF \E f \in SubmissionIds : ledger[Follow(f)] > 0
       THEN Finish(s)
       ELSE Continue(s, [step |-> "follow.read", id |-> request[s].id])
    /\ UNCHANGED <<account, ledger, tables>>

ReadForFollow(s) ==
    /\ At(s, "follow.read")
    /\ Continue(s, [step |-> "follow.write", id |-> request[s].id,
                    balance |-> account.points])
    /\ UNCHANGED <<account, ledger, tables>>

WriteFollow(s) ==
    /\ At(s, "follow.write")
    /\ Post(Follow(request[s].id), request[s].balance,
            FACEBOOK_FOLLOW_REWARD_POINTS)
    /\ Continue(s, [step |-> "follow.close", id |-> request[s].id])
    /\ UNCHANGED tables

\* reviewFacebookFollowSubmission, by id and outside any block
WriteVerdict(s, step, status) ==
    /\ At(s, step)
    /\ submission' = [submission EXCEPT ![request[s].id] = status]
    /\ Finish(s)
    /\ UNCHANGED <<account, ledger, reached, withdrawal, suggestion, cancelled>>

CloseFollow(s) == WriteVerdict(s, "follow.close", "APPROVED")
RejectFollow(s) == WriteVerdict(s, "follow.reject", "REJECTED")

-----------------------------------------------------------------------------
(* Reviews and suggestions                                                   *)

\* CreateTransactionReviewUseCase: hasReview
BeginReview(s, v) ==
    /\ At(s, "idle")
    /\ ledger[Review(v)] = 0
    /\ Continue(s, [step |-> "review.read", id |-> v])
    /\ UNCHANGED <<account, ledger, tables>>

\* createReviewAndAwardPoints: the balance ...
ReadForReview(s) ==
    /\ At(s, "review.read")
    /\ Continue(s, [step |-> "review.write", id |-> request[s].id,
                    balance |-> account.points])
    /\ UNCHANGED <<account, ledger, tables>>

\* ... and the commit.  The review row, which is written with the entry, is
\* unique per trade and reviewer: of two blocks only the first commits.
WriteReview(s) ==
    /\ At(s, "review.write")
    /\ IF ledger[Review(request[s].id)] > 0
       THEN UNCHANGED <<account, ledger>>
       ELSE Post(Review(request[s].id), request[s].balance, ReviewPoints)
    /\ Finish(s)
    /\ UNCHANGED tables

\* SubmitSuggestionUseCase: any number of suggestions, here at most MaxSuggestion
BeginSuggestion(s) ==
    /\ At(s, "idle")
    /\ IsActiveUser
    /\ \E g \in SuggestionIds : suggestion[g] = "NONE"
    /\ Continue(s, [step |-> "suggest.create"])
    /\ UNCHANGED <<account, ledger, tables>>

\* rewardWithPoints reads the suggestion, and dismiss too ...
BeginSuggestionReview(s, g, verdict) ==
    /\ At(s, "idle")
    /\ suggestion[g] = "PENDING"
    /\ Continue(s, [step |-> verdict, id |-> g])
    /\ UNCHANGED <<account, ledger, tables>>

\* ... then the balance ...
ReadForReward(s) ==
    /\ At(s, "reward.read")
    /\ Continue(s, [step |-> "reward.write", id |-> request[s].id,
                    balance |-> account.points])
    /\ UNCHANGED <<account, ledger, tables>>

SetSuggestion(g, status) ==
    /\ suggestion' = [suggestion EXCEPT ![g] = status]
    /\ UNCHANGED <<reached, withdrawal, submission, cancelled>>

CreateSuggestion(s) ==
    /\ At(s, "suggest.create")
    /\ \E g \in SuggestionIds :
          /\ \A h \in SuggestionIds : suggestion[h] = "NONE" <=> h >= g
          /\ SetSuggestion(g, "PENDING")
    /\ Finish(s)
    /\ UNCHANGED <<account, ledger>>

\* rewardWithPoints commits.
WriteReward(s) ==
    /\ At(s, "reward.write")
    /\ Post(Reward(request[s].id), request[s].balance, SuggestionPoints)
    /\ SetSuggestion(request[s].id, "REWARDED")
    /\ Finish(s)

WriteDismiss(s) ==
    /\ At(s, "dismiss.write")
    /\ SetSuggestion(request[s].id, "DISMISSED")
    /\ Finish(s)
    /\ UNCHANGED <<account, ledger>>

-----------------------------------------------------------------------------
(* Withdrawals: the user asks, the admin approves or rejects, transfers the  *)
(* money by KBZPay and marks the request paid.                               *)

\* RequestWithdrawalUseCase: getUserPointsSummary reads the balance ...
BeginWithdrawal(s, amount) ==
    /\ At(s, "idle")
    /\ IsActiveUser
    /\ Continue(s, [step |-> "withdraw.sum", amount |-> amount,
                    balance |-> account.points])
    /\ UNCHANGED <<account, ledger, tables>>

\* Mutant: the pending requests are not reserved.
SumNothing(s) ==
    /\ At(s, "withdraw.sum")
    /\ IF /\ "KBZPAY_VERIFIED_BONUS" \in reached
          /\ request[s].amount <= request[s].balance
       THEN Continue(s, [step |-> "withdraw.create", amount |-> request[s].amount])
       ELSE Finish(s)
    /\ UNCHANGED <<account, ledger, tables>>

\* ... then sums the pending requests, and KBZPay must be verified ...
SumPending(s) ==
    /\ At(s, "withdraw.sum")
    /\ LET available == request[s].balance - PendingIn(withdrawal) IN
       IF /\ "KBZPAY_VERIFIED_BONUS" \in reached
          /\ request[s].amount <= available
       THEN Continue(s, [step |-> "withdraw.create", amount |-> request[s].amount])
       ELSE Finish(s)
    /\ UNCHANGED <<account, ledger, tables>>

SetWithdrawal(w, row) ==
    /\ withdrawal' = WithRow(withdrawal, w, row)
    /\ UNCHANGED <<reached, submission, suggestion, cancelled>>

\* ... before the row is created.
CreateWithdrawal(s) ==
    /\ At(s, "withdraw.create")
    /\ \E w \in WithdrawalIds :
          /\ DOMAIN withdrawal = 1..(w - 1)
          /\ SetWithdrawal(w, [amount |-> request[s].amount, status |-> "PENDING"])
    /\ Finish(s)
    /\ UNCHANGED <<account, ledger>>

HasStatus(w, status) ==
    w \in DOMAIN withdrawal /\ withdrawal[w].status = status

SetStatus(w, status) ==
    SetWithdrawal(w, [withdrawal[w] EXCEPT !.status = status])

\* approveWithdrawal: the read of the block ...
ReadForApprove(s, w) ==
    /\ At(s, "idle")
    /\ HasStatus(w, "PENDING")
    /\ account.points >= withdrawal[w].amount
    /\ Continue(s, [step |-> "approve.write", id |-> w, balance |-> account.points])
    /\ UNCHANGED <<account, ledger, tables>>

\* ... and the commit
WriteApprove(s) ==
    /\ At(s, "approve.write")
    /\ LET w == request[s].id IN
       /\ Post(Withdrawn(w), request[s].balance, -withdrawal[w].amount)
       /\ SetStatus(w, "APPROVED")
    /\ Finish(s)

\* Mutant: an approved request can be rejected.
ReadForRejectLate(s, w) ==
    /\ At(s, "idle")
    /\ HasStatus(w, "APPROVED") \/ HasStatus(w, "PENDING")
    /\ Continue(s, [step |-> "reject.write", id |-> w])
    /\ UNCHANGED <<account, ledger, tables>>

ReadForReject(s, w) ==
    /\ At(s, "idle")
    /\ HasStatus(w, "PENDING")
    /\ Continue(s, [step |-> "reject.write", id |-> w])
    /\ UNCHANGED <<account, ledger, tables>>

\* rejectWithdrawal writes over whatever the status is by then.
WriteReject(s) ==
    /\ At(s, "reject.write")
    /\ SetStatus(request[s].id, "REJECTED")
    /\ Finish(s)
    /\ UNCHANGED <<account, ledger>>

\* Mutant: a pending request can be marked paid.
ReadForPaidEarly(s, w) ==
    /\ At(s, "idle")
    /\ HasStatus(w, "APPROVED") \/ HasStatus(w, "PENDING")
    /\ Continue(s, [step |-> "paid.write", id |-> w])
    /\ UNCHANGED <<account, ledger, tables>>

ReadForPaid(s, w) ==
    /\ At(s, "idle")
    /\ HasStatus(w, "APPROVED")
    /\ Continue(s, [step |-> "paid.write", id |-> w])
    /\ UNCHANGED <<account, ledger, tables>>

\* So does markWithdrawalPaid.
WritePaid(s) ==
    /\ At(s, "paid.write")
    /\ SetStatus(request[s].id, "TRANSFERRED")
    /\ Finish(s)
    /\ UNCHANGED <<account, ledger>>

-----------------------------------------------------------------------------
(* The penalty of a cancelled trade, and the admin's ban                     *)

\* Mutant: the account is blocked only when the balance is under the threshold.
ReadForPenaltyStrict(s, t) ==
    /\ At(s, "idle")
    /\ t \notin cancelled
    /\ cancelled' = cancelled \cup {t}
    /\ Continue(s, [step |-> "penalty.write", id |-> t, balance |-> account.points,
                    block |-> /\ account.points - CANCELLATION_PENALTY_POINTS < Threshold
                              /\ ~account.banned \/ account.active])
    /\ UNCHANGED <<account, ledger, reached, withdrawal, submission, suggestion>>

\* deductPointsForTransactionCancellation: the row that the block reads.  The
\* trade of ChatTransactions is charged to whoever cancelled it.
ReadForPenalty(s, t) ==
    /\ At(s, "idle")
    /\ t \notin cancelled
    /\ cancelled' = cancelled \cup {t}
    /\ Continue(s, [step |-> "penalty.write", id |-> t, balance |-> account.points,
                    block |-> /\ account.points - CANCELLATION_PENALTY_POINTS <= Threshold
                              /\ ~account.banned \/ account.active])
    /\ UNCHANGED <<account, ledger, reached, withdrawal, submission, suggestion>>

\* Mutant: the penalty leaves the rank as it was.
WritePenaltyKeepingRank(s) ==
    /\ At(s, "penalty.write")
    /\ LET q == request[s] IN
       /\ account' = [account EXCEPT !.points = q.balance - CANCELLATION_PENALTY_POINTS,
                                     !.banned = @ \/ q.block,
                                     !.active = @ /\ ~q.block]
       /\ ledger' = [ledger EXCEPT ![Penalty(q.id)] = @ + 1]
    /\ Finish(s)
    /\ UNCHANGED tables

\* Mutant: a penalty never leaves a debt.
WritePenaltyClamped(s) ==
    /\ At(s, "penalty.write")
    /\ LET q == request[s]
           points == IF q.balance < CANCELLATION_PENALTY_POINTS THEN 0
                     ELSE q.balance - CANCELLATION_PENALTY_POINTS
       IN /\ account' = [account EXCEPT !.points = points, !.rank = RankOf(points)]
          /\ ledger' = [ledger EXCEPT ![Penalty(q.id)] = @ + 1]
    /\ Finish(s)
    /\ UNCHANGED tables

WritePenalty(s) ==
    /\ At(s, "penalty.write")
    /\ LET q == request[s]
           points == q.balance - CANCELLATION_PENALTY_POINTS
       IN /\ account' = [account EXCEPT !.points = points, !.rank = RankOf(points),
                                        !.banned = account.banned \/ q.block,
                                        !.active = account.active /\ ~q.block]
          /\ ledger' = [ledger EXCEPT ![Penalty(q.id)] = @ + 1]
    /\ Finish(s)
    /\ UNCHANGED tables

\* setUserBanned, for the ban and the unban of the admin: isActive is left alone
SetUserBanned(banned) ==
    /\ account' = [account EXCEPT !.banned = banned]
    /\ UNCHANGED <<ledger, tables, request>>

-----------------------------------------------------------------------------
\* The process dies or the connection fails: what was committed stays.
Crash(s) ==
    /\ MayCrash
    /\ ~At(s, "idle")
    /\ Finish(s)
    /\ UNCHANGED <<account, ledger, tables>>

\* The requests, by the controllers that take them: the user's own points ...
PointsRoutes(s) ==
    \/ \E v \in ReviewIds : BeginReview(s, v)
    \/ \E amount \in Amounts : BeginWithdrawal(s, amount)

\* ... his Facebook account and the proof of a follow, his suggestions ...
FollowRoutes(s) == BeginLink(s) \/ BeginSubmission(s)

ClientSuggestionRoutes(s) == BeginSuggestion(s)

\* ... and what the admin does with the proofs, suggestions and withdrawals.
FollowReviewRoutes(s) ==
    \E f \in SubmissionIds, verdict \in {"follow.find", "follow.reject"} :
        BeginFollowReview(s, f, verdict)

SuggestionRoutes(s) ==
    \E g \in SuggestionIds, verdict \in {"reward.read", "dismiss.write"} :
        BeginSuggestionReview(s, g, verdict)

WithdrawalRoutes(s) ==
    \E w \in WithdrawalIds :
        ReadForApprove(s, w) \/ ReadForReject(s, w) \/ ReadForPaid(s, w)

Begin(s) ==
    \/ \E m \in Milestones : BeginMilestone(s, m)
    \/ PointsRoutes(s) \/ FollowRoutes(s) \/ ClientSuggestionRoutes(s)
    \/ FollowReviewRoutes(s) \/ SuggestionRoutes(s) \/ WithdrawalRoutes(s)
    \/ \E t \in TradeIds : ReadForPenalty(s, t)

EarningStep(s) ==
    \/ FindBonus(s) \/ ReadForBonus(s) \/ WriteBonus(s)
    \/ SetFacebookLink(s) \/ CreateSubmission(s)
    \/ FindFollow(s) \/ ReadForFollow(s) \/ WriteFollow(s)
    \/ CloseFollow(s) \/ RejectFollow(s)
    \/ ReadForReview(s) \/ WriteReview(s)
    \/ CreateSuggestion(s) \/ ReadForReward(s) \/ WriteReward(s) \/ WriteDismiss(s)

SpendingStep(s) ==
    \/ SumPending(s) \/ CreateWithdrawal(s)
    \/ WriteApprove(s) \/ WriteReject(s) \/ WritePaid(s) \/ WritePenalty(s)

\* The handler in slot s runs up to its next await.
Step(s) == EarningStep(s) \/ SpendingStep(s)

Next ==
    \/ \E s \in Slots : Begin(s) \/ Step(s) \/ Crash(s)
    \/ \E banned \in BOOLEAN : SetUserBanned(banned)

Spec == Init /\ [][Next]_vars

\* A handler that was accepted keeps running.
FairSpec == Spec /\ \A s \in Slots : WF_vars(Step(s))

-----------------------------------------------------------------------------
(* What holds whatever the interleaving                                      *)

TypeOK ==
    /\ account \in Account
    /\ reached \subseteq Milestones
    /\ ledger \in [Entries -> Nat]
    /\ DOMAIN withdrawal \subseteq WithdrawalIds
    /\ withdrawal \in [DOMAIN withdrawal -> Withdrawal]
    /\ DOMAIN submission \subseteq SubmissionIds
    /\ submission \in [DOMAIN submission -> ReviewStatus]
    /\ suggestion \in [SuggestionIds -> SuggestionStatus]
    /\ cancelled \subseteq TradeIds
    /\ request \in [Slots -> Request]

\* No money leaves without a deduction: a withdrawal that is approved or
\* transferred has an entry in the ledger, although approvals, rejections and
\* payments overwrite one another's status.
PaidWasDeducted ==
    \A w \in DOMAIN withdrawal :
        withdrawal[w].status \in {"APPROVED", "TRANSFERRED"} =>
            ledger[Withdrawn(w)] > 0

\* A review gives its points once, even when it is submitted twice at a time.
ReviewAwardedOnce == \A v \in ReviewIds : ledger[Review(v)] <= 1

\* The rank shown with a balance is the rank of that balance: blocks that race
\* lose whole updates, never half of one.
RankMatchesBalance == account.rank = RankOf(account.points)

\* An account whose balance is at the threshold or below is blocked, however
\* stale the balance and the flags that led there: no block that raises the
\* balance again, and no unban, makes it active.
BlockedAtThreshold == account.points <= Threshold => ~account.active

\* Approving a withdrawal leaves no debt, even from a stale balance.
ApprovalLeavesNoDebt ==
    [][(\E w \in WithdrawalIds : ledger'[Withdrawn(w)] > ledger[Withdrawn(w)])
          => account'.points >= 0]_vars

StepsOfBalance == {"bonus.write", "follow.write", "review.write", "reward.write",
                   "approve.write", "penalty.write"}

StepsOfSubmission == {"follow.find", "follow.read", "follow.write", "follow.close",
                      "follow.reject"}

StepsOfWithdrawal == {"approve.write", "reject.write", "paid.write"}

\* What the handler with the local variables q relies on in the tables
RequestOK(q, user, entries, withdrawals, submissions) ==
    /\ q.step \in StepsOfBalance => (q.balance <= Threshold => ~user.active)
    /\ q.step \in StepsOfSubmission => q.id \in DOMAIN submissions
    /\ q.step \in StepsOfWithdrawal => q.id \in DOMAIN withdrawals
    /\ q.step = "approve.write" => q.balance >= withdrawals[q.id].amount
    /\ q.step = "paid.write" => entries[Withdrawn(q.id)] > 0
    /\ q.step = "penalty.write" =>
          (q.balance - CANCELLATION_PENALTY_POINTS <= Threshold =>
              q.block \/ ~user.active)

\* The inductive invariant
Inv ==
    /\ TypeOK
    /\ \A s \in Slots :
          RequestOK(request[s], account, ledger, withdrawal, submission)
    /\ PaidWasDeducted
    /\ ReviewAwardedOnce
    /\ RankMatchesBalance
    /\ BlockedAtThreshold

-----------------------------------------------------------------------------
(* What holds when the requests are served one at a time: with one slot      *)

AmountOf(entry) ==
    CASE entry.source \in AccountMilestones -> ACCOUNT_MILESTONE_BONUS_POINTS
      [] entry.source = "FACEBOOK_FOLLOW_REWARD" -> FACEBOOK_FOLLOW_REWARD_POINTS
      [] entry.source = "REVIEW_RECEIVED" -> ReviewPoints
      [] entry.source = "SUGGESTION_REWARD" -> SuggestionPoints
      [] entry.source = "ADMIN_GRANT" -> -CANCELLATION_PENALTY_POINTS
      [] entry.source = "WITHDRAWAL" -> -withdrawal[entry.ref].amount

LedgerSum ==
    LET Total(entry) == ledger[entry] * AmountOf(entry)
    IN MapThenSumSet(Total, {e \in Entries : ledger[e] > 0})

\* The ledger explains the balance: each change of the balance is the amount
\* of one entry.
BalanceIsLedgerSum == account.points = LedgerSum

\* A milestone gives its bonus once, and so does the Facebook follow, over all
\* the submissions of the account.
OncePerLifetime ==
    /\ \A m \in Milestones : ledger[Bonus(m)] <= 1
    /\ \A f, g \in SubmissionIds :
          ledger[Follow(f)] > 0 /\ ledger[Follow(g)] > 0 =>
              f = g /\ ledger[Follow(f)] = 1

\* Points are deducted once for a withdrawal that is approved, and not at all
\* for one that is pending or rejected; a suggestion gives its points once it
\* is rewarded, and none when it is dismissed.
StatusMatchesLedger ==
    /\ \A w \in WithdrawalIds :
          ledger[Withdrawn(w)] =
             IF HasStatus(w, "APPROVED") \/ HasStatus(w, "TRANSFERRED") THEN 1 ELSE 0
    /\ \A g \in SuggestionIds :
          ledger[Reward(g)] = IF suggestion[g] = "REWARDED" THEN 1 ELSE 0

\* A request for a withdrawal is accepted only when the balance covers it and
\* the requests that are pending already.
RequestsAreCovered ==
    [][DOMAIN withdrawal' # DOMAIN withdrawal =>
          PendingIn(withdrawal') <= account.points]_vars

\* Whoever reaches a milestone gets its bonus in the end.
MilestoneIsRewarded ==
    \A m \in Milestones : m \in reached ~> (ledger[Bonus(m)] > 0)

=============================================================================
