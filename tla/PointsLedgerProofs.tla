------------------------- MODULE PointsLedgerProofs -------------------------
(***************************************************************************)
(* What holds of the points of an account for every number of handlers in  *)
(* flight, every table size and every configuration of the amounts.        *)
(*                                                                         *)
(* Inv is inductive.  Its parts about the requests say what a handler may  *)
(* still rely on when it writes what it computed from old reads: an account *)
(* is never made active again, the ledger only grows, and rows of the      *)
(* tables stay, with the same amount.  Stays collects these facts: every   *)
(* step is shown to keep them, and whatever keeps them leaves what the     *)
(* other handlers rely on.                                                 *)
(*                                                                         *)
(* The last parts are about requests that are served one at a time: with   *)
(* one slot AloneInv is inductive, and the balance is the sum of the       *)
(* ledger.  For that the sums of the model, which CHOOSE orders, are shown *)
(* to be independent of the order.                                         *)
(***************************************************************************)
EXTENDS PointsLedger, FiniteSetTheorems, WellFoundedInduction, TLAPS

\* The type of everything but the handlers
TablesTyped ==
    /\ account \in Account
    /\ reached \subseteq Milestones
    /\ ledger \in [Entries -> Nat]
    /\ DOMAIN withdrawal \subseteq WithdrawalIds
    /\ withdrawal \in [DOMAIN withdrawal -> Withdrawal]
    /\ DOMAIN submission \subseteq SubmissionIds
    /\ submission \in [DOMAIN submission -> ReviewStatus]
    /\ suggestion \in [SuggestionIds -> SuggestionStatus]
    /\ cancelled \subseteq TradeIds

TablesOK ==
    /\ TablesTyped
    /\ PaidWasDeducted
    /\ ReviewAwardedOnce
    /\ RankMatchesBalance
    /\ BlockedAtThreshold

\* What no step takes back
Stays ==
    /\ account'.active => account.active
    /\ \A e \in Entries : ledger'[e] >= ledger[e]
    /\ DOMAIN submission \subseteq DOMAIN submission'
    /\ DOMAIN withdrawal \subseteq DOMAIN withdrawal'
    /\ \A w \in DOMAIN withdrawal : withdrawal'[w].amount = withdrawal[w].amount

\* The invariant, split into the tables and the handlers
LEMMA InvParts ==
    /\ Inv <=> /\ TablesOK
               /\ request \in [Slots -> Request]
               /\ \A s \in Slots :
                     RequestOK(request[s], account, ledger, withdrawal, submission)
    /\ Inv' <=> /\ TablesOK'
                /\ request' \in [Slots -> Request]
                /\ \A s \in Slots :
                      RequestOK(request'[s], account', ledger', withdrawal', submission')
BY DEF Inv, TypeOK, TablesOK, TablesTyped

\* Every balance has a rank.
LEMMA RankTyped == ASSUME NEW p \in Int PROVE RankOf(p) \in Tiers
<1> DEFINE fits == {i \in 1..5 : /\ p >= RankConfigs[i].min
                                 /\ \/ RankConfigs[i].max = NoCap
                                    \/ p <= RankConfigs[i].max}
<1>1. CASE fits = {}
  BY <1>1 DEF RankOf, Tiers
<1>2. CASE fits # {}
  <2>1. \E i \in fits : \A j \in fits : i <= j
    BY <1>2
  <2>2. PICK i \in fits : i = CHOOSE k \in fits : \A j \in fits : k <= j
    BY <2>1
  <2>3. i \in 1..5
    OBVIOUS
  <2>4. RankConfigs[i].tier \in Tiers
    BY <2>3 DEF RankConfigs, Tiers
  <2> QED BY <1>2, <2>2, <2>4 DEF RankOf
<1> QED BY <1>1, <1>2

\* Which local variables a handler has depends on its step only.
LEMMA RequestFields ==
    ASSUME NEW q \in Request
    PROVE  /\ q.step \in {"bonus.find", "bonus.read", "bonus.write"} =>
                 q.source \in Milestones
           /\ q.step \in StepsOfBalance \cup {"withdraw.sum"} => q.balance \in Int
           /\ q.step \in StepsOfSubmission => q.id \in SubmissionIds
           /\ q.step \in StepsOfWithdrawal => q.id \in WithdrawalIds
           /\ q.step \in {"review.read", "review.write"} => q.id \in ReviewIds
           /\ q.step \in {"reward.read", "reward.write", "dismiss.write"} =>
                 q.id \in SuggestionIds
           /\ q.step \in {"withdraw.sum", "withdraw.create"} => q.amount \in Amounts
           /\ q.step = "penalty.write" => q.id \in TradeIds /\ q.block \in BOOLEAN
           /\ q.step \in {"bonus.find", "bonus.read"} =>
                 q = [step |-> q.step, source |-> q.source]
BY DEF Request, Idle, StepsOfBalance, StepsOfSubmission, StepsOfWithdrawal

\* Entries of the ledger, and which of them are of reviews and withdrawals
LEMMA EntriesTyped ==
    /\ \A m \in Milestones : Bonus(m) \in Entries
    /\ \A f \in SubmissionIds : Follow(f) \in Entries
    /\ \A v \in ReviewIds : Review(v) \in Entries
    /\ \A g \in SuggestionIds : Reward(g) \in Entries
    /\ \A w \in WithdrawalIds : Withdrawn(w) \in Entries
    /\ \A t \in TradeIds : Penalty(t) \in Entries
BY DEF Entries

\* An entry of another source is not a review.
LEMMA NotReview ==
    ASSUME NEW v
    PROVE  /\ \A m \in Milestones : Bonus(m) # Review(v)
           /\ \A f : Follow(f) # Review(v)
           /\ \A g : Reward(g) # Review(v)
           /\ \A w : Withdrawn(w) # Review(v)
           /\ \A t : Penalty(t) # Review(v)
BY MilestonesAssumption
   DEF Bonus, Follow, Review, Reward, Withdrawn, Penalty, AccountMilestones

\* What the handlers rely on survives the steps of the others.
LEMMA StillRelied ==
    ASSUME Inv, TablesTyped', Stays, NEW q \in Request,
           RequestOK(q, account, ledger, withdrawal, submission)
    PROVE  RequestOK(q, account', ledger', withdrawal', submission')
<1>1. q.step = "paid.write" => ledger'[Withdrawn(q.id)] > 0
  <2> SUFFICES ASSUME q.step = "paid.write" PROVE ledger'[Withdrawn(q.id)] > 0
    OBVIOUS
  <2>1. q.id \in WithdrawalIds
    BY RequestFields DEF StepsOfWithdrawal
  <2>2. Withdrawn(q.id) \in Entries
    BY <2>1, EntriesTyped
  <2>3. ledger[Withdrawn(q.id)] > 0
    BY DEF RequestOK
  <2>4. ledger[Withdrawn(q.id)] \in Nat /\ ledger'[Withdrawn(q.id)] \in Nat
    BY <2>2 DEF Inv, TypeOK, TablesTyped
  <2> QED BY <2>2, <2>3, <2>4 DEF Stays
<1>2. q.step = "approve.write" => q.balance >= withdrawal'[q.id].amount
  BY DEF RequestOK, Stays, StepsOfWithdrawal
<1> QED BY <1>1, <1>2 DEF RequestOK, Stays

\* A handler continues with q, the tables are as they should be, and nothing
\* that the others rely on is taken back.
LEMMA HandlerStep ==
    ASSUME Inv, NEW s \in Slots, NEW q \in Request, Continue(s, q),
           TablesOK', Stays,
           RequestOK(q, account', ledger', withdrawal', submission')
    PROVE  Inv'
<1>1. request' \in [Slots -> Request]
  BY DEF Inv, TypeOK, Continue
<1>2. ASSUME NEW x \in Slots
      PROVE  RequestOK(request'[x], account', ledger', withdrawal', submission')
  <2>1. CASE x = s
    BY <2>1 DEF Inv, TypeOK, Continue
  <2>2. CASE x # s
    <3>1. request'[x] = request[x] /\ request[x] \in Request
      BY <2>2 DEF Inv, TypeOK, Continue
    <3>2. RequestOK(request[x], account, ledger, withdrawal, submission)
      BY DEF Inv
    <3> QED BY <3>1, <3>2, StillRelied DEF TablesOK
  <2> QED BY <2>1, <2>2
<1> QED BY <1>1, <1>2, InvParts

\* A handler that is done relies on nothing.
LEMMA IdleRelied ==
    ASSUME NEW u, NEW e, NEW w, NEW f
    PROVE  Idle \in Request /\ RequestOK(Idle, u, e, w, f)
BY DEF Request, RequestOK, Idle, StepsOfBalance, StepsOfSubmission, StepsOfWithdrawal

\* A handler reads and continues with q.
LEMMA ReadStep ==
    ASSUME Inv, NEW s \in Slots, NEW q \in Request, Continue(s, q),
           UNCHANGED <<account, ledger, withdrawal, submission, suggestion>>,
           reached' \subseteq Milestones, cancelled' \subseteq TradeIds,
           RequestOK(q, account, ledger, withdrawal, submission)
    PROVE  Inv'
<1>1. TablesOK'
  BY DEF Inv, TypeOK, TablesOK, TablesTyped, PaidWasDeducted, ReviewAwardedOnce,
         RankMatchesBalance, BlockedAtThreshold
<1>2. Stays
  BY DEF Stays, Inv, TypeOK
<1> QED BY <1>1, <1>2, HandlerStep

\* A handler reads and gives up.
LEMMA GiveUpStep ==
    ASSUME Inv, NEW s \in Slots, Finish(s), UNCHANGED <<account, ledger, tables>>
    PROVE  Inv'
BY IdleRelied, ReadStep DEF Finish, tables, Inv, TypeOK

\* A block commits an entry together with the balance that it computed from an
\* old one.  Reviews have an entry at most; the balance may be at the threshold
\* only if the account is blocked already.
LEMMA PostTables ==
    ASSUME Inv, NEW entry \in Entries, NEW balance \in Int, NEW amount \in Int,
           Post(entry, balance, amount),
           \A v \in ReviewIds : entry = Review(v) => ledger[entry] = 0,
           balance + amount <= Threshold => ~account.active,
           UNCHANGED <<reached, submission, cancelled>>,
           suggestion' \in [SuggestionIds -> SuggestionStatus],
           DOMAIN withdrawal' = DOMAIN withdrawal,
           withdrawal' \in [DOMAIN withdrawal -> Withdrawal],
           \A w \in DOMAIN withdrawal :
               /\ withdrawal'[w].amount = withdrawal[w].amount
               /\ withdrawal'[w] = withdrawal[w] \/ entry = Withdrawn(w)
    PROVE  TablesOK' /\ Stays /\ account'.active = account.active
                    /\ ledger'[entry] > 0
<1>1. /\ account' \in Account
      /\ account'.points = balance + amount
      /\ account'.rank = RankOf(balance + amount)
      /\ account'.active = account.active
  <2>1. account \in Account
    BY DEF Inv, TypeOK
  <2>2. balance + amount \in Int /\ RankOf(balance + amount) \in Tiers
    BY RankTyped
  <2> DEFINE rank == RankOf(balance + amount)
  <2>3. account' = [account EXCEPT !.points = balance + amount, !.rank = rank]
    BY DEF Post
  <2>5. rank \in Tiers
    BY <2>2
  <2> HIDE DEF rank
  <2>4. /\ account' \in Account
        /\ account'.points = balance + amount
        /\ account'.rank = rank
        /\ account'.active = account.active
    BY <2>1, <2>2, <2>3, <2>5 DEF Account
  <2> QED BY <2>4 DEF rank
<1>2. /\ ledger' \in [Entries -> Nat]
      /\ \A e \in Entries : ledger'[e] >= ledger[e]
      /\ \A e \in Entries : e # entry => ledger'[e] = ledger[e]
      /\ ledger'[entry] = ledger[entry] + 1
  BY DEF Inv, TypeOK, Post
<1>3. ledger'[entry] > 0
  BY <1>2 DEF Inv, TypeOK
<1>4. TablesTyped'
  BY <1>1, <1>2 DEF Inv, TypeOK, TablesTyped
<1>5. PaidWasDeducted'
  <2> SUFFICES ASSUME NEW w \in DOMAIN withdrawal',
                      withdrawal'[w].status \in {"APPROVED", "TRANSFERRED"}
               PROVE  ledger'[Withdrawn(w)] > 0
    BY DEF PaidWasDeducted
  <2>1. CASE entry = Withdrawn(w)
    BY <2>1, <1>3
  <2>2. CASE entry # Withdrawn(w)
    <3>1. w \in WithdrawalIds /\ Withdrawn(w) \in Entries
      BY EntriesTyped DEF Inv, TypeOK
    <3>2. ledger[Withdrawn(w)] > 0
      BY <2>2 DEF Inv, PaidWasDeducted
    <3> QED BY <2>2, <3>1, <3>2, <1>2
  <2> QED BY <2>1, <2>2
<1>6. ReviewAwardedOnce'
  <2> SUFFICES ASSUME NEW v \in ReviewIds PROVE ledger'[Review(v)] <= 1
    BY DEF ReviewAwardedOnce
  <2>1. Review(v) \in Entries
    BY EntriesTyped
  <2>2. ledger[Review(v)] <= 1
    BY DEF Inv, ReviewAwardedOnce
  <2> QED BY <2>1, <2>2, <1>2
<1>7. RankMatchesBalance' /\ BlockedAtThreshold'
  BY <1>1 DEF RankMatchesBalance, BlockedAtThreshold, Threshold
<1>8. Stays
  BY <1>1, <1>2 DEF Stays
<1> QED BY <1>1, <1>3, <1>4, <1>5, <1>6, <1>7, <1>8 DEF TablesOK

\* The handler that commits an entry of the ledger and no other row
LEMMA PostStep ==
    ASSUME Inv, NEW s \in Slots, NEW q \in Request, Continue(s, q),
           NEW entry \in Entries, NEW balance \in Int, NEW amount \in Nat,
           Post(entry, balance, amount),
           \A v \in ReviewIds : entry = Review(v) => ledger[entry] = 0,
           balance <= Threshold => ~account.active,
           UNCHANGED <<reached, submission, cancelled, withdrawal>>,
           suggestion' \in [SuggestionIds -> SuggestionStatus],
           q.step \notin StepsOfBalance \cup StepsOfWithdrawal,
           q.step \in StepsOfSubmission => q.id \in DOMAIN submission
    PROVE  Inv'
<1>1. balance + amount <= Threshold => ~account.active
  BY PointsAssumption DEF Threshold
<1>2. withdrawal' \in [DOMAIN withdrawal -> Withdrawal]
  BY DEF Inv, TypeOK
<1>3. TablesOK' /\ Stays
  BY <1>1, <1>2, PostTables
<1>4. RequestOK(q, account', ledger', withdrawal', submission')
  BY DEF RequestOK, StepsOfBalance, StepsOfWithdrawal
<1> QED BY <1>3, <1>4, HandlerStep

\* A handler writes the status of a submission or of a suggestion, or creates a
\* submission.
LEMMA StatusStep ==
    ASSUME Inv, NEW s \in Slots, Finish(s),
           UNCHANGED <<account, ledger, reached, withdrawal, cancelled>>,
           DOMAIN submission \subseteq DOMAIN submission',
           DOMAIN submission' \subseteq SubmissionIds,
           submission' \in [DOMAIN submission' -> ReviewStatus],
           suggestion' \in [SuggestionIds -> SuggestionStatus]
    PROVE  Inv'
<1>1. TablesOK'
  BY DEF Inv, TypeOK, TablesOK, TablesTyped, PaidWasDeducted, ReviewAwardedOnce,
         RankMatchesBalance, BlockedAtThreshold
<1>2. Stays
  BY DEF Stays, Inv, TypeOK
<1> QED BY <1>1, <1>2, IdleRelied, HandlerStep DEF Finish

\* A handler creates a withdrawal or writes the status of one.
LEMMA WithdrawalStep ==
    ASSUME Inv, NEW s \in Slots, Finish(s), NEW w \in WithdrawalIds,
           NEW row \in Withdrawal,
           UNCHANGED <<account, ledger>>, SetWithdrawal(w, row),
           w \in DOMAIN withdrawal => row.amount = withdrawal[w].amount,
           row.status \in {"APPROVED", "TRANSFERRED"} => ledger[Withdrawn(w)] > 0
    PROVE  Inv'
<1>1. /\ DOMAIN withdrawal' = DOMAIN withdrawal \cup {w}
      /\ withdrawal'[w] = row
      /\ \A x \in DOMAIN withdrawal : x # w => withdrawal'[x] = withdrawal[x]
      /\ withdrawal' \in [DOMAIN withdrawal' -> Withdrawal]
  BY DEF SetWithdrawal, WithRow, Inv, TypeOK
<1>2. TablesTyped'
  BY <1>1 DEF SetWithdrawal, Inv, TypeOK, TablesTyped
<1>3. PaidWasDeducted'
  BY <1>1 DEF PaidWasDeducted, Inv
<1>4. TablesOK'
  BY <1>2, <1>3 DEF Inv, TablesOK, ReviewAwardedOnce, RankMatchesBalance,
                    BlockedAtThreshold
<1>5. Stays
  BY <1>1 DEF Stays, Inv, TypeOK, SetWithdrawal
<1> QED BY <1>4, <1>5, IdleRelied, HandlerStep DEF Finish

\* Records of handlers that work on no balance, no submission and no withdrawal
LEMMA FreeRelied ==
    ASSUME NEW q,
           q.step \notin StepsOfBalance \cup StepsOfSubmission \cup StepsOfWithdrawal
    PROVE  RequestOK(q, account, ledger, withdrawal, submission)
BY DEF RequestOK, StepsOfBalance, StepsOfWithdrawal

\* A handler starts with what it has read.
LEMMA BeginSteps ==
    ASSUME Inv, NEW s \in Slots, Begin(s)
    PROVE  Inv'
<1> USE DEF StepsOfBalance, StepsOfSubmission, StepsOfWithdrawal
<1>1. ASSUME NEW m \in Milestones, BeginMilestone(s, m) PROVE Inv'
  <2> DEFINE q == [step |-> "bonus.find", source |-> m]
  <2>1. q \in Request
    BY DEF Request
  <2>2. reached' \subseteq Milestones
    BY <1>1 DEF BeginMilestone, Inv, TypeOK
  <2>3. cancelled' \subseteq TradeIds
    BY <1>1 DEF BeginMilestone, Inv, TypeOK
  <2> QED BY <1>1, <2>1, <2>2, <2>3, FreeRelied, ReadStep DEF BeginMilestone
<1>2. CASE BeginSubmission(s)
  <2> DEFINE q == [step |-> "follow.create"]
  <2>1. q \in Request
    BY DEF Request
  <2> QED BY <1>2, <2>1, FreeRelied, ReadStep DEF BeginSubmission, tables, Inv, TypeOK
<1>3. ASSUME NEW f \in SubmissionIds, NEW verdict \in {"follow.find", "follow.reject"},
             BeginFollowReview(s, f, verdict)
      PROVE  Inv'
  <2> DEFINE q == [step |-> verdict, id |-> f]
  <2>1. q \in Request
    BY DEF Request
  <2>2. RequestOK(q, account, ledger, withdrawal, submission)
    BY <1>3 DEF RequestOK, BeginFollowReview
  <2> QED BY <1>3, <2>1, <2>2, ReadStep DEF BeginFollowReview, tables, Inv, TypeOK
<1>4. ASSUME NEW v \in ReviewIds, BeginReview(s, v) PROVE Inv'
  <2> DEFINE q == [step |-> "review.read", id |-> v]
  <2>1. q \in Request
    BY DEF Request
  <2> QED BY <1>4, <2>1, FreeRelied, ReadStep DEF BeginReview, tables, Inv, TypeOK
<1>5. ASSUME NEW g \in SuggestionIds, NEW verdict \in {"reward.read", "dismiss.write"},
             BeginSuggestionReview(s, g, verdict)
      PROVE  Inv'
  <2> DEFINE q == [step |-> verdict, id |-> g]
  <2>1. q \in Request
    BY DEF Request
  <2> QED BY <1>5, <2>1, FreeRelied, ReadStep
             DEF BeginSuggestionReview, tables, Inv, TypeOK
<1>6. ASSUME NEW amount \in Amounts, BeginWithdrawal(s, amount) PROVE Inv'
  <2> DEFINE q == [step |-> "withdraw.sum", amount |-> amount, balance |-> account.points]
  <2>1. q \in Request
    BY DEF Request, Inv, TypeOK, Account
  <2> QED BY <1>6, <2>1, FreeRelied, ReadStep DEF BeginWithdrawal, tables, Inv, TypeOK
<1>7. ASSUME NEW w \in WithdrawalIds, ReadForApprove(s, w) PROVE Inv'
  <2> DEFINE q == [step |-> "approve.write", id |-> w, balance |-> account.points]
  <2>1. q \in Request
    BY DEF Request, Inv, TypeOK, Account
  <2>2. RequestOK(q, account, ledger, withdrawal, submission)
    BY <1>7 DEF RequestOK, ReadForApprove, HasStatus, Inv, BlockedAtThreshold
  <2> QED BY <1>7, <2>1, <2>2, ReadStep DEF ReadForApprove, tables, Inv, TypeOK
<1>8. ASSUME NEW w \in WithdrawalIds, ReadForReject(s, w) PROVE Inv'
  <2> DEFINE q == [step |-> "reject.write", id |-> w]
  <2>1. q \in Request
    BY DEF Request
  <2>2. RequestOK(q, account, ledger, withdrawal, submission)
    BY <1>8 DEF RequestOK, ReadForReject, HasStatus
  <2> QED BY <1>8, <2>1, <2>2, ReadStep DEF ReadForReject, tables, Inv, TypeOK
<1>9. ASSUME NEW w \in WithdrawalIds, ReadForPaid(s, w) PROVE Inv'
  <2> DEFINE q == [step |-> "paid.write", id |-> w]
  <2>1. q \in Request
    BY DEF Request
  <2>2. RequestOK(q, account, ledger, withdrawal, submission)
    BY <1>9 DEF RequestOK, ReadForPaid, HasStatus, Inv, PaidWasDeducted
  <2> QED BY <1>9, <2>1, <2>2, ReadStep DEF ReadForPaid, tables, Inv, TypeOK
<1>10. ASSUME NEW t \in TradeIds, ReadForPenalty(s, t) PROVE Inv'
  <2> DEFINE block == /\ account.points - CANCELLATION_PENALTY_POINTS <= Threshold
                      /\ ~account.banned \/ account.active
             q == [step |-> "penalty.write", id |-> t, balance |-> account.points,
                   block |-> block]
  <2>1. account.points \in Int /\ account.active \in BOOLEAN
        /\ account.banned \in BOOLEAN /\ block \in BOOLEAN
    BY DEF Inv, TypeOK, Account
  <2>2. q \in Request
    BY <2>1 DEF Request
  <2>3. account.points - CANCELLATION_PENALTY_POINTS <= Threshold =>
            block \/ ~account.active
    BY <2>1
  <2>4. RequestOK(q, account, ledger, withdrawal, submission)
    BY <2>3 DEF RequestOK, Inv, BlockedAtThreshold
  <2>5. reached' \subseteq Milestones /\ cancelled' \subseteq TradeIds
    BY <1>10 DEF ReadForPenalty, Inv, TypeOK
  <2> QED BY <1>10, <2>2, <2>4, <2>5, ReadStep DEF ReadForPenalty
<1>11. CASE BeginLink(s)
  <2> DEFINE q == [step |-> "link.write"]
  <2>1. q \in Request
    BY DEF Request
  <2> QED BY <1>11, <2>1, FreeRelied, ReadStep DEF BeginLink, tables, Inv, TypeOK
<1>12. CASE BeginSuggestion(s)
  <2> DEFINE q == [step |-> "suggest.create"]
  <2>1. q \in Request
    BY DEF Request
  <2> QED BY <1>12, <2>1, FreeRelied, ReadStep DEF BeginSuggestion, tables, Inv, TypeOK
<1> QED BY <1>1, <1>2, <1>3, <1>4, <1>5, <1>6, <1>7, <1>8, <1>9, <1>10, <1>11, <1>12
     DEF Begin, PointsRoutes, FollowRoutes, ClientSuggestionRoutes, FollowReviewRoutes,
         SuggestionRoutes, WithdrawalRoutes

\* The bonus of a milestone and the reward of the Facebook follow
LEMMA BonusSteps ==
    ASSUME Inv, NEW s \in Slots,
           FindBonus(s) \/ ReadForBonus(s) \/ WriteBonus(s)
    PROVE  Inv'
<1> USE DEF StepsOfBalance, StepsOfSubmission, StepsOfWithdrawal
<1>0. request[s] \in Request /\ account.points \in Int
      /\ RequestOK(request[s], account, ledger, withdrawal, submission)
  BY DEF Inv, TypeOK, Account
<1>1. CASE FindBonus(s)
  <2>1. CASE Finish(s)
    BY <1>1, <2>1, GiveUpStep DEF FindBonus
  <2>2. CASE ~Finish(s)
    <3> DEFINE q == [step |-> "bonus.read", source |-> request[s].source]
    <3>1. q \in Request
      BY <1>0, <1>1, RequestFields DEF FindBonus, At, Request
    <3>2. Continue(s, q)
      BY <1>0, <1>1, <2>2, RequestFields DEF FindBonus, At, Continue
    <3> QED BY <1>1, <3>1, <3>2, FreeRelied, ReadStep DEF FindBonus, tables, Inv, TypeOK
  <2> QED BY <2>1, <2>2
<1>2. CASE ReadForBonus(s)
  <2> DEFINE q == [step |-> "bonus.write", source |-> request[s].source,
                   balance |-> account.points]
  <2>1. q \in Request
    BY <1>0, <1>2, RequestFields DEF ReadForBonus, At, Request
  <2>2. RequestOK(q, account, ledger, withdrawal, submission)
    BY DEF RequestOK, Inv, BlockedAtThreshold
  <2> QED BY <1>2, <2>1, <2>2, ReadStep DEF ReadForBonus, tables, Inv, TypeOK
<1>3. CASE WriteBonus(s)
  <2> DEFINE m == request[s].source
  <2>1. m \in Milestones /\ request[s].balance \in Int
    BY <1>0, <1>3, RequestFields DEF WriteBonus, At
  <2>2. Bonus(m) \in Entries /\ \A v \in ReviewIds : Bonus(m) # Review(v)
    BY <2>1, EntriesTyped, NotReview
  <2>3. request[s].balance <= Threshold => ~account.active
    BY <1>0, <1>3 DEF RequestOK, WriteBonus, At
  <2>4. Post(Bonus(m), request[s].balance, ACCOUNT_MILESTONE_BONUS_POINTS)
        /\ Continue(s, Idle)
    BY <1>3 DEF WriteBonus, Finish
  <2>5. ACCOUNT_MILESTONE_BONUS_POINTS \in Nat
    BY DEF ACCOUNT_MILESTONE_BONUS_POINTS
  <2>6. /\ UNCHANGED <<reached, submission, cancelled, withdrawal>>
        /\ suggestion' \in [SuggestionIds -> SuggestionStatus]
    BY <1>3 DEF WriteBonus, tables, Inv, TypeOK
  <2>7. Idle \in Request /\ Idle.step = "idle"
    BY DEF Idle, Request
  <2> QED BY <2>1, <2>2, <2>3, <2>4, <2>5, <2>6, <2>7, PostStep
<1> QED BY <1>1, <1>2, <1>3

\* The Facebook follow: the submission, the reward and the verdict
LEMMA FollowSteps ==
    ASSUME Inv, NEW s \in Slots,
           \/ CreateSubmission(s) \/ FindFollow(s) \/ ReadForFollow(s)
           \/ WriteFollow(s) \/ CloseFollow(s) \/ RejectFollow(s)
    PROVE  Inv'
<1> USE DEF StepsOfBalance, StepsOfSubmission, StepsOfWithdrawal
<1> DEFINE f == request[s].id
<1>0. request[s] \in Request /\ account.points \in Int
      /\ RequestOK(request[s], account, ledger, withdrawal, submission)
  BY DEF Inv, TypeOK, Account
<1>1. CASE CreateSubmission(s)
  <2>1. /\ DOMAIN submission \subseteq DOMAIN submission'
        /\ DOMAIN submission' \subseteq SubmissionIds
        /\ submission' \in [DOMAIN submission' -> ReviewStatus]
    BY <1>1 DEF CreateSubmission, WithRow, ReviewStatus, Inv, TypeOK
  <2>2. suggestion' \in [SuggestionIds -> SuggestionStatus]
    BY <1>1 DEF CreateSubmission, Inv, TypeOK
  <2> QED BY <1>1, <2>1, <2>2, StatusStep DEF CreateSubmission
<1>2. CASE FindFollow(s)
  <2>1. CASE Finish(s)
    BY <1>2, <2>1, GiveUpStep DEF FindFollow
  <2>2. CASE ~Finish(s)
    <3> DEFINE q == [step |-> "follow.read", id |-> f]
    <3>1. q \in Request /\ RequestOK(q, account, ledger, withdrawal, submission)
      BY <1>0, <1>2, RequestFields DEF FindFollow, At, Request, RequestOK
    <3> QED BY <1>2, <2>2, <3>1, ReadStep DEF FindFollow, tables, Inv, TypeOK
  <2> QED BY <2>1, <2>2
<1>3. CASE ReadForFollow(s)
  <2> DEFINE q == [step |-> "follow.write", id |-> f, balance |-> account.points]
  <2>1. q \in Request
    BY <1>0, <1>3, RequestFields DEF ReadForFollow, At, Request
  <2>2. RequestOK(q, account, ledger, withdrawal, submission)
    BY <1>0, <1>3 DEF ReadForFollow, At, RequestOK, Inv, BlockedAtThreshold
  <2> QED BY <1>3, <2>1, <2>2, ReadStep DEF ReadForFollow, tables, Inv, TypeOK
<1>4. CASE WriteFollow(s)
  <2> DEFINE q == [step |-> "follow.close", id |-> f]
  <2>1. f \in SubmissionIds /\ request[s].balance \in Int /\ f \in DOMAIN submission
    BY <1>0, <1>4, RequestFields DEF WriteFollow, At, RequestOK
  <2>2. Follow(f) \in Entries /\ \A v \in ReviewIds : Follow(f) # Review(v)
    BY <2>1, EntriesTyped, NotReview
  <2>3. request[s].balance <= Threshold => ~account.active
    BY <1>0, <1>4 DEF RequestOK, WriteFollow, At
  <2>4. Post(Follow(f), request[s].balance, FACEBOOK_FOLLOW_REWARD_POINTS)
        /\ Continue(s, q)
    BY <1>4 DEF WriteFollow
  <2>5. FACEBOOK_FOLLOW_REWARD_POINTS \in Nat
    BY DEF FACEBOOK_FOLLOW_REWARD_POINTS
  <2>6. /\ UNCHANGED <<reached, submission, cancelled, withdrawal>>
        /\ suggestion' \in [SuggestionIds -> SuggestionStatus]
    BY <1>4 DEF WriteFollow, tables, Inv, TypeOK
  <2>7. q \in Request
    BY <2>1 DEF Request
  <2> QED BY <2>1, <2>2, <2>3, <2>4, <2>5, <2>6, <2>7, PostStep
<1>5. ASSUME NEW step \in {"follow.close", "follow.reject"}, NEW status \in ReviewStatus,
             WriteVerdict(s, step, status)
      PROVE  Inv'
  <2>1. f \in DOMAIN submission
    BY <1>0, <1>5 DEF WriteVerdict, At, RequestOK
  <2>2. /\ DOMAIN submission' = DOMAIN submission
        /\ submission' \in [DOMAIN submission' -> ReviewStatus]
        /\ DOMAIN submission' \subseteq SubmissionIds
        /\ suggestion' \in [SuggestionIds -> SuggestionStatus]
    BY <1>5, <2>1 DEF WriteVerdict, Inv, TypeOK
  <2> QED BY <1>5, <2>2, StatusStep DEF WriteVerdict
<1> QED BY <1>1, <1>2, <1>3, <1>4, <1>5 DEF CloseFollow, RejectFollow, ReviewStatus

\* Reviews and suggestions
LEMMA FeedbackSteps ==
    ASSUME Inv, NEW s \in Slots,
           \/ ReadForReview(s) \/ WriteReview(s)
           \/ CreateSuggestion(s) \/ ReadForReward(s) \/ WriteReward(s)
           \/ WriteDismiss(s)
    PROVE  Inv'
<1> USE DEF StepsOfBalance, StepsOfSubmission, StepsOfWithdrawal
<1> DEFINE id == request[s].id
<1>0. request[s] \in Request /\ account.points \in Int
      /\ RequestOK(request[s], account, ledger, withdrawal, submission)
  BY DEF Inv, TypeOK, Account
<1>a. Idle \in Request /\ Idle.step = "idle"
  BY DEF Idle, Request
<1>1. CASE ReadForReview(s)
  <2> DEFINE q == [step |-> "review.write", id |-> id, balance |-> account.points]
  <2>1. q \in Request
    BY <1>0, <1>1, RequestFields DEF ReadForReview, At, Request
  <2>2. RequestOK(q, account, ledger, withdrawal, submission)
    BY DEF RequestOK, Inv, BlockedAtThreshold
  <2> QED BY <1>1, <2>1, <2>2, ReadStep DEF ReadForReview, tables, Inv, TypeOK
<1>2. CASE WriteReview(s)
  <2>1. id \in ReviewIds /\ request[s].balance \in Int
    BY <1>0, <1>2, RequestFields DEF WriteReview, At
  <2>2. CASE ledger[Review(id)] > 0
    BY <1>2, <2>2, GiveUpStep DEF WriteReview
  <2>3. CASE ~(ledger[Review(id)] > 0)
    <3>1. Review(id) \in Entries
      BY <2>1, EntriesTyped
    <3>2. ledger[Review(id)] = 0
      BY <2>3, <3>1 DEF Inv, TypeOK
    <3>3. request[s].balance <= Threshold => ~account.active
      BY <1>0, <1>2 DEF RequestOK, WriteReview, At
    <3>4. Post(Review(id), request[s].balance, ReviewPoints) /\ Continue(s, Idle)
      BY <1>2, <2>3 DEF WriteReview, Finish
    <3>5. /\ UNCHANGED <<reached, submission, cancelled, withdrawal>>
          /\ suggestion' \in [SuggestionIds -> SuggestionStatus]
      BY <1>2 DEF WriteReview, tables, Inv, TypeOK
    <3> QED BY <1>a, <2>1, <3>1, <3>2, <3>3, <3>4, <3>5, PostStep, PointsAssumption
  <2> QED BY <2>2, <2>3
<1>3. CASE ReadForReward(s)
  <2> DEFINE q == [step |-> "reward.write", id |-> id, balance |-> account.points]
  <2>1. q \in Request
    BY <1>0, <1>3, RequestFields DEF ReadForReward, At, Request
  <2>2. RequestOK(q, account, ledger, withdrawal, submission)
    BY DEF RequestOK, Inv, BlockedAtThreshold
  <2> QED BY <1>3, <2>1, <2>2, ReadStep DEF ReadForReward, tables, Inv, TypeOK
<1>4. CASE WriteReward(s)
  <2>1. id \in SuggestionIds /\ request[s].balance \in Int
    BY <1>0, <1>4, RequestFields DEF WriteReward, At
  <2>2. Reward(id) \in Entries /\ \A v \in ReviewIds : Reward(id) # Review(v)
    BY <2>1, EntriesTyped, NotReview
  <2>3. request[s].balance <= Threshold => ~account.active
    BY <1>0, <1>4 DEF RequestOK, WriteReward, At
  <2>4. Post(Reward(id), request[s].balance, SuggestionPoints) /\ Continue(s, Idle)
    BY <1>4 DEF WriteReward, Finish
  <2>5. /\ UNCHANGED <<reached, submission, cancelled, withdrawal>>
        /\ suggestion' \in [SuggestionIds -> SuggestionStatus]
    BY <1>4 DEF WriteReward, SetSuggestion, SuggestionStatus, Inv, TypeOK
  <2>6. SuggestionPoints \in Nat
    BY PointsAssumption
  <2> QED BY <1>a, <2>1, <2>2, <2>3, <2>4, <2>5, <2>6, PostStep
<1>5. CASE WriteDismiss(s)
  <2>1. suggestion' \in [SuggestionIds -> SuggestionStatus]
    BY <1>5 DEF WriteDismiss, SetSuggestion, SuggestionStatus, Inv, TypeOK
  <2>2. UNCHANGED <<account, ledger, reached, withdrawal, submission, cancelled>>
    BY <1>5 DEF WriteDismiss, SetSuggestion
  <2>3. /\ DOMAIN submission \subseteq DOMAIN submission'
        /\ DOMAIN submission' \subseteq SubmissionIds
        /\ submission' \in [DOMAIN submission' -> ReviewStatus]
    BY <2>2 DEF Inv, TypeOK
  <2> QED BY <1>5, <2>1, <2>2, <2>3, StatusStep DEF WriteDismiss
<1>6. CASE CreateSuggestion(s)
  <2>1. PICK g \in SuggestionIds : SetSuggestion(g, "PENDING")
    BY <1>6 DEF CreateSuggestion
  <2>2. suggestion' \in [SuggestionIds -> SuggestionStatus]
    BY <2>1 DEF SetSuggestion, SuggestionStatus, Inv, TypeOK
  <2>3. UNCHANGED <<account, ledger, reached, withdrawal, submission, cancelled>>
    BY <1>6, <2>1 DEF CreateSuggestion, SetSuggestion
  <2>4. /\ DOMAIN submission \subseteq DOMAIN submission'
        /\ DOMAIN submission' \subseteq SubmissionIds
        /\ submission' \in [DOMAIN submission' -> ReviewStatus]
    BY <2>3 DEF Inv, TypeOK
  <2> QED BY <1>6, <2>2, <2>3, <2>4, StatusStep DEF CreateSuggestion
<1> QED BY <1>1, <1>2, <1>3, <1>4, <1>5, <1>6

\* Withdrawals: the request, the approval, the rejection and the payment
LEMMA WithdrawalSteps ==
    ASSUME Inv, NEW s \in Slots,
           \/ SumPending(s) \/ CreateWithdrawal(s)
           \/ WriteApprove(s) \/ WriteReject(s) \/ WritePaid(s)
    PROVE  Inv'
<1> USE DEF StepsOfBalance, StepsOfSubmission, StepsOfWithdrawal
<1> DEFINE w == request[s].id
<1>0. request[s] \in Request
      /\ RequestOK(request[s], account, ledger, withdrawal, submission)
  BY DEF Inv, TypeOK
<1>1. CASE SumPending(s)
  <2>1. CASE Finish(s)
    BY <1>1, <2>1, GiveUpStep DEF SumPending
  <2>2. CASE ~Finish(s)
    <3> DEFINE q == [step |-> "withdraw.create", amount |-> request[s].amount]
    <3>1. q \in Request
      BY <1>0, <1>1, RequestFields DEF SumPending, At, Request
    <3> QED BY <1>1, <2>2, <3>1, FreeRelied, ReadStep
               DEF SumPending, tables, Inv, TypeOK
  <2> QED BY <2>1, <2>2
<1>2. CASE CreateWithdrawal(s)
  <2> DEFINE row == [amount |-> request[s].amount, status |-> "PENDING"]
  <2>1. row \in Withdrawal
    BY <1>0, <1>2, RequestFields, AmountsAssumption
       DEF CreateWithdrawal, At, Withdrawal, WithdrawalStatus
  <2>2. PICK x \in WithdrawalIds : /\ DOMAIN withdrawal = 1..(x - 1)
                                   /\ SetWithdrawal(x, row)
    BY <1>2 DEF CreateWithdrawal
  <2>3. x \notin DOMAIN withdrawal
    BY <2>2, TablesAssumption DEF WithdrawalIds
  <2> QED BY <1>2, <2>1, <2>2, <2>3, WithdrawalStep DEF CreateWithdrawal
<1>3. CASE WriteApprove(s)
  <2>1. w \in WithdrawalIds /\ request[s].balance \in Int /\ w \in DOMAIN withdrawal
        /\ request[s].balance >= withdrawal[w].amount
    BY <1>0, <1>3, RequestFields DEF WriteApprove, At, RequestOK
  <2>2. withdrawal[w].amount \in Nat
    BY <2>1 DEF Inv, TypeOK, Withdrawal
  <2>3. Withdrawn(w) \in Entries /\ \A v \in ReviewIds : Withdrawn(w) # Review(v)
    BY <2>1, EntriesTyped, NotReview
  <2>4. request[s].balance + (-withdrawal[w].amount) <= Threshold => ~account.active
    BY <2>1, <2>2, PointsAssumption DEF Threshold
  <2>5. Post(Withdrawn(w), request[s].balance, -withdrawal[w].amount)
    BY <1>3 DEF WriteApprove
  <2>6. /\ UNCHANGED <<reached, submission, cancelled>>
        /\ suggestion' \in [SuggestionIds -> SuggestionStatus]
    BY <1>3 DEF WriteApprove, SetStatus, SetWithdrawal, Inv, TypeOK
  <2>7. /\ DOMAIN withdrawal' = DOMAIN withdrawal
        /\ withdrawal' \in [DOMAIN withdrawal -> Withdrawal]
        /\ \A x \in DOMAIN withdrawal :
              /\ withdrawal'[x].amount = withdrawal[x].amount
              /\ withdrawal'[x] = withdrawal[x] \/ Withdrawn(w) = Withdrawn(x)
    BY <1>3, <2>1 DEF WriteApprove, SetStatus, SetWithdrawal, WithRow,
                      Withdrawal, WithdrawalStatus, Inv, TypeOK
  <2>8. -withdrawal[w].amount \in Int
    BY <2>2
  <2>9. TablesOK' /\ Stays
    BY <2>1, <2>3, <2>4, <2>5, <2>6, <2>7, <2>8, PostTables
  <2> QED BY <1>3, <2>9, IdleRelied, HandlerStep DEF WriteApprove, Finish
<1>4. ASSUME NEW status \in {"REJECTED", "TRANSFERRED"}, w \in DOMAIN withdrawal,
             SetStatus(w, status), Finish(s), UNCHANGED <<account, ledger>>,
             status = "TRANSFERRED" => ledger[Withdrawn(w)] > 0
      PROVE  Inv'
  <2> DEFINE row == [withdrawal[w] EXCEPT !.status = status]
  <2>1. /\ row \in Withdrawal
        /\ row.amount = withdrawal[w].amount
        /\ row.status = status
        /\ w \in WithdrawalIds
    BY <1>4 DEF Withdrawal, WithdrawalStatus, Inv, TypeOK
  <2>2. SetWithdrawal(w, row)
    BY <1>4 DEF SetStatus
  <2> HIDE DEF row
  <2> QED BY <1>4, <2>1, <2>2, WithdrawalStep
<1>5. CASE WriteReject(s)
  BY <1>0, <1>4, <1>5 DEF WriteReject, At, RequestOK
<1>6. CASE WritePaid(s)
  BY <1>0, <1>4, <1>6 DEF WritePaid, At, RequestOK
<1> QED BY <1>1, <1>2, <1>3, <1>5, <1>6

\* The penalty of a cancelled trade writes the flags of the account as well.
LEMMA PenaltyStep ==
    ASSUME Inv, NEW s \in Slots, WritePenalty(s)
    PROVE  Inv'
<1> DEFINE q == request[s]
           points == q.balance - CANCELLATION_PENALTY_POINTS
           rank == RankOf(points)
           entry == Penalty(q.id)
<1>0. q \in Request /\ RequestOK(q, account, ledger, withdrawal, submission)
      /\ account \in Account /\ ledger \in [Entries -> Nat]
  BY DEF Inv, TypeOK
<1>1. q.balance \in Int /\ q.id \in TradeIds /\ q.block \in BOOLEAN
  BY <1>0, RequestFields DEF WritePenalty, At, StepsOfBalance
<1>2. points \in Int /\ rank \in Tiers
  BY <1>1, RankTyped DEF CANCELLATION_PENALTY_POINTS
<1>3. account' = [account EXCEPT !.points = points, !.rank = rank,
                                 !.banned = account.banned \/ q.block,
                                 !.active = account.active /\ ~q.block]
  BY DEF WritePenalty
<1>4. points <= Threshold => q.block \/ ~account.active
  BY <1>0 DEF RequestOK, WritePenalty, At
<1>5. ledger' = [ledger EXCEPT ![entry] = @ + 1]
  BY DEF WritePenalty
<1>6. UNCHANGED <<reached, withdrawal, submission, suggestion, cancelled>> /\ Finish(s)
  BY DEF WritePenalty, tables
<1>7. entry \in Entries /\ \A v \in ReviewIds : entry # Review(v)
  BY <1>1, EntriesTyped, NotReview
<1>8. /\ ledger' \in [Entries -> Nat]
      /\ \A e \in Entries : ledger'[e] >= ledger[e]
      /\ \A e \in Entries : e # entry => ledger'[e] = ledger[e]
  <2> HIDE DEF entry
  <2> QED BY <1>0, <1>5, <1>7
<1>9. account' \in Account /\ account'.points = points /\ account'.rank = rank
      /\ (account'.active => account.active)
      /\ (points <= Threshold => ~account'.active)
  <2> HIDE DEF points, rank
  <2>1. account.active \in BOOLEAN /\ account.banned \in BOOLEAN
    BY <1>0 DEF Account
  <2>2. (account.banned \/ q.block) \in BOOLEAN /\ (account.active /\ ~q.block) \in BOOLEAN
    OBVIOUS
  <2>3. account' \in Account
    BY <1>0, <1>2, <1>3, <2>2 DEF Account
  <2>4. account'.active = (account.active /\ ~q.block)
        /\ account'.points = points /\ account'.rank = rank
    BY <1>0, <1>3 DEF Account
  <2> QED BY <1>1, <1>4, <2>1, <2>3, <2>4
<1>10. TablesTyped'
  BY <1>6, <1>8, <1>9 DEF Inv, TypeOK, TablesTyped
<1>11. PaidWasDeducted'
  <2> SUFFICES ASSUME NEW w \in DOMAIN withdrawal,
                      withdrawal[w].status \in {"APPROVED", "TRANSFERRED"}
               PROVE  ledger'[Withdrawn(w)] > 0
    BY <1>6 DEF PaidWasDeducted
  <2>1. Withdrawn(w) \in Entries
    BY EntriesTyped DEF Inv, TypeOK
  <2>2. ledger[Withdrawn(w)] > 0
    BY DEF Inv, PaidWasDeducted
  <2> QED BY <1>0, <1>8, <2>1, <2>2
<1>12. ReviewAwardedOnce'
  <2> SUFFICES ASSUME NEW v \in ReviewIds PROVE ledger'[Review(v)] <= 1
    BY DEF ReviewAwardedOnce
  <2>1. ledger[Review(v)] <= 1
    BY DEF Inv, ReviewAwardedOnce
  <2> QED BY <1>7, <1>8, <2>1, EntriesTyped
<1>13. RankMatchesBalance' /\ BlockedAtThreshold'
  BY <1>9 DEF RankMatchesBalance, BlockedAtThreshold, Threshold
<1>14. TablesOK' /\ Stays
  BY <1>6, <1>8, <1>9, <1>10, <1>11, <1>12, <1>13
     DEF TablesOK, Stays
<1> QED BY <1>6, <1>14, IdleRelied, HandlerStep DEF Finish

\* The link to Facebook leaves everything but itself.
LEMMA LinkStep ==
    ASSUME Inv, NEW s \in Slots, SetFacebookLink(s)
    PROVE  Inv'
<1>1. account \in Account
  BY DEF Inv, TypeOK
<1>2. /\ account' \in Account
      /\ account'.points = account.points
      /\ account'.rank = account.rank
      /\ account'.active = account.active
  BY <1>1 DEF SetFacebookLink, Account
<1>3. UNCHANGED <<ledger, reached, withdrawal, submission, suggestion, cancelled>>
      /\ Finish(s)
  BY DEF SetFacebookLink, tables
<1>4. TablesOK'
  BY <1>2, <1>3 DEF Inv, TypeOK, TablesOK, TablesTyped, PaidWasDeducted,
                    ReviewAwardedOnce, RankMatchesBalance, BlockedAtThreshold, Threshold
<1>5. Stays
  BY <1>2, <1>3 DEF Stays, Inv, TypeOK
<1> QED BY <1>3, <1>4, <1>5, IdleRelied, HandlerStep DEF Finish

\* The admin's ban and unban leave everything but the flag banned.
LEMMA BanStep ==
    ASSUME Inv, NEW banned \in BOOLEAN, SetUserBanned(banned)
    PROVE  Inv'
<1>1. account \in Account
  BY DEF Inv, TypeOK
<1>2. /\ account' \in Account
      /\ account'.points = account.points
      /\ account'.rank = account.rank
      /\ account'.active = account.active
  BY <1>1 DEF SetUserBanned, Account
<1>3. UNCHANGED <<ledger, reached, withdrawal, submission, suggestion, cancelled, request>>
  BY DEF SetUserBanned, tables
<1>4. TablesOK'
  BY <1>2, <1>3 DEF Inv, TypeOK, TablesOK, TablesTyped, PaidWasDeducted,
                    ReviewAwardedOnce, RankMatchesBalance, BlockedAtThreshold, Threshold
<1>5. Stays
  BY <1>2, <1>3 DEF Stays, Inv, TypeOK
<1>6. ASSUME NEW s \in Slots
      PROVE  RequestOK(request'[s], account', ledger', withdrawal', submission')
  BY <1>3, <1>4, <1>5, StillRelied DEF Inv, TypeOK, TablesOK
<1> QED BY <1>3, <1>4, <1>6, InvParts DEF Inv, TypeOK

\* The account starts with no points, no entries and no handlers.
LEMMA InitInv == Init => Inv
<1> SUFFICES ASSUME Init PROVE Inv
  OBVIOUS
<1>1. RankOf(0) = "NEWBIE"
  <2> DEFINE fits == {i \in 1..5 : /\ 0 >= RankConfigs[i].min
                                   /\ \/ RankConfigs[i].max = NoCap
                                      \/ 0 <= RankConfigs[i].max}
  <2>1. fits = {1}
    BY DEF RankConfigs, NoCap
  <2>2. (CHOOSE i \in fits : \A j \in fits : i <= j) = 1
    BY <2>1
  <2> QED BY <2>1, <2>2 DEF RankOf, RankConfigs
<1>2. account = [points |-> 0, rank |-> "NEWBIE", banned |-> FALSE, active |-> TRUE,
                 facebook |-> FALSE]
  BY DEF Init
<1>3. account \in Account /\ RankMatchesBalance /\ BlockedAtThreshold
  BY <1>1, <1>2, PointsAssumption
     DEF Account, Tiers, RankMatchesBalance, BlockedAtThreshold, Threshold
<1>4. DOMAIN withdrawal = {} /\ DOMAIN submission = {}
  BY DEF Init
<1>5. /\ withdrawal \in [DOMAIN withdrawal -> Withdrawal]
      /\ submission \in [DOMAIN submission -> ReviewStatus]
  BY DEF Init
<1>6. TablesTyped
  BY <1>3, <1>4, <1>5 DEF Init, TablesTyped, SuggestionStatus
<1>7. PaidWasDeducted /\ ReviewAwardedOnce
  BY <1>4, EntriesTyped DEF Init, PaidWasDeducted, ReviewAwardedOnce
<1>8. \A s \in Slots : request[s] = Idle
  BY DEF Init
<1>9. request \in [Slots -> Request]
  BY IdleRelied DEF Init
<1> QED BY <1>3, <1>6, <1>7, <1>8, <1>9, IdleRelied, InvParts DEF TablesOK

\* Every step keeps the invariant.
LEMMA NextInv == Inv /\ [Next]_vars => Inv'
<1> SUFFICES ASSUME Inv, [Next]_vars PROVE Inv'
  OBVIOUS
<1>1. ASSUME NEW s \in Slots, Begin(s) PROVE Inv'
  BY <1>1, BeginSteps
<1>2. ASSUME NEW s \in Slots, EarningStep(s) PROVE Inv'
  BY <1>2, BonusSteps, LinkStep, FollowSteps, FeedbackSteps DEF EarningStep
<1>3. ASSUME NEW s \in Slots, SpendingStep(s) PROVE Inv'
  BY <1>3, WithdrawalSteps, PenaltyStep DEF SpendingStep
<1>4. ASSUME NEW s \in Slots, Crash(s) PROVE Inv'
  BY <1>4, GiveUpStep DEF Crash
<1>5. ASSUME NEW banned \in BOOLEAN, SetUserBanned(banned) PROVE Inv'
  BY <1>5, BanStep
<1>6. CASE UNCHANGED vars
  BY <1>6, InvParts
     DEF vars, TablesOK, TablesTyped, PaidWasDeducted, ReviewAwardedOnce,
         RankMatchesBalance, BlockedAtThreshold
<1> QED BY <1>1, <1>2, <1>3, <1>4, <1>5, <1>6 DEF Next, Step

\* The invariant holds whatever the interleaving, the crashes and the bans.
THEOREM Invariance == Spec => []Inv
BY InitInv, NextInv, PTL DEF Spec

\* Type correctness
THEOREM TypeCorrect == Spec => []TypeOK
<1>1. Inv => TypeOK
  BY DEF Inv
<1> QED BY <1>1, Invariance, PTL

\* No withdrawal is approved or paid without a deduction (points.repository.ts,
\* approveWithdrawal and markWithdrawalPaid).
THEOREM PaidSafety == Spec => []PaidWasDeducted
<1>1. Inv => PaidWasDeducted
  BY DEF Inv
<1> QED BY <1>1, Invariance, PTL

\* A review gives its points once (createReviewAndAwardPoints).
THEOREM ReviewSafety == Spec => []ReviewAwardedOnce
<1>1. Inv => ReviewAwardedOnce
  BY DEF Inv
<1> QED BY <1>1, Invariance, PTL

\* The cached rank is that of the cached balance (findRankTierForPoints and its
\* callers).
THEOREM RankSafety == Spec => []RankMatchesBalance
<1>1. Inv => RankMatchesBalance
  BY DEF Inv
<1> QED BY <1>1, Invariance, PTL

\* An account in debt to the threshold is not active
\* (deductPointsForTransactionCancellation).
THEOREM BlockSafety == Spec => []BlockedAtThreshold
<1>1. Inv => BlockedAtThreshold
  BY DEF Inv
<1> QED BY <1>1, Invariance, PTL

\* A block that commits another entry deducts no withdrawal.
LEMMA OtherEntries ==
    ASSUME TypeOK, NEW entry \in Entries, NEW w \in WithdrawalIds,
           ledger' = [ledger EXCEPT ![entry] = @ + 1],
           entry.source # "WITHDRAWAL"
    PROVE  ledger'[Withdrawn(w)] = ledger[Withdrawn(w)]
<1>1. Withdrawn(w) # entry /\ Withdrawn(w) \in Entries
  BY EntriesTyped DEF Withdrawn
<1> QED BY <1>1 DEF TypeOK

\* Only the commit of an approval adds the entry of a withdrawal, and its stale
\* balance covers the amount (approveWithdrawal).
LEMMA ApprovalStep ==
    ASSUME Inv, Next, NEW w \in WithdrawalIds,
           ledger'[Withdrawn(w)] > ledger[Withdrawn(w)]
    PROVE  account'.points >= 0
<1> USE DEF StepsOfBalance, StepsOfSubmission, StepsOfWithdrawal
<1>0. TypeOK /\ Withdrawn(w) \in Entries /\ ledger[Withdrawn(w)] \in Nat
  BY EntriesTyped DEF Inv, TypeOK
<1>1. ledger' # ledger
  BY <1>0
<1>2. PICK s \in Slots : \/ WriteBonus(s) \/ WriteFollow(s) \/ WriteReview(s)
                         \/ WriteReward(s) \/ WriteApprove(s) \/ WritePenalty(s)
  <2>1. \A banned \in BOOLEAN : ~SetUserBanned(banned)
    BY <1>1 DEF SetUserBanned
  <2>2. \A s \in Slots : ~Begin(s)
    BY <1>1 DEF Begin, PointsRoutes, FollowRoutes, FollowReviewRoutes,
         SuggestionRoutes, WithdrawalRoutes,
         ClientSuggestionRoutes, BeginLink, BeginSuggestion,
         BeginMilestone, BeginSubmission, BeginFollowReview, BeginReview,
                BeginSuggestionReview, BeginWithdrawal, ReadForApprove, ReadForReject,
                ReadForPaid, ReadForPenalty
  <2>3. \A s \in Slots : ~Crash(s)
    BY <1>1 DEF Crash
  <2>4. \A s \in Slots :
           ~ \/ SetFacebookLink(s) \/ CreateSuggestion(s)
             \/ FindBonus(s) \/ ReadForBonus(s) \/ CreateSubmission(s) \/ FindFollow(s)
             \/ ReadForFollow(s) \/ CloseFollow(s) \/ RejectFollow(s) \/ ReadForReview(s)
             \/ ReadForReward(s) \/ WriteDismiss(s) \/ SumPending(s)
             \/ CreateWithdrawal(s) \/ WriteReject(s) \/ WritePaid(s)
    BY <1>1 DEF SetFacebookLink, CreateSuggestion,
                FindBonus, ReadForBonus, CreateSubmission, FindFollow, ReadForFollow,
                CloseFollow, RejectFollow, WriteVerdict, ReadForReview, ReadForReward,
                WriteDismiss, SumPending, CreateWithdrawal, WriteReject, WritePaid
  <2> QED BY <2>1, <2>2, <2>3, <2>4 DEF Next, Step, EarningStep, SpendingStep
<1>3. request[s] \in Request
      /\ RequestOK(request[s], account, ledger, withdrawal, submission)
  BY DEF Inv, TypeOK
<1>4. CASE WriteBonus(s)
  <2>1. request[s].source \in Milestones
    BY <1>3, <1>4, RequestFields DEF WriteBonus, At
  <2>2. Bonus(request[s].source) \in Entries
        /\ Bonus(request[s].source).source # "WITHDRAWAL"
    BY <2>1, EntriesTyped, MilestonesAssumption DEF Bonus, AccountMilestones
  <2>3. ledger' = [ledger EXCEPT ![Bonus(request[s].source)] = @ + 1]
    BY <1>4 DEF WriteBonus, Post
  <2>4. ledger'[Withdrawn(w)] = ledger[Withdrawn(w)]
    BY <1>0, <2>2, <2>3, OtherEntries
  <2> QED BY <1>0, <2>4
<1>5. CASE WriteFollow(s)
  <2>1. request[s].id \in SubmissionIds
    BY <1>3, <1>5, RequestFields DEF WriteFollow, At
  <2>2. Follow(request[s].id) \in Entries
        /\ Follow(request[s].id).source # "WITHDRAWAL"
    BY <2>1, EntriesTyped DEF Follow
  <2>3. ledger' = [ledger EXCEPT ![Follow(request[s].id)] = @ + 1]
    BY <1>5 DEF WriteFollow, Post
  <2>4. ledger'[Withdrawn(w)] = ledger[Withdrawn(w)]
    BY <1>0, <2>2, <2>3, OtherEntries
  <2> QED BY <1>0, <2>4
<1>6. CASE WriteReview(s)
  <2>1. request[s].id \in ReviewIds
    BY <1>3, <1>6, RequestFields DEF WriteReview, At
  <2>2. Review(request[s].id) \in Entries
        /\ Review(request[s].id).source # "WITHDRAWAL"
    BY <2>1, EntriesTyped DEF Review
  <2>3. ledger' = [ledger EXCEPT ![Review(request[s].id)] = @ + 1]
    BY <1>1, <1>6 DEF WriteReview, Post
  <2>4. ledger'[Withdrawn(w)] = ledger[Withdrawn(w)]
    BY <1>0, <2>2, <2>3, OtherEntries
  <2> QED BY <1>0, <2>4
<1>7. CASE WriteReward(s)
  <2>1. request[s].id \in SuggestionIds
    BY <1>3, <1>7, RequestFields DEF WriteReward, At
  <2>2. Reward(request[s].id) \in Entries
        /\ Reward(request[s].id).source # "WITHDRAWAL"
    BY <2>1, EntriesTyped DEF Reward
  <2>3. ledger' = [ledger EXCEPT ![Reward(request[s].id)] = @ + 1]
    BY <1>7 DEF WriteReward, Post
  <2>4. ledger'[Withdrawn(w)] = ledger[Withdrawn(w)]
    BY <1>0, <2>2, <2>3, OtherEntries
  <2> QED BY <1>0, <2>4
<1>8. CASE WritePenalty(s)
  <2>1. request[s].id \in TradeIds
    BY <1>3, <1>8, RequestFields DEF WritePenalty, At
  <2>2. Penalty(request[s].id) \in Entries
        /\ Penalty(request[s].id).source # "WITHDRAWAL"
    BY <2>1, EntriesTyped DEF Penalty
  <2>3. ledger' = [ledger EXCEPT ![Penalty(request[s].id)] = @ + 1]
    BY <1>8 DEF WritePenalty
  <2>4. ledger'[Withdrawn(w)] = ledger[Withdrawn(w)]
    BY <1>0, <2>2, <2>3, OtherEntries
  <2> QED BY <1>0, <2>4
<1>9. CASE WriteApprove(s)
  <2> DEFINE id == request[s].id
             points == request[s].balance + (-withdrawal[id].amount)
             rank == RankOf(points)
  <2>1. request[s].balance \in Int /\ id \in DOMAIN withdrawal
        /\ request[s].balance >= withdrawal[id].amount
    BY <1>3, <1>9, RequestFields DEF WriteApprove, At, RequestOK
  <2>2. withdrawal[id].amount \in Nat
    BY <2>1 DEF Inv, TypeOK, Withdrawal
  <2>3. account' = [account EXCEPT !.points = points, !.rank = rank]
    BY <1>9 DEF WriteApprove, Post
  <2>4. points >= 0
    BY <2>1, <2>2
  <2> HIDE DEF points, rank
  <2>5. account'.points = points
    BY <2>3 DEF Inv, TypeOK, Account
  <2> QED BY <2>4, <2>5
<1> QED BY <1>2, <1>4, <1>5, <1>6, <1>7, <1>8, <1>9

\* An approval leaves no debt (approveWithdrawal).
THEOREM ApprovalSafety == Spec => ApprovalLeavesNoDebt
<1> DEFINE Approves == \E w \in WithdrawalIds : ledger'[Withdrawn(w)] > ledger[Withdrawn(w)]
<1>1. Inv /\ [Next]_vars => [Approves => account'.points >= 0]_vars
  BY ApprovalStep
<1> QED BY <1>1, Invariance, PTL DEF Spec, ApprovalLeavesNoDebt

-----------------------------------------------------------------------------
(* Sums over finite sets.  MapThenSumSet adds the values of an operator in an *)
(* order that CHOOSE fixes.  The values are tabulated in a function f, so     *)
(* that lemmas can speak of them; the sum is shown not to depend on the order. *)

\* g[T] is the sum of f over T, for the sets T of D, in the order of CHOOSE.
SumsOver(f, D, g) ==
    \A T \in D :
        g[T] = IF T = {} THEN 0
               ELSE LET x == CHOOSE x \in T : TRUE IN f[x] + g[T \ {x}]

SubsetsUpTo(S, n) == {T \in SUBSET S : IsFiniteSet(T) /\ Cardinality(T) <= n}

\* A property of the natural numbers that fails somewhere fails first somewhere.
LEMMA FirstFailure ==
    ASSUME NEW Bad \in SUBSET Nat, Bad # {}
    PROVE  \E n \in Bad : \A m \in Bad : n <= m
<1>1. IsWellFoundedOn(OpToRel(<, Nat), Nat)
  BY NatLessThanWellFounded
<1>2. PICK n \in Bad : \A m \in Bad : <<m, n>> \notin OpToRel(<, Nat)
  <2> DEFINE R == OpToRel(<, Nat)
  <2>1. IsWellFoundedOn(R, Nat)
    BY <1>1
  <2> HIDE DEF R
  <2>2. \E n \in Bad : \A m \in Bad : ~ (<<m, n>> \in R)
    BY <2>1, WFMin
  <2> QED BY <2>2 DEF R
<1>3. \A m \in Bad : ~(m < n)
  BY <1>2 DEF OpToRel
<1> QED BY <1>3

\* Removing the chosen element of a set
LEMMA ChosenRemoved ==
    ASSUME NEW S, NEW n \in Nat, NEW T \in SubsetsUpTo(S, n), T # {}
    PROVE  LET x == CHOOSE x \in T : TRUE
           IN  /\ x \in T
               /\ T \ {x} \in SubsetsUpTo(S, n)
               /\ n > 0
               /\ T \ {x} \in SubsetsUpTo(S, n - 1)
<1> DEFINE x == CHOOSE x \in T : TRUE
<1>1. x \in T
  OBVIOUS
<1>2. IsFiniteSet(T) /\ Cardinality(T) \in Nat /\ Cardinality(T) <= n
  BY FS_CardinalityType DEF SubsetsUpTo
<1>3. IsFiniteSet(T \ {x}) /\ Cardinality(T \ {x}) = Cardinality(T) - 1
  BY <1>1, <1>2, FS_RemoveElement
<1>4. Cardinality(T \ {x}) \in Nat
  BY <1>3, FS_CardinalityType
<1> HIDE DEF x
<1>5. /\ T \ {x} \in SubsetsUpTo(S, n)
      /\ T \ {x} \in SubsetsUpTo(S, n - 1)
      /\ n > 0
  BY <1>2, <1>3, <1>4 DEF SubsetsUpTo
<1> QED BY <1>1, <1>5 DEF x

\* There is such a function for the sets of n elements at most ...
LEMMA SumsExistUpTo ==
    ASSUME NEW S, NEW f \in [S -> Int], NEW n \in Nat
    PROVE  \E g \in [SubsetsUpTo(S, n) -> Int] : SumsOver(f, SubsetsUpTo(S, n), g)
<1> DEFINE Bad == {k \in Nat : ~ \E g \in [SubsetsUpTo(S, k) -> Int] :
                                 SumsOver(f, SubsetsUpTo(S, k), g)}
<1> SUFFICES ASSUME Bad # {}
             PROVE  FALSE
  OBVIOUS
<1>1. PICK k \in Bad : \A m \in Bad : k <= m
  <2> HIDE DEF Bad
  <2>1. Bad \in SUBSET Nat
    BY DEF Bad
  <2> QED BY <2>1, FirstFailure
<1> DEFINE D == SubsetsUpTo(S, k)
           E == SubsetsUpTo(S, k - 1)
           ch(T) == CHOOSE x \in T : TRUE
<1>2. \A T \in D : T # {} => /\ ch(T) \in T
                             /\ T \ {ch(T)} \in D
                             /\ k > 0
                             /\ T \ {ch(T)} \in E
  BY ChosenRemoved
<1>3. \A T \in D : T # {} => ch(T) \in S
  BY <1>2 DEF SubsetsUpTo
<1>4. CASE k = 0
  <2> DEFINE g == [T \in D |-> 0]
  <2>1. \A T \in D : T = {}
    BY <1>2, <1>4
  <2>2. SumsOver(f, D, g)
    BY <2>1 DEF SumsOver
  <2>3. g \in [D -> Int]
    OBVIOUS
  <2> QED BY <2>2, <2>3
<1>5. CASE k # 0
  <2>1. k - 1 \in Nat /\ k - 1 \notin Bad
    BY <1>1, <1>5
  <2>2. PICK h \in [E -> Int] : SumsOver(f, E, h)
    BY <2>1
  <2> DEFINE g == [T \in D |-> IF T = {} THEN 0 ELSE f[ch(T)] + h[T \ {ch(T)}]]
  <2>3. \A T \in E : T \in D
    <3>1. \A T \in E : Cardinality(T) \in Nat
      BY FS_CardinalityType DEF SubsetsUpTo
    <3>2. \A c \in Nat : c <= k - 1 => c <= k
      BY <2>1
    <3> QED BY <3>1, <3>2 DEF SubsetsUpTo
  <2>4. \A T \in E : g[T] = h[T]
    BY <2>2, <2>3 DEF SumsOver
  <2>5. g \in [D -> Int]
    <3>1. ASSUME NEW T \in D, T # {}
          PROVE  f[ch(T)] + h[T \ {ch(T)}] \in Int
      <4>1. ch(T) \in S /\ T \ {ch(T)} \in E
        BY <1>2, <1>3, <3>1
      <4> HIDE DEF ch
      <4> QED BY <2>2, <4>1 DEF SumsOver
    <3> HIDE DEF ch
    <3> QED BY <3>1
  <2>6. \A T \in D : g[T] = IF T = {} THEN 0 ELSE f[ch(T)] + g[T \ {ch(T)}]
    <3> HIDE DEF ch
    <3>1. \A T \in D : T # {} => g[T \ {ch(T)}] = h[T \ {ch(T)}]
      BY <1>2, <2>4
    <3> QED BY <3>1
  <2>7. SumsOver(f, D, g)
    BY <2>6 DEF SumsOver
  <2> QED BY <2>5, <2>7
<1> QED BY <1>4, <1>5

\* ... hence for all subsets of a finite set.
LEMMA SumsExist ==
    ASSUME NEW S, IsFiniteSet(S), NEW f \in [S -> Int]
    PROVE  \E g \in [SUBSET S -> Int] : SumsOver(f, SUBSET S, g)
<1>1. Cardinality(S) \in Nat
  BY FS_CardinalityType
<1>2. SubsetsUpTo(S, Cardinality(S)) = SUBSET S
  BY FS_Subset DEF SubsetsUpTo
<1>3. \E g \in [SubsetsUpTo(S, Cardinality(S)) -> Int] :
         SumsOver(f, SubsetsUpTo(S, Cardinality(S)), g)
  BY <1>1, SumsExistUpTo
<1> QED BY <1>2, <1>3

\* Sums do not depend on values outside their set.
LEMMA SumsAgree ==
    ASSUME NEW T, IsFiniteSet(T), NEW f, NEW h, \A x \in T : f[x] = h[x],
           NEW g, SumsOver(f, SUBSET T, g), NEW i, SumsOver(h, SUBSET T, i)
    PROVE  g[T] = i[T]
<1> DEFINE Bad == {n \in Nat : \E U \in SUBSET T : Cardinality(U) = n /\ g[U] # i[U]}
<1>1. \A U \in SUBSET T : IsFiniteSet(U) /\ Cardinality(U) \in Nat
  BY FS_Subset, FS_CardinalityType
<1> SUFFICES ASSUME Bad # {}
             PROVE  FALSE
  BY <1>1
<1>2. PICK n \in Bad : \A m \in Bad : n <= m
  <2> HIDE DEF Bad
  <2>1. Bad \in SUBSET Nat
    BY DEF Bad
  <2> QED BY <2>1, FirstFailure
<1>3. PICK U \in SUBSET T : Cardinality(U) = n /\ g[U] # i[U]
  OBVIOUS
<1>4. U # {}
  BY <1>3 DEF SumsOver
<1> DEFINE x == CHOOSE x \in U : TRUE
<1>5. x \in U
  BY <1>4
<1>6. Cardinality(U \ {x}) = n - 1
  BY <1>1, <1>3, <1>5, FS_RemoveElement
<1>7. Cardinality(U \ {x}) \in Nat
  BY <1>1
<1>8. g[U \ {x}] = i[U \ {x}]
  <2> HIDE DEF x
  <2>1. n - 1 \in Nat /\ n \in Nat
    BY <1>6, <1>7
  <2>2. n - 1 \notin Bad
    BY <1>2, <2>1
  <2>3. U \ {x} \in SUBSET T
    OBVIOUS
  <2> QED BY <1>6, <2>1, <2>2, <2>3
<1>9. g[U] = f[x] + g[U \ {x}] /\ i[U] = h[x] + i[U \ {x}]
  BY <1>4 DEF SumsOver
<1>10. f[x] = h[x]
  BY <1>5
<1> QED BY <1>3, <1>8, <1>9, <1>10

\* A sum can be taken in any order.
LEMMA SumsInAnyOrder ==
    ASSUME NEW S, NEW f \in [S -> Int],
           NEW g \in [SUBSET S -> Int], SumsOver(f, SUBSET S, g),
           NEW T \in SUBSET S, IsFiniteSet(T), NEW y \in T
    PROVE  g[T] = f[y] + g[T \ {y}]
<1> DEFINE Bad == {n \in Nat : \E U \in SUBSET T : \E z \in U :
                       Cardinality(U) = n /\ g[U] # f[z] + g[U \ {z}]}
<1>1. \A U \in SUBSET T : IsFiniteSet(U) /\ Cardinality(U) \in Nat
  BY FS_Subset, FS_CardinalityType
<1> SUFFICES ASSUME Bad # {}
             PROVE  FALSE
  BY <1>1
<1>2. PICK n \in Bad : \A m \in Bad : n <= m
  <2> HIDE DEF Bad
  <2>1. Bad \in SUBSET Nat
    BY DEF Bad
  <2> QED BY <2>1, FirstFailure
<1>13. PICK U \in SUBSET T :
         Cardinality(U) = n /\ \E z \in U : g[U] # f[z] + g[U \ {z}]
  OBVIOUS
<1>3. PICK z \in U : Cardinality(U) = n /\ g[U] # f[z] + g[U \ {z}]
  BY <1>13
<1> DEFINE x == CHOOSE x \in U : TRUE
<1>4. x \in U
  OBVIOUS
<1>5. g[U] = f[x] + g[U \ {x}]
  BY <1>4 DEF SumsOver
<1> HIDE DEF x
<1>6. x # z
  BY <1>3, <1>5
<1>7. \A u \in U : /\ U \ {u} \in SUBSET T
                   /\ Cardinality(U \ {u}) = n - 1
                   /\ Cardinality(U \ {u}) \in Nat
  BY <1>1, <1>3, FS_RemoveElement
<1>14. n - 1 \in Nat /\ n \in Nat
  BY <1>4, <1>7
<1>8. n - 1 \in Nat /\ n - 1 \notin Bad
  <2> HIDE DEF Bad
  <2> QED BY <1>2, <1>14
<1>9. \A u \in U : \A v \in U \ {u} :
         g[U \ {u}] = f[v] + g[(U \ {u}) \ {v}]
  BY <1>7, <1>8
<1>10. (U \ {x}) \ {z} = (U \ {z}) \ {x}
  OBVIOUS
<1>11. g[U \ {x}] = f[z] + g[(U \ {x}) \ {z}] /\ g[U \ {z}] = f[x] + g[(U \ {x}) \ {z}]
  BY <1>4, <1>6, <1>9, <1>10
<1>12. /\ f[x] \in Int /\ f[z] \in Int
       /\ g[(U \ {x}) \ {z}] \in Int
  BY <1>4 DEF SumsOver
<1> QED BY <1>3, <1>5, <1>11, <1>12

\* The sum of f over its finite domain S
SumOf(f, S) ==
    CHOOSE v : \E g \in [SUBSET S -> Int] : SumsOver(f, SUBSET S, g) /\ v = g[S]

\* Whatever adds up the values of f over S arrives at SumOf(f, S).
LEMMA SumUnique ==
    ASSUME NEW S, IsFiniteSet(S), NEW f \in [S -> Int]
    PROVE  /\ SumOf(f, S) \in Int
           /\ \A h, i : SumsOver(h, SUBSET S, i) /\ (\A x \in S : f[x] = h[x])
                 => i[S] = SumOf(f, S)
<1>1. PICK g \in [SUBSET S -> Int] : SumsOver(f, SUBSET S, g)
  BY SumsExist
<1>2. \E v : \E k \in [SUBSET S -> Int] : SumsOver(f, SUBSET S, k) /\ v = k[S]
  BY <1>1
<1>3. PICK k \in [SUBSET S -> Int] : SumsOver(f, SUBSET S, k) /\ SumOf(f, S) = k[S]
  BY <1>2 DEF SumOf
<1>4. ASSUME NEW h, NEW i, SumsOver(h, SUBSET S, i), \A x \in S : f[x] = h[x]
      PROVE  i[S] = SumOf(f, S)
  <2>1. k[S] = i[S]
    BY <1>3, <1>4, SumsAgree
  <2> QED BY <1>3, <2>1
<1>5. SumOf(f, S) \in Int
  BY <1>3
<1> QED BY <1>4, <1>5

\* The sum over the empty set, and over a set with y
LEMMA SumSplit ==
    ASSUME NEW S, IsFiniteSet(S), NEW f \in [S -> Int]
    PROVE  /\ S = {} => SumOf(f, S) = 0
           /\ \A y \in S :
                 SumOf(f, S) = f[y] + SumOf([x \in S \ {y} |-> f[x]], S \ {y})
<1>1. PICK g \in [SUBSET S -> Int] : SumsOver(f, SUBSET S, g)
  BY SumsExist
<1>2. g[S] = SumOf(f, S)
  BY <1>1, SumUnique
<1>3. S = {} => g[S] = 0
  BY <1>1 DEF SumsOver
<1>4. ASSUME NEW y \in S
      PROVE  SumOf(f, S) = f[y] + SumOf([x \in S \ {y} |-> f[x]], S \ {y})
  <2> DEFINE R == S \ {y}
             h == [x \in R |-> f[x]]
  <2>1. g[S] = f[y] + g[R]
    BY <1>1, SumsInAnyOrder
  <2>2. IsFiniteSet(R) /\ h \in [R -> Int]
    BY FS_RemoveElement
  <2>3. SumsOver(f, SUBSET R, g)
    BY <1>1 DEF SumsOver
  <2>4. \A x \in R : h[x] = f[x]
    OBVIOUS
  <2> HIDE DEF R, h
  <2>5. g[R] = SumOf(h, R)
    BY <2>2, <2>3, <2>4, SumUnique
  <2> QED BY <1>2, <2>1, <2>5 DEF R, h
<1> QED BY <1>2, <1>3, <1>4

\* The sum of the ledger is the sum of the amounts of its entries.
LEMMA LedgerSumIs ==
    ASSUME NEW P, P = {e \in Entries : ledger[e] > 0}, IsFiniteSet(P),
           NEW f \in [P -> Int], \A e \in P : f[e] = ledger[e] * AmountOf(e)
    PROVE  LedgerSum = SumOf(f, P)
<1> DEFINE Body(iter) ==
        [s \in SUBSET P |->
            IF s = {} THEN 0
            ELSE ledger[CHOOSE x \in s : TRUE] * AmountOf(CHOOSE x \in s : TRUE)
                 + iter[s \ {CHOOSE x \in s : TRUE}]]
        iterate == CHOOSE iter : iter = Body(iter)
<1>1. PICK g \in [SUBSET P -> Int] : SumsOver(f, SUBSET P, g)
  BY SumsExist
<1>2. g = Body(g)
  BY <1>1 DEF SumsOver
<1>3. iterate = Body(iterate)
  <2> HIDE DEF Body
  <2> QED BY <1>2
<1>4. \A s \in SUBSET P : s # {} => f[CHOOSE x \in s : TRUE] =
          ledger[CHOOSE x \in s : TRUE] * AmountOf(CHOOSE x \in s : TRUE)
  OBVIOUS
<1>5. SumsOver(f, SUBSET P, iterate)
  <2> HIDE DEF iterate
  <2>1. ASSUME NEW T \in SUBSET P, T # {}
        PROVE  iterate[T] = f[CHOOSE x \in T : TRUE]
                            + iterate[T \ {CHOOSE x \in T : TRUE}]
    <3>1. iterate[T] = ledger[CHOOSE x \in T : TRUE] * AmountOf(CHOOSE x \in T : TRUE)
                       + iterate[T \ {CHOOSE x \in T : TRUE}]
      BY <1>3, <2>1
    <3> QED BY <1>4, <2>1, <3>1
  <2>2. iterate[{}] = 0
    BY <1>3
  <2> QED BY <2>1, <2>2 DEF SumsOver
<1>6. iterate[P] = SumOf(f, P)
  <2> HIDE DEF iterate
  <2> QED BY <1>5, SumUnique
<1>7. LedgerSum = iterate[P]
  BY DEF LedgerSum, MapThenSumSet, MapThenFoldSet
<1> QED BY <1>6, <1>7
\* Elements that contribute nothing can be left out of a sum.
LEMMA SumOverPart ==
    ASSUME NEW S, IsFiniteSet(S), NEW f \in [S -> Int],
           NEW T \in SUBSET S, \A x \in S \ T : f[x] = 0
    PROVE  SumOf([x \in T |-> f[x]], T) = SumOf(f, S)
<1> DEFINE part(U) == SumOf([x \in U |-> f[x]], U)
           Bad == {n \in Nat : \E U \in SUBSET S : /\ T \subseteq U
                                                   /\ Cardinality(U) = n
                                                   /\ part(U) # part(T)}
<1>1. \A U \in SUBSET S : IsFiniteSet(U) /\ Cardinality(U) \in Nat
  BY FS_Subset, FS_CardinalityType
<1>2. part(S) = SumOf(f, S)
  <2>1. [x \in S |-> f[x]] = f
    OBVIOUS
  <2> QED BY <2>1
<1> HIDE DEF part
<1>3. Bad = {}
  <2> SUFFICES ASSUME Bad # {}
               PROVE  FALSE
    OBVIOUS
  <2>1. PICK n \in Bad : \A m \in Bad : n <= m
    <3> HIDE DEF Bad
    <3>1. Bad \in SUBSET Nat
      BY DEF Bad
    <3> QED BY <3>1, FirstFailure
  <2>2. PICK U \in SUBSET S : /\ T \subseteq U
                              /\ Cardinality(U) = n
                              /\ part(U) # part(T)
    OBVIOUS
  <2>3. PICK y \in U : y \notin T
    BY <2>2
  <2> DEFINE V == U \ {y}
  <2>4. V \in SUBSET S /\ T \subseteq V /\ Cardinality(V) = n - 1
        /\ Cardinality(V) \in Nat
    BY <1>1, <2>2, <2>3, FS_RemoveElement
  <2>5. part(V) = part(T)
    <3> HIDE DEF V
    <3>1. n \in Nat /\ n - 1 \in Nat
      BY <2>4
    <3>2. n - 1 \notin Bad
      <4> HIDE DEF Bad
      <4> QED BY <2>1, <3>1
    <3> QED BY <2>4, <3>1, <3>2
  <2>6. part(U) = f[y] + part(V)
    <3> DEFINE fU == [x \in U |-> f[x]]
    <3>1. fU \in [U -> Int] /\ IsFiniteSet(U)
      BY <1>1
    <3>2. SumOf(fU, U) = fU[y] + SumOf([x \in V |-> fU[x]], V)
      <4> HIDE DEF fU
      <4> QED BY <3>1, SumSplit
    <3>3. [x \in V |-> fU[x]] = [x \in V |-> f[x]]
      OBVIOUS
    <3>4. fU[y] = f[y]
      OBVIOUS
    <3> HIDE DEF fU
    <3> QED BY <3>2, <3>3, <3>4 DEF part, fU
  <2>7. part(V) \in Int
    <3> DEFINE fV == [x \in V |-> f[x]]
    <3>1. fV \in [V -> Int] /\ IsFiniteSet(V)
      BY <1>1, <2>4
    <3>2. SumOf(fV, V) \in Int
      <4> HIDE DEF fV, V
      <4> QED BY <3>1, SumUnique
    <3> QED BY <3>2 DEF part
  <2>8. f[y] = 0
    BY <2>3
  <2> QED BY <2>2, <2>5, <2>6, <2>7, <2>8
<1>4. part(S) = part(T)
  <2>1. Cardinality(S) \in Nat
    BY <1>1
  <2> QED BY <1>3, <2>1
<1> QED BY <1>2, <1>4 DEF part

\* One value of a sum changes.
LEMMA SumChange ==
    ASSUME NEW S, IsFiniteSet(S), NEW f \in [S -> Int], NEW h \in [S -> Int],
           NEW y \in S, \A x \in S : x # y => h[x] = f[x]
    PROVE  SumOf(h, S) = SumOf(f, S) - f[y] + h[y]
<1> DEFINE R == S \ {y}
           fR == [x \in R |-> f[x]]
           hR == [x \in R |-> h[x]]
<1>1. fR = hR
  OBVIOUS
<1>2. SumOf(f, S) = f[y] + SumOf(fR, R)
  BY SumSplit
<1>3. SumOf(h, S) = h[y] + SumOf(hR, R)
  BY SumSplit
<1>4. SumOf(fR, R) \in Int
  <2>1. IsFiniteSet(R) /\ fR \in [R -> Int]
    BY FS_RemoveElement
  <2> HIDE DEF R, fR
  <2> QED BY <2>1, SumUnique
<1>5. f[y] \in Int /\ h[y] \in Int
  OBVIOUS
<1> HIDE DEF R, fR, hR
<1> QED BY <1>1, <1>2, <1>3, <1>4, <1>5

\* The image of a finite set under a function is finite.
LEMMA FiniteImage ==
    ASSUME NEW S, IsFiniteSet(S), NEW T, NEW f \in [S -> T]
    PROVE  IsFiniteSet({f[x] : x \in S})
<1> DEFINE R == {f[x] : x \in S}
<1>1. f \in Surjection(S, R)
  BY DEF Surjection
<1> QED BY <1>1, FS_Surjection

\* The ledger has finitely many kinds of entries.
LEMMA EntriesFinite == IsFiniteSet(Entries) /\ IsFiniteSet(WithdrawalIds)
<1>1. /\ IsFiniteSet(WithdrawalIds) /\ IsFiniteSet(SubmissionIds)
      /\ IsFiniteSet(SuggestionIds) /\ IsFiniteSet(ReviewIds) /\ IsFiniteSet(TradeIds)
  BY FS_Interval, TablesAssumption
     DEF WithdrawalIds, SubmissionIds, SuggestionIds, ReviewIds, TradeIds
<1>2. IsFiniteSet(Milestones)
  <2>1. IsFiniteSet(AccountMilestones)
    <3>1. AccountMilestones = ((({} \cup {"REGISTRATION_BONUS"})
             \cup {"PHONE_VERIFIED_BONUS"}) \cup {"EMAIL_VERIFIED_BONUS"})
             \cup {"KBZPAY_VERIFIED_BONUS"}
      BY DEF AccountMilestones
    <3> QED BY <3>1, FS_EmptySet, FS_AddElement
  <2> QED BY <2>1, FS_Subset, MilestonesAssumption
<1> DEFINE bonus == [m \in Milestones |-> Bonus(m)]
           follow == [f \in SubmissionIds |-> Follow(f)]
           review == [v \in ReviewIds |-> Review(v)]
           reward == [g \in SuggestionIds |-> Reward(g)]
           withdrawn == [w \in WithdrawalIds |-> Withdrawn(w)]
           penalty == [t \in TradeIds |-> Penalty(t)]
<1>3. /\ {Bonus(m) : m \in Milestones} = {bonus[m] : m \in Milestones}
      /\ {Follow(f) : f \in SubmissionIds} = {follow[f] : f \in SubmissionIds}
      /\ {Review(v) : v \in ReviewIds} = {review[v] : v \in ReviewIds}
      /\ {Reward(g) : g \in SuggestionIds} = {reward[g] : g \in SuggestionIds}
      /\ {Withdrawn(w) : w \in WithdrawalIds} = {withdrawn[w] : w \in WithdrawalIds}
      /\ {Penalty(t) : t \in TradeIds} = {penalty[t] : t \in TradeIds}
  OBVIOUS
<1>4. /\ IsFiniteSet({bonus[m] : m \in Milestones})
      /\ IsFiniteSet({follow[f] : f \in SubmissionIds})
      /\ IsFiniteSet({review[v] : v \in ReviewIds})
      /\ IsFiniteSet({reward[g] : g \in SuggestionIds})
      /\ IsFiniteSet({withdrawn[w] : w \in WithdrawalIds})
      /\ IsFiniteSet({penalty[t] : t \in TradeIds})
  <2>1. IsFiniteSet({bonus[m] : m \in Milestones})
    <3>1. bonus \in [Milestones -> Entries]
      BY EntriesTyped
    <3> HIDE DEF bonus
    <3> QED BY <1>1, <1>2, <3>1, FiniteImage
  <2>2. IsFiniteSet({follow[f] : f \in SubmissionIds})
    <3>1. follow \in [SubmissionIds -> Entries]
      BY EntriesTyped
    <3> HIDE DEF follow
    <3> QED BY <1>1, <1>2, <3>1, FiniteImage
  <2>3. IsFiniteSet({review[v] : v \in ReviewIds})
    <3>1. review \in [ReviewIds -> Entries]
      BY EntriesTyped
    <3> HIDE DEF review
    <3> QED BY <1>1, <1>2, <3>1, FiniteImage
  <2>4. IsFiniteSet({reward[g] : g \in SuggestionIds})
    <3>1. reward \in [SuggestionIds -> Entries]
      BY EntriesTyped
    <3> HIDE DEF reward
    <3> QED BY <1>1, <1>2, <3>1, FiniteImage
  <2>5. IsFiniteSet({withdrawn[w] : w \in WithdrawalIds})
    <3>1. withdrawn \in [WithdrawalIds -> Entries]
      BY EntriesTyped
    <3> HIDE DEF withdrawn
    <3> QED BY <1>1, <1>2, <3>1, FiniteImage
  <2>6. IsFiniteSet({penalty[t] : t \in TradeIds})
    <3>1. penalty \in [TradeIds -> Entries]
      BY EntriesTyped
    <3> HIDE DEF penalty
    <3> QED BY <1>1, <1>2, <3>1, FiniteImage
  <2> QED BY <2>1, <2>2, <2>3, <2>4, <2>5, <2>6
<1>5. /\ IsFiniteSet({Bonus(m) : m \in Milestones})
      /\ IsFiniteSet({Follow(f) : f \in SubmissionIds})
      /\ IsFiniteSet({Review(v) : v \in ReviewIds})
      /\ IsFiniteSet({Reward(g) : g \in SuggestionIds})
      /\ IsFiniteSet({Withdrawn(w) : w \in WithdrawalIds})
      /\ IsFiniteSet({Penalty(t) : t \in TradeIds})
  BY <1>3, <1>4
<1> HIDE DEF bonus, follow, review, reward, withdrawn, penalty
<1> QED BY <1>1, <1>5, FS_Union DEF Entries
\* What each entry contributes to the sum of the ledger
LedgerTerms == [e \in Entries |-> IF ledger[e] > 0 THEN ledger[e] * AmountOf(e) ELSE 0]

\* A withdrawal that has an entry has a row.
EntriesOfRows ==
    \A w \in WithdrawalIds : ledger[Withdrawn(w)] > 0 => w \in DOMAIN withdrawal

\* The amounts of the entries, by their kind
AmountsAre ==
    /\ \A m \in Milestones : AmountOf(Bonus(m)) = ACCOUNT_MILESTONE_BONUS_POINTS
    /\ \A f \in SubmissionIds : AmountOf(Follow(f)) = FACEBOOK_FOLLOW_REWARD_POINTS
    /\ \A v \in ReviewIds : AmountOf(Review(v)) = ReviewPoints
    /\ \A g \in SuggestionIds : AmountOf(Reward(g)) = SuggestionPoints
    /\ \A t \in TradeIds : AmountOf(Penalty(t)) = -CANCELLATION_PENALTY_POINTS
    /\ \A w \in WithdrawalIds : AmountOf(Withdrawn(w)) = -withdrawal[w].amount

\* They are so in every state, and in the next one.
LEMMA AmountsByKind == AmountsAre /\ AmountsAre'
<1>1. ASSUME NEW m \in Milestones
      PROVE  AmountOf(Bonus(m)) = ACCOUNT_MILESTONE_BONUS_POINTS
  <2>1. m \in AccountMilestones
    BY MilestonesAssumption
  <2> QED BY <2>1 DEF AmountOf, Bonus, AccountMilestones
<1>2. /\ \A f \in SubmissionIds : AmountOf(Follow(f)) = FACEBOOK_FOLLOW_REWARD_POINTS
      /\ \A v \in ReviewIds : AmountOf(Review(v)) = ReviewPoints
      /\ \A g \in SuggestionIds : AmountOf(Reward(g)) = SuggestionPoints
      /\ \A t \in TradeIds : AmountOf(Penalty(t)) = -CANCELLATION_PENALTY_POINTS
      /\ \A w \in WithdrawalIds : AmountOf(Withdrawn(w)) = -withdrawal[w].amount
  BY DEF AmountOf, Follow, Review, Reward, Penalty, Withdrawn, AccountMilestones
<1>3. AmountsAre
  BY <1>1, <1>2 DEF AmountsAre
<1> QED BY <1>3, PTL

\* Every entry that is in the ledger has an amount.
LEMMA AmountTyped ==
    ASSUME TypeOK, EntriesOfRows, NEW e \in Entries, ledger[e] > 0
    PROVE  AmountOf(e) \in Int
<1>1. AmountsAre
  BY AmountsByKind
<1>2. /\ ACCOUNT_MILESTONE_BONUS_POINTS \in Int /\ FACEBOOK_FOLLOW_REWARD_POINTS \in Int
      /\ ReviewPoints \in Int /\ SuggestionPoints \in Int
      /\ -CANCELLATION_PENALTY_POINTS \in Int
  BY PointsAssumption
     DEF ACCOUNT_MILESTONE_BONUS_POINTS, FACEBOOK_FOLLOW_REWARD_POINTS,
         CANCELLATION_PENALTY_POINTS
<1>3. ASSUME NEW w \in WithdrawalIds, e = Withdrawn(w)
      PROVE  AmountOf(e) \in Int
  <2>1. w \in DOMAIN withdrawal /\ withdrawal[w].amount \in Nat
    BY <1>3 DEF EntriesOfRows, TypeOK, Withdrawal
  <2>2. AmountOf(e) = -withdrawal[w].amount
    BY <1>1, <1>3 DEF AmountsAre
  <2> QED BY <2>1, <2>2
<1>4. \/ \E m \in Milestones : e = Bonus(m)
      \/ \E f \in SubmissionIds : e = Follow(f)
      \/ \E v \in ReviewIds : e = Review(v)
      \/ \E g \in SuggestionIds : e = Reward(g)
      \/ \E w \in WithdrawalIds : e = Withdrawn(w)
      \/ \E t \in TradeIds : e = Penalty(t)
  BY DEF Entries
<1> QED BY <1>1, <1>2, <1>3, <1>4 DEF AmountsAre

\* The sum of the ledger is the sum of what its entries contribute.
LedgerAddsUp ==
    /\ LedgerTerms \in [Entries -> Int]
    /\ LedgerSum = SumOf(LedgerTerms, Entries)

\* The sum of the ledger is a sum over all the kinds of entries.
LEMMA LedgerSumOf == TypeOK /\ EntriesOfRows => LedgerAddsUp
<1> SUFFICES ASSUME TypeOK, EntriesOfRows
             PROVE  LedgerAddsUp
  OBVIOUS
<1> DEFINE P == {e \in Entries : ledger[e] > 0}
           f == [e \in P |-> LedgerTerms[e]]
<1>1. \A e \in P : ledger[e] \in Int /\ AmountOf(e) \in Int
  BY AmountTyped DEF TypeOK
<1>2. LedgerTerms \in [Entries -> Int]
  BY <1>1 DEF LedgerTerms
<1>3. f \in [P -> Int] /\ \A e \in P : f[e] = ledger[e] * AmountOf(e)
  BY <1>1 DEF LedgerTerms
<1>4. IsFiniteSet(P)
  BY EntriesFinite, FS_Subset
<1>5. LedgerSum = SumOf(f, P)
  <2> HIDE DEF f
  <2> QED BY <1>3, <1>4, LedgerSumIs
<1>6. \A e \in Entries \ P : LedgerTerms[e] = 0
  BY DEF LedgerTerms
<1>7. SumOf(f, P) = SumOf(LedgerTerms, Entries)
  <2>1. P \in SUBSET Entries
    OBVIOUS
  <2> HIDE DEF P
  <2> QED BY <1>2, <1>6, <2>1, EntriesFinite, SumOverPart
<1> QED BY <1>2, <1>5, <1>7 DEF LedgerAddsUp

\* The same in the next state
LEMMA NextLedgerSumOf == TypeOK' /\ EntriesOfRows' => LedgerAddsUp'
BY LedgerSumOf, PTL

\* What each row contributes to the sum of the pending requests
PendingTerms(rows) ==
    [w \in WithdrawalIds |->
        IF w \in DOMAIN rows /\ rows[w].status = "PENDING" THEN rows[w].amount ELSE 0]

\* The sum of the pending requests as a sum over all the ids
LEMMA PendingSumOf ==
    ASSUME NEW D \in SUBSET WithdrawalIds, NEW rows \in [D -> Withdrawal]
    PROVE  /\ PendingTerms(rows) \in [WithdrawalIds -> Int]
           /\ PendingIn(rows) = SumOf(PendingTerms(rows), WithdrawalIds)
<1> DEFINE P == {w \in DOMAIN rows : rows[w].status = "PENDING"}
           terms == PendingTerms(rows)
           f == [w \in P |-> terms[w]]
<1>1. \A w \in DOMAIN rows : rows[w].amount \in Int
  BY DEF Withdrawal
<1>2. terms \in [WithdrawalIds -> Int]
  BY <1>1 DEF PendingTerms
<1>3. f \in [P -> Int] /\ \A w \in P : f[w] = rows[w].amount
  BY <1>1 DEF PendingTerms
<1>4. P \in SUBSET WithdrawalIds /\ IsFiniteSet(P)
  BY EntriesFinite, FS_Subset
<1>5. PendingIn(rows) = SumOf(f, P)
  <2> DEFINE Body(iter) ==
          [s \in SUBSET P |->
              IF s = {} THEN 0
              ELSE rows[CHOOSE x \in s : TRUE].amount + iter[s \ {CHOOSE x \in s : TRUE}]]
          iterate == CHOOSE iter : iter = Body(iter)
  <2>1. PICK g \in [SUBSET P -> Int] : SumsOver(f, SUBSET P, g)
    <3> HIDE DEF f, P
    <3> QED BY <1>3, <1>4, SumsExist
  <2>4. \A s \in SUBSET P : s # {} =>
            f[CHOOSE x \in s : TRUE] = rows[CHOOSE x \in s : TRUE].amount
    BY <1>3
  <2> HIDE DEF f, P
  <2>2. g = Body(g)
    BY <2>1, <2>4 DEF SumsOver
  <2>3. iterate = Body(iterate)
    <3> HIDE DEF Body
    <3> QED BY <2>2
  <2>5. SumsOver(f, SUBSET P, iterate)
    <3> HIDE DEF iterate
    <3>1. ASSUME NEW T \in SUBSET P, T # {}
          PROVE  iterate[T] = f[CHOOSE x \in T : TRUE]
                              + iterate[T \ {CHOOSE x \in T : TRUE}]
      <4>1. iterate[T] = rows[CHOOSE x \in T : TRUE].amount
                         + iterate[T \ {CHOOSE x \in T : TRUE}]
        BY <2>3, <3>1
      <4> QED BY <2>4, <3>1, <4>1
    <3>2. iterate[{}] = 0
      BY <2>3
    <3> QED BY <3>1, <3>2 DEF SumsOver
  <2>6. iterate[P] = SumOf(f, P)
    <3> HIDE DEF iterate
    <3> QED BY <1>3, <1>4, <2>5, SumUnique
  <2>7. PendingIn(rows) = iterate[P]
    BY DEF PendingIn, MapThenSumSet, MapThenFoldSet, P
  <2> QED BY <2>6, <2>7
<1>6. \A w \in WithdrawalIds \ P : terms[w] = 0
  BY DEF PendingTerms
<1>7. SumOf(f, P) = SumOf(terms, WithdrawalIds)
  <2> HIDE DEF P, terms
  <2> QED BY <1>2, <1>4, <1>6, EntriesFinite, SumOverPart
<1> QED BY <1>2, <1>5, <1>7

-----------------------------------------------------------------------------
(* One handler at a time.  What a handler has read is then still true when it *)
(* writes, and the ledger explains the balance.                               *)

OneSlot == \A s, t \in Slots : s = t

\* What the handler with the local variables q may rely on when it is alone
AloneOK(q, points, entries, withdrawals, suggestions) ==
    /\ q.step \in {"bonus.read", "bonus.write"} => entries[Bonus(q.source)] = 0
    /\ q.step \in {"follow.read", "follow.write"} =>
          \A f \in SubmissionIds : entries[Follow(f)] = 0
    /\ q.step \in {"approve.write", "reject.write"} =>
          q.id \in DOMAIN withdrawals /\ withdrawals[q.id].status = "PENDING"
    /\ q.step = "paid.write" =>
          q.id \in DOMAIN withdrawals /\ withdrawals[q.id].status = "APPROVED"
    /\ q.step \in {"reward.read", "reward.write", "dismiss.write"} =>
          suggestions[q.id] = "PENDING"
    /\ q.step \in StepsOfBalance \cup {"withdraw.sum"} => q.balance = points
    /\ q.step = "withdraw.create" => PendingIn(withdrawals) + q.amount <= points

\* The inductive invariant of handlers that run one at a time
AloneInv ==
    /\ Inv
    /\ OneSlot
    /\ \A s \in Slots :
          AloneOK(request[s], account.points, ledger, withdrawal, suggestion)
    /\ OncePerLifetime
    /\ StatusMatchesLedger
    /\ BalanceIsLedgerSum
\* Rows stay, with the same amount.
RowsStay ==
    \A w \in DOMAIN withdrawal :
        w \in DOMAIN withdrawal' /\ withdrawal'[w].amount = withdrawal[w].amount

\* An entry of the ledger keeps its amount.
LEMMA AmountStays ==
    ASSUME RowsStay, NEW e \in Entries,
           \A w \in WithdrawalIds : e = Withdrawn(w) => w \in DOMAIN withdrawal
    PROVE  AmountOf(e)' = AmountOf(e)
<1>1. AmountsAre /\ AmountsAre'
  BY AmountsByKind
<1>2. \/ \E m \in Milestones : e = Bonus(m)
      \/ \E f \in SubmissionIds : e = Follow(f)
      \/ \E v \in ReviewIds : e = Review(v)
      \/ \E g \in SuggestionIds : e = Reward(g)
      \/ \E w \in WithdrawalIds : e = Withdrawn(w)
      \/ \E t \in TradeIds : e = Penalty(t)
  BY DEF Entries
<1>3. ASSUME NEW w \in WithdrawalIds, e = Withdrawn(w)
      PROVE  AmountOf(e)' = AmountOf(e)
  <2>1. AmountOf(Withdrawn(w))' = -withdrawal'[w].amount
    BY <1>1 DEF AmountsAre
  <2>2. AmountOf(Withdrawn(w)) = -withdrawal[w].amount
    BY <1>1 DEF AmountsAre
  <2>3. withdrawal'[w].amount = withdrawal[w].amount
    BY <1>3 DEF RowsStay
  <2> QED BY <1>3, <2>1, <2>2, <2>3
<1>4. ASSUME NEW m \in Milestones, e = Bonus(m) PROVE AmountOf(e)' = AmountOf(e)
  BY <1>1, <1>4 DEF AmountsAre
<1>5. ASSUME NEW f \in SubmissionIds, e = Follow(f) PROVE AmountOf(e)' = AmountOf(e)
  BY <1>1, <1>5 DEF AmountsAre
<1>6. ASSUME NEW v \in ReviewIds, e = Review(v) PROVE AmountOf(e)' = AmountOf(e)
  BY <1>1, <1>6 DEF AmountsAre
<1>7. ASSUME NEW g \in SuggestionIds, e = Reward(g) PROVE AmountOf(e)' = AmountOf(e)
  BY <1>1, <1>7 DEF AmountsAre
<1>8. ASSUME NEW t \in TradeIds, e = Penalty(t) PROVE AmountOf(e)' = AmountOf(e)
  BY <1>1, <1>8 DEF AmountsAre
<1> QED BY <1>2, <1>3, <1>4, <1>5, <1>6, <1>7, <1>8

\* Without a new entry the sum of the ledger stays.
LEMMA LedgerRests ==
    ASSUME TypeOK, TypeOK', EntriesOfRows, RowsStay, ledger' = ledger
    PROVE  LedgerSum' = LedgerSum
<1>1. EntriesOfRows'
  BY DEF EntriesOfRows, RowsStay
<1>2. LedgerAddsUp /\ LedgerAddsUp'
  BY <1>1, LedgerSumOf, NextLedgerSumOf
<1>3. \A e \in Entries : ledger[e] > 0 => AmountOf(e)' = AmountOf(e)
  BY AmountStays DEF EntriesOfRows
<1>4. LedgerTerms' = LedgerTerms
  BY <1>3 DEF LedgerTerms
<1> QED BY <1>2, <1>4 DEF LedgerAddsUp

\* The ledger has one more entry.
Adds(entry) == ledger' = [ledger EXCEPT ![entry] = @ + 1]

\* A new entry adds its amount to the sum of the ledger.
LEMMA LedgerGrows ==
    ASSUME TypeOK, TypeOK', EntriesOfRows, EntriesOfRows', RowsStay,
           NEW entry \in Entries, Adds(entry),
           NEW amount \in Int, AmountOf(entry) = amount,
           \A w \in WithdrawalIds : entry = Withdrawn(w) => w \in DOMAIN withdrawal
    PROVE  LedgerSum' = LedgerSum + amount
<1>1. LedgerAddsUp /\ LedgerAddsUp'
  BY LedgerSumOf, NextLedgerSumOf
<1>2. \A e \in Entries : ledger[e] > 0 => AmountOf(e)' = AmountOf(e)
  BY AmountStays DEF EntriesOfRows
<1>3. /\ \A e \in Entries : e # entry => ledger'[e] = ledger[e]
      /\ ledger[entry] \in Nat
      /\ ledger'[entry] = ledger[entry] + 1
  BY DEF TypeOK, Adds
<1>4. \A e \in Entries : e # entry => LedgerTerms'[e] = LedgerTerms[e]
  BY <1>2, <1>3 DEF LedgerTerms
<1>5. LedgerTerms'[entry] = LedgerTerms[entry] + amount
  <2>1. LedgerTerms'[entry] = (ledger[entry] + 1) * amount
    <3>1. AmountOf(entry)' = amount
      BY AmountStays
    <3> QED BY <1>3, <3>1 DEF LedgerTerms
  <2>2. CASE ledger[entry] > 0
    <3>1. LedgerTerms[entry] = ledger[entry] * amount
      BY <1>2, <2>2 DEF LedgerTerms
    <3> HIDE DEF LedgerTerms
    <3> QED BY <1>3, <2>1, <3>1
  <2>3. CASE ~(ledger[entry] > 0)
    <3>1. LedgerTerms[entry] = 0 /\ ledger[entry] = 0
      BY <1>3, <2>3 DEF LedgerTerms
    <3>2. (0 + 1) * amount = 0 + amount
      OBVIOUS
    <3> QED BY <2>1, <3>1, <3>2
  <2> QED BY <2>2, <2>3
<1>6. LedgerTerms \in [Entries -> Int] /\ LedgerTerms' \in [Entries -> Int]
      /\ LedgerSum = SumOf(LedgerTerms, Entries)
      /\ LedgerSum' = SumOf(LedgerTerms', Entries)
  BY <1>1 DEF LedgerAddsUp
<1>7. LedgerSum' = LedgerSum - LedgerTerms[entry] + LedgerTerms'[entry]
  BY <1>4, <1>6, EntriesFinite, SumChange
<1>8. LedgerSum \in Int /\ LedgerTerms[entry] \in Int
  BY <1>6, EntriesFinite, SumUnique
<1> QED BY <1>5, <1>7, <1>8
\* A new request is added to the sum of those that are pending.
LEMMA PendingGrows ==
    ASSUME TypeOK, TypeOK', NEW w \in WithdrawalIds, w \notin DOMAIN withdrawal,
           NEW amount \in Nat,
           withdrawal' = WithRow(withdrawal, w, [amount |-> amount, status |-> "PENDING"])
    PROVE  /\ PendingIn(withdrawal) \in Int
           /\ PendingIn(withdrawal') = PendingIn(withdrawal) + amount
<1> DEFINE old == PendingTerms(withdrawal)
           new == PendingTerms(withdrawal')
<1>1. /\ old \in [WithdrawalIds -> Int]
      /\ PendingIn(withdrawal) = SumOf(old, WithdrawalIds)
  BY PendingSumOf DEF TypeOK
<1>2. /\ new \in [WithdrawalIds -> Int]
      /\ PendingIn(withdrawal') = SumOf(new, WithdrawalIds)
  BY PendingSumOf DEF TypeOK
<1>3. /\ old[w] = 0 /\ new[w] = amount
      /\ \A x \in WithdrawalIds : x # w => new[x] = old[x]
  BY DEF PendingTerms, WithRow
<1> HIDE DEF old, new
<1>4. SumOf(new, WithdrawalIds) = SumOf(old, WithdrawalIds) - old[w] + new[w]
  BY <1>1, <1>2, <1>3, EntriesFinite, SumChange
<1>5. SumOf(old, WithdrawalIds) \in Int
  BY <1>1, EntriesFinite, SumUnique
<1> QED BY <1>1, <1>2, <1>3, <1>4, <1>5

\* Entries of different sources are different, and so are those of one source
\* that are about different rows.
LEMMA EntriesDiffer ==
    /\ \A m \in Milestones :
          /\ \A n : Bonus(m) = Bonus(n) => m = n
          /\ \A x : /\ Bonus(m) # Follow(x)
                    /\ Bonus(m) # Reward(x)
                    /\ Bonus(m) # Withdrawn(x)
                    /\ Bonus(m) # Review(x)
                    /\ Bonus(m) # Penalty(x)
    /\ \A x, y : /\ Follow(x) = Follow(y) => x = y
                 /\ Reward(x) = Reward(y) => x = y
                 /\ Withdrawn(x) = Withdrawn(y) => x = y
                 /\ Follow(x) # Reward(y) /\ Follow(x) # Withdrawn(y)
                 /\ Follow(x) # Review(y) /\ Follow(x) # Penalty(y)
                 /\ Reward(x) # Withdrawn(y)
                 /\ Reward(x) # Review(y) /\ Reward(x) # Penalty(y)
                 /\ Withdrawn(x) # Review(y) /\ Withdrawn(x) # Penalty(y)
BY MilestonesAssumption
   DEF Bonus, Follow, Review, Reward, Withdrawn, Penalty, AccountMilestones

\* The entries of withdrawals belong to rows that exist.
LEMMA AloneRows ==
    ASSUME TypeOK, StatusMatchesLedger
    PROVE  EntriesOfRows
<1> SUFFICES ASSUME NEW w \in WithdrawalIds, ledger[Withdrawn(w)] > 0
             PROVE  w \in DOMAIN withdrawal
  BY DEF EntriesOfRows
<1>1. ledger[Withdrawn(w)] # 0
  OBVIOUS
<1> QED BY <1>1 DEF StatusMatchesLedger, HasStatus

\* The only handler continues with q, and what it may rely on holds.
LEMMA AloneStep ==
    ASSUME AloneInv, Inv', NEW s \in Slots, NEW q, Continue(s, q),
           AloneOK(q, account'.points, ledger', withdrawal', suggestion'),
           OncePerLifetime', StatusMatchesLedger', BalanceIsLedgerSum'
    PROVE  AloneInv'
<1>1. \A x \in Slots : request'[x] = q
  BY DEF AloneInv, OneSlot, Continue, Inv, TypeOK
<1> QED BY <1>1 DEF AloneInv, OneSlot

\* The only handler continues with q and leaves the ledger and its reasons.
LEMMA AloneReads ==
    ASSUME AloneInv, Inv', NEW s \in Slots, NEW q, Continue(s, q),
           UNCHANGED <<ledger, withdrawal, suggestion>>,
           account'.points = account.points,
           AloneOK(q, account.points, ledger, withdrawal, suggestion)
    PROVE  AloneInv'
<1>1. OncePerLifetime' /\ StatusMatchesLedger'
  BY DEF AloneInv, OncePerLifetime, StatusMatchesLedger, HasStatus
<1>2. LedgerSum' = LedgerSum
  BY AloneRows, LedgerRests DEF AloneInv, Inv, RowsStay
<1>3. BalanceIsLedgerSum'
  BY <1>2 DEF AloneInv, BalanceIsLedgerSum
<1> QED BY <1>1, <1>3, AloneStep

\* What a handler relies on that has not read anything
LEMMA NothingReliedOn ==
    ASSUME NEW q, NEW points, NEW entries, NEW withdrawals, NEW suggestions,
           q.step \in {"idle", "bonus.find", "link.write", "follow.create",
                       "suggest.create", "follow.find", "follow.reject",
                       "follow.close", "review.read"}
    PROVE  AloneOK(q, points, entries, withdrawals, suggestions)
BY DEF AloneOK, StepsOfBalance

\* A handler that starts may rely on what it has read.
LEMMA AloneBegins ==
    ASSUME AloneInv, Inv', NEW s \in Slots, Begin(s)
    PROVE  AloneInv'
<1> USE DEF StepsOfBalance
<1>1. ASSUME NEW m \in Milestones, BeginMilestone(s, m) PROVE AloneInv'
  <2> DEFINE q == [step |-> "bonus.find", source |-> m]
  <2>1. AloneOK(q, account.points, ledger, withdrawal, suggestion)
    BY NothingReliedOn
  <2> HIDE DEF q
  <2>2. Continue(s, q)
    BY <1>1 DEF BeginMilestone, q
  <2> QED BY <1>1, <2>1, <2>2, AloneReads DEF BeginMilestone
<1>2. CASE BeginSubmission(s)
  <2> DEFINE q == [step |-> "follow.create"]
  <2>1. AloneOK(q, account.points, ledger, withdrawal, suggestion)
    BY NothingReliedOn
  <2> QED BY <1>2, <2>1, AloneReads DEF BeginSubmission, tables
<1>3. ASSUME NEW f \in SubmissionIds, NEW verdict \in {"follow.find", "follow.reject"},
             BeginFollowReview(s, f, verdict)
      PROVE  AloneInv'
  <2> DEFINE q == [step |-> verdict, id |-> f]
  <2>1. AloneOK(q, account.points, ledger, withdrawal, suggestion)
    BY NothingReliedOn
  <2> QED BY <1>3, <2>1, AloneReads DEF BeginFollowReview, tables
<1>4. ASSUME NEW v \in ReviewIds, BeginReview(s, v) PROVE AloneInv'
  <2> DEFINE q == [step |-> "review.read", id |-> v]
  <2>1. AloneOK(q, account.points, ledger, withdrawal, suggestion)
    BY NothingReliedOn
  <2> QED BY <1>4, <2>1, AloneReads DEF BeginReview, tables
<1>5. ASSUME NEW g \in SuggestionIds, NEW verdict \in {"reward.read", "dismiss.write"},
             BeginSuggestionReview(s, g, verdict)
      PROVE  AloneInv'
  <2> DEFINE q == [step |-> verdict, id |-> g]
  <2>1. AloneOK(q, account.points, ledger, withdrawal, suggestion)
    BY <1>5 DEF AloneOK, BeginSuggestionReview
  <2> QED BY <1>5, <2>1, AloneReads DEF BeginSuggestionReview, tables
<1>6. ASSUME NEW amount \in Amounts, BeginWithdrawal(s, amount) PROVE AloneInv'
  <2> DEFINE q == [step |-> "withdraw.sum", amount |-> amount, balance |-> account.points]
  <2>1. AloneOK(q, account.points, ledger, withdrawal, suggestion)
    BY DEF AloneOK
  <2> QED BY <1>6, <2>1, AloneReads DEF BeginWithdrawal, tables
<1>7. ASSUME NEW w \in WithdrawalIds, ReadForApprove(s, w) PROVE AloneInv'
  <2> DEFINE q == [step |-> "approve.write", id |-> w, balance |-> account.points]
  <2>1. AloneOK(q, account.points, ledger, withdrawal, suggestion)
    BY <1>7 DEF AloneOK, ReadForApprove, HasStatus
  <2> QED BY <1>7, <2>1, AloneReads DEF ReadForApprove, tables
<1>8. ASSUME NEW w \in WithdrawalIds, ReadForReject(s, w) PROVE AloneInv'
  <2> DEFINE q == [step |-> "reject.write", id |-> w]
  <2>1. AloneOK(q, account.points, ledger, withdrawal, suggestion)
    BY <1>8 DEF AloneOK, ReadForReject, HasStatus
  <2> QED BY <1>8, <2>1, AloneReads DEF ReadForReject, tables
<1>9. ASSUME NEW w \in WithdrawalIds, ReadForPaid(s, w) PROVE AloneInv'
  <2> DEFINE q == [step |-> "paid.write", id |-> w]
  <2>1. AloneOK(q, account.points, ledger, withdrawal, suggestion)
    BY <1>9 DEF AloneOK, ReadForPaid, HasStatus
  <2> QED BY <1>9, <2>1, AloneReads DEF ReadForPaid, tables
<1>10. ASSUME NEW t \in TradeIds, ReadForPenalty(s, t) PROVE AloneInv'
  <2> DEFINE q == [step |-> "penalty.write", id |-> t, balance |-> account.points,
                   block |-> /\ account.points - CANCELLATION_PENALTY_POINTS <= Threshold
                             /\ ~account.banned \/ account.active]
  <2>1. AloneOK(q, account.points, ledger, withdrawal, suggestion)
    BY DEF AloneOK
  <2> HIDE DEF q
  <2>2. Continue(s, q)
    BY <1>10 DEF ReadForPenalty, q
  <2> QED BY <1>10, <2>1, <2>2, AloneReads DEF ReadForPenalty
<1>11. CASE BeginLink(s)
  <2> DEFINE q == [step |-> "link.write"]
  <2>1. AloneOK(q, account.points, ledger, withdrawal, suggestion)
    BY NothingReliedOn
  <2> QED BY <1>11, <2>1, AloneReads DEF BeginLink, tables
<1>12. CASE BeginSuggestion(s)
  <2> DEFINE q == [step |-> "suggest.create"]
  <2>1. AloneOK(q, account.points, ledger, withdrawal, suggestion)
    BY NothingReliedOn
  <2> QED BY <1>12, <2>1, AloneReads DEF BeginSuggestion, tables
<1> QED BY <1>1, <1>2, <1>3, <1>4, <1>5, <1>6, <1>7, <1>8, <1>9, <1>10, <1>11, <1>12
     DEF Begin, PointsRoutes, FollowRoutes, ClientSuggestionRoutes, FollowReviewRoutes,
         SuggestionRoutes, WithdrawalRoutes
\* The handlers that read, and those that write what the ledger is not about
LEMMA AloneContinues ==
    ASSUME AloneInv, Inv', NEW s \in Slots,
           \/ FindBonus(s) \/ ReadForBonus(s) \/ SetFacebookLink(s)
           \/ CreateSubmission(s) \/ FindFollow(s) \/ ReadForFollow(s)
           \/ CloseFollow(s) \/ RejectFollow(s) \/ ReadForReview(s)
           \/ ReadForReward(s) \/ SumPending(s) \/ Crash(s)
    PROVE  AloneInv'
<1> USE DEF StepsOfBalance
<1> DEFINE r == request[s]
<1>a. /\ r \in Request /\ account.points \in Int
      /\ AloneOK(r, account.points, ledger, withdrawal, suggestion)
      /\ \A e \in Entries : ledger[e] \in Nat
      /\ account \in Account
  BY DEF AloneInv, Inv, TypeOK, Account
<1>b. ASSUME Finish(s), UNCHANGED <<ledger, withdrawal, suggestion>>,
             account'.points = account.points
      PROVE  AloneInv'
  <2>1. AloneOK(Idle, account.points, ledger, withdrawal, suggestion)
    BY NothingReliedOn DEF Idle
  <2> QED BY <1>b, <2>1, AloneReads DEF Finish
<1>1. CASE FindBonus(s)
  <2>1. CASE Finish(s)
    BY <1>1, <1>b, <2>1 DEF FindBonus, tables
  <2>2. CASE ~Finish(s)
    <3> DEFINE q == [step |-> "bonus.read", source |-> r.source]
    <3>1. r.source \in Milestones /\ Continue(s, q)
      BY <1>a, <1>1, <2>2, RequestFields DEF FindBonus, At, Continue
    <3>2. ledger[Bonus(r.source)] = 0
      BY <1>a, <1>1, <2>2, <3>1, EntriesTyped DEF FindBonus
    <3>3. AloneOK(q, account.points, ledger, withdrawal, suggestion)
      BY <3>2 DEF AloneOK
    <3> QED BY <1>1, <3>1, <3>3, AloneReads DEF FindBonus, tables
  <2> QED BY <2>1, <2>2
<1>2. CASE ReadForBonus(s)
  <2> DEFINE q == [step |-> "bonus.write", source |-> r.source, balance |-> account.points]
  <2>1. AloneOK(q, account.points, ledger, withdrawal, suggestion)
    BY <1>a, <1>2 DEF AloneOK, ReadForBonus, At
  <2> QED BY <1>2, <2>1, AloneReads DEF ReadForBonus, tables
<1>3. CASE SetFacebookLink(s)
  BY <1>3, <1>a, <1>b DEF SetFacebookLink, tables, Account
<1>4. CASE CreateSubmission(s)
  BY <1>4, <1>b DEF CreateSubmission
<1>5. CASE FindFollow(s)
  <2>1. CASE Finish(s)
    BY <1>5, <1>b, <2>1 DEF FindFollow, tables
  <2>2. CASE ~Finish(s)
    <3> DEFINE q == [step |-> "follow.read", id |-> r.id]
    <3>1. Continue(s, q)
      BY <1>5, <2>2 DEF FindFollow
    <3>2. \A f \in SubmissionIds : ledger[Follow(f)] = 0
      BY <1>a, <1>5, <2>2, EntriesTyped DEF FindFollow
    <3>3. AloneOK(q, account.points, ledger, withdrawal, suggestion)
      BY <3>2 DEF AloneOK
    <3> QED BY <1>5, <3>1, <3>3, AloneReads DEF FindFollow, tables
  <2> QED BY <2>1, <2>2
<1>6. CASE ReadForFollow(s)
  <2> DEFINE q == [step |-> "follow.write", id |-> r.id, balance |-> account.points]
  <2>1. AloneOK(q, account.points, ledger, withdrawal, suggestion)
    BY <1>a, <1>6 DEF AloneOK, ReadForFollow, At
  <2> QED BY <1>6, <2>1, AloneReads DEF ReadForFollow, tables
<1>7. CASE CloseFollow(s) \/ RejectFollow(s)
  BY <1>7, <1>b DEF CloseFollow, RejectFollow, WriteVerdict
<1>8. CASE ReadForReview(s)
  <2> DEFINE q == [step |-> "review.write", id |-> r.id, balance |-> account.points]
  <2>1. AloneOK(q, account.points, ledger, withdrawal, suggestion)
    BY DEF AloneOK
  <2> QED BY <1>8, <2>1, AloneReads DEF ReadForReview, tables
<1>9. CASE ReadForReward(s)
  <2> DEFINE q == [step |-> "reward.write", id |-> r.id, balance |-> account.points]
  <2>1. AloneOK(q, account.points, ledger, withdrawal, suggestion)
    BY <1>a, <1>9 DEF AloneOK, ReadForReward, At
  <2> QED BY <1>9, <2>1, AloneReads DEF ReadForReward, tables
<1>10. CASE SumPending(s)
  <2>1. CASE Finish(s)
    BY <1>10, <1>b, <2>1 DEF SumPending, tables
  <2>2. CASE ~Finish(s)
    <3> DEFINE q == [step |-> "withdraw.create", amount |-> r.amount]
    <3>1. /\ Continue(s, q)
          /\ r.amount <= r.balance - PendingIn(withdrawal)
      BY <1>10, <2>2 DEF SumPending
    <3>2. r.amount \in Nat /\ r.balance = account.points
      BY <1>a, <1>10, RequestFields, AmountsAssumption DEF SumPending, At, AloneOK
    <3>3. PendingIn(withdrawal) \in Int
      <4>1. /\ PendingTerms(withdrawal) \in [WithdrawalIds -> Int]
            /\ PendingIn(withdrawal) = SumOf(PendingTerms(withdrawal), WithdrawalIds)
        BY PendingSumOf DEF AloneInv, Inv, TypeOK
      <4> QED BY <4>1, EntriesFinite, SumUnique
    <3>4. PendingIn(withdrawal) + r.amount <= account.points
      BY <1>a, <3>1, <3>2, <3>3
    <3>5. AloneOK(q, account.points, ledger, withdrawal, suggestion)
      BY <3>4 DEF AloneOK
    <3> QED BY <1>10, <3>1, <3>5, AloneReads DEF SumPending, tables
  <2> QED BY <2>1, <2>2
<1>11. CASE Crash(s)
  BY <1>11, <1>b DEF Crash, tables
<1> QED BY <1>1, <1>2, <1>3, <1>4, <1>5, <1>6, <1>7, <1>8, <1>9, <1>10, <1>11

\* The only handler commits an entry of the ledger with the balance that the
\* account still has.
LEMMA AlonePosts ==
    ASSUME AloneInv, Inv', NEW s \in Slots, NEW q, Continue(s, q),
           q.step \in {"idle", "follow.close"},
           NEW entry \in Entries, NEW amount \in Int,
           Adds(entry),
           account'.points = account.points + amount,
           AmountOf(entry) = amount, RowsStay,
           \A w \in WithdrawalIds : entry = Withdrawn(w) => w \in DOMAIN withdrawal,
           OncePerLifetime', StatusMatchesLedger'
    PROVE  AloneInv'
<1>1. EntriesOfRows /\ EntriesOfRows'
  <2>1. EntriesOfRows
    BY AloneRows DEF AloneInv, Inv
  <2>2. TypeOK' /\ StatusMatchesLedger' => EntriesOfRows'
    BY AloneRows DEF EntriesOfRows, StatusMatchesLedger, HasStatus
  <2> QED BY <2>1, <2>2 DEF Inv
<1>2. LedgerSum' = LedgerSum + amount
  BY <1>1, LedgerGrows DEF AloneInv, Inv
<1>3. BalanceIsLedgerSum'
  BY <1>2 DEF AloneInv, BalanceIsLedgerSum
<1>4. AloneOK(q, account'.points, ledger', withdrawal', suggestion')
  BY NothingReliedOn
<1> QED BY <1>3, <1>4, AloneStep
\* One entry is added to the ledger, the others stay.
LEMMA OneEntryMore ==
    ASSUME TypeOK, NEW entry \in Entries, Adds(entry)
    PROVE  /\ ledger[entry] \in Nat
           /\ ledger'[entry] = ledger[entry] + 1
           /\ \A e \in Entries : e # entry => ledger'[e] = ledger[e]
BY DEF TypeOK, Adds

\* An entry that is about neither a milestone nor a follow
LEMMA LifetimeKept ==
    ASSUME TypeOK, OncePerLifetime, NEW entry \in Entries,
           Adds(entry),
           \A m \in Milestones : entry # Bonus(m),
           \A f \in SubmissionIds : entry # Follow(f)
    PROVE  OncePerLifetime'
<1>1. /\ \A m \in Milestones : ledger'[Bonus(m)] = ledger[Bonus(m)]
      /\ \A f \in SubmissionIds : ledger'[Follow(f)] = ledger[Follow(f)]
  BY OneEntryMore, EntriesTyped
<1> QED BY <1>1 DEF OncePerLifetime

\* An entry that is about neither a withdrawal nor a suggestion
LEMMA StatusKept ==
    ASSUME TypeOK, StatusMatchesLedger, NEW entry \in Entries,
           Adds(entry),
           \A w \in WithdrawalIds : entry # Withdrawn(w),
           \A g \in SuggestionIds : entry # Reward(g),
           UNCHANGED <<withdrawal, suggestion>>
    PROVE  StatusMatchesLedger'
<1>1. /\ \A w \in WithdrawalIds : ledger'[Withdrawn(w)] = ledger[Withdrawn(w)]
      /\ \A g \in SuggestionIds : ledger'[Reward(g)] = ledger[Reward(g)]
  BY OneEntryMore, EntriesTyped
<1> QED BY <1>1 DEF StatusMatchesLedger, HasStatus

\* The handlers that give points for a milestone, a follow or a review, or
\* that take the penalty
LEMMA AloneEarns ==
    ASSUME AloneInv, Inv', NEW s \in Slots,
           WriteBonus(s) \/ WriteFollow(s) \/ WriteReview(s) \/ WritePenalty(s)
    PROVE  AloneInv'
<1> USE DEF StepsOfBalance
<1> DEFINE r == request[s]
<1>a. /\ r \in Request /\ account \in Account /\ account.points \in Int
      /\ AloneOK(r, account.points, ledger, withdrawal, suggestion)
      /\ TypeOK /\ OncePerLifetime /\ StatusMatchesLedger
      /\ AmountsAre
  BY AmountsByKind DEF AloneInv, Inv, TypeOK, Account
<1>b. Idle.step = "idle"
  BY DEF Idle
<1>c. ASSUME NEW entry \in Entries, NEW amount \in Int,
             Post(entry, account.points, amount)
      PROVE  /\ account'.points = account.points + amount
             /\ Adds(entry)
  BY <1>a, <1>c DEF Post, Account, Adds
<1>1. CASE WriteBonus(s)
  <2> DEFINE entry == Bonus(r.source)
  <2>1. r.source \in Milestones /\ r.balance = account.points /\ ledger[entry] = 0
    BY <1>a, <1>1, RequestFields DEF WriteBonus, At, AloneOK
  <2>2. entry \in Entries /\ ACCOUNT_MILESTONE_BONUS_POINTS \in Int
        /\ AmountOf(entry) = ACCOUNT_MILESTONE_BONUS_POINTS
    BY <1>a, <2>1, EntriesTyped DEF AmountsAre, ACCOUNT_MILESTONE_BONUS_POINTS
  <2>3. /\ account'.points = account.points + ACCOUNT_MILESTONE_BONUS_POINTS
        /\ Adds(entry)
        /\ Continue(s, Idle) /\ UNCHANGED <<withdrawal, suggestion>>
    BY <1>1, <1>c, <2>1, <2>2 DEF WriteBonus, Finish, tables
  <2>4. StatusMatchesLedger' /\ RowsStay
    BY <1>a, <2>1, <2>2, <2>3, StatusKept, EntriesDiffer DEF RowsStay
  <2>5. OncePerLifetime'
    <3>1. \A m \in Milestones : ledger'[Bonus(m)] <= 1
      BY <1>a, <2>1, <2>2, <2>3, OneEntryMore, EntriesTyped DEF OncePerLifetime
    <3>2. \A f \in SubmissionIds : ledger'[Follow(f)] = ledger[Follow(f)]
      BY <1>a, <2>1, <2>2, <2>3, OneEntryMore, EntriesTyped, EntriesDiffer
    <3> QED BY <1>a, <3>1, <3>2 DEF OncePerLifetime
  <2>6. \A w \in WithdrawalIds : entry # Withdrawn(w)
    BY <2>1, EntriesDiffer
  <2> HIDE DEF entry
  <2> QED BY <1>b, <2>2, <2>3, <2>4, <2>5, <2>6, AlonePosts
<1>2. CASE WriteFollow(s)
  <2> DEFINE entry == Follow(r.id)
             q == [step |-> "follow.close", id |-> r.id]
  <2>1. r.id \in SubmissionIds /\ r.balance = account.points
        /\ \A f \in SubmissionIds : ledger[Follow(f)] = 0
    BY <1>a, <1>2, RequestFields DEF WriteFollow, At, AloneOK, StepsOfSubmission
  <2>2. entry \in Entries /\ FACEBOOK_FOLLOW_REWARD_POINTS \in Int
        /\ AmountOf(entry) = FACEBOOK_FOLLOW_REWARD_POINTS
    BY <1>a, <2>1, EntriesTyped DEF AmountsAre, FACEBOOK_FOLLOW_REWARD_POINTS
  <2>3. /\ account'.points = account.points + FACEBOOK_FOLLOW_REWARD_POINTS
        /\ Adds(entry)
        /\ Continue(s, q) /\ UNCHANGED <<withdrawal, suggestion>>
    BY <1>2, <1>c, <2>1, <2>2 DEF WriteFollow, tables
  <2>4. StatusMatchesLedger' /\ RowsStay
    BY <1>a, <2>2, <2>3, StatusKept, EntriesDiffer DEF RowsStay
  <2>5. OncePerLifetime'
    <3>1. \A m \in Milestones : ledger'[Bonus(m)] = ledger[Bonus(m)]
      BY <1>a, <2>2, <2>3, OneEntryMore, EntriesTyped, EntriesDiffer
    <3>2. ledger'[entry] = 1
          /\ \A f \in SubmissionIds : f # r.id => ledger'[Follow(f)] = 0
      BY <1>a, <2>1, <2>2, <2>3, OneEntryMore, EntriesTyped, EntriesDiffer
    <3> QED BY <1>a, <2>1, <3>1, <3>2 DEF OncePerLifetime
  <2>6. q.step = "follow.close" /\ \A w \in WithdrawalIds : entry # Withdrawn(w)
    BY EntriesDiffer
  <2> HIDE DEF entry, q
  <2> QED BY <2>2, <2>3, <2>4, <2>5, <2>6, AlonePosts
<1>3. CASE WriteReview(s)
  <2> DEFINE entry == Review(r.id)
  <2>1. r.id \in ReviewIds /\ r.balance = account.points
    BY <1>a, <1>3, RequestFields DEF WriteReview, At, AloneOK
  <2>2. CASE ledger[entry] > 0
    <3>1. AloneOK(Idle, account.points, ledger, withdrawal, suggestion)
      BY <1>b, NothingReliedOn
    <3> QED BY <1>3, <2>2, <3>1, AloneReads DEF WriteReview, Finish, tables
  <2>3. CASE ~(ledger[entry] > 0)
    <3>1. entry \in Entries /\ ReviewPoints \in Int /\ AmountOf(entry) = ReviewPoints
      BY <1>a, <2>1, EntriesTyped, PointsAssumption DEF AmountsAre
    <3>2. /\ account'.points = account.points + ReviewPoints
          /\ Adds(entry)
          /\ Continue(s, Idle) /\ UNCHANGED <<withdrawal, suggestion>>
      BY <1>3, <1>c, <2>1, <2>3, <3>1 DEF WriteReview, Finish, tables
    <3>3. StatusMatchesLedger' /\ RowsStay
      BY <1>a, <3>1, <3>2, StatusKept, EntriesDiffer DEF RowsStay
    <3>4. OncePerLifetime'
      BY <1>a, <3>1, <3>2, LifetimeKept, EntriesDiffer
    <3>5. \A w \in WithdrawalIds : entry # Withdrawn(w)
      BY EntriesDiffer
    <3> HIDE DEF entry
    <3> QED BY <1>b, <3>1, <3>2, <3>3, <3>4, <3>5, AlonePosts
  <2> QED BY <2>2, <2>3
<1>4. CASE WritePenalty(s)
  <2> DEFINE entry == Penalty(r.id)
             amount == -CANCELLATION_PENALTY_POINTS
  <2>1. r.id \in TradeIds /\ r.balance = account.points
    BY <1>a, <1>4, RequestFields DEF WritePenalty, At, AloneOK
  <2>2. entry \in Entries /\ amount \in Int /\ AmountOf(entry) = amount
    BY <1>a, <2>1, EntriesTyped DEF AmountsAre, CANCELLATION_PENALTY_POINTS
  <2>3. /\ account'.points = account.points + amount
        /\ Adds(entry)
        /\ Continue(s, Idle) /\ UNCHANGED <<withdrawal, suggestion>>
    <3>1. account'.points = r.balance - CANCELLATION_PENALTY_POINTS
      BY <1>a, <1>4 DEF WritePenalty, Account
    <3>2. account'.points = account.points + amount
      BY <1>a, <2>1, <3>1 DEF CANCELLATION_PENALTY_POINTS
    <3> QED BY <1>4, <3>2 DEF WritePenalty, Finish, tables, Adds
  <2>4. StatusMatchesLedger' /\ RowsStay
    BY <1>a, <2>2, <2>3, StatusKept, EntriesDiffer DEF RowsStay
  <2>5. OncePerLifetime'
    BY <1>a, <2>2, <2>3, LifetimeKept, EntriesDiffer
  <2>6. \A w \in WithdrawalIds : entry # Withdrawn(w)
    BY EntriesDiffer
  <2> HIDE DEF entry, amount
  <2> QED BY <1>b, <2>2, <2>3, <2>4, <2>5, <2>6, AlonePosts
<1> QED BY <1>1, <1>2, <1>3, <1>4
\* The handlers that settle a suggestion or a withdrawal
LEMMA AloneSettles ==
    ASSUME AloneInv, Inv', NEW s \in Slots,
           \/ CreateSuggestion(s) \/ WriteReward(s) \/ WriteDismiss(s)
           \/ CreateWithdrawal(s)
           \/ WriteApprove(s) \/ WriteReject(s) \/ WritePaid(s)
    PROVE  AloneInv'
<1> USE DEF StepsOfBalance
<1> DEFINE r == request[s]
           id == r.id
<1>a. /\ r \in Request /\ account \in Account /\ account.points \in Int
      /\ AloneOK(r, account.points, ledger, withdrawal, suggestion)
      /\ TypeOK /\ TypeOK' /\ OncePerLifetime /\ StatusMatchesLedger /\ EntriesOfRows
      /\ AmountsAre
  BY AmountsByKind, AloneRows DEF AloneInv, Inv, TypeOK, Account
<1>b. Idle.step = "idle" /\ AloneOK(Idle, account'.points, ledger', withdrawal', suggestion')
  BY NothingReliedOn DEF Idle
<1>c. ASSUME NEW entry \in Entries, NEW amount \in Int,
             Post(entry, account.points, amount)
      PROVE  account'.points = account.points + amount /\ Adds(entry)
  BY <1>a, <1>c DEF Post, Account, Adds
<1>d. ASSUME UNCHANGED <<account, ledger>>, Finish(s), RowsStay, StatusMatchesLedger'
      PROVE  AloneInv'
  <2>1. LedgerSum' = LedgerSum
    BY <1>a, <1>d, LedgerRests
  <2>2. BalanceIsLedgerSum' /\ OncePerLifetime'
    BY <1>a, <1>d, <2>1 DEF AloneInv, BalanceIsLedgerSum, OncePerLifetime
  <2> QED BY <1>b, <1>d, <2>2, AloneStep DEF Finish
<1>e. ASSUME UNCHANGED <<account, ledger>>, Finish(s), NEW g \in SuggestionIds,
             suggestion[g] # "REWARDED", NEW status \in {"PENDING", "DISMISSED"},
             SetSuggestion(g, status)
      PROVE  AloneInv'
  <2>1. StatusMatchesLedger'
    BY <1>a, <1>e DEF SetSuggestion, StatusMatchesLedger, HasStatus, TypeOK
  <2>2. RowsStay
    BY <1>e DEF SetSuggestion, RowsStay
  <2> QED BY <1>d, <1>e, <2>1, <2>2
<1>1. CASE CreateSuggestion(s)
  <2>1. PICK g \in SuggestionIds :
            /\ \A h \in SuggestionIds : suggestion[h] = "NONE" <=> h >= g
            /\ SetSuggestion(g, "PENDING")
    BY <1>1 DEF CreateSuggestion
  <2>2. suggestion[g] = "NONE"
    BY <2>1 DEF SuggestionIds
  <2> QED BY <1>1, <1>e, <2>1, <2>2 DEF CreateSuggestion
<1>2. CASE WriteDismiss(s)
  <2>1. id \in SuggestionIds /\ suggestion[id] = "PENDING"
    BY <1>a, <1>2, RequestFields DEF WriteDismiss, At, AloneOK
  <2> QED BY <1>2, <1>e, <2>1 DEF WriteDismiss
<1>3. CASE WriteReward(s)
  <2> DEFINE entry == Reward(id)
  <2>1. /\ id \in SuggestionIds /\ r.balance = account.points
        /\ suggestion[id] = "PENDING"
    BY <1>a, <1>3, RequestFields DEF WriteReward, At, AloneOK
  <2>2. entry \in Entries /\ SuggestionPoints \in Int
        /\ AmountOf(entry) = SuggestionPoints
        /\ \A w \in WithdrawalIds : entry # Withdrawn(w)
    <3>1. SuggestionPoints \in Int
      BY PointsAssumption
    <3>2. entry \in Entries /\ AmountOf(entry) = SuggestionPoints
      BY <1>a, <2>1, EntriesTyped DEF AmountsAre
    <3>3. \A w \in WithdrawalIds : entry # Withdrawn(w)
      BY EntriesDiffer
    <3> QED BY <3>1, <3>2, <3>3
  <2>3. /\ account'.points = account.points + SuggestionPoints
        /\ Adds(entry)
        /\ Continue(s, Idle) /\ withdrawal' = withdrawal
        /\ suggestion' = [suggestion EXCEPT ![id] = "REWARDED"]
    BY <1>3, <1>c, <2>1, <2>2 DEF WriteReward, SetSuggestion, Finish
  <2>4. OncePerLifetime' /\ RowsStay
    BY <1>a, <2>1, <2>2, <2>3, LifetimeKept, EntriesDiffer DEF RowsStay
  <2>5. StatusMatchesLedger'
    <3>1. ledger[entry] = 0
      BY <1>a, <2>1 DEF StatusMatchesLedger
    <3>2. /\ ledger'[entry] = 1
          /\ \A g \in SuggestionIds : g # id => ledger'[Reward(g)] = ledger[Reward(g)]
          /\ \A w \in WithdrawalIds : ledger'[Withdrawn(w)] = ledger[Withdrawn(w)]
      BY <1>a, <2>2, <2>3, <3>1, OneEntryMore, EntriesTyped, EntriesDiffer
    <3>3. \A g \in SuggestionIds :
             suggestion'[g] = IF g = id THEN "REWARDED" ELSE suggestion[g]
      BY <1>a, <2>1, <2>3 DEF TypeOK
    <3> QED BY <1>a, <2>3, <3>2, <3>3 DEF StatusMatchesLedger, HasStatus
  <2> HIDE DEF entry
  <2> QED BY <1>b, <2>2, <2>3, <2>4, <2>5, AlonePosts
<1>4. CASE CreateWithdrawal(s)
  <2>1. PICK w \in WithdrawalIds :
            /\ DOMAIN withdrawal = 1..(w - 1)
            /\ SetWithdrawal(w, [amount |-> r.amount, status |-> "PENDING"])
    BY <1>4 DEF CreateWithdrawal
  <2>2. w \notin DOMAIN withdrawal
    BY <2>1 DEF WithdrawalIds
  <2>3. /\ withdrawal' = WithRow(withdrawal, w, [amount |-> r.amount, status |-> "PENDING"])
        /\ suggestion' = suggestion
    BY <2>1 DEF SetWithdrawal
  <2>4. RowsStay
    BY <2>2, <2>3 DEF RowsStay, WithRow
  <2>5. \A x \in WithdrawalIds : \A status \in {"APPROVED", "TRANSFERRED"} :
            HasStatus(x, status)' = HasStatus(x, status)
    BY <2>2, <2>3 DEF HasStatus, WithRow
  <2>6. StatusMatchesLedger'
    BY <1>a, <1>4, <2>3, <2>5 DEF StatusMatchesLedger, CreateWithdrawal
  <2> QED BY <1>4, <1>d, <2>4, <2>6 DEF CreateWithdrawal
<1>f. ASSUME NEW status \in {"APPROVED", "REJECTED", "TRANSFERRED"},
             id \in DOMAIN withdrawal, SetStatus(id, status)
      PROVE  /\ RowsStay /\ suggestion' = suggestion /\ id \in WithdrawalIds
             /\ DOMAIN withdrawal' = DOMAIN withdrawal
             /\ withdrawal'[id].status = status
             /\ \A w \in DOMAIN withdrawal : w # id => withdrawal'[w] = withdrawal[w]
  <2>1. withdrawal' = WithRow(withdrawal, id, [withdrawal[id] EXCEPT !.status = status])
        /\ suggestion' = suggestion
    BY <1>f DEF SetStatus, SetWithdrawal
  <2>2. withdrawal[id] \in Withdrawal /\ id \in WithdrawalIds
    BY <1>a, <1>f DEF TypeOK
  <2> QED BY <1>f, <2>1, <2>2 DEF WithRow, Withdrawal, RowsStay
<1>5. CASE WriteReject(s)
  <2>1. id \in DOMAIN withdrawal /\ withdrawal[id].status = "PENDING"
        /\ SetStatus(id, "REJECTED")
    BY <1>a, <1>5 DEF WriteReject, At, AloneOK
  <2>2. StatusMatchesLedger'
    BY <1>a, <1>f, <1>5, <2>1 DEF StatusMatchesLedger, HasStatus, WriteReject
  <2> QED BY <1>d, <1>f, <1>5, <2>1, <2>2 DEF WriteReject
<1>6. CASE WritePaid(s)
  <2>1. id \in DOMAIN withdrawal /\ withdrawal[id].status = "APPROVED"
        /\ SetStatus(id, "TRANSFERRED")
    BY <1>a, <1>6 DEF WritePaid, At, AloneOK
  <2>2. StatusMatchesLedger'
    BY <1>a, <1>f, <1>6, <2>1 DEF StatusMatchesLedger, HasStatus, WritePaid
  <2> QED BY <1>d, <1>f, <1>6, <2>1, <2>2 DEF WritePaid
<1>7. CASE WriteApprove(s)
  <2> DEFINE entry == Withdrawn(id)
             amount == -withdrawal[id].amount
  <2>1. /\ id \in DOMAIN withdrawal /\ withdrawal[id].status = "PENDING"
        /\ r.balance = account.points /\ SetStatus(id, "APPROVED")
    BY <1>a, <1>7 DEF WriteApprove, At, AloneOK
  <2>2. /\ RowsStay /\ suggestion' = suggestion /\ id \in WithdrawalIds
        /\ DOMAIN withdrawal' = DOMAIN withdrawal
        /\ withdrawal'[id].status = "APPROVED"
        /\ \A w \in DOMAIN withdrawal : w # id => withdrawal'[w] = withdrawal[w]
    BY <1>f, <2>1
  <2>3. /\ entry \in Entries /\ amount \in Int /\ AmountOf(entry) = amount
        /\ \A w \in WithdrawalIds : entry = Withdrawn(w) => w \in DOMAIN withdrawal
    <3>1. entry \in Entries /\ AmountOf(entry) = amount
      BY <1>a, <2>2, EntriesTyped DEF AmountsAre
    <3>2. withdrawal[id].amount \in Nat
      BY <1>a, <2>1 DEF TypeOK, Withdrawal
    <3>3. \A w \in WithdrawalIds : entry = Withdrawn(w) => w \in DOMAIN withdrawal
      BY <2>1, EntriesDiffer
    <3> QED BY <3>1, <3>2, <3>3
  <2>4. account'.points = account.points + amount /\ Adds(entry) /\ Continue(s, Idle)
    BY <1>7, <1>c, <2>1, <2>3 DEF WriteApprove, Finish
  <2>5. OncePerLifetime'
    BY <1>a, <2>3, <2>4, LifetimeKept, EntriesDiffer
  <2>6. StatusMatchesLedger'
    <3>1. ledger[entry] = 0
      BY <1>a, <2>1, <2>2 DEF StatusMatchesLedger, HasStatus
    <3>2. /\ ledger'[entry] = 1
          /\ \A g \in SuggestionIds : ledger'[Reward(g)] = ledger[Reward(g)]
          /\ \A w \in WithdrawalIds : w # id => ledger'[Withdrawn(w)] = ledger[Withdrawn(w)]
      <4>1. ledger'[entry] = 0 + 1 /\ \A e \in Entries : e # entry => ledger'[e] = ledger[e]
        BY <1>a, <2>3, <2>4, <3>1, OneEntryMore
      <4>2. /\ \A g \in SuggestionIds : Reward(g) \in Entries /\ Reward(g) # entry
            /\ \A w \in WithdrawalIds : Withdrawn(w) \in Entries
            /\ \A w \in WithdrawalIds : w # id => Withdrawn(w) # entry
        BY EntriesTyped, EntriesDiffer
      <4> QED BY <4>1, <4>2
    <3> QED BY <1>a, <2>1, <2>2, <3>2 DEF StatusMatchesLedger, HasStatus
  <2> HIDE DEF entry, amount
  <2> QED BY <1>b, <2>2, <2>3, <2>4, <2>5, <2>6, AlonePosts
<1> QED BY <1>1, <1>2, <1>3, <1>4, <1>5, <1>6, <1>7
\* With one slot nothing is in flight that relies on anything at the start.
LEMMA AloneInit == OneSlot /\ Init => AloneInv
<1> SUFFICES ASSUME OneSlot, Init PROVE AloneInv
  OBVIOUS
<1>1. Inv
  BY InitInv
<1>2. \A s \in Slots :
         AloneOK(request[s], account.points, ledger, withdrawal, suggestion)
  BY NothingReliedOn DEF Init, Idle
<1>3. \A e \in Entries : ledger[e] = 0
  BY DEF Init
<1>4. OncePerLifetime
  BY <1>3, EntriesTyped DEF OncePerLifetime
<1>5. StatusMatchesLedger
  <2>1. DOMAIN withdrawal = {} /\ \A g \in SuggestionIds : suggestion[g] = "NONE"
    BY DEF Init
  <2> QED BY <1>3, <2>1, EntriesTyped DEF StatusMatchesLedger, HasStatus
<1>6. BalanceIsLedgerSum
  <2> DEFINE none == [e \in {} |-> 0]
  <2>1. LedgerSum = SumOf(LedgerTerms, Entries) /\ LedgerTerms \in [Entries -> Int]
    BY <1>1, <1>5, AloneRows, LedgerSumOf DEF Inv, LedgerAddsUp
  <2>2. \A e \in Entries \ {} : LedgerTerms[e] = 0
    BY <1>3 DEF LedgerTerms
  <2>3. SumOf([e \in {} |-> LedgerTerms[e]], {}) = SumOf(LedgerTerms, Entries)
    BY <2>1, <2>2, EntriesFinite, SumOverPart
  <2>4. SumOf([e \in {} |-> LedgerTerms[e]], {}) = 0
    BY FS_EmptySet, SumSplit
  <2>5. account.points = 0
    BY DEF Init
  <2> QED BY <2>1, <2>3, <2>4, <2>5 DEF BalanceIsLedgerSum
<1> QED BY <1>1, <1>2, <1>4, <1>5, <1>6 DEF AloneInv

\* Every step of handlers that run one at a time keeps the invariant.
LEMMA AloneNext == AloneInv /\ [Next]_vars => AloneInv'
<1> SUFFICES ASSUME AloneInv, [Next]_vars PROVE AloneInv'
  OBVIOUS
<1>0. Inv'
  BY NextInv DEF AloneInv
<1>1. ASSUME NEW s \in Slots, Begin(s) PROVE AloneInv'
  BY <1>0, <1>1, AloneBegins
<1>2. ASSUME NEW s \in Slots, EarningStep(s) PROVE AloneInv'
  BY <1>0, <1>2, AloneContinues, AloneEarns, AloneSettles DEF EarningStep
<1>3. ASSUME NEW s \in Slots, SpendingStep(s) PROVE AloneInv'
  BY <1>0, <1>3, AloneContinues, AloneEarns, AloneSettles DEF SpendingStep
<1>4. ASSUME NEW s \in Slots, Crash(s) PROVE AloneInv'
  BY <1>0, <1>4, AloneContinues
<1>a. ASSUME UNCHANGED <<ledger, withdrawal, suggestion, request>>,
             account'.points = account.points
      PROVE  AloneInv'
  <2>1. LedgerSum' = LedgerSum
    BY <1>0, <1>a, AloneRows, LedgerRests DEF AloneInv, Inv, RowsStay
  <2>2. BalanceIsLedgerSum' /\ OncePerLifetime' /\ StatusMatchesLedger'
    BY <1>a, <2>1
       DEF AloneInv, BalanceIsLedgerSum, OncePerLifetime, StatusMatchesLedger, HasStatus
  <2> QED BY <1>0, <1>a, <2>2 DEF AloneInv, OneSlot
<1>5. ASSUME NEW banned \in BOOLEAN, SetUserBanned(banned) PROVE AloneInv'
  <2>1. account \in Account
    BY DEF AloneInv, Inv, TypeOK
  <2>2. account'.points = account.points
    BY <1>5, <2>1 DEF SetUserBanned, Account
  <2> QED BY <1>5, <1>a, <2>2 DEF SetUserBanned, tables
<1>6. CASE UNCHANGED vars
  BY <1>6, <1>a DEF vars
<1> QED BY <1>1, <1>2, <1>3, <1>4, <1>5, <1>6 DEF Next, Step

\* When the requests are served one at a time, what a handler has read is still
\* true when it commits.
THEOREM AloneInvariance == OneSlot /\ Spec => []AloneInv
BY AloneInit, AloneNext, PTL DEF Spec

\* The ledger explains the balance, entry by entry (points.repository.ts, every
\* block that updates User.points with a PointTransaction).
THEOREM BalanceSafety == OneSlot /\ Spec => []BalanceIsLedgerSum
<1>1. AloneInv => BalanceIsLedgerSum
  BY DEF AloneInv
<1> QED BY <1>1, AloneInvariance, PTL

\* A milestone and the follow give their points once
\* (grantAccountLifetimeMilestoneBonus, grantFacebookFollowRewardIfEligible).
THEOREM LifetimeSafety == OneSlot /\ Spec => []OncePerLifetime
<1>1. AloneInv => OncePerLifetime
  BY DEF AloneInv
<1> QED BY <1>1, AloneInvariance, PTL

\* A withdrawal and a suggestion have an entry exactly in the states that stand
\* for one (approveWithdrawal, rejectWithdrawal, rewardWithPoints, dismiss).
THEOREM StatusSafety == OneSlot /\ Spec => []StatusMatchesLedger
<1>1. AloneInv => StatusMatchesLedger
  BY DEF AloneInv
<1> QED BY <1>1, AloneInvariance, PTL

\* Only the creation of a withdrawal adds a row.
LEMMA OnlyCreateAddsRows ==
    ASSUME Inv, Next, DOMAIN withdrawal' # DOMAIN withdrawal
    PROVE  \E s \in Slots : CreateWithdrawal(s)
<1>1. withdrawal' # withdrawal
  OBVIOUS
<1>2. \A banned \in BOOLEAN : ~SetUserBanned(banned)
  BY <1>1 DEF SetUserBanned, tables
<1>3. \A s \in Slots : ~Begin(s)
  BY <1>1 DEF Begin, PointsRoutes, FollowRoutes, FollowReviewRoutes,
     SuggestionRoutes, WithdrawalRoutes, ClientSuggestionRoutes, BeginLink,
     BeginSuggestion, BeginMilestone, BeginSubmission, BeginFollowReview, BeginReview,
     BeginSuggestionReview, BeginWithdrawal, ReadForApprove, ReadForReject,
     ReadForPaid, ReadForPenalty, tables
<1>4. \A s \in Slots : ~Crash(s)
  BY <1>1 DEF Crash, tables
<1>5. \A s \in Slots : ~EarningStep(s)
  BY <1>1 DEF EarningStep, FindBonus, ReadForBonus, WriteBonus, SetFacebookLink,
     CreateSubmission, FindFollow, ReadForFollow, WriteFollow, CloseFollow, RejectFollow,
     WriteVerdict, ReadForReview, WriteReview, CreateSuggestion, ReadForReward,
     WriteReward, WriteDismiss, SetSuggestion, tables
<1>6. ASSUME NEW s \in Slots, NEW status, request[s].id \in DOMAIN withdrawal,
             SetStatus(request[s].id, status)
      PROVE  FALSE
  BY <1>6 DEF SetStatus, SetWithdrawal, WithRow
<1>7. \A s \in Slots : ~WriteApprove(s) /\ ~WriteReject(s) /\ ~WritePaid(s)
  <2>1. \A s \in Slots : request[s].step \in StepsOfWithdrawal =>
            request[s].id \in DOMAIN withdrawal
    BY DEF Inv, RequestOK
  <2> QED BY <1>6, <2>1
          DEF WriteApprove, WriteReject, WritePaid, At, StepsOfWithdrawal
<1>8. \A s \in Slots : ~SumPending(s) /\ ~WritePenalty(s)
  BY <1>1 DEF SumPending, WritePenalty, tables
<1> QED BY <1>2, <1>3, <1>4, <1>5, <1>7, <1>8 DEF Next, Step, SpendingStep

\* A request for a withdrawal is covered by the balance, with all those that are
\* pending (RequestWithdrawalUseCase, getUserPointsSummary).
THEOREM CoverSafety == OneSlot /\ Spec => RequestsAreCovered
<1> DEFINE Covered == DOMAIN withdrawal' # DOMAIN withdrawal =>
                          PendingIn(withdrawal') <= account.points
<1>1. AloneInv /\ AloneInv' /\ [Next]_vars => [Covered]_vars
  <2> SUFFICES ASSUME AloneInv, AloneInv', Next, DOMAIN withdrawal' # DOMAIN withdrawal
               PROVE  PendingIn(withdrawal') <= account.points
    OBVIOUS
  <2>1. PICK s \in Slots : CreateWithdrawal(s)
    BY OnlyCreateAddsRows DEF AloneInv
  <2> DEFINE amount == request[s].amount
  <2>2. amount \in Nat /\ PendingIn(withdrawal) + amount <= account.points
    BY <2>1, RequestFields, AmountsAssumption
       DEF AloneInv, AloneOK, Inv, TypeOK, CreateWithdrawal, At
  <2>3. PICK w \in WithdrawalIds :
            /\ DOMAIN withdrawal = 1..(w - 1)
            /\ withdrawal' = WithRow(withdrawal, w, [amount |-> amount, status |-> "PENDING"])
    BY <2>1 DEF CreateWithdrawal, SetWithdrawal
  <2>4. w \notin DOMAIN withdrawal
    BY <2>3 DEF WithdrawalIds
  <2>5. PendingIn(withdrawal') = PendingIn(withdrawal) + amount
    BY <2>2, <2>3, <2>4, PendingGrows DEF AloneInv, Inv
  <2> QED BY <2>2, <2>5
<1> QED BY <1>1, AloneInvariance, PTL DEF Spec, RequestsAreCovered

=============================================================================
