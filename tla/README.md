# Verification of the used-item marketplace backend

The program is the NestJS backend of a marketplace for used items: listings
found by location and category, a chat between the buyer and the seller of a
listing, trades that are paid in cash or through the admin ("safe payment"), and
points that the users earn and withdraw through KBZPay. It keeps everything in
PostgreSQL (Prisma), uses Redis for idempotency keys, rate limits and the fan-out
of events, and may run in several processes.

This directory holds TLA+ modules translated from that code, TLC configurations
that check them on small instances, and proofs for every value of the constants
that the TLA+ proof system checks. `PROJECT.json` says for every definition
which lines it models, and for every property which plausible bug it detects.

| Model | Subject | Instance | Proofs |
|---|---|---|---|
| `ChatTransactions` (with `Escrow`) | direct trades, safe payments, completion, cancellation | `MCChatTransactions`, 3 cfgs | `ChatTransactionsProofs` |
| `PointsLedger` | balance, rank, ledger, withdrawals, rewards, penalties | `MCPointsLedger`, 2 cfgs | `PointsLedgerProofs` |
| `ChatRooms` | rooms, interest counter, messages, unread counters, idempotency keys, pages | `MCChatRooms` | `ChatRoomsProofs` |
| `LiveLocation` | location shares, their end with the trade, the rate limit | `MCLiveLocation` | `LiveLocationProofs` |
| `Verifications` | phone and e-mail codes, password reset | `MCVerifications` | `VerificationsProofs` |
| `Accounts` | registration, sessions, roles, bans, deletion, repair of the root admin | `MCAccounts` | `AccountsProofs` |
| `KbzPay` | the verification of a KBZPay account | `MCKbzPay` | in `AccountsProofs` |
| `Moderation` | keyword filter and its caches, content and fraud reports | `MCModeration` | `ModerationProofs` |
| `Catalog` | the tree of categories, listings, their delivery and pictures | `MCCatalog` | `CatalogProofs` |

To run: `tlc -config MCChatRacing.cfg MCChatTransactions.tla` (`MCChatOneAtATime`
and `MCChatLostCompletion` go with the same module, `MCPoints*` with
`MCPointsLedger.tla`, `MCChatRooms` and the other cfgs with the module of their
name), and `tlapm CatalogProofs.tla` etc. for the proofs.

## 1. How the code runs, and how a module says it

Every endpoint is a use case: an async function that reads rows, checks, and
writes rows, with an `await` at each database call. Three facts decide what can
go wrong, and the modules are built around them.

* **Handlers interleave at their awaits.** Between two awaits of one request any
  other request may run, in this process or in another. A handler in flight is
  a *slot*: `request[s]` is a record with the `step` at which it will resume and
  the values that its local variables carry over the await. There is an action
  for each step, and a handler that decides from an old read decides from
  the values in its record, not from the tables.
* **A `$transaction` block is not serializable.** No block sets an isolation
  level and none locks a row by hand, so PostgreSQL runs it at READ COMMITTED:
  what a block reads may be overwritten by others before its own writes commit. A
  block that reads and then writes is a read step and a commit step. All its
  writes appear together in the commit step. A single statement (`updateMany` with
  its `where`, an `upsert`, an `update` by id) is one step. Where two blocks
  update the same rows before they commit, the row locks decide who waits
  (`Locked` in `Verifications`).
* **A process may die between two steps.** `Crash(s)` drops the handler with its
  local variables and leaves what it wrote. A failing call to an external
  service between two writes has the same effect on the state, unless the handler
  undoes something; the one that does, the upload of pictures, has its own actions
  (`Fail`, `Revert` in `Catalog`). `Accounts` has a `Restart` of all handlers
  with the repair that follows it.

A property that the code enforces by a read before a write fails as soon as two
handlers race, and holds while requests are served one after the other, which is
how the authors read their checks and how the tests exercise them. `ChatTransactions`
says so with a second specification, `SpecOneAtATime`, whose handlers start only
when no other is in flight; `PointsLedger` is run with a single slot, while the
admin may ban the user between any two steps. The newer ones have a history variable
`overlapped`, set when a handler starts while another runs, so that one run
checks both kinds of properties: those that hold whatever races, and those with
`~overlapped =>` in front, which need a lock, a unique key or a conditional
update to be true of the program under load. Properties
of this kind state one half of their hazard: what the code guarantees to requests
that do not overlap, or to handlers that do not die. The other half, the race or the
crash itself, is what the code really does, so nothing can be asserted against it; the
`note` of the hazard in `PROJECT.json` says so for each, and section 8 lists what
follows. Only the lost completion contradicts a document, and has a run of its own.
Other history variables (`died`,
`revoked`, `uses`, `told`, `due`, `strict`, `misread`) only record; no action
reads them.

## 2. Components

*(M)* modelled, *(P)* partly, *(–)* not modelled. All paths are below `src/src`.

| Component | State | Where it is hard | Correct when |
|---|---|---|---|
| Transactions of a chat (M) `use-cases/chat`, `chat.repository.ts` | `Transaction`, `SafePayment`, `DirectTrade` | confirmations race; the completion checks its gate several awaits before it writes; consequences in other tables are separate writes | money is released only for a verified payment that both confirmed; one open row per room; consequences follow |
| Chat rooms and messages (M) | `ChatRoom`, `ChatMessage`, two counters of `Listing` | counters are written as absolute values read before; pages are read while messages arrive | counters agree with the messages and rooms; pages repeat and skip nothing |
| Idempotency keys, rate limits (P) `chat-idempotency.service.ts` | Redis, or a map per process | the key is reserved before the write it protects; counter and expiry are two commands | a retry sends nothing twice; a window ends |
| Live location (M) | `LocationShare` | a safe payment changes which transaction counts, a new trade replaces a cancelled one; confirmations and cancellations stop shares in their last step, and of the newest trade | nobody is located after the trade, with one exception (section 8) |
| Points, ranks, withdrawals (M) `points.repository.ts` | `User.totalPoints`, `currentRank`, `PointTransaction`, `WithdrawalRequest` | every block reads the balance and writes an absolute value | the balance is the sum of the ledger, a bonus comes once, a payment was deducted, a debt blocks |
| Facebook follow, suggestions (M) | their submissions | reward and verdict are two writes | the reward comes once |
| Codes (M) `auth`, `_phone-otp-validation.helper.ts` | `OtpVerification`, `EmailVerification` | attempts are counted after the comparison; a code is reissued while another is typed | guesses are bounded, a code is spent, a reset revokes |
| Accounts, sessions, deletion (M); admin roles (P) | `User`, `AdminRole`, JWTs | four kinds of handler read the token version and write it plus one | what was revoked stays refused, a root admin remains, a deletion is complete |
| KBZPay verification (M) | `KbzPayAccount` | requests checked before a verdict and written after it | an account is on one list of the admin; the bonus goes to the verified |
| Bans, fraud reports, content reports, keyword filter (M) | reports, `isBanned`, keywords, a cache in each process | a cache is filled with what was read before a change; two admins review one report | the filter catches up in 60 s; reporters are told the truth |
| Categories (M), catalog (P) | `Category`, `Listing`, pictures in the storage | a tree checked row by row; edits merged from old rows; files and rows in different stores | the categories are a tree, listings are found, pictures are there |
| User blocks, terms of use, rank configuration, slider ads, notifications, external services, HTTP layer, seeding (–) | | | section 10 |

Interactions. The transactions write the status of the listing and its active
deal, charge the points, and stop live locations; the points block accounts,
whose sessions then fail; registration, verifications and KBZPay grant milestones; reports hide
messages and listings and ban accounts, which ends sessions; deleting an account
closes listings, rooms and shares and resets its KBZPay row. A module that needs
the other side of such a call takes it as an input: `ChatTransactions` counts the
charges and `PointsLedger` starts a penalty from a cancelled trade; `LiveLocation`
reduces the transactions to who confirmed; `ChatRooms` has `SetDeal` and
`HideMessage` as inputs; `Verifications` and `KbzPay` count the bonus that
`PointsLedger` explains.

## 3. The trade: `ChatTransactions`, `Escrow`, `LiveLocation`, `ChatRooms`

### `ChatTransactions`

One listing, several rooms (one buyer each).

| Variable | Code |
|---|---|
| `txn` | rows of `Transaction` in the order of `createdAt`: room, type, status, `buyerCompleted`/`sellerCompleted` as the set `completedBy`, `completedAt` as a flag |
| `safePayment` | rows of `SafePayment`: instruction sent, payment recorded, `isVerified`, `isTransferred` |
| `meetup` | rows of `DirectTrade`: no place, agreed, or waiting for an answer |
| `listing` | `activeDealChatRoomId`, status (SOLD or not), `isDeleted` |
| `request`, `charged` | the handlers in flight; how often each cancellation was charged |

| Operation | Actions |
|---|---|
| select the active deal, edit or delete the listing | `SetActiveDeal`, `UpdateListing`, `BeginDelete` → `DeleteListing` |
| start a direct trade | `BeginStart` → `StartCheck` → `StartFind` → (`StartCreate`) → `StartUpsert` |
| propose, accept or decline a place | `BeginMeeting` → `WriteMeeting` |
| request a safe payment | `BeginRequest` → `FindActive` → `CreateSafePayment` or `ResetSafePayment` → `AttachSafePayment` |
| send the instruction | `ReadForInstruction` → `WriteInstruction` |
| submit the payment | `BeginSubmit` → `ReadForSubmit` → `WriteSubmitStatus` → `WriteSubmitPayer` |
| confirm the receipt; transfer | `MarkReceived`; `BeginTransfer` → `WriteTransfer` |
| confirm the trade | `BeginComplete` → (`CompleteGate`) → `CompleteMeetup` → `CompletePlace` → `ReadForComplete` → `WriteComplete` → `MarkSold` |
| cancel | `BeginCancel` → `ReadForCancel` → `WriteCancel` → `ChargePenalty` → `ReadDeal` → `ClearDeal` |

Abstracted: texts, prices, coordinates, messages, notifications, the user ids (a
party is `"buyer"` or `"seller"`), and the checks that only ask who is calling.

Whatever races: money is released only after verification and both confirmations
(`ReleaseNeedsBothConfirmations`), and a safe payment is confirmed only once it is
verified (`ConfirmationNeedsVerification`: the gate is read several awaits before
the confirmation is written, and holds then because verification is never undone).
`ImplementsEscrow` says the same abstractly: the tables, seen as *held*,
*received*, *confirmed* and *released*, behave as `Escrow` does. One request at
a time: `BothConfirmedIsCompleted`, `ChargedAtMostOnce`, `OneOpenTransaction`,
`PaymentIsQueued` (a payment that was submitted and not verified is on one of the
lists an admin works through, wherever a handler died),
`DirectTradeWaitsForSafePayment`, `CancelClearsItsOwnDeal`. Liveness:
`CompletedTradeIsSold`, `CancellationIsCharged`.

### `LiveLocation`

`txn` holds the latest safe payment (number 0) and the direct trades of the room in
the order of `createdAt` (1, 2, ...): the status and who has confirmed; `share` the
rows of `LocationShare` (the trade, the owner, `isActive`); `window` the counter
of the rate limit per party and whether it has an expiry. A trade that was
cancelled is followed by a new one, and can still be confirmed, so that several
are open. A share belongs to the latest open trade at its start (`Context`).

| Operation | Actions |
|---|---|
| start a share | `BeginStart` → `CheckStart` → `FindForStart` → `CreateShare` or `RefreshShare` |
| move it, socket | `BeginUpdate` or `RefuseUpdate` (INCR) → `SetExpire` → `ContextForUpdate` → `CheckUpdate` → `FindForUpdate` → `MoveShare`; `WindowEnds` |
| move it, HTTP | `BeginUpdateByHttp` → `CheckUpdate` → ... |
| stop it | `BeginStop` → `StopShare` |
| start a direct trade | `BeginTrade` → `FindTrade` → (`CreateTrade`) |
| confirm a transaction | `BeginComplete` → `ReadForComplete` → `WriteComplete` → `FindForCompletion` → `StopForCompletion`, or → `StopAll` for the second confirmation |
| cancel one | `BeginCancel` → `WriteCancel` → `StopAll` (the shares of the newest trade, open or not) |
| a safe payment begins | `RequestSafePayment` |

`OnlyRevivedTradesStayShared` is about a long sequence of legal calls: which
transaction counts changes when a safe payment begins or is cancelled, or a trade is
replaced; a share can be started, moved and confirmed in any order around it, and
after the trade nobody can stop a share any more. One request at a time, a
location that stays shared belongs to the newest trade, which is open, and to a
party that has not confirmed; or else to an older trade that somebody confirmed
after its cancellation, whose completion stops the shares of the newer one. A
start that races with a confirmation leaves a share active, too. `WindowReopens`
is a liveness property.

### `ChatRooms`

The rooms of one listing. `listing` has the interest counter, the count at the
last reminder and whether there is a deal; `room` the two unread counters and the
last message; `message` the rows by `createdAt`, each with the reservation it was
sent under; `lease` the idempotency keys.

| Operation | Actions |
|---|---|
| open a room | `BeginOpen` → `ReadForOpen` → `WriteOpen` → `NotifySeller` |
| send a message | `BeginSend` → `Reserve` → `InsertMessage` → `WriteMessage`; `Expire` |
| read a room | `BeginRead` → `MarkRead` → `CountUnread` → `WriteRead` |
| page through it | `BeginList` → `ReadPage` (repeated) → `FinishList` |
| elsewhere | `HideMessage`, `SetDeal` |

`createdAt` is given at the insert and visible only at the commit, so a message
may become visible below a page that was read already; `PagesAreComplete`
promises nothing about such a message and everything about those that were
visible at the first page. `SentOncePerReservation` holds whatever races,
`UnreadIsExact` and the reminders of `InterestNeverOverstated` one request at a
time. `TypeOK` is in this run because the counters are natural numbers only if no
handler subtracts.

## 4. The points: `PointsLedger`

One account. `account` is its row (`totalPoints`, `currentRank`, whether `facebookId` is set, `isBanned`,
`isActive`); `ledger` counts the entries per source and reference, from which
their amounts follow; `withdrawal`, `submission` and `suggestion` are the tables ("NONE" is a suggestion not yet sent);
`reached` are the milestones of the account; `request` are the handlers. Ranks
are the default configuration; `RankOf` looks an interval up as the code does,
with its fallback below and above.

| Operation | Actions |
|---|---|
| milestone bonus | `BeginMilestone` → `FindBonus` → `ReadForBonus` → `WriteBonus` |
| Facebook follow | `BeginLink` → `SetFacebookLink`; `BeginSubmission` → `CreateSubmission`; `BeginFollowReview` → `FindFollow` → `ReadForFollow` → `WriteFollow` → `CloseFollow`, or `RejectFollow` |
| review received | `BeginReview` → `ReadForReview` → `WriteReview` (a unique key refuses a second one) |
| suggestion | `BeginSuggestion` → `CreateSuggestion`; `BeginSuggestionReview` → `ReadForReward` → `WriteReward`, or `WriteDismiss` |
| withdrawal | `BeginWithdrawal` → `SumPending` → `CreateWithdrawal`; `ReadForApprove` → `WriteApprove`; `ReadForReject` → `WriteReject`; `ReadForPaid` → `WritePaid` |
| penalty and automatic block | `ReadForPenalty` → `WritePenalty` |
| ban, unban | `SetUserBanned` |

Whatever races: `PaidWasDeducted`, `RankMatchesBalance`, `BlockedAtThreshold`
(although a stale balance may be written over a newer one), and `MilestoneIsRewarded`.
With one slot, so one request at a time: `BalanceIsLedgerSum`, `OncePerLifetime`,
`StatusMatchesLedger`, `RequestsAreCovered`.

The withdrawal amounts (60 and 100) and the blocking debt (20 instead of 500) are
scaled down so that a run reaches the threshold within its bounds. The proofs
hold for every blocking debt greater than zero, and so for the 500 of the code.

## 5. The users: `Verifications`, `Accounts`, `KbzPay`

### `Verifications`

One user. `code` holds the rows of both tables (use, status, attempts, and
whether it is past its `expiresAt`), `verified` the channels that are verified,
`bonus` the bonuses, `version` the `authTokenVersion`.

| Operation | Actions |
|---|---|
| send a code | `SendPhoneOtp`, `SendEmailVerification`, `RequestForgotPassword` → `ExpirePending` → `CreateCode` |
| type a code | `VerifyPhoneOtp`, `VerifyEmailVerification`, `ResetPassword` → `FindPhoneCode` or `FindMailCode` → (`CountAttempt`) → (`CloseCode`) or `AcceptCode` → `ApplyCode` → `GrantBonus` |
| time | `Age` |

Typed codes are a row or 0, a guess that matches none. `GuessesAreBounded` gives
the exact bound under races: each further handler in flight may compare one guess
more than `MaxAttempts`. `CodesAreSpent` does the same for the uses of a code.
`EveryResetRevokes` counts the resets and the versions.

### `Accounts`

`account` maps users to role, the two flags, deletion, token version, and
whether it was given the configured contact of the root admin (a repair gives it);
`session` has the tokens that logins returned, `open` what a user has open (a
listing, a room, a share: a *thing*), `revoked` the tokens that were out when
something revoked them.

| Operation | Actions |
|---|---|
| register; log in | `BeginRegister` → `CreateRegistered`; `BeginLogin` → `SignToken` |
| reset the password | `BeginReset` → `WriteReset` |
| create an admin; change a role; demote | `BeginCreateAdmin` → `CreateAdmin` → `AppointAdmin`; `BeginChangeRole`, `BeginDemote` → `WriteRole` |
| ban, unban | `BeginBan`, `BeginUnban` → `ReadForBan` → `WriteBan` |
| open something | `BeginUse` → `WriteUse` |
| delete the account | `BeginDelete` → `ReadForDelete` → `WriteDelete` |
| the process starts | `Restart` (with `RootAdminIntegrityService`) |

`RevokedStaysOut` asks of every token that something revoked that it is never
accepted again, also after an unban and after a restart.

### `KbzPay`

The one row of the user, the flag that he is deleted, and the bonus. Each
handler is a check (`BeginRequest`, `BeginInstruct`, `BeginSubmit`,
`BeginVerify`, `BeginDeletion`) and a write (`WriteRequest`, `WriteInstruction`,
`WriteTransfer`, `WriteVerified` → `GrantBonus`, `WriteDeletion`). Its names differ from those of
`Accounts` (`handler` for `request`, `raced` for `overlapped`, `KbzSpec`), because
`AccountsProofs` extends both.
`ListsAreDisjoint` holds whatever races, for the four lists of the dashboard;
`VerifiedIsRewarded` one request at a time and without a crash.

## 6. The content: `Moderation`, `Catalog`

### `Moderation`

One poster, several processes. `keyword` is the table, `cache` the list of each
process and whether it is younger than 60 seconds. A text is the set of the
keywords in it.

| Operation | Actions |
|---|---|
| post | `BeginPost` → `CheckPost` → (`ReadKeywords` → `FillCache`) → `InsertPost` |
| add or drop a keyword; start | `BeginKeyword` → `AddKeyword` or `DropKeyword` → `ForgetCache`; `SeedKeywords` |
| time | `PassTime`: any caches and reads become old; when all are, what is active now is *due* |
| report | `SubmitContent`, `SubmitFraud` |
| review content | `ActionContent` → `RemoveContent` → (`ReadForEject` → `Eject`) → `WriteReview` → `TellReporter`; `DismissContent` |
| review fraud | `ConfirmFraud`, `DismissFraud` → `RereadReport` → `WriteFraudReview` → (`ReadForEject` → `Eject`) → `TellReporter` |
| ban; role | `BeginSetBanned` → `WriteBanned`; `SetAdmin` |

A post is a listing that is published or a TEXT message. An IMAGE message may have
any content, and `send-chat-message.use-case.ts:80` does not check it; neither is
the text of an edited listing checked. So the filter is about the texts that are
checked, not about all that is shown. `FilterCatchesUp` holds whatever races,
because the list is dated with the time
before it was read; `OutcomesAreTrue` has one part for races (a report is
ACTIONED after the content is gone) and one for one request at a time.

### `Catalog`

`category` is the tree (active, parent), `listing` the rows with their category,
delivery and picture, `stored` the objects in the storage.

| Operation | Actions |
|---|---|
| create, move, delete a category | `BeginCreate` → `InsertCategory`; `BeginMove` → `Walk` (one row per turn) → `MoveCategory`; `BeginDrop` → `ReadChildren` → `ReadUsed` → `DropCategory` |
| publish a listing | `BeginPublish` (upload) → `FilePublished` → `InsertListing` |
| edit it | `BeginEdit` (upload) → `ReadListing` → `RefileListing` → `WriteListing` |
| fail | `Refuse`, or `Fail` inside a step → `Revert` |
| delete it | `BeginDelete` → `DeleteListing` |

`CategoriesAreATree` and `ListingsAreFiled` hold one request at a time;
`DeliveryIsConsistent` and `PicturesAreStored` whatever races, fails or dies. The
exception in the latter, `misread`, is a request whose row was committed and
could not be read back: the controller then removes pictures that are shown.

## 7. The runs

| Run (cfg) | Instance | Distinct states | Shows |
|---|---|---|---|
| `chat_racing` (`MCChatRacing`) | 1 room, 1 transaction of either kind, 2 handlers, fairness | 512,362 | money under races; the refinement of `Escrow`; later steps are carried out |
| `chat_one_at_a_time` (`MCChatOneAtATime`) | 2 rooms, 2 transactions, both kinds, crashes | 1,152,693 | the rules between transactions, the lists of the admin |
| `points_racing` (`MCPointsRacing`) | 2 handlers; 1 milestone, 1 withdrawal, 1 review, 2 penalties; fairness | 666,676 | the points under races, the bonus arrives |
| `points_one_at_a_time` (`MCPointsOneAtATime`) | 1 slot; 2 milestones, 2 withdrawals of 2 amounts, 2 submissions, 1 suggestion, 1 review, 1 penalty, crashes | 3,772,796 | the ledger explains the balance, withdrawals are covered |
| `rooms` (`MCChatRooms`) | 2 buyers, 1 chatting, 2 messages, 1 key with 2 reservations, pages of 1, a reminder every 2 buyers, at most 1 message hidden, 2 handlers, crashes | 5,105,634 | counters, keys and pages |
| `location` (`MCLiveLocation`) | 2 parties, a safe payment, 2 direct trades, 3 shares, 1 handler, 2 calls per window, fairness | 949,493 | shares end with the trade unless it was replaced and confirmed, windows end |
| `verifications` (`MCVerifications`) | 2 codes of any use, 2 attempts, 2 handlers, 1 crash | 6,950,316 | guesses, uses, resets |
| `accounts` (`MCAccounts`) | the root and one user, versions to 2, 2 restarts, 2 handlers | 2,046,700 | revocation, root admin, deletion |
| `kbz` (`MCKbzPay`) | 3 handlers, 1 crash | 6,221 | lists and bonus |
| `moderation` (`MCModeration`) | 1 keyword, 2 processes, 1 post, 1 report, 2 handlers, crashes | 3,915,518 | the filter and the outcomes of reports |
| `catalog` (`MCCatalog`) | 3 categories, 1 listing, 1 picture, 2 handlers, crashes | 3,928,100 | tree, filing, delivery, pictures |
| `chat_lost_completion` (`MCChatLostCompletion`) | 2 handlers, 1 direct trade | violation | finding 1 |

**Why the bounds are enough.** The races are between a read and a write of one
row, so two handlers show them (three for the small `KbzPay`), and one row of each
kind is enough for an invariant about one row; the properties of several rows
get two rows. A circle that a one-step check misses needs three categories.
Reminders every two buyers instead of five, two attempts instead of five and
pages of one message reach the same comparisons with fewer steps. Two messages
are enough for a message between two pages, for one sent twice and for one counted
while another is read. In `Accounts` the user can be banned and unbanned,
or made an admin and demoted, before a restart; two restarts show the configured
contact moving to the account that a repair found. `location` has one handler
because its safety property is about requests that do not overlap (with two, the run
has more than 18 million states); a call of the rate limit that is refused (`RefuseUpdate`) and the expiry still come between the steps of the one
in flight. Where a theorem states the property the bounds only
serve to find errors early.

**Symmetry** is used on handlers, rooms, accounts other than the root,
categories and processes, and never in a run with a liveness property.

**Deadlock.** Runs whose tables are bounded set `CHECK_DEADLOCK FALSE`: when all
rows of the instance are closed no further request is possible, which is an end
and not a deadlock. No handler waits for another, except for the row locks of
`Verifications`, whose holder can always commit.

**Fairness.** `FairSpec` adds weak fairness of `Step(s)` for each slot: the event
loop resumes a handler whose awaited call has returned. Nothing obliges a user
or an admin to send a request (`Begin` has no fairness). `LiveLocation` adds weak fairness of
`WindowEnds`, which is enabled only for a counter that has an expiry: Redis
removes what expires. The runs with liveness exclude crashes, since the code
has no recovery: a handler that dies between the commit of a cancellation and its
charge leaves the charge out for good, and one that dies between INCR and EXPIRE
leaves a counter without an expiry. So these properties say exactly that races
alone never lose a later step.

**Mutants.** Each property of a passing run comes with a definition that changes
one operation as a plausible bug would (a dropped check, a check of the wrong
status, a write that forgets a column), placed just before the operation that it
stands for and marked `Mutant:`. No specification uses them.

## 8. Where the code and its documents disagree, and what else to know

1. **Lost completion** (`chat_lost_completion`). `markTransactionCompletedByUser`
   reads both flags, and writes its own flag with a status computed from them. Two
   confirmations at the same time leave both flags set, the status at
   BUYER_COMPLETED or SELLER_COMPLETED, and `completedAt` empty. The listing is
   not marked sold, a cancellation is refused from then on, and a repeated
   confirmation returns early because the flag is set: nothing completes the row.
   The documentation says that the status becomes COMPLETED when both have
   confirmed; the quote is in `PROJECT.json`.

The models show further behaviour of the code that no property asserts or
excludes:

* A cancellation checks a status that it read and updates by id, so it can cancel
  a payment that was submitted meanwhile.
* Completing a direct trade never looks at the status of the trade itself; a
  cancelled one can be confirmed.
* If a new trade has replaced the cancelled one in the meantime, the room then has two
  open trades, and a completion stops the shares of the newer one
  (`stopAllLocationSharesForChatRoom` takes the newest row, whatever was completed).
  Cancel A, start B, confirm A, complete B, share (which finds A), complete A: the
  share in A stays active, one request at a time. `OnlyRevivedTradesStayShared` has
  this as its only exception.
* Only TEXT messages pass the keyword filter; the content of an IMAGE message does not.
* Two blocks that change the points at the same time lose one update of the
  balance; the ledger has both entries.
* The automatic block writes `isBanned` and `isActive`, the unban writes
  `isBanned` only: the account stays unusable.
* Two moves of categories that race can close a circle, and the loop of a later
  move does not end.
* Moving a share over HTTP calls the same use case as the socket and is not counted
  by the rate limit.
* `update-admin-user-role` gives a role to any user, admin or not; a change of
  the password revokes no session; the text of an edited listing does not pass the
  keyword filter.

## 9. The proofs

All theorems are about the specification of their module, so they cover every interleaving
and, with `MayCrash`, every crash, for any number of handlers and rows. They assume what the
modules assume of their constants: bounds are natural numbers, switches are
Booleans, null values are not ids, the blocking debt is positive, the points of a
suggestion are in 1..10000 (the validation), the ids of categories are a finite set.
The theorems of `ChatTransactions` about one request at a time are about its
`SpecOneAtATime`; those of `PointsLedger` have the hypothesis `OneSlot` (`Slots`
has one element), as in its run. In the other modules the same condition is part
of the property: `~overlapped` (`~raced` in `KbzPay`; with `~died`, where a crash matters).

Each module of proofs has an inductive invariant, a lemma for the initial states,
one lemma per action or group of actions, and a lemma for `Next` that puts them together. The
safety properties are not inductive: a handler writes what it concluded
from earlier reads, so the invariant says, per step, what the handler in flight can
still rely on. There are two kinds of such knowledge, and most modules have an
invariant for each: what stays true whatever the others do, because rows and flags
only grow or are written by a conditional update; and what the *only* handler in
flight knows, which is all it has read.

| Module | Inductive invariant | What it adds to the property |
|---|---|---|
| `ChatTransactionsProofs` | `Inv` | `RowsInv` (a safe payment that may be confirmed is verified) and `RequestOK` per step; it survives the steps of others because the columns concerned only grow (`StillRelied`) |
| | `OneInv` | one at a time: between requests and at each step of one, which row of a room is open, what is charged, which flags were read; a handler that died leaves a state that the next one can work on |
| `ChatRoomsProofs` | `Inv` | whatever races: participants stay participants, a stamp that was given is used by one insert, marked messages stay in their room; the pages read so far end at the cursor and miss nothing above it that is still visible (`Paged`) |
| | `Leased` | the reservations of a key are numbered, and each number belongs to one handler or to the one row it has inserted |
| | `Alone` | one at a time: counters are exact, and what the handler in flight has read of them is still so; a reminder has been earned by enough buyers before it is sent |
| `PointsLedgerProofs` | `Inv` | what an old balance is still good for: one at or below the threshold belongs to an account that is not active; a payment has its deduction |
| | `AloneInv` | one slot: the balance is the sum of the ledger, the statuses of the tables say what is in it, and what the handler has read is still so, while an admin may ban the user at any time |
| `CatalogProofs` | `Inv`, `PicInv` | the delivery a handler will write is consistent (`Checked`); a picture is either shown or borrowed and then nobody's to remove, or owned by one handler |
| | `TreeInv` | no set of categories has all its parents in itself (`Rooted`); the loop that looks for a circle has followed the parents from the new parent to its cursor (`Leads`); offered listings are in active categories, and a handler knows that the one it files in is |
| `AccountsProofs` | `TypeOK`, `Alone` | versions of tokens are at most the one of the account, revoked ones below it; the one handler in flight knows the present version; a root admin is active |
| `AccountsProofs`, last section | `KbzInv`, `Rewarded` | what was submitted was asked for and instructed, also for a handler about to write it (`Founded`); the one handler in flight and the bonus it will grant |
| `LiveLocationProofs` | `TypeOK`, `Quiet` | a trade that is open though a newer one exists was confirmed (`Revived`); a share that is active in vain will be stopped by the handler in flight (`Settled`; between handlers there is none, `Silent`), and a share about to be activated belongs to a party that may share |
| `ModerationProofs` | `TypeOK`, `Dated` | every fresh list, in a cache or on its way into one, holds what is due; the list that a check compares holds what was due when it began |
| | `Honest` | a report that is pending has told nobody anything; what a review has done before each of its steps, whoever races, and that its report is still as it was read while it is alone |
| `VerificationsProofs` | `TypeOK`, `Inv` | a handler refers to a code that exists; attempts, uses and versions are accounted for: each is counted, or in flight in a handler that the bound has room for |

**Counting.** Five properties compare counts or sums. `GuessesAreBounded`,
`CodesAreSpent` and `EveryResetRevokes` are proved with the cardinality theorems of
the library, by giving each event in flight to a set of slots or codes. For `BalanceIsLedgerSum` and
`RequestsAreCovered` the module of proofs has a small theory of the sum that
`PointsLedger` folds: a sum changes by what one term changes, and is monotone.

**Pages.** `Newest` chooses the stamp of each position by its number of newer stamps
(`Newer`). `RankExists` shows that there is one for every position, by a least
counterexample and the cardinality theorems, and `PageFacts` what a page is: in order,
nothing left out above its last stamp, everything if it all fits. `ReadPageFacts`
then extends what was read by one page; it needs that stamps are never given twice,
and nothing about what is committed below the cursor in between.

**The tree.** `CategoriesAreATree` says that no category is above itself, where
`Above` climbs as many steps as there are categories. `Rooted` is the form of it
that a step preserves easily: a move that puts a category below a new parent could
close a circle only through the parents that the loop has followed up to the end,
and what it followed is closed under parents. `NoCircle` derives the property:
a climb that returns to its start would be a set without a root.
`LadderExists` shows by a least counterexample (`FirstFailure`) that the climb
of `Above`, chosen as a function, exists.

The theorems to know of: `ReleaseSafety`, `ConfirmationSafety` and `Refinement`
(`Spec => ImplementsEscrow`: each step is one of `Escrow` or a stutter) for the
money; also `CompletionSafety`, `SubmissionSafety` and `MonotoneFlags`, which no run repeats;
`CompletionHappens`, `PenaltyOnce`, `MoneyIsQueued`, `OneOpen`, `GateHolds` and
`OwnDealCleared` for the rules between transactions, one request at a time;
`PaidSafety`, `RankSafety`, `BlockSafety`, `ReviewSafety`, `ApprovalSafety` for the points under races,
`BalanceSafety`, `LifetimeSafety`, `StatusSafety` and `CoverSafety` (an action property) with one slot;
`DisjointLists`, `RewardSafety`; `GuessSafety`, `SpentSafety`, `ResetSafety`; `RevocationSafety`, `RootSafety`,
`DeletionSafety`; `SharingSafety`; `FilterSafety`, `OutcomeSafety`; `DeliverySafety`,
`PictureSafety`, `FiledSafety`, `TreeSafety`; `SentOnce`, `PagesSafety` and the first half of
`InterestSafety` under races, its second half and `UnreadSafety` one request at a
time; and `TypeCorrect` of every module (`KbzTypeCorrect` of `KbzPay`), which is why
`TypeOK` is only in the run of `ChatRooms`. `BlockSafety` is provable because no
code sets `isActive` back. Each invariant was checked by TLC on the constants of the run
before it was proved; `TypeOK`, `Inv` and the others are definitions of the modules of
proofs, so they are in no cfg.

**Only model-checked.** All liveness (`CompletedTradeIsSold`,
`CancellationIsCharged`, `MilestoneIsRewarded`, `WindowReopens`), since fairness and ENABLED
are outside the prover.

## 10. Not modelled, and why

* **User blocks, terms of use, slider ads, seeding**: single rows behind a unique
  key or constants of the code; other handlers only ask whether the row is there.
* **Configuration of ranks and stars**: the defaults are modelled. A new
  configuration leaves stored ranks as they are until the next change of points.
* **The change between Redis and the memory of a process**: each store has the
  modelled steps; keys are not carried over.
* **Notifications and realtime events**: output that nothing in the state reads
  back, except the reminder of the seller (`ChatRooms`) and the outcome of a
  report (`Moderation`).
* **E-mail, SMS, Facebook**: pure I/O, whose failure between two steps is a
  `Crash`.
* **Search** (PostGIS, filters, sorting), promotion and formatting of listings:
  computed over single rows.
* **The HTTP layer**: its validation is the domain of the inputs.

## 11. What would come next

1. An abstract mailbox that `ChatRooms` implements one request at a time.
2. The two stores of the idempotency keys, and user blocks in `ChatRooms`.
3. A proof that several listings, or several accounts, do not interfere.
