-------------------------------- MODULE KbzPay --------------------------------
(***************************************************************************)
(* The verification of a KBZPay account: the user asks for it, an admin    *)
(* sends the number to which a small amount is to be transferred, the user *)
(* submits the number of his transfer, and an admin confirms the receipt,  *)
(* which grants a bonus.                                                   *)
(*                                                                         *)
(* There is one user, with the one kbz_pay_accounts row that registration  *)
(* created.  Every handler reads, then writes a part of the row by its key *)
(* whatever the row is by then.  The handlers of the admin do not look at  *)
(* the account at all.  Left out: notes, phone numbers, notifications.     *)
(*                                                                         *)
(* The names differ from those of Accounts: AccountsProofs extends both.   *)
(***************************************************************************)
EXTENDS Integers, FiniteSets

CONSTANTS
    Handlers,  \* the handlers that can be in flight at the same time
    MayCrash   \* can a process die between two steps of a handler?

ASSUME SwitchAssumption == MayCrash \in BOOLEAN

VARIABLES
    kbz,         \* the row
    deleted,     \* deletedAt of the user
    bonus,       \* how often KBZPAY_VERIFIED_BONUS is in the ledger
    handler,     \* the step of every handler
    raced,       \* history: have two handlers ever been in flight together?
    died         \* history: did a process die?

kbzVars == <<kbz, deleted, bonus, handler, raced, died>>

\* verifyRequestedAt, adminInstructionSentAt and kbzTransactionId: null or not
Kbz == [status : {"PENDING", "VERIFIED"}, verified : BOOLEAN,
        requested : BOOLEAN, instructed : BOOLEAN, paid : BOOLEAN]

NewKbz == [status |-> "PENDING", verified |-> FALSE,
           requested |-> FALSE, instructed |-> FALSE, paid |-> FALSE]

Steps == {"idle", "request", "instruct", "submit", "verify", "bonus", "delete"}

KbzInit ==
    /\ kbz = NewKbz
    /\ deleted = FALSE
    /\ bonus = 0
    /\ handler = [s \in Handlers |-> "idle"]
    /\ raced = FALSE
    /\ died = FALSE

-----------------------------------------------------------------------------

Doing(s, step) == handler[s] = step
Proceed(s, step) == handler' = [handler EXCEPT ![s] = step]

\* A new handler: does it overlap one that is in flight?
Enter(s, step) ==
    /\ Doing(s, "idle")
    /\ Proceed(s, step)
    /\ raced' = (raced \/ \E t \in Handlers \ {s} : ~Doing(t, "idle"))
    /\ UNCHANGED <<kbz, deleted, bonus, died>>

\* The user is active, and neither field says that he is verified already.
MayVerify == ~deleted /\ ~kbz.verified /\ kbz.status # "VERIFIED"

\* RequestKbzPayVerificationUseCase
BeginRequest(s) == MayVerify /\ Enter(s, "request")

\* SendKbzPayInstructionUseCase: any account that exists
BeginInstruct(s) == Enter(s, "instruct")

\* Mutant: a transfer can be submitted before there is an instruction.
BeginSubmitEarly(s) == MayVerify /\ kbz.requested /\ Enter(s, "submit")

\* SubmitKbzPayTransactionUseCase
BeginSubmit(s) == MayVerify /\ kbz.requested /\ kbz.instructed /\ Enter(s, "submit")

\* AdminVerifyKbzPayUseCase: any account that exists
BeginVerify(s) == Enter(s, "verify")

\* DeleteAccountUseCase, up to the transaction that writes
BeginDeletion(s) == ~deleted /\ Enter(s, "delete")

Write(s, from, next, to) ==
    /\ Doing(s, from)
    /\ kbz' = next
    /\ Proceed(s, to)
    /\ UNCHANGED <<raced, died>>

\* requestKbzPayVerification
WriteRequest(s) ==
    /\ Write(s, "request",
             [kbz EXCEPT !.status = "PENDING", !.verified = FALSE, !.requested = TRUE],
             "idle")
    /\ UNCHANGED <<deleted, bonus>>

\* setKbzPayVerificationInstruction
WriteInstruction(s) ==
    /\ Write(s, "instruct", [kbz EXCEPT !.status = "PENDING", !.instructed = TRUE], "idle")
    /\ UNCHANGED <<deleted, bonus>>

\* setKbzPayTransactionId
WriteTransfer(s) ==
    /\ Write(s, "submit", [kbz EXCEPT !.paid = TRUE], "idle")
    /\ UNCHANGED <<deleted, bonus>>

\* Mutant: the bonus is left to a later call.
WriteVerifiedOnly(s) ==
    /\ Write(s, "verify", [kbz EXCEPT !.status = "VERIFIED", !.verified = TRUE], "idle")
    /\ UNCHANGED <<deleted, bonus>>

\* markKbzPayVerified
WriteVerified(s) ==
    /\ Write(s, "verify", [kbz EXCEPT !.status = "VERIFIED", !.verified = TRUE], "bonus")
    /\ UNCHANGED <<deleted, bonus>>

\* grantAccountLifetimeMilestoneBonus.  That two of them may both find none
\* before either inserts is in PointsLedger; here it is one step.
GrantBonus(s) ==
    /\ Write(s, "bonus", kbz, "idle")
    /\ bonus' = IF bonus = 0 THEN 1 ELSE bonus
    /\ UNCHANGED deleted

\* deleteAccount: nothing if the account is deleted by now
WriteDeletion(s) ==
    /\ Write(s, "delete", IF deleted THEN kbz ELSE NewKbz, "idle")
    /\ deleted' = TRUE
    /\ UNCHANGED bonus

\* The process of a handler dies, once: what it committed stays.
Crash(s) ==
    /\ MayCrash /\ ~died
    /\ ~Doing(s, "idle")
    /\ Proceed(s, "idle")
    /\ died' = TRUE
    /\ UNCHANGED <<kbz, deleted, bonus, raced>>

\* AuthController
ClientRoutes(s) == BeginRequest(s) \/ BeginSubmit(s)

\* AdminDashboardAuthController
AdminRoutes(s) == BeginInstruct(s) \/ BeginVerify(s)

KbzBegin(s) == ClientRoutes(s) \/ AdminRoutes(s) \/ BeginDeletion(s)

KbzStep(s) ==
    \/ WriteRequest(s) \/ WriteInstruction(s) \/ WriteTransfer(s) \/ WriteVerified(s)
    \/ GrantBonus(s) \/ WriteDeletion(s)

KbzNext == \E s \in Handlers : KbzBegin(s) \/ KbzStep(s) \/ Crash(s)

KbzSpec == KbzInit /\ [][KbzNext]_kbzVars

-----------------------------------------------------------------------------
(* The lists that an admin works through                                     *)

InRegistered == ~kbz.verified /\ ~kbz.requested
InRequested == ~kbz.verified /\ kbz.requested /\ ~kbz.instructed
InMoneyCheck == ~kbz.verified /\ kbz.paid
InVerified == kbz.verified

-----------------------------------------------------------------------------
(* Properties                                                                *)

\* The row, the counters and the handlers have their types.
KbzTypeOK ==
    /\ kbz \in Kbz
    /\ deleted \in BOOLEAN
    /\ bonus \in 0..1
    /\ handler \in [Handlers -> Steps]
    /\ raced \in BOOLEAN
    /\ died \in BOOLEAN

\* The pages of the dashboard, by the routes of AdminDashboardAuthController
AdminLists ==
    [verificationRequested |-> InRequested, moneyCheck |-> InMoneyCheck,
     verifiedUsers |-> InVerified, registeredAccounts |-> InRegistered]

\* An account that exists is on at most one of the pages, whatever handlers race
\* over it: a transfer that is to be checked was asked for and instructed.
ListsAreDisjoint ==
    ~deleted =>
        \A a, b \in DOMAIN AdminLists : AdminLists[a] /\ AdminLists[b] => a = b

AtRest == \A s \in Handlers : Doing(s, "idle")

\* While no two handlers overlap and none dies, the bonus was granted exactly
\* if the account is verified.  A request that was checked before the admin
\* verified the account takes the verification back, and leaves the bonus.
VerifiedIsRewarded ==
    ~raced /\ ~died /\ ~deleted /\ AtRest => (InVerified <=> bonus = 1)

=============================================================================
