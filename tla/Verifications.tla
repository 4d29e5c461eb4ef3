--------------------------- MODULE Verifications ---------------------------
(***************************************************************************)
(* How a user proves what is his: the codes sent to his phone and his      *)
(* e-mail address, which also reset his password.  Each verification       *)
(* grants a bonus once.                                                    *)
(*                                                                         *)
(* There is one user, active and no admin (Accounts has the others).  A    *)
(* handler is a sequence of steps that end at its awaits.  A code is named *)
(* after its row, and what the client types is such a name or 0, a code    *)
(* that was never sent.  Time is a flag: the code is past its expiresAt.   *)
(* Left out: that SMS and e-mail may fail to be sent, which leaves the     *)
(* code pending; notifications; the hash of the new password.              *)
(***************************************************************************)
EXTENDS Integers, FiniteSetsExt

CONSTANTS
    Slots,        \* handlers that can be in flight at the same time
    MaxCode,      \* bound on the rows of otp_ and email_verifications
    MaxAttempts,  \* maxAttempts of a phone code, 5 in the schema
    MayCrash      \* can a process die between two steps of a handler?

UseNames == {"PHONE", "PHONE_RESET", "MAIL", "MAIL_RESET"}
ResetUses == {"PHONE_RESET", "MAIL_RESET"}
PhoneUses == {"PHONE", "PHONE_RESET"}
Channels == {"PHONE", "MAIL"}

ASSUME BoundsAssumption == MaxCode \in Nat /\ MaxAttempts \in Nat \ {0}
ASSUME SlotsAssumption == IsFiniteSet(Slots)
ASSUME SwitchAssumption == MayCrash \in BOOLEAN

VARIABLES
    code,        \* the two tables of codes: id -> row, newest last
    verified,    \* isPhoneVerified and isEmailVerified: the verified channels
    bonus,       \* the milestone bonuses that were granted
    version,     \* authTokenVersion
    request,     \* slot -> the handler in flight and its local variables
    uses,        \* history: id -> how often the code was accepted
    overlapped,  \* history: have two handlers ever been in flight together?
    died         \* history: did a process die?

vars == <<code, verified, bonus, version, request, uses, overlapped, died>>
history == <<uses, overlapped, died>>

Ids == 1..MaxCode
CodeStatus == {"PENDING", "VERIFIED", "EXPIRED", "FAILED"}
Code == [use : UseNames, status : CodeStatus, attempts : Nat, old : BOOLEAN]

-----------------------------------------------------------------------------
(* Handlers in flight                                                        *)

Idle == [step |-> "idle"]

Checking == [use : UseNames, version : Nat, id : Ids]

Request ==
    {Idle}
    \cup [step : {"issue.expire"}, use : UseNames]
    \cup [step : {"issue.create"}, use : UseNames, expire : SUBSET Ids]
    \cup [step : {"check.find"}, use : UseNames, version : Nat, typed : Ids \cup {0}]
    \cup [step : {"check.count"}, check : Checking, attempts : Nat]
    \cup [step : {"check.close", "check.accept", "check.apply"}, check : Checking]
    \cup [step : {"bonus"}, channel : Channels]

At(s, step) == request[s].step = step
Continue(s, r) == request' = [request EXCEPT ![s] = r]
Finish(s) == Continue(s, Idle)

\* A new handler: does it overlap one that is in flight?
Start(s, r) ==
    /\ At(s, "idle")
    /\ Continue(s, r)
    /\ overlapped' = (overlapped \/ \E t \in Slots \ {s} : ~At(t, "idle"))
    /\ UNCHANGED <<uses, died>>

Init ==
    /\ code = [i \in {} |-> [use |-> "PHONE", status |-> "PENDING",
                             attempts |-> 0, old |-> FALSE]]
    /\ verified = {}
    /\ bonus = {}
    /\ version = 0
    /\ request = [s \in Slots |-> Idle]
    /\ uses = [i \in Ids |-> 0]
    /\ overlapped = FALSE
    /\ died = FALSE

-----------------------------------------------------------------------------
(* Sending a code                                                            *)

Channel(use) == IF use \in PhoneUses THEN "PHONE" ELSE "MAIL"

\* The codes that a new one replaces: of the same purpose for a phone, of the
\* same address, whatever they are for, for an e-mail.
Group(use) == IF use \in PhoneUses THEN {use} ELSE {"MAIL", "MAIL_RESET"}

Pending(group) == {i \in DOMAIN code : code[i].use \in group /\ code[i].status = "PENDING"}

\* The rows that a transaction in flight has locked
Locked == UNION {request[t].expire : t \in {u \in Slots : At(u, "issue.create")}}

BeginIssue(s, use) ==
    /\ Start(s, [step |-> "issue.expire", use |-> use])
    /\ UNCHANGED <<code, verified, bonus, version>>

\* A channel is verified once.
SendPhoneOtp(s) == "PHONE" \notin verified /\ BeginIssue(s, "PHONE")
SendEmailVerification(s) == "MAIL" \notin verified /\ BeginIssue(s, "MAIL")

RequestForgotPassword(s) == \E use \in ResetUses : BeginIssue(s, use)

\* createPhoneOtp, createEmailVerification: updateMany.  A row that another
\* transaction locked is expired by then, and skipped.
ExpirePending(s) ==
    /\ At(s, "issue.expire")
    /\ Continue(s, [step |-> "issue.create", use |-> request[s].use,
                    expire |-> Pending(Group(request[s].use)) \ Locked])
    /\ UNCHANGED <<code, verified, bonus, version, history>>

NewCode(use) == [use |-> use, status |-> "PENDING", attempts |-> 0, old |-> FALSE]

\* Mutant: the codes sent before stay pending.
CreateCodeOnly(s) ==
    /\ At(s, "issue.create")
    /\ \E i \in Ids :
          /\ DOMAIN code = 1..(i - 1)
          /\ code' = [j \in 1..i |-> IF j = i THEN NewCode(request[s].use) ELSE code[j]]
    /\ Finish(s)
    /\ UNCHANGED <<verified, bonus, version, history>>

\* ... create, and the commit of both
CreateCode(s) ==
    /\ At(s, "issue.create")
    /\ \E i \in Ids :
          /\ DOMAIN code = 1..(i - 1)
          /\ code' = [j \in 1..i |->
                IF j = i THEN NewCode(request[s].use)
                ELSE IF j \in request[s].expire THEN [code[j] EXCEPT !.status = "EXPIRED"]
                ELSE code[j]]
    /\ Finish(s)
    /\ UNCHANGED <<verified, bonus, version, history>>

\* The time of a code is over; the row does not change by itself.  Only that of
\* a pending code is ever compared.
Age(i) ==
    /\ i \in DOMAIN code
    /\ code[i].status = "PENDING"
    /\ ~code[i].old
    /\ code' = [code EXCEPT ![i].old = TRUE]
    /\ UNCHANGED <<verified, bonus, version, request, history>>

-----------------------------------------------------------------------------
(* Typing a code                                                             *)

\* The user is read, with the version of his tokens, and a code is typed.
BeginCheck(s, use) ==
    /\ \E typed \in DOMAIN code \cup {0} :
          Start(s, [step |-> "check.find", use |-> use, version |-> version,
                    typed |-> typed])
    /\ UNCHANGED <<code, verified, bonus, version>>

VerifyPhoneOtp(s) == BeginCheck(s, "PHONE")
VerifyEmailVerification(s) == BeginCheck(s, "MAIL")
ResetPassword(s) == \E use \in ResetUses : BeginCheck(s, use)

\* What follows the row that was read, in the words of Request
CheckStep(s, step, i) ==
    [step |-> step, check |-> [use |-> request[s].use, version |-> request[s].version,
                               id |-> i]]

\* The code that was typed is the one in the row, or the attempt is counted.
Compared(s, i) ==
    IF request[s].typed = i THEN CheckStep(s, "check.accept", i)
    ELSE [step |-> "check.count", check |-> CheckStep(s, "check.count", i).check,
          attempts |-> code[i].attempts]

\* Mutant: only the guess that reaches the limit is refused for it.
FindPhoneCodeUnlimited(s) ==
    /\ At(s, "check.find")
    /\ request[s].use \in PhoneUses
    /\ LET pending == Pending({request[s].use})
       IN \/ pending = {} /\ Finish(s)
          \/ \E i \in pending :
                /\ \A j \in pending : j <= i
                /\ Continue(s,
                      IF code[i].old THEN CheckStep(s, "check.close", i)
                      ELSE Compared(s, i))
    /\ UNCHANGED <<code, verified, bonus, version, history>>

\* validatePendingPhoneOtp reads the newest pending code of the purpose: too
\* old or tried too often, right, or wrong.
FindPhoneCode(s) ==
    /\ At(s, "check.find")
    /\ request[s].use \in PhoneUses
    /\ LET pending == Pending({request[s].use})
       IN \/ pending = {} /\ Finish(s)
          \/ \E i \in pending :
                /\ \A j \in pending : j <= i
                /\ Continue(s,
                      IF code[i].old \/ code[i].attempts >= MaxAttempts
                      THEN CheckStep(s, "check.close", i)
                      ELSE Compared(s, i))
    /\ UNCHANGED <<code, verified, bonus, version, history>>

\* findActiveEmailVerification: the pending row with the token that was typed;
\* the token of a reset has a prefix of its own.
FindMailCode(s) ==
    /\ At(s, "check.find")
    /\ request[s].use \notin PhoneUses
    /\ LET i == request[s].typed
       IN Continue(s,
            IF i \notin Pending({request[s].use}) THEN Idle
            ELSE CheckStep(s, IF code[i].old THEN "check.close" ELSE "check.accept", i))
    /\ UNCHANGED <<code, verified, bonus, version, history>>

\* incrementPhoneOtpAttempt counts in the row, and the limit is compared with
\* the number that was read before.
CountAttempt(s) ==
    /\ At(s, "check.count")
    /\ LET q == request[s]
       IN /\ q.check.id \notin Locked
          /\ code' = [code EXCEPT ![q.check.id].attempts = @ + 1]
          /\ Continue(s, IF q.attempts + 1 >= MaxAttempts
                         THEN [step |-> "check.close", check |-> q.check] ELSE Idle)
    /\ UNCHANGED <<verified, bonus, version, history>>

\* markPhoneOtpFailed, markEmailVerificationExpired: by id, whatever it is now
CloseCode(s) ==
    /\ At(s, "check.close")
    /\ LET q == request[s].check
       IN /\ q.id \notin Locked
          /\ code' = [code EXCEPT ![q.id].status =
                        IF q.use \in PhoneUses THEN "FAILED" ELSE "EXPIRED"]
    /\ Finish(s)
    /\ UNCHANGED <<verified, bonus, version, history>>

\* markPhoneOtpVerified, markEmailVerificationVerified: by id, too
AcceptCode(s) ==
    /\ At(s, "check.accept")
    /\ LET i == request[s].check.id
       IN /\ i \notin Locked
          /\ code' = [code EXCEPT ![i].status = "VERIFIED"]
          /\ uses' = [uses EXCEPT ![i] = @ + 1]
    /\ Continue(s, [step |-> "check.apply", check |-> request[s].check])
    /\ UNCHANGED <<verified, bonus, version, overlapped, died>>

\* Mutant: the password is changed, the tokens are not revoked.
ApplyCodeSilently(s) ==
    /\ At(s, "check.apply")
    /\ LET use == request[s].check.use
       IN IF use \in ResetUses
          THEN Finish(s) /\ UNCHANGED verified
          ELSE /\ verified' = verified \cup {Channel(use)}
               /\ Continue(s, [step |-> "bonus", channel |-> Channel(use)])
    /\ UNCHANGED <<code, bonus, version, history>>

\* What the code was for: markUserPhoneVerified, markUserEmailVerified, or the
\* new password with the next version of the tokens
ApplyCode(s) ==
    /\ At(s, "check.apply")
    /\ LET q == request[s].check
       IN IF q.use \in ResetUses
          THEN /\ version' = q.version + 1
               /\ Finish(s)
               /\ UNCHANGED verified
          ELSE /\ verified' = verified \cup {Channel(q.use)}
               /\ Continue(s, [step |-> "bonus", channel |-> Channel(q.use)])
               /\ UNCHANGED version
    /\ UNCHANGED <<code, bonus, history>>

\* grantAccountLifetimeMilestoneBonus: once in the life of an account
\* (PointsLedger), so granting it again adds nothing
GrantBonus(s) ==
    /\ At(s, "bonus")
    /\ bonus' = bonus \cup {request[s].channel}
    /\ Finish(s)
    /\ UNCHANGED <<code, verified, version, history>>

-----------------------------------------------------------------------------

\* The process of a handler dies, once: what it committed stays
Crash(s) ==
    /\ MayCrash /\ ~died
    /\ ~At(s, "idle")
    /\ Finish(s)
    /\ died' = TRUE
    /\ UNCHANGED <<code, verified, bonus, version, uses, overlapped>>

\* AuthController
PasswordRoutes(s) == RequestForgotPassword(s) \/ ResetPassword(s)
OtpRoutes(s) == SendPhoneOtp(s) \/ VerifyPhoneOtp(s)
EmailRoutes(s) == SendEmailVerification(s) \/ VerifyEmailVerification(s)

Begin(s) == PasswordRoutes(s) \/ OtpRoutes(s) \/ EmailRoutes(s)

Step(s) ==
    \/ ExpirePending(s) \/ CreateCode(s)
    \/ FindPhoneCode(s) \/ FindMailCode(s) \/ CountAttempt(s) \/ CloseCode(s)
    \/ AcceptCode(s) \/ ApplyCode(s) \/ GrantBonus(s)

Next ==
    \/ \E s \in Slots : Begin(s) \/ Step(s) \/ Crash(s)
    \/ \E i \in Ids : Age(i)

Spec == Init /\ [][Next]_vars

-----------------------------------------------------------------------------
(* Properties                                                                *)

\* The tables and the handlers have their types; a handler refers to rows that
\* exist.
TypeOK ==
    /\ \E n \in 0..MaxCode : code \in [1..n -> Code]
    /\ verified \subseteq Channels
    /\ bonus \subseteq Channels
    /\ version \in Nat
    /\ request \in [Slots -> Request]
    /\ uses \in [Ids -> Nat]
    /\ overlapped \in BOOLEAN
    /\ died \in BOOLEAN

AtRest == \A s \in Slots : At(s, "idle")

\* A phone code is compared with at most MaxAttempts wrong guesses, and with
\* one more for every further guess that is in flight when the limit is hit.
GuessesAreBounded ==
    \A i \in DOMAIN code :
        code[i].attempts <= MaxAttempts + (IF overlapped THEN Cardinality(Slots) - 1 ELSE 0)

\* While no two handlers overlap, a code is accepted once, and at most one code
\* of a phone purpose or an e-mail address waits to be typed; with handlers that
\* overlap, a code is accepted at most once by each of them.
CodesAreSpent ==
    /\ \A i \in Ids : uses[i] <= (IF overlapped THEN Cardinality(Slots) ELSE 1)
    /\ ~overlapped => \A use \in UseNames : Cardinality(Pending(Group(use))) <= 1

\* The codes that have reset the password
UsedResets == {i \in DOMAIN code : code[i].use \in ResetUses /\ uses[i] > 0}

\* While no two handlers overlap and none dies, every code that resets the
\* password gives the tokens one more version: sessions from before are refused.
EveryResetRevokes ==
    ~overlapped /\ ~died /\ AtRest => version = Cardinality(UsedResets)

=============================================================================
