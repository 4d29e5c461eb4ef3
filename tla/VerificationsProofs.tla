------------------------- MODULE VerificationsProofs -------------------------
(***************************************************************************)
(* The codes and the handlers that check them, for every number of codes,  *)
(* attempts and handlers in flight.  A handler that has read a row keeps   *)
(* its id and writes by that id, whatever was written since.  So the       *)
(* invariant accounts for what is in flight: the guesses that are counted  *)
(* and those that will be (Bounded), the uses that are counted and those   *)
(* that will be (Spent), and, while no two handlers have overlapped, the   *)
(* version that the handler of a reset is about to write (Counted).  From  *)
(* it follow the three properties of the runs.                             *)
(***************************************************************************)
EXTENDS Verifications, FiniteSetTheorems, TLAPS

Table == \E n \in 0..MaxCode : code \in [1..n -> Code]

-----------------------------------------------------------------------------
(* Handlers                                                                  *)

\* What a handler carries in each of its steps.
LEMMA RequestFields ==
    ASSUME NEW q \in Request
    PROVE  /\ q.step = "issue.expire" => q.use \in UseNames
           /\ q.step = "issue.create" => q.use \in UseNames /\ q.expire \subseteq Ids
           /\ q.step = "check.find" => /\ q.use \in UseNames
                                       /\ q.version \in Nat
                                       /\ q.typed \in Ids \cup {0}
           /\ q.step = "check.count" => q.check \in Checking /\ q.attempts \in Nat
           /\ q.step \in {"check.close", "check.accept", "check.apply"}
                => q.check \in Checking
           /\ q.step = "bonus" => q.channel \in Channels
BY DEF Request, Idle

LEMMA HandlerTyped ==
    ASSUME TypeOK, NEW s \in Slots, NEW q \in Request, Continue(s, q)
    PROVE  request' \in [Slots -> Request]
BY DEF TypeOK, Continue

LEMMA IdleTyped == Idle \in Request
BY DEF Idle, Request

\* The rows of the table are among the ids.
LEMMA RowIds == ASSUME TypeOK PROVE DOMAIN code \subseteq Ids
BY BoundsAssumption DEF TypeOK, Ids

LEMMA RowTyped == ASSUME TypeOK, NEW i \in DOMAIN code PROVE code[i] \in Code
BY DEF TypeOK

\* What a handler that checks a code continues with.
LEMMA CheckTyped ==
    ASSUME TypeOK, NEW s \in Slots, At(s, "check.find"), NEW i \in Ids
    PROVE  /\ CheckStep(s, "check.close", i) \in Request
           /\ CheckStep(s, "check.accept", i) \in Request
           /\ CheckStep(s, "check.count", i).check \in Checking
<1>1. request[s].use \in UseNames /\ request[s].version \in Nat
  BY RequestFields DEF TypeOK, At
<1> QED BY <1>1 DEF CheckStep, Checking, Request

\* Writing a status, or one more attempt, keeps the table typed.
LEMMA RowWritten ==
    ASSUME TypeOK, NEW i, NEW row, i \in DOMAIN code => row \in Code,
           code' = [code EXCEPT ![i] = row]
    PROVE  Table'
<1>1. PICK n \in 0..MaxCode : code \in [1..n -> Code]
  BY DEF TypeOK
<1>2. code' \in [1..n -> Code]
  BY <1>1
<1> QED BY <1>2 DEF Table

LEMMA InitTyped == Init => TypeOK
<1> SUFFICES ASSUME Init PROVE TypeOK
  OBVIOUS
<1>1. code \in [1..0 -> Code]
  BY DEF Init
<1>2. 0 \in 0..MaxCode
  BY BoundsAssumption
<1>3. request \in [Slots -> Request]
  BY IdleTyped DEF Init
<1>4. uses \in [Ids -> Nat]
  BY DEF Init
<1> QED BY <1>1, <1>2, <1>3, <1>4 DEF Init, TypeOK

-----------------------------------------------------------------------------
(* The steps                                                                 *)

\* A handler starts: only the handlers and the history change.
LEMMA BeginTyped == ASSUME TypeOK, NEW s \in Slots, Begin(s) PROVE TypeOK'
<1>1. PICK q \in Request : Start(s, q) /\ UNCHANGED <<code, verified, bonus, version>>
  <2>1. ASSUME NEW use \in UseNames, BeginIssue(s, use)
        PROVE  \E q \in Request :
                  Start(s, q) /\ UNCHANGED <<code, verified, bonus, version>>
    <3>1. [step |-> "issue.expire", use |-> use] \in Request
      BY DEF Request
    <3> QED BY <2>1, <3>1 DEF BeginIssue
  <2>2. ASSUME NEW use \in UseNames, BeginCheck(s, use)
        PROVE  \E q \in Request :
                  Start(s, q) /\ UNCHANGED <<code, verified, bonus, version>>
    <3>1. PICK typed \in DOMAIN code \cup {0} :
             Start(s, [step |-> "check.find", use |-> use, version |-> version,
                       typed |-> typed])
      BY <2>2 DEF BeginCheck
    <3>2. [step |-> "check.find", use |-> use, version |-> version, typed |-> typed]
             \in Request
      BY RowIds DEF Request, TypeOK
    <3> QED BY <2>2, <3>1, <3>2 DEF BeginCheck
  <2> QED BY <2>1, <2>2 DEF Begin, PasswordRoutes, OtpRoutes, EmailRoutes,
             RequestForgotPassword, ResetPassword, SendPhoneOtp, VerifyPhoneOtp,
             SendEmailVerification, VerifyEmailVerification, ResetUses, UseNames
<1>2. request' \in [Slots -> Request]
  BY <1>1, HandlerTyped DEF Start
<1>3. overlapped' \in BOOLEAN
  BY <1>1 DEF Start, TypeOK
<1> QED BY <1>1, <1>2, <1>3 DEF Start, TypeOK

\* A new code is issued, after the ones that it replaces were read.
LEMMA IssueTyped ==
    ASSUME TypeOK, NEW s \in Slots, ExpirePending(s) \/ CreateCode(s)
    PROVE  TypeOK'
<1>1. CASE ExpirePending(s)
  <2> DEFINE expire == Pending(Group(request[s].use)) \ Locked
             q == [step |-> "issue.create", use |-> request[s].use, expire |-> expire]
  <2>1. expire \subseteq Ids
    BY RowIds DEF Pending
  <2>2. request[s].use \in UseNames
    BY <1>1, RequestFields DEF ExpirePending, At, TypeOK
  <2> HIDE DEF expire
  <2>3. q \in Request
    BY <2>1, <2>2 DEF Request
  <2>4. Continue(s, q)
    BY <1>1 DEF ExpirePending, expire
  <2> HIDE DEF q
  <2>5. request' \in [Slots -> Request]
    BY <2>3, <2>4, HandlerTyped
  <2> QED BY <1>1, <2>5 DEF ExpirePending, history, TypeOK
<1>2. CASE CreateCode(s)
  <2>1. request' \in [Slots -> Request]
    BY <1>2, IdleTyped, HandlerTyped DEF CreateCode, Finish
  <2>2. Table'
    <3>1. PICK i \in Ids :
             /\ DOMAIN code = 1..(i - 1)
             /\ code' = [j \in 1..i |->
                   IF j = i THEN NewCode(request[s].use)
                   ELSE IF j \in request[s].expire THEN [code[j] EXCEPT !.status = "EXPIRED"]
                   ELSE code[j]]
      BY <1>2 DEF CreateCode
    <3>2. NewCode(request[s].use) \in Code
      BY <1>2, RequestFields DEF CreateCode, At, TypeOK, NewCode, Code, CodeStatus
    <3>3. ASSUME NEW row \in Code PROVE [row EXCEPT !.status = "EXPIRED"] \in Code
      BY DEF Code, CodeStatus
    <3>4. ASSUME NEW j \in 1..i, j # i
          PROVE  code[j] \in Code /\ [code[j] EXCEPT !.status = "EXPIRED"] \in Code
      <4>1. j \in DOMAIN code
        BY <3>1, <3>4 DEF Ids
      <4> QED BY <4>1, <3>3, RowTyped
    <3>5. code' \in [1..i -> Code]
      BY <3>1, <3>2, <3>4
    <3>6. i \in 0..MaxCode
      BY DEF Ids
    <3> QED BY <3>5, <3>6 DEF Table
  <2> QED BY <1>2, <2>1, <2>2 DEF CreateCode, history, TypeOK, Table
<1> QED BY <1>1, <1>2

\* What was typed is compared with a row of the table.
LEMMA FindTyped ==
    ASSUME TypeOK, NEW s \in Slots, FindPhoneCode(s) \/ FindMailCode(s)
    PROVE  TypeOK'
<1>1. \E q \in Request : Continue(s, q)
  <2>1. CASE FindPhoneCode(s)
    <3>1. CASE Finish(s)
      BY <3>1, IdleTyped DEF Finish
    <3>2. ASSUME NEW i \in Pending({request[s].use}),
                 Continue(s, IF code[i].old \/ code[i].attempts >= MaxAttempts
                             THEN CheckStep(s, "check.close", i)
                             ELSE Compared(s, i))
          PROVE  \E q \in Request : Continue(s, q)
      <4>1. i \in DOMAIN code /\ i \in Ids
        BY RowIds DEF Pending
      <4>2. code[i].attempts \in Nat
        BY <4>1, RowTyped DEF Code
      <4>3. At(s, "check.find")
        BY <2>1 DEF FindPhoneCode
      <4>4. /\ CheckStep(s, "check.close", i) \in Request
            /\ CheckStep(s, "check.accept", i) \in Request
            /\ CheckStep(s, "check.count", i).check \in Checking
        BY <4>1, <4>3, CheckTyped
      <4>5. Compared(s, i) \in Request
        BY <4>2, <4>4 DEF Compared, Request
      <4> QED BY <3>2, <4>4, <4>5
    <3> QED BY <2>1, <3>1, <3>2 DEF FindPhoneCode
  <2>2. CASE FindMailCode(s)
    <3> DEFINE i == request[s].typed
    <3>1. Continue(s, IF i \notin Pending({request[s].use}) THEN Idle
                      ELSE CheckStep(s, IF code[i].old THEN "check.close"
                                        ELSE "check.accept", i))
      BY <2>2 DEF FindMailCode
    <3>2. CASE i \notin Pending({request[s].use})
      BY <3>1, <3>2, IdleTyped
    <3>3. CASE i \in Pending({request[s].use})
      <4>1. i \in Ids
        BY <3>3, RowIds DEF Pending
      <4>2. At(s, "check.find")
        BY <2>2 DEF FindMailCode
      <4>3. /\ CheckStep(s, "check.close", i) \in Request
            /\ CheckStep(s, "check.accept", i) \in Request
        BY <4>1, <4>2, CheckTyped
      <4> QED BY <3>1, <3>3, <4>3
    <3> QED BY <3>2, <3>3
  <2> QED BY <2>1, <2>2
<1>2. request' \in [Slots -> Request]
  BY <1>1, HandlerTyped
<1> QED BY <1>2 DEF FindPhoneCode, FindMailCode, history, TypeOK

\* A row that was read is written by its id.
LEMMA WriteTyped ==
    ASSUME TypeOK, NEW s \in Slots, CountAttempt(s) \/ CloseCode(s) \/ AcceptCode(s)
    PROVE  TypeOK'
<1>1. ASSUME NEW i \in DOMAIN code
      PROVE  /\ [code[i] EXCEPT !.attempts = @ + 1] \in Code
             /\ \A status \in CodeStatus : [code[i] EXCEPT !.status = status] \in Code
  <2>1. ASSUME NEW row \in Code, NEW n \in Nat PROVE [row EXCEPT !.attempts = n] \in Code
    BY DEF Code
  <2>2. ASSUME NEW row \in Code, NEW status \in CodeStatus
        PROVE  [row EXCEPT !.status = status] \in Code
    BY DEF Code
  <2>3. code[i] \in Code /\ code[i].attempts + 1 \in Nat
    BY RowTyped DEF Code
  <2> QED BY <2>1, <2>2, <2>3
<1>2. CASE CountAttempt(s)
  <2> DEFINE q == request[s]
             r == IF q.attempts + 1 >= MaxAttempts
                  THEN [step |-> "check.close", check |-> q.check] ELSE Idle
  <2>1. q.check \in Checking
    BY <1>2, RequestFields DEF CountAttempt, At, TypeOK
  <2>2. r \in Request
    BY <2>1, IdleTyped DEF Request
  <2>3. Continue(s, r) /\ code' = [code EXCEPT ![q.check.id].attempts = @ + 1]
    BY <1>2 DEF CountAttempt
  <2> HIDE DEF r
  <2>4. request' \in [Slots -> Request]
    BY <2>2, <2>3, HandlerTyped
  <2>5. Table'
    BY <2>3, <1>1, RowWritten
  <2> QED BY <1>2, <2>4, <2>5 DEF CountAttempt, history, TypeOK, Table
<1>3. CASE CloseCode(s)
  <2>1. request' \in [Slots -> Request]
    BY <1>3, IdleTyped, HandlerTyped DEF CloseCode, Finish
  <2>2. PICK status \in CodeStatus :
           code' = [code EXCEPT ![request[s].check.id].status = status]
    BY <1>3 DEF CloseCode, CodeStatus
  <2>3. Table'
    BY <2>2, <1>1, RowWritten
  <2> QED BY <1>3, <2>1, <2>3 DEF CloseCode, history, TypeOK, Table
<1>4. CASE AcceptCode(s)
  <2> DEFINE r == [step |-> "check.apply", check |-> request[s].check]
  <2>1. request[s].check \in Checking /\ request[s].check.id \in Ids
    BY <1>4, RequestFields DEF AcceptCode, At, TypeOK, Checking
  <2>2. r \in Request
    BY <2>1 DEF Request
  <2>3. Continue(s, r)
    BY <1>4 DEF AcceptCode
  <2> HIDE DEF r
  <2>4. request' \in [Slots -> Request]
    BY <2>2, <2>3, HandlerTyped
  <2>5. code' = [code EXCEPT ![request[s].check.id].status = "VERIFIED"]
    BY <1>4 DEF AcceptCode
  <2>6. Table'
    BY <2>5, <1>1, RowWritten DEF CodeStatus
  <2>7. uses' \in [Ids -> Nat]
    BY <1>4, <2>1 DEF AcceptCode, TypeOK
  <2> QED BY <1>4, <2>4, <2>6, <2>7 DEF AcceptCode, TypeOK, Table
<1> QED BY <1>2, <1>3, <1>4

\* What a code was for is done, or a process dies.
LEMMA ApplyTyped ==
    ASSUME TypeOK, NEW s \in Slots, ApplyCode(s) \/ GrantBonus(s) \/ Crash(s)
    PROVE  TypeOK'
<1>1. CASE ApplyCode(s)
  <2>1. /\ request[s].check.version \in Nat
        /\ Channel(request[s].check.use) \in Channels
    BY <1>1, RequestFields DEF ApplyCode, At, TypeOK, Checking, Channel, Channels
  <2>2. version' \in Nat /\ verified' \subseteq Channels
    BY <1>1, <2>1 DEF ApplyCode, TypeOK
  <2>3. [step |-> "bonus", channel |-> Channel(request[s].check.use)] \in Request
    BY <2>1 DEF Request
  <2>4. request' \in [Slots -> Request]
    BY <1>1, <2>3, IdleTyped, HandlerTyped DEF ApplyCode, Finish
  <2> QED BY <1>1, <2>2, <2>4 DEF ApplyCode, history, TypeOK
<1>2. CASE GrantBonus(s)
  <2>1. request' \in [Slots -> Request]
    BY <1>2, IdleTyped, HandlerTyped DEF GrantBonus, Finish
  <2>2. bonus' \subseteq Channels
    BY <1>2, RequestFields DEF GrantBonus, At, TypeOK
  <2> QED BY <1>2, <2>1, <2>2 DEF GrantBonus, history, TypeOK
<1>3. CASE Crash(s)
  <2>1. request' \in [Slots -> Request]
    BY <1>3, IdleTyped, HandlerTyped DEF Crash, Finish
  <2> QED BY <1>3, <2>1 DEF Crash, TypeOK
<1> QED BY <1>1, <1>2, <1>3

LEMMA AgeTyped == ASSUME TypeOK, NEW i \in Ids, Age(i) PROVE TypeOK'
<1>1. ASSUME NEW row \in Code PROVE [row EXCEPT !.old = TRUE] \in Code
  BY DEF Code
<1>2. Table'
  BY <1>1, RowTyped, RowWritten DEF Age
<1> QED BY <1>2 DEF Age, history, TypeOK, Table

LEMMA NextTyped == TypeOK /\ [Next]_vars => TypeOK'
<1> SUFFICES ASSUME TypeOK, [Next]_vars PROVE TypeOK'
  OBVIOUS
<1>1. ASSUME NEW s \in Slots, Begin(s) PROVE TypeOK'
  BY <1>1, BeginTyped
<1>2. ASSUME NEW s \in Slots, Step(s) PROVE TypeOK'
  BY <1>2, IssueTyped, FindTyped, WriteTyped, ApplyTyped DEF Step
<1>3. ASSUME NEW s \in Slots, Crash(s) PROVE TypeOK'
  BY <1>3, ApplyTyped
<1>4. ASSUME NEW i \in Ids, Age(i) PROVE TypeOK'
  BY <1>4, AgeTyped
<1>5. CASE UNCHANGED vars
  BY <1>5 DEF vars, TypeOK
<1> QED BY <1>1, <1>2, <1>3, <1>4, <1>5 DEF Next

\* In every behaviour of the verifications the codes, the channels, the version
\* of the tokens and the handlers in flight have their types.
THEOREM TypeCorrect == Spec => []TypeOK
<1> QED BY InitTyped, NextTyped, PTL DEF Spec

-----------------------------------------------------------------------------
(* How often a code is guessed and accepted                                  *)

\* The handlers between the row that they read and the write that it calls for
Counting(i) == {s \in Slots : At(s, "check.count") /\ request[s].check.id = i}
Accepting(i) == {s \in Slots : At(s, "check.accept") /\ request[s].check.id = i}

CheckSteps == {"check.count", "check.close", "check.accept", "check.apply"}

\* The handlers that reset the password and have not written it yet
Applying(s) == At(s, "check.apply") /\ request[s].check.use \in ResetUses

\* While no two handlers have overlapped, at most one is in flight.
Alone == ~overlapped => \A s, t \in Slots : ~At(s, "idle") /\ ~At(t, "idle") => s = t

\* What a handler has read stays what it is about.
Refers ==
    \A s \in Slots : request[s].step \in CheckSteps =>
        /\ request[s].check.id \in DOMAIN code
        /\ request[s].check.use = code[request[s].check.id].use

\* The guesses that are counted already, and those that will be
Bounded ==
    \A i \in DOMAIN code :
        code[i].attempts + Cardinality(Counting(i))
            <= MaxAttempts + (IF overlapped THEN Cardinality(Slots) - 1 ELSE 0)

\* The uses that are counted already, and those that will be
Spent ==
    \A i \in Ids : uses[i] + Cardinality(Accepting(i))
                       <= (IF overlapped THEN Cardinality(Slots) ELSE 1)

\* A code that can be typed has not been accepted.
Fresh ==
    \A i \in DOMAIN code : code[i].status = "PENDING" => uses[i] = 0

\* A code that was not sent has not been accepted either.
Unsent == \A i \in Ids \ DOMAIN code : uses[i] = 0

\* At most one code of a group waits, and a new one replaces it.
OnePending ==
    ~overlapped =>
        \A use \in UseNames : \A i, j \in Pending(Group(use)) : i = j

Replaces ==
    ~overlapped =>
        \A s \in Slots : At(s, "issue.create") =>
            Pending(Group(request[s].use)) \subseteq request[s].expire

\* The version that a handler has read is the version of the tokens.
Current ==
    ~overlapped =>
        \A s \in Slots :
            /\ At(s, "check.find") => request[s].version = version
            /\ request[s].step \in CheckSteps => request[s].check.version = version

\* The versions of the tokens, and the one that is about to be written, count
\* the codes that have reset the password.
Counted ==
    ~overlapped /\ ~died =>
        Cardinality(UsedResets) =
            version + (IF \E s \in Slots : Applying(s) THEN 1 ELSE 0)

Inv ==
    /\ TypeOK
    /\ Alone /\ Refers /\ Bounded /\ Spent /\ Fresh /\ Unsent
    /\ OnePending /\ Replaces /\ Current /\ Counted

\* Sets of handlers in flight are finite.
LEMMA SlotSets ==
    /\ IsFiniteSet(Slots) /\ Cardinality(Slots) \in Nat
    /\ \A C \in SUBSET Slots : /\ IsFiniteSet(C)
                               /\ Cardinality(C) \in Nat
                               /\ Cardinality(C) <= Cardinality(Slots)
                               /\ \A D \in SUBSET C : Cardinality(D) <= Cardinality(C)
    /\ \A s \in Slots : /\ Cardinality({s}) = 1
                        /\ Cardinality(Slots) >= 1
<1>1. IsFiniteSet(Slots) /\ Cardinality(Slots) \in Nat
  BY SlotsAssumption, FS_CardinalityType
<1>2. ASSUME NEW C \in SUBSET Slots
      PROVE  /\ IsFiniteSet(C)
             /\ Cardinality(C) \in Nat
             /\ Cardinality(C) <= Cardinality(Slots)
             /\ \A D \in SUBSET C : Cardinality(D) <= Cardinality(C)
  <2>1. IsFiniteSet(C) /\ Cardinality(C) <= Cardinality(Slots)
    BY <1>1, FS_Subset
  <2>2. Cardinality(C) \in Nat
    BY <2>1, FS_CardinalityType
  <2>3. \A D \in SUBSET C : Cardinality(D) <= Cardinality(C)
    BY <2>1, FS_Subset
  <2> QED BY <2>1, <2>2, <2>3
<1>3. ASSUME NEW s \in Slots PROVE Cardinality({s}) = 1 /\ Cardinality(Slots) >= 1
  <2>1. Cardinality({s}) = 1
    BY FS_Singleton
  <2>2. {s} \in SUBSET Slots
    OBVIOUS
  <2>3. Cardinality({s}) <= Cardinality(Slots)
    BY <2>2, <1>2
  <2> QED BY <1>1, <2>1, <2>3
<1> QED BY <1>1, <1>2, <1>3

LEMMA CountingSets ==
    /\ \A i : Counting(i) \in SUBSET Slots /\ Accepting(i) \in SUBSET Slots
    /\ \A i : Counting(i)' \in SUBSET Slots /\ Accepting(i)' \in SUBSET Slots
BY DEF Counting, Accepting

\* What a handler that continues with q relies on in the rows
Founded(q) ==
    /\ q.step \in CheckSteps => /\ q.check.id \in DOMAIN code
                                /\ q.check.use = code[q.check.id].use
    /\ q.step = "check.count" => code[q.check.id].attempts < MaxAttempts
    /\ q.step = "check.accept" => code[q.check.id].status = "PENDING"

\* Rows stay, and are never made pending again.
Stays ==
    /\ DOMAIN code \subseteq DOMAIN code'
    /\ \A i \in DOMAIN code :
          /\ code'[i].use = code[i].use
          /\ code'[i].status = "PENDING" => code[i].status = "PENDING"

\* ... nor are they tried, and new ones have not been.
Kept ==
    /\ Stays
    /\ \A i \in DOMAIN code : code'[i].attempts = code[i].attempts
    /\ \A i \in DOMAIN code' \ DOMAIN code : code'[i].attempts = 0

\* The other handlers, as far as a step of s is concerned
Others(s) ==
    /\ overlapped => overlapped'
    /\ ~overlapped' => \A t \in Slots : t # s => At(t, "idle")

\* The guesses of a code stay bounded when a handler continues.
LEMMA BoundedKept ==
    ASSUME Inv, TypeOK', NEW s \in Slots, NEW q, Continue(s, q),
           Founded(q), Kept, Others(s)
    PROVE  Bounded'
<1> DEFINE N == Cardinality(Slots)
<1> SUFFICES ASSUME NEW i \in DOMAIN code'
             PROVE  code'[i].attempts + Cardinality(Counting(i)')
                        <= MaxAttempts + (IF overlapped' THEN N - 1 ELSE 0)
  BY DEF Bounded
<1>0. /\ N \in Nat /\ N >= 1 /\ MaxAttempts \in Nat
      /\ Cardinality(Counting(i)) \in Nat /\ Cardinality(Counting(i)') \in Nat
      /\ Counting(i)' \in SUBSET Slots
  BY SlotSets, CountingSets, BoundsAssumption
<1>1. \A x \in Slots : request'[x] = IF x = s THEN q ELSE request[x]
  BY DEF Continue, Inv, TypeOK
<1>2. i \in DOMAIN code => code'[i].attempts = code[i].attempts /\ code[i].attempts \in Nat
  BY RowTyped DEF Kept, Inv, Code
<1>3. CASE s \in Counting(i)'
  <2>1. i \in DOMAIN code /\ code[i].attempts < MaxAttempts
    BY <1>1, <1>3 DEF Counting, At, Founded, CheckSteps
  <2>2. Cardinality(Counting(i)') <= N
    BY <1>0, SlotSets
  <2>3. ~overlapped' => Cardinality(Counting(i)') <= 1
    <3> SUFFICES ASSUME ~overlapped' PROVE Cardinality(Counting(i)') <= 1
      OBVIOUS
    <3>1. Counting(i)' \in SUBSET {s}
      BY <1>1 DEF Others, Counting, At
    <3> QED BY <3>1, SlotSets
  <2> QED BY <1>0, <1>2, <2>1, <2>2, <2>3
<1>4. CASE s \notin Counting(i)'
  <2>1. Counting(i)' \in SUBSET Counting(i)
    BY <1>1, <1>4 DEF Counting, At
  <2>2. Cardinality(Counting(i)') <= Cardinality(Counting(i))
    BY <2>1, SlotSets, CountingSets
  <2>3. CASE i \in DOMAIN code
    <3>1. code[i].attempts + Cardinality(Counting(i))
              <= MaxAttempts + (IF overlapped THEN N - 1 ELSE 0)
      BY <2>3 DEF Inv, Bounded
    <3>2. overlapped => overlapped'
      BY DEF Others
    <3> QED BY <1>0, <1>2, <2>2, <2>3, <3>1, <3>2
  <2>4. CASE i \notin DOMAIN code
    <3>1. Counting(i) = {}
      BY <2>4 DEF Inv, Refers, Counting, At, CheckSteps
    <3>2. Cardinality(Counting(i)') = 0 /\ code'[i].attempts = 0
      BY <2>1, <2>4, <3>1, FS_EmptySet DEF Kept
    <3> QED BY <1>0, <3>2
  <2> QED BY <2>3, <2>4
<1> QED BY <1>3, <1>4

\* So do the uses of a code.
LEMMA SpentKept ==
    ASSUME Inv, TypeOK', NEW s \in Slots, NEW q, Continue(s, q),
           Founded(q), Others(s), uses' = uses
    PROVE  Spent'
<1> DEFINE N == Cardinality(Slots)
<1> SUFFICES ASSUME NEW i \in Ids
             PROVE  uses[i] + Cardinality(Accepting(i)')
                        <= (IF overlapped' THEN N ELSE 1)
  BY DEF Spent
<1>0. /\ N \in Nat /\ N >= 1 /\ uses[i] \in Nat
      /\ Cardinality(Accepting(i)) \in Nat /\ Cardinality(Accepting(i)') \in Nat
      /\ Accepting(i)' \in SUBSET Slots
  BY SlotSets, CountingSets DEF Inv, TypeOK
<1>1. \A x \in Slots : request'[x] = IF x = s THEN q ELSE request[x]
  BY DEF Continue, Inv, TypeOK
<1>3. CASE s \in Accepting(i)'
  <2>1. i \in DOMAIN code /\ code[i].status = "PENDING"
    BY <1>1, <1>3 DEF Accepting, At, Founded, CheckSteps
  <2>2. uses[i] = 0
    BY <2>1 DEF Inv, Fresh
  <2>3. Cardinality(Accepting(i)') <= N
    BY <1>0, SlotSets
  <2>4. ~overlapped' => Cardinality(Accepting(i)') <= 1
    <3> SUFFICES ASSUME ~overlapped' PROVE Cardinality(Accepting(i)') <= 1
      OBVIOUS
    <3>1. Accepting(i)' \in SUBSET {s}
      BY <1>1 DEF Others, Accepting, At
    <3> QED BY <3>1, SlotSets
  <2> QED BY <1>0, <2>2, <2>3, <2>4
<1>4. CASE s \notin Accepting(i)'
  <2>1. Accepting(i)' \in SUBSET Accepting(i)
    BY <1>1, <1>4 DEF Accepting, At
  <2>2. Cardinality(Accepting(i)') <= Cardinality(Accepting(i))
    BY <2>1, SlotSets, CountingSets
  <2>3. uses[i] + Cardinality(Accepting(i)) <= (IF overlapped THEN N ELSE 1)
    BY DEF Inv, Spent
  <2>4. overlapped => overlapped'
    BY DEF Others
  <2> QED BY <1>0, <2>2, <2>3, <2>4
<1> QED BY <1>3, <1>4

\* No handler that resets the password starts or ends.
LEMMA CountedKept ==
    ASSUME Inv, TypeOK', NEW s \in Slots, NEW q, Continue(s, q), Stays,
           UNCHANGED <<uses, version>>, overlapped => overlapped', died => died',
           ~overlapped' /\ ~died' =>
               /\ ~Applying(s)
               /\ ~(q.step = "check.apply" /\ q.check.use \in ResetUses)
    PROVE  Counted'
<1> SUFFICES ASSUME ~overlapped', ~died'
             PROVE  Cardinality(UsedResets') =
                        version + (IF \E x \in Slots : Applying(x)' THEN 1 ELSE 0)
  BY DEF Counted
<1>1. \A x \in Slots : request'[x] = IF x = s THEN q ELSE request[x]
  BY DEF Continue, Inv, TypeOK
<1>2. \A x \in Slots : Applying(x)' <=> Applying(x)
  BY <1>1 DEF Applying, At
<1>3. UsedResets' = UsedResets
  <2>1. \A i \in DOMAIN code' \ DOMAIN code : uses[i] = 0
    <3>1. DOMAIN code' \subseteq Ids
      BY BoundsAssumption DEF TypeOK, Ids
    <3> QED BY <3>1 DEF Inv, Unsent
  <2>2. \A i \in DOMAIN code' \ DOMAIN code : ~(uses[i] > 0)
    BY <2>1
  <2> QED BY <2>2 DEF UsedResets, Stays
<1> QED BY <1>2, <1>3 DEF Inv, Counted

\* A handler continues with q: what it and the codes need for the invariant
LEMMA HandlerStep ==
    ASSUME Inv, TypeOK', NEW s \in Slots, NEW q, Continue(s, q), Founded(q), Kept,
           Others(s), UNCHANGED <<uses, version>>, died => died',
           ~overlapped' /\ ~died' =>
               /\ ~Applying(s)
               /\ ~(q.step = "check.apply" /\ q.check.use \in ResetUses),
           ~overlapped' => /\ q.step = "check.find" => q.version = version
                           /\ q.step \in CheckSteps => q.check.version = version
                           /\ q.step = "issue.create" =>
                                 Pending(Group(q.use)) \subseteq q.expire,
           ~overlapped' => \A use \in UseNames : \A i, j \in Pending(Group(use))' : i = j,
           Replaces'
    PROVE  Inv'
<1>1. \A x \in Slots : request'[x] = IF x = s THEN q ELSE request[x]
  BY DEF Continue, Inv, TypeOK
<1>2. Alone'
  BY <1>1 DEF Alone, Others, At
<1>3. Refers'
  BY <1>1 DEF Inv, Refers, Founded, Kept, Stays
<1>4. Bounded' /\ Spent' /\ Counted'
  BY BoundedKept, SpentKept, CountedKept DEF Others, Kept
<1>5. Fresh'
  <2>1. \A i \in DOMAIN code' : i \in DOMAIN code \/ i \in Ids \ DOMAIN code
    BY BoundsAssumption DEF TypeOK, Ids
  <2> QED BY <2>1 DEF Inv, Fresh, Unsent, Kept, Stays
<1>6. Unsent'
  BY DEF Inv, Unsent, Kept, Stays
<1>7. OnePending'
  BY DEF OnePending
<1>8. Current'
  BY <1>1 DEF Current, Others, At, CheckSteps
<1> QED BY <1>2, <1>3, <1>4, <1>5, <1>6, <1>7, <1>8 DEF Inv
\* A handler that is in flight alone, while no two have overlapped
LEMMA InFlight ==
    ASSUME Inv, NEW s \in Slots, ~At(s, "idle"), overlapped' = overlapped
    PROVE  Others(s)
BY DEF Inv, Alone, Others

\* A handler continues, and neither the codes nor the tokens change.
LEMMA QuietStep ==
    ASSUME Inv, TypeOK', NEW s \in Slots, NEW q, Continue(s, q), Founded(q),
           Others(s), UNCHANGED <<code, uses, version>>, died => died',
           ~died' => ~Applying(s), q.step # "check.apply",
           ~overlapped' => /\ q.step = "check.find" => q.version = version
                           /\ q.step \in CheckSteps => q.check.version = version
                           /\ q.step = "issue.create" =>
                                 Pending(Group(q.use)) \subseteq q.expire
    PROVE  Inv'
<1>1. \A x \in Slots : request'[x] = IF x = s THEN q ELSE request[x]
  BY DEF Continue, Inv, TypeOK
<1>2. Kept
  BY DEF Kept, Stays
<1>3. \A group : Pending(group)' = Pending(group)
  BY DEF Pending
<1>4. ~overlapped' => \A use \in UseNames : \A i, j \in Pending(Group(use))' : i = j
  BY <1>3 DEF Inv, OnePending, Others
<1>5. Replaces'
  BY <1>1, <1>3 DEF Replaces, Others, At
<1> QED BY <1>2, <1>4, <1>5, HandlerStep

LEMMA InitInv == Init => Inv
<1> SUFFICES ASSUME Init PROVE Inv
  OBVIOUS
<1>1. TypeOK
  BY InitTyped
<1>2. \A s \in Slots : request[s] = Idle
  BY DEF Init
<1>3. DOMAIN code = {} /\ \A i \in Ids : uses[i] = 0
  BY DEF Init
<1>4. Alone /\ Refers /\ Replaces /\ Current
  BY <1>2 DEF Alone, Refers, Replaces, Current, At, Idle, CheckSteps
<1>5. Bounded /\ Fresh /\ Unsent
  BY <1>3 DEF Bounded, Fresh, Unsent
<1>6. OnePending
  BY <1>3 DEF OnePending, Pending
<1>7. Spent
  <2>1. \A i : Accepting(i) = {}
    BY <1>2 DEF Accepting, At, Idle
  <2>2. Cardinality({}) = 0 /\ Cardinality(Slots) \in Nat
    BY FS_EmptySet, SlotSets
  <2>3. ~overlapped
    BY DEF Init
  <2> QED BY <1>3, <2>1, <2>2, <2>3 DEF Spent
<1>8. Counted
  <2>1. UsedResets = {} /\ \A s \in Slots : ~Applying(s)
    BY <1>2, <1>3 DEF UsedResets, Applying, At, Idle
  <2>2. Cardinality({}) = 0 /\ version = 0
    BY FS_EmptySet DEF Init
  <2> QED BY <2>1, <2>2 DEF Counted
<1> QED BY <1>1, <1>4, <1>5, <1>6, <1>7, <1>8 DEF Inv

\* A handler starts.
LEMMA BeginInv == ASSUME Inv, TypeOK', NEW s \in Slots, Begin(s) PROVE Inv'
<1>1. PICK q : /\ Start(s, q)
               /\ UNCHANGED <<code, version>>
               /\ q.step \in {"issue.expire", "check.find"}
               /\ q.step = "check.find" => q.version = version
  <2> DEFINE Starts(q) == /\ Start(s, q)
                          /\ UNCHANGED <<code, version>>
                          /\ q.step \in {"issue.expire", "check.find"}
                          /\ q.step = "check.find" => q.version = version
  <2>1. ASSUME NEW use, BeginIssue(s, use) PROVE \E q : Starts(q)
    <3>1. Starts([step |-> "issue.expire", use |-> use])
      BY <2>1 DEF BeginIssue
    <3> QED BY <3>1
  <2>2. ASSUME NEW use, BeginCheck(s, use) PROVE \E q : Starts(q)
    <3>1. PICK typed \in DOMAIN code \cup {0} :
             Start(s, [step |-> "check.find", use |-> use, version |-> version,
                       typed |-> typed])
      BY <2>2 DEF BeginCheck
    <3>2. Starts([step |-> "check.find", use |-> use, version |-> version,
                  typed |-> typed])
      BY <2>2, <3>1 DEF BeginCheck
    <3> QED BY <3>2
  <2> HIDE DEF Starts
  <2>3. \E q : Starts(q)
    BY <2>1, <2>2 DEF Begin, PasswordRoutes, OtpRoutes, EmailRoutes,
       RequestForgotPassword, ResetPassword, SendPhoneOtp, VerifyPhoneOtp,
       SendEmailVerification, VerifyEmailVerification
  <2> QED BY <2>3 DEF Starts
<1>2. Continue(s, q) /\ UNCHANGED <<uses, died>> /\ At(s, "idle")
  BY <1>1 DEF Start
<1>3. overlapped' = (overlapped \/ \E t \in Slots \ {s} : ~At(t, "idle"))
  BY <1>1 DEF Start
<1>4. Others(s)
  BY <1>3 DEF Others
<1>5. Founded(q)
  BY <1>1 DEF Founded, CheckSteps
<1>6. ~Applying(s)
  BY <1>2 DEF Applying, At
<1> QED BY <1>1, <1>2, <1>4, <1>5, <1>6, QuietStep DEF CheckSteps

\* The codes that a new one replaces are read: with no other handler in flight
\* none is locked.
LEMMA ExpireInv == ASSUME Inv, TypeOK', NEW s \in Slots, ExpirePending(s) PROVE Inv'
<1> DEFINE expire == Pending(Group(request[s].use)) \ Locked
           q == [step |-> "issue.create", use |-> request[s].use, expire |-> expire]
<1>1. /\ Continue(s, q) /\ At(s, "issue.expire")
      /\ UNCHANGED <<code, version, uses, overlapped, died>>
  BY DEF ExpirePending, history
<1>2. Others(s)
  BY <1>1, InFlight DEF At
<1>3. ~overlapped' => Locked = {}
  BY <1>1, <1>2 DEF Others, Locked, At
<1>4. ~overlapped' => Pending(Group(q.use)) \subseteq q.expire
  BY <1>3
<1>5. q.step = "issue.create" /\ ~Applying(s)
  BY <1>1 DEF Applying, At
<1> HIDE DEF q
<1>6. Founded(q)
  BY <1>5 DEF Founded, CheckSteps
<1> QED BY <1>1, <1>2, <1>4, <1>5, <1>6, QuietStep DEF CheckSteps

\* A handler ends.
LEMMA FinishInv ==
    ASSUME Inv, TypeOK', NEW s \in Slots, Finish(s), Others(s),
           UNCHANGED <<code, uses, version>>, died => died', ~died' => ~Applying(s)
    PROVE  Inv'
<1>1. Continue(s, Idle) /\ Idle.step = "idle"
  BY DEF Finish, Idle
<1>2. Founded(Idle)
  BY <1>1 DEF Founded, CheckSteps
<1> QED BY <1>1, <1>2, QuietStep DEF CheckSteps

\* A handler goes on with the row that it has read.
LEMMA CheckInv ==
    ASSUME Inv, TypeOK', NEW s \in Slots, At(s, "check.find"),
           NEW i \in Pending({request[s].use}), NEW q, Continue(s, q),
           q.step \in {"check.close", "check.count", "check.accept"},
           q.check = [use |-> request[s].use, version |-> request[s].version, id |-> i],
           q.step = "check.count" => code[i].attempts < MaxAttempts,
           UNCHANGED <<code, version, uses, overlapped, died>>
    PROVE  Inv'
<1>1. Others(s) /\ ~Applying(s)
  BY InFlight DEF At, Applying
<1>2. i \in DOMAIN code /\ code[i].use = request[s].use /\ code[i].status = "PENDING"
  BY DEF Pending
<1>3. Founded(q)
  BY <1>2 DEF Founded, CheckSteps
<1>4. ~overlapped => q.check.version = version
  BY DEF Inv, Current
<1> QED BY <1>1, <1>3, <1>4, QuietStep

\* What was typed is compared with the row of the code.
LEMMA FindInv ==
    ASSUME Inv, TypeOK', NEW s \in Slots, FindPhoneCode(s) \/ FindMailCode(s)
    PROVE  Inv'
<1>1. /\ At(s, "check.find")
      /\ UNCHANGED <<code, version, uses, overlapped, died>>
  BY DEF FindPhoneCode, FindMailCode, history
<1>2. CASE Finish(s)
  <2>1. Others(s) /\ ~Applying(s)
    BY <1>1, InFlight DEF At, Applying
  <2> QED BY <1>1, <1>2, <2>1, FinishInv
<1>3. ASSUME NEW i \in Pending({request[s].use}), NEW step,
             Continue(s, CheckStep(s, step, i)),
             step \in {"check.close", "check.accept"}
      PROVE  Inv'
  <2> DEFINE q == CheckStep(s, step, i)
  <2>1. /\ q.step = step
        /\ q.check = [use |-> request[s].use, version |-> request[s].version, id |-> i]
    BY DEF CheckStep
  <2> HIDE DEF q
  <2> QED BY <1>1, <1>3, <2>1, CheckInv DEF q
<1>4. ASSUME NEW i \in Pending({request[s].use}), code[i].attempts < MaxAttempts,
             Continue(s, Compared(s, i))
      PROVE  Inv'
  <2>1. CASE request[s].typed = i
    <3>1. Continue(s, CheckStep(s, "check.accept", i))
      BY <1>4, <2>1 DEF Compared
    <3> QED BY <1>3, <3>1
  <2>2. CASE request[s].typed # i
    <3> DEFINE q == [step |-> "check.count",
                     check |-> CheckStep(s, "check.count", i).check,
                     attempts |-> code[i].attempts]
    <3>1. /\ q.step = "check.count"
          /\ q.check = [use |-> request[s].use, version |-> request[s].version, id |-> i]
      BY DEF CheckStep
    <3>2. Continue(s, q)
      BY <1>4, <2>2 DEF Compared
    <3> HIDE DEF q
    <3> QED BY <1>1, <1>4, <3>1, <3>2, CheckInv
  <2> QED BY <2>1, <2>2
<1>5. CASE FindPhoneCode(s)
  <2>1. ASSUME NEW i \in Pending({request[s].use}),
               Continue(s, IF code[i].old \/ code[i].attempts >= MaxAttempts
                           THEN CheckStep(s, "check.close", i)
                           ELSE Compared(s, i))
        PROVE  Inv'
    <3>1. code[i].attempts \in Nat /\ MaxAttempts \in Nat
      BY RowTyped, BoundsAssumption DEF Inv, Pending, Code
    <3> QED BY <2>1, <3>1, <1>3, <1>4
  <2> QED BY <1>2, <1>5, <2>1 DEF FindPhoneCode
<1>6. CASE FindMailCode(s)
  <2> DEFINE i == request[s].typed
  <2>1. Continue(s, IF i \notin Pending({request[s].use}) THEN Idle
                    ELSE CheckStep(s, IF code[i].old THEN "check.close"
                                      ELSE "check.accept", i))
    BY <1>6 DEF FindMailCode
  <2>2. CASE i \notin Pending({request[s].use})
    BY <1>2, <2>1, <2>2 DEF Finish
  <2>3. CASE i \in Pending({request[s].use})
    BY <1>3, <2>1, <2>3
  <2> QED BY <2>2, <2>3
<1> QED BY <1>5, <1>6
\* What a write to one column of a row leaves as it was
LEMMA StatusWritten ==
    ASSUME TypeOK, NEW i \in DOMAIN code, NEW status,
           code' = [code EXCEPT ![i].status = status]
    PROVE  /\ DOMAIN code' = DOMAIN code
           /\ \A j \in DOMAIN code :
                 /\ code'[j].use = code[j].use
                 /\ code'[j].attempts = code[j].attempts
                 /\ code'[j].status = IF j = i THEN status ELSE code[j].status
BY RowTyped DEF Code

LEMMA AttemptWritten ==
    ASSUME TypeOK, NEW i \in DOMAIN code,
           code' = [code EXCEPT ![i].attempts = @ + 1]
    PROVE  /\ DOMAIN code' = DOMAIN code
           /\ \A j \in DOMAIN code :
                 /\ code'[j].use = code[j].use
                 /\ code'[j].attempts = IF j = i THEN code[i].attempts + 1
                                        ELSE code[j].attempts
                 /\ code'[j].status = code[j].status
BY RowTyped DEF Code

\* A handler that checks a code writes a row, or what the code was for.
LEMMA CheckStepKept ==
    ASSUME Inv, TypeOK', NEW s \in Slots, NEW q, Continue(s, q), Others(s), Stays,
           DOMAIN code' = DOMAIN code,
           q.step \in CheckSteps => /\ request[s].step \in CheckSteps
                                    /\ q.check = request[s].check
                                    /\ version' = version,
           q.step \notin {"check.find", "issue.create"}
    PROVE  Alone' /\ Refers' /\ OnePending' /\ Replaces' /\ Current'
<1>1. \A x \in Slots : request'[x] = IF x = s THEN q ELSE request[x]
  BY DEF Continue, Inv, TypeOK
<1>2. Alone'
  BY <1>1 DEF Alone, Others, At
<1>3. Refers'
  BY <1>1 DEF Inv, Refers, Stays
<1>4. \A group : Pending(group)' \subseteq Pending(group)
  BY DEF Pending, Stays
<1>5. OnePending'
  BY <1>4 DEF Inv, OnePending, Others
<1>6. Replaces'
  BY <1>1 DEF Replaces, Others, At
<1>7. Current'
  BY <1>1 DEF Inv, Current, Others, At, CheckSteps
<1> QED BY <1>2, <1>3, <1>5, <1>6, <1>7

\* The time of a code is over: no handler reads it without the row.
LEMMA AgeInv == ASSUME Inv, TypeOK', NEW i \in Ids, Age(i) PROVE Inv'
<1>1. /\ DOMAIN code' = DOMAIN code
      /\ \A j \in DOMAIN code : /\ code'[j].use = code[j].use
                                /\ code'[j].attempts = code[j].attempts
                                /\ code'[j].status = code[j].status
  BY RowTyped DEF Inv, Age, Code
<1>2. UNCHANGED <<request, version, uses, overlapped, died>>
  BY DEF Age, history
<1>3. \A group : Pending(group)' = Pending(group)
  BY <1>1 DEF Pending
<1>4. /\ \A j : Counting(j)' = Counting(j) /\ Accepting(j)' = Accepting(j)
      /\ \A x \in Slots : Applying(x)' <=> Applying(x)
      /\ UsedResets' = UsedResets
  BY <1>1, <1>2 DEF Counting, Accepting, Applying, UsedResets, At
<1>5. Alone' /\ Current'
  BY <1>2 DEF Inv, Alone, Current, At
<1>6. Refers' /\ Fresh' /\ Unsent'
  BY <1>1, <1>2 DEF Inv, Refers, Fresh, Unsent
<1>7. Bounded' /\ Spent' /\ Counted'
  BY <1>1, <1>2, <1>4 DEF Inv, Bounded, Spent, Counted
<1>8. OnePending' /\ Replaces'
  BY <1>2, <1>3 DEF Inv, OnePending, Replaces, At
<1> QED BY <1>5, <1>6, <1>7, <1>8 DEF Inv

\* Two purposes have the same codes to replace, or none in common.
LEMMA Groups ==
    \A u, v \in UseNames : Group(u) = Group(v) \/ Group(u) \cap Group(v) = {}
BY DEF UseNames, PhoneUses, Group

\* A new code is the only one of its group that waits: the ones before were
\* read and are expired in the same write.
LEMMA CreateInv == ASSUME Inv, TypeOK', NEW s \in Slots, CreateCode(s) PROVE Inv'
<1> DEFINE use == request[s].use
           expire == request[s].expire
<1>1. PICK i \in Ids :
         /\ DOMAIN code = 1..(i - 1)
         /\ code' = [j \in 1..i |->
               IF j = i THEN NewCode(use)
               ELSE IF j \in expire THEN [code[j] EXCEPT !.status = "EXPIRED"]
               ELSE code[j]]
  BY DEF CreateCode
<1>2. /\ At(s, "issue.create") /\ Continue(s, Idle)
      /\ UNCHANGED <<version, uses, overlapped, died>>
  BY DEF CreateCode, Finish, history
<1>3. Others(s) /\ ~Applying(s)
  BY <1>2, InFlight DEF At, Applying
<1>4. use \in UseNames
  BY <1>2, RequestFields DEF Inv, TypeOK, At
<1> HIDE DEF use, expire
<1>5. /\ DOMAIN code' = 1..i /\ i \notin DOMAIN code
      /\ DOMAIN code' = DOMAIN code \cup {i}
      /\ code'[i].use = use /\ code'[i].attempts = 0
  BY <1>1 DEF Ids, NewCode
<1>6. \A j \in DOMAIN code :
         /\ code'[j].use = code[j].use
         /\ code'[j].attempts = code[j].attempts
         /\ code'[j].status = IF j \in expire THEN "EXPIRED" ELSE code[j].status
  <2> SUFFICES ASSUME NEW j \in DOMAIN code
               PROVE  /\ code'[j].use = code[j].use
                      /\ code'[j].attempts = code[j].attempts
                      /\ code'[j].status = IF j \in expire THEN "EXPIRED"
                                           ELSE code[j].status
    OBVIOUS
  <2>1. code[j] \in Code
    BY RowTyped DEF Inv
  <2>2. j \in 1..i /\ j # i
    BY <1>1, <1>5
  <2>3. code'[j] = IF j \in expire THEN [code[j] EXCEPT !.status = "EXPIRED"]
                   ELSE code[j]
    BY <1>1, <2>2
  <2> QED BY <2>1, <2>3 DEF Code
<1>7. Kept
  BY <1>5, <1>6 DEF Kept, Stays
<1>8. ~overlapped' => \A u \in UseNames : \A j, k \in Pending(Group(u))' : j = k
  <2> SUFFICES ASSUME ~overlapped, NEW u \in UseNames,
                      NEW j \in Pending(Group(u))', NEW k \in Pending(Group(u))'
               PROVE  j = k
    BY <1>2
  <2>1. Pending(Group(use)) \subseteq expire
    BY <1>2 DEF Inv, Replaces, use, expire
  <2>2. /\ j \in DOMAIN code' /\ k \in DOMAIN code'
        /\ code'[j].use \in Group(u) /\ code'[k].use \in Group(u)
        /\ code'[j].status = "PENDING" /\ code'[k].status = "PENDING"
    BY DEF Pending
  <2>3. \A x \in DOMAIN code :
           code'[x].status = "PENDING" =>
               x \notin expire /\ code[x].status = "PENDING"
    BY <1>6
  <2>4. \A x \in DOMAIN code :
           code'[x].status = "PENDING" /\ code'[x].use \in Group(u)
               => x \in Pending(Group(u)) /\ x \notin expire
    BY <1>6, <2>3 DEF Pending
  <2>5. CASE j \in DOMAIN code /\ k \in DOMAIN code
    BY <2>2, <2>4, <2>5 DEF Inv, OnePending
  <2>6. CASE j = i /\ k = i
    BY <2>6
  <2>7. CASE j = i \/ k = i
    <3>1. use \in Group(u)
      BY <1>5, <2>2, <2>7
    <3>2. use \in Group(use)
      BY <1>4 DEF Group, UseNames, PhoneUses
    <3>3. Group(use) = Group(u)
      BY <1>4, <3>1, <3>2, Groups
    <3> QED BY <1>5, <2>1, <2>2, <2>4, <3>3
  <2> QED BY <1>5, <2>2, <2>5, <2>7
<1>9. Replaces'
  <2>1. \A x \in Slots : request'[x] = IF x = s THEN Idle ELSE request[x]
    BY <1>2 DEF Continue, Inv, TypeOK
  <2> QED BY <1>3, <2>1 DEF Replaces, Others, At, Idle
<1>10. Idle.step = "idle" /\ Founded(Idle)
  BY DEF Idle, Founded, CheckSteps
<1> QED BY <1>2, <1>3, <1>7, <1>8, <1>9, <1>10, HandlerStep DEF CheckSteps

\* A row is closed by its id: it does not wait any more.
LEMMA CloseInv == ASSUME Inv, TypeOK', NEW s \in Slots, CloseCode(s) PROVE Inv'
<1> DEFINE id == request[s].check.id
<1>1. /\ At(s, "check.close") /\ Continue(s, Idle)
      /\ UNCHANGED <<version, uses, overlapped, died>>
  BY DEF CloseCode, Finish, history
<1>2. PICK status \in {"FAILED", "EXPIRED"} :
         code' = [code EXCEPT ![id].status = status]
  BY DEF CloseCode
<1>3. id \in DOMAIN code
  BY <1>1 DEF Inv, Refers, At, CheckSteps
<1>4. Kept /\ DOMAIN code' = DOMAIN code
  BY <1>2, <1>3, StatusWritten DEF Inv, Kept, Stays
<1>5. Others(s) /\ ~Applying(s)
  BY <1>1, InFlight DEF At, Applying
<1>6. Idle.step = "idle" /\ Founded(Idle)
  BY DEF Idle, Founded, CheckSteps
<1>7. Alone' /\ Refers' /\ OnePending' /\ Replaces' /\ Current'
  BY <1>1, <1>4, <1>5, <1>6, CheckStepKept DEF Kept, CheckSteps
<1> QED BY <1>1, <1>4, <1>5, <1>6, <1>7, HandlerStep DEF OnePending, CheckSteps
\* An attempt that was going to be counted is counted.
LEMMA CountInv == ASSUME Inv, TypeOK', NEW s \in Slots, CountAttempt(s) PROVE Inv'
<1> DEFINE id == request[s].check.id
           q == IF request[s].attempts + 1 >= MaxAttempts
                THEN [step |-> "check.close", check |-> request[s].check] ELSE Idle
           N == Cardinality(Slots)
<1>1. /\ At(s, "check.count") /\ Continue(s, q)
      /\ code' = [code EXCEPT ![id].attempts = @ + 1]
      /\ UNCHANGED <<version, uses, overlapped, died>>
  BY DEF CountAttempt, history
<1>2. id \in DOMAIN code
  BY <1>1 DEF Inv, Refers, At, CheckSteps
<1>3. /\ DOMAIN code' = DOMAIN code
      /\ \A j \in DOMAIN code :
            /\ code'[j].use = code[j].use
            /\ code'[j].attempts = IF j = id THEN code[id].attempts + 1
                                   ELSE code[j].attempts
            /\ code'[j].status = code[j].status
  BY <1>1, <1>2, AttemptWritten DEF Inv
<1>4. Others(s) /\ ~Applying(s) /\ Stays
  BY <1>1, <1>3, InFlight DEF At, Applying, Stays
<1>5. /\ q.step \in {"check.close", "idle"}
      /\ q.step = "check.close" => q.check = request[s].check
  BY DEF Idle
<1> HIDE DEF q, id
<1>6. Founded(q)
  BY <1>1, <1>2, <1>5 DEF Founded, Inv, Refers, At, CheckSteps, id
<1>7. Alone' /\ Refers' /\ OnePending' /\ Replaces' /\ Current'
  BY <1>1, <1>3, <1>4, <1>5, CheckStepKept DEF CheckSteps, At
<1>8. Spent'
  BY <1>1, <1>4, <1>6, SpentKept
<1>9. Counted'
  BY <1>1, <1>4, <1>5, CountedKept
<1>10. Fresh' /\ Unsent'
  BY <1>1, <1>3 DEF Inv, Fresh, Unsent
<1>11. Bounded'
  <2> SUFFICES ASSUME NEW i \in DOMAIN code
               PROVE  code'[i].attempts + Cardinality(Counting(i)')
                          <= MaxAttempts + (IF overlapped THEN N - 1 ELSE 0)
    BY <1>1, <1>3 DEF Bounded
  <2>1. \A x \in Slots : request'[x] = IF x = s THEN q ELSE request[x]
    BY <1>1 DEF Continue, Inv, TypeOK
  <2>2. Counting(i)' = Counting(i) \ {s}
    BY <1>5, <2>1 DEF Counting, At
  <2>3. IsFiniteSet(Counting(i)) /\ Cardinality(Counting(i)) \in Nat
    BY SlotSets, CountingSets
  <2>4. /\ code[i].attempts \in Nat /\ N \in Nat /\ MaxAttempts \in Nat
        /\ code[i].attempts + Cardinality(Counting(i))
               <= MaxAttempts + (IF overlapped THEN N - 1 ELSE 0)
    BY RowTyped, SlotSets, BoundsAssumption DEF Inv, Bounded, Code
  <2>5. CASE i = id
    <3>1. s \in Counting(i)
      BY <1>1, <2>5 DEF Counting, id
    <3>2. Cardinality(Counting(i)') = Cardinality(Counting(i)) - 1
      BY <2>2, <2>3, <3>1, FS_RemoveElement
    <3> QED BY <1>3, <2>3, <2>4, <2>5, <3>2
  <2>6. CASE i # id
    <3>1. Counting(i)' = Counting(i)
      BY <2>2, <2>6 DEF Counting, id
    <3> QED BY <1>3, <2>4, <2>6, <3>1
  <2> QED BY <2>5, <2>6
<1> QED BY <1>7, <1>8, <1>9, <1>10, <1>11 DEF Inv

\* A code is accepted by its id, after it was read as one that waits.
LEMMA AcceptInv == ASSUME Inv, TypeOK', NEW s \in Slots, AcceptCode(s) PROVE Inv'
<1> DEFINE id == request[s].check.id
           q == [step |-> "check.apply", check |-> request[s].check]
           N == Cardinality(Slots)
<1>1. /\ At(s, "check.accept") /\ Continue(s, q)
      /\ code' = [code EXCEPT ![id].status = "VERIFIED"]
      /\ uses' = [uses EXCEPT ![id] = @ + 1]
      /\ UNCHANGED <<version, overlapped, died>>
  BY DEF AcceptCode
<1>2. id \in DOMAIN code /\ id \in Ids /\ request[s].check.use = code[id].use
  BY <1>1, RowIds DEF Inv, Refers, At, CheckSteps
<1>3. /\ DOMAIN code' = DOMAIN code
      /\ \A j \in DOMAIN code :
            /\ code'[j].use = code[j].use
            /\ code'[j].attempts = code[j].attempts
            /\ code'[j].status = IF j = id THEN "VERIFIED" ELSE code[j].status
  BY <1>1, <1>2, StatusWritten DEF Inv
<1>4. Others(s) /\ ~Applying(s) /\ Kept
  BY <1>1, <1>3, InFlight DEF At, Applying, Kept, Stays
<1>5. /\ q.step = "check.apply" /\ q.check = request[s].check
  OBVIOUS
<1>6. \A i \in Ids : /\ uses[i] \in Nat
                     /\ uses'[i] = IF i = id THEN uses[i] + 1 ELSE uses[i]
  BY <1>1 DEF Inv, TypeOK
<1> HIDE DEF q, id
<1>7. \A x \in Slots : request'[x] = IF x = s THEN q ELSE request[x]
  BY <1>1 DEF Continue, Inv, TypeOK
<1>8. Founded(q)
  BY <1>2, <1>5 DEF Founded, CheckSteps, id
<1>9. Alone' /\ Refers' /\ OnePending' /\ Replaces' /\ Current'
  BY <1>1, <1>3, <1>4, <1>5, CheckStepKept DEF CheckSteps, At, Kept
<1>10. Bounded'
  BY <1>1, <1>4, <1>8, BoundedKept
<1>11. Fresh' /\ Unsent'
  BY <1>2, <1>3, <1>6, RowIds DEF Inv, Fresh, Unsent
<1>12. ASSUME NEW i \in Ids
       PROVE  /\ uses'[i] + Cardinality(Accepting(i)') = uses[i] + Cardinality(Accepting(i))
              /\ i = id => Cardinality(Accepting(i)) >= 1
  <2>1. Accepting(i)' = Accepting(i) \ {s}
    BY <1>5, <1>7 DEF Accepting, At
  <2>2. IsFiniteSet(Accepting(i)) /\ Cardinality(Accepting(i)) \in Nat
    BY SlotSets, CountingSets
  <2>3. CASE i = id
    <3>1. s \in Accepting(i)
      BY <1>1, <2>3 DEF Accepting, id
    <3>2. Cardinality(Accepting(i)') = Cardinality(Accepting(i)) - 1
      BY <2>1, <2>2, <3>1, FS_RemoveElement
    <3>3. {s} \in SUBSET Accepting(i) /\ Accepting(i) \in SUBSET Slots
      BY <3>1, CountingSets
    <3>4. Cardinality({s}) <= Cardinality(Accepting(i)) /\ Cardinality({s}) = 1
      BY <3>3, SlotSets
    <3> QED BY <1>6, <2>2, <2>3, <3>2, <3>4
  <2>4. CASE i # id
    <3>1. Accepting(i)' = Accepting(i)
      BY <2>1, <2>4 DEF Accepting, id
    <3> QED BY <1>6, <2>2, <2>4, <3>1
  <2> QED BY <2>3, <2>4
<1>13. Spent'
  BY <1>1, <1>12 DEF Inv, Spent
<1>14. Counted'
  <2> SUFFICES ASSUME ~overlapped, ~died
               PROVE  Cardinality(UsedResets') =
                          version + (IF \E x \in Slots : Applying(x)' THEN 1 ELSE 0)
    BY <1>1 DEF Counted
  <2>1. \A x \in Slots : x # s => At(x, "idle")
    BY <1>1, <1>4 DEF Others
  <2>2. ~ \E x \in Slots : Applying(x)
    BY <1>4, <2>1 DEF Applying, At
  <2>3. (\E x \in Slots : Applying(x)') <=> code[id].use \in ResetUses
    BY <1>2, <1>5, <1>7, <2>1 DEF Applying, At, id
  <2>4. Cardinality(UsedResets) = version
    BY <2>2 DEF Inv, Counted, TypeOK
  <2>5. uses[id] = 0
    <3>1. uses[id] + Cardinality(Accepting(id)) <= 1
      BY <1>2 DEF Inv, Spent
    <3>2. Cardinality(Accepting(id)) \in Nat
      BY SlotSets, CountingSets
    <3> QED BY <1>2, <1>6, <1>12, <3>1, <3>2
  <2>6. UsedResets' = IF code[id].use \in ResetUses THEN UsedResets \cup {id}
                      ELSE UsedResets
    <3>1. \A i \in DOMAIN code : i \in Ids
      BY RowIds DEF Inv
    <3>2. \A i \in DOMAIN code : uses'[i] > 0 <=> uses[i] > 0 \/ i = id
      BY <1>6, <3>1
    <3> QED BY <1>2, <1>3, <3>2 DEF UsedResets
  <2>7. id \notin UsedResets
    BY <2>5 DEF UsedResets
  <2>8. IsFiniteSet(UsedResets)
    <3>1. UsedResets \subseteq 1..MaxCode
      BY RowIds DEF Inv, UsedResets, Ids
    <3>2. IsFiniteSet(1..MaxCode)
      BY BoundsAssumption, FS_Interval
    <3> QED BY <3>1, <3>2, FS_Subset
  <2>9. Cardinality(UsedResets \cup {id}) = Cardinality(UsedResets) + 1
    BY <2>7, <2>8, FS_AddElement
  <2> QED BY <2>3, <2>4, <2>6, <2>9 DEF Inv, TypeOK
<1> QED BY <1>9, <1>10, <1>11, <1>13, <1>14 DEF Inv

\* The password is written with the version that comes after the one that was
\* read, which is the next one when no two handlers have overlapped.
LEMMA ApplyInv == ASSUME Inv, TypeOK', NEW s \in Slots, ApplyCode(s) PROVE Inv'
<1>1. /\ At(s, "check.apply")
      /\ UNCHANGED <<code, uses, overlapped, died>>
  BY DEF ApplyCode, history
<1>2. PICK q : /\ Continue(s, q)
               /\ q.step \in {"idle", "bonus"}
               /\ version' = IF Applying(s) THEN request[s].check.version + 1 ELSE version
  <2>1. CASE request[s].check.use \in ResetUses
    <3>1. Continue(s, Idle) /\ Idle.step = "idle"
      BY <2>1 DEF ApplyCode, Finish, Idle
    <3> QED BY <1>1, <2>1, <3>1 DEF ApplyCode, Applying
  <2>2. CASE request[s].check.use \notin ResetUses
    <3> DEFINE r == [step |-> "bonus", channel |-> Channel(request[s].check.use)]
    <3>1. Continue(s, r) /\ r.step = "bonus" /\ version' = version
      BY <2>2 DEF ApplyCode
    <3> HIDE DEF r
    <3> QED BY <2>2, <3>1 DEF Applying
  <2> QED BY <2>1, <2>2
<1>3. Others(s) /\ Kept /\ Stays /\ DOMAIN code' = DOMAIN code
  BY <1>1, InFlight DEF At, Kept, Stays
<1>4. Founded(q)
  BY <1>2 DEF Founded, CheckSteps
<1>5. Alone' /\ Refers' /\ OnePending' /\ Replaces' /\ Current'
  BY <1>2, <1>3, CheckStepKept DEF CheckSteps
<1>6. Bounded' /\ Spent'
  BY <1>1, <1>2, <1>3, <1>4, BoundedKept, SpentKept
<1>7. Fresh' /\ Unsent'
  BY <1>1 DEF Inv, Fresh, Unsent
<1>8. Counted'
  <2> SUFFICES ASSUME ~overlapped, ~died
               PROVE  Cardinality(UsedResets') =
                          version' + (IF \E x \in Slots : Applying(x)' THEN 1 ELSE 0)
    BY <1>1 DEF Counted
  <2>1. \A x \in Slots : request'[x] = IF x = s THEN q ELSE request[x]
    BY <1>2 DEF Continue, Inv, TypeOK
  <2>2. \A x \in Slots : x # s => At(x, "idle")
    BY <1>1, <1>3 DEF Others
  <2>3. ~ \E x \in Slots : Applying(x)'
    BY <1>2, <2>1, <2>2 DEF Applying, At
  <2>4. (\E x \in Slots : Applying(x)) <=> Applying(s)
    BY <2>2 DEF Applying, At
  <2>5. request[s].check.version = version
    BY <1>1 DEF Inv, Current, At, CheckSteps
  <2>6. UsedResets' = UsedResets
    BY <1>1 DEF UsedResets
  <2>7. Cardinality(UsedResets) = version + (IF Applying(s) THEN 1 ELSE 0)
    BY <2>4 DEF Inv, Counted
  <2> QED BY <1>2, <2>3, <2>5, <2>6, <2>7 DEF Inv, TypeOK
<1> QED BY <1>5, <1>6, <1>7, <1>8 DEF Inv

\* A bonus is granted, or a process dies: a handler ends.
LEMMA EndInv ==
    ASSUME Inv, TypeOK', NEW s \in Slots, GrantBonus(s) \/ Crash(s)
    PROVE  Inv'
<1>1. Finish(s) /\ UNCHANGED <<code, uses, version, overlapped>>
  BY DEF GrantBonus, Crash, history
<1>2. ~At(s, "idle")
  BY DEF GrantBonus, Crash, At
<1>3. (died => died') /\ (~died' => ~Applying(s))
  BY DEF GrantBonus, Crash, history, Applying, At
<1>4. Others(s)
  BY <1>1, <1>2, InFlight
<1> QED BY <1>1, <1>3, <1>4, FinishInv

LEMMA NextInv == Inv /\ [Next]_vars => Inv'
<1> SUFFICES ASSUME Inv, [Next]_vars PROVE Inv'
  OBVIOUS
<1>0. TypeOK'
  BY NextTyped DEF Inv
<1>1. ASSUME NEW s \in Slots, Begin(s) PROVE Inv'
  BY <1>0, <1>1, BeginInv
<1>2. ASSUME NEW s \in Slots, Step(s) PROVE Inv'
  BY <1>0, <1>2, ExpireInv, CreateInv, FindInv, CountInv, CloseInv, AcceptInv,
     ApplyInv, EndInv DEF Step
<1>3. ASSUME NEW s \in Slots, Crash(s) PROVE Inv'
  BY <1>0, <1>3, EndInv
<1>4. ASSUME NEW i \in Ids, Age(i) PROVE Inv'
  BY <1>0, <1>4, AgeInv
<1>5. CASE UNCHANGED vars
  <2>1. \A j : /\ Counting(j)' = Counting(j) /\ Accepting(j)' = Accepting(j)
               /\ Pending(j)' = Pending(j)
    BY <1>5 DEF vars, Counting, Accepting, Pending, At
  <2>2. /\ \A x \in Slots : Applying(x)' <=> Applying(x)
        /\ UsedResets' = UsedResets
    BY <1>5 DEF vars, Applying, UsedResets, At
  <2>3. Alone' /\ Refers' /\ Fresh' /\ Unsent' /\ Current'
    BY <1>5 DEF vars, Inv, Alone, Refers, Fresh, Unsent, Current, At
  <2>4. Bounded' /\ Spent' /\ Counted' /\ OnePending' /\ Replaces'
    BY <1>5, <2>1, <2>2 DEF vars, Inv, Bounded, Spent, Counted, OnePending, Replaces, At
  <2> QED BY <1>0, <2>3, <2>4 DEF Inv
<1> QED BY <1>1, <1>2, <1>3, <1>4, <1>5 DEF Next

\* In every behaviour what the handlers in flight have read and are about to
\* write is accounted for in the codes and in the version of the tokens.
THEOREM Invariance == Spec => []Inv
<1> QED BY InitInv, NextInv, PTL DEF Spec

\* A phone code is compared with at most MaxAttempts wrong guesses, and with one
\* more for every further handler that can be in flight: incrementPhoneOtpAttempt
\* counts after the limit was read, and the guesses that wait to be counted are
\* bounded with those that are.
THEOREM GuessSafety == Spec => []GuessesAreBounded
<1>1. Inv => GuessesAreBounded
  <2> SUFFICES ASSUME Inv, NEW i \in DOMAIN code
               PROVE  code[i].attempts
                          <= MaxAttempts + (IF overlapped THEN Cardinality(Slots) - 1 ELSE 0)
    BY DEF GuessesAreBounded
  <2>1. /\ code[i].attempts \in Nat /\ MaxAttempts \in Nat
        /\ Cardinality(Counting(i)) \in Nat /\ Cardinality(Slots) \in Nat
    BY RowTyped, SlotSets, CountingSets, BoundsAssumption DEF Inv, Code
  <2> QED BY <2>1 DEF Inv, Bounded
<1> QED BY <1>1, Invariance, PTL

\* A set without two different elements
LEMMA AtMostOne ==
    ASSUME NEW C, \A i, j \in C : i = j
    PROVE  Cardinality(C) <= 1
<1>1. CASE C = {}
  BY <1>1, FS_EmptySet
<1>2. ASSUME NEW i \in C PROVE Cardinality(C) <= 1
  <2>1. C = {i}
    OBVIOUS
  <2>2. Cardinality({i}) = 1
    BY FS_Singleton
  <2> QED BY <2>1, <2>2
<1> QED BY <1>1, <1>2

\* While no two handlers overlap a code is accepted once, and at most one code
\* of a phone purpose or of an e-mail address waits; with handlers that overlap
\* a code is accepted at most once by each of them, however the reads of
\* validatePendingPhoneOtp and the writes by id interleave.
THEOREM SpentSafety == Spec => []CodesAreSpent
<1>1. Inv => CodesAreSpent
  <2> SUFFICES ASSUME Inv PROVE CodesAreSpent
    OBVIOUS
  <2>1. \A i \in Ids : uses[i] <= (IF overlapped THEN Cardinality(Slots) ELSE 1)
    <3> SUFFICES ASSUME NEW i \in Ids
                 PROVE  uses[i] <= (IF overlapped THEN Cardinality(Slots) ELSE 1)
      OBVIOUS
    <3>1. /\ uses[i] \in Nat /\ Cardinality(Accepting(i)) \in Nat
          /\ Cardinality(Slots) \in Nat
      BY SlotSets, CountingSets DEF Inv, TypeOK
    <3> QED BY <3>1 DEF Inv, Spent
  <2>2. ASSUME ~overlapped, NEW use \in UseNames
        PROVE  Cardinality(Pending(Group(use))) <= 1
    BY <2>2, AtMostOne DEF Inv, OnePending
  <2> QED BY <2>1, <2>2 DEF CodesAreSpent
<1> QED BY <1>1, Invariance, PTL

\* While no two handlers overlap and no process dies, the version of the tokens
\* is the number of codes that reset the password: each of those resets made the
\* sessions from before it invalid.
THEOREM ResetSafety == Spec => []EveryResetRevokes
<1>1. Inv => EveryResetRevokes
  <2> SUFFICES ASSUME Inv, ~overlapped, ~died, AtRest
               PROVE  version = Cardinality(UsedResets)
    BY DEF EveryResetRevokes
  <2>1. ~ \E s \in Slots : Applying(s)
    BY DEF AtRest, Applying, At
  <2> QED BY <2>1 DEF Inv, Counted, TypeOK
<1> QED BY <1>1, Invariance, PTL

=============================================================================
