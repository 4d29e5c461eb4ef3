--------------------------- MODULE ModerationProofs ---------------------------
(***************************************************************************)
(* What holds of the moderation for every set of keywords and processes    *)
(* and every number of posts, reports and handlers in flight.              *)
(*                                                                         *)
(* The filter catches up because a list of keywords is dated before it is  *)
(* read: Dated says that what carries a date younger than sixty seconds,   *)
(* in a cache or in a handler, has all keywords that are due, and that a   *)
(* handler compares its text with every keyword that was due when its      *)
(* check began.                                                            *)
(*                                                                         *)
(* What a reporter is told is true because of what his review knows by     *)
(* then: Honest says that the content it removed stays hidden, whatever    *)
(* races with it, and that a review that was in flight alone has told      *)
(* nobody yet and goes on with the verdict and the ban that it wrote.      *)
(***************************************************************************)
EXTENDS Moderation, TLAPS

Posts == \E n \in 0..MaxPost : post \in [1..n -> Post]
Reports ==
    /\ \E n \in 0..MaxReport : report \in [1..n -> Report]
    /\ \A r \in DOMAIN report : report[r].post \in {0} \cup DOMAIN post
Caches == cache \in [Processes -> [list : SUBSET Keywords, fresh : BOOLEAN]]

ReviewSteps == {"remove", "eject", "ban", "review", "reread", "confirm", "tell"}
ReadSteps == {"post.read", "post.compare"}

\* What the handler q in the slot s knows of the keywords
Relies(s, q) ==
    /\ q.step = "post.read" => strict[s] \subseteq keyword.active
    /\ q.step = "post.compare" => /\ strict[s] \subseteq q.list
                                  /\ q.fresh => due \subseteq q.list
    /\ q.step = "post.insert" => q.words \cap strict[s] = {}

\* What is fresh has every keyword that is due.
Dated ==
    /\ due \subseteq keyword.active
    /\ \A p \in Processes : cache[p].fresh => due \subseteq cache[p].list
    /\ \A s \in Slots : Relies(s, request[s])
    /\ FilterCatchesUp

-----------------------------------------------------------------------------
(* Handlers                                                                  *)

LEMMA IdleTyped == Idle \in Request /\ Idle.step = "idle"
BY DEF Idle, Request

\* What a handler carries in each of its steps.
LEMMA RequestFields ==
    ASSUME NEW q \in Request
    PROVE  /\ q.step \in {"post.check", "post.insert", "post.read", "post.compare"}
                => q.words \subseteq Keywords /\ q.process \in Processes
           /\ q.step \in ReadSteps => q.fresh \in BOOLEAN
           /\ q.step = "post.compare" => q.list \subseteq Keywords
           /\ q.step \in {"keyword.add", "keyword.drop"}
                => q.keyword \in Keywords /\ q.process \in Processes
           /\ q.step = "keyword.forget" => q.process \in Processes
           /\ q.step \in ReviewSteps => q.report \in ReportIds /\ q.outcome \in Outcome
           /\ q.step = "setBanned" => q.banned \in BOOLEAN
BY DEF Request, Idle, ReadSteps, ReviewSteps

LEMMA HandlerTyped ==
    ASSUME TypeOK, NEW s \in Slots, NEW q \in Request, Continue(s, q)
    PROVE  request' \in [Slots -> Request]
BY DEF TypeOK, Continue

LEMMA PostTyped ==
    ASSUME NEW words \in SUBSET Keywords, NEW p \in Processes, NEW fresh \in BOOLEAN,
           NEW list \in SUBSET Keywords
    PROVE  /\ [step |-> "post.check", words |-> words, process |-> p] \in Request
           /\ [step |-> "post.insert", words |-> words, process |-> p] \in Request
           /\ [step |-> "post.read", words |-> words, process |-> p, fresh |-> fresh]
                \in Request
           /\ [step |-> "post.compare", words |-> words, process |-> p, fresh |-> fresh,
               list |-> list] \in Request
BY DEF Request

LEMMA KeywordTyped ==
    ASSUME NEW p \in Processes
    PROVE  /\ \A step \in {"keyword.add", "keyword.drop"}, k \in Keywords :
                 [step |-> step, keyword |-> k, process |-> p] \in Request
           /\ [step |-> "keyword.forget", process |-> p] \in Request
BY DEF Request

LEMMA ReviewTyped ==
    ASSUME NEW step \in ReviewSteps, NEW r \in ReportIds, NEW outcome \in Outcome
    PROVE  [step |-> step, report |-> r, outcome |-> outcome] \in Request
BY DEF Request, ReviewSteps

\* A review that goes on keeps its report and its outcome.
LEMMA NextStepTyped ==
    ASSUME NEW q \in Request, q.step \in ReviewSteps, NEW step \in ReviewSteps
    PROVE  [q EXCEPT !.step = step] \in Request
<1>1. q \in [step : ReviewSteps, report : ReportIds, outcome : Outcome]
  BY DEF Request, Idle, ReviewSteps
<1>2. [q EXCEPT !.step = step] \in [step : ReviewSteps, report : ReportIds, outcome : Outcome]
  BY <1>1
<1> QED BY <1>2 DEF Request, ReviewSteps

\* A date becomes old.
LEMMA AgedTyped ==
    ASSUME NEW q \in Request, q.step \in ReadSteps
    PROVE  /\ [q EXCEPT !.fresh = FALSE] \in Request
           /\ [q EXCEPT !.fresh = FALSE].fresh = FALSE
           /\ [q EXCEPT !.fresh = FALSE].step = q.step
           /\ q.step = "post.compare" => [q EXCEPT !.fresh = FALSE].list = q.list
<1> DEFINE Reads == [step : {"post.read"}, words : SUBSET Keywords, process : Processes,
                     fresh : BOOLEAN]
           Compares == [step : {"post.compare"}, words : SUBSET Keywords,
                        process : Processes, fresh : BOOLEAN, list : SUBSET Keywords]
<1>1. q \in Reads \/ q \in Compares
  BY DEF Request, Idle, ReadSteps
<1>2. CASE q \in Reads
  <2>1. [q EXCEPT !.fresh = FALSE] \in Reads
    BY <1>2
  <2> QED BY <1>2, <2>1 DEF Request
<1>3. CASE q \in Compares
  <2>1. [q EXCEPT !.fresh = FALSE] \in Compares
    BY <1>3
  <2> QED BY <1>3, <2>1 DEF Request
<1> QED BY <1>1, <1>2, <1>3

LEMMA InitInv == Init => TypeOK /\ Dated
<1> SUFFICES ASSUME Init PROVE TypeOK /\ Dated
  OBVIOUS
<1>1. post \in [1..0 -> Post] /\ report \in [1..0 -> Report]
  BY DEF Init
<1>2. 0 \in 0..MaxPost /\ 0 \in 0..MaxReport
  BY BoundsAssumption
<1>3. request \in [Slots -> Request]
  BY IdleTyped DEF Init
<1>4. /\ Caches
      /\ keyword \in [active : SUBSET Keywords, rows : SUBSET Keywords]
      /\ poster \in [banned : BOOLEAN, admin : BOOLEAN]
      /\ told \in [ReportIds -> SUBSET Outcome]
      /\ strict \in [Slots -> SUBSET Keywords]
  BY DEF Init, Caches
<1>5. \A r \in DOMAIN report : report[r].post \in {0} \cup DOMAIN post
  BY <1>1
<1>6. TypeOK
  BY <1>1, <1>2, <1>3, <1>4, <1>5 DEF Init, TypeOK, Caches
<1>7. Dated
  BY <1>1, IdleTyped DEF Init, Dated, Relies, FilterCatchesUp
<1> QED BY <1>6, <1>7

\* A step that leaves the keywords, the caches and the dates alone
LEMMA DatedKept ==
    ASSUME TypeOK, Dated, NEW s \in Slots, NEW q \in Request, Continue(s, q),
           UNCHANGED <<keyword, cache, due, strict>>, Relies(s, q), FilterCatchesUp'
    PROVE  Dated'
<1>1. \A t \in Slots : Relies(t, request'[t])
  BY DEF Dated, Continue, TypeOK
<1>2. \A t \in Slots : Relies(t, request[t])'
  BY <1>1 DEF Relies
<1> QED BY <1>2 DEF Dated

LEMMA FilterKept == ASSUME Dated, UNCHANGED post PROVE FilterCatchesUp'
BY DEF Dated, FilterCatchesUp

\* A handler whose text is not being checked relies on nothing.
LEMMA ReliesOnNothing ==
    ASSUME NEW s, NEW q, q.step \notin {"post.read", "post.compare", "post.insert"}
    PROVE  Relies(s, q)
BY DEF Relies

-----------------------------------------------------------------------------
(* Starting                                                                  *)

StartSteps == {"post.check", "keyword.add", "keyword.drop", "remove", "review", "reread",
               "setBanned"}

LEMMA BeginContinues ==
    ASSUME TypeOK, NEW s \in Slots, Begin(s)
    PROVE  \/ \E q \in Request : Start(s, q) /\ q.step \in StartSteps
           \/ \E p \in Processes : SeedKeywords(s, p)
<1>1. ASSUME NEW words \in SUBSET Keywords, NEW p \in Processes, BeginPost(s, words, p)
      PROVE  \E q \in Request : Start(s, q) /\ q.step \in StartSteps
  <2> DEFINE q == [step |-> "post.check", words |-> words, process |-> p]
  <2>1. q \in Request
    BY DEF Request
  <2> QED BY <1>1, <2>1 DEF BeginPost, StartSteps
<1>2. ASSUME NEW p \in Processes, NEW k \in Keywords, NEW step \in {"keyword.add", "keyword.drop"},
             BeginKeyword(s, step, k, p)
      PROVE  \E q \in Request : Start(s, q) /\ q.step \in StartSteps
  BY <1>2, KeywordTyped DEF BeginKeyword, StartSteps
<1>3. ASSUME NEW step \in {"remove", "review", "reread"}, NEW r \in ReportIds,
             NEW outcome \in Outcome, Start(s, Reviewing(step, r, outcome))
      PROVE  \E q \in Request : Start(s, q) /\ q.step \in StartSteps
  BY <1>3, ReviewTyped DEF Reviewing, ReviewSteps, StartSteps
<1>4. ASSUME NEW r \in ReportIds, NEW eject \in BOOLEAN,
             DismissContent(s, r) \/ ActionContent(s, r, eject)
               \/ DismissFraud(s, r) \/ ConfirmFraud(s, r, eject)
      PROVE  \E q \in Request : Start(s, q) /\ q.step \in StartSteps
  <2>1. ASSUME NEW status \in Verdict, NEW b \in BOOLEAN
        PROVE  [status |-> status, blocked |-> b] \in Outcome
    BY DEF Outcome
  <2>2. CASE DismissContent(s, r)
    BY <1>3, <2>1, <2>2 DEF DismissContent, Verdict
  <2>3. CASE ActionContent(s, r, eject)
    BY <1>3, <2>1, <2>3 DEF ActionContent, Verdict
  <2>4. CASE DismissFraud(s, r)
    BY <1>3, <2>1, <2>4 DEF DismissFraud, Verdict
  <2>5. CASE ConfirmFraud(s, r, eject)
    BY <1>3, <2>1, <2>5 DEF ConfirmFraud, Verdict
  <2> QED BY <1>4, <2>2, <2>3, <2>4, <2>5
<1>5. ASSUME NEW banned \in BOOLEAN, BeginSetBanned(s, banned)
      PROVE  \E q \in Request : Start(s, q) /\ q.step \in StartSteps
  <2> DEFINE q == [step |-> "setBanned", banned |-> banned]
  <2>1. q \in Request
    BY DEF Request
  <2> QED BY <1>5, <2>1 DEF BeginSetBanned, StartSteps
<1>6. CASE ContentReviewRoutes(s) \/ FraudReviewRoutes(s)
  BY <1>4, <1>6 DEF ContentReviewRoutes, FraudReviewRoutes
<1>7. CASE KeywordRoutes(s)
  BY <1>2, <1>7 DEF KeywordRoutes
<1>8. CASE BanRoutes(s)
  BY <1>5, <1>8 DEF BanRoutes
<1> QED BY <1>1, <1>6, <1>7, <1>8 DEF Begin

LEMMA BeginInv ==
    ASSUME TypeOK, Dated, NEW s \in Slots, Begin(s)
    PROVE  TypeOK' /\ Dated'
<1>1. ASSUME NEW q \in Request, Start(s, q), q.step \in StartSteps
      PROVE  TypeOK' /\ Dated'
  <2>1. request' \in [Slots -> Request]
    BY <1>1, HandlerTyped DEF Start
  <2>2. Relies(s, q)
    BY <1>1, ReliesOnNothing DEF StartSteps
  <2>3. Dated'
    BY <1>1, <2>2, DatedKept, FilterKept DEF Start, tables
  <2> QED BY <1>1, <2>1, <2>3 DEF Start, TypeOK, tables
<1>2. ASSUME NEW p \in Processes, SeedKeywords(s, p)
      PROVE  TypeOK' /\ Dated'
  <2>1. PICK q \in Request : q.step = "keyword.forget" /\ Continue(s, q)
    <3>1. [step |-> "keyword.forget", process |-> p] \in Request
      BY KeywordTyped
    <3> QED BY <1>2, <3>1 DEF SeedKeywords
  <2>2. request' \in [Slots -> Request]
    BY <2>1, HandlerTyped
  <2>3. /\ keyword' \in [active : SUBSET Keywords, rows : SUBSET Keywords]
        /\ keyword.active \subseteq keyword'.active
    BY <1>2, KeywordsAssumption DEF SeedKeywords, TypeOK
  <2>4. \A t \in Slots : Relies(t, request'[t])
    BY <2>1, ReliesOnNothing DEF Dated, Continue, TypeOK
  <2>5. \A t \in Slots : Relies(t, request[t])'
    BY <1>2, <2>3, <2>4 DEF Relies, SeedKeywords
  <2>6. Dated'
    BY <1>2, <2>3, <2>5, FilterKept DEF Dated, SeedKeywords
  <2> QED BY <1>2, <2>2, <2>3, <2>6 DEF SeedKeywords, TypeOK
<1> QED BY <1>1, <1>2, BeginContinues

-----------------------------------------------------------------------------
(* Posting                                                                   *)

\* The text is compared, and what is inserted has none of the keywords.
LEMMA ComparedTyped ==
    ASSUME NEW q \in Request, q.step \in {"post.check", "post.compare"}, NEW list, NEW s,
           strict[s] \subseteq list
    PROVE  Compared(q, list) \in Request /\ Relies(s, Compared(q, list))
<1>1. CASE q.words \cap list = {}
  <2> DEFINE r == [step |-> "post.insert", words |-> q.words, process |-> q.process]
  <2>1. q.words \in SUBSET Keywords /\ q.process \in Processes
    BY RequestFields
  <2>2. r \in Request
    BY <2>1 DEF Request
  <2>3. Relies(s, r)
    BY <1>1 DEF Relies
  <2> QED BY <1>1, <2>2, <2>3 DEF Compared
<1>2. CASE q.words \cap list # {}
  BY <1>2, IdleTyped, ReliesOnNothing DEF Compared
<1> QED BY <1>1, <1>2

LEMMA CheckInv ==
    ASSUME TypeOK, Dated, NEW s \in Slots, CheckPost(s)
    PROVE  TypeOK' /\ Dated'
<1> DEFINE p == request[s].process
           r == [step |-> "post.read", words |-> request[s].words, process |-> p,
                 fresh |-> TRUE]
<1>1. request[s] \in Request /\ request[s].step = "post.check"
  BY DEF CheckPost, At, TypeOK
<1>2. p \in Processes /\ request[s].words \in SUBSET Keywords
  BY <1>1, RequestFields
<1>3. r \in Request
  BY <1>2 DEF Request
<1>4. strict' \in [Slots -> SUBSET Keywords] /\ strict'[s] = due
      /\ \A t \in Slots \ {s} : strict'[t] = strict[t]
  BY DEF CheckPost, TypeOK
<1>5. PICK q \in Request : Continue(s, q) /\ Relies(s, q)'
  <2>1. CASE cache[p].fresh
    <3>1. due \subseteq cache[p].list
      BY <1>2, <2>1 DEF Dated
    <3>2. Continue(s, Compared(request[s], cache[p].list))
      BY <2>1 DEF CheckPost
    <3>3. CASE request[s].words \cap cache[p].list = {}
      <4>1. PICK q \in Request : /\ q.step = "post.insert" /\ q.words = request[s].words
                                 /\ Continue(s, q)
        <5>1. [step |-> "post.insert", words |-> request[s].words, process |-> p] \in Request
          BY <1>2 DEF Request
        <5> QED BY <3>2, <3>3, <5>1 DEF Compared
      <4>2. Relies(s, q)'
        BY <1>4, <3>1, <3>3, <4>1 DEF Relies
      <4> QED BY <4>1, <4>2
    <3>4. CASE request[s].words \cap cache[p].list # {}
      <4>1. Continue(s, Idle)
        BY <3>2, <3>4 DEF Compared
      <4>2. Relies(s, Idle)'
        BY IdleTyped DEF Relies
      <4> QED BY <4>1, <4>2, IdleTyped
    <3> QED BY <3>3, <3>4
  <2>2. CASE ~cache[p].fresh
    <3>1. PICK q \in Request : q.step = "post.read" /\ Continue(s, q)
      BY <1>3, <2>2 DEF CheckPost
    <3>2. Relies(s, q)'
      BY <1>4, <3>1 DEF Relies, Dated, CheckPost, tables
    <3> QED BY <3>1, <3>2
  <2> QED BY <2>1, <2>2
<1>6. request' \in [Slots -> Request]
  BY <1>5, HandlerTyped
<1>7. \A t \in Slots \ {s} : Relies(t, request[t])'
  BY <1>4, <1>5 DEF Relies, Dated, Continue, CheckPost, tables, TypeOK
<1>8. Relies(s, request[s])'
  BY <1>5 DEF Relies, Continue, TypeOK
<1>9. Dated'
  BY <1>7, <1>8, FilterKept DEF Dated, CheckPost, tables
<1> QED BY <1>4, <1>6, <1>9 DEF CheckPost, TypeOK, tables

LEMMA ReadInv ==
    ASSUME TypeOK, Dated, NEW s \in Slots, ReadKeywords(s)
    PROVE  TypeOK' /\ Dated'
<1>1. request[s] \in Request /\ request[s].step = "post.read"
  BY DEF ReadKeywords, At, TypeOK
<1>2. PICK q \in Request : /\ q.step = "post.compare" /\ q.list = keyword.active
                           /\ Continue(s, q)
  <2>1. [step |-> "post.compare", words |-> request[s].words, process |-> request[s].process,
         fresh |-> request[s].fresh, list |-> keyword.active] \in Request
    BY <1>1, RequestFields, PostTyped DEF ReadSteps, TypeOK
  <2> QED BY <2>1 DEF ReadKeywords
<1>3. Relies(s, q)
  BY <1>1, <1>2 DEF Relies, Dated
<1>4. Dated'
  BY <1>2, <1>3, DatedKept, FilterKept DEF ReadKeywords, tables
<1>5. request' \in [Slots -> Request]
  BY <1>2, HandlerTyped
<1> QED BY <1>4, <1>5 DEF ReadKeywords, TypeOK, tables

\* The cache is filled with a list as old as its date.
LEMMA FillInv ==
    ASSUME TypeOK, Dated, NEW s \in Slots, FillCache(s)
    PROVE  TypeOK' /\ Dated'
<1> DEFINE q == request[s]
<1>1. q \in Request /\ q.step = "post.compare"
  BY DEF FillCache, At, TypeOK
<1>2. q.process \in Processes /\ q.list \subseteq Keywords /\ q.fresh \in BOOLEAN
  BY <1>1, RequestFields DEF ReadSteps
<1>3. strict[s] \subseteq q.list /\ (q.fresh => due \subseteq q.list)
  BY <1>1 DEF Dated, Relies
<1>4. PICK r \in Request : Continue(s, r) /\ Relies(s, r)
  BY <1>1, <1>3, ComparedTyped DEF FillCache
<1>5. cache' = [cache EXCEPT ![q.process] = [list |-> q.list, fresh |-> q.fresh]]
  BY DEF FillCache
<1>6. Caches'
  BY <1>2, <1>5 DEF Caches, TypeOK
<1>7. \A p \in Processes : cache'[p].fresh => due \subseteq cache'[p].list
  BY <1>2, <1>3, <1>5 DEF Dated, TypeOK
<1>8. \A t \in Slots : Relies(t, request'[t])
  BY <1>4 DEF Dated, Continue, TypeOK
<1>9. \A t \in Slots : Relies(t, request[t])'
  BY <1>8 DEF Relies, FillCache, tables
<1>10. Dated'
  BY <1>7, <1>9, FilterKept DEF Dated, FillCache, tables
<1>11. request' \in [Slots -> Request]
  BY <1>4, HandlerTyped
<1> QED BY <1>6, <1>10, <1>11 DEF FillCache, TypeOK, Caches, tables

\* What is inserted has none of the keywords that were due.
LEMMA InsertInv ==
    ASSUME TypeOK, Dated, NEW s \in Slots, InsertPost(s)
    PROVE  TypeOK' /\ Dated'
<1> DEFINE row == [words |-> request[s].words, hidden |-> FALSE, strict |-> strict[s]]
<1>1. request[s] \in Request /\ request[s].step = "post.insert"
  BY DEF InsertPost, At, TypeOK
<1>2. request[s].words \subseteq Keywords /\ request[s].words \cap strict[s] = {}
  BY <1>1, RequestFields DEF Dated, Relies
<1>3. row \in Post
  BY <1>2 DEF Post, TypeOK
<1>4. PICK i \in PostIds :
         /\ DOMAIN post = 1..(i - 1)
         /\ post' = [j \in 1..i |-> IF j < i THEN post[j] ELSE row]
  BY DEF InsertPost
<1>5. \A j \in 1..i : j < i => j \in DOMAIN post /\ post[j] \in Post
  BY <1>4 DEF PostIds, TypeOK
<1>6. post' \in [1..i -> Post] /\ i \in 0..MaxPost
  BY <1>3, <1>4, <1>5, BoundsAssumption DEF PostIds
<1>7. Posts'
  BY <1>6 DEF Posts
<1>8. DOMAIN post \subseteq DOMAIN post'
  BY <1>4, <1>6 DEF PostIds
<1>9. FilterCatchesUp'
  BY <1>2, <1>4, <1>5 DEF FilterCatchesUp, Dated
<1>10. request' \in [Slots -> Request] /\ Dated'
  BY <1>9, IdleTyped, HandlerTyped, DatedKept, ReliesOnNothing DEF InsertPost, Finish
<1> QED BY <1>7, <1>8, <1>10 DEF InsertPost, TypeOK, Posts

-----------------------------------------------------------------------------
(* The keywords                                                              *)

LEMMA KeywordInv ==
    ASSUME TypeOK, Dated, NEW s \in Slots, AddKeyword(s) \/ DropKeyword(s)
    PROVE  TypeOK' /\ Dated'
<1>1. request[s] \in Request /\ request[s].step \in {"keyword.add", "keyword.drop"}
  BY DEF AddKeyword, DropKeyword, At, TypeOK
<1>2. request[s].keyword \in Keywords /\ request[s].process \in Processes
  BY <1>1, RequestFields
<1>3. PICK q \in Request : q.step = "keyword.forget" /\ Continue(s, q)
  <2>1. [step |-> "keyword.forget", process |-> request[s].process] \in Request
    BY <1>2, KeywordTyped
  <2> QED BY <2>1 DEF AddKeyword, DropKeyword
<1>4. request' \in [Slots -> Request]
  BY <1>3, HandlerTyped
<1>5. \A t \in Slots : Relies(t, request'[t])
  BY <1>3, ReliesOnNothing DEF Dated, Continue, TypeOK
<1>6. CASE AddKeyword(s)
  <2>1. /\ keyword' \in [active : SUBSET Keywords, rows : SUBSET Keywords]
        /\ keyword.active \subseteq keyword'.active
    BY <1>2, <1>6 DEF AddKeyword, TypeOK
  <2>2. \A t \in Slots : Relies(t, request[t])'
    BY <1>5, <1>6, <2>1 DEF Relies, AddKeyword
  <2>3. Dated'
    BY <1>6, <2>1, <2>2, FilterKept DEF Dated, AddKeyword
  <2> QED BY <1>4, <1>6, <2>1, <2>3 DEF AddKeyword, TypeOK
<1>7. CASE DropKeyword(s)
  <2>1. /\ keyword' \in [active : SUBSET Keywords, rows : SUBSET Keywords]
        /\ keyword'.active = keyword.active \ {request[s].keyword}
    BY <1>7 DEF DropKeyword, TypeOK
  <2>2. /\ due' = due \ {request[s].keyword}
        /\ strict' \in [Slots -> SUBSET Keywords]
        /\ \A t \in Slots : strict'[t] = strict[t] \ {request[s].keyword}
    BY <1>7 DEF DropKeyword, TypeOK
  <2>3. \A t \in Slots : Relies(t, request[t])'
    BY <1>5, <2>1, <2>2 DEF Relies
  <2>4. Dated'
    BY <1>7, <2>1, <2>2, <2>3, FilterKept DEF Dated, DropKeyword
  <2> QED BY <1>4, <1>7, <2>1, <2>2, <2>4 DEF DropKeyword, TypeOK
<1> QED BY <1>6, <1>7

LEMMA ForgetInv ==
    ASSUME TypeOK, Dated, NEW s \in Slots, ForgetCache(s)
    PROVE  TypeOK' /\ Dated'
<1>1. Caches' /\ \A p \in Processes : /\ cache'[p].list = cache[p].list
                                      /\ cache'[p].fresh => cache[p].fresh
  BY DEF ForgetCache, Caches, TypeOK
<1>2. request' \in [Slots -> Request]
  BY IdleTyped, HandlerTyped DEF ForgetCache, Finish
<1>3. \A t \in Slots : Relies(t, request'[t])
  BY IdleTyped, ReliesOnNothing DEF Dated, ForgetCache, Finish, Continue, TypeOK
<1>4. \A t \in Slots : Relies(t, request[t])'
  BY <1>3 DEF Relies, ForgetCache, tables
<1>5. Dated'
  BY <1>1, <1>4, FilterKept DEF Dated, ForgetCache, tables
<1> QED BY <1>1, <1>2, <1>5 DEF ForgetCache, TypeOK, Caches, tables

\* Once nothing that was fresh is so still, all active keywords are due.
LEMMA TimeInv ==
    ASSUME TypeOK, Dated, NEW caches \in SUBSET FreshCaches, NEW reads \in SUBSET FreshReads,
           PassTime(caches, reads)
    PROVE  TypeOK' /\ Dated'
<1>1. Caches' /\ \A p \in Processes : /\ cache'[p].list = cache[p].list
                                      /\ cache'[p].fresh => cache[p].fresh /\ p \notin caches
  BY DEF PassTime, Caches, TypeOK
<1>2. \A t \in reads : /\ request[t] \in Request
                       /\ request[t].step \in ReadSteps
  BY DEF FreshReads, ReadSteps, TypeOK
<1>3. \A t \in reads : /\ request'[t] \in Request
                       /\ request'[t].fresh = FALSE
                       /\ request'[t].step = request[t].step
                       /\ request[t].step = "post.compare" => request'[t].list = request[t].list
  BY <1>2, AgedTyped DEF PassTime, FreshReads
<1>4. \A t \in Slots \ reads : request'[t] = request[t]
  BY DEF PassTime
<1>5. request' \in [Slots -> Request]
  BY <1>3, <1>4 DEF PassTime, TypeOK
<1>6. CASE due' = due
  <2>1. \A t \in Slots : Relies(t, request[t])'
    BY <1>2, <1>3, <1>4, <1>6 DEF Relies, Dated, ReadSteps, PassTime, tables
  <2> QED BY <1>1, <1>5, <1>6, <2>1, FilterKept DEF Dated, PassTime, tables, TypeOK, Caches
<1>7. CASE caches = FreshCaches /\ reads = FreshReads
  <2>1. \A p \in Processes : ~cache'[p].fresh
    BY <1>1, <1>7 DEF FreshCaches
  <2>2. \A t \in Slots : request'[t].step = "post.compare" => ~request'[t].fresh
    BY <1>3, <1>4, <1>7 DEF FreshReads
  <2>3. due' = keyword.active
    BY <1>7 DEF PassTime
  <2>4. \A t \in Slots : Relies(t, request[t])'
    BY <1>2, <1>3, <1>4, <2>2 DEF Relies, Dated, ReadSteps, PassTime, tables
  <2>5. Dated'
    BY <2>1, <2>3, <2>4, FilterKept DEF Dated, PassTime, tables
  <2> QED BY <1>1, <1>5, <2>3, <2>5 DEF PassTime, tables, TypeOK, Caches
<1> QED BY <1>6, <1>7 DEF PassTime

-----------------------------------------------------------------------------
(* Reports                                                                   *)

LEMMA ReportInv ==
    ASSUME TypeOK, Dated, NEW kind \in {"CONTENT", "FRAUD"}, NEW i \in {0} \cup DOMAIN post,
           InsertReport(kind, i)
    PROVE  TypeOK' /\ Dated'
<1>1. PICK r \in ReportIds :
         /\ DOMAIN report = 1..(r - 1)
         /\ report' = [j \in 1..r |->
               IF j < r THEN report[j] ELSE [kind |-> kind, post |-> i, status |-> "PENDING"]]
  BY DEF InsertReport
<1>2. i \in {0} \cup PostIds
  BY BoundsAssumption DEF PostIds, TypeOK
<1>3. [kind |-> kind, post |-> i, status |-> "PENDING"] \in Report
  BY <1>2 DEF Report
<1>4. \A j \in 1..r : j < r => j \in DOMAIN report
  BY <1>1 DEF ReportIds
<1>5. \A j \in 1..r : j < r => /\ report[j] \in Report
                               /\ report[j].post \in {0} \cup DOMAIN post
  BY <1>4 DEF TypeOK
<1>6. report' \in [1..r -> Report] /\ r \in 0..MaxReport
  BY <1>1, <1>3, <1>5, BoundsAssumption DEF ReportIds
<1>7. \A j \in DOMAIN report' : report'[j].post \in {0} \cup DOMAIN post
  BY <1>1, <1>5
<1>8. Reports'
  BY <1>6, <1>7 DEF Reports, InsertReport
<1>9. Dated'
  BY DEF InsertReport, Dated, Relies, FilterCatchesUp
<1> QED BY <1>8, <1>9 DEF InsertReport, TypeOK, Reports

\* A step of a review: it writes its row, the poster or what he posted.
LEMMA ReviewInv ==
    ASSUME TypeOK, Dated, NEW s \in Slots,
           \/ RemoveContent(s) \/ ReadForEject(s) \/ Eject(s) \/ WriteReview(s)
           \/ RereadReport(s) \/ WriteFraudReview(s) \/ TellReporter(s)
    PROVE  TypeOK' /\ Dated'
<1>1. request[s] \in Request /\ request[s].step \in ReviewSteps
  BY DEF RemoveContent, ReadForEject, Eject, WriteReview, RereadReport, WriteFraudReview,
     TellReporter, At, ReviewSteps, TypeOK
<1>2. request[s].report \in ReportIds /\ request[s].outcome \in Outcome
  BY <1>1, RequestFields
<1>3. PICK q \in Request : Continue(s, q) /\ q.step \in ReviewSteps \cup {"idle"}
  <2>1. ASSUME NEW step \in ReviewSteps, NextStep(s, step)
        PROVE  \E q \in Request : Continue(s, q) /\ q.step \in ReviewSteps \cup {"idle"}
    <3>1. [request[s] EXCEPT !.step = step] \in Request
      BY <1>1, NextStepTyped
    <3>2. [request[s] EXCEPT !.step = step].step = step
      BY <1>1 DEF Request, ReviewSteps, Idle
    <3> QED BY <2>1, <3>1, <3>2 DEF NextStep
  <2>2. ASSUME Finish(s)
        PROVE  \E q \in Request : Continue(s, q) /\ q.step \in ReviewSteps \cup {"idle"}
    BY <2>2, IdleTyped DEF Finish
  <2> QED BY <2>1, <2>2 DEF RemoveContent, ReadForEject, Eject, WriteReview, RereadReport,
             WriteFraudReview, TellReporter, ReviewSteps
<1>4. request' \in [Slots -> Request]
  BY <1>3, HandlerTyped
<1>5. UNCHANGED <<keyword, cache, due, strict, overlapped>>
  BY DEF RemoveContent, ReadForEject, Eject, WriteReview, RereadReport, WriteFraudReview,
     TellReporter, tables
<1>6. Posts' /\ FilterCatchesUp' /\ DOMAIN post' = DOMAIN post
  <2>1. CASE UNCHANGED post
    BY <2>1, FilterKept DEF Posts, TypeOK
  <2>2. CASE RemoveContent(s)
    <3> DEFINE i == report[request[s].report].post
    <3>1. ASSUME NEW row \in Post
          PROVE  /\ [row EXCEPT !.hidden = TRUE] \in Post
                 /\ [row EXCEPT !.hidden = TRUE].words = row.words
                 /\ [row EXCEPT !.hidden = TRUE].strict = row.strict
      BY DEF Post
    <3>2. post' = [post EXCEPT ![i].hidden = TRUE]
      BY <2>2 DEF RemoveContent
    <3>3. PICK n \in 0..MaxPost : post \in [1..n -> Post]
      BY DEF TypeOK
    <3>4. post' \in [1..n -> Post]
      BY <3>1, <3>2, <3>3
    <3>5. \A j \in 1..n : post'[j].words = post[j].words /\ post'[j].strict = post[j].strict
      BY <3>1, <3>2, <3>3
    <3>6. FilterCatchesUp'
      BY <3>3, <3>4, <3>5 DEF FilterCatchesUp, Dated
    <3> QED BY <3>3, <3>4, <3>6 DEF Posts
  <2> QED BY <2>1, <2>2 DEF ReadForEject, Eject, WriteReview, RereadReport,
             WriteFraudReview, TellReporter, tables
<1>7. Reports'
  <2>1. CASE UNCHANGED report
    BY <1>6, <2>1 DEF Reports, TypeOK
  <2>2. CASE WriteVerdict(s)
    <3>1. PICK n \in 0..MaxReport : report \in [1..n -> Report]
      BY DEF TypeOK
    <3>2. request[s].outcome.status \in Verdict
      BY <1>2 DEF Outcome
    <3>3. ASSUME NEW row \in Report, NEW status \in Verdict
          PROVE  /\ [row EXCEPT !.status = status] \in Report
                 /\ [row EXCEPT !.status = status].post = row.post
      BY DEF Report
    <3>4. report' = [report EXCEPT ![request[s].report].status = request[s].outcome.status]
      BY <2>2 DEF WriteVerdict
    <3>5. report' \in [1..n -> Report] /\ \A r \in 1..n : report'[r].post = report[r].post
      BY <3>1, <3>2, <3>3, <3>4
    <3> QED BY <1>6, <3>1, <3>5 DEF Reports, TypeOK
  <2> QED BY <2>1, <2>2 DEF RemoveContent, ReadForEject, Eject, WriteReview, RereadReport,
             WriteFraudReview, TellReporter, tables
<1>8. poster' \in [banned : BOOLEAN, admin : BOOLEAN]
  BY DEF RemoveContent, ReadForEject, Eject, WriteReview, RereadReport, WriteFraudReview,
     TellReporter, tables, TypeOK
<1>9. told' \in [ReportIds -> SUBSET Outcome]
  <2>1. CASE UNCHANGED told
    BY <2>1 DEF TypeOK
  <2>2. CASE TellReporter(s)
    BY <1>2, <2>2 DEF TellReporter, TypeOK
  <2> QED BY <2>1, <2>2 DEF RemoveContent, ReadForEject, Eject, WriteReview, RereadReport,
             WriteFraudReview
<1>10. Dated'
  BY <1>3, <1>5, <1>6, ReliesOnNothing, DatedKept DEF ReviewSteps
<1> QED BY <1>4, <1>5, <1>6, <1>7, <1>8, <1>9, <1>10 DEF TypeOK, Posts, Reports

\* Bans, roles and processes that die
LEMMA OtherInv ==
    ASSUME TypeOK, Dated,
           \/ \E s \in Slots : WriteBanned(s) \/ Crash(s)
           \/ \E admin \in BOOLEAN : SetAdmin(admin)
    PROVE  TypeOK' /\ Dated'
<1>1. ASSUME NEW s \in Slots, WriteBanned(s) \/ Crash(s) PROVE TypeOK' /\ Dated'
  <2>1. request' \in [Slots -> Request] /\ Dated'
    BY <1>1, IdleTyped, HandlerTyped, ReliesOnNothing, DatedKept, FilterKept
       DEF WriteBanned, Crash, Finish, tables
  <2>2. poster' \in [banned : BOOLEAN, admin : BOOLEAN]
    <3>1. CASE WriteBanned(s)
      <4>1. request[s].banned \in BOOLEAN
        BY <3>1, RequestFields DEF WriteBanned, At, TypeOK
      <4> QED BY <3>1, <4>1 DEF WriteBanned, TypeOK
    <3>2. CASE Crash(s)
      BY <3>2 DEF Crash, tables, TypeOK
    <3> QED BY <1>1, <3>1, <3>2
  <2> QED BY <1>1, <2>1, <2>2 DEF WriteBanned, Crash, tables, TypeOK
<1>2. ASSUME NEW admin \in BOOLEAN, SetAdmin(admin) PROVE TypeOK' /\ Dated'
  <2>1. poster' \in [banned : BOOLEAN, admin : BOOLEAN]
    BY <1>2 DEF SetAdmin, TypeOK
  <2>2. Dated'
    BY <1>2 DEF SetAdmin, Dated, Relies, FilterCatchesUp
  <2> QED BY <1>2, <2>1, <2>2 DEF SetAdmin, TypeOK
<1> QED BY <1>1, <1>2

LEMMA NextInv == TypeOK /\ Dated /\ [Next]_vars => TypeOK' /\ Dated'
<1> SUFFICES ASSUME TypeOK, Dated, [Next]_vars PROVE TypeOK' /\ Dated'
  OBVIOUS
<1>1. ASSUME NEW s \in Slots, Step(s) PROVE TypeOK' /\ Dated'
  BY <1>1, CheckInv, ReadInv, FillInv, InsertInv, KeywordInv, ForgetInv, ReviewInv, OtherInv
     DEF Step
<1>2. CASE ReportRoutes
  BY <1>2, ReportInv DEF ReportRoutes, SubmitContent, SubmitFraud, HasOwner
<1>3. CASE \E caches \in SUBSET FreshCaches, reads \in SUBSET FreshReads :
              PassTime(caches, reads)
  BY <1>3, TimeInv
<1>4. CASE UNCHANGED vars
  BY <1>4 DEF vars, tables, TypeOK, Dated, Relies, FilterCatchesUp
<1> QED BY <1>1, <1>2, <1>3, <1>4, BeginInv, OtherInv DEF Next, Elsewhere

\* In every behaviour of the moderation, what is fresh has every keyword that is
\* due, and every text is compared with it.
THEOREM Invariance == Spec => [](TypeOK /\ Dated)
<1> QED BY InitInv, NextInv, PTL DEF Spec

\* The tables, the caches and the handlers have their types.
THEOREM TypeCorrect == Spec => []TypeOK
<1> QED BY Invariance, PTL

\* A text is never posted with a keyword that was due when its check began, in
\* whatever process and with whatever races.
THEOREM FilterSafety == Spec => []FilterCatchesUp
<1>1. Dated => FilterCatchesUp
  BY DEF Dated
<1> QED BY <1>1, Invariance, PTL
-----------------------------------------------------------------------------
(* What a reporter is told                                                   *)

\* The content that is reported is there, hidden or not.
Filed == \A r \in DOMAIN report : report[r].kind = "CONTENT" => report[r].post \in DOMAIN post

\* Of a report that is not reviewed nobody was told an outcome.
Untold ==
    \A r \in ReportIds :
        r \notin DOMAIN report \/ report[r].status = "PENDING" => told[r] = {}

\* What a review knows of its report, whatever races with it: its content is
\* hidden from the first step on, and the outcome is told after a review.
Knows(q) ==
    q.step \in ReviewSteps =>
        /\ q.report \in DOMAIN report
        /\ q.step = "remove" => report[q.report].kind = "CONTENT"
        /\ q.outcome.status = "ACTIONED" /\ q.step # "remove" =>
              /\ report[q.report].kind = "CONTENT"
              /\ post[report[q.report].post].hidden
        /\ q.step \in {"eject", "ban"} =>
              report[q.report].kind = "CONTENT" \/ report[q.report].status # "PENDING"
        /\ q.step = "tell" => report[q.report].status # "PENDING"

\* ... and what it knows of it when no other handler was in flight
KnowsAlone(q) ==
    q.step \in ReviewSteps =>
        /\ told[q.report] = {}
        /\ q.step \in {"eject", "ban"} =>
              \/ report[q.report].kind = "CONTENT"
              \/ report[q.report].status = q.outcome.status
        /\ q.step = "tell" => report[q.report].status = q.outcome.status
        /\ q.step \in {"review", "tell"} /\ q.outcome.blocked => poster.banned

Alone == ~overlapped => \A s, t \in Slots : ~At(s, "idle") /\ ~At(t, "idle") => s = t

Honest ==
    /\ Filed /\ Untold /\ Alone
    /\ \A s \in Slots : Knows(request[s])
    /\ ~overlapped => \A s \in Slots : KnowsAlone(request[s])

\* Reports stay, and so does what becomes of them and of the posts.
Lasts ==
    /\ DOMAIN report \subseteq DOMAIN report'
    /\ DOMAIN post \subseteq DOMAIN post'
    /\ \A r \in DOMAIN report :
          /\ report'[r].kind = report[r].kind
          /\ report'[r].post = report[r].post
          /\ report'[r].status = "PENDING" => report[r].status = "PENDING"
    /\ \A i \in DOMAIN post : post[i].hidden => post'[i].hidden

\* The other handlers, as far as a step of s is concerned
Others(s) ==
    /\ overlapped => overlapped'
    /\ ~overlapped' => \A t \in Slots : t # s => At(t, "idle")

LEMMA KnowsKept == ASSUME Filed, Lasts, NEW q, Knows(q) PROVE Knows(q)'
BY DEF Filed, Lasts, Knows

\* A handler continues with q: the others know what they knew.
LEMMA HonestKept ==
    ASSUME TypeOK, Honest, NEW s \in Slots, NEW q, Continue(s, q), Lasts, Others(s),
           Filed', Untold', Knows(q)', ~overlapped' => KnowsAlone(q)'
    PROVE  Honest'
<1>1. \A t \in Slots : request'[t] = IF t = s THEN q ELSE request[t]
  BY DEF Continue, TypeOK
<1>2. Alone'
  BY <1>1 DEF Alone, Others, At
<1>3. \A t \in Slots : Knows(request[t])'
  <2> SUFFICES ASSUME NEW t \in Slots PROVE Knows(request[t])'
    OBVIOUS
  <2>1. PICK r : r = request'[t]
    OBVIOUS
  <2>2. Knows(r)'
    <3>1. CASE t = s
      BY <1>1, <2>1, <3>1
    <3>2. CASE t # s
      BY <1>1, <2>1, <3>2, KnowsKept DEF Honest
    <3> QED BY <3>1, <3>2
  <2> QED BY <2>1, <2>2 DEF Knows
<1>4. ~overlapped' => \A t \in Slots : KnowsAlone(request[t])'
  BY <1>1 DEF KnowsAlone, Others, At, ReviewSteps
<1> QED BY <1>2, <1>3, <1>4 DEF Honest

LEMMA InFlight ==
    ASSUME Honest, NEW s \in Slots, ~At(s, "idle"), overlapped' = overlapped
    PROVE  Others(s)
BY DEF Honest, Alone, Others

LEMMA Overlaps ==
    ASSUME NEW s \in Slots,
           overlapped' = (overlapped \/ \E t \in Slots \ {s} : ~At(t, "idle"))
    PROVE  Others(s)
BY DEF Others

\* A handler that reviews nothing leaves what the others know.
LEMMA QuietKept ==
    ASSUME TypeOK, Honest, NEW s \in Slots, NEW q, Continue(s, q), q.step \notin ReviewSteps,
           Others(s), UNCHANGED <<report, told>>, DOMAIN post \subseteq DOMAIN post',
           \A i \in DOMAIN post : post[i].hidden => post'[i].hidden
    PROVE  Honest'
<1>1. Lasts
  BY DEF Lasts
<1>2. Filed' /\ Untold'
  BY DEF Honest, Filed, Untold
<1>3. Knows(q)' /\ KnowsAlone(q)'
  BY DEF Knows, KnowsAlone
<1> QED BY <1>1, <1>2, <1>3, HonestKept

LEMMA InitHonest == Init => Honest
<1> SUFFICES ASSUME Init PROVE Honest
  OBVIOUS
<1>1. \A s \in Slots : request[s].step = "idle"
  BY IdleTyped DEF Init
<1>2. Filed /\ Untold
  BY DEF Init, Filed, Untold
<1> QED BY <1>1, <1>2 DEF Honest, Alone, Knows, KnowsAlone, At, ReviewSteps

\* A review begins with a report that waits for one: nobody was told anything.
LEMMA ReviewStarts ==
    ASSUME TypeOK, Honest, NEW s \in Slots, NEW step \in {"remove", "review", "reread"},
           NEW r \in ReportIds, NEW outcome, Start(s, Reviewing(step, r, outcome)),
           MayReview(r),
           step = "remove" => report[r].kind = "CONTENT",
           outcome.status = "ACTIONED" => step = "remove",
           step = "review" => ~outcome.blocked
    PROVE  Honest'
<1> DEFINE q == Reviewing(step, r, outcome)
<1>1. q.step = step /\ q.report = r /\ q.outcome = outcome
  BY DEF Reviewing
<1> HIDE DEF q
<1>2. Continue(s, q) /\ UNCHANGED <<post, report, told, poster>> /\ Others(s)
  BY Overlaps DEF Start, tables, q
<1>3. Lasts /\ Filed' /\ Untold'
  BY <1>2 DEF Lasts, Honest, Filed, Untold
<1>4. r \in DOMAIN report /\ told[r] = {}
  BY DEF MayReview, Honest, Untold
<1>5. Knows(q)'
  BY <1>1, <1>2, <1>4 DEF Knows
<1>6. KnowsAlone(q)'
  BY <1>1, <1>2, <1>4 DEF KnowsAlone
<1> QED BY <1>2, <1>3, <1>5, <1>6, HonestKept

LEMMA BeginHonest == ASSUME TypeOK, Honest, NEW s \in Slots, Begin(s) PROVE Honest'
<1>1. ASSUME NEW q, Start(s, q), q.step \notin ReviewSteps PROVE Honest'
  BY <1>1, QuietKept, Overlaps DEF Start, tables
<1>2. CASE ContentReviewRoutes(s)
  <2>1. PICK r \in ReportIds :
           DismissContent(s, r) \/ \E eject \in BOOLEAN : ActionContent(s, r, eject)
    BY <1>2 DEF ContentReviewRoutes
  <2>2. CASE DismissContent(s, r)
    BY <2>2, ReviewStarts DEF DismissContent
  <2>3. ASSUME NEW eject \in BOOLEAN, ActionContent(s, r, eject) PROVE Honest'
    BY <2>3, ReviewStarts DEF ActionContent
  <2> QED BY <2>1, <2>2, <2>3
<1>3. CASE FraudReviewRoutes(s)
  <2>1. PICK r \in ReportIds :
           DismissFraud(s, r) \/ \E block \in BOOLEAN : ConfirmFraud(s, r, block)
    BY <1>3 DEF FraudReviewRoutes
  <2>2. CASE DismissFraud(s, r)
    BY <2>2, ReviewStarts DEF DismissFraud
  <2>3. ASSUME NEW block \in BOOLEAN, ConfirmFraud(s, r, block) PROVE Honest'
    BY <2>3, ReviewStarts DEF ConfirmFraud
  <2> QED BY <2>1, <2>2, <2>3
<1>4. CASE KeywordRoutes(s)
  <2>1. ASSUME NEW p \in Processes, SeedKeywords(s, p) PROVE Honest'
    <3>1. Continue(s, [step |-> "keyword.forget", process |-> p])
      BY <2>1 DEF SeedKeywords
    <3> QED BY <2>1, <3>1, QuietKept, Overlaps DEF SeedKeywords, ReviewSteps
  <2>2. ASSUME NEW p \in Processes, NEW k \in Keywords,
               NEW step \in {"keyword.add", "keyword.drop"}, BeginKeyword(s, step, k, p)
        PROVE  Honest'
    BY <1>1, <2>2 DEF BeginKeyword, ReviewSteps
  <2> QED BY <1>4, <2>1, <2>2 DEF KeywordRoutes
<1>5. CASE BanRoutes(s)
  BY <1>1, <1>5 DEF BanRoutes, BeginSetBanned, ReviewSteps
<1>6. ASSUME NEW words \in SUBSET Keywords, NEW p \in Processes, BeginPost(s, words, p)
      PROVE  Honest'
  BY <1>1, <1>6 DEF BeginPost, ReviewSteps
<1> QED BY <1>2, <1>3, <1>4, <1>5, <1>6 DEF Begin

\* The steps of a handler that reviews nothing, and the end of one
LEMMA QuietHonest ==
    ASSUME TypeOK, Honest, NEW s \in Slots,
           \/ CheckPost(s) \/ ReadKeywords(s) \/ FillCache(s) \/ InsertPost(s)
           \/ AddKeyword(s) \/ DropKeyword(s) \/ ForgetCache(s)
           \/ WriteBanned(s) \/ Crash(s)
    PROVE  Honest'
<1>1. Others(s)
  BY InFlight DEF CheckPost, ReadKeywords, FillCache, InsertPost, AddKeyword, DropKeyword,
     ForgetCache, WriteBanned, Crash, At
<1>2. UNCHANGED <<report, told>>
  BY DEF CheckPost, ReadKeywords, FillCache, InsertPost, AddKeyword, DropKeyword,
     ForgetCache, WriteBanned, Crash, tables
<1>3. /\ DOMAIN post \subseteq DOMAIN post'
      /\ \A i \in DOMAIN post : post[i].hidden => post'[i].hidden
  <2>1. CASE UNCHANGED post
    BY <2>1
  <2>2. CASE InsertPost(s)
    <3>1. PICK i \in PostIds :
             /\ DOMAIN post = 1..(i - 1)
             /\ post' = [j \in 1..i |->
                   IF j < i THEN post[j]
                   ELSE [words |-> request[s].words, hidden |-> FALSE,
                         strict |-> strict[s]]]
      BY <2>2 DEF InsertPost
    <3> QED BY <3>1 DEF PostIds
  <2> QED BY <2>1, <2>2 DEF CheckPost, ReadKeywords, FillCache, AddKeyword, DropKeyword,
             ForgetCache, WriteBanned, Crash, tables
<1>4. \E q : Continue(s, q) /\ q.step \notin ReviewSteps
  <2>1. ASSUME Finish(s) PROVE \E q : Continue(s, q) /\ q.step \notin ReviewSteps
    BY <2>1, IdleTyped DEF Finish, ReviewSteps
  <2>2. \A q, list : Compared(q, list).step \notin ReviewSteps
    BY IdleTyped DEF Compared, ReviewSteps
  <2>3. CASE CheckPost(s)
    <3> DEFINE p == request[s]
               c == cache[p.process]
               q == IF c.fresh THEN Compared(p, c.list)
                    ELSE [step |-> "post.read", words |-> p.words,
                          process |-> p.process, fresh |-> TRUE]
    <3>1. Continue(s, q)
      BY <2>3 DEF CheckPost
    <3>2. q.step \notin ReviewSteps
      BY <2>2 DEF ReviewSteps
    <3> QED BY <3>1, <3>2
  <2>4. CASE ReadKeywords(s)
    BY <2>4 DEF ReadKeywords, ReviewSteps
  <2>5. CASE FillCache(s)
    BY <2>2, <2>5 DEF FillCache
  <2>6. CASE AddKeyword(s) \/ DropKeyword(s)
    BY <2>6 DEF AddKeyword, DropKeyword, ReviewSteps
  <2>7. CASE InsertPost(s) \/ ForgetCache(s) \/ WriteBanned(s) \/ Crash(s)
    BY <2>1, <2>7 DEF InsertPost, ForgetCache, WriteBanned, Crash
  <2> QED BY <2>3, <2>4, <2>5, <2>6, <2>7
<1> QED BY <1>1, <1>2, <1>3, <1>4, QuietKept
\* A review that goes on keeps its report and its outcome.
LEMMA GoesOn ==
    ASSUME NEW q \in Request, q.step \in ReviewSteps, NEW step
    PROVE  /\ [q EXCEPT !.step = step].step = step
           /\ [q EXCEPT !.step = step].report = q.report
           /\ [q EXCEPT !.step = step].outcome = q.outcome
BY DEF Request, Idle, ReviewSteps

\* The verdict is written to the report of the handler.
LEMMA VerdictWritten ==
    ASSUME TypeOK, NEW s \in Slots, request[s].step \in ReviewSteps, WriteVerdict(s)
    PROVE  /\ DOMAIN report' = DOMAIN report
           /\ \A r \in DOMAIN report :
                 /\ report'[r].kind = report[r].kind
                 /\ report'[r].post = report[r].post
                 /\ report'[r].status = IF r = request[s].report
                                        THEN request[s].outcome.status
                                        ELSE report[r].status
           /\ request[s].outcome.status \in Verdict /\ "PENDING" \notin Verdict
<1>1. request[s].outcome \in Outcome
  BY RequestFields DEF TypeOK
<1>2. ASSUME NEW row \in Report, NEW status
      PROVE  /\ [row EXCEPT !.status = status].kind = row.kind
             /\ [row EXCEPT !.status = status].post = row.post
             /\ [row EXCEPT !.status = status].status = status
  BY DEF Report
<1>3. \A r \in DOMAIN report : report[r] \in Report
  BY DEF TypeOK
<1> QED BY <1>1, <1>2, <1>3 DEF WriteVerdict, Outcome, Verdict

\* A review goes on with a step, and with what it knows by then.
LEMMA ReviewKept ==
    ASSUME TypeOK, Honest, NEW s \in Slots, request[s].step \in ReviewSteps,
           overlapped' = overlapped, UNCHANGED told, Lasts, Filed', Untold',
           NEW step, NextStep(s, step),
           \A q : /\ q.step = step
                  /\ q.report = request[s].report
                  /\ q.outcome = request[s].outcome
                  => Knows(q)' /\ (~overlapped' => KnowsAlone(q)')
    PROVE  Honest'
<1>1. request[s] \in Request
  BY DEF TypeOK
<1>2. PICK q : q = [request[s] EXCEPT !.step = step]
  OBVIOUS
<1>3. /\ q.step = step /\ q.report = request[s].report /\ q.outcome = request[s].outcome
      /\ Continue(s, q)
  BY <1>1, <1>2, GoesOn DEF NextStep
<1>4. Others(s)
  BY InFlight DEF At, ReviewSteps
<1>5. Knows(q)' /\ (~overlapped' => KnowsAlone(q)')
  BY <1>3
<1> QED BY <1>3, <1>4, <1>5, HonestKept

LEMMA RemoveHonest ==
    ASSUME TypeOK, Honest, NEW s \in Slots, RemoveContent(s) PROVE Honest'
<1> DEFINE r == request[s].report
           i == report[r].post
           step == IF request[s].outcome.blocked THEN "eject" ELSE "review"
<1>1. /\ At(s, "remove") /\ NextStep(s, step)
      /\ UNCHANGED <<report, told, poster, overlapped>>
      /\ post' = [post EXCEPT ![i].hidden = TRUE]
  BY DEF RemoveContent
<1>2. r \in DOMAIN report /\ report[r].kind = "CONTENT" /\ i \in DOMAIN post
  BY <1>1 DEF Honest, Knows, Filed, At, ReviewSteps
<1>3. \A j \in DOMAIN post : post[j] \in Post
  BY DEF TypeOK
<1>4. /\ DOMAIN post' = DOMAIN post /\ post'[i].hidden
      /\ \A j \in DOMAIN post : post[j].hidden => post'[j].hidden
  BY <1>1, <1>2, <1>3 DEF Post
<1>5. Lasts /\ Filed' /\ Untold'
  BY <1>1, <1>4 DEF Lasts, Honest, Filed, Untold
<1>6. ~overlapped => told[r] = {}
  BY <1>1 DEF Honest, KnowsAlone, At, ReviewSteps
<1> HIDE DEF i, r, step
<1>9. /\ step \in {"eject", "review"}
      /\ step = "review" => ~request[s].outcome.blocked
  BY DEF step
<1>7. ASSUME NEW q, q.step = step, q.report = r, q.outcome = request[s].outcome
      PROVE  Knows(q)' /\ (~overlapped' => KnowsAlone(q)')
  <2>1. Knows(q)'
    BY <1>1, <1>2, <1>4, <1>7, <1>9 DEF Knows, i
  <2>2. ~overlapped => KnowsAlone(q)'
    BY <1>1, <1>2, <1>6, <1>7, <1>9 DEF KnowsAlone
  <2> QED BY <1>1, <2>1, <2>2
<1>8. request[s].step \in ReviewSteps
  BY <1>1 DEF At, ReviewSteps
<1> QED BY <1>1, <1>5, <1>7, <1>8, ReviewKept DEF r

\* The poster is read, and banned; a report of fraud is reviewed by then.
LEMMA EjectHonest ==
    ASSUME TypeOK, Honest, NEW s \in Slots, ReadForEject(s) \/ Eject(s) PROVE Honest'
<1>1. /\ request[s].step \in {"eject", "ban"}
      /\ UNCHANGED <<report, told, post, overlapped>>
      /\ request[s].step \in ReviewSteps
  BY DEF ReadForEject, Eject, At, tables, ReviewSteps
<1>2. Lasts /\ Filed' /\ Untold'
  BY <1>1 DEF Lasts, Honest, Filed, Untold
<1>3. Knows(request[s]) /\ (~overlapped => KnowsAlone(request[s]))
  BY DEF Honest
<1>4. CASE Finish(s)
  <2>1. Others(s)
    BY <1>1, InFlight DEF At
  <2> QED BY <1>1, <1>4, <2>1, IdleTyped, QuietKept DEF Finish, ReviewSteps
<1>5. CASE NextStep(s, "ban")
  <2>1. request[s].step = "eject" /\ UNCHANGED poster
    <3>1. CASE ReadForEject(s)
      BY <3>1 DEF ReadForEject, At, tables
    <3>2. CASE Eject(s)
      <4>1. NextStep(s, "review") \/ NextStep(s, "tell")
        BY <3>2 DEF Eject
      <4>2. request[s] \in Request
        BY DEF TypeOK
      <4>3. request'[s].step \in {"review", "tell"} /\ request'[s].step = "ban"
        BY <1>1, <1>5, <4>1, <4>2, GoesOn DEF NextStep, Continue, TypeOK
      <4> QED BY <4>3
    <3> QED BY <3>1, <3>2
  <2>2. ASSUME NEW q, q.step = "ban", q.report = request[s].report,
               q.outcome = request[s].outcome
        PROVE  Knows(q)' /\ (~overlapped' => KnowsAlone(q)')
    BY <1>1, <1>3, <2>1, <2>2 DEF Knows, KnowsAlone
  <2> QED BY <1>1, <1>2, <1>5, <2>2, ReviewKept
<1>6. CASE Eject(s)
  <2> DEFINE step == IF report[request[s].report].kind = "CONTENT"
                     THEN "review" ELSE "tell"
  <2>1. At(s, "ban") /\ NextStep(s, step) /\ poster'.banned = TRUE
    BY <1>6 DEF Eject, TypeOK
  <2>2. ASSUME NEW q, q.step = step, q.report = request[s].report,
               q.outcome = request[s].outcome
        PROVE  Knows(q)' /\ (~overlapped' => KnowsAlone(q)')
    <3>1. Knows(q)'
      BY <1>1, <1>3, <2>1, <2>2 DEF Knows, At
    <3>2. ~overlapped => KnowsAlone(q)'
      BY <1>1, <1>3, <2>1, <2>2 DEF KnowsAlone, At
    <3> QED BY <1>1, <3>1, <3>2
  <2> HIDE DEF step
  <2> QED BY <1>1, <1>2, <2>1, <2>2, ReviewKept
<1> QED BY <1>4, <1>5, <1>6 DEF ReadForEject

\* The verdict is written: from now on the report is reviewed.
LEMMA VerdictHonest ==
    ASSUME TypeOK, Honest, NEW s \in Slots, WriteReview(s) \/ WriteFraudReview(s)
    PROVE  Honest'
<1> DEFINE r == request[s].report
<1>1. /\ request[s].step \in {"review", "confirm"} /\ WriteVerdict(s)
      /\ UNCHANGED <<told, post, poster, overlapped>>
      /\ request[s].step \in ReviewSteps
  BY DEF WriteReview, WriteFraudReview, At, ReviewSteps
<1>2. Knows(request[s]) /\ (~overlapped => KnowsAlone(request[s]))
  BY DEF Honest
<1>3. PICK step \in {"eject", "tell"} :
         /\ NextStep(s, step)
         /\ step = "tell" /\ request[s].outcome.blocked => request[s].step = "review"
  BY DEF WriteReview, WriteFraudReview, At
<1>4. /\ DOMAIN report' = DOMAIN report
      /\ \A x \in DOMAIN report :
            /\ report'[x].kind = report[x].kind
            /\ report'[x].post = report[x].post
            /\ report'[x].status = IF x = r THEN request[s].outcome.status
                                   ELSE report[x].status
      /\ request[s].outcome.status # "PENDING"
  BY <1>1, VerdictWritten
<1>5. r \in DOMAIN report
  BY <1>1, <1>2 DEF Knows
<1>6. Lasts /\ Filed' /\ Untold'
  BY <1>1, <1>4 DEF Lasts, Honest, Filed, Untold
<1>7. ASSUME NEW q, q.step = step, q.report = r, q.outcome = request[s].outcome
      PROVE  Knows(q)' /\ (~overlapped' => KnowsAlone(q)')
  <2>1. Knows(q)'
    BY <1>1, <1>2, <1>4, <1>5, <1>7 DEF Knows
  <2>2. ~overlapped => KnowsAlone(q)'
    BY <1>1, <1>2, <1>3, <1>4, <1>5, <1>7 DEF KnowsAlone
  <2> QED BY <1>1, <2>1, <2>2
<1> QED BY <1>1, <1>3, <1>6, <1>7, ReviewKept

\* The transaction of a fraud review looks at the status again.
LEMMA RereadHonest ==
    ASSUME TypeOK, Honest, NEW s \in Slots, RereadReport(s) PROVE Honest'
<1>1. /\ request[s].step = "reread" /\ request[s].step \in ReviewSteps
      /\ UNCHANGED <<report, told, post, poster, overlapped>>
  BY DEF RereadReport, At, tables, ReviewSteps
<1>2. Knows(request[s]) /\ (~overlapped => KnowsAlone(request[s]))
  BY DEF Honest
<1>3. CASE Finish(s)
  <2>1. Others(s)
    BY <1>1, InFlight DEF At
  <2> QED BY <1>1, <1>3, <2>1, IdleTyped, QuietKept DEF Finish, ReviewSteps
<1>4. CASE NextStep(s, "confirm")
  <2>1. Lasts /\ Filed' /\ Untold'
    BY <1>1 DEF Lasts, Honest, Filed, Untold
  <2>2. ASSUME NEW q, q.step = "confirm", q.report = request[s].report,
               q.outcome = request[s].outcome
        PROVE  Knows(q)' /\ (~overlapped' => KnowsAlone(q)')
    BY <1>1, <1>2, <2>2 DEF Knows, KnowsAlone
  <2> QED BY <1>1, <1>4, <2>1, <2>2, ReviewKept
<1> QED BY <1>3, <1>4 DEF RereadReport

\* A reporter is told the outcome of a report that is reviewed.
LEMMA TellHonest ==
    ASSUME TypeOK, Honest, NEW s \in Slots, TellReporter(s) PROVE Honest'
<1>1. /\ request[s].step = "tell" /\ request[s].step \in ReviewSteps
      /\ UNCHANGED <<report, post, overlapped>> /\ Continue(s, Idle)
      /\ \A r \in ReportIds : r # request[s].report => told'[r] = told[r]
  BY DEF TellReporter, At, tables, ReviewSteps, Finish, TypeOK
<1>2. /\ request[s].report \in DOMAIN report
      /\ report[request[s].report].status # "PENDING"
  BY <1>1 DEF Honest, Knows
<1>3. Lasts /\ Filed' /\ Untold'
  BY <1>1, <1>2 DEF Lasts, Honest, Filed, Untold
<1>4. Others(s)
  BY <1>1, InFlight DEF At
<1>5. Knows(Idle)' /\ KnowsAlone(Idle)'
  BY IdleTyped DEF Knows, KnowsAlone, ReviewSteps
<1> QED BY <1>1, <1>3, <1>4, <1>5, HonestKept

\* A user reports what is there, or another user: nobody was told of it yet.
LEMMA ReportHonest ==
    ASSUME TypeOK, Honest, NEW kind \in {"CONTENT", "FRAUD"}, NEW i,
           kind = "CONTENT" => i \in DOMAIN post, InsertReport(kind, i)
    PROVE  Honest'
<1>1. PICK r \in ReportIds :
         /\ DOMAIN report = 1..(r - 1)
         /\ report' = [j \in 1..r |->
               IF j < r THEN report[j] ELSE [kind |-> kind, post |-> i, status |-> "PENDING"]]
  BY DEF InsertReport
<1>2. UNCHANGED <<post, poster, request, told, overlapped>>
  BY DEF InsertReport
<1>3. /\ DOMAIN report' = DOMAIN report \cup {r} /\ r \notin DOMAIN report
      /\ \A j \in DOMAIN report : report'[j] = report[j]
      /\ report'[r] = [kind |-> kind, post |-> i, status |-> "PENDING"]
  BY <1>1 DEF ReportIds
<1>4. Lasts
  BY <1>2, <1>3 DEF Lasts
<1>5. Filed' /\ Untold'
  BY <1>2, <1>3 DEF Honest, Filed, Untold
<1>6. Alone'
  BY <1>2 DEF Honest, Alone, At
<1>7. \A s \in Slots : Knows(request[s])'
  <2> SUFFICES ASSUME NEW s \in Slots PROVE Knows(request[s])'
    OBVIOUS
  <2>1. PICK q : q = request[s]
    OBVIOUS
  <2>2. Knows(q)'
    BY <1>4, <2>1, KnowsKept DEF Honest
  <2> QED BY <1>2, <2>1, <2>2 DEF Knows
<1>8. ~overlapped => \A s \in Slots : KnowsAlone(request[s])'
  <2> SUFFICES ASSUME ~overlapped, NEW s \in Slots PROVE KnowsAlone(request[s])'
    OBVIOUS
  <2>1. Knows(request[s]) /\ KnowsAlone(request[s])
    BY DEF Honest
  <2> QED BY <1>2, <1>3, <2>1 DEF Knows, KnowsAlone
<1> QED BY <1>2, <1>5, <1>6, <1>7, <1>8 DEF Honest

\* Roles change and time passes: no review is concerned.
LEMMA OutsideHonest ==
    ASSUME TypeOK, Honest,
           \/ \E admin \in BOOLEAN : SetAdmin(admin)
           \/ \E caches \in SUBSET FreshCaches, reads \in SUBSET FreshReads :
                 PassTime(caches, reads)
           \/ UNCHANGED vars
    PROVE  Honest'
<1>1. UNCHANGED <<report, told, post, overlapped>> /\ poster'.banned = poster.banned
  BY DEF SetAdmin, PassTime, vars, tables, TypeOK
<1>2. \A s \in Slots : \/ request'[s] = request[s]
                       \/ /\ request[s].step \in ReadSteps
                          /\ request'[s].step = request[s].step
  <2>1. ASSUME NEW caches \in SUBSET FreshCaches, NEW reads \in SUBSET FreshReads,
               PassTime(caches, reads), NEW s \in Slots
        PROVE  \/ request'[s] = request[s]
               \/ /\ request[s].step \in ReadSteps
                  /\ request'[s].step = request[s].step
    <3>1. request[s] \in Request
      BY DEF TypeOK
    <3>2. s \in reads => request[s].step \in ReadSteps
      BY DEF FreshReads, ReadSteps
    <3>3. request'[s] = IF s \in reads THEN [request[s] EXCEPT !.fresh = FALSE]
                        ELSE request[s]
      BY <2>1 DEF PassTime
    <3> QED BY <3>1, <3>2, <3>3, AgedTyped
  <2> QED BY <2>1 DEF SetAdmin, vars
<1>3. Filed' /\ Untold'
  BY <1>1 DEF Honest, Filed, Untold
<1>4. Alone'
  BY <1>1, <1>2 DEF Honest, Alone, At
<1>5. \A s \in Slots : Knows(request[s])'
  <2> SUFFICES ASSUME NEW s \in Slots PROVE Knows(request[s])'
    OBVIOUS
  <2>1. Knows(request[s])
    BY DEF Honest
  <2> QED BY <1>1, <1>2, <2>1 DEF Knows, ReadSteps, ReviewSteps
<1>6. ~overlapped => \A s \in Slots : KnowsAlone(request[s])'
  <2> SUFFICES ASSUME ~overlapped, NEW s \in Slots PROVE KnowsAlone(request[s])'
    OBVIOUS
  <2>1. KnowsAlone(request[s])
    BY DEF Honest
  <2> QED BY <1>1, <1>2, <2>1 DEF KnowsAlone, ReadSteps, ReviewSteps
<1> QED BY <1>1, <1>3, <1>4, <1>5, <1>6 DEF Honest

LEMMA NextHonest == TypeOK /\ Honest /\ [Next]_vars => Honest'
<1> SUFFICES ASSUME TypeOK, Honest, [Next]_vars PROVE Honest'
  OBVIOUS
<1>1. ASSUME NEW s \in Slots, Begin(s) \/ Step(s) \/ Crash(s) PROVE Honest'
  BY <1>1, BeginHonest, QuietHonest, RemoveHonest, EjectHonest, VerdictHonest,
     RereadHonest, TellHonest DEF Step
<1>2. CASE ReportRoutes
  <2>1. ASSUME NEW i \in PostIds, HasOwner(i), InsertReport("CONTENT", i) PROVE Honest'
    BY <2>1, ReportHonest DEF HasOwner
  <2>2. CASE InsertReport("FRAUD", 0)
    BY <2>2, ReportHonest
  <2> QED BY <1>2, <2>1, <2>2 DEF ReportRoutes, SubmitContent, SubmitFraud
<1> QED BY <1>1, <1>2, OutsideHonest DEF Next, Elsewhere

\* In every behaviour a review knows what its reporter will be told: the content
\* it removed stays hidden, and with no other handler in flight the verdict it
\* wrote is the one in the table.
THEOREM Honesty == Spec => [](TypeOK /\ Honest)
<1>1. Init => TypeOK /\ Honest
  BY InitInv, InitHonest
<1>2. TypeOK /\ Dated /\ Honest /\ [Next]_vars => Honest'
  BY NextHonest
<1> QED BY <1>1, <1>2, Invariance, PTL DEF Spec

\* What a reporter is told is true when he is told it: "actioned" only once the
\* content is gone, however the reviews of ContentReportRepository.review race;
\* and while no two handlers overlap he is told once, what the table says, and
\* after the ban that it speaks of.
THEOREM OutcomeSafety == Spec => OutcomesAreTrue
<1> DEFINE Told == \A r \in ReportIds : \A outcome \in told'[r] \ told[r] :
                      /\ outcome.status = "ACTIONED" => post[report[r].post].hidden
                      /\ ~overlapped =>
                            /\ told[r] = {}
                            /\ report[r].status = outcome.status
                            /\ outcome.blocked => poster.banned
<1>1. TypeOK /\ Honest /\ [Next]_vars => [Told]_vars
  <2> SUFFICES ASSUME TypeOK, Honest, [Next]_vars PROVE Told \/ UNCHANGED vars
    OBVIOUS
  <2>1. CASE UNCHANGED told
    BY <2>1
  <2>2. ASSUME NEW s \in Slots, TellReporter(s) PROVE Told
    <3> SUFFICES ASSUME NEW r \in ReportIds, NEW outcome \in told'[r] \ told[r]
                 PROVE  /\ outcome.status = "ACTIONED" => post[report[r].post].hidden
                        /\ ~overlapped =>
                              /\ told[r] = {}
                              /\ report[r].status = outcome.status
                              /\ outcome.blocked => poster.banned
      OBVIOUS
    <3>1. r = request[s].report /\ outcome = request[s].outcome
      BY <2>2 DEF TellReporter, TypeOK
    <3>2. request[s].step = "tell" /\ "tell" \in ReviewSteps
      BY <2>2 DEF TellReporter, At, ReviewSteps
    <3>3. Knows(request[s]) /\ (~overlapped => KnowsAlone(request[s]))
      BY DEF Honest
    <3> QED BY <3>1, <3>2, <3>3 DEF Knows, KnowsAlone
  <2>3. ASSUME NEW s \in Slots, Begin(s) PROVE UNCHANGED told
    BY <2>3 DEF Begin, ContentReviewRoutes, KeywordRoutes, FraudReviewRoutes, BanRoutes,
       DismissContent, ActionContent, DismissFraud, ConfirmFraud, BeginSetBanned,
       BeginKeyword, SeedKeywords, BeginPost, Start
  <2>4. ASSUME NEW s \in Slots, Step(s), ~TellReporter(s) PROVE UNCHANGED told
    BY <2>4 DEF Step, CheckPost, ReadKeywords, FillCache, InsertPost, AddKeyword,
       DropKeyword, ForgetCache, RemoveContent, ReadForEject, Eject, WriteReview,
       RereadReport, WriteFraudReview, WriteBanned
  <2>5. CASE Elsewhere \/ UNCHANGED vars
    BY <2>5 DEF Elsewhere, ReportRoutes, SubmitContent, SubmitFraud, InsertReport,
       SetAdmin, PassTime, vars
  <2>6. ASSUME NEW s \in Slots, Crash(s) PROVE UNCHANGED told
    BY <2>6 DEF Crash
  <2> HIDE DEF Told
  <2> QED BY <2>1, <2>2, <2>3, <2>4, <2>5, <2>6 DEF Next, Told
<1>2. Spec => [][Told]_vars
  BY <1>1, Honesty, PTL DEF Spec
<1> QED BY <1>2 DEF OutcomesAreTrue

=============================================================================
