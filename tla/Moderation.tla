------------------------------ MODULE Moderation ------------------------------
(***************************************************************************)
(* What a user may post, and what becomes of what he posted: the keyword   *)
(* filter with its cache in every process, content reports, fraud reports  *)
(* and the bans that follow from them.                                     *)
(*                                                                         *)
(* One user posts, others report, the admins review.  A handler is a       *)
(* sequence of steps that end at its awaits.  A text is the set of the     *)
(* keywords it contains.  Sixty seconds are an event: what is older than   *)
(* they are is no longer fresh.                                            *)
(*                                                                         *)
(* A post is a chat message of type TEXT or a new listing.  Two texts do   *)
(* not pass the filter in the code, and are left out: the content of an    *)
(* IMAGE message, which may be anything, and the text of a listing that is *)
(* updated.  So are reviews and profiles as targets of a report (a review  *)
(* is hidden like a message, of a profile nothing is removed); blocks      *)
(* between users; the lists of the reports; the terms of use;              *)
(* notifications but the one that tells the reporter the outcome; the      *)
(* version of the tokens (Accounts).                                       *)
(***************************************************************************)
EXTENDS Integers, FiniteSets

CONSTANTS
    Keywords,   \* the keywords an admin may add; DEFAULT_KEYWORDS are some
    Default,    \* the keywords of DEFAULT_KEYWORDS
    Processes,  \* the processes of the server
    Slots,      \* handlers that can be in flight at the same time
    MaxPost,    \* bound on the posts
    MaxReport,  \* bound on the reports
    MayCrash    \* can a process die between two steps of a handler?

ASSUME KeywordsAssumption == Default \subseteq Keywords
ASSUME BoundsAssumption == MaxPost \in Nat /\ MaxReport \in Nat
ASSUME SwitchAssumption == MayCrash \in BOOLEAN

VARIABLES
    keyword,     \* content_filter_keywords: the active ones and the rows there are
    cache,       \* process -> its keywords, and whether they are younger than 60 s
    poster,      \* isBanned and adminRoleId of the poster
    post,        \* listings and chat messages: id -> row
    report,      \* both tables of reports: id -> row
    request,     \* slot -> the handler in flight and its local variables
    told,        \* history: id -> the outcomes its reporter was told
    due,         \* history: the keywords that every fresh cache has by now
    strict,      \* history: slot -> the keywords due when its check began
    overlapped   \* history: have two handlers ever been in flight together?

tables == <<keyword, poster, post, report>>
vars == <<tables, cache, request, told, due, strict, overlapped>>

PostIds == 1..MaxPost
ReportIds == 1..MaxReport
Post == [words : SUBSET Keywords, hidden : BOOLEAN, strict : SUBSET Keywords]
Verdict == {"ACTIONED", "CONFIRMED_FRAUD", "DISMISSED"}
Report == [kind : {"CONTENT", "FRAUD"}, post : {0} \cup PostIds,
           status : {"PENDING"} \cup Verdict]
Outcome == [status : Verdict, blocked : BOOLEAN]

-----------------------------------------------------------------------------
(* Handlers in flight                                                        *)

Idle == [step |-> "idle"]

Request ==
    {Idle}
    \cup [step : {"post.check", "post.insert"}, words : SUBSET Keywords, process : Processes]
    \cup [step : {"post.read"}, words : SUBSET Keywords, process : Processes, fresh : BOOLEAN]
    \cup [step : {"post.compare"}, words : SUBSET Keywords, process : Processes, fresh : BOOLEAN,
          list : SUBSET Keywords]
    \cup [step : {"keyword.add", "keyword.drop"}, keyword : Keywords, process : Processes]
    \cup [step : {"keyword.forget"}, process : Processes]
    \cup [step : {"remove", "eject", "ban", "review", "reread", "confirm", "tell"},
          report : ReportIds, outcome : Outcome]
    \cup [step : {"setBanned"}, banned : BOOLEAN]

At(s, step) == request[s].step = step
Continue(s, r) == request' = [request EXCEPT ![s] = r]
Finish(s) == Continue(s, Idle)

\* A new handler: does it overlap one that is in flight?
Start(s, r) ==
    /\ At(s, "idle")
    /\ Continue(s, r)
    /\ overlapped' = (overlapped \/ \E t \in Slots \ {s} : ~At(t, "idle"))
    /\ UNCHANGED <<tables, cache, told, due, strict>>

Init ==
    /\ keyword = [active |-> {}, rows |-> {}]
    /\ cache = [p \in Processes |-> [list |-> {}, fresh |-> FALSE]]
    /\ poster = [banned |-> FALSE, admin |-> FALSE]
    /\ post = [i \in {} |-> 0]
    /\ report = [i \in {} |-> 0]
    /\ request = [s \in Slots |-> Idle]
    /\ told = [i \in ReportIds |-> {}]
    /\ due = {}
    /\ strict = [s \in Slots |-> {}]
    /\ overlapped = FALSE

-----------------------------------------------------------------------------
(* Posting                                                                   *)

\* SendChatMessageUseCase, CreateProductUseCase; a banned poster is not let in.
BeginPost(s, words, p) ==
    /\ ~poster.banned
    /\ Cardinality(DOMAIN post) < MaxPost
    /\ Start(s, [step |-> "post.check", words |-> words, process |-> p])

\* What the posting continues with once it knows the keywords
Compared(q, list) ==
    IF q.words \cap list = {}
    THEN [step |-> "post.insert", words |-> q.words, process |-> q.process]
    ELSE Idle

\* assertClean, getActiveKeywords: the fresh cache, or the time is noted and the
\* table is read.
CheckPost(s) ==
    /\ At(s, "post.check")
    /\ LET q == request[s]
           c == cache[q.process]
       IN Continue(s, IF c.fresh THEN Compared(q, c.list)
                      ELSE [step |-> "post.read", words |-> q.words,
                            process |-> q.process, fresh |-> TRUE])
    /\ strict' = [strict EXCEPT ![s] = due]
    /\ UNCHANGED <<tables, cache, told, due, overlapped>>

\* listActiveFilterKeywords
ReadKeywords(s) ==
    /\ At(s, "post.read")
    /\ LET q == request[s]
       IN Continue(s, [step |-> "post.compare", words |-> q.words, process |-> q.process,
                       fresh |-> q.fresh, list |-> keyword.active])
    /\ UNCHANGED <<tables, cache, told, due, strict, overlapped>>

\* Mutant: the list is dated with the time it arrived.
FillCacheDatedLate(s) ==
    /\ At(s, "post.compare")
    /\ LET q == request[s]
       IN /\ cache' = [cache EXCEPT ![q.process] = [list |-> q.list, fresh |-> TRUE]]
          /\ Continue(s, Compared(q, q.list))
    /\ UNCHANGED <<tables, told, due, strict, overlapped>>

\* ... the list is cached with the time from before the read.
FillCache(s) ==
    /\ At(s, "post.compare")
    /\ LET q == request[s]
       IN /\ cache' = [cache EXCEPT ![q.process] = [list |-> q.list, fresh |-> q.fresh]]
          /\ Continue(s, Compared(q, q.list))
    /\ UNCHANGED <<tables, told, due, strict, overlapped>>

\* The insert of the listing or the message
InsertPost(s) ==
    /\ At(s, "post.insert")
    /\ \E i \in PostIds :
          /\ DOMAIN post = 1..(i - 1)
          /\ post' = [j \in 1..i |->
                IF j < i THEN post[j]
                ELSE [words |-> request[s].words, hidden |-> FALSE, strict |-> strict[s]]]
    /\ Finish(s)
    /\ UNCHANGED <<keyword, poster, report, cache, told, due, strict,
                   overlapped>>

-----------------------------------------------------------------------------
(* The keywords                                                              *)

\* AddContentFilterKeywordUseCase, DeactivateContentFilterKeywordUseCase
BeginKeyword(s, step, k, p) ==
    Start(s, [step |-> step, keyword |-> k, process |-> p])

\* upsertFilterKeyword
AddKeyword(s) ==
    /\ At(s, "keyword.add")
    /\ LET k == request[s].keyword
       IN keyword' = [active |-> keyword.active \cup {k}, rows |-> keyword.rows \cup {k}]
    /\ Continue(s, [step |-> "keyword.forget", process |-> request[s].process])
    /\ UNCHANGED <<poster, post, report, cache, told, due, strict, overlapped>>

\* deactivateFilterKeyword
DropKeyword(s) ==
    /\ At(s, "keyword.drop")
    /\ LET k == request[s].keyword
       IN /\ keyword' = [keyword EXCEPT !.active = @ \ {k}]
          /\ due' = due \ {k}
          /\ strict' = [t \in Slots |-> strict[t] \ {k}]
    /\ Continue(s, [step |-> "keyword.forget", process |-> request[s].process])
    /\ UNCHANGED <<poster, post, report, cache, told, overlapped>>

\* ListContentFilterKeywordsUseCase: the defaults that have no row yet are
\* created, one after the other, here in one step; nothing else creates them.
SeedKeywords(s, p) ==
    /\ At(s, "idle")
    /\ keyword' = [active |-> keyword.active \cup (Default \ keyword.rows),
                   rows |-> keyword.rows \cup Default]
    /\ Continue(s, [step |-> "keyword.forget", process |-> p])
    /\ overlapped' = (overlapped \/ \E t \in Slots \ {s} : ~At(t, "idle"))
    /\ UNCHANGED <<poster, post, report, cache, told, due, strict>>

\* invalidate: in the process of the admin's request only, and not what a check
\* in flight has already read
ForgetCache(s) ==
    /\ At(s, "keyword.forget")
    /\ cache' = [cache EXCEPT ![request[s].process].fresh = FALSE]
    /\ Finish(s)
    /\ UNCHANGED <<tables, told, due, strict, overlapped>>

\* What carries a time that is younger than sixty seconds
FreshCaches == {p \in Processes : cache[p].fresh}
FreshReads == {s \in Slots : request[s].step \in {"post.read", "post.compare"}
                             /\ request[s].fresh}

\* Time passes: caches and noted times become old.  Once all of them have, no
\* list from before is used again: the keywords active now are due.
PassTime(caches, reads) ==
    /\ cache' = [p \in Processes |->
                    IF p \in caches THEN [cache[p] EXCEPT !.fresh = FALSE] ELSE cache[p]]
    /\ request' = [s \in Slots |->
                    IF s \in reads THEN [request[s] EXCEPT !.fresh = FALSE] ELSE request[s]]
    /\ due' = IF caches = FreshCaches /\ reads = FreshReads THEN keyword.active ELSE due
    /\ UNCHANGED <<tables, told, strict, overlapped>>

-----------------------------------------------------------------------------
(* Reports                                                                   *)

\* create, in either table
InsertReport(kind, i) ==
    /\ \E r \in ReportIds :
          /\ DOMAIN report = 1..(r - 1)
          /\ report' = [j \in 1..r |->
                IF j < r THEN report[j] ELSE [kind |-> kind, post |-> i, status |-> "PENDING"]]
    /\ UNCHANGED <<keyword, poster, post, cache, request, told, due, strict, overlapped>>

\* resolveContentOwner: what is removed or hidden is found, too.
HasOwner(i) == i \in DOMAIN post

\* SubmitContentReportUseCase: an admin cannot be reported; a user may report
\* again what is reported.
SubmitContent ==
    /\ ~poster.admin
    /\ \E i \in PostIds : HasOwner(i) /\ InsertReport("CONTENT", i)

\* SubmitFraudReportUseCase: of the user, not of what he posted
SubmitFraud == ~poster.admin /\ InsertReport("FRAUD", 0)

\* Mutant: a report is reviewed whatever its status.
MayReviewAgain(r) == r \in DOMAIN report

MayReview(r) == r \in DOMAIN report /\ report[r].status = "PENDING"

Reviewing(step, r, outcome) == [step |-> step, report |-> r, outcome |-> outcome]

\* ActionContentReportUseCase with ejectUser, DismissContentReportUseCase
ActionContent(s, r, eject) ==
    /\ MayReview(r)
    /\ report[r].kind = "CONTENT"
    /\ Start(s, Reviewing("remove", r, [status |-> "ACTIONED", blocked |-> eject]))

DismissContent(s, r) ==
    /\ MayReview(r)
    /\ report[r].kind = "CONTENT"
    /\ Start(s, Reviewing("review", r, [status |-> "DISMISSED", blocked |-> FALSE]))

\* ConfirmFraudReportUseCase with blockReportedUser, DismissFraudReportUseCase
ConfirmFraud(s, r, block) ==
    /\ MayReview(r)
    /\ report[r].kind = "FRAUD"
    /\ Start(s, Reviewing("reread", r, [status |-> "CONFIRMED_FRAUD", blocked |-> block]))

DismissFraud(s, r) ==
    /\ MayReview(r)
    /\ report[r].kind = "FRAUD"
    /\ Start(s, Reviewing("reread", r, [status |-> "DISMISSED", blocked |-> FALSE]))

NextStep(s, step) == Continue(s, [request[s] EXCEPT !.step = step])

\* softRemoveListing, hideChatMessage
RemoveContent(s) ==
    /\ At(s, "remove")
    /\ post' = [post EXCEPT ![report[request[s].report].post].hidden = TRUE]
    /\ NextStep(s, IF request[s].outcome.blocked THEN "eject" ELSE "review")
    /\ UNCHANGED <<keyword, poster, report, cache, told, due, strict,
                   overlapped>>

\* An admin is not banned: the handler is refused, with the content removed or
\* the fraud confirmed.
ReadForEject(s) ==
    /\ At(s, "eject")
    /\ IF poster.admin THEN Finish(s) ELSE NextStep(s, "ban")
    /\ UNCHANGED <<tables, cache, told, due, strict, overlapped>>

\* setUserBanned
Eject(s) ==
    /\ At(s, "ban")
    /\ poster' = [poster EXCEPT !.banned = TRUE]
    /\ NextStep(s, IF report[request[s].report].kind = "CONTENT" THEN "review" ELSE "tell")
    /\ UNCHANGED <<keyword, post, report, cache, told, due, strict,
                   overlapped>>

WriteVerdict(s) ==
    report' = [report EXCEPT ![request[s].report].status = request[s].outcome.status]

\* ContentReportRepository.review: by id, whatever the status is by now
WriteReview(s) ==
    /\ At(s, "review")
    /\ WriteVerdict(s)
    /\ NextStep(s, "tell")
    /\ UNCHANGED <<keyword, poster, post, cache, told, due, strict,
                   overlapped>>

\* FraudReportRepository.review: the transaction looks at the status again ...
RereadReport(s) ==
    /\ At(s, "reread")
    /\ IF MayReview(request[s].report) THEN NextStep(s, "confirm") ELSE Finish(s)
    /\ UNCHANGED <<tables, cache, told, due, strict, overlapped>>

\* ... and writes by id.
WriteFraudReview(s) ==
    /\ At(s, "confirm")
    /\ WriteVerdict(s)
    /\ NextStep(s, IF request[s].outcome.blocked THEN "eject" ELSE "tell")
    /\ UNCHANGED <<keyword, poster, post, cache, told, due, strict,
                   overlapped>>

\* createNotification for the reporter
TellReporter(s) ==
    /\ At(s, "tell")
    /\ told' = [told EXCEPT ![request[s].report] = @ \cup {request[s].outcome}]
    /\ Finish(s)
    /\ UNCHANGED <<tables, cache, due, strict, overlapped>>

\* BanUserAdminUseCase: not an admin; UnbanUserAdminUseCase
BeginSetBanned(s, banned) ==
    /\ banned => ~poster.admin
    /\ Start(s, [step |-> "setBanned", banned |-> banned])

WriteBanned(s) ==
    /\ At(s, "setBanned")
    /\ poster' = [poster EXCEPT !.banned = request[s].banned]
    /\ Finish(s)
    /\ UNCHANGED <<keyword, post, report, cache, told, due, strict,
                   overlapped>>

\* Root gives the poster a role, or takes it (Accounts).
SetAdmin(admin) ==
    /\ poster' = [poster EXCEPT !.admin = admin]
    /\ UNCHANGED <<keyword, post, report, cache, request, told, due, strict,
                   overlapped>>

\* The process of a handler dies: what it committed stays.  What it kept
\* in memory is lost, which the cache of a process that is not fresh allows.
Crash(s) ==
    /\ MayCrash
    /\ ~At(s, "idle")
    /\ Finish(s)
    /\ UNCHANGED <<tables, cache, told, due, strict, overlapped>>

-----------------------------------------------------------------------------

\* AdminModerationController
ContentReviewRoutes(s) ==
    \E r \in ReportIds :
        DismissContent(s, r) \/ \E eject \in BOOLEAN : ActionContent(s, r, eject)

KeywordRoutes(s) ==
    \E p \in Processes :
        \/ SeedKeywords(s, p)
        \/ \E k \in Keywords, step \in {"keyword.add", "keyword.drop"} :
              BeginKeyword(s, step, k, p)

\* AdminFraudReportsController
FraudReviewRoutes(s) ==
    \E r \in ReportIds :
        DismissFraud(s, r) \/ \E block \in BOOLEAN : ConfirmFraud(s, r, block)

BanRoutes(s) == \E banned \in BOOLEAN : BeginSetBanned(s, banned)

Begin(s) ==
    \/ ContentReviewRoutes(s) \/ KeywordRoutes(s) \/ FraudReviewRoutes(s) \/ BanRoutes(s)
    \/ \E words \in SUBSET Keywords, p \in Processes : BeginPost(s, words, p)

Step(s) ==
    \/ CheckPost(s) \/ ReadKeywords(s) \/ FillCache(s) \/ InsertPost(s)
    \/ AddKeyword(s) \/ DropKeyword(s) \/ ForgetCache(s)
    \/ RemoveContent(s) \/ ReadForEject(s) \/ Eject(s) \/ WriteReview(s)
    \/ RereadReport(s) \/ WriteFraudReview(s) \/ TellReporter(s) \/ WriteBanned(s)

\* ClientModerationController and ClientFraudReportsController
ReportRoutes == SubmitContent \/ SubmitFraud

Elsewhere ==
    \/ ReportRoutes
    \/ \E admin \in BOOLEAN : SetAdmin(admin)
    \/ \E caches \in SUBSET FreshCaches, reads \in SUBSET FreshReads :
          PassTime(caches, reads)

Next == (\E s \in Slots : Begin(s) \/ Step(s) \/ Crash(s)) \/ Elsewhere

Spec == Init /\ [][Next]_vars

-----------------------------------------------------------------------------
(* Properties                                                                *)

\* The tables and the handlers have their types; a handler and a report refer
\* to rows that exist.
TypeOK ==
    /\ keyword \in [active : SUBSET Keywords, rows : SUBSET Keywords]
    /\ cache \in [Processes -> [list : SUBSET Keywords, fresh : BOOLEAN]]
    /\ poster \in [banned : BOOLEAN, admin : BOOLEAN]
    /\ \E n \in 0..MaxPost : post \in [1..n -> Post]
    /\ \E n \in 0..MaxReport : report \in [1..n -> Report]
    /\ request \in [Slots -> Request]
    /\ told \in [ReportIds -> SUBSET Outcome]
    /\ due \subseteq Keywords
    /\ strict \in [Slots -> SUBSET Keywords]
    /\ overlapped \in BOOLEAN
    /\ \A r \in DOMAIN report : report[r].post \in {0} \cup DOMAIN post

\* A check that begins sixty seconds after a keyword was added refuses it, in
\* every process and whatever races with it: no text is posted with a keyword
\* that was due then, and active until the check was over.
FilterCatchesUp ==
    \A i \in DOMAIN post : post[i].words \cap post[i].strict = {}

\* What a reporter is told is true when he is told it: a report is ACTIONED only
\* after its content is gone, even if reviews race; and while no two handlers
\* overlap, he is told one outcome, it is the one in the table, and a user who
\* was to be blocked is banned.
OutcomesAreTrue ==
    [][\A r \in ReportIds : \A outcome \in told'[r] \ told[r] :
          /\ outcome.status = "ACTIONED" => post[report[r].post].hidden
          /\ ~overlapped =>
                /\ told[r] = {}
                /\ report[r].status = outcome.status
                /\ outcome.blocked => poster.banned]_vars

=============================================================================
