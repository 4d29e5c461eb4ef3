------------------------------ MODULE Accounts ------------------------------
(***************************************************************************)
(* Accounts: how they begin (registration, or created by a root admin),    *)
(* the sessions that a login opens and that a reset, a ban, a change of    *)
(* role or the deletion ends, the roles of admins, and the repair of the   *)
(* root admin when the process starts.                                     *)
(*                                                                         *)
(* A session is a JWT: it carries the authTokenVersion of its login, and   *)
(* every request compares it with the account.  All that revokes sessions  *)
(* reads the version and writes it back plus one, in two steps.            *)
(*                                                                         *)
(* A role is CLIENT (none), STAFF (any role that root may grant; which of  *)
(* its permissions it has is left out) or ROOT.  Passwords are right: a    *)
(* wrong one only refuses.  Left out: profile, avatar, Facebook link;      *)
(* phone numbers and addresses, which the unique keys tell apart like the  *)
(* accounts they belong to; points; what the codes do (Verifications).     *)
(***************************************************************************)
EXTENDS Integers, FiniteSets

CONSTANTS
    Users,       \* the accounts there may be
    Root,        \* the account that the seed creates, with ROOT_ADMIN_EMAIL and _PHONE
    Watched,     \* the users whose sessions are recorded
    Things,      \* what deletion closes: listings, chat rooms, location shares
    Slots,       \* handlers that can be in flight at the same time
    MaxVersion,  \* bound on authTokenVersion
    MaxRestart   \* bound on the restarts of the process

ASSUME UsersAssumption == Root \in Users /\ Watched \subseteq Users
ASSUME BoundsAssumption == MaxVersion \in Nat /\ MaxRestart \in Nat

VARIABLES
    account,     \* users: id -> row
    session,     \* the tokens that logins of Watched returned: user and version
    open,        \* user -> the things he has open
    request,     \* slot -> the handler in flight and its local variables
    restarts,    \* how often the process was started again
    revoked,     \* history: the tokens that were out when something revoked them
    overlapped   \* history: have two handlers ever been in flight together?

vars == <<account, session, open, request, restarts, revoked, overlapped>>

Roles == {"CLIENT", "STAFF", "ROOT"}
\* contact: was the configured address given to this account?
Account == [role : Roles, active : BOOLEAN, banned : BOOLEAN, deleted : BOOLEAN,
            version : Nat, contact : BOOLEAN]
Token == [user : Users, version : Nat]

-----------------------------------------------------------------------------
(* Handlers in flight                                                        *)

Idle == [step |-> "idle"]

Request ==
    {Idle}
    \cup [step : {"register.create"}, user : Users]
    \cup [step : {"admin.create", "admin.appoint"}, user : Users, role : Roles]
    \cup [step : {"login.sign", "reset.write"}, user : Users, version : Nat]
    \cup [step : {"role.write"}, user : Users, version : Nat, role : Roles]
    \cup [step : {"ban.read"}, user : Users, banned : BOOLEAN]
    \cup [step : {"ban.write"}, user : Users, banned : BOOLEAN, version : Nat]
    \cup [step : {"delete.read"}, user : Users]
    \cup [step : {"delete.write"}, user : Users, version : Nat]
    \cup [step : {"use.write"}, user : Users, thing : Things]

At(s, step) == request[s].step = step
Continue(s, r) == request' = [request EXCEPT ![s] = r]
Finish(s) == Continue(s, Idle)

\* A new handler: does it overlap one that is in flight?
Start(s, r) ==
    /\ At(s, "idle")
    /\ Continue(s, r)
    /\ overlapped' = (overlapped \/ \E t \in Slots \ {s} : ~At(t, "idle"))
    /\ UNCHANGED <<account, session, open, restarts, revoked>>

NewAccount(role, contact) ==
    [role |-> role, active |-> TRUE, banned |-> FALSE, deleted |-> FALSE, version |-> 0,
     contact |-> contact]

\* The seed creates the root admin.
Init ==
    /\ account = [u \in {Root} |-> NewAccount("ROOT", TRUE)]
    /\ session = {}
    /\ open = [u \in Users |-> {}]
    /\ request = [s \in Slots |-> Idle]
    /\ restarts = 0
    /\ revoked = {}
    /\ overlapped = FALSE

Exists(u) == u \in DOMAIN account

\* isActiveUser
IsActive(u) == Exists(u) /\ account[u].active /\ ~account[u].banned /\ ~account[u].deleted
IsAdmin(u) == account[u].role # "CLIENT"

\* JwtStrategy.validate
Accepted(t) == IsActive(t.user) /\ account[t.user].version = t.version

\* A user who sends a request that is let in: one who is not watched signs in
\* as soon as he may.
SignedIn(u) ==
    IF u \in Watched THEN \E t \in session : t.user = u /\ Accepted(t) ELSE IsActive(u)

\* assertRootAdmin
ActsAsRoot(u) == SignedIn(u) /\ account[u].role = "ROOT"

\* requireAdminPermission
ActsAsAdmin(u) == SignedIn(u) /\ IsAdmin(u)

\* The sessions of u, which what is written now revokes
Revoke(u) == revoked' = revoked \cup {t \in session : t.user = u}

-----------------------------------------------------------------------------
(* How an account begins                                                     *)

\* RegisterUseCase: nobody has the phone number or the address yet
BeginRegister(s, u) ==
    /\ ~Exists(u)
    /\ Start(s, [step |-> "register.create", user |-> u])

\* The row that create inserts; the unique keys refuse a second one.
Insert(u) ==
    account' = [v \in DOMAIN account \cup {u} |->
                    IF Exists(v) THEN account[v] ELSE NewAccount("CLIENT", FALSE)]

CreateRegistered(s) ==
    /\ At(s, "register.create")
    /\ Insert(request[s].user)
    /\ Finish(s)
    /\ UNCHANGED <<session, open, restarts, revoked, overlapped>>

\* CreateAdminUserUseCase, by root, with any role
BeginCreateAdmin(s, by, u, role) ==
    /\ ActsAsRoot(by)
    /\ ~Exists(u)
    /\ role # "CLIENT"
    /\ Start(s, [step |-> "admin.create", user |-> u, role |-> role])

\* create: a client at first ...
CreateAdmin(s) ==
    /\ At(s, "admin.create")
    /\ LET q == request[s]
       IN IF Exists(q.user) THEN Finish(s) /\ UNCHANGED account
          ELSE /\ Insert(q.user)
               /\ Continue(s, [q EXCEPT !.step = "admin.appoint"])
    /\ UNCHANGED <<session, open, restarts, revoked, overlapped>>

\* ... whom the second statement gives the role
AppointAdmin(s) ==
    /\ At(s, "admin.appoint")
    /\ account' = [account EXCEPT ![request[s].user].role = request[s].role]
    /\ Finish(s)
    /\ UNCHANGED <<session, open, restarts, revoked, overlapped>>

-----------------------------------------------------------------------------
(* Sessions                                                                  *)

\* LoginUseCase: the account is read and the password compared ...
BeginLogin(s, u) ==
    /\ u \in Watched
    /\ IsActive(u)
    /\ Start(s, [step |-> "login.sign", user |-> u, version |-> account[u].version])

\* ... and after lastLoginAt is written the token is signed, with the version
\* that was read.
SignToken(s) ==
    /\ At(s, "login.sign")
    /\ session' = session \cup {[user |-> request[s].user, version |-> request[s].version]}
    /\ Finish(s)
    /\ UNCHANGED <<account, open, restarts, revoked, overlapped>>

MayBump(u) == account[u].version < MaxVersion

\* ResetPasswordUseCase, with a code that is right; not for admins
BeginReset(s, u) ==
    /\ IsActive(u) /\ ~IsAdmin(u) /\ MayBump(u)
    /\ Start(s, [step |-> "reset.write", user |-> u, version |-> account[u].version])

WriteReset(s) ==
    /\ At(s, "reset.write")
    /\ LET q == request[s]
       IN /\ account' = [account EXCEPT ![q.user].version = q.version + 1]
          /\ Revoke(q.user)
    /\ Finish(s)
    /\ UNCHANGED <<session, open, restarts, overlapped>>

-----------------------------------------------------------------------------
(* Roles                                                                     *)

\* Mutant: root may demote itself.
BeginDemoteAny(s, by, u) ==
    /\ ActsAsRoot(by)
    /\ Exists(u) /\ IsAdmin(u) /\ MayBump(u)
    /\ Start(s, [step |-> "role.write", user |-> u, version |-> account[u].version,
                 role |-> "CLIENT"])

\* DemoteAdminUserUseCase: root, another admin
BeginDemote(s, by, u) ==
    /\ ActsAsRoot(by)
    /\ u # by
    /\ Exists(u) /\ IsAdmin(u) /\ MayBump(u)
    /\ Start(s, [step |-> "role.write", user |-> u, version |-> account[u].version,
                 role |-> "CLIENT"])

\* UpdateAdminUserRoleUseCase: root, anybody else, admin or not; not to ROOT
BeginChangeRole(s, by, u) ==
    /\ ActsAsRoot(by)
    /\ u # by
    /\ Exists(u) /\ MayBump(u)
    /\ Start(s, [step |-> "role.write", user |-> u, version |-> account[u].version,
                 role |-> "STAFF"])

WriteRole(s) ==
    /\ At(s, "role.write")
    /\ LET q == request[s]
       IN /\ account' = [account EXCEPT ![q.user].role = q.role,
                                        ![q.user].version = q.version + 1]
          /\ Revoke(q.user)
    /\ Finish(s)
    /\ UNCHANGED <<session, open, restarts, overlapped>>

-----------------------------------------------------------------------------
(* Bans                                                                      *)

\* BanUserAdminUseCase, ConfirmFraudReport, ActionContentReport: no admin
BeginBan(s, by, u) ==
    /\ ActsAsAdmin(by)
    /\ Exists(u) /\ ~IsAdmin(u) /\ MayBump(u)
    /\ Start(s, [step |-> "ban.read", user |-> u, banned |-> TRUE])

\* UnbanUserAdminUseCase
BeginUnban(s, by, u) ==
    /\ ActsAsAdmin(by)
    /\ Exists(u) /\ MayBump(u)
    /\ Start(s, [step |-> "ban.read", user |-> u, banned |-> FALSE])

\* setUserBanned: the version ...
ReadForBan(s) ==
    /\ At(s, "ban.read")
    /\ LET q == request[s]
       IN Continue(s, [step |-> "ban.write", user |-> q.user, banned |-> q.banned,
                       version |-> account[q.user].version])
    /\ UNCHANGED <<account, session, open, restarts, revoked, overlapped>>

\* Mutant: the flag is enough to keep a banned user out.
WriteBanOnly(s) ==
    /\ At(s, "ban.write")
    /\ LET q == request[s]
       IN /\ account' = [account EXCEPT ![q.user].banned = q.banned]
          /\ Revoke(q.user)
    /\ Finish(s)
    /\ UNCHANGED <<session, open, restarts, overlapped>>

\* ... and the flag with the next one
WriteBan(s) ==
    /\ At(s, "ban.write")
    /\ LET q == request[s]
       IN /\ account' = [account EXCEPT ![q.user].banned = q.banned,
                                        ![q.user].version = q.version + 1]
          /\ Revoke(q.user)
    /\ Finish(s)
    /\ UNCHANGED <<session, open, restarts, overlapped>>

-----------------------------------------------------------------------------
(* Deletion                                                                  *)

\* Any handler that opens a listing, a chat room or a location share: the user
\* was let in and read ...
BeginUse(s, u, thing) ==
    /\ SignedIn(u)
    /\ thing \notin open[u]
    /\ Start(s, [step |-> "use.write", user |-> u, thing |-> thing])

\* ... and the row is inserted
WriteUse(s) ==
    /\ At(s, "use.write")
    /\ open' = [open EXCEPT ![request[s].user] = @ \cup {request[s].thing}]
    /\ Finish(s)
    /\ UNCHANGED <<account, session, restarts, revoked, overlapped>>

\* DeleteAccountUseCase: the user himself, no admin, not deleted
BeginDelete(s, u) ==
    /\ SignedIn(u) /\ ~IsAdmin(u) /\ MayBump(u)
    /\ Start(s, [step |-> "delete.read", user |-> u])

\* deleteAccount: the version, unless it is deleted by now ...
ReadForDelete(s) ==
    /\ At(s, "delete.read")
    /\ LET q == request[s]
       IN IF account[q.user].deleted THEN Finish(s)
          ELSE Continue(s, [step |-> "delete.write", user |-> q.user,
                            version |-> account[q.user].version])
    /\ UNCHANGED <<account, session, open, restarts, revoked, overlapped>>

\* Mutant: what the user has open stays.
WriteDeleteOnly(s) ==
    /\ At(s, "delete.write")
    /\ LET q == request[s]
       IN /\ account' = [account EXCEPT ![q.user].deleted = TRUE, ![q.user].active = FALSE,
                                        ![q.user].version = q.version + 1]
          /\ Revoke(q.user)
    /\ Finish(s)
    /\ UNCHANGED <<session, open, restarts, overlapped>>

\* ... and the transaction: what is open is closed, the row anonymized
WriteDelete(s) ==
    /\ At(s, "delete.write")
    /\ LET q == request[s]
       IN /\ account' = [account EXCEPT ![q.user].deleted = TRUE, ![q.user].active = FALSE,
                                        ![q.user].version = q.version + 1]
          /\ open' = [open EXCEPT ![q.user] = {}]
          /\ Revoke(q.user)
    /\ Finish(s)
    /\ UNCHANGED <<session, restarts, overlapped>>

-----------------------------------------------------------------------------
(* The process starts again                                                  *)

\* The deletion takes the address and the phone number from an account.
HasContact(u) == account[u].contact /\ ~account[u].deleted

\* The account that RootAdminIntegrityService repairs: the one with the
\* configured contact or else one with the role; with none, the process fails.
Repairable == {u \in DOMAIN account :
                 \/ HasContact(u)
                 \/ account[u].role = "ROOT" /\ \A v \in DOMAIN account : ~HasContact(v)}

\* All that was in flight is lost; then onApplicationBootstrap, which gives the
\* account that it repairs the configured contact, too.
Restart ==
    /\ restarts < MaxRestart
    /\ restarts' = restarts + 1
    /\ request' = [s \in Slots |-> Idle]
    /\ \E u \in Repairable :
          account' = [account EXCEPT ![u].role = "ROOT", ![u].active = TRUE,
                                     ![u].banned = FALSE, ![u].contact = TRUE]
    /\ UNCHANGED <<session, open, revoked, overlapped>>

-----------------------------------------------------------------------------

\* AuthController, AdminDashboardAuthController
SessionRoutes(s) == \E u \in Users : BeginRegister(s, u) \/ BeginLogin(s, u)
PasswordRoutes(s) == \E u \in Users : BeginReset(s, u)

\* ClientProfileController
ProfileRoutes(s) == \E u \in Users : BeginDelete(s, u)

\* AdminUsersController
RoleRoutes(s) ==
    \E by, u \in Users :
        \/ BeginDemote(s, by, u) \/ BeginChangeRole(s, by, u)
        \/ \E role \in Roles : BeginCreateAdmin(s, by, u, role)

\* AdminFraudReportsController
BanRoutes(s) == \E by, u \in Users : BeginBan(s, by, u) \/ BeginUnban(s, by, u)

Begin(s) ==
    \/ SessionRoutes(s) \/ PasswordRoutes(s) \/ ProfileRoutes(s)
    \/ RoleRoutes(s) \/ BanRoutes(s)
    \/ \E u \in Users, thing \in Things : BeginUse(s, u, thing)

Step(s) ==
    \/ CreateRegistered(s) \/ CreateAdmin(s) \/ AppointAdmin(s)
    \/ SignToken(s) \/ WriteReset(s) \/ WriteRole(s)
    \/ ReadForBan(s) \/ WriteBan(s)
    \/ WriteUse(s) \/ ReadForDelete(s) \/ WriteDelete(s)

Next == (\E s \in Slots : Begin(s) \/ Step(s)) \/ Restart

Spec == Init /\ [][Next]_vars

-----------------------------------------------------------------------------
(* Properties                                                                *)

\* The tables and the handlers have their types; a handler beyond the creation
\* of its account, and every token, refers to an account that exists.
TypeOK ==
    /\ Root \in DOMAIN account /\ DOMAIN account \subseteq Users
    /\ account \in [DOMAIN account -> Account]
    /\ session \subseteq Token /\ revoked \subseteq session
    /\ \A t \in session : t.user \in DOMAIN account
    /\ open \in [Users -> SUBSET Things]
    /\ request \in [Slots -> Request]
    /\ \A s \in Slots : \/ request[s].step \in {"idle", "register.create", "admin.create"}
                        \/ request[s].user \in DOMAIN account
    /\ restarts \in Nat
    /\ overlapped \in BOOLEAN

\* While no two handlers overlap, a session that was revoked is refused for
\* ever: by a reset, a ban even after it was lifted, a change of role, or the
\* deletion.
RevokedStaysOut == ~overlapped => \A t \in revoked : ~Accepted(t)

\* While no two handlers overlap, some root admin can sign in, whoever else was
\* made root and demoted, and in which order.
RootRemains ==
    ~overlapped => \E u \in DOMAIN account : account[u].role = "ROOT" /\ IsActive(u)

\* While no two handlers overlap, a deleted account has nothing open, and no
\* restart or unban makes it active.
DeletedLeavesNothing ==
    ~overlapped => \A u \in DOMAIN account :
        account[u].deleted => open[u] = {} /\ ~account[u].active

=============================================================================
