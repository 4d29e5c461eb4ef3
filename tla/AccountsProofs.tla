----------------------------- MODULE AccountsProofs -----------------------------
(***************************************************************************)
(* What holds of the accounts for every set of users and every number of   *)
(* handlers in flight.                                                     *)
(*                                                                         *)
(* TypeOK is inductive by itself.  Alone is the invariant behind the three *)
(* safety properties, which hold as long as no two handlers overlap: then  *)
(* what the only handler in flight has read is still so when it writes,    *)
(* which Settled spells out, and no version of an account is ever behind   *)
(* one of its tokens.                                                      *)
(*                                                                         *)
(* The last section is about the KBZPay account of a user, a specification *)
(* of its own.                                                             *)
(***************************************************************************)
EXTENDS Accounts, KbzPay, TLAPS

StepsOfVersion == {"login.sign", "reset.write", "role.write", "ban.write", "delete.write"}

ActiveRoot(u) == Exists(u) /\ account[u].role = "ROOT" /\ IsActive(u)

\* What the handler q has read is still so.
Settled(q) ==
    /\ q.step \in StepsOfVersion => q.version = account[q.user].version
    /\ q.step = "role.write" =>
          q.role # "ROOT" /\ \E u \in DOMAIN account \ {q.user} : ActiveRoot(u)
    /\ q.step \in {"ban.read", "ban.write"} =>
          (q.banned => account[q.user].role = "CLIENT")
    /\ q.step \in {"delete.read", "delete.write"} => account[q.user].role = "CLIENT"
    /\ q.step = "admin.appoint" =>
          account[q.user].role = "CLIENT" /\ ~account[q.user].deleted
    /\ q.step = "use.write" => ~account[q.user].deleted

\* No token is ahead of its account, and a revoked one is behind it.
Versions ==
    /\ \A t \in session : t.version <= account[t.user].version
    /\ \A t \in revoked : t.version < account[t.user].version

\* A deleted account is not root, not active, and has nothing open.
Deleted ==
    \A u \in DOMAIN account :
        account[u].deleted => account[u].role # "ROOT" /\ ~account[u].active /\ open[u] = {}

Busy(s) == ~At(s, "idle")

TablesSettled == Versions /\ Deleted /\ \E u \in DOMAIN account : ActiveRoot(u)

Alone ==
    ~overlapped =>
        /\ \A s, t \in Slots : Busy(s) /\ Busy(t) => s = t
        /\ \A s \in Slots : Settled(request[s])
        /\ TablesSettled

-----------------------------------------------------------------------------
(* Types                                                                     *)

\* Which local variables a handler has depends on its step only.
LEMMA RequestFields ==
    ASSUME NEW q \in Request
    PROVE  /\ q.step # "idle" => q.user \in Users
           /\ q.step \in StepsOfVersion => q.version \in Nat
           /\ q.step \in {"admin.create", "admin.appoint", "role.write"} => q.role \in Roles
           /\ q.step \in {"ban.read", "ban.write"} => q.banned \in BOOLEAN
           /\ q.step = "use.write" => q.thing \in Things
           /\ q.step = "admin.create" =>
                 q = [step |-> q.step, user |-> q.user, role |-> q.role]
BY DEF Request, Idle, StepsOfVersion

LEMMA IdleIsRequest == Idle \in Request /\ Idle.step = "idle"
BY DEF Request, Idle

\* A handler goes on with q, and the rows are as they should be.
LEMMA HandlerTyped ==
    ASSUME TypeOK, NEW s \in Slots, NEW q \in Request, Continue(s, q),
           Root \in DOMAIN account', DOMAIN account \subseteq DOMAIN account',
           DOMAIN account' \subseteq Users, account' \in [DOMAIN account' -> Account],
           session' \subseteq Token, revoked' \subseteq session',
           \A t \in session' : t.user \in DOMAIN account',
           open' \in [Users -> SUBSET Things], overlapped' \in BOOLEAN, restarts' \in Nat,
           q.step \in {"idle", "register.create", "admin.create"}
               \/ q.user \in DOMAIN account'
    PROVE  TypeOK'
<1>1. request' \in [Slots -> Request]
  BY DEF TypeOK, Continue
<1>2. \A t \in Slots : request'[t] = IF t = s THEN q ELSE request[t]
  BY DEF TypeOK, Continue
<1>3. \A t \in Slots : \/ request'[t].step \in {"idle", "register.create", "admin.create"}
                       \/ request'[t].user \in DOMAIN account'
  BY <1>2 DEF TypeOK
<1> QED BY <1>1, <1>3 DEF TypeOK

\* Its account is there, and so are its local variables.
LEMMA HandlerFacts ==
    ASSUME TypeOK, NEW s \in Slots
    PROVE  /\ request[s] \in Request
           /\ \/ request[s].step \in {"idle", "register.create", "admin.create"}
              \/ /\ request[s].user \in DOMAIN account
                 /\ account[request[s].user] \in Account
BY DEF TypeOK

\* A handler that starts: which one, and what it has read
LEMMA BeginFacts ==
    ASSUME TypeOK, NEW s \in Slots, Begin(s)
    PROVE  \E q \in Request :
              /\ Start(s, q)
              /\ q.step \in {"idle", "register.create", "admin.create"}
                    \/ q.user \in DOMAIN account
              /\ TablesSettled => Settled(q)
<1> USE DEF TypeOK, Account
<1>1. ASSUME NEW u \in Users, BeginRegister(s, u) \/ BeginLogin(s, u) \/ BeginReset(s, u)
      PROVE  \E q \in Request :
              /\ Start(s, q)
              /\ q.step \in {"register.create"} \/ q.user \in DOMAIN account
              /\ Settled(q)
  <2>1. CASE BeginRegister(s, u)
    <3> DEFINE q == [step |-> "register.create", user |-> u]
    <3>1. q \in Request /\ Settled(q)
      BY DEF Request, Settled, StepsOfVersion
    <3> QED BY <2>1, <3>1 DEF BeginRegister
  <2>2. CASE BeginLogin(s, u)
    <3> DEFINE q == [step |-> "login.sign", user |-> u, version |-> account[u].version]
    <3>1. u \in DOMAIN account /\ account[u].version \in Nat
      BY <2>2 DEF BeginLogin, IsActive, Exists
    <3>2. q \in Request /\ Settled(q)
      BY <3>1 DEF Request, Settled, StepsOfVersion
    <3> QED BY <2>2, <3>1, <3>2 DEF BeginLogin
  <2>3. CASE BeginReset(s, u)
    <3> DEFINE q == [step |-> "reset.write", user |-> u, version |-> account[u].version]
    <3>1. u \in DOMAIN account /\ account[u].version \in Nat
      BY <2>3 DEF BeginReset, IsActive, Exists
    <3>2. q \in Request /\ Settled(q)
      BY <3>1 DEF Request, Settled, StepsOfVersion
    <3> QED BY <2>3, <3>1, <3>2 DEF BeginReset
  <2> QED BY <1>1, <2>1, <2>2, <2>3
<1>2. ASSUME NEW by \in Users, NEW u \in Users,
             BeginDemote(s, by, u) \/ BeginChangeRole(s, by, u)
      PROVE  \E q \in Request : Start(s, q) /\ q.user \in DOMAIN account /\ Settled(q)
  <2>1. PICK role \in {"CLIENT", "STAFF"} :
           Start(s, [step |-> "role.write", user |-> u, version |-> account[u].version,
                     role |-> role])
    BY <1>2 DEF BeginDemote, BeginChangeRole
  <2> DEFINE q == [step |-> "role.write", user |-> u, version |-> account[u].version,
                   role |-> role]
  <2>2. u \in DOMAIN account /\ account[u].version \in Nat /\ u # by
    BY <1>2 DEF BeginDemote, BeginChangeRole, Exists
  <2>3. IsActive(by) /\ account[by].role = "ROOT"
    BY <1>2 DEF BeginDemote, BeginChangeRole, ActsAsRoot, SignedIn, Accepted
  <2>4. ActiveRoot(by) /\ by \in DOMAIN account \ {u}
    BY <2>2, <2>3 DEF ActiveRoot, IsActive, Exists
  <2>5. q \in Request
    BY <2>2 DEF Request, Roles
  <2>6. Settled(q)
    BY <2>4 DEF Settled, StepsOfVersion
  <2> QED BY <2>1, <2>2, <2>5, <2>6
<1>3. ASSUME NEW by \in Users, NEW u \in Users, NEW role \in Roles,
             BeginCreateAdmin(s, by, u, role)
      PROVE  \E q \in Request : Start(s, q) /\ q.step = "admin.create" /\ Settled(q)
  <2> DEFINE q == [step |-> "admin.create", user |-> u, role |-> role]
  <2>1. q \in Request /\ Settled(q)
    BY DEF Request, Settled, StepsOfVersion
  <2> QED BY <1>3, <2>1 DEF BeginCreateAdmin
<1>4. ASSUME NEW by \in Users, NEW u \in Users, BeginBan(s, by, u) \/ BeginUnban(s, by, u)
      PROVE  \E q \in Request : Start(s, q) /\ q.user \in DOMAIN account /\ Settled(q)
  <2>1. PICK banned \in BOOLEAN :
           /\ Start(s, [step |-> "ban.read", user |-> u, banned |-> banned])
           /\ banned => account[u].role = "CLIENT"
    BY <1>4 DEF BeginBan, BeginUnban, IsAdmin
  <2> DEFINE q == [step |-> "ban.read", user |-> u, banned |-> banned]
  <2>2. u \in DOMAIN account
    BY <1>4 DEF BeginBan, BeginUnban, Exists
  <2>3. q \in Request /\ Settled(q)
    BY <2>1 DEF Request, Settled, StepsOfVersion
  <2> QED BY <2>1, <2>2, <2>3
<1>5. ASSUME NEW u \in Users, BeginDelete(s, u)
      PROVE  \E q \in Request : Start(s, q) /\ q.user \in DOMAIN account /\ Settled(q)
  <2> DEFINE q == [step |-> "delete.read", user |-> u]
  <2>1. u \in DOMAIN account /\ account[u].role = "CLIENT"
    BY <1>5 DEF BeginDelete, SignedIn, Accepted, IsActive, Exists, IsAdmin
  <2>2. q \in Request /\ Settled(q)
    BY <2>1 DEF Request, Settled, StepsOfVersion
  <2> QED BY <1>5, <2>1, <2>2 DEF BeginDelete
<1>6. ASSUME NEW u \in Users, NEW thing \in Things, BeginUse(s, u, thing)
      PROVE  \E q \in Request : Start(s, q) /\ q.user \in DOMAIN account /\ Settled(q)
  <2> DEFINE q == [step |-> "use.write", user |-> u, thing |-> thing]
  <2>1. u \in DOMAIN account /\ ~account[u].deleted
    BY <1>6 DEF BeginUse, SignedIn, Accepted, IsActive, Exists
  <2>2. q \in Request /\ Settled(q)
    BY <2>1 DEF Request, Settled, StepsOfVersion
  <2> QED BY <1>6, <2>1, <2>2 DEF BeginUse
<1> QED BY <1>1, <1>2, <1>3, <1>4, <1>5, <1>6
        DEF Begin, SessionRoutes, PasswordRoutes, ProfileRoutes, RoleRoutes, BanRoutes

\* A handler that starts leaves the tables alone.
LEMMA BeginStep ==
    ASSUME TypeOK, Alone, NEW s \in Slots, Begin(s)
    PROVE  TypeOK' /\ Alone'
<1>1. PICK q \in Request :
              /\ Start(s, q)
              /\ q.step \in {"idle", "register.create", "admin.create"}
                    \/ q.user \in DOMAIN account
              /\ TablesSettled => Settled(q)
  BY BeginFacts
<1>2. Continue(s, q) /\ UNCHANGED <<account, session, open, restarts, revoked>>
  BY <1>1 DEF Start
<1>3. overlapped' \in BOOLEAN
  BY <1>1 DEF Start, TypeOK
<1>4. TypeOK'
  BY <1>1, <1>2, <1>3, HandlerTyped DEF TypeOK
<1>5. ASSUME ~overlapped'
      PROVE  /\ \A t, u \in Slots : Busy(t)' /\ Busy(u)' => t = u
             /\ \A t \in Slots : Settled(request'[t])
             /\ TablesSettled
  <2>1. ~overlapped /\ \A t \in Slots : request[t].step = "idle"
    BY <1>1, <1>5 DEF Start, At
  <2>2. \A t \in Slots : request'[t] = IF t = s THEN q ELSE request[t]
    BY <1>2 DEF Continue, TypeOK
  <2>3. TablesSettled /\ \A t \in Slots : Settled(request[t])
    BY <2>1 DEF Alone
  <2>4. \A t, u \in Slots : Busy(t)' /\ Busy(u)' => t = u
    BY <2>1, <2>2 DEF Busy, At
  <2> QED BY <1>1, <2>2, <2>3, <2>4
<1>6. \A r : Settled(r)' <=> Settled(r)
  BY <1>2 DEF Settled, ActiveRoot, IsActive, Exists
<1>7. TablesSettled' <=> TablesSettled
  BY <1>2 DEF TablesSettled, Versions, Deleted, ActiveRoot, IsActive, Exists
<1>8. \A t \in Slots : Settled(request'[t]) => Settled(request[t])'
  BY <1>6
<1> QED BY <1>4, <1>5, <1>7, <1>8 DEF Alone

-----------------------------------------------------------------------------
(* Steps                                                                     *)

\* The handler s ends, or goes on, in a state whose tables are settled.
LEMMA AloneStep ==
    ASSUME TypeOK, Alone, NEW s \in Slots, NEW q \in Request, Continue(s, q),
           request[s].step # "idle", overlapped' = overlapped,
           ~overlapped => TablesSettled' /\ Settled(q)'
    PROVE  Alone'
<1> SUFFICES ASSUME ~overlapped PROVE Alone'
  BY DEF Alone
<1>1. \A t \in Slots : t # s => request[t].step = "idle"
  BY DEF Alone, Busy, At
<1>2. \A t \in Slots : request'[t] = IF t = s THEN q ELSE request[t]
  BY DEF Continue, TypeOK
<1>3. \A r : r.step = "idle" => Settled(r)'
  BY DEF Settled, StepsOfVersion
<1>4. \A t \in Slots : Settled(request[t])'
  BY <1>1, <1>2, <1>3
<1>5. \A t, u \in Slots : Busy(t)' /\ Busy(u)' => t = u
  BY <1>1, <1>2 DEF Busy, At
<1> QED BY <1>4, <1>5 DEF Alone

LEMMA EndStep ==
    ASSUME TypeOK, Alone, NEW s \in Slots, Finish(s), request[s].step # "idle",
           overlapped' = overlapped, ~overlapped => TablesSettled'
    PROVE  Alone'
<1>1. Settled(Idle)'
  BY DEF Settled, Idle, StepsOfVersion
<1> QED BY <1>1, AloneStep, IdleIsRequest DEF Finish

\* The row of u is written, and the sessions of u are revoked or not.
LEMMA RowTyped ==
    ASSUME TypeOK, NEW s \in Slots, Finish(s), NEW u \in DOMAIN account, NEW row \in Account,
           account' = [account EXCEPT ![u] = row], revoked' = revoked \/ Revoke(u),
           open' \in [Users -> SUBSET Things], UNCHANGED <<session, restarts, overlapped>>
    PROVE  TypeOK'
<1>1. DOMAIN account' = DOMAIN account /\ account' \in [DOMAIN account -> Account]
  BY DEF TypeOK
<1>2. revoked' \subseteq session
  BY DEF Revoke, TypeOK
<1> QED BY <1>1, <1>2, HandlerTyped, IdleIsRequest DEF Finish, TypeOK

\* The row of u is written with the next version: the tokens of u fall behind it.
LEMMA RowSettled ==
    ASSUME TypeOK, TablesSettled, NEW u \in DOMAIN account, NEW row \in Account,
           account' = [account EXCEPT ![u] = row], Revoke(u), session' = session,
           row.version = account[u].version + 1,
           row.deleted => row.role # "ROOT" /\ ~row.active /\ open'[u] = {},
           \A v \in DOMAIN account : v # u => open'[v] = open[v],
           \/ \E v \in DOMAIN account \ {u} : ActiveRoot(v)
           \/ /\ row.role = account[u].role /\ row.role = "CLIENT"
           \/ /\ row.role = account[u].role /\ row.active = account[u].active
              /\ row.banned => account[u].banned
              /\ row.deleted = account[u].deleted
    PROVE  TablesSettled'
<1>1. DOMAIN account' = DOMAIN account
  BY DEF TypeOK
<1>2. \A v \in DOMAIN account : account'[v] = IF v = u THEN row ELSE account[v]
  OBVIOUS
<1>3. \A v \in DOMAIN account : account[v].version \in Nat
  BY DEF TypeOK, Account
<1>4. \A t \in session : t.version \in Nat /\ t.user \in DOMAIN account
  BY DEF TypeOK, Token
<1>5. Versions'
  <2>1. \A t \in session : t.version <= account'[t.user].version
    BY <1>2, <1>3, <1>4 DEF TablesSettled, Versions
  <2>2. ASSUME NEW t \in revoked' PROVE t.version < account'[t.user].version
    <3>1. t \in session /\ (t \in revoked \/ t.user = u)
      BY <2>2 DEF Revoke, TypeOK
    <3>2. t.version <= account[t.user].version
      BY <3>1 DEF TablesSettled, Versions
    <3>3. t \in revoked => t.version < account[t.user].version
      BY DEF TablesSettled, Versions
    <3> QED BY <1>2, <1>3, <1>4, <3>1, <3>2, <3>3
  <2> QED BY <2>1, <2>2 DEF Versions
<1>6. Deleted'
  BY <1>1, <1>2 DEF TablesSettled, Deleted
<1>7. \E v \in DOMAIN account : ActiveRoot(v)'
  <2>1. \A v \in DOMAIN account : v # u /\ ActiveRoot(v) => ActiveRoot(v)'
    BY <1>1, <1>2 DEF ActiveRoot, IsActive, Exists
  <2>2. CASE \E v \in DOMAIN account \ {u} : ActiveRoot(v)
    BY <2>1, <2>2
  <2>3. CASE row.role = account[u].role /\ row.role = "CLIENT"
    BY <2>1, <2>3 DEF TablesSettled, ActiveRoot
  <2>4. CASE /\ row.role = account[u].role /\ row.active = account[u].active
             /\ row.banned => account[u].banned
             /\ row.deleted = account[u].deleted
    <3>1. ActiveRoot(u) => ActiveRoot(u)'
      BY <1>1, <1>2, <2>4 DEF ActiveRoot, IsActive, Exists
    <3> QED BY <2>1, <3>1 DEF TablesSettled
  <2> QED BY <2>2, <2>3, <2>4
<1> QED BY <1>1, <1>5, <1>6, <1>7 DEF TablesSettled

\* The rows that these handlers write
LEMMA RoleRow ==
    ASSUME NEW old \in Account, NEW n \in Nat, NEW role \in Roles
    PROVE  [old EXCEPT !.role = role, !.version = n] \in Account
BY DEF Account

LEMMA BanRow ==
    ASSUME NEW old \in Account, NEW n \in Nat, NEW banned \in BOOLEAN
    PROVE  [old EXCEPT !.banned = banned, !.version = n] \in Account
BY DEF Account

LEMMA DeletedRow ==
    ASSUME NEW old \in Account, NEW n \in Nat
    PROVE  [old EXCEPT !.deleted = TRUE, !.active = FALSE, !.version = n] \in Account
BY DEF Account

\* Resets, changes of role, bans and deletions write the row and its next version.
LEMMA RevokingStep ==
    ASSUME TypeOK, Alone, NEW s \in Slots,
           WriteReset(s) \/ WriteRole(s) \/ WriteBan(s) \/ WriteDelete(s)
    PROVE  TypeOK' /\ Alone'
<1> DEFINE q == request[s]
           u == q.user
<1>0. /\ q \in Request /\ u \in DOMAIN account /\ account[u] \in Account
      /\ q.step \in StepsOfVersion /\ q.version \in Nat /\ q.step # "idle"
  BY HandlerFacts, RequestFields
     DEF WriteReset, WriteRole, WriteBan, WriteDelete, At, StepsOfVersion
<1>a. q.version + 1 \in Nat
  BY <1>0
<1>1. /\ Finish(s) /\ Revoke(u) /\ UNCHANGED <<session, restarts, overlapped>>
      /\ open' \in [Users -> SUBSET Things]
      /\ \A v \in DOMAIN account : v # u => open'[v] = open[v]
  BY <1>0 DEF WriteReset, WriteRole, WriteBan, WriteDelete, TypeOK
<1>2. ~overlapped => Settled(q) /\ TablesSettled
  BY DEF Alone
<1>3. ~overlapped => q.version = account[u].version
  BY <1>0, <1>2 DEF Settled
<1>4. ~overlapped => (account[u].deleted =>
                        account[u].role # "ROOT" /\ ~account[u].active /\ open[u] = {})
  BY <1>0, <1>2 DEF TablesSettled, Deleted
<1>5. \E row \in Account :
         /\ account' = [account EXCEPT ![u] = row]
         /\ row.version = q.version + 1
         /\ ~overlapped => (row.deleted => row.role # "ROOT" /\ ~row.active /\ open'[u] = {})
         /\ ~overlapped =>
               \/ \E v \in DOMAIN account \ {u} : ActiveRoot(v)
               \/ /\ row.role = account[u].role /\ row.role = "CLIENT"
               \/ /\ row.role = account[u].role /\ row.active = account[u].active
                  /\ row.banned => account[u].banned
                  /\ row.deleted = account[u].deleted
  <2>1. CASE WriteReset(s)
    <3> DEFINE row == [account[u] EXCEPT !.version = q.version + 1]
    <3>1. account' = [account EXCEPT ![u] = row] /\ open' = open
      BY <2>1 DEF WriteReset
    <3>2. /\ row \in Account /\ row.version = q.version + 1
          /\ row.role = account[u].role /\ row.active = account[u].active
          /\ row.banned = account[u].banned /\ row.deleted = account[u].deleted
      BY <1>0 DEF Account
    <3> HIDE DEF row
    <3> QED BY <1>4, <3>1, <3>2
  <2>2. CASE WriteRole(s)
    <3> DEFINE row == [account[u] EXCEPT !.role = q.role, !.version = q.version + 1]
    <3>1. account' = [account EXCEPT ![u] = row] /\ open' = open
      BY <1>0, <2>2 DEF WriteRole, TypeOK
    <3>2. q.step = "role.write" /\ q.role \in Roles
      BY <1>0, <2>2, RequestFields DEF WriteRole, At
    <3>3. /\ row \in Account /\ row.version = q.version + 1
          /\ row.role = q.role /\ row.active = account[u].active
          /\ row.deleted = account[u].deleted
      <4>1. row \in Account
        BY <1>0, <3>2, <1>a, RoleRow
      <4> QED BY <1>0, <4>1 DEF Account
    <3>4. ~overlapped =>
              q.role # "ROOT" /\ \E v \in DOMAIN account \ {u} : ActiveRoot(v)
      BY <1>2, <3>2 DEF Settled
    <3> HIDE DEF row
    <3> QED BY <1>4, <3>1, <3>3, <3>4
  <2>3. CASE WriteBan(s)
    <3> DEFINE row == [account[u] EXCEPT !.banned = q.banned, !.version = q.version + 1]
    <3>1. account' = [account EXCEPT ![u] = row] /\ open' = open
      BY <1>0, <2>3 DEF WriteBan, TypeOK
    <3>2. q.step = "ban.write" /\ q.banned \in BOOLEAN
      BY <1>0, <2>3, RequestFields DEF WriteBan, At
    <3>3. /\ row \in Account /\ row.version = q.version + 1
          /\ row.role = account[u].role /\ row.active = account[u].active
          /\ row.banned = q.banned /\ row.deleted = account[u].deleted
      <4>1. row \in Account
        BY <1>0, <3>2, <1>a, BanRow
      <4> QED BY <1>0, <4>1 DEF Account
    <3>4. ~overlapped => (q.banned => account[u].role = "CLIENT")
      BY <1>2, <3>2 DEF Settled
    <3> HIDE DEF row
    <3> QED BY <1>4, <3>1, <3>3, <3>4
  <2>4. CASE WriteDelete(s)
    <3> DEFINE row == [account[u] EXCEPT !.deleted = TRUE, !.active = FALSE,
                                         !.version = q.version + 1]
    <3>1. account' = [account EXCEPT ![u] = row] /\ open'[u] = {}
      BY <1>0, <2>4 DEF WriteDelete, TypeOK
    <3>2. q.step = "delete.write"
      BY <2>4 DEF WriteDelete, At
    <3>3. /\ row \in Account /\ row.version = q.version + 1
          /\ row.role = account[u].role /\ ~row.active
      <4>1. row \in Account
        BY <1>0, <1>a, DeletedRow
      <4> QED BY <1>0, <4>1 DEF Account
    <3>4. ~overlapped => account[u].role = "CLIENT"
      BY <1>2, <3>2 DEF Settled
    <3> HIDE DEF row
    <3> QED BY <3>1, <3>3, <3>4
  <2> QED BY <2>1, <2>2, <2>3, <2>4
<1>6. PICK row \in Account :
         /\ account' = [account EXCEPT ![u] = row]
         /\ row.version = q.version + 1
         /\ ~overlapped => (row.deleted => row.role # "ROOT" /\ ~row.active /\ open'[u] = {})
         /\ ~overlapped =>
               \/ \E v \in DOMAIN account \ {u} : ActiveRoot(v)
               \/ /\ row.role = account[u].role /\ row.role = "CLIENT"
               \/ /\ row.role = account[u].role /\ row.active = account[u].active
                  /\ row.banned => account[u].banned
                  /\ row.deleted = account[u].deleted
  BY <1>5
<1>7. TypeOK'
  BY <1>0, <1>1, <1>6, RowTyped
<1>8. ~overlapped => TablesSettled'
  <2> HIDE DEF q, u
  <2> QED BY <1>0, <1>1, <1>2, <1>3, <1>6, RowSettled
<1> QED BY <1>0, <1>1, <1>7, <1>8, EndStep

\* An account is inserted: it is a client's, and has no tokens.
LEMMA InsertFacts ==
    ASSUME TypeOK, NEW u \in Users, Insert(u), UNCHANGED <<session, revoked, open>>
    PROVE  /\ DOMAIN account' = DOMAIN account \cup {u}
           /\ account' \in [DOMAIN account' -> Account]
           /\ TablesSettled => TablesSettled'
           /\ ~Exists(u) => account'[u] = NewAccount("CLIENT", FALSE)
<1>1. NewAccount("CLIENT", FALSE) \in Account
  BY DEF NewAccount, Account, Roles
<1>2. /\ DOMAIN account' = DOMAIN account \cup {u}
      /\ \A v \in DOMAIN account' :
            account'[v] = IF v \in DOMAIN account THEN account[v] ELSE NewAccount("CLIENT", FALSE)
  BY DEF Insert, Exists
<1>3. account' \in [DOMAIN account' -> Account]
  <2>1. account' = [v \in DOMAIN account \cup {u} |->
                      IF Exists(v) THEN account[v] ELSE NewAccount("CLIENT", FALSE)]
    BY DEF Insert
  <2> QED BY <1>1, <2>1 DEF TypeOK, Exists
<1>4. ASSUME TablesSettled PROVE TablesSettled'
  <2>1. Versions'
    BY <1>2, <1>4 DEF TablesSettled, Versions, TypeOK
  <2>2. ~NewAccount("CLIENT", FALSE).deleted
    BY DEF NewAccount
  <2>3. Deleted'
    BY <1>2, <1>4, <2>2 DEF TablesSettled, Deleted
  <2>4. \A v \in DOMAIN account : ActiveRoot(v) => ActiveRoot(v)'
    BY <1>2 DEF ActiveRoot, IsActive, Exists
  <2> QED BY <1>2, <1>4, <2>1, <2>3, <2>4 DEF TablesSettled
<1> QED BY <1>2, <1>3, <1>4 DEF Exists

LEMMA CreateStep ==
    ASSUME TypeOK, Alone, NEW s \in Slots, CreateRegistered(s) \/ CreateAdmin(s)
    PROVE  TypeOK' /\ Alone'
<1> DEFINE q == request[s]
<1>0. /\ q \in Request /\ q.step \in {"register.create", "admin.create"}
      /\ q.user \in Users /\ q.step # "idle"
      /\ UNCHANGED <<session, open, restarts, revoked, overlapped>>
  BY HandlerFacts, RequestFields DEF CreateRegistered, CreateAdmin, At
<1>1. ~overlapped => TablesSettled
  BY DEF Alone
<1>2. CASE Insert(q.user) /\ Finish(s)
  <2>1. /\ DOMAIN account' = DOMAIN account \cup {q.user}
        /\ account' \in [DOMAIN account' -> Account]
        /\ TablesSettled => TablesSettled'
    BY <1>0, <1>2, InsertFacts
  <2>2. TypeOK'
    BY <1>0, <1>2, <2>1, HandlerTyped, IdleIsRequest DEF Finish, TypeOK
  <2>3. Alone'
    BY <1>0, <1>1, <1>2, <2>1, EndStep
  <2> QED BY <2>2, <2>3
<1>3. CASE account' = account /\ Finish(s)
  <2>1. TypeOK'
    BY <1>0, <1>3, HandlerTyped, IdleIsRequest DEF Finish, TypeOK
  <2>2. TablesSettled => TablesSettled'
    BY <1>0, <1>3 DEF TablesSettled, Versions, Deleted, ActiveRoot, IsActive, Exists
  <2> QED BY <1>0, <1>1, <1>3, <2>1, <2>2, EndStep
<1>4. CASE /\ q.step = "admin.create" /\ ~Exists(q.user) /\ Insert(q.user)
           /\ Continue(s, [q EXCEPT !.step = "admin.appoint"])
  <2>1. q = [step |-> "admin.create", user |-> q.user, role |-> q.role] /\ q.role \in Roles
    BY <1>0, <1>4, RequestFields
  <2>2. PICK r \in Request : Continue(s, r) /\ r.step = "admin.appoint" /\ r.user = q.user
    <3> DEFINE r == [step |-> "admin.appoint", user |-> q.user, role |-> q.role]
    <3>1. [q EXCEPT !.step = "admin.appoint"] = r
      BY <2>1
    <3>2. r \in Request
      BY <1>0, <2>1 DEF Request
    <3> QED BY <1>4, <3>1, <3>2
  <2>3. /\ DOMAIN account' = DOMAIN account \cup {q.user}
        /\ account' \in [DOMAIN account' -> Account]
        /\ TablesSettled => TablesSettled'
        /\ account'[q.user] = NewAccount("CLIENT", FALSE)
    BY <1>0, <1>4, InsertFacts
  <2>4. TypeOK'
    BY <1>0, <2>2, <2>3, HandlerTyped DEF TypeOK
  <2>5. Settled(r)'
    BY <2>2, <2>3 DEF Settled, StepsOfVersion, NewAccount
  <2> QED BY <1>0, <1>1, <2>2, <2>3, <2>4, <2>5, AloneStep
<1> QED BY <1>0, <1>2, <1>3, <1>4 DEF CreateRegistered, CreateAdmin, At

\* The new admin gets his role, which is the first change of his row.
LEMMA AppointStep ==
    ASSUME TypeOK, Alone, NEW s \in Slots, AppointAdmin(s)
    PROVE  TypeOK' /\ Alone'
<1> DEFINE q == request[s]
           u == q.user
           row == [account[u] EXCEPT !.role = q.role]
<1>0. /\ u \in DOMAIN account /\ account[u] \in Account /\ q.role \in Roles
      /\ q.step = "admin.appoint" /\ q.step # "idle"
  BY HandlerFacts, RequestFields DEF AppointAdmin, At
<1>1. /\ Finish(s) /\ UNCHANGED <<session, open, restarts, revoked, overlapped>>
      /\ account' = [account EXCEPT ![u] = row]
  BY DEF AppointAdmin
<1>2. /\ row \in Account /\ row.version = account[u].version
      /\ row.deleted = account[u].deleted /\ row.active = account[u].active
  BY <1>0 DEF Account
<1> HIDE DEF row
<1>3. TypeOK'
  BY <1>0, <1>1, <1>2, RowTyped DEF TypeOK
<1>4. ASSUME ~overlapped PROVE TablesSettled'
  <2>1. TablesSettled /\ account[u].role = "CLIENT" /\ ~account[u].deleted
    BY <1>0, <1>4 DEF Alone, Settled
  <2>2. /\ DOMAIN account' = DOMAIN account
        /\ \A v \in DOMAIN account : account'[v] = IF v = u THEN row ELSE account[v]
    BY <1>0, <1>1 DEF TypeOK
  <2>3. Versions'
    BY <1>1, <1>2, <2>1, <2>2 DEF TablesSettled, Versions, TypeOK
  <2>4. Deleted'
    BY <1>1, <1>2, <2>1, <2>2 DEF TablesSettled, Deleted
  <2>5. \A v \in DOMAIN account : ActiveRoot(v) => v # u /\ ActiveRoot(v)'
    BY <2>1, <2>2 DEF ActiveRoot, IsActive, Exists
  <2> QED BY <2>1, <2>2, <2>3, <2>4, <2>5 DEF TablesSettled
<1> QED BY <1>0, <1>1, <1>3, <1>4, EndStep

\* A login returns a token of the version that it read.
LEMMA SignStep ==
    ASSUME TypeOK, Alone, NEW s \in Slots, SignToken(s)
    PROVE  TypeOK' /\ Alone'
<1> DEFINE q == request[s]
           token == [user |-> q.user, version |-> q.version]
<1>0. /\ q.user \in DOMAIN account /\ q.version \in Nat /\ token \in Token
      /\ q.step = "login.sign" /\ q.step # "idle" /\ q.step \in StepsOfVersion
  BY HandlerFacts, RequestFields DEF SignToken, At, StepsOfVersion, Token, TypeOK
<1>1. /\ Finish(s) /\ UNCHANGED <<account, open, restarts, revoked, overlapped>>
      /\ session' = session \cup {token}
  BY DEF SignToken
<1>2. TypeOK'
  BY <1>0, <1>1, HandlerTyped, IdleIsRequest DEF Finish, TypeOK
<1>3. ASSUME ~overlapped PROVE TablesSettled'
  <2>1. TablesSettled /\ q.version = account[q.user].version
    BY <1>0, <1>3 DEF Alone, Settled
  <2>2. Versions'
    BY <1>0, <1>1, <2>1 DEF TablesSettled, Versions
  <2> QED BY <1>1, <2>1, <2>2 DEF TablesSettled, Deleted, ActiveRoot, IsActive, Exists
<1> QED BY <1>0, <1>1, <1>2, <1>3, EndStep

\* A ban or a deletion reads the version of the account.
LEMMA ReadStep ==
    ASSUME TypeOK, Alone, NEW s \in Slots, ReadForBan(s) \/ ReadForDelete(s)
    PROVE  TypeOK' /\ Alone'
<1> DEFINE q == request[s]
<1>0. /\ q \in Request /\ q.user \in DOMAIN account /\ q.step # "idle"
      /\ account[q.user].version \in Nat
      /\ UNCHANGED <<account, session, open, restarts, revoked, overlapped>>
  BY HandlerFacts DEF ReadForBan, ReadForDelete, At, Account
<1>1. PICK r \in Request : /\ Continue(s, r)
                           /\ r.step = "idle" \/ r.user = q.user
                           /\ Settled(q) => Settled(r)
  <2>1. CASE ReadForBan(s)
    <3> DEFINE r == [step |-> "ban.write", user |-> q.user, banned |-> q.banned,
                     version |-> account[q.user].version]
    <3>1. q.step = "ban.read" /\ Continue(s, r)
      BY <2>1 DEF ReadForBan, At
    <3>2. q.banned \in BOOLEAN /\ q.user \in Users
      BY <1>0, <3>1, RequestFields
    <3>3. r \in Request
      BY <1>0, <3>2 DEF Request
    <3>4. Settled(q) => Settled(r)
      BY <3>1 DEF Settled, StepsOfVersion
    <3> QED BY <3>1, <3>3, <3>4
  <2>2. CASE ReadForDelete(s) /\ ~account[q.user].deleted
    <3> DEFINE r == [step |-> "delete.write", user |-> q.user,
                     version |-> account[q.user].version]
    <3>1. q.step = "delete.read" /\ Continue(s, r)
      BY <2>2 DEF ReadForDelete, At
    <3>2. q.user \in Users
      BY <1>0, <3>1, RequestFields
    <3>3. r \in Request
      BY <1>0, <3>2 DEF Request
    <3>4. Settled(q) => Settled(r)
      BY <3>1 DEF Settled, StepsOfVersion
    <3> QED BY <3>1, <3>3, <3>4
  <2>3. CASE ReadForDelete(s) /\ account[q.user].deleted
    <3>1. Continue(s, Idle)
      BY <2>3 DEF ReadForDelete, Finish
    <3>2. Settled(Idle)
      BY DEF Settled, Idle, StepsOfVersion
    <3> QED BY <3>1, <3>2, IdleIsRequest
  <2> QED BY <2>1, <2>2, <2>3
<1>2. TypeOK'
  BY <1>0, <1>1, HandlerTyped DEF TypeOK
<1>3. TablesSettled => TablesSettled'
  BY <1>0 DEF TablesSettled, Versions, Deleted, ActiveRoot, IsActive, Exists
<1>4. Settled(r) => Settled(r)'
  BY <1>0 DEF Settled, ActiveRoot, IsActive, Exists
<1>5. ~overlapped => TablesSettled /\ Settled(q)
  BY DEF Alone
<1> QED BY <1>0, <1>1, <1>2, <1>3, <1>4, <1>5, AloneStep

\* A listing, a room or a share is opened by a user who was not deleted.
LEMMA UseStep ==
    ASSUME TypeOK, Alone, NEW s \in Slots, WriteUse(s)
    PROVE  TypeOK' /\ Alone'
<1> DEFINE q == request[s]
<1>0. /\ q.user \in DOMAIN account /\ q.user \in Users /\ q.thing \in Things
      /\ q.step = "use.write" /\ q.step # "idle"
  BY HandlerFacts, RequestFields DEF WriteUse, At
<1>1. /\ Finish(s) /\ UNCHANGED <<account, session, restarts, revoked, overlapped>>
      /\ open' = [open EXCEPT ![q.user] = @ \cup {q.thing}]
  BY DEF WriteUse
<1>2. /\ open' \in [Users -> SUBSET Things]
      /\ \A v \in Users : v # q.user => open'[v] = open[v]
  BY <1>0, <1>1 DEF TypeOK
<1>3. TypeOK'
  BY <1>0, <1>1, <1>2, HandlerTyped, IdleIsRequest DEF Finish, TypeOK
<1>4. ASSUME ~overlapped PROVE TablesSettled'
  <2>1. TablesSettled /\ ~account[q.user].deleted
    BY <1>0, <1>4 DEF Alone, Settled
  <2>2. Deleted'
    BY <1>1, <1>2, <2>1 DEF TablesSettled, Deleted, TypeOK
  <2> QED BY <1>1, <2>1, <2>2 DEF TablesSettled, Versions, ActiveRoot, IsActive, Exists
<1> QED BY <1>0, <1>1, <1>3, <1>4, EndStep

\* The account that is repaired is not deleted, and root again.
LEMMA RestartStep == ASSUME TypeOK, Alone, Restart PROVE TypeOK' /\ Alone'
<1>1. PICK u \in Repairable :
         account' = [account EXCEPT ![u].role = "ROOT", ![u].active = TRUE, ![u].banned = FALSE,
                                    ![u].contact = TRUE]
  BY DEF Restart
<1> DEFINE row == [account[u] EXCEPT !.role = "ROOT", !.active = TRUE, !.banned = FALSE,
                                        !.contact = TRUE]
<1>2. /\ u \in DOMAIN account /\ account[u] \in Account
      /\ HasContact(u) \/ account[u].role = "ROOT"
  BY <1>1 DEF Repairable, TypeOK
<1>3. account' = [account EXCEPT ![u] = row]
  BY <1>1, <1>2 DEF TypeOK
<1>4. /\ row \in Account /\ row.role = "ROOT" /\ row.active /\ ~row.banned
      /\ row.version = account[u].version /\ row.deleted = account[u].deleted
  <2>1. row \in Account
    BY <1>2 DEF Account, Roles
  <2> QED BY <1>2, <2>1 DEF Account
<1> HIDE DEF row
<1>5. /\ DOMAIN account' = DOMAIN account /\ account' \in [DOMAIN account -> Account]
      /\ \A v \in DOMAIN account : account'[v] = IF v = u THEN row ELSE account[v]
  BY <1>2, <1>3, <1>4 DEF TypeOK
<1>6. /\ UNCHANGED <<session, open, revoked, overlapped>> /\ restarts' = restarts + 1
      /\ \A s \in Slots : request'[s] = Idle
      /\ request' \in [Slots -> Request]
  BY IdleIsRequest DEF Restart
<1>7. TypeOK'
  BY <1>5, <1>6, IdleIsRequest DEF TypeOK
<1>8. ASSUME ~overlapped PROVE TablesSettled'
  <2>1. TablesSettled
    BY <1>8 DEF Alone
  <2>2. ~account[u].deleted
    BY <1>2, <2>1 DEF TablesSettled, Deleted, HasContact
  <2>3. Versions'
    BY <1>4, <1>5, <1>6, <2>1 DEF TablesSettled, Versions, TypeOK
  <2>4. Deleted'
    BY <1>4, <1>5, <1>6, <2>1, <2>2 DEF TablesSettled, Deleted
  <2>5. ActiveRoot(u)'
    BY <1>2, <1>4, <1>5, <2>2 DEF ActiveRoot, IsActive, Exists
  <2> QED BY <1>2, <1>5, <2>3, <2>4, <2>5 DEF TablesSettled
<1>9. \A s \in Slots : ~Busy(s)' /\ Settled(request[s])'
  BY <1>6 DEF Busy, At, Settled, Idle, StepsOfVersion
<1> QED BY <1>6, <1>7, <1>8, <1>9 DEF Alone

-----------------------------------------------------------------------------

LEMMA InitInv == Init => TypeOK /\ Alone
<1> SUFFICES ASSUME Init PROVE TypeOK /\ Alone
  OBVIOUS
<1>1. NewAccount("ROOT", TRUE) \in Account
  BY DEF NewAccount, Account, Roles
<1>2. /\ DOMAIN account = {Root} /\ account \in [DOMAIN account -> Account]
      /\ account[Root] = NewAccount("ROOT", TRUE)
  BY <1>1 DEF Init
<1>3. request \in [Slots -> Request] /\ \A s \in Slots : request[s] = Idle
  BY IdleIsRequest DEF Init
<1>4. TypeOK
  BY <1>2, <1>3, UsersAssumption, IdleIsRequest DEF Init, TypeOK
<1>5. TablesSettled
  BY <1>2 DEF Init, TablesSettled, Versions, Deleted, ActiveRoot, IsActive, Exists, NewAccount
<1>6. \A s \in Slots : ~Busy(s) /\ Settled(request[s])
  BY <1>3 DEF Busy, At, Settled, Idle, StepsOfVersion
<1> QED BY <1>4, <1>5, <1>6 DEF Alone

\* TypeOK is inductive, and Alone with it.
THEOREM Invariance == Spec => [](TypeOK /\ Alone)
<1>1. TypeOK /\ Alone /\ [Next]_vars => TypeOK' /\ Alone'
  <2> SUFFICES ASSUME TypeOK, Alone, [Next]_vars PROVE TypeOK' /\ Alone'
    OBVIOUS
  <2>1. CASE UNCHANGED vars
    <3>1. TypeOK'
      BY <2>1 DEF vars, TypeOK
    <3>2. Alone'
      BY <2>1 DEF vars, Alone, Busy, At, Settled, TablesSettled, Versions, Deleted,
                  ActiveRoot, IsActive, Exists
    <3> QED BY <3>1, <3>2
  <2>2. ASSUME NEW s \in Slots, Begin(s) PROVE TypeOK' /\ Alone'
    BY <2>2, BeginStep
  <2>3. ASSUME NEW s \in Slots, Step(s) PROVE TypeOK' /\ Alone'
    BY <2>3, CreateStep, AppointStep, SignStep, RevokingStep, ReadStep, UseStep DEF Step
  <2> QED BY <2>1, <2>2, <2>3, RestartStep DEF Next
<1> QED BY InitInv, <1>1, PTL DEF Spec

\* The tables and the handlers keep their types, whatever races: a token, and a
\* handler beyond the creation, refer to an account that exists.
THEOREM TypeCorrect == Spec => []TypeOK
<1> QED BY Invariance, PTL

\* Without overlaps a session that was revoked is refused for ever.
THEOREM RevocationSafety == Spec => []RevokedStaysOut
<1>1. TypeOK /\ Alone => RevokedStaysOut
  <2> SUFFICES ASSUME TypeOK, Alone, ~overlapped, NEW t \in revoked PROVE ~Accepted(t)
    BY DEF RevokedStaysOut
  <2>1. t.version < account[t.user].version
    BY DEF Alone, TablesSettled, Versions
  <2>2. t.version \in Nat
    BY DEF TypeOK, Token
  <2>3. account[t.user].version # t.version
    <3>1. account[t.user].version \in Nat
      BY DEF TypeOK, Account
    <3> QED BY <2>1, <2>2, <3>1
  <2> QED BY <2>3 DEF Accepted
<1> QED BY <1>1, Invariance, PTL

\* Without overlaps some root admin can always sign in.
THEOREM RootSafety == Spec => []RootRemains
<1>1. Alone => RootRemains
  BY DEF Alone, TablesSettled, ActiveRoot, RootRemains
<1> QED BY <1>1, Invariance, PTL

\* Without overlaps a deleted account has nothing open and stays inactive.
THEOREM DeletionSafety == Spec => []DeletedLeavesNothing
<1>1. Alone => DeletedLeavesNothing
  BY DEF Alone, TablesSettled, Deleted, DeletedLeavesNothing
<1> QED BY <1>1, Invariance, PTL

-----------------------------------------------------------------------------
(* The verification of a KBZPay account                                      *)
(*                                                                         *)
(* The pages of the dashboard are disjoint because a transfer that is      *)
(* submitted was checked against a row that only the deletion of the       *)
(* account resets: KbzInv says what a handler that passed the checks may   *)
(* still rely on.  Rewarded is the invariant behind the bonus, which holds *)
(* as long as no two handlers overlap and none dies.                       *)

\* What was submitted was asked for and instructed.
Founded ==
    ~deleted =>
        /\ kbz.paid => kbz.requested /\ kbz.instructed
        /\ \A s \in Handlers : Doing(s, "submit") => kbz.requested /\ kbz.instructed

KbzInv == KbzTypeOK /\ Founded

Working(s) == ~Doing(s, "idle")

\* The handlers that ever overlapped, and what the only one in flight found
Rewarded ==
    ~raced =>
        /\ \A s, t \in Handlers : Working(s) /\ Working(t) => s = t
        /\ ~died /\ ~deleted =>
              /\ \A s \in Handlers : Doing(s, "request") => ~kbz.verified
              /\ \A s \in Handlers : Doing(s, "bonus") => kbz.verified
              /\ (\A s \in Handlers : ~Doing(s, "bonus")) => (kbz.verified <=> bonus = 1)

-----------------------------------------------------------------------------

LEMMA KbzInitInv == KbzInit => KbzInv /\ Rewarded
<1> SUFFICES ASSUME KbzInit PROVE KbzInv /\ Rewarded
  OBVIOUS
<1>1. KbzTypeOK
  <2>1. kbz \in Kbz
    BY DEF KbzInit, NewKbz, Kbz
  <2>2. handler \in [Handlers -> Steps]
    BY DEF KbzInit, Steps
  <2>3. bonus \in 0..1
    BY DEF KbzInit
  <2> QED BY <2>1, <2>2, <2>3 DEF KbzInit, KbzTypeOK
<1>2. \A s \in Handlers : handler[s] = "idle"
  BY DEF KbzInit
<1>3. ~kbz.paid /\ ~kbz.verified /\ bonus = 0
  BY DEF KbzInit, NewKbz
<1> QED BY <1>1, <1>2, <1>3 DEF KbzInv, Founded, Rewarded, Working, Doing

\* A handler starts.
LEMMA KbzBeginTyped == ASSUME KbzTypeOK, NEW s \in Handlers, KbzBegin(s) PROVE KbzTypeOK'
BY DEF KbzTypeOK, KbzBegin, ClientRoutes, AdminRoutes, BeginRequest, BeginSubmit, BeginInstruct,
       BeginVerify, BeginDeletion, Enter, Proceed, Steps

\* A handler writes what it has computed, or dies.
LEMMA KbzStepTyped ==
    ASSUME KbzTypeOK, NEW s \in Handlers, KbzStep(s) \/ Crash(s)
    PROVE  KbzTypeOK'
<1>1. CASE WriteRequest(s)
  BY <1>1 DEF KbzTypeOK, WriteRequest, Write, Proceed, Steps, Kbz
<1>2. CASE WriteInstruction(s)
  BY <1>2 DEF KbzTypeOK, WriteInstruction, Write, Proceed, Steps, Kbz
<1>3. CASE WriteTransfer(s)
  BY <1>3 DEF KbzTypeOK, WriteTransfer, Write, Proceed, Steps, Kbz
<1>4. CASE WriteVerified(s)
  BY <1>4 DEF KbzTypeOK, WriteVerified, Write, Proceed, Steps, Kbz
<1>5. CASE GrantBonus(s)
  BY <1>5 DEF KbzTypeOK, GrantBonus, Write, Proceed, Steps, Kbz
<1>6. CASE WriteDeletion(s)
  BY <1>6 DEF KbzTypeOK, WriteDeletion, Write, Proceed, Steps, Kbz, NewKbz
<1>7. CASE Crash(s)
  BY <1>7 DEF KbzTypeOK, Crash, Proceed, Steps
<1> QED BY <1>1, <1>2, <1>3, <1>4, <1>5, <1>6, <1>7 DEF KbzStep

\* Checks that passed stay true until the account is deleted.
LEMMA BeginFounded == ASSUME KbzInv, NEW s \in Handlers, KbzBegin(s) PROVE Founded'
BY DEF KbzInv, KbzTypeOK, Founded, KbzBegin, ClientRoutes, AdminRoutes, BeginRequest, BeginSubmit,
       BeginInstruct, BeginVerify, BeginDeletion, Enter, Proceed, Doing

LEMMA StepFounded ==
    ASSUME KbzInv, NEW s \in Handlers, KbzStep(s) \/ Crash(s)
    PROVE  Founded'
<1> USE DEF KbzInv, KbzTypeOK, Founded, Write, Proceed, Doing, Kbz
<1>1. CASE WriteRequest(s)
  BY <1>1 DEF WriteRequest
<1>2. CASE WriteInstruction(s)
  BY <1>2 DEF WriteInstruction
<1>3. CASE WriteTransfer(s)
  BY <1>3 DEF WriteTransfer
<1>4. CASE WriteVerified(s)
  BY <1>4 DEF WriteVerified
<1>5. CASE GrantBonus(s)
  BY <1>5 DEF GrantBonus
<1>6. CASE WriteDeletion(s)
  BY <1>6 DEF WriteDeletion
<1>7. CASE Crash(s)
  BY <1>7 DEF Crash
<1> QED BY <1>1, <1>2, <1>3, <1>4, <1>5, <1>6, <1>7 DEF KbzStep

\* A handler that starts alone finds the account as the one before it left it.
LEMMA BeginRewarded == ASSUME KbzInv, Rewarded, NEW s \in Handlers, KbzBegin(s) PROVE Rewarded'
<1> SUFFICES ASSUME ~raced' PROVE Rewarded'
  BY DEF Rewarded
<1>1. /\ ~raced
      /\ \A t \in Handlers : handler[t] = "idle"
      /\ UNCHANGED <<kbz, deleted, bonus, died>>
      /\ \E step \in {"request", "submit", "instruct", "verify", "delete"} :
            handler' = [handler EXCEPT ![s] = step] /\ (step = "request" => ~kbz.verified)
  BY DEF KbzBegin, ClientRoutes, AdminRoutes, BeginRequest, BeginSubmit, BeginInstruct,
         BeginVerify, BeginDeletion, MayVerify, Enter, Proceed, Doing, KbzInv, KbzTypeOK
<1> QED BY <1>1 DEF Rewarded, Working, Doing, KbzInv, KbzTypeOK

\* A handler that is alone keeps the bonus and the verification together.
LEMMA StepRewarded ==
    ASSUME KbzInv, Rewarded, NEW s \in Handlers, KbzStep(s) \/ Crash(s)
    PROVE  Rewarded'
<1> SUFFICES ASSUME ~raced' PROVE Rewarded'
  BY DEF Rewarded
<1>1. /\ ~raced
      /\ handler[s] # "idle"
      /\ \E step \in {"idle", "bonus"} : handler' = [handler EXCEPT ![s] = step]
  BY DEF KbzStep, WriteRequest, WriteInstruction, WriteTransfer, WriteVerified, GrantBonus,
         WriteDeletion, Crash, Write, Proceed, Doing
<1>2. \A t \in Handlers : t # s => handler[t] = "idle" /\ handler'[t] = "idle"
  BY <1>1 DEF Rewarded, Working, Doing, KbzInv, KbzTypeOK
<1>3. \A t, u \in Handlers : Working(t)' /\ Working(u)' => t = u
  BY <1>2 DEF Working, Doing
<1>4. ASSUME ~died', ~deleted'
      PROVE  /\ handler'[s] # "request"
             /\ handler'[s] = "bonus" => kbz'.verified
             /\ handler'[s] # "bonus" => (kbz'.verified <=> bonus' = 1)
  <2> USE <1>1, <1>2, <1>4 DEF Rewarded, KbzInv, KbzTypeOK, Kbz, Doing, Write, Proceed
  <2>1. CASE WriteRequest(s)
    BY <2>1 DEF WriteRequest
  <2>2. CASE WriteInstruction(s)
    BY <2>2 DEF WriteInstruction
  <2>3. CASE WriteTransfer(s)
    BY <2>3 DEF WriteTransfer
  <2>4. CASE WriteVerified(s)
    BY <2>4 DEF WriteVerified
  <2>5. CASE GrantBonus(s)
    BY <2>5 DEF GrantBonus
  <2>6. ~WriteDeletion(s) /\ ~Crash(s)
    BY DEF WriteDeletion, Crash
  <2> QED BY <2>1, <2>2, <2>3, <2>4, <2>5, <2>6 DEF KbzStep
<1> QED BY <1>2, <1>3, <1>4 DEF Rewarded, Doing

-----------------------------------------------------------------------------

\* Inv is inductive, and so is Rewarded with it.
THEOREM KbzInvariance == KbzSpec => [](KbzInv /\ Rewarded)
<1>1. KbzInv /\ Rewarded /\ [KbzNext]_kbzVars => KbzInv' /\ Rewarded'
  <2> SUFFICES ASSUME KbzInv, Rewarded, [KbzNext]_kbzVars PROVE KbzInv' /\ Rewarded'
    OBVIOUS
  <2>1. CASE UNCHANGED kbzVars
    BY <2>1 DEF kbzVars, KbzInv, KbzTypeOK, Founded, Rewarded, Working, Doing
  <2>2. ASSUME NEW s \in Handlers, KbzBegin(s) PROVE KbzInv' /\ Rewarded'
    BY <2>2, KbzBeginTyped, BeginFounded, BeginRewarded DEF KbzInv
  <2>3. ASSUME NEW s \in Handlers, KbzStep(s) \/ Crash(s) PROVE KbzInv' /\ Rewarded'
    BY <2>3, KbzStepTyped, StepFounded, StepRewarded DEF KbzInv
  <2> QED BY <2>1, <2>2, <2>3 DEF KbzNext
<1> QED BY KbzInitInv, <1>1, PTL DEF KbzSpec

\* The row of the account, the bonus and the handlers keep their types.
THEOREM KbzTypeCorrect == KbzSpec => []KbzTypeOK
<1>1. KbzInv => KbzTypeOK
  BY DEF KbzInv
<1> QED BY <1>1, KbzInvariance, PTL

\* The pages on which an admin works through the accounts are disjoint: a
\* transfer that is to be checked was asked for, and instructed.
THEOREM DisjointLists == KbzSpec => []ListsAreDisjoint
<1>1. KbzInv => ListsAreDisjoint
  <2> SUFFICES ASSUME KbzInv, ~deleted, NEW a \in DOMAIN AdminLists, NEW b \in DOMAIN AdminLists,
                      AdminLists[a], AdminLists[b]
               PROVE  a = b
    BY DEF ListsAreDisjoint
  <2>1. DOMAIN AdminLists =
            {"verificationRequested", "moneyCheck", "verifiedUsers", "registeredAccounts"}
    BY DEF AdminLists
  <2>2. /\ InRegistered => ~InRequested /\ ~InMoneyCheck /\ ~InVerified
        /\ InRequested => ~InMoneyCheck /\ ~InVerified
        /\ InMoneyCheck => ~InVerified
    BY DEF KbzInv, Founded, InRegistered, InRequested, InMoneyCheck, InVerified
  <2> QED BY <2>1, <2>2 DEF AdminLists
<1> QED BY <1>1, KbzInvariance, PTL

\* Without overlaps and crashes the bonus goes with the verification.
THEOREM RewardSafety == KbzSpec => []VerifiedIsRewarded
<1>1. Rewarded => VerifiedIsRewarded
  BY DEF Rewarded, VerifiedIsRewarded, AtRest, Doing, InVerified
<1> QED BY <1>1, KbzInvariance, PTL

=============================================================================
