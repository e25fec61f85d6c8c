------------------------------ MODULE Accounts ------------------------------
(***************************************************************************)
(* People of one company: AuthService and UsersService on the table        *)
(* "users", the accounts that Supabase Auth keeps for the same e-mails,    *)
(* and the column user_id of "drivers" that inviteDriver() fills.          *)
(*                                                                         *)
(* The two stores share no transaction.  A call loads and checks in one    *)
(* step and saves its copy, every column of it, in a later one.  The codes *)
(* sent by mail, the passwords and the expiry of invitations only decide   *)
(* whether a call goes on, which here it may or may not.                   *)
(***************************************************************************)
EXTENDS Integers, FiniteSets

CONSTANTS
    Null,
    Users,     \* e-mail addresses: "users" has a unique index on them
    Owner,     \* the address that registers the company
    Platform,  \* the super administrator, who belongs to no company
    Roles,     \* roles that a company's people may have
    Drivers, Handlers,
    MaxUsers,  \* global.max_users of the company's plan
    MaxUids,   \* bound: accounts ever created in Supabase Auth
    MaxLost    \* bound: calls that crash between two steps

VARIABLES
    users,     \* Users -> row, Null when absent
    accounts,  \* Users -> uid of the account in Supabase Auth, 0 when absent
    links,     \* Drivers -> drivers.user_id
    calls,     \* Handlers -> the call in flight, or Idle
    uids,      \* accounts created so far
    lost       \* calls crashed so far

vars == <<users, accounts, links, calls, uids, lost>>

Statuses == {"pending_verification", "active", "suspended", "inactive"}

\* uid is auth_uid, 0 when null; invited: the row has an invitation token.
UserRow == [role : Roles, status : Statuses, uid : 0 .. MaxUids,
            verified : BOOLEAN, invited : BOOLEAN]

Steps == {"idle", "createAuth", "commit", "cleanup", "insert", "save",
          "unlink", "find", "link"}

\* row is the copy to save, and driver the driver that inviteDriver() loaded.
Call == [step : Steps, user : Users \cup {Null}, row : UserRow \cup {Null},
         driver : Drivers \cup {Null}]

Idle == [step |-> "idle", user |-> Null, row |-> Null, driver |-> Null]

\* Type correctness of the two stores and of the calls in flight.
TypeOK ==
    /\ users \in [Users -> UserRow \cup {Null}]
    /\ accounts \in [Users -> 0 .. MaxUids]
    /\ links \in [Drivers -> Users \cup {Null}]
    /\ calls \in [Handlers -> Call]
    /\ uids \in 0 .. MaxUids /\ lost \in 0 .. MaxLost

Init ==
    /\ users = [u \in Users |-> Null]
    /\ accounts = [u \in Users |-> 0]
    /\ links = [d \in Drivers |-> Null]
    /\ calls = [h \in Handlers |-> Idle]
    /\ uids = 0 /\ lost = 0

-----------------------------------------------------------------------------
\* Who may do what.

\* ROLE_HIERARCHY.
Rank(role) ==
    CASE role = "super_admin" -> 8   [] role = "company_owner" -> 7
      [] role = "admin" -> 6         [] role = "manager" -> 5
      [] role = "dispatcher" -> 4    [] role = "accountant" -> 3
      [] role = "driver" -> 2        [] role = "viewer" -> 1

\* SupabaseJwtStrategy.validate(): the account is there and its profile is not
\* suspended or inactive.
Authenticated(a) ==
    \/ a = Platform
    \/ /\ a \in Users /\ users[a] # Null /\ users[a].uid # 0
       /\ users[a].uid = accounts[a]
       /\ users[a].status \notin {"suspended", "inactive"}

\* The role in the payload of the request.
RoleOf(a) == IF a = Platform THEN "super_admin" ELSE users[a].role

Manages(a) == RoleOf(a) \in {"super_admin", "company_owner", "admin"}

-----------------------------------------------------------------------------
\* Calls.

Present == {u \in Users : users[u] # Null}

\* A request arrives at a free handler; the stores change in a later step.
Request(h) ==
    /\ calls[h] = Idle
    /\ UNCHANGED <<users, accounts, links, uids, lost>>

Hold(h, step, u, row) ==
    calls' = [calls EXCEPT ![h] =
                 [step |-> step, user |-> u, row |-> row, driver |-> Null]]

Goto(h, step) == calls' = [calls EXCEPT ![h].step = step]

End(h) == calls' = [calls EXCEPT ![h] = Idle]

\* register(): the address has no profile yet.
Register(h) ==
    /\ Request(h)
    /\ users[Owner] = Null
    /\ Hold(h, "createAuth", Owner,
            [role |-> "company_owner", status |-> "active", uid |-> 0,
             verified |-> FALSE, invited |-> FALSE])

\* acceptInvite(): the profile that has the token, unless it has expired.
AcceptInvite(h, u) ==
    /\ Request(h)
    /\ u \in Present /\ users[u].invited
    /\ users[u].status = "pending_verification"
    /\ Hold(h, "createAuth", u,
            [users[u] EXCEPT !.status = "active", !.invited = FALSE])

\* createAuthUser(): Supabase admits one account for each address.  Without it
\* the transaction of register() rolls back, and there is nothing to clean up.
CreateAuthUser(h) ==
    LET c == calls[h] IN
    /\ c.step = "createAuth"
    /\ IF accounts[c.user] # 0
       THEN End(h) /\ UNCHANGED <<accounts, uids>>
       ELSE /\ uids < MaxUids
            /\ uids' = uids + 1
            /\ accounts' = [accounts EXCEPT ![c.user] = uids']
            /\ calls' = [calls EXCEPT
                            ![h].step = IF c.user = Owner THEN "commit" ELSE "save",
                            ![h].row.uid = uids']
    /\ UNCHANGED <<users, links, lost>>

\* Company, profile and owner are committed together.  issueVerificationCode()
\* saves the same copy later; when the referral or the first login fails then,
\* rollbackTransaction() throws, because no transaction is active any more, and
\* the account is kept.
Commit(h) ==
    LET c == calls[h] IN
    /\ c.step = "commit" /\ users[c.user] = Null
    /\ users' = [users EXCEPT ![c.user] = c.row]
    /\ Goto(h, "save")
    /\ UNCHANGED <<accounts, links, uids, lost>>

\* Mutant: the catch block of register() cleans up after the commit as well.
RollBackAlways(h) ==
    /\ calls[h].step = "commit" \/ (calls[h].step = "save" /\ calls[h].user = Owner)
    /\ Goto(h, "cleanup")
    /\ UNCHANGED <<users, accounts, links, uids, lost>>

\* A statement of the transaction of register() fails.
RollBack(h) ==
    /\ calls[h].step = "commit"
    /\ Goto(h, "cleanup")
    /\ UNCHANGED <<users, accounts, links, uids, lost>>

\* deleteAuthUser() of the account that this call created.
CleanUp(h) ==
    LET c == calls[h] IN
    /\ c.step = "cleanup"
    /\ accounts' = [accounts EXCEPT ![c.user] = IF @ = c.row.uid THEN 0 ELSE @]
    /\ End(h)
    /\ UNCHANGED <<users, links, uids, lost>>

\* invite(): only owners and administrators of the company, for roles below
\* their own, while the plan has room and the address is new.
Invite(h, a, u, role) ==
    /\ Request(h)
    /\ Authenticated(a) /\ a # Platform
    /\ Rank(role) < Rank(RoleOf(a)) /\ Manages(a)
    /\ Cardinality(Present) < MaxUsers
    /\ u \notin Present
    /\ Hold(h, "insert", u,
            [role |-> role, status |-> "pending_verification", uid |-> 0,
             verified |-> FALSE, invited |-> TRUE])

\* save() of a new row, which the unique index on the address may refuse.
Insert(h) ==
    LET c == calls[h] IN
    /\ c.step = "insert"
    /\ users' = IF users[c.user] = Null THEN [users EXCEPT ![c.user] = c.row] ELSE users
    /\ IF c.driver = Null THEN End(h) ELSE Goto(h, "link")
    /\ UNCHANGED <<accounts, links, uids, lost>>

\* save() of a loaded copy.
Save(h) ==
    LET c == calls[h] IN
    /\ c.step = "save"
    /\ users' = [users EXCEPT ![c.user] = c.row]
    /\ IF c.driver = Null THEN End(h) ELSE Goto(h, "link")
    /\ UNCHANGED <<accounts, links, uids, lost>>

\* A request that loads the profile of u and will save it.
Load(h, u, row) == Request(h) /\ u \in Present /\ Hold(h, "save", u, row)

\* login() writes the login tracking columns only.
Login(h, u) ==
    /\ Load(h, u, users[u])
    /\ accounts[u] # 0 /\ users[u].uid = accounts[u] /\ users[u].verified
    /\ users[u].status \notin {"suspended", "inactive"}

\* resendVerificationCode().
ResendCode(h, u) == Load(h, u, users[u]) /\ ~users[u].verified

\* verifyEmailCode(): the right code, or a wrong one that counts an attempt.
VerifyEmail(h, u, right) ==
    /\ Load(h, u, [users[u] EXCEPT !.verified = right])
    /\ ~users[u].verified

\* forgotPassword(), and resetPassword() with a wrong code.
ForgotPassword(h, u) == Load(h, u, users[u])

\* resetPassword() with the right one: the password is changed in Supabase.
ResetPassword(h, u) == Load(h, u, users[u]) /\ users[u].uid # 0

\* update(): oneself, or anybody for those who manage.
UpdateUser(h, a, u) ==
    /\ Authenticated(a) /\ (a = u \/ Manages(a))
    /\ Load(h, u, users[u])

\* Mutant: the owner may be demoted.
UpdateRoleOfAnyone(h, a, u, role) ==
    /\ Authenticated(a)
    /\ Rank(role) < Rank(RoleOf(a))
    /\ role = "admin" => RoleOf(a) = "company_owner"
    /\ Load(h, u, [users[u] EXCEPT !.role = role])

UpdateRole(h, a, u, role) ==
    /\ Authenticated(a)
    /\ u \in Present /\ users[u].role # "company_owner"
    /\ Rank(role) < Rank(RoleOf(a))
    /\ role = "admin" => RoleOf(a) = "company_owner"
    /\ Load(h, u, [users[u] EXCEPT !.role = role])

Deactivate(h, a, u) ==
    /\ Authenticated(a)
    /\ u \in Present /\ users[u].role # "company_owner"
    /\ a # u /\ Manages(a)
    /\ Load(h, u, [users[u] EXCEPT !.status = "inactive"])

Reactivate(h, a, u) ==
    /\ Authenticated(a) /\ Manages(a)
    /\ u \in Present /\ users[u].status = "inactive"
    /\ Load(h, u, [users[u] EXCEPT !.status = "active"])

-----------------------------------------------------------------------------
\* inviteDriver(): no limit of the plan and no hierarchy of roles.

\* The driver of a registered company; an account of his that is no longer
\* pending ends the call.
InviteDriver(h, a, d, u) ==
    /\ Request(h)
    /\ Owner \in Present
    /\ Authenticated(a) /\ (Manages(a) \/ RoleOf(a) = "manager")
    /\ links[d] # Null =>
          links[d] \in Present /\ users[links[d]].status = "pending_verification"
    /\ calls' = [calls EXCEPT ![h] =
                    [step |-> IF links[d] = Null THEN "find" ELSE "unlink",
                     user |-> u, row |-> Null, driver |-> d]]

Unlink(h) ==
    /\ calls[h].step = "unlink"
    /\ links' = [links EXCEPT ![calls[h].driver] = Null]
    /\ Goto(h, "find")
    /\ UNCHANGED <<users, accounts, uids, lost>>

\* A pending profile gets a new token, a new address a new profile, and any
\* other profile is left alone.
FindInvited(h) ==
    LET u == calls[h].user IN
    /\ calls[h].step = "find"
    /\ IF u \in Present /\ users[u].status # "pending_verification"
       THEN End(h)
       ELSE calls' = [calls EXCEPT
              ![h].step = IF u \in Present THEN "save" ELSE "insert",
              ![h].row  = IF u \in Present
                          THEN [users[u] EXCEPT !.invited = TRUE]
                          ELSE [role |-> "driver", status |-> "pending_verification",
                                uid |-> 0, verified |-> FALSE, invited |-> TRUE]]
    /\ UNCHANGED <<users, accounts, links, uids, lost>>

Link(h) ==
    /\ calls[h].step = "link"
    /\ links' = [links EXCEPT ![calls[h].driver] = calls[h].user]
    /\ End(h)
    /\ UNCHANGED <<users, accounts, uids, lost>>

\* The process dies, or a statement fails, and nothing cleans up.
Crash(h) ==
    /\ calls[h] # Idle /\ lost < MaxLost
    /\ lost' = lost + 1
    /\ End(h)
    /\ UNCHANGED <<users, accounts, links, uids>>

-----------------------------------------------------------------------------

Next ==
    \E h \in Handlers :
        \/ Register(h) \/ CreateAuthUser(h) \/ Commit(h) \/ RollBack(h) \/ CleanUp(h)
        \/ Insert(h) \/ Save(h) \/ Unlink(h) \/ FindInvited(h) \/ Link(h) \/ Crash(h)
        \/ \E u \in Users :
              \/ AcceptInvite(h, u) \/ Login(h, u) \/ ResendCode(h, u)
              \/ \E right \in BOOLEAN : VerifyEmail(h, u, right)
              \/ ForgotPassword(h, u) \/ ResetPassword(h, u)
              \/ \E a \in Users \cup {Platform} :
                    \/ UpdateUser(h, a, u) \/ Deactivate(h, a, u) \/ Reactivate(h, a, u)
                    \/ \E role \in Roles : Invite(h, a, u, role) \/ UpdateRole(h, a, u, role)
                    \/ \E d \in Drivers : InviteDriver(h, a, d, u)

Spec == Init /\ [][Next]_vars

-----------------------------------------------------------------------------

\* The two stores agree on who exists: a profile that names an account finds it
\* in Supabase Auth, and under the same address.  Whatever fails or overlaps,
\* the cleanup of register() never deletes the account of a profile.
ProfileHasAccount ==
    \A u \in Present : users[u].uid # 0 => accounts[u] = users[u].uid

\* The company keeps an owner who can act: no change of role, deactivation,
\* invitation or older copy takes the role or the status from the person who
\* registered it.
OwnerInCharge ==
    Owner \in Present =>
        users[Owner].role = "company_owner" /\ users[Owner].status = "active"
=============================================================================
