---------------------------- MODULE ServicesProofs ----------------------------
(***************************************************************************)
(* Theorems about the services around the runs and the billing, for every  *)
(* value of their constants: any number of rows, people and calls in       *)
(* flight.  Each theorem is about one service.  The variables have the     *)
(* names that MCOffice gives them, so that its scenes are instances.       *)
(***************************************************************************)
EXTENDS Integers, Sequences, FiniteSets, FiniteSetTheorems, TLAPS

CONSTANTS Null, Handlers, MaxLost,
    AccountUsers, Owner, Platform, Roles, InvitedDrivers, MaxUsers, MaxUids, MaxUserLost,
    TrackingRequests, Followers, Driver, Devices, Shipments, MaxPoints, MaxAlerts, MaxResets,
    Ids, ReviewRequests, People, Role,
    SearchRequests, Texts, Countries, Labels, MaxAnswers, MaxRows,
    TalkRequests, Users, MaxConversations, MaxMessages, MaxChatLost,
    Companies, Links, Payments, MaxUses

VARIABLES
    users, accounts, driverUsers, uids, userCalls, userLost,
    shipments, points, sockets, suspended, delivered, alerts, resets, owed, pushes, tokens,
    trackingCalls, trackingLost,
    company, verifications, reviewCalls, reviewLost,
    expenses, events, notified, expenseCalls, expenseLost,
    relations, log, relationCalls, relationLost,
    edition, answerCache, answers, addresses, routes, placeCalls, placeLost,
    conversations, messages, rooms, received, notifications, chatCalls, chatLost,
    companies, links, referrals, payers, checkouts, invoices, tasks, referralCalls, referralLost

-----------------------------------------------------------------------------
\* Accounts.

A == INSTANCE Accounts WITH
    links <- driverUsers, calls <- userCalls, lost <- userLost,
    Users <- AccountUsers, Drivers <- InvitedDrivers, MaxLost <- MaxUserLost

\* What the module is used with: null is not a row, the owner has an address, and
\* the roles that the code gives without being asked are roles.
AccountsConstants ==
    /\ Null \notin A!UserRow
    /\ Owner \in AccountUsers
    /\ {"company_owner", "driver"} \subseteq Roles
    /\ MaxUids \in Nat /\ MaxUserLost \in Nat

\* A row that leaves the owner in charge, and one whose account is there.
InCharge(u, row) ==
    u = Owner => row.role = "company_owner" /\ row.status = "active"

HasAccount(u, row) ==
    /\ row.uid # 0 => accounts[u] = row.uid
    /\ u = Owner => row.uid # 0

\* The registration is on its way: nobody else has a profile or an account yet.
Registering(call) ==
    /\ call.user = Owner /\ call.driver = Null
    /\ users[Owner] = Null
    /\ call.row.uid # 0 /\ accounts[Owner] = call.row.uid

AccountCallOK(call) ==
    /\ call.step \in {"createAuth", "commit", "cleanup", "insert", "save"} =>
          call.row \in A!UserRow /\ call.user \in AccountUsers /\ InCharge(call.user, call.row)
    /\ call.step \in {"createAuth", "commit", "cleanup"} => call.driver = Null
    /\ call.step = "createAuth" => call.user = Owner \/ users[Owner] # Null
    /\ call.step \in {"insert", "save", "unlink", "find", "link"} => users[Owner] # Null
    /\ call.step \in {"commit", "cleanup"} => Registering(call)
    /\ call.step = "insert" => call.user # Owner /\ call.row.uid = 0
    /\ call.step = "save" => HasAccount(call.user, call.row)
    /\ call.step \in {"unlink", "find", "link"} =>
          call.user \in AccountUsers /\ call.driver \in InvitedDrivers

\* Nobody has a profile before the owner, and only one registration is on its way.
AccountsInv ==
    /\ A!TypeOK
    /\ \A u \in A!Present :
          users[Owner] # Null /\ InCharge(u, users[u]) /\ HasAccount(u, users[u])
    /\ \A h \in Handlers : AccountCallOK(userCalls[h])
    /\ \A g, h \in Handlers :
          {userCalls[g].step, userCalls[h].step} \subseteq {"commit", "cleanup"} => g = h

LEMMA AccountsInit ==
    ASSUME AccountsConstants, A!Init
    PROVE  AccountsInv
<1>1. A!TypeOK
  <2>1. A!Idle \in A!Call
    BY DEF A!Idle, A!Call, A!Steps
  <2>2. 0 \in 0 .. MaxUids /\ 0 \in 0 .. MaxUserLost
    BY DEF AccountsConstants
  <2>3. QED
    BY <2>1, <2>2 DEF A!Init, A!TypeOK
<1>2. \A h \in Handlers : userCalls[h].step = "idle"
  BY DEF A!Init, A!Idle
<1>3. A!Present = {}
  BY DEF A!Init, A!Present
<1> QED
  BY <1>1, <1>2, <1>3 DEF AccountsInv, AccountCallOK

\* A step that leaves the two stores alone and gives h another call.
LEMMA AccountsCall ==
    ASSUME AccountsInv, NEW h \in Handlers, NEW call \in A!Call,
           userCalls' = [userCalls EXCEPT ![h] = call], UNCHANGED <<users, accounts, uids>>,
           userLost' \in 0 .. MaxUserLost,
           driverUsers' \in [InvitedDrivers -> AccountUsers \cup {Null}],
           AccountCallOK(call),
           call.step \in {"commit", "cleanup"} => userCalls[h].step \in {"commit", "cleanup"}
    PROVE  AccountsInv'
<1>1. userCalls \in [Handlers -> A!Call]
  BY DEF AccountsInv, A!TypeOK
<1>2. /\ userCalls' \in [Handlers -> A!Call]
      /\ userCalls'[h] = call
      /\ \A g \in Handlers \ {h} : userCalls'[g] = userCalls[g]
  BY <1>1
<1>3. A!TypeOK'
  BY <1>2 DEF AccountsInv, A!TypeOK
<1>4. \A g \in Handlers : AccountCallOK(userCalls[g])'
  BY <1>2 DEF AccountsInv, AccountCallOK, Registering, InCharge, HasAccount
<1>5. \A g, k \in Handlers :
        {userCalls[g].step, userCalls[k].step}' \subseteq {"commit", "cleanup"} => g = k
  BY <1>2 DEF AccountsInv
<1>6. \A u \in A!Present' :
         users'[Owner] # Null /\ InCharge(u, users[u])' /\ HasAccount(u, users[u])'
  BY DEF AccountsInv, A!Present, InCharge, HasAccount
<1> QED
  BY <1>3, <1>4, <1>5, <1>6 DEF AccountsInv

LEMMA AccountsIdle ==
    ASSUME AccountsInv
    PROVE  A!Idle \in A!Call /\ AccountCallOK(A!Idle) /\ A!Idle.step = "idle"
BY DEF A!Idle, A!Call, A!Steps, AccountCallOK

\* A call ends, and what it wrote before concerned neither store.
LEMMA AccountsEnd ==
    ASSUME AccountsInv, NEW h \in Handlers, A!End(h), UNCHANGED <<users, accounts, uids>>,
           userLost' \in 0 .. MaxUserLost,
           driverUsers' \in [InvitedDrivers -> AccountUsers \cup {Null}]
    PROVE  AccountsInv'
BY AccountsIdle, AccountsCall DEF A!End

\* A request that loads the profile of u and will save a copy of it.
LEMMA AccountsLoad ==
    ASSUME AccountsInv, NEW h \in Handlers, NEW u \in AccountUsers, NEW row \in A!UserRow,
           A!Load(h, u, row), row.uid = users[u].uid, InCharge(u, row)
    PROVE  AccountsInv'
<1> DEFINE call == [step |-> "save", user |-> u, row |-> row, driver |-> Null]
<1>1. u \in A!Present /\ users[Owner] # Null /\ HasAccount(u, users[u])
  BY DEF A!Load, AccountsInv
<1>2. call \in A!Call
  BY DEF A!Call, A!Steps
<1>3. AccountCallOK(call)
  BY <1>1 DEF AccountCallOK, HasAccount
<1>4. /\ userCalls' = [userCalls EXCEPT ![h] = call]
      /\ UNCHANGED <<users, accounts, driverUsers, uids, userLost>>
  BY DEF A!Load, A!Request, A!Hold
<1>5. userLost \in 0 .. MaxUserLost /\ driverUsers \in [InvitedDrivers -> AccountUsers \cup {Null}]
  BY DEF AccountsInv, A!TypeOK
<1>6. call.step = "save"
  OBVIOUS
<1> HIDE DEF call
<1> QED
  BY <1>2, <1>3, <1>4, <1>5, <1>6, AccountsCall

\* The profiles of Present are rows.
LEMMA ProfileIsRow ==
    ASSUME AccountsInv, NEW u \in A!Present
    PROVE  /\ u \in AccountUsers /\ users[u] \in A!UserRow
           /\ users[Owner] # Null /\ InCharge(u, users[u]) /\ HasAccount(u, users[u])
BY DEF AccountsInv, A!Present, A!TypeOK

\* Who is authenticated and is not the platform has a profile, so the owner has one.
LEMMA AuthenticatedHasOwner ==
    ASSUME AccountsInv, NEW a, A!Authenticated(a), a # Platform
    PROVE  a \in A!Present /\ users[Owner] # Null
BY DEF A!Authenticated, A!Present, AccountsInv

\* A request that only decides what its call will do.
LEMMA AccountsRequest ==
    ASSUME AccountsInv, NEW h \in Handlers, NEW call \in A!Call, A!Request(h),
           userCalls' = [userCalls EXCEPT ![h] = call], AccountCallOK(call),
           call.step \notin {"commit", "cleanup"}
    PROVE  AccountsInv'
<1>1. userLost \in 0 .. MaxUserLost /\ driverUsers \in [InvitedDrivers -> AccountUsers \cup {Null}]
  BY DEF AccountsInv, A!TypeOK
<1> QED
  BY <1>1, AccountsCall DEF A!Request

LEMMA RegisterKept ==
    ASSUME AccountsConstants, AccountsInv, NEW h \in Handlers, A!Register(h)
    PROVE  AccountsInv'
<1> DEFINE row == [role |-> "company_owner", status |-> "active", uid |-> 0,
                   verified |-> FALSE, invited |-> FALSE]
           call == [step |-> "createAuth", user |-> Owner, row |-> row, driver |-> Null]
<1>1. row \in A!UserRow
  BY DEF AccountsConstants, A!UserRow, A!Statuses
<1>2. call \in A!Call
  BY <1>1 DEF AccountsConstants, A!Call, A!Steps
<1>3. AccountCallOK(call)
  BY <1>1 DEF AccountsConstants, AccountCallOK, InCharge
<1>4. A!Request(h) /\ userCalls' = [userCalls EXCEPT ![h] = call]
  BY DEF A!Register, A!Hold
<1>5. call.step = "createAuth"
  OBVIOUS
<1> HIDE DEF call
<1> QED
  BY <1>2, <1>3, <1>4, <1>5, AccountsRequest

LEMMA AcceptInviteKept ==
    ASSUME AccountsInv, NEW h \in Handlers, NEW u \in AccountUsers, A!AcceptInvite(h, u)
    PROVE  AccountsInv'
<1> DEFINE row == [users[u] EXCEPT !.status = "active", !.invited = FALSE]
           call == [step |-> "createAuth", user |-> u, row |-> row, driver |-> Null]
<1>1. /\ users[u] \in A!UserRow /\ users[u].status = "pending_verification"
      /\ users[Owner] # Null /\ InCharge(u, users[u])
  BY ProfileIsRow DEF A!AcceptInvite
<1>2. u # Owner
  BY <1>1 DEF InCharge
<1>3. row \in A!UserRow
  BY <1>1 DEF A!UserRow, A!Statuses
<1>4. call \in A!Call
  BY <1>3 DEF A!Call, A!Steps
<1>5. AccountCallOK(call)
  BY <1>1, <1>2, <1>3 DEF AccountCallOK, InCharge
<1>6. A!Request(h) /\ userCalls' = [userCalls EXCEPT ![h] = call]
  BY DEF A!AcceptInvite, A!Hold
<1>7. call.step = "createAuth"
  OBVIOUS
<1> HIDE DEF call
<1> QED
  BY <1>4, <1>5, <1>6, <1>7, AccountsRequest

LEMMA InviteKept ==
    ASSUME AccountsConstants, AccountsInv, NEW h \in Handlers, NEW a, NEW u \in AccountUsers,
           NEW role \in Roles, A!Invite(h, a, u, role)
    PROVE  AccountsInv'
<1> DEFINE row == [role |-> role, status |-> "pending_verification", uid |-> 0,
                   verified |-> FALSE, invited |-> TRUE]
           call == [step |-> "insert", user |-> u, row |-> row, driver |-> Null]
<1>1. users[Owner] # Null /\ u \notin A!Present
  BY AuthenticatedHasOwner DEF A!Invite
<1>2. u # Owner
  BY <1>1 DEF AccountsConstants, A!Present
<1>3. row \in A!UserRow
  BY DEF AccountsConstants, A!UserRow, A!Statuses
<1>4. call \in A!Call
  BY <1>3 DEF A!Call, A!Steps
<1>5. AccountCallOK(call)
  BY <1>1, <1>2, <1>3 DEF AccountCallOK, InCharge
<1>6. A!Request(h) /\ userCalls' = [userCalls EXCEPT ![h] = call]
  BY DEF A!Invite, A!Hold
<1>7. call.step = "insert"
  OBVIOUS
<1> HIDE DEF call
<1> QED
  BY <1>4, <1>5, <1>6, <1>7, AccountsRequest

LEMMA InviteDriverKept ==
    ASSUME AccountsInv, NEW h \in Handlers, NEW a, NEW d \in InvitedDrivers, NEW u \in AccountUsers,
           A!InviteDriver(h, a, d, u)
    PROVE  AccountsInv'
<1> DEFINE step == IF driverUsers[d] = Null THEN "find" ELSE "unlink"
           call == [step |-> step, user |-> u, row |-> Null, driver |-> d]
<1>1. users[Owner] # Null
  BY DEF A!InviteDriver, A!Present
<1>2. call.step \in {"find", "unlink"} /\ call.user = u /\ call.driver = d
  OBVIOUS
<1>3. call \in A!Call
  BY DEF A!Call, A!Steps
<1>4. AccountCallOK(call)
  BY <1>1, <1>2 DEF AccountCallOK
<1>5. A!Request(h) /\ userCalls' = [userCalls EXCEPT ![h] = call]
  BY DEF A!InviteDriver
<1> HIDE DEF call
<1> QED
  BY <1>2, <1>3, <1>4, <1>5, AccountsRequest

\* Every request that saves a copy of a profile keeps the role and the status of
\* the owner, and the account of everyone.
LEMMA LoadsKept ==
    ASSUME AccountsInv, NEW h \in Handlers, NEW u \in AccountUsers,
           \/ A!Login(h, u) \/ A!ResendCode(h, u)
           \/ \E right \in BOOLEAN : A!VerifyEmail(h, u, right)
           \/ A!ForgotPassword(h, u) \/ A!ResetPassword(h, u)
           \/ \E a \in AccountUsers \cup {Platform} :
                 \/ A!UpdateUser(h, a, u) \/ A!Deactivate(h, a, u) \/ A!Reactivate(h, a, u)
                 \/ \E role \in Roles : A!UpdateRole(h, a, u, role)
    PROVE  AccountsInv'
<1>1. PICK row : /\ A!Load(h, u, row)
                 /\ \/ row = users[u]
                    \/ \E right \in BOOLEAN : row = [users[u] EXCEPT !.verified = right]
                    \/ /\ users[u].role # "company_owner"
                       /\ \/ \E role \in Roles : row = [users[u] EXCEPT !.role = role]
                          \/ row = [users[u] EXCEPT !.status = "inactive"]
                    \/ row = [users[u] EXCEPT !.status = "active"]
  BY DEF A!Login, A!ResendCode, A!VerifyEmail, A!ForgotPassword, A!ResetPassword,
         A!UpdateUser, A!Deactivate, A!Reactivate, A!UpdateRole
<1>2. users[u] \in A!UserRow /\ InCharge(u, users[u])
  BY <1>1, ProfileIsRow DEF A!Load
<1>3. row \in A!UserRow /\ row.uid = users[u].uid
  BY <1>1, <1>2 DEF A!UserRow, A!Statuses
<1>4. InCharge(u, row)
  BY <1>1, <1>2 DEF A!UserRow, InCharge
<1> QED
  BY <1>1, <1>3, <1>4, AccountsLoad

\* What a call in flight is.
LEMMA CallIsTyped ==
    ASSUME AccountsInv, NEW h \in Handlers
    PROVE  /\ userCalls[h] \in A!Call /\ AccountCallOK(userCalls[h])
           /\ userCalls = [userCalls EXCEPT ![h] = userCalls[h]]
           /\ userLost \in 0 .. MaxUserLost
           /\ driverUsers \in [InvitedDrivers -> AccountUsers \cup {Null}]
BY DEF AccountsInv, A!TypeOK

\* Moving a call on to another step, with the stores as they are.
LEMMA AccountsGoto ==
    ASSUME AccountsInv, NEW h \in Handlers, NEW step \in A!Steps, A!Goto(h, step),
           UNCHANGED <<users, accounts, uids, userLost>>,
           driverUsers' \in [InvitedDrivers -> AccountUsers \cup {Null}],
           AccountCallOK([userCalls[h] EXCEPT !.step = step]),
           step \in {"commit", "cleanup"} => userCalls[h].step \in {"commit", "cleanup"}
    PROVE  AccountsInv'
<1> DEFINE call == [userCalls[h] EXCEPT !.step = step]
<1>1. userCalls[h] \in A!Call /\ userLost' \in 0 .. MaxUserLost
  BY CallIsTyped
<1>2. call \in A!Call /\ call.step = step
  BY <1>1 DEF A!Call
<1>3. userCalls' = [userCalls EXCEPT ![h] = call]
  BY DEF A!Goto
<1>4. AccountCallOK(call)
  OBVIOUS
<1> HIDE DEF call
<1> QED
  BY <1>1, <1>2, <1>3, <1>4, AccountsCall

LEMMA UnlinkKept ==
    ASSUME AccountsInv, NEW h \in Handlers, A!Unlink(h)
    PROVE  AccountsInv'
<1>1. /\ userCalls[h] \in A!Call /\ AccountCallOK(userCalls[h]) /\ userCalls[h].step = "unlink"
      /\ driverUsers \in [InvitedDrivers -> AccountUsers \cup {Null}]
  BY CallIsTyped DEF A!Unlink
<1>2. driverUsers' \in [InvitedDrivers -> AccountUsers \cup {Null}]
  BY <1>1 DEF A!Unlink
<1>3. AccountCallOK([userCalls[h] EXCEPT !.step = "find"])
  BY <1>1 DEF AccountCallOK, A!Call
<1>4. A!Goto(h, "find") /\ UNCHANGED <<users, accounts, uids, userLost>>
  BY DEF A!Unlink
<1> QED
  BY <1>2, <1>3, <1>4, AccountsGoto DEF A!Steps

LEMMA LinkKept ==
    ASSUME AccountsInv, NEW h \in Handlers, A!Link(h)
    PROVE  AccountsInv'
<1>1. /\ userCalls[h] \in A!Call /\ AccountCallOK(userCalls[h]) /\ userCalls[h].step = "link"
      /\ driverUsers \in [InvitedDrivers -> AccountUsers \cup {Null}]
      /\ userLost \in 0 .. MaxUserLost
  BY CallIsTyped DEF A!Link
<1>2. driverUsers' \in [InvitedDrivers -> AccountUsers \cup {Null}]
  BY <1>1 DEF A!Link, AccountCallOK
<1> QED
  BY <1>1, <1>2, AccountsEnd DEF A!Link

LEMMA CrashKept ==
    ASSUME AccountsConstants, AccountsInv, NEW h \in Handlers, A!Crash(h)
    PROVE  AccountsInv'
<1>1. userLost \in 0 .. MaxUserLost /\ driverUsers \in [InvitedDrivers -> AccountUsers \cup {Null}]
  BY CallIsTyped
<1>2. userLost' \in 0 .. MaxUserLost
  BY <1>1 DEF A!Crash, AccountsConstants
<1> QED
  BY <1>1, <1>2, AccountsEnd DEF A!Crash

LEMMA RollBackKept ==
    ASSUME AccountsInv, NEW h \in Handlers, A!RollBack(h)
    PROVE  AccountsInv'
<1>1. /\ userCalls[h] \in A!Call /\ AccountCallOK(userCalls[h]) /\ userCalls[h].step = "commit"
      /\ driverUsers \in [InvitedDrivers -> AccountUsers \cup {Null}]
  BY CallIsTyped DEF A!RollBack
<1>2. AccountCallOK([userCalls[h] EXCEPT !.step = "cleanup"])
  BY <1>1 DEF AccountCallOK, A!Call, Registering
<1>3. A!Goto(h, "cleanup") /\ UNCHANGED <<users, accounts, driverUsers, uids, userLost>>
  BY DEF A!RollBack
<1> QED
  BY <1>1, <1>2, <1>3, AccountsGoto DEF A!Steps

LEMMA FindInvitedKept ==
    ASSUME AccountsConstants, AccountsInv, NEW h \in Handlers, A!FindInvited(h)
    PROVE  AccountsInv'
<1> DEFINE u == userCalls[h].user
<1>1. /\ userCalls[h] \in A!Call /\ AccountCallOK(userCalls[h]) /\ userCalls[h].step = "find"
      /\ userLost \in 0 .. MaxUserLost
      /\ driverUsers \in [InvitedDrivers -> AccountUsers \cup {Null}]
      /\ UNCHANGED <<users, accounts, driverUsers, uids, userLost>>
  BY CallIsTyped DEF A!FindInvited
<1>2. u \in AccountUsers /\ users[Owner] # Null
  BY <1>1 DEF AccountCallOK
<1>3. CASE u \in A!Present /\ users[u].status # "pending_verification"
  BY <1>1, <1>3, AccountsEnd DEF A!FindInvited
<1>4. CASE u \in A!Present /\ users[u].status = "pending_verification"
  <2> DEFINE row == [users[u] EXCEPT !.invited = TRUE]
             call == [userCalls[h] EXCEPT !.step = "save", !.row = row]
  <2>1. users[u] \in A!UserRow /\ InCharge(u, users[u]) /\ HasAccount(u, users[u])
    BY <1>4, ProfileIsRow
  <2>2. row \in A!UserRow /\ InCharge(u, row) /\ HasAccount(u, row)
    BY <2>1 DEF A!UserRow, InCharge, HasAccount
  <2>3. call \in A!Call /\ call.step = "save"
    BY <1>1, <2>2 DEF A!Call, A!Steps
  <2>4. AccountCallOK(call)
    BY <1>1, <1>2, <2>2 DEF AccountCallOK, A!Call
  <2>5. userCalls' = [userCalls EXCEPT ![h] = call]
    BY <1>1, <1>4 DEF A!FindInvited, A!Call
  <2> HIDE DEF call
  <2> QED
    BY <1>1, <2>3, <2>4, <2>5, AccountsCall
<1>5. CASE u \notin A!Present
  <2> DEFINE row == [role |-> "driver", status |-> "pending_verification",
                     uid |-> 0, verified |-> FALSE, invited |-> TRUE]
             call == [userCalls[h] EXCEPT !.step = "insert", !.row = row]
  <2>1. u # Owner
    BY <1>2, <1>5 DEF A!Present
  <2>2. row \in A!UserRow
    BY DEF AccountsConstants, A!UserRow, A!Statuses
  <2>3. call \in A!Call /\ call.step = "insert"
    BY <1>1, <2>2 DEF A!Call, A!Steps
  <2>4. AccountCallOK(call)
    BY <1>1, <1>2, <2>1, <2>2 DEF AccountCallOK, A!Call, InCharge
  <2>5. userCalls' = [userCalls EXCEPT ![h] = call]
    BY <1>1, <1>5 DEF A!FindInvited, A!Call
  <2> HIDE DEF call
  <2> QED
    BY <1>1, <2>3, <2>4, <2>5, AccountsCall
<1> QED
  BY <1>3, <1>4, <1>5

\* No account is there for a copy that knows of none, and one that is there stays
\* while its profile does.
LEMMA CreateAuthUserKept ==
    ASSUME AccountsConstants, AccountsInv, NEW h \in Handlers, A!CreateAuthUser(h)
    PROVE  AccountsInv'
<1> DEFINE c == userCalls[h]
<1>1. /\ c \in A!Call /\ AccountCallOK(c) /\ c.step = "createAuth"
      /\ userLost \in 0 .. MaxUserLost
      /\ driverUsers \in [InvitedDrivers -> AccountUsers \cup {Null}]
      /\ UNCHANGED <<users, driverUsers, userLost>>
  BY CallIsTyped DEF A!CreateAuthUser
<1>2. c.row \in A!UserRow /\ c.user \in AccountUsers /\ InCharge(c.user, c.row) /\ c.driver = Null
  BY <1>1 DEF AccountCallOK
<1>3. CASE accounts[c.user] # 0
  BY <1>1, <1>3, AccountsEnd DEF A!CreateAuthUser
<1>4. CASE accounts[c.user] = 0
  <2> DEFINE row == [c.row EXCEPT !.uid = uids + 1]
             call == [c EXCEPT !.step = IF c.user = Owner THEN "commit" ELSE "save",
                               !.row = row]
  <2>1. /\ userCalls \in [Handlers -> A!Call] /\ accounts \in [AccountUsers -> 0 .. MaxUids]
        /\ uids \in 0 .. MaxUids
    BY DEF AccountsInv, A!TypeOK
  <2>2. uids' = uids + 1 /\ uids' \in 0 .. MaxUids /\ uids' # 0
    BY <1>4, <2>1 DEF A!CreateAuthUser, AccountsConstants
  <2>3. /\ accounts' \in [AccountUsers -> 0 .. MaxUids] /\ accounts'[c.user] = uids'
        /\ \A v \in AccountUsers \ {c.user} : accounts'[v] = accounts[v]
    BY <1>2, <1>4, <2>1, <2>2 DEF A!CreateAuthUser
  <2>4. row \in A!UserRow /\ row.uid = uids' /\ InCharge(c.user, row)
    BY <1>2, <2>2 DEF A!UserRow, InCharge
  <2>5. call \in A!Call
    BY <1>1, <2>4 DEF A!Call, A!Steps
  <2>6. userCalls' = [userCalls EXCEPT ![h] = call]
    BY <1>1, <1>2, <1>4, <2>1 DEF A!CreateAuthUser, A!Call, A!UserRow
  <2>7. /\ userCalls' \in [Handlers -> A!Call] /\ userCalls'[h] = call
        /\ \A g \in Handlers \ {h} : userCalls'[g] = userCalls[g]
    BY <2>1, <2>5, <2>6
  <2>8. A!TypeOK'
    BY <1>1, <2>2, <2>3, <2>7 DEF AccountsInv, A!TypeOK
  <2>9. users[Owner] # Null => accounts[Owner] # 0
    BY DEF AccountsInv, AccountsConstants, A!Present, HasAccount
  <2>10. \A u \in A!Present : u # c.user \/ users[u].uid = 0
    BY <1>4 DEF AccountsInv, HasAccount
  <2>11. \A u \in A!Present' :
           users'[Owner] # Null /\ InCharge(u, users[u])' /\ HasAccount(u, users[u])'
    <3> SUFFICES ASSUME NEW u \in A!Present
                 PROVE  users'[Owner] # Null /\ InCharge(u, users[u])' /\ HasAccount(u, users[u])'
      BY <1>1 DEF A!Present
    <3>1. /\ u \in AccountUsers /\ users[Owner] # Null /\ InCharge(u, users[u])
          /\ HasAccount(u, users[u])
      BY ProfileIsRow
    <3> QED
      BY <1>1, <2>3, <2>10, <3>1 DEF HasAccount, InCharge
  <2>12. ASSUME NEW g \in Handlers \ {h} PROVE AccountCallOK(userCalls[g])'
    <3>1. AccountCallOK(userCalls[g])
      BY CallIsTyped
    <3>2. userCalls[g].step \in {"commit", "cleanup"} => c.user # Owner
      BY <1>4, <3>1 DEF AccountCallOK, Registering
    <3>3. userCalls[g].step = "save" => c.user # userCalls[g].user \/ userCalls[g].row.uid = 0
      BY <1>4, <3>1 DEF AccountCallOK, HasAccount
    <3>4. AccountsConstants
      OBVIOUS
    <3> QED
      BY <1>1, <2>3, <2>7, <3>1, <3>2, <3>3, <3>4
      DEF AccountCallOK, HasAccount, Registering, InCharge, AccountsConstants
  <2>13. AccountCallOK(userCalls[h])'
    <3>1. /\ userCalls'[h].step = IF c.user = Owner THEN "commit" ELSE "save"
          /\ userCalls'[h].user = c.user /\ userCalls'[h].driver = Null
          /\ userCalls'[h].row \in A!UserRow /\ userCalls'[h].row.uid = uids'
          /\ InCharge(c.user, userCalls'[h].row)
      BY <1>1, <1>2, <2>4, <2>7 DEF A!Call
    <3>2. CASE c.user = Owner
      <4>1. users'[Owner] = Null
        BY <1>1, <1>4, <2>9, <3>2
      <4> QED
        BY <1>2, <2>2, <2>3, <3>1, <3>2, <4>1 DEF AccountCallOK, Registering, InCharge
    <3>3. CASE c.user # Owner
      <4>1. users'[Owner] # Null
        BY <1>1, <3>3 DEF AccountCallOK
      <4> QED
        BY <1>2, <2>2, <2>3, <3>1, <3>3, <4>1 DEF AccountCallOK, HasAccount, InCharge
    <3> QED
      BY <3>2, <3>3
  <2>14. c.user = Owner => \A g \in Handlers : userCalls[g].step \notin {"commit", "cleanup"}
    BY <1>4, CallIsTyped DEF AccountCallOK, Registering
  <2>15. userCalls'[h].step \in {"commit", "cleanup"} => c.user = Owner
    BY <1>1, <2>7 DEF A!Call
  <2>16. \A g, k \in Handlers :
            {userCalls[g].step, userCalls[k].step}' \subseteq {"commit", "cleanup"} => g = k
    <3> HIDE DEF call
    <3> QED
      BY <2>7, <2>14, <2>15 DEF AccountsInv
  <2> QED
    BY <2>8, <2>11, <2>12, <2>13, <2>16 DEF AccountsInv
<1> QED
  BY <1>3, <1>4

\* The call that registers the owner is the only one that knows of the account, so
\* a clean-up takes it from nobody, and a commit finds no other registration.
LEMMA RegisteringAlone ==
    ASSUME AccountsInv, NEW h \in Handlers, userCalls[h].step \in {"commit", "cleanup"},
           NEW g \in Handlers \ {h}
    PROVE  /\ userCalls[g].step \in {"idle", "createAuth"}
           /\ userCalls[g].step = "createAuth" => userCalls[g].user = Owner
<1>1. users[Owner] = Null
  BY CallIsTyped DEF AccountCallOK, Registering
<1>2. userCalls[g] \in A!Call /\ AccountCallOK(userCalls[g])
  BY CallIsTyped
<1>3. {userCalls[g].step, userCalls[h].step} \subseteq {"commit", "cleanup"} => g = h
  BY DEF AccountsInv
<1> QED
  BY <1>1, <1>2, <1>3 DEF AccountCallOK, A!Call, A!Steps

LEMMA CleanUpKept ==
    ASSUME AccountsConstants, AccountsInv, NEW h \in Handlers, A!CleanUp(h)
    PROVE  AccountsInv'
<1> DEFINE c == userCalls[h]
<1>1. /\ c \in A!Call /\ AccountCallOK(c) /\ c.step = "cleanup"
      /\ userLost \in 0 .. MaxUserLost
      /\ driverUsers \in [InvitedDrivers -> AccountUsers \cup {Null}]
      /\ UNCHANGED <<users, driverUsers, uids, userLost>>
  BY CallIsTyped DEF A!CleanUp
<1>2. users[Owner] = Null /\ accounts[Owner] = c.row.uid /\ c.user = Owner
  BY <1>1 DEF AccountCallOK, Registering
<1>3. A!Present = {}
  BY <1>2 DEF AccountsInv
<1>4. /\ userCalls \in [Handlers -> A!Call] /\ accounts \in [AccountUsers -> 0 .. MaxUids]
      /\ A!Idle \in A!Call /\ A!Idle.step = "idle" /\ 0 \in 0 .. MaxUids
  BY AccountsIdle DEF AccountsInv, A!TypeOK, AccountsConstants
<1>5. /\ userCalls' \in [Handlers -> A!Call] /\ userCalls'[h].step = "idle"
      /\ \A g \in Handlers \ {h} : userCalls'[g] = userCalls[g]
  BY <1>4 DEF A!CleanUp, A!End
<1>6. accounts' \in [AccountUsers -> 0 .. MaxUids]
  BY <1>4 DEF A!CleanUp
<1>7. A!TypeOK'
  BY <1>1, <1>5, <1>6 DEF AccountsInv, A!TypeOK
<1>8. ASSUME NEW g \in Handlers \ {h} PROVE AccountCallOK(userCalls[g])'
  <2>1. /\ userCalls'[g] = userCalls[g] /\ AccountCallOK(userCalls[g])
        /\ userCalls[g].step \in {"idle", "createAuth"}
    BY <1>1, <1>5, CallIsTyped, RegisteringAlone
  <2> QED
    BY <1>1, <2>1 DEF AccountCallOK, InCharge
<1>9. AccountCallOK(userCalls[h])'
  BY <1>5 DEF AccountCallOK
<1>10. A!Present' = {}
  BY <1>1, <1>3 DEF A!Present
<1>11. \A g, k \in Handlers :
          {userCalls[g].step, userCalls[k].step}' \subseteq {"commit", "cleanup"} => g = k
  BY <1>5 DEF AccountsInv
<1> QED
  BY <1>7, <1>8, <1>9, <1>10, <1>11 DEF AccountsInv

\* A profile is stored that leaves the owner in charge and has its account.
LEMMA AccountsStore ==
    ASSUME AccountsConstants, AccountsInv, NEW h \in Handlers, NEW u \in AccountUsers,
           NEW row \in A!UserRow, NEW call \in A!Call,
           users' = [users EXCEPT ![u] = row], userCalls' = [userCalls EXCEPT ![h] = call],
           UNCHANGED <<accounts, driverUsers, uids, userLost>>,
           u = Owner \/ users[Owner] # Null, InCharge(u, row), HasAccount(u, row),
           \A g \in Handlers \ {h} : userCalls[g].step \notin {"commit", "cleanup"},
           AccountCallOK(userCalls[h])', call.step \notin {"commit", "cleanup"}
    PROVE  AccountsInv'
<1>1. /\ userCalls \in [Handlers -> A!Call] /\ users \in [AccountUsers -> A!UserRow \cup {Null}]
      /\ row # Null /\ Owner \in AccountUsers
  BY DEF AccountsInv, A!TypeOK, AccountsConstants
<1>2. /\ userCalls' \in [Handlers -> A!Call] /\ userCalls'[h] = call
      /\ \A g \in Handlers \ {h} : userCalls'[g] = userCalls[g]
  BY <1>1
<1>3. /\ users' \in [AccountUsers -> A!UserRow \cup {Null}] /\ users'[u] = row
      /\ \A v \in AccountUsers \ {u} : users'[v] = users[v]
  BY <1>1
<1>4. users'[Owner] # Null
  BY <1>1, <1>3
<1>5. A!TypeOK'
  BY <1>2, <1>3 DEF AccountsInv, A!TypeOK
<1>6. ASSUME NEW v \in A!Present'
      PROVE  users'[Owner] # Null /\ InCharge(v, users[v])' /\ HasAccount(v, users[v])'
  <2>1. CASE v = u
    BY <1>3, <1>4, <2>1 DEF InCharge, HasAccount
  <2>2. CASE v # u
    <3>1. v \in A!Present /\ users'[v] = users[v]
      BY <1>3, <2>2 DEF A!Present
    <3>2. InCharge(v, users[v]) /\ HasAccount(v, users[v])
      BY <3>1, ProfileIsRow
    <3> QED
      BY <1>4, <3>1, <3>2 DEF InCharge, HasAccount
  <2> QED
    BY <2>1, <2>2
<1>7. ASSUME NEW g \in Handlers \ {h} PROVE AccountCallOK(userCalls[g])'
  <2>1. AccountCallOK(userCalls[g]) /\ userCalls'[g] = userCalls[g]
    BY <1>2, CallIsTyped
  <2> QED
    BY <1>4, <2>1 DEF AccountCallOK, InCharge, HasAccount
<1>8. AccountCallOK(userCalls[h])'
  OBVIOUS
<1>9. \A g, k \in Handlers :
         {userCalls[g].step, userCalls[k].step}' \subseteq {"commit", "cleanup"} => g = k
  BY <1>2
<1> QED
  BY <1>5, <1>6, <1>7, <1>8, <1>9 DEF AccountsInv

LEMMA CommitKept ==
    ASSUME AccountsConstants, AccountsInv, NEW h \in Handlers, A!Commit(h)
    PROVE  AccountsInv'
<1> DEFINE c == userCalls[h]
           call == [c EXCEPT !.step = "save"]
<1>1. /\ c \in A!Call /\ AccountCallOK(c) /\ c.step = "commit"
      /\ userCalls \in [Handlers -> A!Call] /\ users \in [AccountUsers -> A!UserRow \cup {Null}]
      /\ UNCHANGED <<accounts, driverUsers, uids, userLost>>
  BY CallIsTyped DEF A!Commit, AccountsInv, A!TypeOK
<1>2. /\ c.user = Owner /\ Owner \in AccountUsers /\ c.row \in A!UserRow
      /\ InCharge(Owner, c.row) /\ HasAccount(Owner, c.row)
  BY <1>1 DEF AccountCallOK, Registering, HasAccount
<1>3. /\ call \in A!Call /\ call.step = "save" /\ call.user = Owner /\ call.row = c.row
      /\ userCalls' = [userCalls EXCEPT ![h] = call]
  BY <1>1, <1>2 DEF A!Call, A!Steps, A!Commit, A!Goto
<1>4. userCalls'[h] = call
  BY <1>1, <1>3
<1>5. users' = [users EXCEPT ![Owner] = c.row] /\ users'[Owner] # Null
  BY <1>1, <1>2 DEF A!Commit, AccountsConstants
<1>6. AccountCallOK(userCalls[h])'
  <2>1. /\ userCalls'[h].step = "save" /\ userCalls'[h].user = Owner /\ userCalls'[h].row = c.row
    BY <1>3, <1>4
  <2> QED
    BY <1>1, <1>2, <1>5, <2>1 DEF AccountCallOK, InCharge, HasAccount
<1>7. \A g \in Handlers \ {h} : userCalls[g].step \notin {"commit", "cleanup"}
  BY <1>1, RegisteringAlone
<1> HIDE DEF call
<1> QED
  BY <1>1, <1>2, <1>3, <1>5, <1>6, <1>7, AccountsStore

\* What a call goes on to when its row is saved.
LEMMA NextAfterSave ==
    ASSUME AccountsInv, NEW h \in Handlers, userCalls[h].step \in {"insert", "save"},
           IF userCalls[h].driver = Null THEN A!End(h) ELSE A!Goto(h, "link")
    PROVE  \E call \in A!Call :
              /\ userCalls' = [userCalls EXCEPT ![h] = call] /\ userCalls'[h] = call
              /\ call.step \in {"idle", "link"}
              /\ call.step = "link" =>
                    call.user = userCalls[h].user /\ call.driver \in InvitedDrivers
<1>1. userCalls \in [Handlers -> A!Call] /\ userCalls[h] \in A!Call
  BY DEF AccountsInv, A!TypeOK
<1>2. CASE userCalls[h].driver = Null
  BY <1>1, <1>2, AccountsIdle DEF A!End
<1>3. CASE userCalls[h].driver # Null
  <2> DEFINE call == [userCalls[h] EXCEPT !.step = "link"]
  <2>1. /\ call \in A!Call /\ call.step = "link" /\ call.user = userCalls[h].user
        /\ call.driver \in InvitedDrivers
    BY <1>1, <1>3 DEF A!Call, A!Steps
  <2>2. userCalls' = [userCalls EXCEPT ![h] = call]
    BY <1>3 DEF A!Goto
  <2>3. userCalls'[h] = call
    BY <1>1, <2>2
  <2> HIDE DEF call
  <2> QED
    BY <2>1, <2>2, <2>3
<1> QED
  BY <1>2, <1>3

LEMMA InsertKept ==
    ASSUME AccountsConstants, AccountsInv, NEW h \in Handlers, A!Insert(h)
    PROVE  AccountsInv'
<1> DEFINE c == userCalls[h]
<1>1. /\ c \in A!Call /\ AccountCallOK(c) /\ c.step = "insert"
      /\ userLost \in 0 .. MaxUserLost
      /\ driverUsers \in [InvitedDrivers -> AccountUsers \cup {Null}]
      /\ users \in [AccountUsers -> A!UserRow \cup {Null}]
      /\ UNCHANGED <<accounts, driverUsers, uids, userLost>>
  BY CallIsTyped DEF A!Insert, AccountsInv, A!TypeOK
<1>2. /\ c.user \in AccountUsers /\ c.user # Owner /\ c.row \in A!UserRow
      /\ users[Owner] # Null /\ InCharge(c.user, c.row) /\ HasAccount(c.user, c.row)
  BY <1>1 DEF AccountCallOK, HasAccount
<1>3. IF c.driver = Null THEN A!End(h) ELSE A!Goto(h, "link")
  BY DEF A!Insert
<1>4. PICK call \in A!Call :
         /\ userCalls' = [userCalls EXCEPT ![h] = call] /\ userCalls'[h] = call
         /\ call.step \in {"idle", "link"}
         /\ call.step = "link" => call.user = c.user /\ call.driver \in InvitedDrivers
  BY <1>1, <1>3, NextAfterSave
<1>5. CASE users[c.user] = Null
  <2>1. users' = [users EXCEPT ![c.user] = c.row]
    BY <1>5 DEF A!Insert
  <2>2. users'[Owner] # Null
    BY <1>1, <1>2, <2>1 DEF AccountsConstants
  <2>3. AccountCallOK(userCalls[h])'
    BY <1>2, <1>4, <2>2 DEF AccountCallOK
  <2>4. \A g \in Handlers \ {h} : userCalls[g].step \notin {"commit", "cleanup"}
    BY <1>2, CallIsTyped DEF AccountCallOK, Registering
  <2>5. call.step \notin {"commit", "cleanup"}
    BY <1>4
  <2> QED
    BY <1>1, <1>2, <1>4, <2>1, <2>3, <2>4, <2>5, AccountsStore
<1>6. CASE users[c.user] # Null
  <2>1. users' = users
    BY <1>6 DEF A!Insert
  <2>2. AccountCallOK(call)
    BY <1>2, <1>4 DEF AccountCallOK
  <2> QED
    BY <1>1, <1>4, <2>1, <2>2, AccountsCall
<1> QED
  BY <1>1, <1>5, <1>6, Zenon

LEMMA SaveKept ==
    ASSUME AccountsConstants, AccountsInv, NEW h \in Handlers, A!Save(h)
    PROVE  AccountsInv'
<1> DEFINE c == userCalls[h]
<1>1. /\ c \in A!Call /\ AccountCallOK(c) /\ c.step = "save"
      /\ users \in [AccountUsers -> A!UserRow \cup {Null}]
      /\ UNCHANGED <<accounts, driverUsers, uids, userLost>>
  BY CallIsTyped DEF A!Save, AccountsInv, A!TypeOK
<1>2. /\ c.user \in AccountUsers /\ c.row \in A!UserRow
      /\ users[Owner] # Null /\ InCharge(c.user, c.row) /\ HasAccount(c.user, c.row)
  BY <1>1 DEF AccountCallOK
<1>3. IF c.driver = Null THEN A!End(h) ELSE A!Goto(h, "link")
  BY DEF A!Save
<1>4. PICK call \in A!Call :
         /\ userCalls' = [userCalls EXCEPT ![h] = call] /\ userCalls'[h] = call
         /\ call.step \in {"idle", "link"}
         /\ call.step = "link" => call.user = c.user /\ call.driver \in InvitedDrivers
  BY <1>1, <1>3, NextAfterSave
<1>5. users' = [users EXCEPT ![c.user] = c.row]
  BY DEF A!Save
<1>6. users'[Owner] # Null
  BY <1>1, <1>2, <1>5 DEF AccountsConstants
<1>7. AccountCallOK(userCalls[h])'
  BY <1>2, <1>4, <1>6 DEF AccountCallOK
<1>8. \A g \in Handlers \ {h} : userCalls[g].step \notin {"commit", "cleanup"}
  BY <1>2, CallIsTyped DEF AccountCallOK, Registering
<1>9. call.step \notin {"commit", "cleanup"}
  BY <1>4
<1> QED
  BY <1>1, <1>2, <1>4, <1>5, <1>7, <1>8, <1>9, AccountsStore

LEMMA AccountsStep ==
    ASSUME AccountsConstants, AccountsInv, [A!Next]_(A!vars)
    PROVE  AccountsInv'
<1>1. CASE UNCHANGED A!vars
  BY <1>1
  DEF AccountsInv, A!vars, A!TypeOK, A!Present, InCharge, HasAccount, AccountCallOK,
      Registering
<1>2. CASE A!Next
  <2>1. PICK h \in Handlers :
           \/ A!Register(h) \/ A!CreateAuthUser(h) \/ A!Commit(h) \/ A!RollBack(h)
           \/ A!CleanUp(h) \/ A!Insert(h) \/ A!Save(h) \/ A!Unlink(h) \/ A!FindInvited(h)
           \/ A!Link(h) \/ A!Crash(h)
           \/ \E u \in AccountUsers :
                 \/ A!AcceptInvite(h, u)
                 \/ A!Login(h, u) \/ A!ResendCode(h, u)
                 \/ \E right \in BOOLEAN : A!VerifyEmail(h, u, right)
                 \/ A!ForgotPassword(h, u) \/ A!ResetPassword(h, u)
                 \/ \E a \in AccountUsers \cup {Platform} :
                       \/ A!UpdateUser(h, a, u) \/ A!Deactivate(h, a, u)
                       \/ A!Reactivate(h, a, u)
                       \/ \E role \in Roles : A!Invite(h, a, u, role) \/ A!UpdateRole(h, a, u, role)
                       \/ \E d \in InvitedDrivers : A!InviteDriver(h, a, d, u)
    BY <1>2 DEF A!Next
  <2>2. CASE \/ A!Register(h) \/ A!CreateAuthUser(h) \/ A!Commit(h) \/ A!RollBack(h)
             \/ A!CleanUp(h) \/ A!Insert(h) \/ A!Save(h) \/ A!Unlink(h)
             \/ A!FindInvited(h) \/ A!Link(h) \/ A!Crash(h)
    BY <2>2, RegisterKept, CreateAuthUserKept, CommitKept, RollBackKept, CleanUpKept,
       InsertKept, SaveKept, UnlinkKept, FindInvitedKept, LinkKept, CrashKept
  <2>3. ASSUME NEW u \in AccountUsers,
               \/ A!Login(h, u) \/ A!ResendCode(h, u)
               \/ \E right \in BOOLEAN : A!VerifyEmail(h, u, right)
               \/ A!ForgotPassword(h, u) \/ A!ResetPassword(h, u)
               \/ \E a \in AccountUsers \cup {Platform} :
                     \/ A!UpdateUser(h, a, u) \/ A!Deactivate(h, a, u)
                     \/ A!Reactivate(h, a, u)
                     \/ \E role \in Roles : A!UpdateRole(h, a, u, role)
        PROVE  AccountsInv'
    BY <2>3, LoadsKept
  <2>4. ASSUME NEW u \in AccountUsers, A!AcceptInvite(h, u)
        PROVE  AccountsInv'
    BY <2>4, AcceptInviteKept
  <2>5. ASSUME NEW u \in AccountUsers, NEW a, NEW role \in Roles, A!Invite(h, a, u, role)
        PROVE  AccountsInv'
    BY <2>5, InviteKept
  <2>6. ASSUME NEW u \in AccountUsers, NEW a, NEW d \in InvitedDrivers, A!InviteDriver(h, a, d, u)
        PROVE  AccountsInv'
    BY <2>6, InviteDriverKept
  <2> QED
    BY <2>1, <2>2, <2>3, <2>4, <2>5, <2>6
<1> QED
  BY <1>1, <1>2

LEMMA AccountsInductive ==
    ASSUME AccountsConstants
    PROVE  A!Spec => []AccountsInv
<1>1. A!Init => AccountsInv
  BY AccountsInit
<1>2. AccountsInv /\ [A!Next]_(A!vars) => AccountsInv'
  BY AccountsStep
<1> QED
  BY <1>1, <1>2, PTL DEF A!Spec

\* The users table, the accounts and every copy in flight keep their types (Accounts).
THEOREM AccountsTypesHold ==
    ASSUME AccountsConstants
    PROVE  A!Spec => []A!TypeOK
<1>1. AccountsInv => A!TypeOK
  BY DEF AccountsInv
<1> QED
  BY <1>1, AccountsInductive, PTL

\* A profile that names an account finds it in Supabase Auth, whatever calls of
\* register(), acceptInvite() and the others overlap, crash, roll back or clean up.
THEOREM ProfilesKeepTheirAccounts ==
    ASSUME AccountsConstants
    PROVE  A!Spec => []A!ProfileHasAccount
<1>1. AccountsInv => A!ProfileHasAccount
  BY DEF AccountsInv, A!ProfileHasAccount, HasAccount
<1> QED
  BY <1>1, AccountsInductive, PTL

\* No change of role, deactivation, invitation or older copy takes the company from
\* the person who registered it.
THEOREM OwnerStaysInCharge ==
    ASSUME AccountsConstants
    PROVE  A!Spec => []A!OwnerInCharge
<1>1. AccountsInv => A!OwnerInCharge
  BY DEF AccountsInv, A!OwnerInCharge, InCharge
<1> QED
  BY <1>1, AccountsInductive, PTL

-----------------------------------------------------------------------------
\* Tracking.  A call that has marked a shipment, or has still to, may alert its
\* recipient once more.  While the shipment is marked only the calls that listed it
\* before may; when a stale save takes the mark away, those that have marked it are
\* paid for by the reset, and the others must mark it again.

T == INSTANCE Tracking WITH
    received <- delivered, notifications <- pushes, calls <- trackingCalls,
    lost <- trackingLost, Users <- Followers, Requests <- TrackingRequests

TrackingConstants == IsFiniteSet(Handlers) /\ Null \notin Followers

Marked(s) == {h \in Handlers : T!At(h, "message") /\ trackingCalls[h].shipment = s}

Alerts(s) ==
    Marked(s) \cup
    {h \in Handlers : (T!At(h, "mark") \/ T!At(h, "message")) /\ s \in trackingCalls[h].near}

AlertsPaid(s) ==
    LET n == Cardinality(Handlers) IN
    IF shipments[s].alerted
    THEN alerts[s] + Cardinality(Alerts(s)) <= n * resets[s] + n
    ELSE alerts[s] + Cardinality(Marked(s)) <= n * resets[s]

TrackingCallOK(call) ==
    call # Null =>
        /\ call.step = "created" => call.new \subseteq DOMAIN points
        /\ call.step = "mark" => call.near \subseteq Shipments
        /\ call.step = "message" =>
              call.shipment \in Shipments /\ call.near \subseteq Shipments \ {call.shipment}
        /\ call.step = "save" => call.shipment \in Shipments /\ call.row \in T!Shipment

TrackingTypes ==
    /\ T!TypeOK
    /\ points \in Seq(T!Place)
    /\ pushes \in Seq(T!Notification)
    /\ tokens = [d \in Devices |-> tokens[d]]
    /\ alerts \in [Shipments -> Nat] /\ resets \in [Shipments -> Nat]
    /\ trackingCalls = [h \in Handlers |-> trackingCalls[h]]
    /\ \A h \in Handlers : TrackingCallOK(trackingCalls[h])

TrackingInv == TrackingTypes /\ \A s \in Shipments : AlertsPaid(s)

LEMMA TrackingInit ==
    ASSUME TrackingConstants, T!Init
    PROVE  TrackingInv
<1>1. TrackingTypes
  BY DEF T!Init, TrackingConstants, TrackingTypes, T!TypeOK, T!Shipment, T!PushToken,
         TrackingCallOK
<1>2. ASSUME NEW s \in Shipments PROVE AlertsPaid(s)
  <2>1. Marked(s) = {}
    BY DEF T!Init, Marked, T!At, T!Idle
  <2>2. Cardinality(Marked(s)) = 0 /\ Cardinality(Handlers) \in Nat
    BY <2>1, FS_EmptySet, FS_CardinalityType DEF TrackingConstants
  <2>3. ~shipments[s].alerted /\ alerts[s] = 0 /\ resets[s] = 0
    BY DEF T!Init
  <2> QED
    BY <2>2, <2>3 DEF AlertsPaid
<1> QED
  BY <1>1, <1>2 DEF TrackingInv

\* What AlertsPaid counts.
LEMMA PendingCounts ==
    ASSUME TrackingConstants, TrackingTypes, NEW s \in Shipments
    PROVE  /\ Marked(s) \subseteq Alerts(s) /\ Alerts(s) \subseteq Handlers
           /\ IsFiniteSet(Marked(s)) /\ IsFiniteSet(Alerts(s))
           /\ Cardinality(Marked(s)) \in Nat /\ Cardinality(Alerts(s)) \in Nat
           /\ Cardinality(Handlers) \in Nat
           /\ Cardinality(Marked(s)) <= Cardinality(Alerts(s))
           /\ Cardinality(Alerts(s)) <= Cardinality(Handlers)
           /\ alerts[s] \in Nat /\ resets[s] \in Nat
           /\ Cardinality(Handlers) * resets[s] \in Nat
<1>1. Marked(s) \subseteq Alerts(s) /\ Alerts(s) \subseteq Handlers /\ IsFiniteSet(Handlers)
  BY DEF Marked, Alerts, TrackingConstants
<1>2. IsFiniteSet(Alerts(s)) /\ Cardinality(Alerts(s)) <= Cardinality(Handlers)
  BY <1>1, FS_Subset
<1>3. IsFiniteSet(Marked(s)) /\ Cardinality(Marked(s)) <= Cardinality(Alerts(s))
  BY <1>1, <1>2, FS_Subset
<1>4. /\ Cardinality(Marked(s)) \in Nat /\ Cardinality(Alerts(s)) \in Nat
      /\ Cardinality(Handlers) \in Nat
  BY <1>1, <1>2, <1>3, FS_CardinalityType
<1>5. alerts[s] \in Nat /\ resets[s] \in Nat
  BY DEF TrackingTypes
<1>6. Cardinality(Handlers) * resets[s] \in Nat
  BY <1>4, <1>5
<1> QED
  BY <1>1, <1>2, <1>3, <1>4, <1>5, <1>6

\* A step that alerts nobody of s, keeps its mark and lets no more calls alert.
LEMMA NothingAlerted ==
    ASSUME TrackingConstants, TrackingTypes, NEW s \in Shipments, AlertsPaid(s),
           UNCHANGED <<shipments[s].alerted, alerts[s], resets[s]>>,
           Marked(s)' \subseteq Marked(s),
           shipments[s].alerted => Alerts(s)' \subseteq Alerts(s)
    PROVE  AlertsPaid(s)'
<1>1. IsFiniteSet(Marked(s)) /\ IsFiniteSet(Alerts(s))
  BY PendingCounts
<1>2. /\ Cardinality(Marked(s)') <= Cardinality(Marked(s))
      /\ Cardinality(Marked(s)') \in Nat
  BY <1>1, FS_Subset, FS_CardinalityType
<1>3. shipments[s].alerted =>
         /\ Cardinality(Alerts(s)') <= Cardinality(Alerts(s))
         /\ Cardinality(Alerts(s)') \in Nat
  BY <1>1, FS_Subset, FS_CardinalityType
<1>4. /\ Cardinality(Marked(s)) \in Nat /\ Cardinality(Alerts(s)) \in Nat
      /\ alerts[s] \in Nat /\ Cardinality(Handlers) * resets[s] \in Nat
      /\ Cardinality(Handlers) \in Nat
  BY PendingCounts
<1>5. AlertsPaid(s)' <=>
         IF shipments[s].alerted
         THEN alerts[s] + Cardinality(Alerts(s)') <=
                 Cardinality(Handlers) * resets[s] + Cardinality(Handlers)
         ELSE alerts[s] + Cardinality(Marked(s)') <= Cardinality(Handlers) * resets[s]
  BY DEF AlertsPaid
<1>6. IF shipments[s].alerted
      THEN alerts[s] + Cardinality(Alerts(s)) <=
              Cardinality(Handlers) * resets[s] + Cardinality(Handlers)
      ELSE alerts[s] + Cardinality(Marked(s)) <= Cardinality(Handlers) * resets[s]
  BY DEF AlertsPaid
<1> QED
  BY <1>2, <1>3, <1>4, <1>5, <1>6

\* A step of call h, which becomes c.
LEMMA CallReplaced ==
    ASSUME TrackingTypes, NEW h \in Handlers, NEW c,
           trackingCalls' = [trackingCalls EXCEPT ![h] = c],
           DOMAIN points \subseteq DOMAIN points', TrackingCallOK(trackingCalls[h])'
    PROVE  /\ trackingCalls' = [g \in Handlers |-> trackingCalls'[g]]
           /\ trackingCalls'[h] = c
           /\ \A g \in Handlers \ {h} : trackingCalls'[g] = trackingCalls[g]
           /\ \A g \in Handlers : TrackingCallOK(trackingCalls[g])'
<1>1. trackingCalls = [g \in Handlers |-> trackingCalls[g]]
  BY DEF TrackingTypes
<1>2. /\ trackingCalls' = [g \in Handlers |-> trackingCalls'[g]] /\ trackingCalls'[h] = c
      /\ \A g \in Handlers \ {h} : trackingCalls'[g] = trackingCalls[g]
  BY <1>1
<1>3. ASSUME NEW g \in Handlers \ {h} PROVE TrackingCallOK(trackingCalls[g])'
  <2>1. TrackingCallOK(trackingCalls[g]) /\ trackingCalls'[g] = trackingCalls[g]
    BY <1>2 DEF TrackingTypes
  <2> QED
    BY <2>1 DEF TrackingCallOK
<1> QED
  BY <1>2, <1>3

\* A call that goes on to something else than an alert.
LEMMA QuietCall ==
    ASSUME TrackingConstants, TrackingInv, NEW h \in Handlers, NEW c,
           trackingCalls' = [trackingCalls EXCEPT ![h] = c],
           c = Null \/ c.step \notin {"mark", "message"},
           UNCHANGED <<shipments, alerts, resets>>
    PROVE  \A s \in Shipments : AlertsPaid(s)'
<1> SUFFICES ASSUME NEW s \in Shipments PROVE AlertsPaid(s)'
  OBVIOUS
<1>1. /\ trackingCalls'[h] = c
      /\ \A g \in Handlers \ {h} : trackingCalls'[g] = trackingCalls[g]
  BY DEF TrackingInv, TrackingTypes
<1>2. Marked(s)' \subseteq Marked(s) /\ Alerts(s)' \subseteq Alerts(s)
  BY <1>1 DEF Marked, Alerts, T!At, T!Idle
<1>3. TrackingTypes /\ AlertsPaid(s)
  BY DEF TrackingInv
<1> QED
  BY <1>2, <1>3, NothingAlerted

\* A step of no call, which touches neither shipments nor alerts.
LEMMA NoCall ==
    ASSUME TrackingInv, UNCHANGED <<shipments, alerts, resets, trackingCalls>>
    PROVE  \A s \in Shipments : AlertsPaid(s)'
BY DEF TrackingInv, AlertsPaid, Marked, Alerts, T!At, T!Idle

\* Points arrive, and call h is to tell who watches.
LEMMA PointsArrive ==
    ASSUME TrackingConstants, TrackingInv, NEW h \in Handlers, NEW c,
           trackingCalls' = [trackingCalls EXCEPT ![h] = c], c.step = "created",
           c.new \subseteq DOMAIN points',
           points' \in Seq(T!Place), DOMAIN points \subseteq DOMAIN points',
           UNCHANGED <<shipments, delivered, T!alarm, T!inbox, T!online, trackingLost>>
    PROVE  TrackingInv'
<1>1. /\ TrackingTypes
      /\ UNCHANGED <<shipments, delivered, alerts, resets, owed, pushes, tokens>>
  BY DEF TrackingInv, T!alarm, T!inbox
<1>2. trackingCalls'[h] = c
  BY <1>1 DEF TrackingTypes
<1>3. TrackingCallOK(trackingCalls[h])'
  BY <1>2 DEF TrackingCallOK
<1>4. /\ trackingCalls' = [g \in Handlers |-> trackingCalls'[g]]
      /\ \A g \in Handlers : TrackingCallOK(trackingCalls[g])'
  BY <1>1, <1>3, CallReplaced
<1>5. TrackingTypes'
  BY <1>1, <1>4 DEF TrackingTypes, T!TypeOK
<1>6. \A s \in Shipments : AlertsPaid(s)'
  BY <1>1, QuietCall
<1> QED
  BY <1>5, <1>6 DEF TrackingInv

LEMMA ReportKept ==
    ASSUME TrackingConstants, TrackingInv, NEW h \in Handlers, T!Report(h)
    PROVE  TrackingInv'
<1>1. points \in Seq(T!Place)
  BY DEF TrackingInv, TrackingTypes
<1>2. PICK place \in T!Place : points' = Append(points, place)
  BY DEF T!Report
<1>3. PICK joined : trackingCalls' = [trackingCalls EXCEPT ![h] =
        [step |-> "created", new |-> {Len(points) + 1}, rooms |-> joined, single |-> TRUE]]
  BY DEF T!Report
<1> DEFINE c == [step |-> "created", new |-> {Len(points) + 1}, rooms |-> joined,
                 single |-> TRUE]
<1>4. points' \in Seq(T!Place) /\ Len(points') = Len(points) + 1
  BY <1>1, <1>2
<1>5. /\ DOMAIN points \subseteq DOMAIN points'
      /\ {Len(points) + 1} \subseteq DOMAIN points'
  BY <1>1, <1>4
<1>6. /\ c.step = "created" /\ c.new \subseteq DOMAIN points'
      /\ trackingCalls' = [trackingCalls EXCEPT ![h] = c]
  BY <1>3, <1>5
<1>7. UNCHANGED <<shipments, delivered, T!alarm, T!inbox, T!online, trackingLost>>
  BY DEF T!Report
<1> HIDE DEF c
<1> QED
  BY <1>4, <1>5, <1>6, <1>7, PointsArrive

LEMMA ReportBulkKept ==
    ASSUME TrackingConstants, TrackingInv, NEW h \in Handlers, T!ReportBulk(h)
    PROVE  TrackingInv'
<1>1. points \in Seq(T!Place)
  BY DEF TrackingInv, TrackingTypes
<1>2. PICK first \in T!Place, second \in T!Place : points' = points \o <<first, second>>
  BY DEF T!ReportBulk
<1>3. PICK joined : trackingCalls' = [trackingCalls EXCEPT ![h] =
        [step |-> "created", new |-> {Len(points) + 1, Len(points) + 2}, rooms |-> joined,
         single |-> FALSE]]
  BY DEF T!ReportBulk
<1> DEFINE c == [step |-> "created", new |-> {Len(points) + 1, Len(points) + 2},
                 rooms |-> joined, single |-> FALSE]
<1>4. points' \in Seq(T!Place) /\ Len(points') = Len(points) + 2
  <2>1. <<first, second>> \in Seq(T!Place) /\ Len(<<first, second>>) = 2
    BY <1>2
  <2> HIDE DEF T!Place
  <2> QED
    BY <1>1, <1>2, <2>1
<1>5. /\ DOMAIN points \subseteq DOMAIN points'
      /\ {Len(points) + 1, Len(points) + 2} \subseteq DOMAIN points'
  BY <1>1, <1>4
<1>6. /\ c.step = "created" /\ c.new \subseteq DOMAIN points'
      /\ trackingCalls' = [trackingCalls EXCEPT ![h] = c]
  BY <1>3, <1>5
<1>7. UNCHANGED <<shipments, delivered, T!alarm, T!inbox, T!online, trackingLost>>
  BY DEF T!ReportBulk
<1> HIDE DEF c
<1> QED
  BY <1>4, <1>5, <1>6, <1>7, PointsArrive

\* A call that goes on to c, with the tables as they are.
LEMMA QuietStep ==
    ASSUME TrackingConstants, TrackingInv, NEW h \in Handlers, NEW c,
           trackingCalls' = [trackingCalls EXCEPT ![h] = c],
           c = Null \/ c.step \notin {"mark", "message"},
           TrackingCallOK(c), delivered' \subseteq Followers \X DOMAIN points,
           UNCHANGED <<shipments, points, T!alarm, T!inbox>>
    PROVE  TrackingInv'
<1>1. /\ TrackingTypes
      /\ UNCHANGED <<shipments, points, alerts, resets, owed, pushes, tokens>>
  BY DEF TrackingInv, T!alarm, T!inbox
<1>2. trackingCalls'[h] = c
  BY <1>1 DEF TrackingTypes
<1>3. TrackingCallOK(trackingCalls[h])'
  BY <1>1, <1>2 DEF TrackingCallOK
<1>4. /\ trackingCalls' = [g \in Handlers |-> trackingCalls'[g]]
      /\ \A g \in Handlers : TrackingCallOK(trackingCalls[g])'
  BY <1>1, <1>3, CallReplaced
<1>5. TrackingTypes'
  BY <1>1, <1>4 DEF TrackingTypes, T!TypeOK
<1>6. \A s \in Shipments : AlertsPaid(s)'
  BY <1>1, QuietCall
<1> QED
  BY <1>5, <1>6 DEF TrackingInv

LEMMA CallEndsKept ==
    ASSUME TrackingConstants, TrackingInv, NEW h \in Handlers, T!Ends(h),
           UNCHANGED <<shipments, points, delivered, T!alarm, T!inbox>>
    PROVE  TrackingInv'
<1>1. TrackingCallOK(Null)
  BY DEF TrackingCallOK
<1>2. trackingCalls' = [trackingCalls EXCEPT ![h] = Null]
      /\ delivered' \subseteq Followers \X DOMAIN points
  BY DEF T!Ends, TrackingInv, TrackingTypes, T!TypeOK
<1> QED
  BY <1>1, <1>2, QuietStep

LEMMA BroadcastKept ==
    ASSUME TrackingConstants, TrackingInv, NEW h \in Handlers, T!Broadcast(h)
    PROVE  TrackingInv'
<1> DEFINE near == [step |-> "near", place |-> points[CHOOSE p \in trackingCalls[h].new : TRUE]]
<1>1. /\ trackingCalls[h].new \subseteq DOMAIN points
      /\ delivered \subseteq Followers \X DOMAIN points
      /\ trackingCalls = [g \in Handlers |-> trackingCalls[g]]
  BY DEF T!Broadcast, T!At, T!Idle, TrackingInv, TrackingTypes, TrackingCallOK, T!TypeOK
<1>2. delivered' \subseteq Followers \X DOMAIN points
  BY <1>1 DEF T!Broadcast
<1>3. UNCHANGED <<shipments, points, T!alarm, T!inbox>>
  BY DEF T!Broadcast
<1>4. \/ trackingCalls' = [trackingCalls EXCEPT ![h] = near]
      \/ trackingCalls' = [trackingCalls EXCEPT ![h] = Null]
  BY <1>1 DEF T!Broadcast
<1>5. near.step = "near" /\ TrackingCallOK(near) /\ TrackingCallOK(Null)
  BY DEF TrackingCallOK
<1>6. CASE trackingCalls' = [trackingCalls EXCEPT ![h] = near]
  <2> HIDE DEF near
  <2> QED
    BY <1>2, <1>3, <1>5, <1>6, QuietStep
<1>7. CASE trackingCalls' = [trackingCalls EXCEPT ![h] = Null]
  BY <1>2, <1>3, <1>5, <1>7, QuietStep
<1> QED
  BY <1>4, <1>6, <1>7

\* A call that goes on to the shipments in near has marked none of them yet.
LEMMA AlertingCall ==
    ASSUME TrackingTypes, NEW h \in Handlers, NEW near \in SUBSET Shipments,
           T!Alerting(h, near), UNCHANGED points
    PROVE  /\ trackingCalls' = [g \in Handlers |-> trackingCalls'[g]]
           /\ \A g \in Handlers : TrackingCallOK(trackingCalls[g])'
           /\ \A s : /\ Marked(s)' \subseteq Marked(s) \ {h}
                     /\ s \notin near => Alerts(s)' \subseteq Alerts(s) \ {h}
<1> DEFINE mark == [step |-> "mark", near |-> near]
           c == IF near = {} THEN Null ELSE mark
<1>1. trackingCalls' = [trackingCalls EXCEPT ![h] = c]
  BY DEF T!Alerting
<1>2. trackingCalls = [g \in Handlers |-> trackingCalls[g]]
  BY DEF TrackingTypes
<1>3. trackingCalls'[h] = c /\ \A g \in Handlers \ {h} : trackingCalls'[g] = trackingCalls[g]
  BY <1>1, <1>2
<1>4. mark.step = "mark" /\ mark.near = near
  OBVIOUS
<1>5. c = Null \/ (c.step = "mark" /\ c.near = near)
  BY <1>4
<1> HIDE DEF c
<1>6. TrackingCallOK(trackingCalls[h])'
  BY <1>3, <1>5 DEF TrackingCallOK
<1>7. ASSUME NEW s
      PROVE  /\ Marked(s)' \subseteq Marked(s) \ {h}
             /\ s \notin near => Alerts(s)' \subseteq Alerts(s) \ {h}
  BY <1>3, <1>5 DEF Marked, Alerts, T!At, T!Idle
<1> QED
  BY <1>1, <1>6, <1>7, CallReplaced

LEMMA FindNearKept ==
    ASSUME TrackingConstants, TrackingInv, NEW h \in Handlers, T!FindNear(h)
    PROVE  TrackingInv'
<1> DEFINE near == {s \in Shipments : /\ shipments[s].open /\ ~shipments[s].alerted
                                      /\ trackingCalls[h].place = s}
<1>1. UNCHANGED <<shipments, points, delivered, T!alarm, T!inbox>>
  BY DEF T!FindNear, T!phone
<1>2. T!Ends(h) \/ T!Alerting(h, near)
  BY DEF T!FindNear
<1>3. CASE T!Ends(h)
  BY <1>1, <1>3, CallEndsKept
<1>4. CASE T!Alerting(h, near)
  <2>1. /\ trackingCalls' = [g \in Handlers |-> trackingCalls'[g]]
        /\ \A g \in Handlers : TrackingCallOK(trackingCalls[g])'
        /\ \A s : /\ Marked(s)' \subseteq Marked(s) \ {h}
                  /\ s \notin near => Alerts(s)' \subseteq Alerts(s) \ {h}
    <3>1. near \in SUBSET Shipments /\ TrackingTypes /\ UNCHANGED points
      BY <1>1 DEF TrackingInv
    <3> HIDE DEF near
    <3> QED
      BY <1>4, <3>1, AlertingCall
  <2>2. TrackingTypes'
    BY <1>1, <2>1 DEF TrackingInv, TrackingTypes, T!TypeOK, T!alarm, T!inbox
  <2>3. ASSUME NEW s \in Shipments PROVE AlertsPaid(s)'
    <3>1. /\ TrackingTypes /\ AlertsPaid(s) /\ Marked(s)' \subseteq Marked(s)
          /\ shipments[s].alerted => Alerts(s)' \subseteq Alerts(s)
          /\ UNCHANGED <<shipments[s].alerted, alerts[s], resets[s]>>
      BY <1>1, <2>1 DEF TrackingInv, T!alarm
    <3> QED
      BY <3>1, NothingAlerted
  <2> QED
    BY <2>2, <2>3 DEF TrackingInv
<1> QED
  BY <1>2, <1>3, <1>4

\* Marking s pays for every call that may alert its recipient from now on.
LEMMA MarkPays ==
    ASSUME TrackingConstants, TrackingTypes, NEW s \in Shipments, AlertsPaid(s),
           UNCHANGED <<alerts[s], resets[s]>>, shipments'[s].alerted,
           shipments[s].alerted => Alerts(s)' \subseteq Alerts(s)
    PROVE  AlertsPaid(s)'
<1>1. /\ Cardinality(Marked(s)) \in Nat /\ Cardinality(Handlers) \in Nat
      /\ alerts[s] \in Nat /\ Cardinality(Handlers) * resets[s] \in Nat
      /\ Cardinality(Alerts(s)) \in Nat /\ IsFiniteSet(Alerts(s))
  BY PendingCounts
<1>2. Alerts(s)' \subseteq Handlers /\ IsFiniteSet(Handlers)
  BY DEF Alerts, Marked, TrackingConstants
<1>3. Cardinality(Alerts(s)') <= Cardinality(Handlers) /\ Cardinality(Alerts(s)') \in Nat
  BY <1>2, FS_Subset, FS_CardinalityType
<1>4. shipments[s].alerted => Cardinality(Alerts(s)') <= Cardinality(Alerts(s))
  BY <1>1, FS_Subset
<1>5. AlertsPaid(s)' <=> alerts[s] + Cardinality(Alerts(s)') <=
                            Cardinality(Handlers) * resets[s] + Cardinality(Handlers)
  BY DEF AlertsPaid
<1>6. IF shipments[s].alerted
      THEN alerts[s] + Cardinality(Alerts(s)) <=
              Cardinality(Handlers) * resets[s] + Cardinality(Handlers)
      ELSE alerts[s] + Cardinality(Marked(s)) <= Cardinality(Handlers) * resets[s]
  BY DEF AlertsPaid
<1> QED
  BY <1>1, <1>3, <1>4, <1>5, <1>6

LEMMA MarkAlertedKept ==
    ASSUME TrackingConstants, TrackingInv, NEW h \in Handlers, T!MarkAlerted(h)
    PROVE  TrackingInv'
<1>1. /\ TrackingTypes /\ trackingCalls[h] # Null /\ trackingCalls[h].step = "mark"
      /\ trackingCalls[h].near \subseteq Shipments
      /\ UNCHANGED <<points, delivered, alerts, resets, owed, pushes, tokens>>
  BY DEF T!MarkAlerted, T!At, T!Idle, TrackingInv, TrackingTypes, TrackingCallOK, T!phone,
         T!alarm, T!inbox
<1>2. PICK m \in trackingCalls[h].near :
         /\ shipments' = [shipments EXCEPT ![m].alerted = TRUE]
         /\ trackingCalls' = [trackingCalls EXCEPT ![h] =
                [step |-> "message", shipment |-> m, near |-> @.near \ {m}]]
  BY DEF T!MarkAlerted
<1> DEFINE c == [step |-> "message", shipment |-> m, near |-> trackingCalls[h].near \ {m}]
<1>3. /\ trackingCalls' = [trackingCalls EXCEPT ![h] = c]
      /\ c.step = "message" /\ c.shipment = m /\ c.near = trackingCalls[h].near \ {m}
      /\ trackingCalls = [g \in Handlers |-> trackingCalls[g]] /\ m \in Shipments
  BY <1>1, <1>2 DEF TrackingTypes
<1> HIDE DEF c
<1>4. trackingCalls'[h] = c /\ \A g \in Handlers \ {h} : trackingCalls'[g] = trackingCalls[g]
  BY <1>3
<1>5. TrackingCallOK(trackingCalls[h])'
  BY <1>1, <1>3, <1>4 DEF TrackingCallOK
<1>6. /\ trackingCalls' = [g \in Handlers |-> trackingCalls'[g]]
      /\ \A g \in Handlers : TrackingCallOK(trackingCalls[g])'
  BY <1>1, <1>3, <1>5, CallReplaced
<1>7. shipments \in [Shipments -> T!Shipment]
  BY <1>1 DEF TrackingTypes, T!TypeOK
<1>8. /\ shipments' \in [Shipments -> T!Shipment] /\ shipments'[m].alerted
      /\ \A s \in Shipments \ {m} : shipments'[s] = shipments[s]
  BY <1>2, <1>3, <1>7 DEF T!Shipment
<1>9. TrackingTypes'
  BY <1>1, <1>6, <1>8 DEF TrackingTypes, T!TypeOK
<1>10. \A s : Alerts(s)' \subseteq Alerts(s) /\ (s # m => Marked(s)' \subseteq Marked(s))
  BY <1>1, <1>3, <1>4 DEF Marked, Alerts, T!At, T!Idle
<1>11. ASSUME NEW s \in Shipments PROVE AlertsPaid(s)'
  <2>1. /\ AlertsPaid(s) /\ UNCHANGED <<alerts[s], resets[s]>>
    BY <1>1 DEF TrackingInv
  <2>2. CASE s = m
    BY <1>1, <1>8, <1>10, <2>1, <2>2, MarkPays
  <2>3. CASE s # m
    <3>1. UNCHANGED shipments[s].alerted
      BY <1>8, <2>3
    <3> QED
      BY <1>1, <1>10, <2>1, <2>3, <3>1, NothingAlerted
  <2> QED
    BY <2>2, <2>3
<1> QED
  BY <1>9, <1>11 DEF TrackingInv

\* An alert is one of those that were counted before.
LEMMA AlertPays ==
    ASSUME TrackingConstants, TrackingTypes, NEW s \in Shipments, AlertsPaid(s),
           NEW h \in Marked(s), UNCHANGED <<shipments[s].alerted, resets[s]>>,
           alerts'[s] = alerts[s] + 1,
           Marked(s)' \subseteq Marked(s) \ {h}, Alerts(s)' \subseteq Alerts(s) \ {h}
    PROVE  AlertsPaid(s)'
<1>1. /\ Cardinality(Marked(s)) \in Nat /\ Cardinality(Alerts(s)) \in Nat
      /\ IsFiniteSet(Marked(s)) /\ IsFiniteSet(Alerts(s)) /\ h \in Alerts(s)
      /\ Cardinality(Handlers) \in Nat /\ alerts[s] \in Nat
      /\ Cardinality(Handlers) * resets[s] \in Nat
  BY PendingCounts
<1>2. /\ IsFiniteSet(Marked(s) \ {h}) /\ IsFiniteSet(Alerts(s) \ {h})
      /\ Cardinality(Marked(s) \ {h}) = Cardinality(Marked(s)) - 1
      /\ Cardinality(Alerts(s) \ {h}) = Cardinality(Alerts(s)) - 1
  BY <1>1, FS_RemoveElement
<1>3. /\ Cardinality(Marked(s)') <= Cardinality(Marked(s)) - 1
      /\ Cardinality(Alerts(s)') <= Cardinality(Alerts(s)) - 1
      /\ Cardinality(Marked(s)') \in Nat /\ Cardinality(Alerts(s)') \in Nat
  BY <1>2, FS_Subset, FS_CardinalityType
<1>4. AlertsPaid(s)' <=>
         IF shipments[s].alerted
         THEN alerts[s] + 1 + Cardinality(Alerts(s)') <=
                 Cardinality(Handlers) * resets[s] + Cardinality(Handlers)
         ELSE alerts[s] + 1 + Cardinality(Marked(s)') <= Cardinality(Handlers) * resets[s]
  BY DEF AlertsPaid
<1>5. IF shipments[s].alerted
      THEN alerts[s] + Cardinality(Alerts(s)) <=
              Cardinality(Handlers) * resets[s] + Cardinality(Handlers)
      ELSE alerts[s] + Cardinality(Marked(s)) <= Cardinality(Handlers) * resets[s]
  BY DEF AlertsPaid
<1> QED
  BY <1>1, <1>3, <1>4, <1>5

LEMMA AlertKept ==
    ASSUME TrackingConstants, TrackingInv, NEW h \in Handlers, T!Alert(h)
    PROVE  TrackingInv'
<1> DEFINE near == trackingCalls[h].near
<1>0. trackingCalls[h].shipment \in Shipments
  BY DEF T!Alert, T!At, T!Idle, TrackingInv, TrackingTypes, TrackingCallOK
<1> PICK m \in Shipments : trackingCalls[h].shipment = m
  BY <1>0
<1>1. /\ TrackingTypes /\ trackingCalls[h] # Null /\ trackingCalls[h].step = "message"
      /\ m \in Shipments /\ near \in SUBSET Shipments /\ m \notin near
      /\ UNCHANGED <<shipments, points, delivered, resets, pushes, tokens>>
  BY DEF T!Alert, T!At, T!Idle, TrackingInv, TrackingTypes, TrackingCallOK, T!phone, T!inbox
<1>2. T!Alerting(h, near) /\ alerts' = [alerts EXCEPT ![m] = @ + 1]
  BY DEF T!Alert
<1>3. h \in Marked(m)
  BY <1>1 DEF Marked, T!At, T!Idle
<1>4. /\ trackingCalls' = [g \in Handlers |-> trackingCalls'[g]]
      /\ \A g \in Handlers : TrackingCallOK(trackingCalls[g])'
      /\ \A s : /\ Marked(s)' \subseteq Marked(s) \ {h}
                /\ s \notin near => Alerts(s)' \subseteq Alerts(s) \ {h}
  <2> HIDE DEF near
  <2> QED
    BY <1>1, <1>2, AlertingCall
<1>5. alerts \in [Shipments -> Nat]
  BY <1>1 DEF TrackingTypes
<1>6. /\ alerts' \in [Shipments -> Nat] /\ alerts'[m] = alerts[m] + 1
      /\ \A s \in Shipments \ {m} : alerts'[s] = alerts[s]
  BY <1>1, <1>2, <1>5
<1>7. TrackingTypes'
  BY <1>1, <1>4, <1>6 DEF TrackingTypes, T!TypeOK
<1>8. \A s : s \in near => Alerts(s)' \subseteq Alerts(s)
  <2>1. \A s \in near : h \in Alerts(s)
    BY <1>1 DEF Alerts, T!At, T!Idle
  <2>2. \A g \in Handlers \ {h} : trackingCalls'[g] = trackingCalls[g]
    BY <1>1, <1>2 DEF T!Alerting, TrackingTypes
  <2> QED
    BY <2>1, <2>2 DEF Alerts, Marked, T!At, T!Idle
<1>9. ASSUME NEW s \in Shipments PROVE AlertsPaid(s)'
  <2>1. AlertsPaid(s)
    BY DEF TrackingInv
  <2>2. CASE s = m
    <3>1. /\ UNCHANGED <<shipments[s].alerted, resets[s]>> /\ h \in Marked(s)
          /\ Marked(s)' \subseteq Marked(s) \ {h} /\ Alerts(s)' \subseteq Alerts(s) \ {h}
          /\ alerts'[s] = alerts[s] + 1
      BY <1>1, <1>3, <1>4, <1>6, <2>2
    <3> QED
      BY <1>1, <2>1, <3>1, AlertPays
  <2>3. CASE s # m
    <3>1. /\ UNCHANGED <<shipments[s].alerted, alerts[s], resets[s]>>
          /\ Marked(s)' \subseteq Marked(s) /\ Alerts(s)' \subseteq Alerts(s)
      BY <1>1, <1>4, <1>6, <1>8, <2>3
    <3> QED
      BY <1>1, <2>1, <3>1, NothingAlerted
  <2> QED
    BY <2>2, <2>3
<1> QED
  BY <1>7, <1>9 DEF TrackingInv

LEMMA LoadShipmentKept ==
    ASSUME TrackingConstants, TrackingInv, NEW h \in Handlers, T!LoadShipment(h)
    PROVE  TrackingInv'
<1>1. PICK s \in Shipments, open \in BOOLEAN :
        trackingCalls' = [trackingCalls EXCEPT ![h] =
            [step |-> "save", shipment |-> s, row |-> [shipments[s] EXCEPT !.open = open]]]
  BY DEF T!LoadShipment
<1> DEFINE c == [step |-> "save", shipment |-> s, row |-> [shipments[s] EXCEPT !.open = open]]
<1>2. [shipments[s] EXCEPT !.open = open] \in T!Shipment
  BY <1>1 DEF TrackingInv, TrackingTypes, T!TypeOK, T!Shipment
<1>3. TrackingCallOK(c) /\ c.step = "save" /\ trackingCalls' = [trackingCalls EXCEPT ![h] = c]
  BY <1>1, <1>2 DEF TrackingCallOK
<1>4. /\ UNCHANGED <<shipments, points, T!alarm, T!inbox>>
      /\ delivered' \subseteq Followers \X DOMAIN points
  BY DEF T!LoadShipment, T!phone, TrackingInv, TrackingTypes, T!TypeOK
<1> HIDE DEF c
<1> QED
  BY <1>3, <1>4, QuietStep

LEMMA OneMoreTime ==
    ASSUME NEW n \in Nat, NEW r \in Nat
    PROVE  n * (r + 1) = n * r + n /\ n * r \in Nat
OBVIOUS

\* A save that takes the mark of s away is counted in resets.
LEMMA ResetPays ==
    ASSUME TrackingConstants, TrackingTypes, NEW s \in Shipments, AlertsPaid(s),
           UNCHANGED alerts[s], shipments[s].alerted, ~shipments'[s].alerted,
           resets'[s] = resets[s] + 1, Marked(s)' \subseteq Marked(s)
    PROVE  AlertsPaid(s)'
<1> DEFINE n == Cardinality(Handlers)
<1>1. /\ Cardinality(Marked(s)) \in Nat /\ Cardinality(Alerts(s)) \in Nat
      /\ Cardinality(Marked(s)) <= Cardinality(Alerts(s)) /\ IsFiniteSet(Marked(s))
      /\ n \in Nat /\ alerts[s] \in Nat /\ resets[s] \in Nat
  BY PendingCounts
<1>2. Cardinality(Marked(s)') <= Cardinality(Marked(s)) /\ Cardinality(Marked(s)') \in Nat
  BY <1>1, FS_Subset, FS_CardinalityType
<1>3. alerts[s] + Cardinality(Alerts(s)) <= n * resets[s] + n
  BY DEF AlertsPaid
<1>4. AlertsPaid(s)' <=> alerts[s] + Cardinality(Marked(s)') <= n * (resets[s] + 1)
  BY DEF AlertsPaid
<1>5. n * (resets[s] + 1) = n * resets[s] + n /\ n * resets[s] \in Nat
  BY <1>1, OneMoreTime
<1> HIDE DEF n
<1> QED
  BY <1>1, <1>2, <1>3, <1>4, <1>5

LEMMA SaveShipmentKept ==
    ASSUME TrackingConstants, TrackingInv, NEW h \in Handlers, T!SaveShipment(h)
    PROVE  TrackingInv'
<1>1. /\ TrackingTypes /\ trackingCalls[h] # Null /\ trackingCalls[h].step = "save"
      /\ trackingCalls[h].shipment \in Shipments /\ trackingCalls[h].row \in T!Shipment
      /\ trackingCalls = [g \in Handlers |-> trackingCalls[g]]
      /\ trackingCalls' = [trackingCalls EXCEPT ![h] = Null]
      /\ UNCHANGED <<points, delivered, alerts, owed, pushes, tokens>>
  BY DEF T!SaveShipment, T!At, T!Idle, T!Ends, TrackingInv, TrackingTypes, TrackingCallOK,
         T!phone, T!inbox
<1> PICK m \in Shipments : trackingCalls[h].shipment = m
  BY <1>1
<1> PICK row \in T!Shipment : trackingCalls[h].row = row
  BY <1>1
<1>2. /\ shipments' = [shipments EXCEPT ![m] = row]
      /\ resets' = [resets EXCEPT
            ![m] = IF shipments[m].alerted /\ ~row.alerted THEN @ + 1 ELSE @]
  BY DEF T!SaveShipment
<1>3. shipments \in [Shipments -> T!Shipment] /\ resets \in [Shipments -> Nat]
  BY <1>1 DEF TrackingTypes, T!TypeOK
<1>4. /\ shipments' \in [Shipments -> T!Shipment] /\ resets' \in [Shipments -> Nat]
      /\ shipments'[m] = row
      /\ resets'[m] = IF shipments[m].alerted /\ ~row.alerted THEN resets[m] + 1 ELSE resets[m]
      /\ \A s \in Shipments \ {m} : shipments'[s] = shipments[s] /\ resets'[s] = resets[s]
  BY <1>2, <1>3
<1>5. trackingCalls'[h] = Null /\ \A g \in Handlers \ {h} : trackingCalls'[g] = trackingCalls[g]
  BY <1>1
<1>6. TrackingCallOK(trackingCalls[h])'
  BY <1>5 DEF TrackingCallOK
<1>7. /\ trackingCalls' = [g \in Handlers |-> trackingCalls'[g]]
      /\ \A g \in Handlers : TrackingCallOK(trackingCalls[g])'
  BY <1>1, <1>6, CallReplaced
<1>8. TrackingTypes'
  BY <1>1, <1>4, <1>7 DEF TrackingTypes, T!TypeOK
<1>9. \A s : Alerts(s)' \subseteq Alerts(s) /\ Marked(s)' \subseteq Marked(s)
  BY <1>5 DEF Marked, Alerts, T!At, T!Idle
<1>10. ASSUME NEW s \in Shipments PROVE AlertsPaid(s)'
  <2>1. AlertsPaid(s) /\ UNCHANGED alerts[s]
    BY <1>1 DEF TrackingInv
  <2>2. shipments[s].alerted \in BOOLEAN /\ shipments'[s].alerted \in BOOLEAN
    BY <1>3, <1>4 DEF T!Shipment
  <2>3. CASE shipments[s].alerted /\ ~shipments'[s].alerted
    <3>1. resets'[s] = resets[s] + 1
      BY <1>4, <2>3
    <3> QED
      BY <1>1, <1>9, <2>1, <2>3, <3>1, ResetPays
  <2>4. CASE ~(shipments[s].alerted /\ ~shipments'[s].alerted)
    <3>1. UNCHANGED resets[s]
      BY <1>4, <2>4
    <3>2. CASE shipments'[s].alerted
      BY <1>1, <1>9, <2>1, <3>1, <3>2, MarkPays
    <3>3. CASE ~shipments'[s].alerted
      <4>1. UNCHANGED shipments[s].alerted
        BY <2>2, <2>4, <3>3
      <4> QED
        BY <1>1, <1>9, <2>1, <3>1, <4>1, NothingAlerted
    <3> QED
      BY <3>2, <3>3
  <2> QED
    BY <2>3, <2>4
<1> QED
  BY <1>8, <1>10 DEF TrackingInv

LEMMA TrackingLoseKept ==
    ASSUME TrackingConstants, TrackingInv, NEW h \in Handlers, T!Lose(h)
    PROVE  TrackingInv'
BY CallEndsKept DEF T!Lose, T!phone

\* Steps of no call: pushes, tokens, sockets and accounts.
LEMMA InboxKept ==
    ASSUME TrackingConstants, TrackingInv,
           UNCHANGED <<shipments, points, delivered, alerts, resets, trackingCalls>>,
           pushes' \in Seq(T!Notification),
           tokens' = [d \in Devices |-> tokens'[d]],
           \A d \in Devices :
              tokens'[d] \in T!PushToken /\ (tokens'[d].active => tokens'[d].user # Null)
    PROVE  TrackingInv'
<1>1. TrackingTypes'
  <2>1. \A h \in Handlers : TrackingCallOK(trackingCalls[h])'
    BY DEF TrackingInv, TrackingTypes, TrackingCallOK
  <2>2. \A n \in DOMAIN pushes' : pushes'[n] \in T!Notification
    <3> HIDE DEF T!Notification
    <3> QED
      OBVIOUS
  <2> QED
    BY <2>1, <2>2 DEF TrackingInv, TrackingTypes, T!TypeOK
<1>2. \A s \in Shipments : AlertsPaid(s)'
  BY NoCall
<1> QED
  BY <1>1, <1>2 DEF TrackingInv

LEMMA PushesKept ==
    ASSUME TrackingConstants, TrackingInv,
           \/ \E s \in Shipments : T!Notify(s) \/ T!LosePush(s)
           \/ \E n \in DOMAIN pushes : T!LoadTokens(n) \/ T!SendPush(n)
    PROVE  TrackingInv'
<1>1. /\ pushes \in Seq(T!Notification)
      /\ tokens = [d \in Devices |-> tokens[d]]
      /\ \A d \in Devices :
            tokens[d] \in T!PushToken /\ (tokens[d].active => tokens[d].user # Null)
  BY DEF TrackingInv, TrackingTypes, T!TypeOK
<1>2. CASE \E s \in Shipments : T!Notify(s) \/ T!LosePush(s)
  <2>1. PICK s \in Shipments : T!Notify(s) \/ T!LosePush(s)
    BY <1>2
  <2>2. [shipment |-> s, state |-> "stored", targets |-> {}] \in T!Notification
    BY DEF T!Notification
  <2>3. pushes' \in Seq(T!Notification)
    <3> HIDE DEF T!Notification
    <3>1. CASE T!Notify(s)
      BY <1>1, <2>2, <3>1 DEF T!Notify
    <3>2. CASE T!LosePush(s)
      BY <1>1, <3>2 DEF T!LosePush, T!inbox
    <3> QED
      BY <2>1, <3>1, <3>2
  <2>4. UNCHANGED <<shipments, points, delivered, alerts, resets, trackingCalls, tokens>>
    BY <2>1 DEF T!Notify, T!LosePush, T!phone, T!inbox
  <2> QED
    BY <1>1, <2>3, <2>4, InboxKept
<1>3. CASE \E n \in DOMAIN pushes : T!LoadTokens(n) \/ T!SendPush(n)
  <2>1. PICK n \in DOMAIN pushes : T!LoadTokens(n) \/ T!SendPush(n)
    BY <1>3
  <2>2. pushes[n] \in T!Notification
    BY <1>1, <2>1
  <2>3. UNCHANGED <<shipments, points, delivered, alerts, resets, trackingCalls>>
    BY <2>1 DEF T!LoadTokens, T!SendPush, T!phone, T!alarm
  <2>4. CASE T!LoadTokens(n)
    <3>1. PICK row \in T!Notification : pushes' = [pushes EXCEPT ![n] = row]
      <4>1. [pushes[n] EXCEPT
                !.state = "sending",
                !.targets = {d \in Devices : tokens[d].user = Driver /\ tokens[d].active}]
              \in T!Notification
        BY <2>2 DEF T!Notification
      <4>2. pushes' = [pushes EXCEPT ![n] =
               [pushes[n] EXCEPT
                   !.state = "sending",
                   !.targets = {d \in Devices : tokens[d].user = Driver /\ tokens[d].active}]]
        BY <1>1, <2>1, <2>2, <2>4 DEF T!LoadTokens, T!Notification
      <4> QED
        BY <4>1, <4>2
    <3>2. pushes' \in Seq(T!Notification)
      <4> HIDE DEF T!Notification
      <4> QED
        BY <1>1, <2>1, <3>1
    <3>3. UNCHANGED tokens
      BY <2>4 DEF T!LoadTokens
    <3> QED
      BY <1>1, <2>3, <3>2, <3>3, InboxKept
  <2>5. CASE T!SendPush(n)
    <3> DEFINE Sent(reached, invalid) ==
          /\ tokens' = [d \in Devices |->
                IF d \in invalid THEN [tokens[d] EXCEPT !.active = FALSE] ELSE tokens[d]]
          /\ pushes' = [pushes EXCEPT
                ![n].targets = reached,
                ![n].state = IF reached = {} THEN "failed" ELSE "pushed"]
    <3>0. \E reached \in SUBSET pushes[n].targets :
             \E invalid \in SUBSET (pushes[n].targets \ reached) :
                Sent(reached, invalid)
      BY <2>5, Zenon DEF T!SendPush
    <3> HIDE DEF Sent
    <3>a. PICK reached \in SUBSET pushes[n].targets :
             \E invalid \in SUBSET (pushes[n].targets \ reached) :
                Sent(reached, invalid)
      BY <3>0
    <3>b. PICK invalid \in SUBSET (pushes[n].targets \ reached) : Sent(reached, invalid)
      BY <3>a
    <3>1. Sent(reached, invalid)
      BY <3>b
    <3> USE DEF Sent
    <3> DEFINE row == [pushes[n] EXCEPT
                         !.targets = reached,
                         !.state = IF reached = {} THEN "failed" ELSE "pushed"]
    <3>2. row \in T!Notification /\ pushes' = [pushes EXCEPT ![n] = row]
      BY <1>1, <2>1, <2>2, <3>1 DEF T!Notification
    <3>3. pushes' \in Seq(T!Notification)
      <4> HIDE DEF row
      <4> QED
        BY <1>1, <2>1, <3>2
    <3>4. /\ tokens' = [d \in Devices |-> tokens'[d]]
          /\ \A d \in Devices :
               tokens'[d] \in T!PushToken /\ (tokens'[d].active => tokens'[d].user # Null)
      BY <1>1, <3>1 DEF T!PushToken
    <3> QED
      BY <2>3, <3>3, <3>4, InboxKept
  <2> QED
    BY <2>1, <2>4, <2>5
<1> QED
  BY <1>2, <1>3

LEMMA OnlineKept ==
    ASSUME TrackingConstants, TrackingInv, NEW u \in Followers,
           \/ T!RegisterToken(u) \/ T!RemoveToken(u)
           \/ T!Connect(u) \/ T!Watch(u) \/ T!Disconnect(u) \/ T!SuspendUser(u)
    PROVE  TrackingInv'
<1>1. /\ pushes \in Seq(T!Notification)
      /\ tokens = [d \in Devices |-> tokens[d]]
      /\ \A d \in Devices :
            tokens[d] \in T!PushToken /\ (tokens[d].active => tokens[d].user # Null)
  BY DEF TrackingInv, TrackingTypes, T!TypeOK
<1>2. UNCHANGED <<shipments, points, delivered, alerts, resets, trackingCalls, pushes>>
  BY DEF T!RegisterToken, T!RemoveToken, T!Connect, T!Watch, T!Disconnect, T!SuspendUser,
         T!phone, T!alarm, T!inbox
<1>3. /\ tokens' = [d \in Devices |-> tokens'[d]]
      /\ \A d \in Devices :
            tokens'[d] \in T!PushToken /\ (tokens'[d].active => tokens'[d].user # Null)
  <2>1. CASE T!RegisterToken(u)
    <3>1. PICK e \in Devices : tokens' = [tokens EXCEPT ![e] = [user |-> u, active |-> TRUE]]
      BY <2>1 DEF T!RegisterToken
    <3>2. u # Null /\ [user |-> u, active |-> TRUE] \in T!PushToken
      BY DEF TrackingConstants, T!PushToken
    <3>3. /\ tokens' = [d \in Devices |-> tokens'[d]]
          /\ \A d \in Devices : tokens'[d] = tokens[d]
                \/ tokens'[d] = [user |-> u, active |-> TRUE]
      BY <1>1, <3>1
    <3>4. ASSUME NEW d \in Devices
          PROVE  tokens'[d] \in T!PushToken /\ (tokens'[d].active => tokens'[d].user # Null)
      <4>1. CASE tokens'[d] = tokens[d]
        BY <1>1, <4>1
      <4>2. CASE tokens'[d] = [user |-> u, active |-> TRUE]
        BY <3>2, <4>2
      <4> QED
        BY <3>3, <4>1, <4>2
    <3> QED
      BY <3>3, <3>4
  <2>2. CASE T!RemoveToken(u)
    BY <1>1, <2>2 DEF T!RemoveToken, T!PushToken
  <2>3. CASE T!Connect(u) \/ T!Watch(u) \/ T!Disconnect(u) \/ T!SuspendUser(u)
    BY <1>1, <2>3 DEF T!Connect, T!Watch, T!Disconnect, T!SuspendUser, T!inbox
  <2> QED
    BY <2>1, <2>2, <2>3
<1> QED
  BY <1>1, <1>2, <1>3, InboxKept

LEMMA TrackingStep ==
    ASSUME TrackingConstants, TrackingInv, [T!Next]_(T!vars)
    PROVE  TrackingInv'
<1>1. CASE UNCHANGED T!vars
  <2>1. TrackingTypes'
    BY <1>1 DEF T!vars, TrackingInv, TrackingTypes, TrackingCallOK, T!TypeOK
  <2>2. \A s \in Shipments : AlertsPaid(s)'
    BY <1>1, NoCall DEF T!vars
  <2> QED
    BY <2>1, <2>2 DEF TrackingInv
<1>2. ASSUME NEW h \in Handlers,
             \/ T!Report(h) \/ T!ReportBulk(h) \/ T!Broadcast(h)
             \/ T!FindNear(h) \/ T!MarkAlerted(h) \/ T!Alert(h)
             \/ T!LoadShipment(h) \/ T!SaveShipment(h) \/ T!Lose(h)
      PROVE  TrackingInv'
  BY <1>2, ReportKept, ReportBulkKept, BroadcastKept, FindNearKept, MarkAlertedKept,
     AlertKept, LoadShipmentKept, SaveShipmentKept, TrackingLoseKept
<1>3. ASSUME \/ \E s \in Shipments : T!Notify(s) \/ T!LosePush(s)
             \/ \E n \in DOMAIN pushes : T!LoadTokens(n) \/ T!SendPush(n)
      PROVE  TrackingInv'
  BY <1>3, PushesKept
<1>4. ASSUME NEW u \in Followers,
             \/ T!RegisterToken(u) \/ T!RemoveToken(u)
             \/ T!Connect(u) \/ T!Watch(u) \/ T!Disconnect(u) \/ T!SuspendUser(u)
      PROVE  TrackingInv'
  BY <1>4, OnlineKept
<1> QED
  BY <1>1, <1>2, <1>3, <1>4 DEF T!Next

LEMMA TrackingInductive ==
    ASSUME TrackingConstants
    PROVE  T!Spec => []TrackingInv
<1>1. T!Init => TrackingInv
  BY TrackingInit
<1>2. TrackingInv /\ [T!Next]_(T!vars) => TrackingInv'
  BY TrackingStep
<1> QED
  BY <1>1, <1>2, PTL DEF T!Spec

\* Points, notifications, tokens and deliveries keep their types (Tracking).
THEOREM TrackingTypesHold ==
    ASSUME TrackingConstants
    PROVE  T!Spec => []T!TypeOK
<1>1. TrackingInv => T!TypeOK
  BY DEF TrackingInv, TrackingTypes
<1> QED
  BY <1>1, TrackingInductive, PTL

\* The instance counts as this module does.
LEMMA SameCardinality ==
    ASSUME NEW S
    PROVE  T!Cardinality(S) = Cardinality(S)
BY DEF T!Cardinality, Cardinality

\* The recipient of a shipment is alerted at most once for each call in flight, and
\* once more for each for every stale save that took the mark away: a process that
\* dies, and points reported again, add nothing (handleLocationUpdate).
THEOREM RecipientIsAlertedOnce ==
    ASSUME TrackingConstants
    PROVE  T!Spec => []T!AlertedOnce
<1>1. TrackingInv => T!AlertedOnce
  <2> SUFFICES ASSUME TrackingInv PROVE T!AlertedOnce
    OBVIOUS
  <2> SUFFICES ASSUME NEW s \in Shipments
               PROVE  alerts[s] <= Cardinality(Handlers) * (1 + resets[s])
    BY SameCardinality DEF T!AlertedOnce
  <2> DEFINE n == Cardinality(Handlers)
  <2>1. /\ Cardinality(Marked(s)) \in Nat /\ Cardinality(Alerts(s)) \in Nat
        /\ n \in Nat /\ alerts[s] \in Nat /\ resets[s] \in Nat
    BY PendingCounts DEF TrackingInv
  <2>2. alerts[s] + Cardinality(Marked(s)) <= n * resets[s]
          \/ alerts[s] + Cardinality(Alerts(s)) <= n * resets[s] + n
    BY DEF TrackingInv, AlertsPaid
  <2>3. n * (resets[s] + 1) = n * resets[s] + n /\ n * resets[s] \in Nat
    BY <2>1, OneMoreTime
  <2>4. n * (1 + resets[s]) = n * (resets[s] + 1)
    BY <2>1
  <2>5. alerts[s] <= n * (1 + resets[s])
    <3> HIDE DEF n
    <3>1. n * (1 + resets[s]) = n * resets[s] + n
      BY <2>3, <2>4
    <3> QED
      BY <2>1, <2>2, <2>3, <3>1
  <2> QED
    BY <2>5
<1> QED
  BY <1>1, TrackingInductive, PTL

\* A positive factor makes nothing smaller.
LEMMA FactorGrows ==
    ASSUME NEW n \in Nat \ {0}, NEW k \in Nat
    PROVE  k <= n * k
<1>1. n - 1 \in Nat /\ n = (n - 1) + 1
  OBVIOUS
<1>2. (n - 1) * k \in Nat
  BY <1>1
<1>3. n * k = (n - 1) * k + k
  BY <1>1
<1> QED
  BY <1>2, <1>3

\* With one call in flight the recipient is alerted once, and once more for every stale
\* save (handleLocationUpdate).
THEOREM SerialRecipientIsAlertedOnce ==
    ASSUME TrackingConstants, \E h : Handlers = {h}
    PROVE  T!Spec => [](\A s \in Shipments : /\ alerts[s] \in Nat /\ resets[s] \in Nat
                                            /\ alerts[s] <= 1 + resets[s])
<1>1. Cardinality(Handlers) = 1
  BY FS_Singleton
<1>2. ASSUME TrackingInv, T!AlertedOnce, NEW s \in Shipments
      PROVE  /\ alerts[s] \in Nat /\ resets[s] \in Nat
             /\ alerts[s] <= 1 + resets[s]
  <2>1. alerts[s] \in Nat /\ resets[s] \in Nat
    BY <1>2 DEF TrackingInv, TrackingTypes
  <2>2. alerts[s] <= 1 * (1 + resets[s])
    BY <1>1, <1>2, SameCardinality DEF T!AlertedOnce
  <2> QED
    BY <2>1, <2>2
<1>3. TrackingInv /\ T!AlertedOnce =>
          \A s \in Shipments : /\ alerts[s] \in Nat /\ resets[s] \in Nat
                              /\ alerts[s] <= 1 + resets[s]
  BY <1>2
<1> QED
  BY <1>3, TrackingInductive, RecipientIsAlertedOnce, PTL

-----------------------------------------------------------------------------
\* Verification.

V == INSTANCE Verification WITH
    calls <- reviewCalls, lost <- reviewLost, Requests <- ReviewRequests

VerificationConstants ==
    /\ Null \notin V!VerificationRow \cup V!Company \cup {"passenger_safe"}
    /\ MaxLost \in Nat

\* At most one call is in flight.
Serial == \A g, h \in Handlers : g = h

\* An approval about to be saved has activated the company, and an edit about to be
\* saved would not take that back.
ReviewCallOK(call) ==
    /\ call.step \in {"activate", "save"} => call.id \in Ids /\ call.row \in V!VerificationRow
    /\ call.step = "save" /\ call.row.status = "approved" => company.status = "active"
    /\ call.step = "saveCompany" =>
          /\ call.row \in V!Company
          /\ call.row.status = company.status /\ call.row.gone = company.gone

\* An administrator writes what he likes.
Activated == "admin" \in ReviewRequests \/ V!ApprovalActivates

VerificationInv ==
    /\ V!TypeOK
    /\ Activated
    /\ \A h \in Handlers :
          /\ ReviewCallOK(reviewCalls[h])
          /\ reviewCalls[h].step = "saveCompany" => Serial

\* What one review after the other saves follows from what is stored.
Reviewing(call) ==
    call.step \in {"activate", "save"} =>
        LET old == verifications[call.id] IN
        \/ old = Null /\ call.row.status = "pending"
        \/ old # Null /\ old.status = "pending" /\ call.row.status = "in_review"
        \/ old # Null /\ old.status = "in_review" /\ call.row.status \in {"approved", "rejected"}

ReviewingInv == VerificationInv /\ \A h \in Handlers : Reviewing(reviewCalls[h])

LEMMA VerificationInit ==
    ASSUME VerificationConstants, V!Init
    PROVE  VerificationInv /\ \A h \in Handlers : Reviewing(reviewCalls[h])
<1>1. V!TypeOK
  <2>1. V!Idle \in V!Call
    BY DEF V!Idle, V!Call
  <2>2. company \in V!Company
    BY DEF V!Init, V!Company, V!CompanyStatuses
  <2>3. 0 \in 0 .. MaxLost
    BY DEF VerificationConstants
  <2> QED
    BY <2>1, <2>2, <2>3 DEF V!Init, V!TypeOK
<1>2. \A h \in Handlers : reviewCalls[h].step = "idle"
  BY DEF V!Init, V!Idle
<1>3. Activated
  BY DEF V!Init, Activated, V!ApprovalActivates, V!Approved, V!Existing
<1> QED
  BY <1>1, <1>2, <1>3 DEF VerificationInv, ReviewCallOK, Reviewing

\* Call h goes on to another one, with the tables as they are.
LEMMA ReviewCall ==
    ASSUME VerificationInv, NEW h \in Handlers, NEW call \in V!Call,
           reviewCalls' = [reviewCalls EXCEPT ![h] = call],
           UNCHANGED <<company, verifications>>,
           reviewLost' \in 0 .. MaxLost, ReviewCallOK(call), call.step = "saveCompany" => Serial
    PROVE  VerificationInv'
<1>1. reviewCalls \in [Handlers -> V!Call]
  BY DEF VerificationInv, V!TypeOK
<1>2. /\ reviewCalls' \in [Handlers -> V!Call] /\ reviewCalls'[h] = call
      /\ \A g \in Handlers \ {h} : reviewCalls'[g] = reviewCalls[g]
  BY <1>1
<1>3. V!TypeOK' /\ Activated'
  BY <1>2 DEF VerificationInv, V!TypeOK, Activated, V!ApprovalActivates, V!Approved, V!Existing
<1>4. ASSUME NEW g \in Handlers
      PROVE  ReviewCallOK(reviewCalls[g])' /\ (reviewCalls'[g].step = "saveCompany" => Serial)
  <2>1. CASE g = h
    BY <1>2, <2>1 DEF ReviewCallOK
  <2>2. CASE g # h
    BY <1>2, <2>2 DEF VerificationInv, ReviewCallOK
  <2> QED
    BY <2>1, <2>2
<1> QED
  BY <1>3, <1>4 DEF VerificationInv, Serial

LEMMA ReviewEnd ==
    ASSUME VerificationInv, NEW h \in Handlers, V!End(h), reviewLost' \in 0 .. MaxLost,
           UNCHANGED <<company, verifications>>
    PROVE  VerificationInv'
<1>1. V!Idle \in V!Call /\ ReviewCallOK(V!Idle) /\ V!Idle.step = "idle"
  BY DEF V!Idle, V!Call, ReviewCallOK
<1> QED
  BY <1>1, ReviewCall DEF V!End

\* Requests: each loads a copy, to be saved in a later step.
LEMMA ReviewRequest ==
    ASSUME VerificationInv, NEW h \in Handlers, NEW step, NEW i, NEW row,
           V!Hold(h, step, i, row), step \in {"activate", "save"}, i \in Ids,
           row \in V!VerificationRow, step = "save" => row.status # "approved"
    PROVE  VerificationInv'
<1> DEFINE call == [step |-> step, id |-> i, row |-> row]
<1>1. /\ call \in V!Call /\ call.step = step
      /\ reviewCalls' = [reviewCalls EXCEPT ![h] = call] /\ reviewLost' \in 0 .. MaxLost
      /\ UNCHANGED <<company, verifications>>
  BY DEF V!Call, V!Hold, VerificationInv, V!TypeOK
<1>2. ReviewCallOK(call)
  BY DEF ReviewCallOK
<1> HIDE DEF call
<1> QED
  BY <1>1, <1>2, ReviewCall

LEMMA ReviewRequestsKept ==
    ASSUME VerificationInv, NEW h \in Handlers, NEW i \in Ids,
           \/ \E tier \in V!TierCodes : V!Create(h, i, tier)
           \/ V!Submit(h, i)
           \/ \E decision \in {"approved", "rejected"} : V!Review(h, i, decision)
    PROVE  VerificationInv'
<1>1. verifications[i] \in V!VerificationRow \cup {Null}
  BY DEF VerificationInv, V!TypeOK
<1>2. CASE \E tier \in V!TierCodes : V!Create(h, i, tier)
  <2>1. PICK tier \in V!TierCodes : V!Create(h, i, tier)
    BY <1>2
  <2>2. [tier |-> tier, status |-> "pending", valid |-> TRUE] \in V!VerificationRow
    BY DEF V!VerificationRow
  <2> QED
    BY <2>1, <2>2, ReviewRequest DEF V!Create
<1>3. CASE V!Submit(h, i)
  <2>1. /\ verifications[i] \in V!VerificationRow
        /\ V!Hold(h, "save", i, [verifications[i] EXCEPT !.status = "in_review"])
    BY <1>1, <1>3 DEF V!Submit, V!Existing
  <2>2. /\ [verifications[i] EXCEPT !.status = "in_review"] \in V!VerificationRow
        /\ [verifications[i] EXCEPT !.status = "in_review"].status = "in_review"
    BY <2>1 DEF V!VerificationRow
  <2> QED
    BY <2>1, <2>2, ReviewRequest
<1>4. CASE \E decision \in {"approved", "rejected"} : V!Review(h, i, decision)
  <2>1. PICK decision \in {"approved", "rejected"} : V!Review(h, i, decision)
    BY <1>4
  <2> DEFINE row == [verifications[i] EXCEPT !.status = decision, !.valid = TRUE]
             step == IF decision = "approved" THEN "activate" ELSE "save"
  <2>2. verifications[i] \in V!VerificationRow /\ V!Hold(h, step, i, row)
    BY <1>1, <2>1 DEF V!Review, V!Existing
  <2>3. row \in V!VerificationRow /\ row.status = decision
    BY <2>2 DEF V!VerificationRow
  <2>4. step \in {"activate", "save"} /\ (step = "save" => row.status # "approved")
    BY <2>1, <2>3
  <2> HIDE DEF row, step
  <2> QED
    BY <2>2, <2>3, <2>4, ReviewRequest
<1> QED
  BY <1>2, <1>3, <1>4

\* Nobody writes the company while an approval of it is under way.
NoStaleCompany == {"edit", "admin"} \cap ReviewRequests = {} \/ Serial

LEMMA CompanyRequestsKept ==
    ASSUME NoStaleCompany, VerificationInv, NEW h \in Handlers,
           \/ \E service \in V!ServiceTypes : V!UpdateCompany(h, service)
           \/ \E status \in V!CompanyStatuses : V!UpdateCompanyByAdmin(h, status)
           \/ V!RemoveCompany(h)
    PROVE  VerificationInv'
<1>1. company \in V!Company /\ reviewLost \in 0 .. MaxLost
  BY DEF VerificationInv, V!TypeOK
<1>2. CASE \E service \in V!ServiceTypes : V!UpdateCompany(h, service)
  <2>1. PICK service \in V!ServiceTypes : V!UpdateCompany(h, service)
    BY <1>2
  <2> DEFINE row == [company EXCEPT !.service = service]
             call == [step |-> "saveCompany", id |-> Null, row |-> row]
  <2>2. row \in V!Company /\ row.status = company.status /\ row.gone = company.gone
    BY <1>1 DEF V!Company
  <2>3. call \in V!Call /\ ReviewCallOK(call)
    BY <2>2 DEF V!Call, ReviewCallOK
  <2>4. /\ reviewCalls' = [reviewCalls EXCEPT ![h] = call] /\ reviewLost' \in 0 .. MaxLost
        /\ UNCHANGED <<company, verifications>>
    BY <1>1, <2>1 DEF V!UpdateCompany, V!Hold
  <2>5. Serial
    BY <2>1 DEF NoStaleCompany, V!UpdateCompany, V!Request
  <2> HIDE DEF call
  <2> QED
    BY <2>3, <2>4, <2>5, ReviewCall
<1>3. CASE V!RemoveCompany(h)
  <2> DEFINE call == [step |-> "removeCompany", id |-> Null, row |-> Null]
  <2>1. call \in V!Call /\ ReviewCallOK(call) /\ call.step = "removeCompany"
    BY DEF V!Call, ReviewCallOK
  <2>2. /\ reviewCalls' = [reviewCalls EXCEPT ![h] = call] /\ reviewLost' \in 0 .. MaxLost
        /\ UNCHANGED <<company, verifications>>
    BY <1>1, <1>3 DEF V!RemoveCompany, V!Hold
  <2> HIDE DEF call
  <2> QED
    BY <2>1, <2>2, ReviewCall
<1>4. CASE \E status \in V!CompanyStatuses : V!UpdateCompanyByAdmin(h, status)
  <2>1. PICK status \in V!CompanyStatuses : V!UpdateCompanyByAdmin(h, status)
    BY <1>4
  <2>2. /\ "admin" \in ReviewRequests /\ reviewCalls[h] = V!Idle
        /\ company' = [company EXCEPT !.status = status]
        /\ UNCHANGED <<verifications, reviewCalls, reviewLost>>
    BY <2>1 DEF V!UpdateCompanyByAdmin, V!Request
  <2>3. Serial
    BY <2>2 DEF NoStaleCompany
  <2>4. company' \in V!Company
    BY <1>1, <2>2 DEF V!Company
  <2>5. V!TypeOK' /\ Activated'
    BY <2>2, <2>4 DEF VerificationInv, V!TypeOK, Activated
  <2>6. ASSUME NEW g \in Handlers
        PROVE  ReviewCallOK(reviewCalls[g])' /\ (reviewCalls'[g].step = "saveCompany" => Serial)
    <3>1. reviewCalls'[g].step = "idle"
      BY <2>2, <2>3 DEF Serial, V!Idle
    <3> QED
      BY <3>1 DEF ReviewCallOK
  <2> QED
    BY <2>5, <2>6 DEF VerificationInv, Serial
<1> QED
  BY <1>2, <1>3, <1>4

LEMMA ActivateKept ==
    ASSUME VerificationInv, NEW h \in Handlers, V!Activate(h)
    PROVE  VerificationInv'
<1> DEFINE call == [reviewCalls[h] EXCEPT !.step = "save"]
<1>1. /\ reviewCalls \in [Handlers -> V!Call] /\ reviewCalls[h] \in V!Call
      /\ ReviewCallOK(reviewCalls[h])
      /\ reviewCalls[h].step = "activate" /\ company \in V!Company
      /\ UNCHANGED <<verifications, reviewLost>>
  BY DEF V!Activate, VerificationInv, V!TypeOK
<1>2. call \in V!Call /\ reviewCalls' = [reviewCalls EXCEPT ![h] = call]
  BY <1>1 DEF V!Call, V!Activate
<1>3. /\ reviewCalls' \in [Handlers -> V!Call] /\ reviewCalls'[h] = call
      /\ \A g \in Handlers \ {h} : reviewCalls'[g] = reviewCalls[g]
  BY <1>1, <1>2
<1>4. company' \in V!Company /\ company'.status = "active"
  BY <1>1 DEF V!Activate, V!Company, V!CompanyStatuses
<1>5. V!TypeOK'
  BY <1>1, <1>3, <1>4 DEF VerificationInv, V!TypeOK
<1>6. Activated'
  BY <1>4 DEF Activated, V!ApprovalActivates
<1>7. reviewCalls'[h].step = "save" /\ ReviewCallOK(reviewCalls[h])'
  <2>1. /\ reviewCalls'[h].step = "save" /\ reviewCalls'[h].id = reviewCalls[h].id
        /\ reviewCalls'[h].row = reviewCalls[h].row
    BY <1>1, <1>3 DEF V!Call
  <2> QED
    BY <1>1, <1>4, <2>1 DEF ReviewCallOK
<1>8. ASSUME NEW g \in Handlers \ {h}
      PROVE  ReviewCallOK(reviewCalls[g])' /\ (reviewCalls'[g].step = "saveCompany" => Serial)
  <2>1. /\ ReviewCallOK(reviewCalls[g]) /\ reviewCalls'[g] = reviewCalls[g]
        /\ reviewCalls[g].step = "saveCompany" => Serial
    BY <1>3 DEF VerificationInv
  <2>2. reviewCalls[g].step # "saveCompany"
    BY <2>1 DEF Serial
  <2> QED
    BY <1>4, <2>1, <2>2 DEF ReviewCallOK
<1> QED
  BY <1>5, <1>6, <1>7, <1>8 DEF VerificationInv, Serial

LEMMA SaveReviewKept ==
    ASSUME VerificationConstants, VerificationInv, NEW h \in Handlers, V!Save(h)
    PROVE  VerificationInv'
<1>1. /\ reviewCalls \in [Handlers -> V!Call] /\ ReviewCallOK(reviewCalls[h])
      /\ reviewCalls[h].step = "save"
      /\ verifications \in [Ids -> V!VerificationRow \cup {Null}]
      /\ reviewCalls' = [reviewCalls EXCEPT ![h] = V!Idle] /\ V!Idle \in V!Call
      /\ V!Idle.step = "idle"
      /\ UNCHANGED <<company, reviewLost>>
  BY DEF V!Save, V!End, V!Idle, V!Call, VerificationInv, V!TypeOK
<1>2. /\ reviewCalls[h].id \in Ids /\ reviewCalls[h].row \in V!VerificationRow
      /\ reviewCalls[h].row.status = "approved" => company.status = "active"
  BY <1>1 DEF ReviewCallOK
<1>3. /\ reviewCalls' \in [Handlers -> V!Call] /\ reviewCalls'[h].step = "idle"
      /\ \A g \in Handlers \ {h} : reviewCalls'[g] = reviewCalls[g]
  BY <1>1
<1>4. /\ verifications' \in [Ids -> V!VerificationRow \cup {Null}]
      /\ verifications'[reviewCalls[h].id] = reviewCalls[h].row
      /\ \A i \in Ids : i # reviewCalls[h].id => verifications'[i] = verifications[i]
  BY <1>1, <1>2 DEF V!Save
<1>5. V!TypeOK'
  BY <1>1, <1>3, <1>4 DEF VerificationInv, V!TypeOK
<1>6. Activated'
  BY <1>1, <1>2, <1>4 DEF VerificationInv, Activated, V!ApprovalActivates, V!Approved, V!Existing
<1>7. ASSUME NEW g \in Handlers
      PROVE  ReviewCallOK(reviewCalls[g])' /\ (reviewCalls'[g].step = "saveCompany" => Serial)
  BY <1>1, <1>3 DEF VerificationInv, ReviewCallOK
<1> QED
  BY <1>5, <1>6, <1>7 DEF VerificationInv, Serial

\* What is written of the company keeps its status.
LEMMA CompanyStatusKept ==
    ASSUME VerificationInv, NEW h \in Handlers, V!End(h),
           company' \in V!Company, UNCHANGED <<company.status, verifications, reviewLost>>
    PROVE  VerificationInv'
<1>1. /\ reviewCalls \in [Handlers -> V!Call]
      /\ reviewCalls' = [reviewCalls EXCEPT ![h] = V!Idle] /\ V!Idle \in V!Call
      /\ V!Idle.step = "idle"
  BY DEF V!End, V!Idle, V!Call, VerificationInv, V!TypeOK
<1>2. /\ reviewCalls' \in [Handlers -> V!Call] /\ reviewCalls'[h].step = "idle"
      /\ \A g \in Handlers \ {h} : reviewCalls'[g] = reviewCalls[g]
  BY <1>1
<1>3. V!TypeOK' /\ Activated'
  BY <1>2 DEF VerificationInv, V!TypeOK, Activated, V!ApprovalActivates, V!Approved, V!Existing
<1>4. ASSUME NEW g \in Handlers
      PROVE  ReviewCallOK(reviewCalls[g])' /\ (reviewCalls'[g].step = "saveCompany" => Serial)
  BY <1>2 DEF VerificationInv, ReviewCallOK, Serial
<1> QED
  BY <1>3, <1>4 DEF VerificationInv, Serial

LEMMA CompanyStepsKept ==
    ASSUME VerificationInv, NEW h \in Handlers, V!SaveCompany(h) \/ V!SoftRemoveCompany(h)
    PROVE  VerificationInv'
<1>1. /\ company \in V!Company /\ ReviewCallOK(reviewCalls[h])
      /\ V!End(h) /\ UNCHANGED <<verifications, reviewLost>>
  BY DEF V!SaveCompany, V!SoftRemoveCompany, VerificationInv, V!TypeOK
<1>2. company' \in V!Company /\ company'.status = company.status
  <2>1. CASE V!SaveCompany(h)
    BY <1>1, <2>1 DEF V!SaveCompany, ReviewCallOK
  <2>2. CASE V!SoftRemoveCompany(h)
    BY <1>1, <2>2 DEF V!SoftRemoveCompany, V!Company
  <2> QED
    BY <2>1, <2>2
<1> QED
  BY <1>1, <1>2, CompanyStatusKept

LEMMA ExpireKept ==
    ASSUME VerificationInv, NEW i \in Ids, V!Expire(i)
    PROVE  VerificationInv'
<1>1. /\ verifications \in [Ids -> V!VerificationRow \cup {Null}]
      /\ verifications[i] \in V!VerificationRow /\ verifications[i].status = "approved"
      /\ UNCHANGED <<company, reviewCalls, reviewLost>>
  BY DEF V!Expire, V!Existing, VerificationInv, V!TypeOK
<1>2. [verifications[i] EXCEPT !.valid = FALSE] \in V!VerificationRow
  BY <1>1 DEF V!VerificationRow
<1>3. verifications' = [verifications EXCEPT ![i] = [verifications[i] EXCEPT !.valid = FALSE]]
  BY <1>1 DEF V!Expire
<1>4. /\ verifications' \in [Ids -> V!VerificationRow \cup {Null}]
      /\ \A j \in Ids : j # i => verifications'[j] = verifications[j]
  BY <1>1, <1>2, <1>3
<1>5. V!TypeOK'
  BY <1>1, <1>4 DEF VerificationInv, V!TypeOK
<1>6. V!ApprovalActivates => company.status = "active"
  BY <1>1 DEF V!ApprovalActivates, V!Approved, V!Existing, V!Expire
<1>7. Activated'
  BY <1>1, <1>6 DEF VerificationInv, Activated, V!ApprovalActivates
<1>8. \A h \in Handlers : ReviewCallOK(reviewCalls[h])'
      /\ (reviewCalls'[h].step = "saveCompany" => Serial)
  BY <1>1 DEF VerificationInv, ReviewCallOK
<1> QED
  BY <1>5, <1>7, <1>8 DEF VerificationInv, Serial

LEMMA VerificationStep ==
    ASSUME VerificationConstants, NoStaleCompany, VerificationInv, [V!Next]_(V!vars)
    PROVE  VerificationInv'
<1>1. CASE UNCHANGED V!vars
  BY <1>1 DEF V!vars, VerificationInv, V!TypeOK, Activated, V!ApprovalActivates, V!Approved, V!Existing,
              ReviewCallOK, Serial
<1>2. ASSUME NEW h \in Handlers, NEW i \in Ids,
             \/ \E tier \in V!TierCodes : V!Create(h, i, tier)
             \/ V!Submit(h, i)
             \/ \E decision \in {"approved", "rejected"} : V!Review(h, i, decision)
      PROVE  VerificationInv'
  BY <1>2, ReviewRequestsKept
<1>3. ASSUME NEW h \in Handlers,
             \/ \E service \in V!ServiceTypes : V!UpdateCompany(h, service)
             \/ \E status \in V!CompanyStatuses : V!UpdateCompanyByAdmin(h, status)
             \/ V!RemoveCompany(h)
      PROVE  VerificationInv'
  BY <1>3, CompanyRequestsKept
<1>4. ASSUME NEW h \in Handlers,
             V!Activate(h) \/ V!Save(h) \/ V!SaveCompany(h) \/ V!SoftRemoveCompany(h)
      PROVE  VerificationInv'
  BY <1>4, ActivateKept, SaveReviewKept, CompanyStepsKept
<1>5. ASSUME NEW h \in Handlers, V!Crash(h)
      PROVE  VerificationInv'
  <2>1. reviewLost' \in 0 .. MaxLost
    BY <1>5 DEF V!Crash, VerificationInv, V!TypeOK, VerificationConstants
  <2> QED
    BY <1>5, <2>1, ReviewEnd DEF V!Crash
<1>6. ASSUME NEW i \in Ids, V!Expire(i)
      PROVE  VerificationInv'
  BY <1>6, ExpireKept
<1> QED
  BY <1>1, <1>2, <1>3, <1>4, <1>5, <1>6 DEF V!Next

LEMMA VerificationInductive ==
    ASSUME VerificationConstants, NoStaleCompany
    PROVE  V!Spec => []VerificationInv
<1>1. V!Init => VerificationInv
  BY VerificationInit
<1>2. VerificationInv /\ [V!Next]_(V!vars) => VerificationInv'
  BY VerificationStep
<1> QED
  BY <1>1, <1>2, PTL DEF V!Spec

\* A company with an approved verification is active, whatever reviews overlap and
\* wherever the process dies, unless an administrator writes the status (review); where
\* calls overlap, nobody edits the company either, which would save its status as it was.
THEOREM ApprovalStaysActive ==
    ASSUME VerificationConstants, NoStaleCompany
    PROVE  V!Spec => [](V!TypeOK /\ ("admin" \in ReviewRequests \/ V!ApprovalActivates))
<1>1. VerificationInv => V!TypeOK /\ ("admin" \in ReviewRequests \/ V!ApprovalActivates)
  BY DEF VerificationInv, Activated
<1> QED
  BY <1>1, VerificationInductive, PTL

-----------------------------------------------------------------------------
\* Reviews one after the other decide each verification once.

\* The stage of a verification row in the abstract workflow.
ReviewStage(row) ==
    IF row = Null THEN "none"
    ELSE CASE row.status \in {"pending", "in_review"} -> "open"
           [] row.status = "approved" -> "granted"
           [] row.status = "rejected" -> "refused"

LEMMA ReviewingInit ==
    ASSUME VerificationConstants, V!Init
    PROVE  ReviewingInv /\ V!Abstract!Init
<1>1. ReviewingInv
  BY VerificationInit DEF ReviewingInv
<1>2. V!Abstract!Init
  BY DEF V!Init, V!Stage, V!Abstract!Init
<1> QED
  BY <1>1, <1>2

\* A step that leaves the verifications alone decides nothing.
LEMMA NothingDecided ==
    ASSUME Serial, ReviewingInv, VerificationInv', NEW h \in Handlers, UNCHANGED verifications,
           Reviewing(reviewCalls[h])'
    PROVE  ReviewingInv' /\ [V!Abstract!Next]_(V!Stage)
<1>1. \A g \in Handlers : Reviewing(reviewCalls[g])'
  BY DEF Serial
<1>2. UNCHANGED V!Stage
  BY DEF V!Stage
<1> QED
  BY <1>1, <1>2 DEF ReviewingInv

LEMMA ReviewDecides ==
    ASSUME VerificationConstants, Serial, ReviewingInv, VerificationInv',
           NEW h \in Handlers, V!Save(h)
    PROVE  ReviewingInv' /\ [V!Abstract!Next]_(V!Stage)
<1>1. /\ ReviewCallOK(reviewCalls[h]) /\ reviewCalls[h].step = "save" /\ Reviewing(reviewCalls[h])
      /\ verifications \in [Ids -> V!VerificationRow \cup {Null}]
      /\ reviewCalls \in [Handlers -> V!Call] /\ reviewCalls' = [reviewCalls EXCEPT ![h] = V!Idle]
  BY DEF V!Save, V!End, ReviewingInv, VerificationInv, V!TypeOK
<1> PICK i \in Ids : reviewCalls[h].id = i
  BY <1>1 DEF ReviewCallOK
<1> PICK row \in V!VerificationRow : reviewCalls[h].row = row
  BY <1>1 DEF ReviewCallOK
<1>2. /\ verifications'[i] = row /\ row # Null
      /\ \A j \in Ids : j # i => verifications'[j] = verifications[j]
  BY <1>1 DEF V!Save, VerificationConstants
<1>3. reviewCalls'[h].step = "idle"
  BY <1>1 DEF V!Idle
<1>4. ReviewingInv'
  <2>1. \A g \in Handlers : Reviewing(reviewCalls[g])'
    BY <1>3 DEF Serial, Reviewing
  <2> QED
    BY <2>1 DEF ReviewingInv
<1>5. V!Stage = [j \in Ids |-> ReviewStage(verifications[j])]
  BY DEF V!Stage, ReviewStage
<1>6. (V!Stage)' = [j \in Ids |-> ReviewStage(verifications'[j])]
  BY DEF V!Stage, ReviewStage
<1>7. (V!Stage)' = [V!Stage EXCEPT ![i] = ReviewStage(row)]
  BY <1>2, <1>5, <1>6
<1>8. V!Stage[i] = ReviewStage(verifications[i])
  BY <1>5
<1>9. CASE ReviewStage(row) = ReviewStage(verifications[i])
  <2>1. UNCHANGED V!Stage
    BY <1>5, <1>7, <1>8, <1>9
  <2> QED
    BY <1>4, <2>1
<1>10. CASE ReviewStage(row) # ReviewStage(verifications[i])
  <2>1. <<ReviewStage(verifications[i]), ReviewStage(row)>> \in V!Abstract!Moves
    <3>1. CASE verifications[i] = Null
      <4>1. row.status = "pending"
        BY <1>1, <3>1 DEF Reviewing
      <4> QED
        BY <1>2, <3>1, <4>1 DEF ReviewStage, V!Abstract!Moves
    <3>2. CASE verifications[i] # Null
      <4>1. /\ verifications[i].status \in {"pending", "in_review"}
            /\ row.status \in {"pending", "in_review", "approved", "rejected"}
        BY <1>1, <3>2 DEF Reviewing, V!VerificationRow
      <4> QED
        BY <1>2, <1>10, <3>2, <4>1 DEF ReviewStage, V!Abstract!Moves
    <3> QED
      BY <3>1, <3>2
  <2>2. ReviewStage(row) \in V!Abstract!Stages
    BY <2>1 DEF V!Abstract!Moves, V!Abstract!Stages
  <2>3. V!Abstract!Move(i, ReviewStage(row))
    BY <1>7, <1>8, <2>1 DEF V!Abstract!Move
  <2> QED
    BY <1>4, <2>2, <2>3 DEF V!Abstract!Next
<1> QED
  BY <1>9, <1>10

LEMMA ReviewRequestsReview ==
    ASSUME VerificationConstants, Serial, ReviewingInv, VerificationInv', NEW h \in Handlers,
           NEW i \in Ids,
           \/ \E tier \in V!TierCodes : V!Create(h, i, tier)
           \/ V!Submit(h, i)
           \/ \E decision \in {"approved", "rejected"} : V!Review(h, i, decision)
    PROVE  ReviewingInv' /\ [V!Abstract!Next]_(V!Stage)
<1>1. /\ reviewCalls \in [Handlers -> V!Call]
      /\ verifications \in [Ids -> V!VerificationRow \cup {Null}]
  BY DEF ReviewingInv, VerificationInv, V!TypeOK
<1>2. CASE \E tier \in V!TierCodes : V!Create(h, i, tier)
  <2>1. /\ verifications[i] = Null /\ UNCHANGED verifications
        /\ reviewCalls'[h].id = i /\ reviewCalls'[h].row.status = "pending"
    BY <1>1, <1>2 DEF V!Create, V!Hold
  <2>2. Reviewing(reviewCalls[h])'
    BY <2>1 DEF Reviewing
  <2> QED
    BY <2>1, <2>2, NothingDecided
<1>3. CASE V!Submit(h, i)
  <2>1. /\ verifications[i] # Null /\ verifications[i] \in V!VerificationRow
        /\ verifications[i].status = "pending" /\ UNCHANGED verifications
        /\ reviewCalls'[h].id = i
        /\ reviewCalls'[h].row = [verifications[i] EXCEPT !.status = "in_review"]
    BY <1>1, <1>3 DEF V!Submit, V!Hold, V!Existing
  <2>2. reviewCalls'[h].row.status = "in_review"
    BY <2>1 DEF V!VerificationRow
  <2>3. Reviewing(reviewCalls[h])'
    BY <2>1, <2>2 DEF Reviewing
  <2> QED
    BY <2>1, <2>3, NothingDecided
<1>4. CASE \E decision \in {"approved", "rejected"} : V!Review(h, i, decision)
  <2>1. PICK decision \in {"approved", "rejected"} : V!Review(h, i, decision)
    BY <1>4
  <2>2. /\ verifications[i] # Null /\ verifications[i] \in V!VerificationRow
        /\ verifications[i].status = "in_review" /\ UNCHANGED verifications
        /\ reviewCalls'[h].id = i
        /\ reviewCalls'[h].row = [verifications[i] EXCEPT !.status = decision, !.valid = TRUE]
    BY <1>1, <2>1 DEF V!Review, V!Hold, V!Existing
  <2>3. reviewCalls'[h].row.status = decision
    BY <2>2 DEF V!VerificationRow
  <2>4. Reviewing(reviewCalls[h])'
    BY <2>2, <2>3 DEF Reviewing
  <2> QED
    BY <2>2, <2>4, NothingDecided
<1> QED
  BY <1>2, <1>3, <1>4

\* The other calls, which do not write a verification.
LEMMA OtherCallsReview ==
    ASSUME VerificationConstants, Serial, ReviewingInv, VerificationInv', NEW h \in Handlers,
           \/ \E service \in V!ServiceTypes : V!UpdateCompany(h, service)
           \/ \E status \in V!CompanyStatuses : V!UpdateCompanyByAdmin(h, status)
           \/ V!RemoveCompany(h) \/ V!Activate(h) \/ V!SaveCompany(h)
           \/ V!SoftRemoveCompany(h) \/ V!Crash(h)
    PROVE  ReviewingInv' /\ [V!Abstract!Next]_(V!Stage)
<1>1. reviewCalls \in [Handlers -> V!Call] /\ Reviewing(reviewCalls[h])
  BY DEF ReviewingInv, VerificationInv, V!TypeOK
<1>2. UNCHANGED verifications
  BY DEF V!UpdateCompany, V!UpdateCompanyByAdmin, V!RemoveCompany, V!Activate,
         V!SaveCompany, V!SoftRemoveCompany, V!Crash, V!Hold
<1>3. CASE V!Activate(h)
  <2>1. /\ reviewCalls[h].step = "activate"
        /\ reviewCalls'[h].id = reviewCalls[h].id /\ reviewCalls'[h].row = reviewCalls[h].row
    BY <1>1, <1>3 DEF V!Activate, V!Call
  <2>2. Reviewing(reviewCalls[h])'
    BY <1>1, <1>2, <2>1 DEF Reviewing
  <2> QED
    BY <1>2, <2>2, NothingDecided
<1>4. CASE \/ \E service \in V!ServiceTypes : V!UpdateCompany(h, service)
           \/ V!RemoveCompany(h) \/ V!SaveCompany(h) \/ V!SoftRemoveCompany(h) \/ V!Crash(h)
  <2>1. reviewCalls'[h].step \notin {"activate", "save"}
    BY <1>1, <1>4 DEF V!UpdateCompany, V!RemoveCompany, V!SaveCompany, V!SoftRemoveCompany,
                      V!Crash, V!Hold, V!End, V!Idle
  <2>2. Reviewing(reviewCalls[h])'
    BY <2>1 DEF Reviewing
  <2> QED
    BY <1>2, <2>2, NothingDecided
<1>5. CASE \E status \in V!CompanyStatuses : V!UpdateCompanyByAdmin(h, status)
  <2>1. reviewCalls' = reviewCalls
    BY <1>5 DEF V!UpdateCompanyByAdmin
  <2>2. Reviewing(reviewCalls[h])'
    BY <1>1, <1>2, <2>1 DEF Reviewing
  <2> QED
    BY <1>2, <2>2, NothingDecided
<1> QED
  BY <1>3, <1>4, <1>5

\* An approval that expires was granted and stays so, and is not under review.
LEMMA ExpiryDecidesNothing ==
    ASSUME VerificationConstants, Serial, ReviewingInv, VerificationInv',
           NEW i \in Ids, V!Expire(i)
    PROVE  ReviewingInv' /\ [V!Abstract!Next]_(V!Stage)
<1>1. /\ verifications \in [Ids -> V!VerificationRow \cup {Null}]
      /\ verifications[i] \in V!VerificationRow /\ verifications[i].status = "approved"
      /\ verifications' = [verifications EXCEPT ![i].valid = FALSE]
      /\ UNCHANGED reviewCalls
  BY DEF V!Expire, V!Existing, ReviewingInv, VerificationInv, V!TypeOK
<1>2. /\ verifications'[i] = [verifications[i] EXCEPT !.valid = FALSE]
      /\ \A j \in Ids : j # i => verifications'[j] = verifications[j]
  BY <1>1
<1>3. /\ verifications'[i] \in V!VerificationRow /\ verifications'[i].status = "approved"
  BY <1>1, <1>2 DEF V!VerificationRow
<1>4. /\ V!Stage = [j \in Ids |-> ReviewStage(verifications[j])]
      /\ (V!Stage)' = [j \in Ids |-> ReviewStage(verifications'[j])]
  BY DEF V!Stage, ReviewStage
<1>5. verifications[i] # Null /\ verifications'[i] # Null
  BY <1>1, <1>3 DEF VerificationConstants
<1>6. ReviewStage(verifications'[i]) = ReviewStage(verifications[i])
  BY <1>1, <1>3, <1>5 DEF ReviewStage
<1>7. UNCHANGED V!Stage
  BY <1>2, <1>4, <1>6
<1>8. ASSUME NEW h \in Handlers
      PROVE  Reviewing(reviewCalls[h])'
  <2>1. Reviewing(reviewCalls[h]) /\ ReviewCallOK(reviewCalls[h]) /\ reviewCalls' = reviewCalls
    BY <1>1 DEF ReviewingInv, VerificationInv
  <2>2. CASE reviewCalls[h].step \in {"activate", "save"}
    <3>1. reviewCalls[h].id \in Ids /\ reviewCalls[h].id # i
      BY <1>1, <1>5, <2>1, <2>2 DEF Reviewing, ReviewCallOK
    <3>2. verifications'[reviewCalls[h].id] = verifications[reviewCalls[h].id]
      BY <1>2, <3>1
    <3> QED
      BY <2>1, <2>2, <3>2 DEF Reviewing
  <2>3. CASE reviewCalls[h].step \notin {"activate", "save"}
    BY <2>1, <2>3 DEF Reviewing
  <2> QED
    BY <2>2, <2>3
<1> QED
  BY <1>7, <1>8 DEF ReviewingInv

LEMMA ReviewingStep ==
    ASSUME VerificationConstants, Serial, ReviewingInv, [V!Next]_(V!vars)
    PROVE  ReviewingInv' /\ [V!Abstract!Next]_(V!Stage)
<1>1. VerificationInv'
  BY VerificationStep DEF ReviewingInv, NoStaleCompany
<1>2. CASE UNCHANGED V!vars
  BY <1>1, <1>2 DEF V!vars, ReviewingInv, Reviewing, V!Stage
<1>3. ASSUME NEW h \in Handlers, NEW i \in Ids,
             \/ \E tier \in V!TierCodes : V!Create(h, i, tier)
             \/ V!Submit(h, i)
             \/ \E decision \in {"approved", "rejected"} : V!Review(h, i, decision)
      PROVE  ReviewingInv' /\ [V!Abstract!Next]_(V!Stage)
  BY <1>1, <1>3, ReviewRequestsReview
<1>4. ASSUME NEW h \in Handlers,
             \/ \E service \in V!ServiceTypes : V!UpdateCompany(h, service)
             \/ \E status \in V!CompanyStatuses : V!UpdateCompanyByAdmin(h, status)
             \/ V!RemoveCompany(h) \/ V!Activate(h) \/ V!SaveCompany(h)
             \/ V!SoftRemoveCompany(h) \/ V!Crash(h)
      PROVE  ReviewingInv' /\ [V!Abstract!Next]_(V!Stage)
  BY <1>1, <1>4, OtherCallsReview
<1>5. ASSUME NEW h \in Handlers, V!Save(h)
      PROVE  ReviewingInv' /\ [V!Abstract!Next]_(V!Stage)
  BY <1>1, <1>5, ReviewDecides
<1>6. ASSUME NEW i \in Ids, V!Expire(i)
      PROVE  ReviewingInv' /\ [V!Abstract!Next]_(V!Stage)
  BY <1>1, <1>6, ExpiryDecidesNothing
<1> QED
  BY <1>2, <1>3, <1>4, <1>5, <1>6 DEF V!Next

\* Reviews one after the other implement the workflow of a decision: a verification
\* is decided once, from under review, and never taken back (VerificationsService).
THEOREM SerialReviewsDecideOnce ==
    ASSUME VerificationConstants, Serial
    PROVE  V!Spec => V!RefinesDecisions
<1>1. V!Init => ReviewingInv /\ V!Abstract!Init
  BY ReviewingInit
<1>2. ReviewingInv /\ [V!Next]_(V!vars) => ReviewingInv' /\ [V!Abstract!Next]_(V!Stage)
  BY ReviewingStep
<1> QED
  BY <1>1, <1>2, PTL DEF V!Spec, V!RefinesDecisions, V!Abstract!Spec

\* A step that writes no verification, and of the company neither its service nor that it
\* is gone, changes nobody's right.
LEMMA RightStays ==
    ASSUME UNCHANGED verifications,
           company'.service = company.service, company'.gone = company.gone
    PROVE  V!OperatesWithCause
<1>1. (V!CanOperate)' <=> V!CanOperate
  BY DEF V!CanOperate, V!RequiredTier, V!HasApprovedTier, V!Approved, V!Existing
<1> QED
  BY <1>1 DEF V!OperatesWithCause

\* A verification that is saved was not approved before; if it is now, its company has
\* been activated.
LEMMA ReviewGivesTheRight ==
    ASSUME VerificationConstants, Serial, ReviewingInv, NEW h \in Handlers, V!Save(h)
    PROVE  V!OperatesWithCause
<1>1. /\ ReviewCallOK(reviewCalls[h]) /\ reviewCalls[h].step = "save" /\ Reviewing(reviewCalls[h])
      /\ verifications \in [Ids -> V!VerificationRow \cup {Null}] /\ UNCHANGED company
  BY DEF V!Save, ReviewingInv, VerificationInv, V!TypeOK
<1> PICK i \in Ids : reviewCalls[h].id = i
  BY <1>1 DEF ReviewCallOK
<1> PICK row \in V!VerificationRow : reviewCalls[h].row = row
  BY <1>1 DEF ReviewCallOK
<1>2. /\ verifications'[i] = row
      /\ \A j \in Ids : j # i => verifications'[j] = verifications[j]
  BY <1>1 DEF V!Save
<1>3. verifications[i] = Null \/ verifications[i].status # "approved"
  BY <1>1 DEF Reviewing
<1>4. row.status = "approved" => company.status = "active"
  BY <1>1 DEF ReviewCallOK
<1>5. V!RequiredTier' = V!RequiredTier
  BY <1>1 DEF V!RequiredTier
<1>6. ASSUME NEW code, V!HasApprovedTier(code) PROVE V!HasApprovedTier(code)'
  <2>1. PICK j \in V!Approved : verifications[j].valid /\ verifications[j].tier = code
    BY <1>6 DEF V!HasApprovedTier
  <2>2. j \in Ids /\ j # i /\ verifications'[j] = verifications[j]
    BY <1>2, <1>3, <2>1 DEF V!Approved, V!Existing
  <2>3. j \in (V!Approved)'
    BY <2>1, <2>2 DEF V!Approved, V!Existing
  <2> QED
    BY <2>1, <2>2, <2>3 DEF V!HasApprovedTier
<1>7. ASSUME NEW code, V!HasApprovedTier(code)', company.status # "active"
      PROVE  V!HasApprovedTier(code)
  <2>1. PICK j \in (V!Approved)' : verifications'[j].valid /\ verifications'[j].tier = code
    BY <1>7 DEF V!HasApprovedTier
  <2>2. j \in Ids /\ verifications'[j].status = "approved" /\ verifications'[j] # Null
    BY <2>1 DEF V!Approved, V!Existing
  <2>3. j # i /\ verifications'[j] = verifications[j]
    BY <1>2, <1>4, <1>7, <2>2
  <2>4. j \in V!Approved
    BY <2>2, <2>3 DEF V!Approved, V!Existing
  <2> QED
    BY <2>1, <2>3, <2>4 DEF V!HasApprovedTier
<1>8. V!CanOperate => (V!CanOperate)'
  BY <1>1, <1>5, <1>6 DEF V!CanOperate
<1>9. (V!CanOperate)' /\ company.status # "active" => V!CanOperate
  BY <1>1, <1>5, <1>7 DEF V!CanOperate
<1> QED
  BY <1>8, <1>9 DEF V!OperatesWithCause

\* An approval that expires takes the right that it gave.
LEMMA ExpiryTakesTheRight ==
    ASSUME ReviewingInv, NEW i \in Ids, V!Expire(i)
    PROVE  V!OperatesWithCause
<1>1. /\ verifications \in [Ids -> V!VerificationRow \cup {Null}]
      /\ i \in V!Approved /\ verifications[i] \in V!VerificationRow /\ verifications[i].valid = TRUE
      /\ verifications' = [verifications EXCEPT ![i].valid = FALSE] /\ UNCHANGED company
  BY DEF V!Expire, V!Existing, V!Approved, ReviewingInv, VerificationInv, V!TypeOK, V!VerificationRow
<1>2. /\ i \in Ids /\ verifications'[i] = [verifications[i] EXCEPT !.valid = FALSE]
      /\ \A j \in Ids : j # i => verifications'[j] = verifications[j]
  BY <1>1
<1>3. verifications'[i].valid = FALSE
  BY <1>1, <1>2 DEF V!VerificationRow
<1>4. \E j \in V!Approved : verifications[j].valid # verifications'[j].valid
  BY <1>1, <1>3
<1>5. V!RequiredTier' = V!RequiredTier
  BY <1>1 DEF V!RequiredTier
<1>6. ASSUME NEW code, V!HasApprovedTier(code)' PROVE V!HasApprovedTier(code)
  <2>1. PICK j \in (V!Approved)' : verifications'[j].valid /\ verifications'[j].tier = code
    BY <1>6 DEF V!HasApprovedTier
  <2>2. j \in Ids /\ verifications'[j].status = "approved" /\ verifications'[j] # Null
    BY <2>1 DEF V!Approved, V!Existing
  <2>3. j # i /\ verifications'[j] = verifications[j]
    BY <1>2, <1>3, <2>1, <2>2
  <2>4. j \in V!Approved
    BY <2>2, <2>3 DEF V!Approved, V!Existing
  <2> QED
    BY <2>1, <2>3, <2>4 DEF V!HasApprovedTier
<1>7. (V!CanOperate)' => V!CanOperate
  BY <1>1, <1>5, <1>6 DEF V!CanOperate
<1> QED
  BY <1>4, <1>7 DEF V!OperatesWithCause

LEMMA OperatingStep ==
    ASSUME VerificationConstants, Serial, ReviewingInv, [V!Next]_(V!vars)
    PROVE  V!OperatesWithCause
<1>1. /\ company \in V!Company /\ reviewCalls \in [Handlers -> V!Call]
      /\ \A h \in Handlers : ReviewCallOK(reviewCalls[h])
  BY DEF ReviewingInv, VerificationInv, V!TypeOK
<1>2. CASE UNCHANGED V!vars
  BY <1>2, RightStays DEF V!vars
<1>3. ASSUME NEW h \in Handlers, NEW i \in Ids,
             \/ \E tier \in V!TierCodes : V!Create(h, i, tier)
             \/ V!Submit(h, i)
             \/ \E decision \in {"approved", "rejected"} : V!Review(h, i, decision)
      PROVE  V!OperatesWithCause
  <2>1. UNCHANGED <<company, verifications>>
    BY <1>3 DEF V!Create, V!Submit, V!Review, V!Hold
  <2> QED
    BY <2>1, RightStays
<1>4. ASSUME NEW h \in Handlers,
             \/ \E service \in V!ServiceTypes : V!UpdateCompany(h, service)
             \/ V!RemoveCompany(h) \/ V!Crash(h)
      PROVE  V!OperatesWithCause
  <2>1. UNCHANGED <<company, verifications>>
    BY <1>4 DEF V!UpdateCompany, V!RemoveCompany, V!Crash, V!Hold
  <2> QED
    BY <2>1, RightStays
<1>5. ASSUME NEW h \in Handlers,
             \/ V!Activate(h)
             \/ \E status \in V!CompanyStatuses : V!UpdateCompanyByAdmin(h, status)
      PROVE  V!OperatesWithCause
  <2>1. UNCHANGED verifications /\ \E status : company' = [company EXCEPT !.status = status]
    BY <1>5 DEF V!Activate, V!UpdateCompanyByAdmin
  <2>2. company'.service = company.service /\ company'.gone = company.gone
    BY <1>1, <2>1 DEF V!Company
  <2> QED
    BY <2>1, <2>2, RightStays
<1>6. ASSUME NEW h \in Handlers, V!SaveCompany(h)
      PROVE  V!OperatesWithCause
  <2>1. UNCHANGED verifications /\ company'.gone = company.gone
    BY <1>1, <1>6 DEF V!SaveCompany, ReviewCallOK
  <2>2. CASE company'.service = company.service
    BY <2>1, <2>2, RightStays
  <2>3. CASE company'.service # company.service
    BY <2>3 DEF V!OperatesWithCause
  <2> QED
    BY <2>2, <2>3
<1>7. ASSUME NEW h \in Handlers, V!SoftRemoveCompany(h)
      PROVE  V!OperatesWithCause
  <2>1. company'.gone = TRUE
    BY <1>1, <1>7 DEF V!SoftRemoveCompany, V!Company
  <2> QED
    BY <2>1 DEF V!OperatesWithCause, V!CanOperate
<1> QED
  BY <1>2, <1>3, <1>4, <1>5, <1>6, <1>7, ReviewGivesTheRight, ExpiryTakesTheRight DEF V!Next

\* Requests one after the other: the right to operate ends with time, with a removal or
\* with a new kind of service, never with a review; it is gained with the kind of service
\* or by an approval of a company that is active already (VerificationsService.review,
\* ComplianceService.getCompanyCompliance), wherever a call dies.
THEOREM RightIsGivenWithCause ==
    ASSUME VerificationConstants, Serial
    PROVE  V!Spec => V!RightToOperate
<1>1. V!Init => ReviewingInv
  BY ReviewingInit
<1>2. ReviewingInv /\ [V!Next]_(V!vars) => ReviewingInv'
  BY ReviewingStep
<1>3. ReviewingInv /\ [V!Next]_(V!vars) => [V!OperatesWithCause]_(V!vars)
  BY OperatingStep
<1> QED
  BY <1>1, <1>2, <1>3, PTL DEF V!Spec, V!RightToOperate

-----------------------------------------------------------------------------
\* Expenses.

E == INSTANCE Expenses WITH
    calls <- expenseCalls, lost <- expenseLost

ExpensesConstants == Null \notin E!Row

\* What one request after the other saves follows from what is stored.
Claiming(call) ==
    /\ call.step # "idle" => call.id \in Ids /\ call.row \in E!Row
    /\ call.step = "insert" =>
          expenses[call.id] = Null /\ call.row.status = "pending" /\ ~call.row.gone
    /\ call.step \in {"save", "remove"} =>
          expenses[call.id] # Null /\ ~expenses[call.id].gone /\ ~call.row.gone
    /\ call.step = "save" =>
          \/ expenses[call.id].status = "pending"
                /\ call.row.status \in {"pending", "approved", "rejected"}
          \/ expenses[call.id].status = "approved" /\ call.row.status = "reimbursed"
    /\ call.step = "remove" => expenses[call.id].status # "reimbursed"

ExpensesInv ==
    /\ expenses \in [Ids -> E!Row \cup {Null}]
    /\ expenseCalls \in [Handlers -> E!Call]
    /\ \A h \in Handlers : Claiming(expenseCalls[h])

\* The stage of an expense in the abstract workflow.
ExpenseStage(row) ==
    IF row = Null THEN "none"
    ELSE IF row.gone THEN "withdrawn"
    ELSE CASE row.status = "pending" -> "open"
           [] row.status = "approved" -> "granted"
           [] row.status = "rejected" -> "refused"
           [] row.status = "reimbursed" -> "closed"

LEMMA ExpensesInit ==
    ASSUME E!Init
    PROVE  ExpensesInv /\ E!Abstract!Init
<1>1. E!Idle \in E!Call /\ E!Idle.step = "idle"
  BY DEF E!Idle, E!Call
<1>2. /\ expenseCalls \in [Handlers -> E!Call]
      /\ \A h \in Handlers : expenseCalls[h].step = "idle"
  BY <1>1 DEF E!Init
<1>3. ExpensesInv
  BY <1>2 DEF E!Init, ExpensesInv, Claiming
<1>4. E!Abstract!Init
  BY DEF E!Init, E!Stage, E!Abstract!Init
<1> QED
  BY <1>3, <1>4

\* A request that loads an expense, or a call that ends without writing one.
LEMMA NothingClaimed ==
    ASSUME Serial, ExpensesInv, NEW h \in Handlers, NEW call \in E!Call,
           expenseCalls' = [expenseCalls EXCEPT ![h] = call], UNCHANGED expenses, Claiming(call)
    PROVE  ExpensesInv' /\ [E!Abstract!Next]_(E!Stage)
<1>1. expenseCalls' \in [Handlers -> E!Call] /\ expenseCalls'[h] = call
  BY DEF ExpensesInv
<1>2. \A g \in Handlers : Claiming(expenseCalls[g])'
  BY <1>1 DEF Serial, Claiming
<1>3. UNCHANGED E!Stage
  BY DEF E!Stage
<1> QED
  BY <1>1, <1>2, <1>3 DEF ExpensesInv

\* A call that writes expense i and ends.
LEMMA ExpenseWritten ==
    ASSUME Serial, ExpensesInv, NEW h \in Handlers, NEW i \in Ids, NEW row \in E!Row,
           E!End(h), expenses' = [expenses EXCEPT ![i] = row],
           \/ ExpenseStage(row) = ExpenseStage(expenses[i])
           \/ <<ExpenseStage(expenses[i]), ExpenseStage(row)>> \in E!Abstract!Moves
    PROVE  ExpensesInv' /\ [E!Abstract!Next]_(E!Stage)
<1>1. E!Idle \in E!Call /\ E!Idle.step = "idle"
  BY DEF E!Idle, E!Call
<1>2. expenseCalls' \in [Handlers -> E!Call] /\ expenseCalls'[h].step = "idle"
  BY <1>1 DEF ExpensesInv, E!End
<1>3. \A g \in Handlers : Claiming(expenseCalls[g])'
  BY <1>2 DEF Serial, Claiming
<1>4. /\ expenses' \in [Ids -> E!Row \cup {Null}] /\ expenses'[i] = row
      /\ \A j \in Ids : j # i => expenses'[j] = expenses[j]
  BY DEF ExpensesInv
<1>5. ExpensesInv'
  BY <1>2, <1>3, <1>4 DEF ExpensesInv
<1>6. E!Stage = [j \in Ids |-> ExpenseStage(expenses[j])]
  BY DEF E!Stage, ExpenseStage
<1>7. (E!Stage)' = [j \in Ids |-> ExpenseStage(expenses'[j])]
  BY DEF E!Stage, ExpenseStage
<1>8. (E!Stage)' = [E!Stage EXCEPT ![i] = ExpenseStage(row)]
  BY <1>4, <1>6, <1>7
<1>9. E!Stage[i] = ExpenseStage(expenses[i])
  BY <1>6
<1>10. CASE ExpenseStage(row) = ExpenseStage(expenses[i])
  <2>1. UNCHANGED E!Stage
    BY <1>6, <1>8, <1>9, <1>10
  <2> QED
    BY <1>5, <2>1
<1>11. CASE <<ExpenseStage(expenses[i]), ExpenseStage(row)>> \in E!Abstract!Moves
  <2>1. ExpenseStage(row) \in E!Abstract!Stages
    BY <1>11 DEF E!Abstract!Moves, E!Abstract!Stages
  <2>2. E!Abstract!Move(i, ExpenseStage(row))
    BY <1>8, <1>9, <1>11 DEF E!Abstract!Move
  <2> QED
    BY <1>5, <2>1, <2>2 DEF E!Abstract!Next
<1> QED
  BY <1>10, <1>11

\* Requests, each of which holds the row that it will write.
LEMMA ExpenseHeld ==
    ASSUME Serial, ExpensesInv, NEW h \in Handlers, NEW step \in {"insert", "save", "remove"},
           NEW i \in Ids, NEW row \in E!Row, E!Hold(h, step, i, row),
           Claiming([step |-> step, id |-> i, row |-> row])
    PROVE  ExpensesInv' /\ [E!Abstract!Next]_(E!Stage)
<1> DEFINE call == [step |-> step, id |-> i, row |-> row]
<1>1. call \in E!Call
  BY DEF E!Call
<1>2. expenseCalls' = [expenseCalls EXCEPT ![h] = call] /\ UNCHANGED expenses
  BY DEF E!Hold
<1> HIDE DEF call
<1>3. Claiming(call)
  BY DEF call
<1> QED
  BY <1>1, <1>2, <1>3, NothingClaimed

LEMMA ExpenseRequests ==
    ASSUME ExpensesConstants, Serial, ExpensesInv, NEW h \in Handlers,
           NEW i \in Ids, NEW p \in People,
           \/ \E urgent \in BOOLEAN : E!Create(h, i, p, urgent) \/ E!Update(h, i, p, urgent)
           \/ \E decision \in {"approved", "rejected"} : E!Decide(h, i, p, decision)
           \/ E!Reimburse(h, i, p) \/ E!Remove(h, i, p)
    PROVE  ExpensesInv' /\ [E!Abstract!Next]_(E!Stage)
<1>1. expenses[i] \in E!Row \cup {Null}
  BY DEF ExpensesInv
<1>2. ASSUME NEW urgent \in BOOLEAN, E!Create(h, i, p, urgent)
      PROVE  ExpensesInv' /\ [E!Abstract!Next]_(E!Stage)
  <2> DEFINE row == [status |-> "pending", by |-> p, urgent |-> urgent, gone |-> FALSE]
  <2>1. row \in E!Row /\ row.status = "pending" /\ ~row.gone
    BY DEF E!Row, E!Statuses
  <2>2. E!Hold(h, "insert", i, row) /\ expenses[i] = Null
    BY <1>2 DEF E!Create
  <2> HIDE DEF row
  <2>3. Claiming([step |-> "insert", id |-> i, row |-> row])
    BY <2>1, <2>2 DEF Claiming
  <2> QED
    BY <2>1, <2>2, <2>3, ExpenseHeld
<1>3. ASSUME i \in E!Found
      PROVE  expenses[i] \in E!Row /\ expenses[i] # Null /\ ~expenses[i].gone
  BY <1>1, <1>3 DEF E!Found
<1>4. ASSUME NEW urgent \in BOOLEAN, E!Update(h, i, p, urgent)
      PROVE  ExpensesInv' /\ [E!Abstract!Next]_(E!Stage)
  <2> DEFINE row == [expenses[i] EXCEPT !.urgent = urgent]
  <2>1. i \in E!Found /\ expenses[i].status = "pending" /\ E!Hold(h, "save", i, row)
    BY <1>4 DEF E!Update
  <2>2. row \in E!Row /\ row.status = "pending" /\ ~row.gone
    BY <1>3, <2>1 DEF E!Row
  <2> HIDE DEF row
  <2>3. Claiming([step |-> "save", id |-> i, row |-> row])
    BY <1>3, <2>1, <2>2 DEF Claiming
  <2> QED
    BY <2>1, <2>2, <2>3, ExpenseHeld
<1>5. ASSUME NEW decision \in {"approved", "rejected"}, E!Decide(h, i, p, decision)
      PROVE  ExpensesInv' /\ [E!Abstract!Next]_(E!Stage)
  <2> DEFINE row == [expenses[i] EXCEPT !.status = decision]
  <2>1. i \in E!Found /\ expenses[i].status = "pending" /\ E!Hold(h, "save", i, row)
    BY <1>5 DEF E!Decide
  <2>2. row \in E!Row /\ row.status = decision /\ ~row.gone
    BY <1>3, <2>1 DEF E!Row, E!Statuses
  <2> HIDE DEF row
  <2>3. Claiming([step |-> "save", id |-> i, row |-> row])
    BY <1>3, <2>1, <2>2 DEF Claiming
  <2> QED
    BY <2>1, <2>2, <2>3, ExpenseHeld
<1>6. CASE E!Reimburse(h, i, p)
  <2> DEFINE row == [expenses[i] EXCEPT !.status = "reimbursed"]
  <2>1. i \in E!Found /\ expenses[i].status = "approved" /\ E!Hold(h, "save", i, row)
    BY <1>6 DEF E!Reimburse
  <2>2. row \in E!Row /\ row.status = "reimbursed" /\ ~row.gone
    BY <1>3, <2>1 DEF E!Row, E!Statuses
  <2> HIDE DEF row
  <2>3. Claiming([step |-> "save", id |-> i, row |-> row])
    BY <1>3, <2>1, <2>2 DEF Claiming
  <2> QED
    BY <2>1, <2>2, <2>3, ExpenseHeld
<1>7. CASE E!Remove(h, i, p)
  <2>1. /\ i \in E!Found /\ expenses[i].status # "reimbursed"
        /\ E!Hold(h, "remove", i, expenses[i])
    BY <1>7 DEF E!Remove
  <2>2. Claiming([step |-> "remove", id |-> i, row |-> expenses[i]])
    BY <1>3, <2>1 DEF Claiming
  <2> QED
    BY <1>3, <2>1, <2>2, ExpenseHeld
<1> QED
  BY <1>2, <1>4, <1>5, <1>6, <1>7

\* The last step of a call writes its row.
LEMMA ExpenseSteps ==
    ASSUME ExpensesConstants, Serial, ExpensesInv, NEW h \in Handlers,
           E!Insert(h) \/ E!Save(h) \/ E!SoftRemove(h)
    PROVE  ExpensesInv' /\ [E!Abstract!Next]_(E!Stage)
<1>1. Claiming(expenseCalls[h]) /\ expenses \in [Ids -> E!Row \cup {Null}]
  BY DEF ExpensesInv
<1>2. expenseCalls[h].step \in {"insert", "save", "remove"} /\ E!End(h)
  BY DEF E!Insert, E!Save, E!SoftRemove
<1> PICK i \in Ids : expenseCalls[h].id = i
  BY <1>1, <1>2 DEF Claiming
<1> PICK row \in E!Row : expenseCalls[h].row = row
  BY <1>1, <1>2 DEF Claiming
<1>3. CASE E!Insert(h)
  <2>1. /\ expenseCalls[h].step = "insert" /\ expenses' = [expenses EXCEPT ![i] = row]
        /\ expenses[i] = Null /\ row.status = "pending" /\ ~row.gone /\ row # Null
    BY <1>1, <1>3 DEF E!Insert, Claiming, ExpensesConstants
  <2>2. <<ExpenseStage(expenses[i]), ExpenseStage(row)>> \in E!Abstract!Moves
    BY <2>1 DEF ExpenseStage, E!Abstract!Moves
  <2> QED
    BY <1>2, <2>1, <2>2, ExpenseWritten
<1>4. CASE E!Save(h)
  <2>1. /\ expenseCalls[h].step = "save" /\ expenses' = [expenses EXCEPT ![i] = row]
        /\ expenses[i] # Null /\ ~expenses[i].gone /\ ~row.gone /\ row # Null
        /\ \/ expenses[i].status = "pending" /\ row.status \in {"pending", "approved", "rejected"}
           \/ expenses[i].status = "approved" /\ row.status = "reimbursed"
    BY <1>1, <1>4 DEF E!Save, Claiming, ExpensesConstants
  <2>2. \/ ExpenseStage(row) = ExpenseStage(expenses[i])
        \/ <<ExpenseStage(expenses[i]), ExpenseStage(row)>> \in E!Abstract!Moves
    BY <2>1 DEF ExpenseStage, E!Abstract!Moves
  <2> QED
    BY <1>2, <2>1, <2>2, ExpenseWritten
<1>5. CASE E!SoftRemove(h)
  <2> DEFINE removed == [expenses[i] EXCEPT !.gone = TRUE]
  <2>1. /\ expenses[i] \in E!Row /\ expenses[i] # Null /\ ~expenses[i].gone
        /\ expenses[i].status \in {"pending", "approved", "rejected"}
        /\ expenses' = [expenses EXCEPT ![i] = removed]
    BY <1>1, <1>5 DEF E!SoftRemove, Claiming, E!Row, E!Statuses
  <2>2. removed \in E!Row /\ removed.gone /\ removed # Null
    BY <2>1 DEF E!Row, ExpensesConstants
  <2> HIDE DEF removed
  <2>3. <<ExpenseStage(expenses[i]), ExpenseStage(removed)>> \in E!Abstract!Moves
    BY <2>1, <2>2 DEF ExpenseStage, E!Abstract!Moves
  <2> QED
    BY <1>2, <2>1, <2>2, <2>3, ExpenseWritten
<1> QED
  BY <1>3, <1>4, <1>5

LEMMA ExpensesStep ==
    ASSUME ExpensesConstants, Serial, ExpensesInv, [E!Next]_(E!vars)
    PROVE  ExpensesInv' /\ [E!Abstract!Next]_(E!Stage)
<1>1. CASE UNCHANGED E!vars
  BY <1>1 DEF E!vars, ExpensesInv, Claiming, E!Stage
<1>2. ASSUME NEW h \in Handlers, NEW i \in Ids, NEW p \in People,
             \/ \E urgent \in BOOLEAN : E!Create(h, i, p, urgent) \/ E!Update(h, i, p, urgent)
             \/ \E decision \in {"approved", "rejected"} : E!Decide(h, i, p, decision)
             \/ E!Reimburse(h, i, p) \/ E!Remove(h, i, p)
      PROVE  ExpensesInv' /\ [E!Abstract!Next]_(E!Stage)
  BY <1>2, ExpenseRequests
<1>3. ASSUME NEW h \in Handlers, E!Insert(h) \/ E!Save(h) \/ E!SoftRemove(h)
      PROVE  ExpensesInv' /\ [E!Abstract!Next]_(E!Stage)
  BY <1>3, ExpenseSteps
<1>4. ASSUME NEW h \in Handlers, E!Crash(h)
      PROVE  ExpensesInv' /\ [E!Abstract!Next]_(E!Stage)
  <2>1. E!Idle \in E!Call /\ Claiming(E!Idle)
    BY DEF E!Idle, E!Call, Claiming
  <2> QED
    BY <1>4, <2>1, NothingClaimed DEF E!Crash, E!End
<1>5. ASSUME NEW event \in events, NEW reached \in SUBSET People, E!Notify(event, reached)
      PROVE  ExpensesInv' /\ [E!Abstract!Next]_(E!Stage)
  BY <1>5 DEF E!Notify, ExpensesInv, Claiming, E!Stage
<1> QED
  BY <1>1, <1>2, <1>3, <1>4, <1>5 DEF E!Next

\* Requests one after the other implement the workflow of a decision: an expense is
\* approved or rejected once, reimbursed only when approved, and not deleted after
\* that, whatever roles people have (ExpensesService).
THEOREM SerialExpensesDecideOnce ==
    ASSUME ExpensesConstants, Serial
    PROVE  E!Spec => E!RefinesDecisions
<1>1. E!Init => ExpensesInv /\ E!Abstract!Init
  BY ExpensesInit
<1>2. ExpensesInv /\ [E!Next]_(E!vars) => ExpensesInv' /\ [E!Abstract!Next]_(E!Stage)
  BY ExpensesStep
<1> QED
  BY <1>1, <1>2, PTL DEF E!Spec, E!RefinesDecisions, E!Abstract!Spec

-----------------------------------------------------------------------------
\* Relations between companies.

R == INSTANCE Relationships WITH
    calls <- relationCalls, lost <- relationLost

\* What one request after the other saves is an answer to what is stored.
Relating(call) ==
    /\ call.step \in {"save", "log"} => call.id \in Ids
    /\ call.step = "save" =>
          /\ relations[call.id] = call.from
          /\ <<call.from, call.to>> \in {<<"none", "pending">>, <<"pending", "accepted">>,
                                         <<"pending", "rejected">>, <<"accepted", "blocked">>}

RelationsInv ==
    /\ relations \in [Ids -> R!Statuses]
    /\ relationCalls \in [Handlers -> R!Call]
    /\ \A h \in Handlers : Relating(relationCalls[h])

\* The stage of a relation in the abstract workflow.
RelationStage(status) ==
    CASE status = "none" -> "none"
      [] status = "pending" -> "open"
      [] status = "accepted" -> "granted"
      [] status = "rejected" -> "refused"
      [] status = "blocked" -> "closed"

LEMMA RelationsInit ==
    ASSUME R!Init
    PROVE  RelationsInv /\ R!Abstract!Init
<1>1. R!Idle \in R!Call /\ R!Idle.step = "idle"
  BY DEF R!Idle, R!Call, R!Statuses
<1>2. RelationsInv
  BY <1>1 DEF R!Init, RelationsInv, Relating, R!Statuses
<1>3. R!Abstract!Init
  BY DEF R!Init, R!Stage, R!Abstract!Init
<1> QED
  BY <1>2, <1>3

LEMMA NothingRelated ==
    ASSUME Serial, RelationsInv, NEW h \in Handlers, NEW call \in R!Call,
           relationCalls' = [relationCalls EXCEPT ![h] = call], UNCHANGED relations, Relating(call)
    PROVE  RelationsInv' /\ [R!Abstract!Next]_(R!Stage)
<1>1. relationCalls' \in [Handlers -> R!Call] /\ relationCalls'[h] = call
  BY DEF RelationsInv
<1>2. \A g \in Handlers : Relating(relationCalls[g])'
  BY <1>1 DEF Serial, Relating
<1>3. UNCHANGED R!Stage
  BY DEF R!Stage
<1> QED
  BY <1>1, <1>2, <1>3 DEF RelationsInv

LEMMA RelationRequests ==
    ASSUME Serial, RelationsInv, NEW h \in Handlers, NEW i \in Ids,
           \/ R!Create(h, i) \/ R!Terminate(h, i)
           \/ \E decision \in {"accepted", "rejected"} : R!Respond(h, i, decision)
    PROVE  RelationsInv' /\ [R!Abstract!Next]_(R!Stage)
<1>1. PICK from, to \in R!Statuses :
        /\ R!Hold(h, i, from, to)
        /\ <<from, to>> \in {<<"none", "pending">>, <<"pending", "accepted">>,
                             <<"pending", "rejected">>, <<"accepted", "blocked">>}
  BY DEF R!Create, R!Terminate, R!Respond, R!Statuses
<1> DEFINE call == [step |-> "save", id |-> i, from |-> from, to |-> to]
<1>2. call \in R!Call
  BY DEF R!Call
<1>3. /\ relationCalls' = [relationCalls EXCEPT ![h] = call] /\ UNCHANGED relations
      /\ relations[i] = from
  BY <1>1 DEF R!Hold
<1>4. Relating(call)
  BY <1>1, <1>3 DEF Relating
<1> HIDE DEF call
<1> QED
  BY <1>2, <1>3, <1>4, NothingRelated

LEMMA RelationSaved ==
    ASSUME Serial, RelationsInv, NEW h \in Handlers, R!Save(h)
    PROVE  RelationsInv' /\ [R!Abstract!Next]_(R!Stage)
<1>1. /\ relationCalls \in [Handlers -> R!Call] /\ Relating(relationCalls[h])
      /\ relationCalls[h].step = "save"
      /\ relationCalls[h] \in R!Call /\ relations \in [Ids -> R!Statuses]
  BY DEF R!Save, RelationsInv
<1> PICK i \in Ids : relationCalls[h].id = i
  BY <1>1 DEF Relating
<1> PICK to \in R!Statuses : relationCalls[h].to = to
  BY <1>1 DEF R!Call
<1>2. /\ relationCalls' = [relationCalls EXCEPT ![h].step = "log"]
      /\ relations' = [relations EXCEPT ![i] = to]
  BY DEF R!Save
<1>3. /\ relationCalls' \in [Handlers -> R!Call]
      /\ relationCalls'[h].step = "log" /\ relationCalls'[h].id = i
  BY <1>1, <1>2 DEF R!Call
<1>4. \A g \in Handlers : Relating(relationCalls[g])'
  BY <1>3 DEF Serial, Relating
<1>5. /\ relations' \in [Ids -> R!Statuses] /\ relations'[i] = to
      /\ \A j \in Ids : j # i => relations'[j] = relations[j]
  BY <1>1, <1>2
<1>6. RelationsInv'
  BY <1>3, <1>4, <1>5 DEF RelationsInv
<1>7. R!Stage = [j \in Ids |-> RelationStage(relations[j])]
  BY DEF R!Stage, RelationStage
<1>8. (R!Stage)' = [j \in Ids |-> RelationStage(relations'[j])]
  BY DEF R!Stage, RelationStage
<1>9. (R!Stage)' = [R!Stage EXCEPT ![i] = RelationStage(to)]
  BY <1>5, <1>7, <1>8
<1>10. <<RelationStage(relations[i]), RelationStage(to)>> \in R!Abstract!Moves
  BY <1>1 DEF Relating, RelationStage, R!Abstract!Moves
<1>11. R!Stage[i] = RelationStage(relations[i])
  BY <1>7
<1>12. R!Abstract!Move(i, RelationStage(to)) /\ RelationStage(to) \in R!Abstract!Stages
  BY <1>9, <1>10, <1>11 DEF R!Abstract!Move, R!Abstract!Moves, R!Abstract!Stages
<1> QED
  BY <1>6, <1>12 DEF R!Abstract!Next

LEMMA RelationsStep ==
    ASSUME Serial, RelationsInv, [R!Next]_(R!vars)
    PROVE  RelationsInv' /\ [R!Abstract!Next]_(R!Stage)
<1>1. CASE UNCHANGED R!vars
  BY <1>1 DEF R!vars, RelationsInv, Relating, R!Stage
<1>2. ASSUME NEW h \in Handlers, NEW i \in Ids,
             \/ R!Create(h, i) \/ R!Terminate(h, i)
             \/ \E decision \in {"accepted", "rejected"} : R!Respond(h, i, decision)
      PROVE  RelationsInv' /\ [R!Abstract!Next]_(R!Stage)
  BY <1>2, RelationRequests
<1>3. ASSUME NEW h \in Handlers, R!Save(h)
      PROVE  RelationsInv' /\ [R!Abstract!Next]_(R!Stage)
  BY <1>3, RelationSaved
<1>4. ASSUME NEW h \in Handlers, R!AddLog(h) \/ R!Crash(h)
      PROVE  RelationsInv' /\ [R!Abstract!Next]_(R!Stage)
  <2>1. R!Idle \in R!Call /\ Relating(R!Idle)
    BY DEF R!Idle, R!Call, R!Statuses, Relating
  <2> QED
    BY <1>4, <2>1, NothingRelated DEF R!AddLog, R!Crash
<1> QED
  BY <1>1, <1>2, <1>3, <1>4 DEF R!Next

\* Requests one after the other implement the workflow of a decision: an invitation is
\* answered once, and only an accepted relation is terminated (RelationshipsService).
THEOREM SerialRelationsDecideOnce ==
    ASSUME Serial
    PROVE  R!Spec => R!RefinesDecisions
<1>1. R!Init => RelationsInv /\ R!Abstract!Init
  BY RelationsInit
<1>2. RelationsInv /\ [R!Next]_(R!vars) => RelationsInv' /\ [R!Abstract!Next]_(R!Stage)
  BY RelationsStep
<1> QED
  BY <1>1, <1>2, PTL DEF R!Spec, R!RefinesDecisions, R!Abstract!Spec

-----------------------------------------------------------------------------
\* Places.

G == INSTANCE Places WITH
    cache <- answerCache, calls <- placeCalls, lost <- placeLost,
    Requests <- SearchRequests

\* The questions that are asked: a reverse one has no limit of its own.
Asked == {q \in G!Questions : q.kind = "reverse" => q.limit = 1}

Address == [label : Labels, deleted : BOOLEAN]

Route == [status : G!RouteStatuses, deleted : BOOLEAN]

PlaceCall ==
    [step : {"provider"}, question : Asked, tries : {0, 1}]
        \cup [step : {"fill"}, question : Asked, from : Nat]
        \cup [step : {"address"}, row : Address, at : Nat]
        \cup [step : {"route"}, row : Route, at : Nat]

\* The answers in the cache are those to their key, and an answer is no younger than
\* the map.
CacheOK ==
    /\ DOMAIN answerCache = G!Keys
    /\ \A k \in G!Keys : answerCache[k] # Null =>
          answerCache[k].question = k /\ answerCache[k].edition \in Nat
          /\ answerCache[k].edition <= edition

PlacesInv ==
    /\ edition \in Nat
    /\ CacheOK
    /\ \A a \in answers : a.question = a.asked /\ a.from \in Nat /\ a.from <= edition
    /\ addresses \in Seq(Address)
    /\ routes \in Seq(Route)
    /\ placeCalls \in [Handlers -> PlaceCall \cup {Null}]
    /\ \A h \in Handlers : G!At(h, "fill") => placeCalls[h].from <= edition

\* A row that is saved replaces one that is there, or none.
LEMMA RowReplaced ==
    ASSUME NEW Rows, NEW table \in Seq(Rows), NEW at, NEW row \in Rows
    PROVE  [table EXCEPT ![at] = row] \in Seq(Rows)
<1> DEFINE new == [table EXCEPT ![at] = row]
<1>1. Len(table) \in Nat /\ DOMAIN table = 1 .. Len(table)
  OBVIOUS
<1>2. new = [i \in 1 .. Len(table) |-> IF i = at THEN row ELSE table[i]]
  BY <1>1
<1>3. \A i \in 1 .. Len(table) : table[i] \in Rows
  OBVIOUS
<1>4. new \in [1 .. Len(table) -> Rows]
  BY <1>2, <1>3
<1> HIDE DEF new
<1>5. new \in Seq(Rows)
  BY <1>1, <1>4
<1> QED
  BY <1>5 DEF new

\* Two questions never share an entry.
LEMMA KeyIsQuestion ==
    ASSUME NEW q \in Asked
    PROVE  G!Key(q) = q /\ q \in G!Keys
BY DEF Asked, G!Questions, G!Key, G!Keys

LEMMA PlacesInit ==
    ASSUME G!Init
    PROVE  PlacesInv
<1>1. addresses \in Seq(Address) /\ routes \in Seq(Route)
  BY DEF G!Init
<1> QED
  BY <1>1 DEF G!Init, PlacesInv, CacheOK, G!At, G!Idle

\* Call h goes on to another one, and what the others rely on stays.
LEMMA PlaceCallKept ==
    ASSUME PlacesInv, NEW h \in Handlers, NEW call \in PlaceCall \cup {Null},
           G!Moves(h, call), UNCHANGED edition,
           call # Null /\ call.step = "fill" => call.from <= edition
    PROVE  /\ placeCalls' \in [Handlers -> PlaceCall \cup {Null}]
           /\ \A g \in Handlers : G!At(g, "fill")' => placeCalls'[g].from <= edition'
<1>1. /\ placeCalls' \in [Handlers -> PlaceCall \cup {Null}] /\ placeCalls'[h] = call
      /\ \A g \in Handlers \ {h} : placeCalls'[g] = placeCalls[g]
  BY DEF PlacesInv, G!Moves
<1> QED
  BY <1>1 DEF PlacesInv, G!At, G!Idle

LEMMA AskKept ==
    ASSUME PlacesInv, NEW h \in Handlers, G!Ask(h)
    PROVE  PlacesInv'
<1> PICK q \in G!Questions :
      /\ q.kind = "reverse" => q.limit = 1
      /\ \/ /\ answerCache[G!Key(q)] # Null
            /\ G!Given(q, answerCache[G!Key(q)].question, answerCache[G!Key(q)].edition)
            /\ UNCHANGED placeCalls
         \/ /\ G!Moves(h, [step |-> "provider", question |-> q, tries |-> 0])
            /\ UNCHANGED answers
  BY DEF G!Ask
<1>1. q \in Asked /\ G!Key(q) = q /\ q \in G!Keys
  BY KeyIsQuestion DEF Asked
<1>2. UNCHANGED <<edition, answerCache, addresses, routes>>
  BY DEF G!Ask
<1>3. CASE /\ answerCache[G!Key(q)] # Null
           /\ G!Given(q, answerCache[G!Key(q)].question, answerCache[G!Key(q)].edition)
           /\ UNCHANGED placeCalls
  <2>1. /\ answerCache[q].question = q /\ answerCache[q].edition \in Nat
        /\ answerCache[q].edition <= edition
        /\ answers' = answers \cup {[asked |-> q, question |-> q, from |-> answerCache[q].edition]}
    BY <1>1, <1>3 DEF PlacesInv, CacheOK, G!Given
  <2> QED
    BY <1>2, <1>3, <2>1 DEF PlacesInv, CacheOK, G!At, G!Idle
<1>4. CASE /\ G!Moves(h, [step |-> "provider", question |-> q, tries |-> 0])
           /\ UNCHANGED answers
  <2> DEFINE call == [step |-> "provider", question |-> q, tries |-> 0]
  <2>1. call \in PlaceCall /\ call.step # "fill"
    BY <1>1 DEF PlaceCall
  <2> HIDE DEF call
  <2>2. /\ placeCalls' \in [Handlers -> PlaceCall \cup {Null}]
        /\ \A g \in Handlers : G!At(g, "fill")' => placeCalls'[g].from <= edition'
    BY <1>2, <1>4, <2>1, PlaceCallKept DEF call
  <2> QED
    BY <1>2, <1>4, <2>2 DEF PlacesInv, CacheOK
<1> QED
  BY <1>3, <1>4

LEMMA AnsweredKept ==
    ASSUME PlacesInv, NEW h \in Handlers, G!Answered(h)
    PROVE  PlacesInv'
<1>1. placeCalls[h] \in [step : {"provider"}, question : Asked, tries : {0, 1}]
  BY DEF G!Answered, G!At, G!Idle, PlacesInv, PlaceCall
<1> PICK call :
      /\ G!Moves(h, call)
      /\ \/ call = [step |-> "fill", question |-> placeCalls[h].question, from |-> edition]
         \/ placeCalls[h].tries < 1 /\ call = [placeCalls[h] EXCEPT !.tries = @ + 1]
         \/ call = Null
  BY DEF G!Answered
<1>2. UNCHANGED <<edition, answerCache, answers, addresses, routes>>
  BY DEF G!Answered, G!geo
<1>3. edition \in Nat /\ edition <= edition
  BY DEF PlacesInv
<1>4. call \in PlaceCall \cup {Null} /\ (call # Null /\ call.step = "fill" => call.from <= edition)
  <2>1. CASE call = [step |-> "fill", question |-> placeCalls[h].question, from |-> edition]
    BY <1>1, <1>3, <2>1 DEF PlaceCall
  <2>2. CASE placeCalls[h].tries < 1 /\ call = [placeCalls[h] EXCEPT !.tries = @ + 1]
    <3>1. placeCalls[h].tries + 1 = 1
      BY <1>1, <2>2
    <3>2. call = [step |-> "provider", question |-> placeCalls[h].question, tries |-> 1]
      BY <1>1, <2>2, <3>1
    <3> QED
      BY <1>1, <3>2 DEF PlaceCall
  <2>3. CASE call = Null
    BY <2>3
  <2> QED
    BY <2>1, <2>2, <2>3
<1>5. /\ placeCalls' \in [Handlers -> PlaceCall \cup {Null}]
      /\ \A g \in Handlers : G!At(g, "fill")' => placeCalls'[g].from <= edition'
  BY <1>2, <1>4, PlaceCallKept
<1> QED
  BY <1>2, <1>5 DEF PlacesInv, CacheOK

LEMMA FillKept ==
    ASSUME PlacesInv, NEW h \in Handlers, G!Fill(h)
    PROVE  PlacesInv'
<1>1. /\ placeCalls[h] \in [step : {"fill"}, question : Asked, from : Nat]
      /\ placeCalls[h].from <= edition
  BY DEF G!Fill, G!At, G!Idle, PlacesInv, PlaceCall
<1> PICK q \in Asked : placeCalls[h].question = q
  BY <1>1
<1> PICK n \in Nat : placeCalls[h].from = n
  BY <1>1
<1>2. /\ UNCHANGED <<edition, addresses, routes>> /\ n <= edition
      /\ answers' = answers \cup {[asked |-> q, question |-> q, from |-> n]}
      /\ \/ answerCache' = [answerCache EXCEPT ![G!Key(q)] = [question |-> q, edition |-> n]]
         \/ UNCHANGED answerCache
  BY <1>1 DEF G!Fill, G!Given
<1>3. CacheOK'
  <2>1. CASE UNCHANGED answerCache
    BY <1>2, <2>1 DEF PlacesInv, CacheOK
  <2>2. CASE answerCache' = [answerCache EXCEPT ![G!Key(q)] = [question |-> q, edition |-> n]]
    <3>1. ASSUME NEW k \in G!Keys, answerCache'[k] # Null
          PROVE  /\ answerCache'[k].question = k /\ answerCache'[k].edition \in Nat
                 /\ answerCache'[k].edition <= edition'
      <4>1. \/ k = q /\ answerCache'[k] = [question |-> q, edition |-> n]
            \/ answerCache'[k] = answerCache[k]
        BY <2>2, KeyIsQuestion DEF PlacesInv, CacheOK
      <4>2. CASE k = q /\ answerCache'[k] = [question |-> q, edition |-> n]
        BY <1>2, <4>2
      <4>3. CASE answerCache'[k] = answerCache[k]
        BY <1>2, <3>1, <4>3 DEF PlacesInv, CacheOK
      <4> QED
        BY <4>1, <4>2, <4>3
    <3>2. DOMAIN answerCache' = G!Keys
      BY <2>2 DEF PlacesInv, CacheOK
    <3> QED
      BY <3>1, <3>2 DEF CacheOK
  <2> QED
    BY <1>2, <2>1, <2>2
<1>4. /\ placeCalls' \in [Handlers -> PlaceCall \cup {Null}]
      /\ \A g \in Handlers : G!At(g, "fill")' => placeCalls'[g].from <= edition'
  BY <1>2, PlaceCallKept DEF G!Fill
<1> QED
  BY <1>2, <1>3, <1>4 DEF PlacesInv

\* Saved addresses and routes.
LEMMA AddressStepsKept ==
    ASSUME PlacesInv, NEW h \in Handlers,
           G!SaveAddress(h) \/ G!EditAddress(h) \/ G!StoreAddress(h)
    PROVE  PlacesInv'
<1>1. addresses \in Seq(Address) /\ UNCHANGED <<edition, answerCache, answers, routes>>
  BY DEF PlacesInv, G!SaveAddress, G!EditAddress, G!StoreAddress, G!geo
<1>2. CASE G!SaveAddress(h) \/ G!EditAddress(h)
  <2>1. PICK row \in Address, at \in Nat :
          G!Moves(h, [step |-> "address", row |-> row, at |-> at])
    <3>1. CASE G!SaveAddress(h)
      BY <3>1 DEF G!SaveAddress, Address
    <3>2. CASE G!EditAddress(h)
      <4>1. PICK a \in G!LiveAddresses, l \in Labels :
              G!Moves(h, [step |-> "address", row |-> [addresses[a] EXCEPT !.label = l],
                          at |-> a])
        BY <3>2 DEF G!EditAddress
      <4>2. a \in 1 .. Len(addresses) /\ addresses[a] \in Address
        <5>1. a \in DOMAIN addresses
          BY DEF G!LiveAddresses
        <5> HIDE DEF Address
        <5> QED
          BY <1>1, <5>1
      <4>3. [addresses[a] EXCEPT !.label = l] \in Address
        BY <4>2 DEF Address
      <4>4. a \in Nat
        BY <1>1, <4>2
      <4> QED
        BY <4>1, <4>3, <4>4
    <3> QED
      BY <1>2, <3>1, <3>2
  <2> DEFINE call == [step |-> "address", row |-> row, at |-> at]
  <2>2. call \in PlaceCall /\ call.step # "fill"
    BY DEF PlaceCall
  <2>3. G!Moves(h, call)
    BY <2>1
  <2> HIDE DEF call
  <2>4. /\ placeCalls' \in [Handlers -> PlaceCall \cup {Null}]
        /\ \A g \in Handlers : G!At(g, "fill")' => placeCalls'[g].from <= edition'
    BY <1>1, <2>2, <2>3, PlaceCallKept
  <2>5. UNCHANGED addresses
    BY <1>2 DEF G!SaveAddress, G!EditAddress
  <2> QED
    BY <1>1, <2>4, <2>5 DEF PlacesInv, CacheOK
<1>3. CASE G!StoreAddress(h)
  <2>1. placeCalls[h].row \in Address
    BY <1>3 DEF G!StoreAddress, G!At, G!Idle, PlacesInv, PlaceCall
  <2>2. \/ UNCHANGED addresses
        \/ addresses' = Append(addresses, placeCalls[h].row)
        \/ addresses' = [addresses EXCEPT ![placeCalls[h].at] = placeCalls[h].row]
    BY <1>3 DEF G!StoreAddress
  <2>3. addresses' \in Seq(Address)
    BY <1>1, <2>1, <2>2, RowReplaced
  <2>4. /\ placeCalls' \in [Handlers -> PlaceCall \cup {Null}]
        /\ \A g \in Handlers : G!At(g, "fill")' => placeCalls'[g].from <= edition'
    BY <1>1, <1>3, PlaceCallKept DEF G!StoreAddress
  <2> QED
    BY <1>1, <2>3, <2>4 DEF PlacesInv, CacheOK
<1> QED
  BY <1>2, <1>3

LEMMA RouteCallsKept ==
    ASSUME PlacesInv, NEW h \in Handlers,
           G!StoreRoute(h) \/ \E r \in G!LiveRoutes : G!EditRoute(h, r)
    PROVE  PlacesInv'
<1>1. routes \in Seq(Route) /\ UNCHANGED <<edition, answerCache, answers, addresses>>
  BY DEF PlacesInv, G!EditRoute, G!StoreRoute, G!geo
<1>2. CASE \E r \in G!LiveRoutes : G!EditRoute(h, r)
  <2>1. PICK r \in G!LiveRoutes, status \in G!RouteStatuses :
          G!Moves(h, [step |-> "route", row |-> [routes[r] EXCEPT !.status = status], at |-> r])
    BY <1>2 DEF G!EditRoute
  <2>2. r \in DOMAIN routes
    BY DEF G!LiveRoutes
  <2>3. routes[r] \in Route /\ r \in Nat
    BY <1>1, <2>2
  <2> DEFINE call == [step |-> "route", row |-> [routes[r] EXCEPT !.status = status], at |-> r]
  <2>4. call \in PlaceCall /\ call.step # "fill"
    BY <2>3 DEF PlaceCall, Route
  <2>5. G!Moves(h, call)
    BY <2>1
  <2> HIDE DEF call
  <2>6. /\ placeCalls' \in [Handlers -> PlaceCall \cup {Null}]
        /\ \A g \in Handlers : G!At(g, "fill")' => placeCalls'[g].from <= edition'
    BY <1>1, <2>4, <2>5, PlaceCallKept
  <2>7. UNCHANGED routes
    BY <1>2 DEF G!EditRoute
  <2> QED
    BY <1>1, <2>6, <2>7 DEF PlacesInv, CacheOK
<1>3. CASE G!StoreRoute(h)
  <2>1. placeCalls[h].row \in Route
    BY <1>3 DEF G!StoreRoute, G!At, G!Idle, PlacesInv, PlaceCall
  <2>2. routes' = [routes EXCEPT ![placeCalls[h].at] = placeCalls[h].row]
    BY <1>3 DEF G!StoreRoute
  <2>3. routes' \in Seq(Route)
    BY <1>1, <2>1, <2>2, RowReplaced
  <2>4. /\ placeCalls' \in [Handlers -> PlaceCall \cup {Null}]
        /\ \A g \in Handlers : G!At(g, "fill")' => placeCalls'[g].from <= edition'
    BY <1>1, <1>3, PlaceCallKept DEF G!StoreRoute
  <2> QED
    BY <1>1, <2>3, <2>4 DEF PlacesInv, CacheOK
<1> QED
  BY <1>2, <1>3

\* Steps that are no part of a call.
LEMMA PlaceTablesKept ==
    ASSUME PlacesInv,
           \/ G!Expire \/ G!NewEdition \/ G!RemoveAddress \/ G!AddRoute
           \/ \E r \in G!LiveRoutes : G!DuplicateRoute(r) \/ G!RemoveRoute(r)
    PROVE  PlacesInv'
<1>1. addresses \in Seq(Address) /\ routes \in Seq(Route) /\ edition \in Nat
  BY DEF PlacesInv
<1>2. CASE G!Expire
  <2>1. PICK k \in G!Keys : answerCache' = [answerCache EXCEPT ![k] = Null]
    BY <1>2 DEF G!Expire
  <2>2. UNCHANGED <<edition, answers, addresses, routes, placeCalls>>
    BY <1>2 DEF G!Expire
  <2>3. DOMAIN answerCache' = G!Keys /\ \A j \in G!Keys : answerCache'[j] \in {answerCache[j], Null}
    BY <2>1 DEF PlacesInv, CacheOK
  <2>4. CacheOK'
    BY <2>2, <2>3 DEF PlacesInv, CacheOK
  <2> QED
    BY <2>2, <2>4 DEF PlacesInv, G!At, G!Idle
<1>3. CASE G!NewEdition
  <2>1. edition' = edition + 1 /\ UNCHANGED <<answerCache, answers, addresses, routes, placeCalls>>
    BY <1>3 DEF G!NewEdition
  <2>2. edition' \in Nat /\ \A n \in Nat : n <= edition => n <= edition'
    BY <1>1, <2>1
  <2>3. CacheOK'
    BY <2>1, <2>2 DEF PlacesInv, CacheOK
  <2>4. \A a \in answers' : a.question = a.asked /\ a.from \in Nat /\ a.from <= edition'
    BY <2>1, <2>2 DEF PlacesInv
  <2>5. ASSUME NEW h \in Handlers, G!At(h, "fill")'
        PROVE  placeCalls'[h].from <= edition'
    <3>1. placeCalls[h].from \in Nat /\ placeCalls[h].from <= edition
      BY <2>1, <2>5 DEF PlacesInv, PlaceCall, G!At, G!Idle
    <3> QED
      BY <2>1, <2>2, <3>1
  <2> QED
    BY <2>1, <2>2, <2>3, <2>4, <2>5 DEF PlacesInv
<1>4. CASE G!RemoveAddress
  <2>1. PICK a \in G!LiveAddresses : addresses' = [addresses EXCEPT ![a].deleted = TRUE]
    BY <1>4 DEF G!RemoveAddress
  <2>2. a \in DOMAIN addresses /\ addresses[a] \in Address
    BY <1>1 DEF G!LiveAddresses
  <2>3. [addresses[a] EXCEPT !.deleted = TRUE] \in Address
    BY <2>2 DEF Address
  <2>4. addresses' \in Seq(Address)
    <3>1. addresses' = [addresses EXCEPT ![a] = [addresses[a] EXCEPT !.deleted = TRUE]]
      BY <2>1
    <3> QED
      BY <1>1, <2>3, <3>1, RowReplaced
  <2> QED
    BY <1>4, <2>4 DEF G!RemoveAddress, G!geo, PlacesInv, CacheOK, G!At, G!Idle
<1>5. CASE \/ G!AddRoute
           \/ \E r \in G!LiveRoutes : G!DuplicateRoute(r) \/ G!RemoveRoute(r)
  <2>1. routes' \in Seq(Route)
    <3>1. CASE G!AddRoute
      <4>1. PICK row \in Route : routes' = Append(routes, row)
        BY <3>1 DEF G!AddRoute, Route
      <4> QED
        BY <1>1, <4>1
    <3>2. ASSUME NEW r \in G!LiveRoutes, G!DuplicateRoute(r) \/ G!RemoveRoute(r)
          PROVE  routes' \in Seq(Route)
      <4>1. r \in DOMAIN routes /\ routes[r] \in Route
        BY <1>1 DEF G!LiveRoutes
      <4>2. /\ [routes[r] EXCEPT !.status = "draft"] \in Route
            /\ [routes[r] EXCEPT !.deleted = TRUE] \in Route
        BY <4>1 DEF Route, G!RouteStatuses
      <4>3. PICK row \in Route :
              routes' = Append(routes, row) \/ routes' = [routes EXCEPT ![r] = row]
        BY <3>2, <4>2 DEF G!DuplicateRoute, G!RemoveRoute
      <4> QED
        BY <1>1, <4>3, RowReplaced
    <3> QED
      BY <1>5, <3>1, <3>2
  <2>2. UNCHANGED <<edition, answerCache, answers, addresses, placeCalls>>
    BY <1>5 DEF G!AddRoute, G!DuplicateRoute, G!RemoveRoute, G!geo
  <2> QED
    BY <2>1, <2>2 DEF PlacesInv, CacheOK, G!At, G!Idle
<1> QED
  BY <1>2, <1>3, <1>4, <1>5

LEMMA PlacesStep ==
    ASSUME PlacesInv, [G!Next]_(G!vars)
    PROVE  PlacesInv'
<1>1. CASE UNCHANGED G!vars
  BY <1>1 DEF G!vars, PlacesInv, CacheOK, G!At, G!Idle
<1>2. ASSUME NEW h \in Handlers, G!Ask(h) \/ G!Answered(h) \/ G!Fill(h)
      PROVE  PlacesInv'
  BY <1>2, AskKept, AnsweredKept, FillKept
<1>3. ASSUME NEW h \in Handlers, G!Lose(h)
      PROVE  PlacesInv'
  <2>1. UNCHANGED <<edition, answerCache, answers, addresses, routes>> /\ G!Moves(h, Null)
    BY <1>3 DEF G!Lose, G!geo
  <2>2. /\ placeCalls' \in [Handlers -> PlaceCall \cup {Null}]
        /\ \A g \in Handlers : G!At(g, "fill")' => placeCalls'[g].from <= edition'
    BY <2>1, PlaceCallKept
  <2> QED
    BY <2>1, <2>2 DEF PlacesInv, CacheOK
<1>4. ASSUME NEW h \in Handlers, G!SaveAddress(h) \/ G!EditAddress(h) \/ G!StoreAddress(h)
      PROVE  PlacesInv'
  BY <1>4, AddressStepsKept
<1>5. ASSUME NEW h \in Handlers, G!StoreRoute(h) \/ \E r \in G!LiveRoutes : G!EditRoute(h, r)
      PROVE  PlacesInv'
  BY <1>5, RouteCallsKept
<1>6. CASE \/ G!Expire \/ G!NewEdition \/ G!RemoveAddress \/ G!AddRoute
           \/ \E r \in G!LiveRoutes : G!DuplicateRoute(r) \/ G!RemoveRoute(r)
  BY <1>6, PlaceTablesKept
<1> QED
  BY <1>1, <1>2, <1>3, <1>4, <1>5, <1>6 DEF G!Next

LEMMA PlacesInductive ==
    G!Spec => []PlacesInv
<1>1. G!Init => PlacesInv
  BY PlacesInit
<1>2. PlacesInv /\ [G!Next]_(G!vars) => PlacesInv'
  BY PlacesStep
<1> QED
  BY <1>1, <1>2, PTL DEF G!Spec

\* Whatever calls fill the cache at the same time and whatever it forgets, a caller is
\* given an answer to the question he asked (GeocodingCacheService, searchKey).
THEOREM AnswersAreToTheQuestion ==
    G!Spec => []G!AnswersTheQuestion
<1>1. PlacesInv => G!AnswersTheQuestion
  BY DEF PlacesInv, G!AnswersTheQuestion
<1> QED
  BY <1>1, PlacesInductive, PTL

\* The rows of the addresses and of the routes, and the questions that are cached, have
\* their types (SavedAddressesService, RoutesService).
THEOREM PlacesTypesHold ==
    G!Spec => []G!TypeOK
<1>1. PlacesInv => G!TypeOK
  <2> SUFFICES ASSUME PlacesInv PROVE G!TypeOK
    OBVIOUS
  <2>1. \A k \in G!Keys : answerCache[k] # Null => answerCache[k].question \in G!Questions
    BY DEF PlacesInv, CacheOK, G!Keys, G!Questions
  <2>2. /\ \A a \in DOMAIN addresses : addresses[a] \in Address
        /\ \A r \in DOMAIN routes : routes[r] \in Route
    BY DEF PlacesInv
  <2> QED
    BY <2>1, <2>2 DEF G!TypeOK, Address, Route
<1> QED
  BY <1>1, PlacesInductive, PTL

-----------------------------------------------------------------------------
\* Chat.

C == INSTANCE Chat WITH
    calls <- chatCalls, lost <- chatLost, Requests <- TalkRequests, MaxLost <- MaxChatLost

ChatConstants == MaxConversations \in Nat /\ MaxMessages \in Nat

\* A call names a conversation and a message that were there when it began, and rows
\* are only ever added.
ChatCall ==
    [step : {"save"}, conv : DOMAIN conversations, row : C!Conversation]
        \cup [step : {"insert"}, row : C!Conversation]
        \cup [step : {"message"}, user : Users, conv : DOMAIN conversations,
              row : C!Conversation]
        \cup [step : {"preview", "emit"}, user : Users, conv : DOMAIN conversations,
              message : DOMAIN messages, row : C!Conversation]

ChatTables ==
    /\ conversations \in Seq(C!Conversation) /\ Len(conversations) <= MaxConversations
    /\ messages \in Seq(C!Message) /\ Len(messages) <= MaxMessages
    /\ received \subseteq Users \X DOMAIN messages
    /\ \A n \in notifications : n.message \in DOMAIN messages

ChatInv ==
    /\ ChatTables
    /\ chatCalls \in [Handlers -> ChatCall \cup {Null}]

\* What was read stays read in this step.
KeepsRead == \A m \in DOMAIN messages : messages[m].readBy \subseteq messages'[m].readBy

LEMMA ChatInit ==
    ASSUME ChatConstants, C!Init
    PROVE  ChatInv
<1>1. conversations \in Seq(C!Conversation) /\ Len(conversations) = 0
  BY DEF C!Init
<1>2. messages \in Seq(C!Message) /\ Len(messages) = 0
  BY DEF C!Init
<1>3. 0 <= MaxConversations /\ 0 <= MaxMessages
  BY DEF ChatConstants
<1> QED
  BY <1>1, <1>2, <1>3 DEF C!Init, ChatInv, ChatTables

\* A loaded conversation has its type.
LEMMA OpenedConversation ==
    ASSUME ChatInv, NEW c \in DOMAIN conversations
    PROVE  conversations[c] \in C!Conversation /\ c \in Nat
BY DEF ChatInv, ChatTables

\* Call h goes on to another one, while the tables keep their types and only grow.
LEMMA ChatCallKept ==
    ASSUME ChatInv, ChatTables', NEW h \in Handlers, NEW call,
           chatCalls' = [chatCalls EXCEPT ![h] = call], call \in ChatCall' \cup {Null},
           DOMAIN conversations \subseteq DOMAIN conversations',
           DOMAIN messages \subseteq DOMAIN messages'
    PROVE  ChatInv'
<1>1. ChatCall \subseteq ChatCall'
  BY DEF ChatCall
<1>2. chatCalls \in [Handlers -> ChatCall' \cup {Null}]
  BY <1>1 DEF ChatInv
<1>3. chatCalls' \in [Handlers -> ChatCall' \cup {Null}]
  BY <1>2
<1> QED
  BY <1>3 DEF ChatInv

\* A call that holds a copy, with the tables as they are.
LEMMA ChatCallHeld ==
    ASSUME ChatInv, NEW h \in Handlers, NEW call \in ChatCall \cup {Null},
           chatCalls' = [chatCalls EXCEPT ![h] = call],
           UNCHANGED <<conversations, messages, received, notifications>>
    PROVE  ChatInv' /\ KeepsRead
<1>1. ChatTables'
  BY DEF ChatInv, ChatTables
<1>2. call \in ChatCall' \cup {Null}
  BY DEF ChatCall
<1> QED
  BY <1>1, <1>2, ChatCallKept DEF KeepsRead

LEMMA ConversationRequests ==
    ASSUME ChatConstants, ChatInv, NEW h \in Handlers, NEW u \in Users,
           C!Create(h, u) \/ C!Edit(h, u) \/ C!Hide(h, u) \/ C!Leave(h, u) \/ C!Send(h, u)
    PROVE  ChatInv' /\ KeepsRead
<1>1. UNCHANGED <<conversations, messages, received, notifications>>
  BY DEF C!Create, C!Edit, C!Hide, C!Leave, C!Send
<1>2. ASSUME NEW c \in DOMAIN conversations, NEW row \in C!Conversation,
             C!SaveLater(h, c, row)
      PROVE  ChatInv' /\ KeepsRead
  <2> DEFINE call == [step |-> "save", conv |-> c, row |-> row]
  <2>1. call \in ChatCall
    BY DEF ChatCall
  <2>2. chatCalls' = [chatCalls EXCEPT ![h] = call]
    BY <1>2 DEF C!SaveLater
  <2> HIDE DEF call
  <2> QED
    BY <1>1, <2>1, <2>2, ChatCallHeld
<1>3. CASE C!Create(h, u)
  <2>1. PICK type \in {"direct", "group"}, others \in SUBSET (Users \ {u}) :
          \/ \E c \in DOMAIN conversations :
                C!SaveLater(h, c, [conversations[c] EXCEPT !.hidden = @ \ {u}])
          \/ chatCalls' = [chatCalls EXCEPT ![h] =
                          [step |-> "insert", row |-> C!NewConversation(type, others \cup {u})]]
    BY <1>3 DEF C!Create, C!Existing
  <2>2. ASSUME NEW c \in DOMAIN conversations,
               C!SaveLater(h, c, [conversations[c] EXCEPT !.hidden = @ \ {u}])
        PROVE  ChatInv' /\ KeepsRead
    <3>1. [conversations[c] EXCEPT !.hidden = @ \ {u}] \in C!Conversation
      BY OpenedConversation DEF C!Conversation
    <3> QED
      BY <1>2, <2>2, <3>1
  <2>3. CASE chatCalls' = [chatCalls EXCEPT ![h] =
                          [step |-> "insert", row |-> C!NewConversation(type, others \cup {u})]]
    <3>1. C!NewConversation(type, others \cup {u}) \in C!Conversation
      BY DEF C!NewConversation, C!Conversation, ChatConstants
    <3> DEFINE call == [step |-> "insert", row |-> C!NewConversation(type, others \cup {u})]
    <3>2. call \in ChatCall
      BY <3>1 DEF ChatCall
    <3>3. chatCalls' = [chatCalls EXCEPT ![h] = call]
      BY <2>3
    <3> HIDE DEF call
    <3> QED
      BY <1>1, <3>2, <3>3, ChatCallHeld
  <2> QED
    BY <2>1, <2>2, <2>3
<1>4. CASE C!Edit(h, u) \/ C!Hide(h, u) \/ C!Leave(h, u)
  <2>1. PICK c \in DOMAIN conversations, v \in Users :
          \/ C!SaveLater(h, c, [conversations[c] EXCEPT !.members = @ \cup {v}])
          \/ C!SaveLater(h, c, [conversations[c] EXCEPT !.members = @ \ {v}])
          \/ C!SaveLater(h, c, [conversations[c] EXCEPT !.hidden = @ \cup {v}])
          \/ C!SaveLater(h, c, [conversations[c] EXCEPT
                                    !.members = @ \ {v},
                                    !.deleted = conversations[c].members = {v}])
    BY <1>4 DEF C!Edit, C!Hide, C!Leave, C!Listed
  <2>2. /\ [conversations[c] EXCEPT !.members = @ \cup {v}] \in C!Conversation
        /\ [conversations[c] EXCEPT !.members = @ \ {v}] \in C!Conversation
        /\ [conversations[c] EXCEPT !.hidden = @ \cup {v}] \in C!Conversation
        /\ [conversations[c] EXCEPT !.members = @ \ {v},
                                    !.deleted = conversations[c].members = {v}]
              \in C!Conversation
    BY OpenedConversation DEF C!Conversation
  <2> QED
    BY <1>2, <2>1, <2>2
<1>5. CASE C!Send(h, u)
  <2>1. PICK c \in DOMAIN conversations :
          chatCalls' = [chatCalls EXCEPT ![h] =
                       [step |-> "message", user |-> u, conv |-> c, row |-> conversations[c]]]
    BY <1>5 DEF C!Send
  <2> DEFINE call == [step |-> "message", user |-> u, conv |-> c, row |-> conversations[c]]
  <2>2. call \in ChatCall
    BY OpenedConversation DEF ChatCall
  <2>3. chatCalls' = [chatCalls EXCEPT ![h] = call]
    BY <2>1
  <2> HIDE DEF call
  <2> QED
    BY <1>1, <2>2, <2>3, ChatCallHeld
<1> QED
  BY <1>3, <1>4, <1>5

\* A conversation that is written keeps its place.
LEMMA ConversationWritten ==
    ASSUME ChatInv, NEW c \in DOMAIN conversations, NEW row \in C!Conversation,
           conversations' = [conversations EXCEPT ![c] = row],
           UNCHANGED <<messages, received, notifications>>
    PROVE  ChatTables' /\ DOMAIN conversations' = DOMAIN conversations
<1>1. conversations \in Seq(C!Conversation) /\ Len(conversations) <= MaxConversations
  BY DEF ChatInv, ChatTables
<1>2. conversations' \in Seq(C!Conversation)
  BY <1>1, RowReplaced
<1>3. DOMAIN conversations' = DOMAIN conversations
  OBVIOUS
<1>4. Len(conversations') = Len(conversations)
  BY <1>1, <1>2, <1>3
<1> QED
  BY <1>1, <1>2, <1>3, <1>4 DEF ChatInv, ChatTables

LEMMA ConversationsKept ==
    ASSUME ChatConstants, ChatInv, NEW h \in Handlers,
           C!Insert(h) \/ C!Save(h) \/ C!SavePreview(h)
    PROVE  ChatInv' /\ KeepsRead
<1>1. chatCalls[h] \in ChatCall
  BY DEF C!Insert, C!Save, C!SavePreview, C!At, C!Idle, ChatInv
<1>2. UNCHANGED <<messages, received, notifications>>
  BY DEF C!Insert, C!Save, C!SavePreview
<1>3. KeepsRead
  BY <1>2 DEF KeepsRead
<1>4. /\ conversations \in Seq(C!Conversation) /\ Len(conversations) <= MaxConversations
      /\ messages \in Seq(C!Message) /\ Len(messages) <= MaxMessages
  BY DEF ChatInv, ChatTables
<1>5. CASE C!Insert(h)
  <2>1. /\ conversations' = Append(conversations, chatCalls[h].row)
        /\ Len(conversations) < MaxConversations /\ chatCalls[h].row \in C!Conversation
    BY <1>1, <1>5 DEF C!Insert, C!At, ChatCall
  <2>2. /\ conversations' \in Seq(C!Conversation)
        /\ Len(conversations') = Len(conversations) + 1
    BY <1>4, <2>1
  <2>3. /\ DOMAIN conversations \subseteq DOMAIN conversations'
        /\ Len(conversations) + 1 <= MaxConversations
    <3>1. Len(conversations) + 1 <= MaxConversations
      BY <1>4, <2>1 DEF ChatConstants
    <3> QED
      BY <1>4, <2>2, <3>1
  <2>4. ChatTables'
    BY <1>2, <2>2, <2>3 DEF ChatInv, ChatTables
  <2> QED
    BY <1>2, <1>3, <1>5, <2>3, <2>4, ChatCallKept DEF C!Insert, C!Ends
<1>6. CASE C!Save(h)
  <2> PICK c \in DOMAIN conversations : chatCalls[h].conv = c
    BY <1>1, <1>6 DEF C!Save, C!At, ChatCall
  <2>1. chatCalls[h].row \in C!Conversation
    BY <1>1 DEF ChatCall
  <2>2. [conversations[c] EXCEPT !.deleted = TRUE] \in C!Conversation
    BY OpenedConversation DEF C!Conversation
  <2> PICK row \in C!Conversation : conversations' = [conversations EXCEPT ![c] = row]
    BY <1>6, <2>1, <2>2 DEF C!Save
  <2>3. ChatTables' /\ DOMAIN conversations' = DOMAIN conversations
    BY <1>2, ConversationWritten
  <2> QED
    BY <1>2, <1>3, <1>6, <2>3, ChatCallKept DEF C!Save, C!Ends
<1>7. CASE C!SavePreview(h)
  <2>1. /\ chatCalls[h] \in [step : {"preview", "emit"}, user : Users, conv : DOMAIN conversations,
                         message : DOMAIN messages, row : C!Conversation]
    BY <1>1, <1>7 DEF C!SavePreview, C!At, ChatCall
  <2> PICK c \in DOMAIN conversations : chatCalls[h].conv = c
    BY <2>1
  <2> DEFINE row == [chatCalls[h].row EXCEPT !.last = chatCalls[h].message, !.hidden = {}]
             call == [chatCalls[h] EXCEPT !.step = "emit"]
  <2>2. chatCalls[h].message \in 0 .. MaxMessages
    BY <1>4, <2>1 DEF ChatConstants
  <2>3. row \in C!Conversation
    BY <2>1, <2>2 DEF C!Conversation
  <2>4. conversations' = [conversations EXCEPT ![c] = row]
        /\ chatCalls' = [chatCalls EXCEPT ![h] = call]
    BY <1>7 DEF C!SavePreview
  <2>5. call \in ChatCall
    BY <2>1 DEF ChatCall
  <2> HIDE DEF row, call
  <2>6. ChatTables' /\ DOMAIN conversations' = DOMAIN conversations
    BY <1>2, <2>3, <2>4, ConversationWritten
  <2>7. call \in ChatCall'
    BY <1>2, <2>5, <2>6 DEF ChatCall
  <2> QED
    BY <1>2, <1>3, <2>4, <2>6, <2>7, ChatCallKept
<1> QED
  BY <1>5, <1>6, <1>7

LEMMA MessageInserted ==
    ASSUME ChatConstants, ChatInv, NEW h \in Handlers, C!InsertMessage(h)
    PROVE  ChatInv' /\ KeepsRead
<1>1. chatCalls[h] \in [step : {"message"}, user : Users, conv : DOMAIN conversations,
                    row : C!Conversation]
  BY DEF C!InsertMessage, C!At, C!Idle, ChatInv, ChatCall
<1>2. /\ conversations \in Seq(C!Conversation) /\ Len(conversations) <= MaxConversations
      /\ messages \in Seq(C!Message) /\ Len(messages) <= MaxMessages
      /\ Len(messages) < MaxMessages
  BY DEF C!InsertMessage, ChatInv, ChatTables
<1> DEFINE message == [in |-> chatCalls[h].conv, sender |-> chatCalls[h].user,
                       readBy |-> {chatCalls[h].user}, deleted |-> FALSE]
           call == [step |-> "preview", user |-> chatCalls[h].user, conv |-> chatCalls[h].conv,
                    message |-> Len(messages) + 1, row |-> chatCalls[h].row]
<1>3. message \in C!Message
  <2>1. chatCalls[h].conv \in 1 .. MaxConversations
    BY <1>1, <1>2 DEF ChatConstants
  <2> QED
    BY <1>1, <2>1 DEF C!Message
<1>4. /\ messages' = Append(messages, message) /\ chatCalls' = [chatCalls EXCEPT ![h] = call]
      /\ UNCHANGED <<conversations, received, notifications>>
  BY DEF C!InsertMessage
<1> HIDE DEF message
<1>5. /\ messages' \in Seq(C!Message) /\ Len(messages') = Len(messages) + 1
      /\ \A m \in DOMAIN messages : messages'[m] = messages[m]
  BY <1>2, <1>3, <1>4
<1>6. DOMAIN messages \subseteq DOMAIN messages' /\ Len(messages) + 1 \in DOMAIN messages'
  BY <1>2, <1>5
<1>7. ChatTables'
  <2>1. Len(messages') <= MaxMessages
    BY <1>2, <1>5 DEF ChatConstants
  <2> QED
    BY <1>4, <1>5, <1>6, <2>1 DEF ChatInv, ChatTables
<1>8. call \in ChatCall'
  BY <1>1, <1>4, <1>6 DEF ChatCall
<1> HIDE DEF call
<1>9. KeepsRead
  BY <1>5 DEF KeepsRead
<1> QED
  BY <1>4, <1>6, <1>7, <1>8, <1>9, ChatCallKept

LEMMA MessageEmitted ==
    ASSUME ChatInv, NEW h \in Handlers, C!Emit(h)
    PROVE  ChatInv' /\ KeepsRead
<1>1. chatCalls[h] \in [step : {"preview", "emit"}, user : Users, conv : DOMAIN conversations,
                    message : DOMAIN messages, row : C!Conversation]
  BY DEF C!Emit, C!At, C!Idle, ChatInv, ChatCall
<1> PICK m \in DOMAIN messages : chatCalls[h].message = m
  BY <1>1
<1>2. /\ UNCHANGED <<conversations, messages>> /\ chatCalls' = [chatCalls EXCEPT ![h] = Null]
      /\ received' \subseteq received \cup (Users \X {m})
      /\ \A n \in notifications' : n \in notifications \/ n.message = m
  BY DEF C!Emit, C!Ends
<1>3. ChatTables'
  BY <1>2 DEF ChatInv, ChatTables
<1> QED
  BY <1>2, <1>3, ChatCallKept DEF KeepsRead

\* Every message is there afterwards, with the same type and no fewer readers.
LEMMA MessagesRewritten ==
    ASSUME ChatInv, DOMAIN messages' = DOMAIN messages,
           messages' = [m \in DOMAIN messages |-> messages'[m]],
           \A m \in DOMAIN messages : messages'[m] \in C!Message,
           KeepsRead, UNCHANGED <<conversations, received, notifications, chatCalls>>
    PROVE  ChatInv' /\ KeepsRead
<1>1. messages \in Seq(C!Message) /\ Len(messages) <= MaxMessages
  BY DEF ChatInv, ChatTables
<1>2. messages' \in [1 .. Len(messages) -> C!Message] /\ Len(messages) \in Nat
  BY <1>1
<1>3. messages' \in Seq(C!Message)
  BY <1>2
<1>4. Len(messages') = Len(messages)
  BY <1>1, <1>2, <1>3
<1>5. ChatTables'
  BY <1>1, <1>3, <1>4 DEF ChatInv, ChatTables
<1> QED
  BY <1>5 DEF ChatInv, ChatCall

LEMMA ReadersKept ==
    ASSUME ChatInv, NEW u \in Users, C!MarkAsRead(u) \/ C!DeleteMessage(u)
    PROVE  ChatInv' /\ KeepsRead
<1>1. /\ messages \in Seq(C!Message)
      /\ \A m \in DOMAIN messages : messages[m] \in C!Message
      /\ messages = [m \in DOMAIN messages |-> messages[m]]
  BY DEF ChatInv, ChatTables
<1>2. UNCHANGED <<conversations, received, notifications, chatCalls>>
  BY DEF C!MarkAsRead, C!DeleteMessage
<1>3. CASE C!MarkAsRead(u)
  <2>1. PICK c \in DOMAIN conversations :
          messages' = [m \in DOMAIN messages |->
              IF messages[m].in = c /\ ~messages[m].deleted
              THEN [messages[m] EXCEPT !.readBy = @ \cup {u}] ELSE messages[m]]
    BY <1>3 DEF C!MarkAsRead
  <2>2. ASSUME NEW m \in DOMAIN messages
        PROVE  messages'[m] \in C!Message /\ messages[m].readBy \subseteq messages'[m].readBy
    <3>1. \/ messages'[m] = messages[m]
          \/ messages'[m] = [messages[m] EXCEPT !.readBy = @ \cup {u}]
      BY <2>1
    <3> QED
      BY <1>1, <3>1 DEF C!Message
  <2>3. DOMAIN messages' = DOMAIN messages /\ messages' = [m \in DOMAIN messages |-> messages'[m]]
    BY <2>1
  <2> QED
    BY <1>2, <2>2, <2>3, MessagesRewritten DEF KeepsRead
<1>4. CASE C!DeleteMessage(u)
  <2>1. PICK d \in DOMAIN messages : messages' = [messages EXCEPT ![d].deleted = TRUE]
    BY <1>4 DEF C!DeleteMessage
  <2>2. ASSUME NEW m \in DOMAIN messages
        PROVE  messages'[m] \in C!Message /\ messages[m].readBy \subseteq messages'[m].readBy
    <3>1. \/ messages'[m] = messages[m]
          \/ messages'[m] = [messages[m] EXCEPT !.deleted = TRUE]
      BY <2>1
    <3> QED
      BY <1>1, <3>1 DEF C!Message
  <2>3. DOMAIN messages' = DOMAIN messages /\ messages' = [m \in DOMAIN messages |-> messages'[m]]
    BY <1>1, <2>1
  <2> QED
    BY <1>2, <2>2, <2>3, MessagesRewritten DEF KeepsRead
<1> QED
  BY <1>3, <1>4

LEMMA NotificationListKept ==
    ASSUME ChatInv, NEW u \in Users,
           C!ReadNotifications(u) \/ C!DeleteNotifications(u) \/ C!Join(u) \/ C!LeaveRoom(u)
              \/ C!Disconnect(u)
    PROVE  ChatInv' /\ KeepsRead
<1>1. UNCHANGED <<conversations, messages, received, chatCalls>>
  BY DEF C!ReadNotifications, C!DeleteNotifications, C!Join, C!LeaveRoom, C!Disconnect
<1>2. \A n \in notifications' : n.message \in DOMAIN messages
  <2>1. CASE C!ReadNotifications(u)
    <3>1. PICK read \in SUBSET notifications :
            notifications' = (notifications \ read) \cup {[n EXCEPT !.read = TRUE] : n \in read}
      BY <2>1 DEF C!ReadNotifications
    <3>2. \A n \in notifications : [n EXCEPT !.read = TRUE].message = n.message
      OBVIOUS
    <3> QED
      BY <3>1, <3>2 DEF ChatInv, ChatTables
  <2>2. CASE C!DeleteNotifications(u) \/ UNCHANGED notifications
    BY <2>2 DEF C!DeleteNotifications, ChatInv, ChatTables
  <2> QED
    BY <2>1, <2>2 DEF C!Join, C!LeaveRoom, C!Disconnect
<1> QED
  BY <1>1, <1>2 DEF ChatInv, ChatTables, ChatCall, KeepsRead

LEMMA ChatStep ==
    ASSUME ChatConstants, ChatInv, [C!Next]_(C!vars)
    PROVE  ChatInv' /\ KeepsRead
<1>1. CASE UNCHANGED C!vars
  BY <1>1 DEF C!vars, ChatInv, ChatTables, ChatCall, KeepsRead
<1>2. ASSUME NEW h \in Handlers, C!Continue(h)
      PROVE  ChatInv' /\ KeepsRead
  BY <1>2, ConversationsKept, MessageInserted, MessageEmitted DEF C!Continue
<1>3. ASSUME NEW h \in Handlers, C!Lose(h)
      PROVE  ChatInv' /\ KeepsRead
  BY <1>3, ChatCallHeld DEF C!Lose, C!Ends
<1>4. ASSUME NEW h \in Handlers, NEW u \in Users,
             C!Create(h, u) \/ C!Edit(h, u) \/ C!Hide(h, u) \/ C!Leave(h, u) \/ C!Send(h, u)
      PROVE  ChatInv' /\ KeepsRead
  BY <1>4, ConversationRequests
<1>5. ASSUME NEW u \in Users, C!MarkAsRead(u) \/ C!DeleteMessage(u)
      PROVE  ChatInv' /\ KeepsRead
  BY <1>5, ReadersKept
<1>6. ASSUME NEW u \in Users,
             C!ReadNotifications(u) \/ C!DeleteNotifications(u) \/ C!Join(u)
                \/ C!LeaveRoom(u) \/ C!Disconnect(u)
      PROVE  ChatInv' /\ KeepsRead
  BY <1>6, NotificationListKept
<1> QED
  BY <1>1, <1>2, <1>3, <1>4, <1>5, <1>6 DEF C!Next

LEMMA ChatInductive ==
    ASSUME ChatConstants
    PROVE  C!Spec => []ChatInv
<1>1. C!Init => ChatInv
  BY ChatInit
<1>2. ChatInv /\ [C!Next]_(C!vars) => ChatInv'
  BY ChatStep
<1> QED
  BY <1>1, <1>2, PTL DEF C!Spec

\* The tables of the chat keep their types; what reached a socket, and what a
\* notification is about, was stored first (sendMessage, ChatListener).
THEOREM ChatTypesHold ==
    ASSUME ChatConstants
    PROVE  C!Spec => []C!TypeOK
<1>1. ChatInv => C!TypeOK
  BY DEF ChatInv, ChatTables, C!TypeOK
<1> QED
  BY <1>1, ChatInductive, PTL

\* What a member has read stays read, whoever reads, sends, deletes, hides and leaves at
\* the same time: read_by is only appended to in the database (markAsRead).
THEOREM ReadMessagesStayRead ==
    ASSUME ChatConstants
    PROVE  C!Spec => C!ReadStaysRead
<1>1. ChatInv /\ [C!Next]_(C!vars) => [KeepsRead]_(C!vars)
  BY ChatStep
<1>2. C!Spec => [][KeepsRead]_(C!vars)
  BY <1>1, ChatInductive, PTL DEF C!Spec
<1> QED
  BY <1>2 DEF C!ReadStaysRead, KeepsRead

-----------------------------------------------------------------------------
\* Referrals.

W == INSTANCE Referrals WITH
    subs <- payers, calls <- referralCalls, lost <- referralLost

\* What the module is used with: null, and the two marks, are nothing else.
ReferralsConstants ==
    /\ Null \notin W!LinkRow \cup W!Referral \cup W!Subscription \cup Companies
    /\ {"new", "reported"} \cap (Companies \cup {Null}) = {}

\* Company c has a customer who paid, and whose referral says so.
Earned(c) ==
    \E x \in invoices :
        referrals[x] # Null /\ referrals[x].referrer = c /\ referrals[x].status # "pending"

\* A subscription that company c may have.
Deserved(c, sub) == sub \in W!Subscription /\ (sub.discount => Earned(c))

\* A registration applies its referral to a company that is registered and has none.
Applying(call) == call.step \in {"apply", "referral"}

ReferralCallOK(call) ==
    /\ call.company \in Companies \cup {Null}
    /\ Applying(call) =>
          /\ call.company \in Companies /\ companies[call.company] # "new"
          /\ referrals[call.company] = Null /\ call.id \in Links
    /\ call.step = "referral" => call.link \in W!LinkRow /\ links[call.id] # Null
    /\ call.step = "link" => call.link \in W!LinkRow /\ call.id \in Links /\ links[call.id] # Null
    /\ call.step = "referredBy" => call.link \in W!LinkRow /\ call.company \in Companies
    /\ call.step \in {"checkout", "save", "invoice"} =>
          call.company \in Companies /\ Deserved(call.company, call.sub)

TaskOK(t) ==
    /\ t.company \in Companies
    /\ t.step = "approved" => t.company \in invoices
    /\ t.step = "findReferrer" => Earned(t.company)
    /\ t.step = "saveSub" => Deserved(t.company, t.copy)
    /\ t.step = "saveReferral" =>
          /\ referrals[t.company] # Null
          /\ t.copy \in W!Referral /\ t.copy.referrer = referrals[t.company].referrer
          /\ t.copy.status # "pending"
          /\ t.copy.status = "referred_rewarded" => t.company \in invoices

ReferralTables ==
    /\ companies \in [Companies -> Companies \cup {Null, "new"}]
    /\ links \in [Links -> W!LinkRow \cup {Null}]
    /\ referrals \in [Companies -> W!Referral \cup {Null}]
    /\ payers \in [Companies -> W!Subscription \cup {Null}]
    /\ checkouts \in [Payments -> Companies \cup {Null, "reported"}]
    /\ invoices \subseteq Companies
    /\ referralCalls \in [Handlers -> W!Call]
    /\ \A c \in Companies : referrals[c] # Null => companies[c] # "new"

\* A discount was earned, and who has a checkout has a subscription.
SubscriptionsOK ==
    /\ \A c \in Companies : payers[c] # Null => Deserved(c, payers[c])
    /\ \A p \in Payments : checkouts[p] \in Companies => payers[checkouts[p]] # Null

AppliesOnce ==
    \A g, h \in Handlers :
        Applying(referralCalls[g]) /\ Applying(referralCalls[h])
        /\ referralCalls[g].company = referralCalls[h].company => g = h

\* The rows are in order, and so is every copy that a call or a task holds.
ReferralsInv ==
    /\ ReferralTables
    /\ SubscriptionsOK
    /\ \A h \in Handlers : ReferralCallOK(referralCalls[h])
    /\ AppliesOnce
    /\ \A t \in tasks : TaskOK(t)

\* What no step takes back.
ReferralsGrow ==
    /\ invoices \subseteq invoices'
    /\ \A c \in Companies : companies[c] # "new" => companies'[c] # "new"
    /\ \A l \in Links : links[l] # Null => links'[l] # Null
    /\ \A c \in Companies : referrals[c] # Null =>
          /\ referrals'[c] # Null /\ referrals'[c].referrer = referrals[c].referrer
          /\ referrals[c].status # "pending" => referrals'[c].status # "pending"

LEMMA ReferralsInit ==
    ASSUME ReferralsConstants, W!Init
    PROVE  ReferralsInv
<1>1. W!Idle \in W!Call /\ W!Idle.step = "idle" /\ W!Idle.company = Null
  BY DEF W!Idle, W!Call
<1>2. ReferralTables
  BY <1>1 DEF W!Init, ReferralTables
<1>3. SubscriptionsOK
  <2>1. ASSUME NEW p \in Payments, checkouts[p] \in Companies
        PROVE  FALSE
    BY <2>1 DEF W!Init, ReferralsConstants
  <2> QED
    BY <2>1 DEF W!Init, SubscriptionsOK
<1>4. \A h \in Handlers : ReferralCallOK(referralCalls[h]) /\ ~Applying(referralCalls[h])
  BY <1>1 DEF W!Init, ReferralCallOK, Applying
<1> QED
  BY <1>2, <1>3, <1>4 DEF W!Init, ReferralsInv, AppliesOnce

LEMMA EarnedStays ==
    ASSUME ReferralTables, ReferralsGrow, NEW c, Earned(c)
    PROVE  Earned(c)'
<1> PICK x \in invoices :
      referrals[x] # Null /\ referrals[x].referrer = c /\ referrals[x].status # "pending"
  BY DEF Earned
<1>1. x \in Companies /\ x \in invoices'
  BY DEF ReferralTables, ReferralsGrow
<1>2. /\ referrals'[x] # Null /\ referrals'[x].referrer = c
      /\ referrals'[x].status # "pending"
  BY <1>1 DEF ReferralsGrow
<1> QED
  BY <1>1, <1>2 DEF Earned

LEMMA DeservedStays ==
    ASSUME ReferralTables, ReferralsGrow, NEW c, NEW sub, Deserved(c, sub)
    PROVE  Deserved(c, sub)'
BY EarnedStays DEF Deserved

LEMMA TaskStays ==
    ASSUME ReferralTables, ReferralsGrow, NEW t, TaskOK(t)
    PROVE  TaskOK(t)'
BY EarnedStays, DeservedStays DEF TaskOK, ReferralsGrow

LEMMA ReferralCallStays ==
    ASSUME ReferralTables, ReferralsGrow, NEW call, ReferralCallOK(call),
           Applying(call) => referrals'[call.company] = Null
    PROVE  ReferralCallOK(call)'
<1>1. call.step \in {"checkout", "save", "invoice"} => Deserved(call.company, call.sub)'
  BY DeservedStays DEF ReferralCallOK
<1> QED
  BY <1>1 DEF ReferralCallOK, ReferralsGrow, Applying

\* The rows of the subscriptions are as they were.
LEMMA SubscriptionsStand ==
    ASSUME ReferralTables, ReferralsGrow, SubscriptionsOK, UNCHANGED <<payers, checkouts>>
    PROVE  SubscriptionsOK'
<1>1. ASSUME NEW c \in Companies, payers[c] # Null
      PROVE  Deserved(c, payers[c])'
  <2> PICK sub \in W!Subscription : payers[c] = sub
    BY <1>1 DEF SubscriptionsOK, Deserved
  <2>1. Deserved(c, sub)'
    BY <1>1, DeservedStays DEF SubscriptionsOK
  <2> QED
    BY <2>1 DEF Deserved
<1> QED
  BY <1>1 DEF SubscriptionsOK

\* Call h goes on to another one, with the tasks as they are or with new ones.
LEMMA ReferralCallKept ==
    ASSUME ReferralsInv, ReferralTables', ReferralsGrow, SubscriptionsOK',
           NEW h \in Handlers, NEW call \in W!Call,
           referralCalls' = [referralCalls EXCEPT ![h] = call],
           ReferralCallOK(call)',
           \A g \in Handlers \ {h} : Applying(referralCalls[g]) =>
               /\ referrals'[referralCalls[g].company] = Null
               /\ Applying(call) => referralCalls[g].company # call.company,
           \A t \in tasks' : t \in tasks \/ TaskOK(t)'
    PROVE  ReferralsInv'
<1>1. /\ referralCalls'[h] = call /\ referralCalls \in [Handlers -> W!Call]
      /\ \A g \in Handlers \ {h} : referralCalls'[g] = referralCalls[g]
  BY DEF ReferralsInv, ReferralTables
<1>2. ASSUME NEW g \in Handlers
      PROVE  ReferralCallOK(referralCalls[g])'
  <2>1. CASE g = h
    BY <1>1, <2>1 DEF ReferralCallOK, Applying, Deserved, Earned
  <2>2. CASE g # h
    <3> PICK other \in W!Call : referralCalls[g] = other
      BY <1>1
    <3>1. ReferralCallOK(other) /\ (Applying(other) => referrals'[other.company] = Null)
      BY <2>2 DEF ReferralsInv
    <3>2. ReferralCallOK(other)'
      BY <3>1, ReferralCallStays DEF ReferralsInv
    <3> QED
      BY <1>1, <2>2, <3>2 DEF ReferralCallOK, Applying, Deserved, Earned
  <2> QED
    BY <2>1, <2>2
<1>3. AppliesOnce'
  BY <1>1 DEF ReferralsInv, AppliesOnce, Applying
<1>4. \A t \in tasks' : TaskOK(t)'
  BY TaskStays DEF ReferralsInv
<1> QED
  BY <1>2, <1>3, <1>4 DEF ReferralsInv

\* A task goes on to the next ones, with the calls as they are.
LEMMA ReferralTaskKept ==
    ASSUME ReferralsInv, ReferralTables', ReferralsGrow, SubscriptionsOK', UNCHANGED referralCalls,
           \A g \in Handlers : Applying(referralCalls[g]) =>
               referrals'[referralCalls[g].company] = Null,
           \A t \in tasks' : t \in tasks \/ TaskOK(t)'
    PROVE  ReferralsInv'
<1>1. ASSUME NEW g \in Handlers
      PROVE  ReferralCallOK(referralCalls[g])'
  <2> PICK call \in W!Call : referralCalls[g] = call
    BY DEF ReferralsInv, ReferralTables
  <2>1. ReferralCallOK(call)'
    BY ReferralCallStays DEF ReferralsInv
  <2> QED
    BY <2>1 DEF ReferralCallOK, Applying, Deserved, Earned
<1>2. \A t \in tasks' : TaskOK(t)'
  BY TaskStays DEF ReferralsInv
<1> QED
  BY <1>1, <1>2 DEF ReferralsInv, AppliesOnce, Applying

\* A call that ends relies on nothing.
LEMMA ReferralCallEnds ==
    W!Idle \in W!Call /\ ReferralCallOK(W!Idle)' /\ ~Applying(W!Idle)
BY DEF W!Idle, W!Call, ReferralCallOK, Applying

\* With the tables as they are, nothing is taken back.
LEMMA ReferralTablesStand ==
    ASSUME ReferralsInv, UNCHANGED <<companies, links, referrals, payers, checkouts>>,
           invoices \subseteq invoices', invoices' \subseteq Companies,
           referralCalls' \in [Handlers -> W!Call]
    PROVE  ReferralTables' /\ ReferralsGrow /\ SubscriptionsOK'
<1>1. ReferralTables' /\ ReferralsGrow
  BY DEF ReferralsInv, ReferralTables, ReferralsGrow
<1> QED
  BY <1>1, SubscriptionsStand DEF ReferralsInv

LEMMA LinkStepsKept ==
    ASSUME ReferralsConstants, ReferralsInv, NEW l \in Links,
           W!ExpireLink(l) \/ \E c \in Companies : W!GenerateLink(l, c)
    PROVE  ReferralsInv'
<1>1. /\ links \in [Links -> W!LinkRow \cup {Null}]
      /\ UNCHANGED <<companies, referrals, payers, checkouts, invoices, referralCalls, tasks>>
  BY DEF ReferralsInv, ReferralTables, W!ExpireLink, W!GenerateLink
<1>2. PICK row \in W!LinkRow : links' = [links EXCEPT ![l] = row]
  <2>1. CASE W!ExpireLink(l)
    <3>1. links[l] \in W!LinkRow /\ [links[l] EXCEPT !.fresh = FALSE] \in W!LinkRow
      BY <1>1, <2>1 DEF W!ExpireLink, W!LinkRow
    <3> QED
      BY <1>1, <2>1, <3>1 DEF W!ExpireLink
  <2>2. CASE \E c \in Companies : W!GenerateLink(l, c)
    BY <2>2 DEF W!GenerateLink, W!LinkRow
  <2> QED
    BY <2>1, <2>2
<1>3. /\ links' \in [Links -> W!LinkRow \cup {Null}]
      /\ \A k \in Links : links[k] # Null => links'[k] # Null
  BY <1>1, <1>2 DEF ReferralsConstants
<1>4. ReferralTables' /\ ReferralsGrow
  BY <1>1, <1>3 DEF ReferralsInv, ReferralTables, ReferralsGrow
<1>5. SubscriptionsOK'
  BY <1>1, <1>4, SubscriptionsStand DEF ReferralsInv
<1>6. \A g \in Handlers : Applying(referralCalls[g]) => referrals'[referralCalls[g].company] = Null
  BY <1>1 DEF ReferralsInv, ReferralCallOK
<1> QED
  BY <1>1, <1>4, <1>5, <1>6, ReferralTaskKept

\* A company that had no subscription takes one, without a discount.
LEMMA SubscribeKept ==
    ASSUME ReferralsConstants, ReferralsInv, NEW c \in Companies,
           NEW status \in {"active", "pending_payment"}, W!Subscribe(c, status)
    PROVE  ReferralsInv'
<1> DEFINE row == [status |-> status, discount |-> FALSE, ref |-> Null]
<1>1. row \in W!Subscription /\ ~row.discount
  BY DEF W!Subscription
<1>2. /\ payers' = [payers EXCEPT ![c] = row]
      /\ UNCHANGED <<companies, links, referrals, checkouts, invoices, referralCalls, tasks>>
  BY DEF W!Subscribe
<1> HIDE DEF row
<1>3. payers \in [Companies -> W!Subscription \cup {Null}]
  BY DEF ReferralsInv, ReferralTables
<1>4. /\ payers' \in [Companies -> W!Subscription \cup {Null}] /\ payers'[c] = row
      /\ \A d \in Companies : d # c => payers'[d] = payers[d]
  BY <1>1, <1>2, <1>3
<1>5. ReferralTables' /\ ReferralsGrow
  BY <1>2, <1>4 DEF ReferralsInv, ReferralTables, ReferralsGrow
<1>6. SubscriptionsOK'
  BY <1>1, <1>2, <1>4 DEF ReferralsConstants, ReferralsInv, SubscriptionsOK, Deserved, Earned
<1>7. \A g \in Handlers : Applying(referralCalls[g]) => referrals'[referralCalls[g].company] = Null
  BY <1>2 DEF ReferralsInv, ReferralCallOK
<1> QED
  BY <1>2, <1>5, <1>6, <1>7, ReferralTaskKept

\* A request about a link, before it saves its copy of the row.
LEMMA LinkCallStarts ==
    ASSUME NEW l, NEW row, NEW new,
           new = [W!Idle EXCEPT !.step = "link", !.id = l, !.link = row]
    PROVE  new = [step |-> "link", company |-> Null, id |-> l, link |-> row, sub |-> Null]
BY DEF W!Idle

\* Requests about links, and a call that is lost.
LEMMA LinkCallsKept ==
    ASSUME ReferralsConstants, ReferralsInv, NEW h \in Handlers,
           W!CrashCall(h) \/ \E l \in Links : W!DeactivateLink(h, l)
    PROVE  ReferralsInv'
<1>1. /\ UNCHANGED <<companies, links, referrals, payers, checkouts, invoices, tasks>>
      /\ links \in [Links -> W!LinkRow \cup {Null}] /\ referralCalls \in [Handlers -> W!Call]
      /\ invoices \subseteq Companies
  BY DEF ReferralsInv, ReferralTables, W!CrashCall, W!DeactivateLink
<1>2. PICK call \in W!Call :
        referralCalls' = [referralCalls EXCEPT ![h] = call] /\ ReferralCallOK(call)'
        /\ ~Applying(call)
  <2>1. CASE W!CrashCall(h)
    BY <2>1, ReferralCallEnds DEF W!CrashCall, W!End
  <2>2. ASSUME NEW l \in Links, W!DeactivateLink(h, l)
        PROVE  \E call \in W!Call :
                 referralCalls' = [referralCalls EXCEPT ![h] = call] /\ ReferralCallOK(call)'
                 /\ ~Applying(call)
    <3> PICK row : row = [links[l] EXCEPT !.active = FALSE]
      OBVIOUS
    <3>1. row \in W!LinkRow /\ links[l] # Null
      BY <1>1, <2>2 DEF W!DeactivateLink, W!LinkRow
    <3> DEFINE new == [step |-> "link", company |-> Null, id |-> l, link |-> row, sub |-> Null]
    <3>2. /\ new \in W!Call /\ new.step = "link" /\ new.company = Null
          /\ new.id = l /\ new.link = row
      BY <3>1 DEF W!Call
    <3>3. referralCalls' = [referralCalls EXCEPT ![h] = new]
      <4>1. new = [W!Idle EXCEPT !.step = "link", !.id = l, !.link = row]
        BY LinkCallStarts
      <4> HIDE DEF new
      <4> QED
        BY <4>1, <2>2 DEF W!DeactivateLink
    <3> HIDE DEF new
    <3>4. ~Applying(new)
      BY <3>2 DEF Applying
    <3>5. ReferralCallOK(new)'
      BY <1>1, <3>1, <3>2 DEF ReferralCallOK, Applying
    <3> QED
      BY <3>2, <3>3, <3>4, <3>5
  <2> QED
    BY <2>1, <2>2
<1>3. ReferralTables' /\ ReferralsGrow /\ SubscriptionsOK'
  BY <1>1, <1>2, ReferralTablesStand
<1>4. \A g \in Handlers : Applying(referralCalls[g]) => referrals'[referralCalls[g].company] = Null
  BY <1>1 DEF ReferralsInv, ReferralCallOK
<1> QED
  BY <1>1, <1>2, <1>3, <1>4, ReferralCallKept

\* The call that applies a referral, before it looks at the link.
LEMMA ApplyCallStarts ==
    ASSUME NEW c, NEW l
    PROVE  [W!Idle EXCEPT !.step = "apply", !.company = c, !.id = l]
              = [step |-> "apply", company |-> c, id |-> l, link |-> Null, sub |-> Null]
<1> PICK new : new = [W!Idle EXCEPT !.step = "apply", !.company = c, !.id = l]
  OBVIOUS
<1>1. new = [step |-> "apply", company |-> c, id |-> l, link |-> Null, sub |-> Null]
  BY DEF W!Idle
<1> QED
  BY <1>1

\* A company registers: it is not new any more.
LEMMA RegisterWrites ==
    ASSUME ReferralsConstants, ReferralsInv, NEW h \in Handlers, NEW c \in Companies,
           NEW l \in Links \cup {Null}, W!Register(h, c, l), referralCalls' \in [Handlers -> W!Call]
    PROVE  /\ UNCHANGED <<links, referrals, payers, checkouts, invoices, tasks>>
           /\ ReferralTables' /\ ReferralsGrow /\ SubscriptionsOK'
           /\ companies'[c] # "new" /\ referrals[c] = Null
           /\ \A g \in Handlers : Applying(referralCalls[g]) =>
                 referrals'[referralCalls[g].company] = Null /\ referralCalls[g].company # c
<1>1. /\ companies[c] = "new" /\ companies' = [companies EXCEPT ![c] = Null]
      /\ UNCHANGED <<links, referrals, payers, checkouts, invoices, tasks>>
      /\ companies \in [Companies -> Companies \cup {Null, "new"}]
  BY DEF W!Register, W!Registered, ReferralsInv, ReferralTables
<1>2. /\ companies' \in [Companies -> Companies \cup {Null, "new"}] /\ companies'[c] # "new"
      /\ \A d \in Companies : companies[d] # "new" => companies'[d] # "new"
  BY <1>1 DEF ReferralsConstants
<1>3. referrals[c] = Null
  BY <1>1 DEF ReferralsInv, ReferralTables
<1>4. \A g \in Handlers : Applying(referralCalls[g]) =>
          referrals'[referralCalls[g].company] = Null /\ referralCalls[g].company # c
  BY <1>1 DEF ReferralsInv, ReferralCallOK
<1>5. ReferralTables' /\ ReferralsGrow
  BY <1>1, <1>2 DEF ReferralsInv, ReferralTables, ReferralsGrow
<1>6. SubscriptionsOK'
  BY <1>1, <1>5, SubscriptionsStand DEF ReferralsInv
<1> QED
  BY <1>1, <1>2, <1>3, <1>4, <1>5, <1>6

\* The referral that the company comes with, if any, is about to be applied.
LEMMA ReferredRegisterKept ==
    ASSUME ReferralsConstants, ReferralsInv, NEW h \in Handlers, NEW c \in Companies,
           NEW l \in Links \cup {Null}, W!Register(h, c, l)
    PROVE  ReferralsInv'
<1>1. referralCalls \in [Handlers -> W!Call]
  BY DEF ReferralsInv, ReferralTables
<1>2. ASSUME l = Null
      PROVE  ReferralsInv'
  <2>1. UNCHANGED referralCalls /\ referralCalls' \in [Handlers -> W!Call]
    BY <1>1, <1>2 DEF W!Register
  <2> QED
    BY <2>1, RegisterWrites, ReferralTaskKept
<1>3. ASSUME l # Null
      PROVE  ReferralsInv'
  <2>1. l \in Links
    BY <1>3
  <2> DEFINE new == [step |-> "apply", company |-> c, id |-> l, link |-> Null, sub |-> Null]
  <2>2. new \in W!Call /\ new.step = "apply" /\ new.company = c /\ new.id = l
    BY <2>1 DEF W!Call
  <2> HIDE DEF new
  <2>3. referralCalls' = [referralCalls EXCEPT ![h] = new]
    BY <1>3, ApplyCallStarts DEF W!Register, new
  <2>4. referralCalls' \in [Handlers -> W!Call]
    BY <1>1, <2>2, <2>3
  <2>5. /\ UNCHANGED <<links, referrals, payers, checkouts, invoices, tasks>>
        /\ ReferralTables' /\ ReferralsGrow /\ SubscriptionsOK'
        /\ companies'[c] # "new" /\ referrals[c] = Null
        /\ \A g \in Handlers : Applying(referralCalls[g]) =>
              referrals'[referralCalls[g].company] = Null /\ referralCalls[g].company # c
    BY <2>4, RegisterWrites
  <2>6. ReferralCallOK(new)'
    BY <2>1, <2>2, <2>5 DEF ReferralCallOK, Applying
  <2>7. \A g \in Handlers \ {h} : Applying(referralCalls[g]) =>
            /\ referrals'[referralCalls[g].company] = Null
            /\ Applying(new) => referralCalls[g].company # new.company
    BY <2>2, <2>5
  <2>8. \A t \in tasks' : t \in tasks \/ TaskOK(t)'
    BY <2>5
  <2> QED
    BY <2>2, <2>3, <2>5, <2>6, <2>7, <2>8, ReferralCallKept
<1> QED
  BY <1>2, <1>3

\* What a call in flight is, and what it may become.
LEMMA ReferralCallEdits ==
    ASSUME NEW call \in W!Call
    PROVE  /\ \A step \in {"referral", "link", "referredBy", "save", "invoice"},
                 link \in W!LinkRow :
                  [call EXCEPT !.step = step, !.link = link] \in W!Call
           /\ \A step \in {"referredBy", "invoice"} : [call EXCEPT !.step = step] \in W!Call
BY DEF W!Call

\* The link is as the registration wants it, and the company has no referral yet.
LEMMA ApplyReferralKept ==
    ASSUME ReferralsConstants, ReferralsInv, NEW h \in Handlers, W!ApplyReferral(h)
    PROVE  ReferralsInv'
<1>1. /\ UNCHANGED <<companies, links, referrals, payers, checkouts, invoices, tasks>>
      /\ referralCalls \in [Handlers -> W!Call] /\ invoices \subseteq Companies
      /\ links \in [Links -> W!LinkRow \cup {Null}]
  BY DEF ReferralsInv, ReferralTables, W!ApplyReferral
<1>2. PICK old \in W!Call : referralCalls[h] = old
  BY <1>1
<1>3. /\ old.step = "apply" /\ Applying(old)
      /\ old.company \in Companies /\ companies[old.company] # "new"
      /\ referrals[old.company] = Null /\ old.id \in Links
  BY <1>2 DEF W!ApplyReferral, ReferralsInv, ReferralCallOK, Applying
<1>4. PICK new \in W!Call : /\ referralCalls' = [referralCalls EXCEPT ![h] = new]
                            /\ ReferralCallOK(new)'
                            /\ Applying(new) => new.company = old.company
  <2>1. CASE W!Usable(old.id)
    <3>1. links[old.id] \in W!LinkRow /\ links[old.id] # Null
      BY <1>1, <1>3, <2>1 DEF W!Usable
    <3> PICK new : new = [old EXCEPT !.step = "referral", !.link = links[old.id]]
      OBVIOUS
    <3>2. new \in W!Call
      BY <3>1, ReferralCallEdits
    <3>3. /\ new.step = "referral" /\ new.company = old.company /\ new.id = old.id
          /\ new.link = links[old.id]
      BY DEF W!Call
    <3>4. referralCalls' = [referralCalls EXCEPT ![h] = new]
      BY <1>2, <1>3, <2>1 DEF W!ApplyReferral
    <3>5. ReferralCallOK(new)'
      BY <1>1, <1>3, <3>1, <3>3 DEF ReferralCallOK, Applying
    <3> QED
      BY <3>2, <3>3, <3>4, <3>5
  <2>2. CASE ~W!Usable(old.id)
    <3>1. referralCalls' = [referralCalls EXCEPT ![h] = W!Idle]
      BY <1>2, <1>3, <2>2 DEF W!ApplyReferral, W!End
    <3> QED
      BY <3>1, ReferralCallEnds
  <2> QED
    BY <2>1, <2>2
<1>5. ReferralTables' /\ ReferralsGrow /\ SubscriptionsOK'
  BY <1>1, <1>4, ReferralTablesStand
<1>6. \A g \in Handlers \ {h} : Applying(referralCalls[g]) =>
          /\ referrals'[referralCalls[g].company] = Null
          /\ Applying(new) => referralCalls[g].company # new.company
  BY <1>1, <1>2, <1>3, <1>4 DEF ReferralsInv, ReferralCallOK, AppliesOnce
<1> QED
  BY <1>1, <1>4, <1>5, <1>6, ReferralCallKept

\* A registration that is under way goes on with its copy of the link.
LEMMA SaveReferralKept ==
    ASSUME ReferralsConstants, ReferralsInv, NEW h \in Handlers, W!SaveReferral(h)
    PROVE  ReferralsInv'
<1>1. /\ UNCHANGED <<companies, links, payers, checkouts, invoices, tasks>>
      /\ referralCalls \in [Handlers -> W!Call]
      /\ referrals \in [Companies -> W!Referral \cup {Null}]
  BY DEF ReferralsInv, ReferralTables, W!SaveReferral
<1>2. PICK old \in W!Call : referralCalls[h] = old
  BY <1>1
<1>3. /\ old.step = "referral" /\ Applying(old)
      /\ old.company \in Companies /\ companies[old.company] # "new"
      /\ referrals[old.company] = Null /\ old.id \in Links
      /\ old.link \in W!LinkRow /\ links[old.id] # Null
  BY <1>2 DEF W!SaveReferral, ReferralsInv, ReferralCallOK, Applying
<1>4. PICK row \in W!Referral : referrals' = [referrals EXCEPT ![old.company] = row]
  BY <1>2, <1>3 DEF W!SaveReferral, W!Referral, W!ReferralStatuses, W!LinkRow
<1>5. PICK link \in W!LinkRow :
        link = [old.link EXCEPT !.used = @ + 1, !.active = @ /\ old.link.used + 1 < MaxUses]
  <2>1. \A used \in Nat, active \in BOOLEAN :
          [old.link EXCEPT !.used = used, !.active = active] \in W!LinkRow
    BY <1>3 DEF W!LinkRow
  <2>2. old.link.used + 1 \in Nat
    BY <1>3 DEF W!LinkRow
  <2>3. (old.link.active /\ old.link.used + 1 < MaxUses) \in BOOLEAN
    BY Zenon
  <2> QED
    BY <2>1, <2>2, <2>3
<1> PICK new : new = [old EXCEPT !.step = "link", !.link = link]
  OBVIOUS
<1>6. new \in W!Call
  BY ReferralCallEdits
<1>7. new.step = "link" /\ new.company = old.company /\ new.id = old.id /\ new.link = link
  BY DEF W!Call
<1>8. referralCalls' = [referralCalls EXCEPT ![h] = new]
  BY <1>2, <1>5 DEF W!SaveReferral
<1>9. /\ referrals' \in [Companies -> W!Referral \cup {Null}]
      /\ \A c \in Companies : c # old.company => referrals'[c] = referrals[c]
  BY <1>1, <1>3, <1>4
<1>10. referralCalls' \in [Handlers -> W!Call]
  BY <1>1, <1>6, <1>8
<1>11. ReferralTables' /\ ReferralsGrow
  BY <1>1, <1>3, <1>9, <1>10 DEF ReferralsInv, ReferralTables, ReferralsGrow
<1>12. SubscriptionsOK'
  BY <1>1, <1>11, SubscriptionsStand DEF ReferralsInv
<1>13. ReferralCallOK(new)' /\ ~Applying(new)
  BY <1>1, <1>3, <1>7 DEF ReferralCallOK, Applying
<1>14. \A g \in Handlers \ {h} : Applying(referralCalls[g]) =>
           referrals'[referralCalls[g].company] = Null
  BY <1>2, <1>3, <1>9 DEF ReferralsInv, ReferralCallOK, AppliesOnce
<1> QED
  BY <1>1, <1>6, <1>8, <1>11, <1>12, <1>13, <1>14, ReferralCallKept

\* The copy of the link is saved, and a registration has its company to write.
LEMMA SaveLinkKept ==
    ASSUME ReferralsConstants, ReferralsInv, NEW h \in Handlers, W!SaveLink(h)
    PROVE  ReferralsInv'
<1>1. /\ UNCHANGED <<companies, referrals, payers, checkouts, invoices, tasks>>
      /\ referralCalls \in [Handlers -> W!Call]
      /\ links \in [Links -> W!LinkRow \cup {Null}]
  BY DEF ReferralsInv, ReferralTables, W!SaveLink
<1>2. PICK old \in W!Call : referralCalls[h] = old
  BY <1>1
<1>3. /\ old.step = "link" /\ old.company \in Companies \cup {Null}
      /\ old.id \in Links /\ old.link \in W!LinkRow /\ links[old.id] # Null
  BY <1>2 DEF W!SaveLink, ReferralsInv, ReferralCallOK
<1>4. PICK row \in W!LinkRow : links' = [links EXCEPT ![old.id] = row]
  <2>1. links[old.id] \in W!LinkRow
    BY <1>1, <1>3
  <2>2. [old.link EXCEPT !.fresh = links[old.id].fresh] \in W!LinkRow
    BY <1>3, <2>1 DEF W!LinkRow
  <2> QED
    BY <1>2, <2>2 DEF W!SaveLink
<1>5. /\ links' \in [Links -> W!LinkRow \cup {Null}]
      /\ \A k \in Links : links[k] # Null => links'[k] # Null
  BY <1>1, <1>3, <1>4 DEF ReferralsConstants
<1>6. PICK new \in W!Call : /\ referralCalls' = [referralCalls EXCEPT ![h] = new]
                            /\ ReferralCallOK(new)' /\ ~Applying(new)
  <2>1. CASE old.company = Null
    <3>1. referralCalls' = [referralCalls EXCEPT ![h] = W!Idle]
      BY <1>2, <2>1 DEF W!SaveLink, W!End
    <3> QED
      BY <3>1, ReferralCallEnds
  <2>2. CASE old.company # Null
    <3> PICK new : new = [old EXCEPT !.step = "referredBy"]
      OBVIOUS
    <3>1. new \in W!Call
      BY ReferralCallEdits
    <3>2. new.step = "referredBy" /\ new.company = old.company /\ new.link = old.link
      BY DEF W!Call
    <3>3. referralCalls' = [referralCalls EXCEPT ![h] = new]
      BY <1>2, <2>2 DEF W!SaveLink, W!Goto
    <3>4. ReferralCallOK(new)' /\ ~Applying(new)
      BY <1>1, <1>3, <2>2, <3>2 DEF ReferralCallOK, Applying
    <3> QED
      BY <3>1, <3>3, <3>4
  <2> QED
    BY <2>1, <2>2
<1>7. referralCalls' \in [Handlers -> W!Call]
  BY <1>1, <1>6
<1>8. ReferralTables' /\ ReferralsGrow
  BY <1>1, <1>5, <1>7 DEF ReferralsInv, ReferralTables, ReferralsGrow
<1>9. SubscriptionsOK'
  BY <1>1, <1>8, SubscriptionsStand DEF ReferralsInv
<1>10. \A g \in Handlers \ {h} : Applying(referralCalls[g]) =>
           referrals'[referralCalls[g].company] = Null
  BY <1>1 DEF ReferralsInv, ReferralCallOK
<1> QED
  BY <1>1, <1>6, <1>8, <1>9, <1>10, ReferralCallKept

\* The company is referred by the one that has the link.
LEMMA SaveReferredByKept ==
    ASSUME ReferralsConstants, ReferralsInv, NEW h \in Handlers, W!SaveReferredBy(h)
    PROVE  ReferralsInv'
<1>1. /\ UNCHANGED <<links, referrals, payers, checkouts, invoices, tasks>>
      /\ referralCalls \in [Handlers -> W!Call]
      /\ companies \in [Companies -> Companies \cup {Null, "new"}]
      /\ referralCalls' = [referralCalls EXCEPT ![h] = W!Idle]
  BY DEF ReferralsInv, ReferralTables, W!SaveReferredBy, W!End
<1>2. PICK old \in W!Call : referralCalls[h] = old
  BY <1>1
<1>3. /\ old.company \in Companies /\ old.link \in W!LinkRow
      /\ companies' = [companies EXCEPT ![old.company] = old.link.company]
  BY <1>2 DEF W!SaveReferredBy, ReferralsInv, ReferralCallOK
<1>4. old.link.company \in Companies /\ old.link.company # "new"
  BY <1>3 DEF W!LinkRow, ReferralsConstants
<1>5. /\ companies' \in [Companies -> Companies \cup {Null, "new"}]
      /\ \A c \in Companies : companies[c] # "new" => companies'[c] # "new"
  BY <1>1, <1>3, <1>4
<1>6. referralCalls' \in [Handlers -> W!Call]
  BY <1>1, ReferralCallEnds
<1>7. ReferralTables' /\ ReferralsGrow
  BY <1>1, <1>5, <1>6 DEF ReferralsInv, ReferralTables, ReferralsGrow
<1>8. SubscriptionsOK'
  BY <1>1, <1>7, SubscriptionsStand DEF ReferralsInv
<1>9. \A g \in Handlers \ {h} : Applying(referralCalls[g]) =>
          referrals'[referralCalls[g].company] = Null
  BY <1>1 DEF ReferralsInv, ReferralCallOK
<1> QED
  BY <1>1, <1>7, <1>8, <1>9, ReferralCallEnds, ReferralCallKept

\* A subscription is written with a row that its company may have.
LEMMA SubscriptionSaved ==
    ASSUME ReferralsConstants, ReferralsInv, UNCHANGED <<companies, links, referrals, checkouts>>,
           invoices \subseteq invoices', invoices' \subseteq Companies,
           referralCalls' \in [Handlers -> W!Call],
           NEW c \in Companies, NEW sub, Deserved(c, sub), payers' = [payers EXCEPT ![c] = sub]
    PROVE  ReferralTables' /\ ReferralsGrow /\ SubscriptionsOK'
<1>1. sub \in W!Subscription /\ sub # Null
  BY DEF Deserved, ReferralsConstants
<1>2. payers \in [Companies -> W!Subscription \cup {Null}]
  BY DEF ReferralsInv, ReferralTables
<1>3. /\ payers' \in [Companies -> W!Subscription \cup {Null}] /\ payers'[c] = sub
      /\ \A d \in Companies : d # c => payers'[d] = payers[d]
      /\ \A d \in Companies : payers[d] # Null => payers'[d] # Null
  BY <1>1, <1>2
<1>4. ReferralTables' /\ ReferralsGrow
  BY <1>3 DEF ReferralsInv, ReferralTables, ReferralsGrow
<1>5. ASSUME NEW d \in Companies, payers'[d] # Null
      PROVE  Deserved(d, payers[d])'
  <2> PICK row : row = IF d = c THEN sub ELSE payers[d]
    OBVIOUS
  <2>1. row = payers'[d] /\ Deserved(d, row)
    BY <1>3, <1>5 DEF ReferralsInv, SubscriptionsOK
  <2>2. Deserved(d, row)'
    BY <1>4, <2>1, DeservedStays DEF ReferralsInv
  <2> QED
    BY <2>1, <2>2 DEF Deserved
<1>6. SubscriptionsOK'
  BY <1>3, <1>5 DEF ReferralsInv, SubscriptionsOK, Deserved, Earned
<1> QED
  BY <1>4, <1>6

\* A payment call, whose copy of the subscription is one that its company may have.
LEMMA PaymentCallOK ==
    ASSUME NEW call, ReferralTables, ReferralsGrow, call.step \in {"checkout", "save", "invoice"},
           call.company \in Companies, Deserved(call.company, call.sub)
    PROVE  ReferralCallOK(call)' /\ ~Applying(call)
<1>1. Deserved(call.company, call.sub)'
  BY DeservedStays
<1> QED
  BY <1>1 DEF ReferralCallOK, Applying

\* The calls that payments make, as the source builds them.
LEMMA PaymentCallStarts ==
    ASSUME NEW step \in {"checkout", "save"}, NEW c, NEW sub
    PROVE  [W!Idle EXCEPT !.step = step, !.company = c, !.sub = sub]
              = [step |-> step, company |-> c, id |-> Null, link |-> Null, sub |-> sub]
<1> PICK new : new = [W!Idle EXCEPT !.step = step, !.company = c, !.sub = sub]
  OBVIOUS
<1>1. new = [step |-> step, company |-> c, id |-> Null, link |-> Null, sub |-> sub]
  BY DEF W!Idle
<1> QED
  BY <1>1

\* A company that has a subscription asks for a checkout.
LEMMA CreateCheckoutKept ==
    ASSUME ReferralsConstants, ReferralsInv, NEW h \in Handlers, NEW c \in Companies,
           NEW p \in Payments, W!CreateCheckout(h, c, p)
    PROVE  ReferralsInv'
<1>1. /\ UNCHANGED <<companies, links, referrals, payers, invoices, tasks>>
      /\ referralCalls \in [Handlers -> W!Call] /\ payers[c] # Null
      /\ checkouts \in [Payments -> Companies \cup {Null, "reported"}]
      /\ checkouts' = [checkouts EXCEPT ![p] = c]
  BY DEF ReferralsInv, ReferralTables, W!CreateCheckout, W!Subscribed
<1>2. PICK sub \in W!Subscription : sub = [payers[c] EXCEPT !.ref = p] /\ Deserved(c, sub)
  <2>1. payers[c] \in W!Subscription /\ (payers[c].discount => Earned(c))
    BY <1>1 DEF ReferralsInv, SubscriptionsOK, Deserved
  <2>2. /\ [payers[c] EXCEPT !.ref = p] \in W!Subscription
        /\ [payers[c] EXCEPT !.ref = p].discount = payers[c].discount
    BY <2>1 DEF W!Subscription
  <2> QED
    BY <2>1, <2>2 DEF Deserved
<1> DEFINE new == [step |-> "checkout", company |-> c, id |-> Null, link |-> Null, sub |-> sub]
<1>3. new \in W!Call /\ new.step = "checkout" /\ new.company = c /\ new.sub = sub
  BY DEF W!Call
<1> HIDE DEF new
<1>4. referralCalls' = [referralCalls EXCEPT ![h] = new]
  <2>1. referralCalls' = [referralCalls EXCEPT ![h] =
                     [W!Idle EXCEPT !.step = "checkout", !.company = c, !.sub = sub]]
    BY <1>2 DEF W!CreateCheckout
  <2>2. new = [W!Idle EXCEPT !.step = "checkout", !.company = c, !.sub = sub]
    BY PaymentCallStarts DEF new
  <2> QED
    BY <2>1, <2>2
<1>5. /\ checkouts' \in [Payments -> Companies \cup {Null, "reported"}]
      /\ \A q \in Payments : checkouts'[q] = checkouts[q] \/ checkouts'[q] = c
  BY <1>1
<1>6. referralCalls' \in [Handlers -> W!Call]
  BY <1>1, <1>3, <1>4
<1>7. ReferralTables' /\ ReferralsGrow
  BY <1>1, <1>5, <1>6 DEF ReferralsInv, ReferralTables, ReferralsGrow
<1>8. SubscriptionsOK'
  BY <1>1, <1>5 DEF ReferralsInv, SubscriptionsOK, Deserved, Earned
<1>9. ReferralCallOK(new)' /\ ~Applying(new)
  BY <1>2, <1>3, <1>7, PaymentCallOK DEF ReferralsInv
<1>10. \A g \in Handlers \ {h} : Applying(referralCalls[g]) =>
           referrals'[referralCalls[g].company] = Null
  BY <1>1 DEF ReferralsInv, ReferralCallOK
<1> QED
  BY <1>1, <1>3, <1>4, <1>7, <1>8, <1>9, <1>10, ReferralCallKept

\* The copy that a payment call holds is saved, and the call ends or goes on.
LEMMA SaveCopyKept ==
    ASSUME ReferralsConstants, ReferralsInv, NEW h \in Handlers,
           W!SaveCheckout(h) \/ W!SavePayment(h)
    PROVE  ReferralsInv'
<1>1. /\ UNCHANGED <<companies, links, referrals, checkouts, invoices, tasks>>
      /\ referralCalls \in [Handlers -> W!Call] /\ invoices \subseteq Companies
  BY DEF ReferralsInv, ReferralTables, W!SaveCheckout, W!SavePayment
<1>2. PICK old \in W!Call : referralCalls[h] = old
  BY <1>1
<1>3. /\ old.step \in {"checkout", "save"} /\ old.company \in Companies
      /\ Deserved(old.company, old.sub)
  BY <1>2 DEF W!SaveCheckout, W!SavePayment, ReferralsInv, ReferralCallOK
<1>4. payers' = [payers EXCEPT ![old.company] = old.sub]
  BY <1>2 DEF W!SaveCheckout, W!SavePayment
<1>5. PICK new \in W!Call :
        /\ referralCalls' = [referralCalls EXCEPT ![h] = new]
        /\ new = W!Idle \/ /\ new.step = "invoice" /\ new.company = old.company
                           /\ new.sub = old.sub
  <2>1. CASE referralCalls' = [referralCalls EXCEPT ![h] = W!Idle]
    BY <2>1, ReferralCallEnds
  <2>2. CASE referralCalls' = [referralCalls EXCEPT ![h].step = "invoice"]
    <3> PICK new : new = [old EXCEPT !.step = "invoice"]
      OBVIOUS
    <3>1. new \in W!Call
      BY ReferralCallEdits
    <3>2. new.step = "invoice" /\ new.company = old.company /\ new.sub = old.sub
      BY DEF W!Call
    <3>3. referralCalls' = [referralCalls EXCEPT ![h] = new]
      BY <1>2, <2>2
    <3> QED
      BY <3>1, <3>2, <3>3
  <2> QED
    BY <2>1, <2>2 DEF W!SaveCheckout, W!SavePayment, W!End, W!Goto
<1>6. referralCalls' \in [Handlers -> W!Call]
  BY <1>1, <1>5
<1>7. ReferralTables' /\ ReferralsGrow /\ SubscriptionsOK'
  BY <1>1, <1>3, <1>4, <1>6, SubscriptionSaved
<1>8. ReferralCallOK(new)' /\ ~Applying(new)
  <2>1. CASE new = W!Idle
    BY <2>1, ReferralCallEnds
  <2>2. CASE new # W!Idle
    BY <1>3, <1>5, <1>7, <2>2, PaymentCallOK DEF ReferralsInv
  <2> QED
    BY <2>1, <2>2
<1>9. \A g \in Handlers \ {h} : Applying(referralCalls[g]) =>
          referrals'[referralCalls[g].company] = Null
  BY <1>1 DEF ReferralsInv, ReferralCallOK
<1> QED
  BY <1>1, <1>5, <1>7, <1>8, <1>9, ReferralCallKept

\* A payment is reported, and what it is for has a subscription.
LEMMA PaymentEventKept ==
    ASSUME ReferralsConstants, ReferralsInv, NEW h \in Handlers, NEW p \in Payments,
           NEW status \in {"active", "pending_payment", "canceled"},
           W!PaymentEvent(h, p, status)
    PROVE  ReferralsInv'
<1>1. /\ UNCHANGED <<companies, links, referrals, payers, invoices, tasks>>
      /\ referralCalls \in [Handlers -> W!Call]
      /\ checkouts \in [Payments -> Companies \cup {Null, "reported"}]
      /\ checkouts[p] \notin {Null, "reported"}
      /\ checkouts' = [checkouts EXCEPT ![p] = "reported"]
  BY DEF ReferralsInv, ReferralTables, W!PaymentEvent
<1>2. PICK c \in Companies : checkouts[p] = c
  BY <1>1
<1>3. payers[c] \in W!Subscription /\ (payers[c].discount => Earned(c))
  BY <1>2 DEF ReferralsInv, SubscriptionsOK, Deserved
<1>4. /\ checkouts' \in [Payments -> Companies \cup {Null, "reported"}]
      /\ \A q \in Payments : checkouts'[q] \in Companies => checkouts'[q] = checkouts[q]
  BY <1>1 DEF ReferralsConstants
<1>5. SubscriptionsOK'
  BY <1>1, <1>4 DEF ReferralsInv, SubscriptionsOK, Deserved, Earned
<1>6. \A g \in Handlers : Applying(referralCalls[g]) => referrals'[referralCalls[g].company] = Null
  BY <1>1 DEF ReferralsInv, ReferralCallOK
<1>7. ASSUME referralCalls' \in [Handlers -> W!Call]
      PROVE  ReferralTables' /\ ReferralsGrow
  BY <1>1, <1>4, <1>7 DEF ReferralsInv, ReferralTables, ReferralsGrow
<1>8. CASE UNCHANGED referralCalls
  <2>1. ReferralTables' /\ ReferralsGrow
    BY <1>1, <1>7, <1>8
  <2> QED
    BY <1>1, <1>5, <1>6, <1>8, <2>1, ReferralTaskKept
<1>9. CASE ~UNCHANGED referralCalls
  <2>1. PICK sub \in W!Subscription :
          sub = [payers[c] EXCEPT !.status = status] /\ Deserved(c, sub)
    <3>1. /\ [payers[c] EXCEPT !.status = status] \in W!Subscription
          /\ [payers[c] EXCEPT !.status = status].discount = payers[c].discount
      BY <1>3 DEF W!Subscription
    <3> QED
      BY <1>3, <3>1 DEF Deserved
  <2> DEFINE new == [step |-> "save", company |-> c, id |-> Null, link |-> Null, sub |-> sub]
  <2>2. new \in W!Call /\ new.step = "save" /\ new.company = c /\ new.sub = sub
    BY DEF W!Call
  <2> HIDE DEF new
  <2>3. referralCalls' = [referralCalls EXCEPT ![h] = new]
    <3>1. referralCalls' = [referralCalls EXCEPT ![h] =
                       [W!Idle EXCEPT !.step = "save", !.company = c, !.sub = sub]]
      BY <1>2, <1>9, <2>1 DEF W!PaymentEvent
    <3>2. new = [W!Idle EXCEPT !.step = "save", !.company = c, !.sub = sub]
      BY PaymentCallStarts DEF new
    <3> QED
      BY <3>1, <3>2
  <2>4. ReferralTables' /\ ReferralsGrow
    BY <1>1, <1>7, <2>2, <2>3
  <2>5. ReferralCallOK(new)' /\ ~Applying(new)
    BY <2>1, <2>2, <2>4, PaymentCallOK DEF ReferralsInv
  <2> QED
    BY <1>1, <1>5, <1>6, <2>2, <2>3, <2>4, <2>5, ReferralCallKept
<1> QED
  BY <1>8, <1>9

\* The payment has an invoice, and what the webhook does not wait for may start.
LEMMA SaveInvoiceKept ==
    ASSUME ReferralsConstants, ReferralsInv, NEW h \in Handlers, W!SaveInvoice(h)
    PROVE  ReferralsInv'
<1>1. /\ UNCHANGED <<companies, links, referrals, payers, checkouts>>
      /\ referralCalls \in [Handlers -> W!Call] /\ invoices \subseteq Companies
      /\ referralCalls' = [referralCalls EXCEPT ![h] = W!Idle]
  BY DEF ReferralsInv, ReferralTables, W!SaveInvoice, W!End
<1>2. PICK old \in W!Call : referralCalls[h] = old
  BY <1>1
<1>3. old.company \in Companies /\ Deserved(old.company, old.sub)
  BY <1>2 DEF W!SaveInvoice, ReferralsInv, ReferralCallOK
<1>4. invoices' = invoices \cup {old.company}
  BY <1>2 DEF W!SaveInvoice
<1>5. referralCalls' \in [Handlers -> W!Call]
  BY <1>1, ReferralCallEnds
<1>6. ReferralTables' /\ ReferralsGrow /\ SubscriptionsOK'
  BY <1>1, <1>3, <1>4, <1>5, ReferralTablesStand
<1>7. ASSUME NEW t \in tasks', t \notin tasks
      PROVE  TaskOK(t)'
  <2>1. CASE t = W!Task("approved", old.company, Null)
    BY <1>3, <1>4, <2>1 DEF W!Task, TaskOK
  <2>2. CASE t = W!Task("reward", old.company, Null)
    BY <1>3, <2>2 DEF W!Task, TaskOK
  <2>3. CASE t = W!Task("saveSub", old.company, [old.sub EXCEPT !.discount = FALSE])
    <3>1. PICK sub \in W!Subscription :
            sub = [old.sub EXCEPT !.discount = FALSE] /\ ~sub.discount
      <4>1. old.sub \in W!Subscription
        BY <1>3 DEF Deserved
      <4>2. /\ [old.sub EXCEPT !.discount = FALSE] \in W!Subscription
            /\ ~[old.sub EXCEPT !.discount = FALSE].discount
        BY <4>1 DEF W!Subscription
      <4> QED
        BY <4>2
    <3>2. t.step = "saveSub" /\ t.company = old.company /\ t.copy = sub
      BY <2>3, <3>1 DEF W!Task
    <3> QED
      BY <1>3, <3>1, <3>2 DEF TaskOK, Deserved
  <2> QED
    BY <1>2, <1>7, <2>1, <2>2, <2>3 DEF W!SaveInvoice
<1>8. \A g \in Handlers \ {h} : Applying(referralCalls[g]) =>
          referrals'[referralCalls[g].company] = Null
  BY <1>1 DEF ReferralsInv, ReferralCallOK
<1> QED
  BY <1>1, <1>6, <1>7, <1>8, ReferralCallEnds, ReferralCallKept

\* A task that writes nothing, when what it goes on to is in order.
LEMMA ReferralTaskGoesOn ==
    ASSUME ReferralsConstants, ReferralsInv, NEW t, NEW next, W!Becomes(t, next),
           UNCHANGED <<companies, links, referrals, payers, checkouts, invoices, referralCalls>>,
           \A s \in next : TaskOK(s)
    PROVE  ReferralsInv'
<1>1. ReferralTables' /\ ReferralsGrow /\ SubscriptionsOK'
  BY ReferralTablesStand DEF ReferralsInv, ReferralTables
<1>2. \A s \in tasks' : s \in tasks \/ TaskOK(s)'
  BY <1>1, TaskStays DEF W!Becomes, ReferralsInv
<1>3. \A g \in Handlers : Applying(referralCalls[g]) => referrals'[referralCalls[g].company] = Null
  BY DEF ReferralsInv, ReferralCallOK
<1> QED
  BY <1>1, <1>2, <1>3, ReferralTaskKept

\* The tasks that only load, and a task that is lost.
LEMMA LoadTasksKept ==
    ASSUME ReferralsConstants, ReferralsInv, NEW t \in tasks,
           W!LoadReferral(t) \/ W!FindReferrer(t) \/ W!LoadRewarded(t) \/ W!CrashTask(t)
    PROVE  ReferralsInv'
<1>1. /\ UNCHANGED <<companies, links, referrals, payers, checkouts, invoices, referralCalls>>
      /\ referrals \in [Companies -> W!Referral \cup {Null}]
  BY DEF ReferralsInv, ReferralTables, W!LoadReferral, W!FindReferrer, W!LoadRewarded,
         W!CrashTask
<1>2. TaskOK(t) /\ t.company \in Companies
  BY DEF ReferralsInv, TaskOK
<1>3. PICK next : W!Becomes(t, next) /\ \A s \in next : TaskOK(s)
  <2>1. CASE W!Becomes(t, {})
    BY <2>1
  <2>2. CASE W!LoadReferral(t) /\ W!PendingReferral(t.company)
    <3>1. PICK copy \in W!Referral :
            /\ copy = [referrals[t.company] EXCEPT !.status = "referred_rewarded"]
            /\ copy.referrer = referrals[t.company].referrer
            /\ copy.status = "referred_rewarded"
      <4> DEFINE c == t.company
      <4>1. referrals[c] \in W!Referral
        BY <1>1, <1>2, <2>2 DEF W!PendingReferral
      <4>2. /\ [referrals[c] EXCEPT !.status = "referred_rewarded"] \in W!Referral
            /\ [referrals[c] EXCEPT !.status = "referred_rewarded"].referrer
                  = referrals[c].referrer
            /\ [referrals[c] EXCEPT !.status = "referred_rewarded"].status
                  = "referred_rewarded"
        <5> HIDE DEF c
        <5> QED
          BY <4>1 DEF W!Referral, W!ReferralStatuses
      <4> QED
        BY <4>2
    <3>2. W!Becomes(t, {W!Task("saveReferral", t.company, copy)})
      BY <2>2, <3>1 DEF W!LoadReferral
    <3>3. TaskOK(W!Task("saveReferral", t.company, copy))
      BY <1>2, <2>2, <3>1 DEF TaskOK, W!Task, W!PendingReferral, W!LoadReferral
    <3> QED
      BY <3>2, <3>3
  <2>3. CASE W!FindReferrer(t) /\ t.company \in W!Subscribed
    <3>1. Earned(t.company) /\ payers[t.company] \in W!Subscription
      BY <1>2, <2>3 DEF W!FindReferrer, W!Subscribed, TaskOK, ReferralsInv, SubscriptionsOK,
                        Deserved
    <3>2. PICK copy \in W!Subscription : copy = [payers[t.company] EXCEPT !.discount = TRUE]
      BY <3>1 DEF W!Subscription
    <3>3. \/ W!Becomes(t, {W!Task("saveSub", t.company, copy)})
          \/ W!Becomes(t, {})
      BY <2>3, <3>2 DEF W!FindReferrer
    <3>4. TaskOK(W!Task("saveSub", t.company, copy))
      BY <1>2, <3>1 DEF TaskOK, W!Task, Deserved
    <3> QED
      BY <3>3, <3>4
  <2>4. ASSUME NEW c \in Companies, referrals[c] # Null,
               W!Becomes(t, {W!Task("saveReferral", c,
                                    [referrals[c] EXCEPT !.status = "completed"])})
        PROVE  \E next : W!Becomes(t, next) /\ \A s \in next : TaskOK(s)
    <3>1. PICK copy \in W!Referral :
            /\ copy = [referrals[c] EXCEPT !.status = "completed"]
            /\ copy.referrer = referrals[c].referrer /\ copy.status = "completed"
      <4>1. referrals[c] \in W!Referral
        BY <1>1, <2>4
      <4>2. /\ [referrals[c] EXCEPT !.status = "completed"] \in W!Referral
            /\ [referrals[c] EXCEPT !.status = "completed"].referrer = referrals[c].referrer
            /\ [referrals[c] EXCEPT !.status = "completed"].status = "completed"
        BY <4>1 DEF W!Referral, W!ReferralStatuses
      <4> QED
        BY <4>2
    <3>2. TaskOK(W!Task("saveReferral", c, copy))
      BY <2>4, <3>1 DEF TaskOK, W!Task
    <3> QED
      BY <2>4, <3>1, <3>2
  <2> QED
    BY <2>1, <2>2, <2>3, <2>4
    DEF W!LoadReferral, W!FindReferrer, W!LoadRewarded, W!CrashTask
<1> QED
  BY <1>1, <1>3, ReferralTaskGoesOn

\* A referral that was rewarded, or completed, is saved for the company that it had.
LEMMA SaveRewardedKept ==
    ASSUME ReferralsConstants, ReferralsInv, NEW t \in tasks, W!SaveRewarded(t)
    PROVE  ReferralsInv'
<1>1. /\ UNCHANGED <<companies, links, payers, checkouts, invoices, referralCalls>>
      /\ referrals \in [Companies -> W!Referral \cup {Null}]
      /\ referrals' = [referrals EXCEPT ![t.company] = t.copy]
  BY DEF ReferralsInv, ReferralTables, W!SaveRewarded
<1>2. /\ t.company \in Companies /\ referrals[t.company] # Null
      /\ t.copy \in W!Referral /\ t.copy.referrer = referrals[t.company].referrer
      /\ t.copy.status # "pending"
      /\ t.copy.status = "referred_rewarded" => t.company \in invoices
  BY DEF ReferralsInv, TaskOK, W!SaveRewarded
<1>3. /\ referrals' \in [Companies -> W!Referral \cup {Null}]
      /\ referrals'[t.company] = t.copy /\ t.copy # Null
      /\ \A c \in Companies : c # t.company => referrals'[c] = referrals[c]
  BY <1>1, <1>2 DEF ReferralsConstants
<1>4. ReferralTables' /\ ReferralsGrow
  BY <1>1, <1>2, <1>3 DEF ReferralsInv, ReferralTables, ReferralsGrow
<1>5. SubscriptionsOK'
  BY <1>1, <1>4, SubscriptionsStand DEF ReferralsInv
<1>6. \A g \in Handlers : Applying(referralCalls[g]) => referrals'[referralCalls[g].company] = Null
  BY <1>1, <1>2, <1>3 DEF ReferralsInv, ReferralCallOK
<1>7. ASSUME NEW s \in tasks', s \notin tasks
      PROVE  TaskOK(s)'
  <2>1. /\ s = W!Task("findReferrer", t.copy.referrer, Null)
        /\ t.copy.status = "referred_rewarded"
    BY <1>7 DEF W!SaveRewarded, W!Becomes
  <2>2. s.step = "findReferrer" /\ s.company = t.copy.referrer
    BY <2>1 DEF W!Task
  <2>3. s.company \in Companies
    BY <1>2, <2>2 DEF W!Referral
  <2>4. Earned(t.copy.referrer)'
    BY <1>1, <1>2, <1>3, <2>1 DEF Earned
  <2> QED
    BY <2>2, <2>3, <2>4 DEF TaskOK, Earned
<1> QED
  BY <1>1, <1>4, <1>5, <1>6, <1>7, ReferralTaskKept

\* A subscription is saved by a task.
LEMMA SaveSubscriptionKept ==
    ASSUME ReferralsConstants, ReferralsInv, NEW t \in tasks, W!SaveSubscription(t)
    PROVE  ReferralsInv'
<1>1. /\ UNCHANGED <<companies, links, referrals, checkouts, invoices, referralCalls>>
      /\ payers' = [payers EXCEPT ![t.company] = t.copy]
      /\ t.company \in Companies /\ Deserved(t.company, t.copy)
      /\ \A s \in tasks' : s \in tasks
      /\ invoices \subseteq Companies /\ referralCalls \in [Handlers -> W!Call]
  BY DEF ReferralsInv, ReferralTables, TaskOK, W!SaveSubscription, W!Becomes
<1>2. ReferralTables' /\ ReferralsGrow /\ SubscriptionsOK'
  BY <1>1, SubscriptionSaved
<1>3. \A g \in Handlers : Applying(referralCalls[g]) => referrals'[referralCalls[g].company] = Null
  BY <1>1 DEF ReferralsInv, ReferralCallOK
<1> QED
  BY <1>1, <1>2, <1>3, ReferralTaskKept

LEMMA ReferralsStep ==
    ASSUME ReferralsConstants, ReferralsInv, W!Next
    PROVE  ReferralsInv'
<1>1. ASSUME NEW h \in Handlers, W!CallStep(h)
      PROVE  ReferralsInv'
  BY <1>1, ApplyReferralKept, SaveReferralKept, SaveLinkKept, SaveReferredByKept,
     SaveCopyKept, SaveInvoiceKept, LinkCallsKept DEF W!CallStep
<1>2. ASSUME NEW t \in tasks, W!TaskStep(t) \/ W!CrashTask(t)
      PROVE  ReferralsInv'
  BY <1>2, LoadTasksKept, SaveRewardedKept, SaveSubscriptionKept DEF W!TaskStep
<1> QED
  BY <1>1, <1>2, LinkStepsKept, SubscribeKept, LinkCallsKept, ReferredRegisterKept,
     CreateCheckoutKept, PaymentEventKept DEF W!Next

\* A company that has a discount to spend referred another, whose payment was approved
\* and whose referral says so: no older copy of a subscription, no task that the
\* webhook does not wait for, and no step that is lost gives a discount for nothing
\* (createReferral, onReferredPaymentApproved, onReferrerRewarded, the webhook).
THEOREM DiscountsAreEarned ==
    ASSUME ReferralsConstants
    PROVE  W!Spec => []W!DiscountIsEarned
<1>1. W!Init => ReferralsInv
  BY ReferralsInit
<1>2. ReferralsInv /\ [W!Next]_W!vars => ReferralsInv'
  <2>1. ASSUME ReferralsInv, UNCHANGED W!vars
        PROVE  ReferralsInv'
    <3>1. UNCHANGED <<companies, links, referrals, payers, checkouts, invoices, tasks,
                      referralCalls>>
      BY <2>1 DEF W!vars
    <3>2. ReferralTables' /\ ReferralsGrow /\ SubscriptionsOK'
      BY <2>1, <3>1, ReferralTablesStand DEF ReferralsInv, ReferralTables
    <3>3. \A g \in Handlers : Applying(referralCalls[g]) =>
              referrals'[referralCalls[g].company] = Null
      BY <2>1, <3>1 DEF ReferralsInv, ReferralCallOK
    <3> QED
      BY <2>1, <3>1, <3>2, <3>3, ReferralTaskKept
  <2> QED
    BY <2>1, ReferralsStep
<1>3. ReferralsInv => W!DiscountIsEarned
  <2>1. ASSUME ReferralsInv, NEW c \in W!Subscribed, payers[c].discount
        PROVE  \E x \in invoices : /\ referrals[x] # Null /\ referrals[x].referrer = c
                                   /\ ~W!PendingReferral(x)
    BY <2>1 DEF ReferralsInv, SubscriptionsOK, Deserved, Earned, W!Subscribed,
                W!PendingReferral
  <2> QED
    BY <2>1 DEF W!DiscountIsEarned
<1> QED
  BY <1>1, <1>2, <1>3, PTL DEF W!Spec
===============================================================================
