---------------------------- MODULE DesksProofs ----------------------------
(***************************************************************************)
(* Proofs about each desk of the office by itself: accounts and sessions,  *)
(* what the list and document pages offer, the records and the dialogs     *)
(* that edit them, the subscription, the notices, the figures - for any    *)
(* users, windows, calls, rows, codes, requests, operators, members,       *)
(* products and days.                                                      *)
(***************************************************************************)
EXTENDS Accounts, Sessions, Lists, Pages, Catalogue, Dialogs, Customers, Subscriptions,
        Notices, Reports, FiniteSetTheorems, TLAPS

----------------------------------------------------------------------------
(* Administrators.                                                         *)

AccountsTyped ==
  /\ DOMAIN accounts = User
  /\ \A u \in User :
       \/ accounts[u] = NoAccount
       \/ /\ DOMAIN accounts[u] = {"exists", "org", "role", "status", "email"}
          /\ accounts[u].exists = TRUE

Change(h) == underway[h]

(* A change under way is of an account that exists.                        *)
UnderwayTyped ==
  /\ DOMAIN underway = Handler
  /\ \A h \in Handler :
       \/ Change(h) = Free
       \/ /\ Change(h).user \in User /\ accounts[Change(h).user].exists
          /\ \/ Change(h).field = "role" /\ Change(h).value \in UserRole
             \/ Change(h).field = "status" /\ Change(h).value \in Status

OrgOf(h) == accounts[Change(h).user].org

ActiveAdmin(u) ==
  accounts[u].exists /\ accounts[u].role = "ADMIN" /\ accounts[u].status = "ACTIVE"

Administered(org, users) == \E v \in users : ActiveAdmin(v) /\ accounts[v].org = org

(* Where two changes never overlapped, only one is under way; and one that *)
(* takes an active administrator's rights leaves another.                  *)
OneAtATime ==
  \A h, k \in Handler :
    /\ Change(h) # Free /\ Change(k) # Free
    /\ OrgOf(h) = OrgOf(k) /\ OrgOf(h) \notin overlapped
    => h = k

Demotes(h) == Change(h) # Free /\ Change(h).value \notin {"ADMIN", "ACTIVE"}

AnotherIsLeft ==
  \A h \in Handler :
    Demotes(h) /\ OrgOf(h) \notin overlapped /\ ActiveAdmin(Change(h).user)
      => Administered(OrgOf(h), User \ {Change(h).user})

SomeAdmin ==
  \A u \in User :
    accounts[u].exists /\ accounts[u].org \notin overlapped
      => Administered(accounts[u].org, User)

AccountsInv ==
  AccountsTyped /\ UnderwayTyped /\ OneAtATime /\ AnotherIsLeft /\ SomeAdmin

LEMMA InvImpliesAdminRemains == AccountsInv => AdminRemains
BY DEF AccountsInv, AccountsTyped, SomeAdmin, Administered, ActiveAdmin,
       AdminRemains, Members, ActiveAdmins

(* Existing accounts keep their role and status; new ones, in an           *)
(* organization without members, are its administrators.                   *)
Grows ==
  \A u \in User :
    IF accounts[u].exists
    THEN /\ accounts'[u].exists /\ accounts'[u].org = accounts[u].org
         /\ accounts'[u].role = accounts[u].role
         /\ accounts'[u].status = accounts[u].status
    ELSE accounts'[u].exists =>
           \/ accounts'[u].role = "ADMIN" /\ accounts'[u].status = "ACTIVE"
           \/ \E v \in User : accounts[v].exists /\ accounts[v].org = accounts'[u].org

LEMMA GrowingKeeps ==
  ASSUME AccountsInv, AccountsTyped', Grows, UNCHANGED <<underway, overlapped>>
  PROVE  AccountsInv'
<1>1. \A u \in User : ActiveAdmin(u) => ActiveAdmin(u)' /\ accounts'[u].org = accounts[u].org
  BY DEF Grows, ActiveAdmin
<1>2. \A org : \A users \in SUBSET User :
        Administered(org, users) => Administered(org, users)'
  BY <1>1 DEF Administered
<1>3. \A h \in Handler : Change(h)' = Change(h)
  BY DEF Change
<1>4. \A h \in Handler : Change(h) # Free =>
        /\ Change(h).user \in User /\ accounts[Change(h).user].exists
        /\ OrgOf(h)' = OrgOf(h)
        /\ ActiveAdmin(Change(h).user)' = ActiveAdmin(Change(h).user)
  BY <1>3 DEF AccountsInv, UnderwayTyped, OrgOf, Grows, ActiveAdmin
<1>5. UnderwayTyped'
  BY <1>3, <1>4 DEF AccountsInv, UnderwayTyped, Grows
<1>6. OneAtATime'
  BY <1>3, <1>4 DEF AccountsInv, OneAtATime
<1>7. AnotherIsLeft'
  <2> SUFFICES ASSUME NEW h \in Handler, Demotes(h)', OrgOf(h)' \notin overlapped,
                      ActiveAdmin(Change(h).user)'
               PROVE  Administered(OrgOf(h), User \ {Change(h).user})'
    BY DEF AnotherIsLeft
  <2>1. Demotes(h) /\ Change(h) # Free
    BY <1>3 DEF Demotes
  <2>2. OrgOf(h)' = OrgOf(h) /\ ActiveAdmin(Change(h).user)
    BY <1>3, <1>4, <2>1
  <2>3. Administered(OrgOf(h), User \ {Change(h).user})
    BY <2>1, <2>2 DEF AccountsInv, AnotherIsLeft
  <2>4. \E v \in User \ {Change(h).user} : ActiveAdmin(v) /\ accounts[v].org = OrgOf(h)
    BY <2>3 DEF Administered
  <2>5. \E v \in User \ {Change(h)'.user} : ActiveAdmin(v)' /\ accounts'[v].org = OrgOf(h)'
    BY <1>1, <1>3, <2>2, <2>4
  <2> QED
    BY <2>5 DEF Administered
<1>8. SomeAdmin'
  <2> SUFFICES ASSUME NEW u \in User, accounts'[u].exists, accounts'[u].org \notin overlapped
               PROVE  \E v \in User : ActiveAdmin(v)' /\ accounts'[v].org = accounts'[u].org
    BY DEF SomeAdmin, Administered
  <2>1. \/ ActiveAdmin(u)'
        \/ \E v \in User : accounts[v].exists /\ accounts[v].org = accounts'[u].org
    BY DEF Grows, ActiveAdmin
  <2>2. ASSUME NEW v \in User, accounts[v].exists, accounts[v].org = accounts'[u].org
        PROVE  \E w \in User : ActiveAdmin(w) /\ accounts[w].org = accounts'[u].org
    BY <2>2 DEF AccountsInv, SomeAdmin, Administered
  <2> QED
    BY <1>1, <2>1, <2>2
<1> QED
  BY <1>5, <1>6, <1>7, <1>8 DEF AccountsInv

LEMMA NewAccount ==
  ASSUME AccountsInv, NEW u \in User, NEW org, NEW role, NEW status, NEW email,
         ~accounts[u].exists,
         \/ role = "ADMIN" /\ status = "ACTIVE"
         \/ \E v \in User : accounts[v].exists /\ accounts[v].org = org,
         accounts' = [accounts EXCEPT ![u] = AccountOf(org, role, status, email)],
         UNCHANGED <<underway, overlapped>>
  PROVE  AccountsInv'
<1>1. AccountsTyped'
  BY DEF AccountsInv, AccountsTyped, AccountOf
<1>2. Grows
  BY DEF AccountsInv, AccountsTyped, AccountOf, Grows
<1> QED
  BY <1>1, <1>2, GrowingKeeps

LEMMA EmailKeeps ==
  ASSUME AccountsInv, NEW u \in User, NEW email, accounts[u].exists,
         accounts' = [accounts EXCEPT ![u].email = email],
         UNCHANGED <<underway, overlapped>>
  PROVE  AccountsInv'
<1>1. accounts[u] # NoAccount
  BY DEF NoAccount
<1>2. AccountsTyped'
  BY <1>1 DEF AccountsInv, AccountsTyped
<1>3. Grows
  BY <1>1 DEF AccountsInv, AccountsTyped, Grows
<1> QED
  BY <1>2, <1>3, GrowingKeeps

LEMMA DecideKeeps ==
  ASSUME AccountsInv, NEW h \in Handler, NEW caller \in User, NEW u \in User,
         NEW field, NEW value, DecideChange(h, caller, u, field, value),
         \/ field = "role" /\ value \in UserRole
         \/ field = "status" /\ value \in Status
  PROVE  AccountsInv'
<1>1. /\ accounts' = accounts /\ overlapped \subseteq overlapped'
      /\ underway' = [underway EXCEPT ![h] = [user |-> u, field |-> field, value |-> value]]
      /\ accounts[u].exists
  BY DEF DecideChange
<1>2. /\ Change(h)' = [user |-> u, field |-> field, value |-> value]
      /\ \A k \in Handler \ {h} : Change(k)' = Change(k)
      /\ DOMAIN underway' = Handler
  BY <1>1 DEF Change, AccountsInv, UnderwayTyped
<1>3. AccountsTyped' /\ SomeAdmin'
  BY <1>1 DEF AccountsInv, AccountsTyped, SomeAdmin, Administered, ActiveAdmin
<1>4. UnderwayTyped'
  BY <1>1, <1>2 DEF AccountsInv, UnderwayTyped
<1>5. \A k \in Handler \ {h} :
        Change(k) # Free /\ OrgOf(k) = accounts[u].org => accounts[u].org \in overlapped'
  BY DEF DecideChange, Change, OrgOf
<1>6. OrgOf(h)' = accounts[u].org /\ \A k \in Handler \ {h} : OrgOf(k)' = OrgOf(k)
  BY <1>1, <1>2 DEF OrgOf
<1>7. OneAtATime'
  BY <1>1, <1>2, <1>5, <1>6 DEF AccountsInv, OneAtATime
<1>8. AnotherIsLeft'
  <2> SUFFICES ASSUME NEW k \in Handler, Demotes(k)', OrgOf(k)' \notin overlapped',
                      ActiveAdmin(Change(k).user)'
               PROVE  \E v \in User \ {Change(k)'.user} :
                        ActiveAdmin(v) /\ accounts[v].org = OrgOf(k)'
    BY <1>1 DEF AnotherIsLeft, Administered, ActiveAdmin
  <2>1. CASE k = h
    <3>1. value \notin {"ADMIN", "ACTIVE"} /\ accounts[u].role = "ADMIN"
      BY <1>1, <1>2, <2>1 DEF Demotes, ActiveAdmin
    <3>2. ActiveAdmins(accounts[u].org) \ {u} # {}
      BY <3>1 DEF DecideChange, NotLastActiveAdmin
    <3> QED
      BY <1>2, <1>6, <2>1, <3>2 DEF ActiveAdmins, Members, ActiveAdmin
  <2>2. CASE k # h
    <3>1. Demotes(k) /\ OrgOf(k) \notin overlapped /\ ActiveAdmin(Change(k).user)
      BY <1>1, <1>2, <1>6, <2>2 DEF Demotes, ActiveAdmin
    <3>2. Administered(OrgOf(k), User \ {Change(k).user})
      BY <3>1 DEF AccountsInv, AnotherIsLeft
    <3> QED
      BY <1>2, <1>6, <2>2, <3>2 DEF Administered
  <2> QED
    BY <2>1, <2>2
<1> QED
  BY <1>3, <1>4, <1>7, <1>8 DEF AccountsInv

(* The written account differs in its role or its status only.             *)
LEMMA WrittenAccount ==
  ASSUME AccountsInv, NEW h \in Handler, WriteChange(h)
  PROVE  /\ Change(h).user \in User /\ accounts[Change(h).user].exists
         /\ DOMAIN accounts' = User
         /\ \A v \in User \ {Change(h).user} : accounts'[v] = accounts[v]
         /\ DOMAIN accounts'[Change(h).user] = {"exists", "org", "role", "status", "email"}
         /\ accounts'[Change(h).user].exists = TRUE
         /\ accounts'[Change(h).user].org = accounts[Change(h).user].org
         /\ ~Demotes(h) /\ ActiveAdmin(Change(h).user) =>
              /\ accounts'[Change(h).user].role = "ADMIN"
              /\ accounts'[Change(h).user].status = "ACTIVE"
<1> DEFINE u == Change(h).user
<1> DEFINE account == accounts[u]
<1>1. /\ Change(h) # Free
      /\ accounts' = [accounts EXCEPT ![u] =
           IF Change(h).field = "role" THEN [account EXCEPT !.role = Change(h).value]
           ELSE [account EXCEPT !.status = Change(h).value]]
  BY DEF WriteChange, Change
<1>2. /\ u \in User /\ account.exists
      /\ \/ Change(h).field = "role" /\ Change(h).value \in UserRole
         \/ Change(h).field = "status" /\ Change(h).value \in Status
  BY <1>1 DEF AccountsInv, UnderwayTyped
<1>3. DOMAIN account = {"exists", "org", "role", "status", "email"} /\ account.exists = TRUE
  BY <1>2 DEF AccountsInv, AccountsTyped, NoAccount
<1>4. accounts'[u] = IF Change(h).field = "role" THEN [account EXCEPT !.role = Change(h).value]
                     ELSE [account EXCEPT !.status = Change(h).value]
  BY <1>1, <1>2 DEF AccountsInv, AccountsTyped
<1>5. /\ DOMAIN accounts'[u] = {"exists", "org", "role", "status", "email"}
      /\ accounts'[u].exists = TRUE /\ accounts'[u].org = account.org
  BY <1>3, <1>4
<1>6. ASSUME ~Demotes(h), ActiveAdmin(u)
      PROVE  accounts'[u].role = "ADMIN" /\ accounts'[u].status = "ACTIVE"
  <2>1. Change(h).value \in {"ADMIN", "ACTIVE"}
    BY <1>1, <1>6 DEF Demotes
  <2>2. \/ Change(h).field = "role" /\ Change(h).value = "ADMIN"
        \/ Change(h).field # "role" /\ Change(h).value = "ACTIVE"
    BY <1>2, <2>1 DEF UserRole, Status
  <2> QED
    BY <1>3, <1>4, <1>6, <2>2 DEF ActiveAdmin
<1>7. DOMAIN accounts' = User /\ \A v \in User \ {u} : accounts'[v] = accounts[v]
  BY <1>1 DEF AccountsInv, AccountsTyped
<1> QED
  BY <1>2, <1>5, <1>6, <1>7

LEMMA WriteKeeps ==
  ASSUME AccountsInv, NEW h \in Handler, WriteChange(h)
  PROVE  AccountsInv'
<1> DEFINE u == Change(h).user
<1> DEFINE org == accounts[u].org
<1>1. /\ u \in User /\ accounts[u].exists
      /\ \A v \in User \ {u} : accounts'[v] = accounts[v]
      /\ accounts'[u].exists /\ accounts'[u].org = org
      /\ AccountsTyped'
  BY WrittenAccount DEF AccountsInv, AccountsTyped
<1>2. /\ underway' = [underway EXCEPT ![h] = Free] /\ overlapped' = overlapped
      /\ Change(h) # Free
  BY DEF WriteChange, Change
<1>3. /\ DOMAIN underway' = Handler /\ Change(h)' = Free
      /\ \A k \in Handler \ {h} : Change(k)' = Change(k)
  BY <1>2 DEF Change, AccountsInv, UnderwayTyped
<1>4. \A v \in User : accounts'[v].exists = accounts[v].exists /\ accounts'[v].org = accounts[v].org
  BY <1>1, WrittenAccount DEF AccountsInv, AccountsTyped
<1>5. \A k \in Handler \ {h} : Change(k) # Free => Change(k).user \in User /\ OrgOf(k)' = OrgOf(k)
  BY <1>3, <1>4 DEF AccountsInv, UnderwayTyped, OrgOf
<1>6. UnderwayTyped'
  BY <1>3, <1>4 DEF AccountsInv, UnderwayTyped
<1>7. OneAtATime'
  BY <1>2, <1>3, <1>5 DEF AccountsInv, OneAtATime
<1>8. \A v \in User : accounts[v].org # org => ActiveAdmin(v)' = ActiveAdmin(v)
  BY <1>1 DEF ActiveAdmin
<1>9. AnotherIsLeft'
  <2> SUFFICES ASSUME NEW k \in Handler, Demotes(k)', OrgOf(k)' \notin overlapped',
                      ActiveAdmin(Change(k).user)'
               PROVE  \E v \in User \ {Change(k)'.user} :
                        ActiveAdmin(v)' /\ accounts'[v].org = OrgOf(k)'
    BY DEF AnotherIsLeft, Administered
  <2>1. k # h /\ Change(k) # Free
    BY <1>3 DEF Demotes
  <2>2. Change(k)' = Change(k) /\ OrgOf(k)' = OrgOf(k) /\ Change(k).user \in User
    BY <1>3, <1>5, <2>1
  <2>3. OrgOf(k) # org
    BY <1>2, <2>1, <2>2 DEF AccountsInv, OneAtATime, OrgOf
  <2>4. ActiveAdmin(Change(k).user)
    <3>1. accounts[Change(k).user].org # org
      BY <2>3 DEF OrgOf
    <3>2. Change(k).user # u /\ accounts'[Change(k).user] = accounts[Change(k).user]
      BY <1>1, <2>2, <3>1
    <3> QED
      BY <2>2, <3>2 DEF ActiveAdmin
  <2>5. Demotes(k) /\ OrgOf(k) \notin overlapped
    BY <1>2, <2>2 DEF Demotes
  <2>6. \E v \in User \ {Change(k).user} : ActiveAdmin(v) /\ accounts[v].org = OrgOf(k)
    BY <2>4, <2>5 DEF AccountsInv, AnotherIsLeft, Administered
  <2> QED
    BY <1>4, <1>8, <2>2, <2>3, <2>6
<1>10. org \notin overlapped => \E v \in User : ActiveAdmin(v)' /\ accounts'[v].org = org
  <2> SUFFICES ASSUME org \notin overlapped
               PROVE  \E v \in User : ActiveAdmin(v)' /\ accounts'[v].org = org
    OBVIOUS
  <2>1. \A v \in User \ {u} : ActiveAdmin(v) => ActiveAdmin(v)'
    BY <1>1 DEF ActiveAdmin
  <2>2. \E v \in User : ActiveAdmin(v) /\ accounts[v].org = org
    BY <1>1 DEF AccountsInv, SomeAdmin, Administered
  <2>3. CASE ~ActiveAdmin(u)
    BY <1>4, <2>1, <2>2, <2>3
  <2>4. CASE ActiveAdmin(u) /\ Demotes(h)
    <3>1. \E v \in User \ {u} : ActiveAdmin(v) /\ accounts[v].org = org
      BY <2>4 DEF AccountsInv, AnotherIsLeft, Administered, OrgOf
    <3> QED
      BY <1>4, <2>1, <3>1
  <2>5. CASE ActiveAdmin(u) /\ ~Demotes(h)
    <3>1. accounts'[u].role = "ADMIN" /\ accounts'[u].status = "ACTIVE"
      BY <2>5, WrittenAccount
    <3>2. accounts'[u].exists /\ accounts'[u].org = org /\ u \in User
      BY <1>1
    <3>3. \E v \in User : /\ accounts'[v].exists /\ accounts'[v].role = "ADMIN"
                          /\ accounts'[v].status = "ACTIVE" /\ accounts'[v].org = org
      BY <3>1, <3>2
    <3> QED
      BY <3>3 DEF ActiveAdmin
  <2> QED
    BY <2>3, <2>4, <2>5
<1>11. SomeAdmin'
  <2> SUFFICES ASSUME NEW v \in User, accounts'[v].exists, accounts'[v].org \notin overlapped
               PROVE  \E w \in User : ActiveAdmin(w)' /\ accounts'[w].org = accounts'[v].org
    BY <1>2 DEF SomeAdmin, Administered
  <2>1. CASE accounts[v].org = org
    BY <1>4, <1>10, <2>1
  <2>2. CASE accounts[v].org # org
    <3>1. \E w \in User : ActiveAdmin(w) /\ accounts[w].org = accounts[v].org
      BY <1>4 DEF AccountsInv, SomeAdmin, Administered
    <3> QED
      BY <1>4, <1>8, <2>2, <3>1
  <2> QED
    BY <2>1, <2>2
<1> QED
  BY <1>1, <1>6, <1>7, <1>9, <1>11 DEF AccountsInv

(* Whoever holds an access token has an account.                           *)
TokensOwned == \A u \in tokens : u \in User /\ accounts[u].exists

LEMMA TokensInductive ==
  AccountsInv /\ TokensOwned /\ [AccountsNext]_accountVars => TokensOwned'
<1> SUFFICES ASSUME AccountsInv, TokensOwned, [AccountsNext]_accountVars PROVE TokensOwned'
  OBVIOUS
<1>1. ASSUME NEW u \in User, NEW email \in Email, NEW org \in Company,
             Register(u, org, email)
      PROVE  TokensOwned'
  BY <1>1 DEF Register, AccountOf, AccountsInv, AccountsTyped, TokensOwned
<1>2. ASSUME UNCHANGED <<accounts, tokens>> PROVE TokensOwned'
  BY <1>2 DEF TokensOwned
<1>3. ASSUME NEW u \in User, SignIn(u) \/ TokenExpires(u) PROVE TokensOwned'
  BY <1>3 DEF SignIn, TokenExpires, TokensOwned
<1>4. ASSUME NEW caller \in User, NEW u \in User, NEW email \in Email,
             UpdateUser(caller, u, email)
      PROVE  TokensOwned'
  BY <1>4 DEF UpdateUser, AccountsInv, AccountsTyped, NoAccount, TokensOwned
<1>5. ASSUME NEW caller \in User, NEW u \in User, NEW email \in Email,
             NEW role \in UserRole, NEW status \in Status,
             CreateUser(caller, u, role, status, email)
      PROVE  TokensOwned'
  BY <1>5 DEF CreateUser, AccountOf, AccountsInv, AccountsTyped, TokensOwned
<1>6. ASSUME NEW h \in Handler, NEW caller \in User, NEW u \in User, NEW field, NEW value,
             DecideChange(h, caller, u, field, value)
      PROVE  TokensOwned'
  BY <1>2, <1>6 DEF DecideChange
<1>7. ASSUME NEW h \in Handler, WriteChange(h) PROVE TokensOwned'
  BY <1>7, WrittenAccount DEF WriteChange, TokensOwned
<1>8. CASE UNCHANGED accountVars
  BY <1>2, <1>8 DEF accountVars
<1> QED
  BY <1>1, <1>3, <1>4, <1>5, <1>6, <1>7, <1>8 DEF AccountsNext

LEMMA AccountsInductive ==
  AccountsInv /\ TokensOwned /\ [AccountsNext]_accountVars => AccountsInv'
<1> SUFFICES ASSUME AccountsInv, TokensOwned, [AccountsNext]_accountVars PROVE AccountsInv'
  OBVIOUS
<1>1. ASSUME NEW u \in User, NEW email \in Email, NEW org \in Company,
             Register(u, org, email)
      PROVE  AccountsInv'
  BY <1>1, NewAccount DEF Register
<1>2. ASSUME UNCHANGED <<accounts, underway, overlapped>> PROVE AccountsInv'
  BY <1>2 DEF AccountsInv, AccountsTyped, UnderwayTyped, OneAtATime, AnotherIsLeft, SomeAdmin,
              Change, OrgOf, Demotes, Administered, ActiveAdmin
<1>3. ASSUME NEW u \in User, SignIn(u) \/ TokenExpires(u) PROVE AccountsInv'
  BY <1>2, <1>3 DEF SignIn, TokenExpires
<1>4. ASSUME NEW caller \in User, NEW u \in User, NEW email \in Email,
             UpdateUser(caller, u, email)
      PROVE  AccountsInv'
  BY <1>4, EmailKeeps DEF UpdateUser
<1>5. ASSUME NEW caller \in User, NEW u \in User, NEW email \in Email,
             NEW role \in UserRole, NEW status \in Status,
             CreateUser(caller, u, role, status, email)
      PROVE  AccountsInv'
  <2>1. accounts[caller].exists
    BY <1>5 DEF CreateUser, TokensOwned
  <2> QED
    BY <1>5, <2>1, NewAccount DEF CreateUser
<1>6. ASSUME NEW h \in Handler, NEW caller \in User, NEW u \in User,
             \/ \E role \in UserRole : DecideChange(h, caller, u, "role", role)
             \/ \E status \in Status : DecideChange(h, caller, u, "status", status)
      PROVE  AccountsInv'
  BY <1>6, DecideKeeps
<1>7. ASSUME NEW h \in Handler, WriteChange(h) PROVE AccountsInv'
  BY <1>7, WriteKeeps
<1>8. CASE UNCHANGED accountVars
  BY <1>2, <1>8 DEF accountVars
<1> QED
  BY <1>1, <1>3, <1>4, <1>5, <1>6, <1>7, <1>8 DEF AccountsNext

(* An organization where two changes were never under way at once keeps an *)
(* active administrator (assertNotLastActiveAdmin), whoever's access token *)
(* is out of date.                                                         *)
THEOREM AdminAlwaysRemains == AccountsSpec => []AdminRemains
<1>1. AccountsInit => AccountsInv /\ TokensOwned
  BY AccountsAssumption
  DEF AccountsInit, AccountsInv, AccountsTyped, UnderwayTyped, OneAtATime, AnotherIsLeft,
      SomeAdmin, Change, Demotes, NoAccount, TokensOwned
<1> QED
  BY <1>1, AccountsInductive, TokensInductive, InvImpliesAdminRemains, PTL DEF AccountsSpec

----------------------------------------------------------------------------
(* Calls.                                                                  *)

SessionsSpec == SessionsInit /\ [][SessionsNext]_sessionVars

CallState == {"idle", "sent", "waiting", "again", "done", "failed"}

CallRecord == [state : CallState, flight : {0, 1}, runs : {0, 1}]

(* Until a call is answered it was not carried out.                        *)
CallsInv ==
  /\ calls \in [Window -> [Call -> CallRecord]]
  /\ \A w \in Window, c \in Call :
       calls[w][c].state \notin {"done", "failed"} => calls[w][c].runs = 0

LEMMA CallMoves ==
  ASSUME CallsInv, NEW w \in Window, NEW c \in Call, NEW call \in CallRecord,
         call.state \notin {"done", "failed"} => call.runs = 0,
         calls' = [calls EXCEPT ![w][c] = call]
  PROVE  CallsInv'
BY DEF CallsInv

LEMMA CallsInductive == CallsInv /\ [SessionsNext]_sessionVars => CallsInv'
<1> SUFFICES ASSUME CallsInv, [SessionsNext]_sessionVars PROVE CallsInv'
  OBVIOUS
<1>1. ASSUME UNCHANGED calls PROVE CallsInv'
  BY <1>1 DEF CallsInv
<1>2. ASSUME NEW w \in Window, Load(w) \/ Login(w) \/ Logout(w) \/ ExpireAccess(w)
      PROVE  CallsInv'
  BY <1>1, <1>2 DEF Load, Login, Logout, ExpireAccess
<1>3. ASSUME NEW w \in Window, NEW c \in Call, Send(w, c) PROVE CallsInv'
  <2> DEFINE call == [calls[w][c] EXCEPT !.state = "sent"]
  <2>1. calls[w][c] \in CallRecord /\ calls[w][c].runs = 0
    BY <1>3 DEF Send, CallsInv
  <2>2. call \in CallRecord /\ call.runs = 0
    BY <2>1 DEF CallRecord, CallState
  <2>3. calls' = [calls EXCEPT ![w][c] = call]
    BY <1>3 DEF Send
  <2> HIDE DEF call
  <2> QED
    BY <2>2, <2>3, CallMoves
<1>4. ASSUME NEW w \in Window, NEW c \in Call, CarryOut(w, c) PROVE CallsInv'
  BY <1>4 DEF CarryOut, CallsInv, CallRecord, CallState
<1>5. ASSUME NEW w \in Window, NEW c \in Call, Unauthorized(w, c) PROVE CallsInv'
  <2> DEFINE waits == [calls[w][c] EXCEPT !.state = "waiting", !.flight = 1]
  <2> DEFINE fails == [calls[w][c] EXCEPT !.state = "failed"]
  <2>1. calls[w][c] \in CallRecord /\ calls[w][c].runs = 0
    BY <1>5 DEF Unauthorized, CallsInv
  <2>2. /\ waits \in CallRecord /\ waits.runs = 0
        /\ fails \in CallRecord /\ fails.runs = 0
    BY <2>1 DEF CallRecord, CallState
  <2>3. \/ calls' = [calls EXCEPT ![w][c] = waits]
        \/ calls' = [calls EXCEPT ![w][c] = fails]
    <3>1. CASE calls' = [calls EXCEPT ![w][c].state = "waiting", ![w][c].flight = 1]
      <4> DEFINE half == [calls EXCEPT ![w][c].state = "waiting"]
      <4>1. calls' = [half EXCEPT ![w][c].flight = 1]
        BY <3>1
      <4>2. half[w][c] = [calls[w][c] EXCEPT !.state = "waiting"]
        BY DEF CallsInv
      <4>3. [half EXCEPT ![w][c] = waits] = [calls EXCEPT ![w][c] = waits]
        BY DEF CallsInv
      <4>4. [half[w][c] EXCEPT !.flight = 1] = waits
        BY <4>2
      <4> HIDE DEF half, waits
      <4> QED
        BY <4>1, <4>3, <4>4
    <3> QED
      BY <1>5, <3>1 DEF Unauthorized, FlightFor
  <2> HIDE DEF waits, fails
  <2> QED
    BY <2>2, <2>3, CallMoves
<1>6. ASSUME NEW w \in Window, NEW c \in Call, LoseAnswerTo(w, c) PROVE CallsInv'
  BY <1>6 DEF LoseAnswerTo, AfterLoss, CallsInv, CallRecord, CallState
<1>7. ASSUME NEW w \in Window, NEW c \in Call, Settled(w, c) PROVE CallsInv'
  BY <1>7 DEF Settled, NoCall, CallsInv, CallRecord, CallState
<1>8. ASSUME NEW w \in Window, NEW f \in Call,
             \/ Consume(w, f) \/ Spend(w, f) \/ Lapse(w, f) \/ Rotate(w, f)
             \/ RevokeReused(w, f) \/ FailRefresh(w, f)
      PROVE  CallsInv'
  BY <1>1, <1>8 DEF Consume, Spend, Lapse, Rotate, RevokeReused, FailRefresh
<1>9. ASSUME NEW w \in Window, NEW f \in Call, Answered(w, f) PROVE CallsInv'
  BY <1>9 DEF Answered, Waiting, CallsInv, CallRecord, CallState
<1>10. ASSUME NEW w \in Window, NEW f \in Call, LoseRefresh(w, f) PROVE CallsInv'
  <2> DEFINE after(c) == IF c \in Waiting(w, f) THEN [calls[w][c] EXCEPT !.state = "failed"]
                         ELSE calls[w][c]
  <2>1. ASSUME NEW c \in Call
        PROVE  /\ after(c) \in CallRecord
               /\ after(c).state \notin {"done", "failed"} => after(c).runs = 0
    <3>1. calls[w][c] \in CallRecord
      BY DEF CallsInv
    <3>2. [calls[w][c] EXCEPT !.state = "failed"] \in CallRecord
      BY <3>1 DEF CallRecord, CallState
    <3>3. [calls[w][c] EXCEPT !.state = "failed"].state = "failed"
      BY <3>1 DEF CallRecord
    <3> QED
      BY <3>1, <3>2, <3>3 DEF CallsInv
  <2>2. calls' = [calls EXCEPT ![w] = [c \in Call |-> after(c)]]
    BY <1>10 DEF LoseRefresh
  <2> HIDE DEF after
  <2> QED
    BY <2>1, <2>2 DEF CallsInv
<1>11. ASSUME NEW status, EndSessions(status) \/ Activate PROVE CallsInv'
  BY <1>1, <1>11 DEF EndSessions, Activate
<1>12. CASE UNCHANGED sessionVars
  BY <1>1, <1>12 DEF sessionVars
<1> QED
  BY <1>2, <1>3, <1>4, <1>5, <1>6, <1>7, <1>8, <1>9, <1>10, <1>11, <1>12 DEF SessionsNext

(* The retry of the API client after a 401, and the answers it loses,      *)
(* never carry a call out twice (apiRequest).                              *)
THEOREM RetriesRunOnce == SessionsSpec => []CarriedOutOnce
<1>1. SessionsInit => CallsInv
  BY DEF SessionsInit, CallsInv, CallRecord, CallState, NoCall
<1>2. CallsInv => CarriedOutOnce
  BY DEF CallsInv, CallRecord, CarriedOutOnce
<1> QED
  BY <1>1, <1>2, CallsInductive, PTL DEF SessionsSpec

----------------------------------------------------------------------------
(* Refresh tokens.                                                         *)

FlightPhase == {"none", "sent", "read", "reused", "spent", "granted", "refused"}

FlightsTyped ==
  /\ flights \in [Window -> [Call -> [phase : FlightPhase, token : Nat]]]
  /\ cookie \in Nat /\ issued \in Nat
  /\ excused \in BOOLEAN

Flying(w, f) == flights[w][f].phase # "none"

(* As long as nothing excuses the end of the session: the user is active,  *)
(* one refresh at most is on its way, and what it carries is the cookie,   *)
(* which is live until it is exchanged.                                    *)
OneFlight ==
  \A v, w \in Window, e, f \in Call : Flying(v, e) /\ Flying(w, f) => v = w /\ e = f

Fits(w, f) ==
  LET flight == flights[w][f] IN
  /\ flight.phase = "sent" => flight.token = cookie /\ (cookie = 0 \/ cookie \in live)
  /\ flight.phase = "read" => flight.token = cookie /\ cookie \in live
  /\ flight.phase # "reused"
  /\ flight.phase = "granted" => flight.token \in live
  /\ flight.phase = "refused" => flight.token = 0 /\ cookie = 0

AtRest == (\A w \in Window, f \in Call : ~Flying(w, f)) => cookie = 0 \/ cookie \in live

TokensInv ==
  /\ FlightsTyped
  /\ \A w \in Window, f \in Call : Flying(w, f) => f = 1
  /\ ~excused =>
       /\ active = TRUE /\ OneFlight /\ AtRest
       /\ \A w \in Window, f \in Call : Fits(w, f)

(* A flight moves on.                                                      *)
LEMMA FlightMoves ==
  ASSUME TokensInv, NEW w \in Window, NEW f \in Call, Flying(w, f),
         NEW flight \in [phase : FlightPhase, token : Nat],
         flights' = [flights EXCEPT ![w][f] = flight],
         cookie' \in Nat, issued' \in Nat, excused' = excused, active' = active,
         ~excused => Fits(w, f)',
         ~excused /\ flight.phase = "none" => cookie' = 0 \/ cookie' \in live'
  PROVE  TokensInv'
<1>1. /\ flights' \in [Window -> [Call -> [phase : FlightPhase, token : Nat]]]
      /\ flights'[w][f] = flight
      /\ \A v \in Window, e \in Call : v # w \/ e # f => flights'[v][e] = flights[v][e]
  BY DEF TokensInv, FlightsTyped
<1>2. f = 1 /\ FlightsTyped'
  BY <1>1 DEF TokensInv, FlightsTyped
<1>3. \A v \in Window, e \in Call : Flying(v, e)' => Flying(v, e)
  BY <1>1 DEF Flying
<1>4. ASSUME ~excused
      PROVE  OneFlight' /\ AtRest' /\ \A v \in Window, e \in Call : Fits(v, e)'
  <2>1. OneFlight /\ active = TRUE
    BY <1>4 DEF TokensInv
  <2>2. OneFlight'
    BY <1>3, <2>1 DEF OneFlight
  <2>3. AtRest'
    BY <1>1, <1>4 DEF AtRest, Flying
  <2>4. ASSUME NEW v \in Window, NEW e \in Call, v # w \/ e # f PROVE Fits(v, e)'
    <3>1. ~Flying(v, e)
      BY <2>1, <2>4 DEF OneFlight
    <3>2. flights'[v][e].phase = "none"
      BY <1>1, <2>4, <3>1 DEF Flying
    <3> QED
      BY <3>2 DEF Fits
  <2> QED
    BY <1>4, <2>2, <2>3, <2>4
<1> QED
  BY <1>2, <1>3, <1>4 DEF TokensInv

(* A refresh is sent, by a tab that has none on its way.                   *)
LEMMA RefreshKeeps ==
  ASSUME TokensInv, NEW w \in Window, NEW c \in Call, Refresh(w, FlightFor(c)),
         UNCHANGED <<active, issued, live, cookie>>
  PROVE  TokensInv'
<1>0. FlightFor(c) = 1 /\ 1 \in Call
  BY SessionsAssumption DEF FlightFor
<1>1. CASE Flying(w, 1)
  BY <1>0, <1>1
  DEF Refresh, TokensInv, FlightsTyped, Flying, OneFlight, AtRest, Fits
<1>2. CASE ~Flying(w, 1)
  <2>0. /\ flights \in [Window -> [Call -> [phase : FlightPhase, token : Nat]]]
        /\ cookie \in Nat
        /\ \A v \in Window, e \in Call : Flying(v, e) => e = 1
    BY DEF TokensInv, FlightsTyped
  <2>1. /\ flights' = [flights EXCEPT ![w][1] = [phase |-> "sent", token |-> cookie]]
        /\ excused' = (excused \/ \E v \in Window \ {w} : InFlight(v))
    BY <1>0, <1>2 DEF Refresh, Flying
  <2>2. /\ flights' \in [Window -> [Call -> [phase : FlightPhase, token : Nat]]]
        /\ flights'[w][1] = [phase |-> "sent", token |-> cookie]
        /\ \A v \in Window, e \in Call : v # w \/ e # 1 => flights'[v][e] = flights[v][e]
    <3>1. [phase |-> "sent", token |-> cookie] \in [phase : FlightPhase, token : Nat]
      BY <2>0 DEF FlightPhase
    <3> QED
      BY <1>0, <2>0, <2>1, <3>1
  <2>3. \A v \in Window, e \in Call : Flying(v, e)' => e = 1
    BY <2>0, <2>2 DEF Flying
  <2>4. FlightsTyped'
    BY <2>1, <2>2 DEF TokensInv, FlightsTyped
  <2>5. ASSUME ~excused'
        PROVE  /\ active' = TRUE /\ OneFlight' /\ AtRest'
               /\ \A v \in Window, e \in Call : Fits(v, e)'
    <3>1. ~excused /\ \A v \in Window \ {w} : \A e \in Call : ~Flying(v, e)
      BY <2>1, <2>5 DEF InFlight, Flying
    <3>2. \A v \in Window, e \in Call : ~Flying(v, e)
      BY <1>2, <2>0, <3>1
    <3>3. \A v \in Window, e \in Call : v # w \/ e # 1 => flights'[v][e].phase = "none"
      <4> SUFFICES ASSUME NEW v \in Window, NEW e \in Call, v # w \/ e # 1
                   PROVE  flights'[v][e].phase = "none"
        OBVIOUS
      <4>1. flights[v][e].phase = "none"
        BY <3>2 DEF Flying
      <4>2. flights'[v][e] = flights[v][e]
        BY <2>2
      <4> QED
        BY <4>1, <4>2
    <3>4. cookie = 0 \/ cookie \in live
      BY <3>1, <3>2 DEF TokensInv, AtRest
    <3>5. OneFlight'
      BY <3>3 DEF OneFlight, Flying
    <3>6. AtRest'
      BY <3>4 DEF AtRest
    <3>7. \A v \in Window, e \in Call : Fits(v, e)'
      BY <2>2, <3>3, <3>4 DEF Fits
    <3> QED
      BY <3>1, <3>5, <3>6, <3>7 DEF TokensInv
  <2> QED
    BY <2>3, <2>4, <2>5 DEF TokensInv
<1> QED
  BY <1>1, <1>2

LEMMA TokensExcused ==
  ASSUME TokensInv, FlightsTyped', excused' = TRUE,
         \A w \in Window, f \in Call : Flying(w, f)' => Flying(w, f)
  PROVE  TokensInv'
BY DEF TokensInv

LEMMA TokensUntouched ==
  ASSUME TokensInv, UNCHANGED <<active, live, cookie, flights, issued, excused>>
  PROVE  TokensInv'
BY DEF TokensInv, FlightsTyped, OneFlight, AtRest, Fits, Flying

LEMMA PhaseTyped ==
  ASSUME FlightsTyped, NEW w \in Window, NEW f \in Call, NEW phase \in FlightPhase,
         flights' = [flights EXCEPT ![w][f].phase = phase],
         UNCHANGED <<cookie, issued>>, excused' \in BOOLEAN
  PROVE  FlightsTyped'
<1> DEFINE flight == [flights[w][f] EXCEPT !.phase = phase]
<1>1. flights \in [Window -> [Call -> [phase : FlightPhase, token : Nat]]]
  BY DEF FlightsTyped
<1>2. flight \in [phase : FlightPhase, token : Nat]
  BY <1>1
<1>3. flights' = [flights EXCEPT ![w][f] = flight]
  OBVIOUS
<1> HIDE DEF flight
<1>4. flights' \in [Window -> [Call -> [phase : FlightPhase, token : Nat]]]
  BY <1>1, <1>2, <1>3
<1> QED
  BY <1>4 DEF FlightsTyped

LEMMA ConsumeKeeps ==
  ASSUME TokensInv, NEW w \in Window, NEW f \in Call, Consume(w, f)
  PROVE  TokensInv'
<1> DEFINE flight == flights[w][f]
<1> DEFINE phase == IF flight.token = 0 THEN "refused"
                    ELSE IF flight.token \in live THEN "read" ELSE "reused"
<1>1. /\ flight.phase = "sent" /\ flight \in [phase : FlightPhase, token : Nat]
      /\ Flying(w, f)
  BY DEF Consume, TokensInv, FlightsTyped, Flying
<1>2. phase \in FlightPhase
  BY DEF FlightPhase
<1>3. flights' = [flights EXCEPT ![w][f] = [phase |-> phase, token |-> flight.token]]
  <2>1. flights' = [flights EXCEPT ![w][f] = [flight EXCEPT !.phase = phase]]
    BY DEF Consume
  <2>2. [flight EXCEPT !.phase = phase] = [phase |-> phase, token |-> flight.token]
    BY <1>1
  <2> QED
    BY <2>1, <2>2
<1>4. [phase |-> phase, token |-> flight.token] \in [phase : FlightPhase, token : Nat]
  BY <1>1, <1>2
<1>5. flights'[w][f] = [phase |-> phase, token |-> flight.token]
  BY <1>3 DEF TokensInv, FlightsTyped
<1>6. ~excused => Fits(w, f)'
  <2> SUFFICES ASSUME ~excused PROVE Fits(w, f)'
    OBVIOUS
  <2>1. flight.token = cookie /\ (cookie = 0 \/ cookie \in live)
    BY <1>1 DEF TokensInv, Fits
  <2> QED
    BY <1>5, <2>1 DEF Fits, Consume
<1>7. phase # "none" /\ UNCHANGED <<active, issued, live, cookie, excused>>
  BY DEF Consume
<1> HIDE DEF phase
<1> QED
  BY <1>1, <1>3, <1>4, <1>6, <1>7, FlightMoves DEF TokensInv, FlightsTyped

LEMMA SpendKeeps ==
  ASSUME TokensInv, NEW w \in Window, NEW f \in Call, Spend(w, f)
  PROVE  TokensInv'
<1> DEFINE next == [flights[w][f] EXCEPT !.phase = "spent"]
<1>1. /\ flights[w][f] \in [phase : FlightPhase, token : Nat]
      /\ Flying(w, f) /\ issued \in Nat /\ cookie \in Nat
  BY DEF Spend, TokensInv, FlightsTyped, Flying
<1>2. next \in [phase : FlightPhase, token : Nat] /\ next.phase = "spent"
  BY <1>1 DEF FlightPhase
<1>3. /\ flights' = [flights EXCEPT ![w][f] = next]
      /\ UNCHANGED <<active, issued, cookie, excused>>
  BY DEF Spend
<1>4. Fits(w, f)'
  BY <1>2, <1>3 DEF Fits, TokensInv, FlightsTyped
<1> HIDE DEF next
<1> QED
  BY <1>1, <1>2, <1>3, <1>4, FlightMoves

(* Whatever ends a refresh with an error that is nobody's fault.           *)
LEMMA FailKeeps ==
  ASSUME TokensInv, NEW w \in Window, NEW f \in Call, Lapse(w, f) \/ FailRefresh(w, f)
  PROVE  TokensInv'
<1>1. /\ flights' = [flights EXCEPT ![w][f].phase = "refused"] /\ excused' = TRUE
      /\ Flying(w, f) /\ UNCHANGED <<cookie, issued>>
  BY DEF Lapse, FailRefresh, Flying
<1>2. FlightsTyped'
  BY <1>1, PhaseTyped DEF TokensInv, FlightPhase
<1>3. \A v \in Window, e \in Call : Flying(v, e)' => Flying(v, e)
  BY <1>1 DEF Flying, TokensInv, FlightsTyped
<1> QED
  BY <1>1, <1>2, <1>3, TokensExcused

LEMMA RotateKeeps ==
  ASSUME TokensInv, NEW w \in Window, NEW f \in Call, Rotate(w, f)
  PROVE  TokensInv'
<1>1. /\ flights[w][f].phase = "spent"
      /\ flights[w][f] \in [phase : FlightPhase, token : Nat]
      /\ Flying(w, f) /\ issued \in Nat /\ cookie \in Nat
  BY DEF Rotate, TokensInv, FlightsTyped, Flying
<1>2. CASE active
  <2> DEFINE next == [phase |-> "granted", token |-> issued + 1]
  <2>1. /\ flights' = [flights EXCEPT ![w][f] = next]
        /\ issued' = issued + 1 /\ issued + 1 \in live'
        /\ UNCHANGED <<active, cookie, excused>>
    BY <1>2 DEF Rotate
  <2>2. next \in [phase : FlightPhase, token : Nat] /\ next.phase # "none"
    BY <1>1 DEF FlightPhase
  <2>3. flights'[w][f] = next
    BY <2>1 DEF TokensInv, FlightsTyped
  <2>4. Fits(w, f)'
    BY <2>1, <2>3 DEF Fits
  <2> QED
    BY <1>1, <2>1, <2>2, <2>4, FlightMoves
<1>3. CASE ~active
  <2> DEFINE next == [phase |-> "refused", token |-> flights[w][f].token]
  <2>1. excused
    BY <1>3 DEF TokensInv, FlightsTyped
  <2>2. /\ flights' = [flights EXCEPT ![w][f].phase = "refused"]
        /\ UNCHANGED <<issued, active, cookie, excused>>
    BY <1>3 DEF Rotate
  <2>3. FlightsTyped'
    <3>1. FlightsTyped /\ excused' \in BOOLEAN
      BY <2>2 DEF TokensInv, FlightsTyped
    <3> QED
      BY <2>2, <3>1, PhaseTyped DEF FlightPhase
  <2>4. \A v \in Window, e \in Call : Flying(v, e)' => Flying(v, e)
    BY <1>1, <2>2 DEF Flying, TokensInv, FlightsTyped
  <2> QED
    BY <2>1, <2>2, <2>3, <2>4, TokensExcused DEF TokensInv, FlightsTyped
<1> QED
  BY <1>2, <1>3

LEMMA RevokeKeeps ==
  ASSUME TokensInv, NEW w \in Window, NEW f \in Call, RevokeReused(w, f)
  PROVE  TokensInv'
<1>1. excused
  BY DEF RevokeReused, TokensInv, FlightsTyped, Fits
<1>2. /\ flights' = [flights EXCEPT ![w][f].phase = "refused"]
      /\ UNCHANGED <<cookie, issued, excused>>
  BY DEF RevokeReused
<1>3. FlightsTyped'
  <2>1. FlightsTyped /\ excused' \in BOOLEAN
    BY <1>2 DEF TokensInv, FlightsTyped
  <2> QED
    BY <1>2, <2>1, PhaseTyped DEF FlightPhase
<1>4. \A v \in Window, e \in Call : Flying(v, e)' => Flying(v, e)
  BY <1>2 DEF RevokeReused, Flying, TokensInv, FlightsTyped
<1> QED
  BY <1>1, <1>3, <1>4, TokensExcused DEF RevokeReused, TokensInv, FlightsTyped

LEMMA AnswerKeeps ==
  ASSUME TokensInv, NEW w \in Window, NEW f \in Call, Answered(w, f)
  PROVE  TokensInv'
<1>1. /\ flights[w][f].phase \in {"granted", "refused"}
      /\ flights[w][f] \in [phase : FlightPhase, token : Nat]
      /\ Flying(w, f) /\ cookie \in Nat
  BY DEF Answered, TokensInv, FlightsTyped, Flying
<1>2. /\ flights' = [flights EXCEPT ![w][f] = Landed]
      /\ cookie' = CookieAfter(flights[w][f])
      /\ UNCHANGED <<active, issued, live, excused>>
  BY DEF Answered
<1>3. Landed \in [phase : FlightPhase, token : Nat]
  BY DEF Landed, FlightPhase
<1>4. cookie' \in Nat /\ issued' \in Nat
  BY <1>1, <1>2 DEF CookieAfter, TokensInv, FlightsTyped
<1>5. flights'[w][f] = Landed
  BY <1>2 DEF TokensInv, FlightsTyped
<1>6. Fits(w, f)'
  BY <1>5 DEF Fits, Landed
<1>7. ~excused => cookie' = 0 \/ cookie' \in live'
  BY <1>1, <1>2 DEF TokensInv, Fits, CookieAfter
<1> QED
  BY <1>1, <1>2, <1>3, <1>4, <1>6, <1>7, FlightMoves

LEMMA LossKeeps ==
  ASSUME TokensInv, NEW w \in Window, NEW f \in Call, LoseRefresh(w, f)
  PROVE  TokensInv'
<1>1. flights' = [flights EXCEPT ![w][f] = Landed] /\ excused' = TRUE
  BY DEF LoseRefresh
<1>2. FlightsTyped'
  BY <1>1 DEF LoseRefresh, TokensInv, FlightsTyped, Landed, FlightPhase
<1>3. \A v \in Window, e \in Call : Flying(v, e)' => Flying(v, e)
  BY <1>1 DEF LoseRefresh, Flying, Landed, TokensInv, FlightsTyped
<1> QED
  BY <1>1, <1>2, <1>3, TokensExcused

LEMMA LoginKeeps ==
  ASSUME TokensInv, NEW w \in Window, Login(w) PROVE TokensInv'
<1>1. /\ flights' = flights /\ active' = active
      /\ issued' = issued + 1 /\ cookie' = issued + 1 /\ issued + 1 \in live'
      /\ excused' = (excused \/ \E v \in Window : InFlight(v))
  BY DEF Login
<1>2. FlightsTyped' /\ \A v \in Window, e \in Call : Flying(v, e)' = Flying(v, e)
  BY <1>1 DEF TokensInv, FlightsTyped, Flying
<1>3. ASSUME ~excused'
      PROVE  /\ active' = TRUE /\ OneFlight' /\ AtRest'
             /\ \A v \in Window, e \in Call : Fits(v, e)'
  <2>1. ~excused /\ \A v \in Window, e \in Call : flights[v][e].phase = "none"
    BY <1>1, <1>3 DEF InFlight
  <2> QED
    BY <1>1, <2>1 DEF TokensInv, OneFlight, AtRest, Fits, Flying
<1> QED
  BY <1>2, <1>3 DEF TokensInv

LEMMA RefreshTokensInductive == TokensInv /\ [SessionsNext]_sessionVars => TokensInv'
<1> SUFFICES ASSUME TokensInv, [SessionsNext]_sessionVars PROVE TokensInv'
  OBVIOUS
<1>1. ASSUME NEW w \in Window, Load(w) PROVE TokensInv'
  BY <1>1, RefreshKeeps, SessionsAssumption DEF Load
<1>2. ASSUME NEW w \in Window, Login(w) PROVE TokensInv'
  BY <1>2, LoginKeeps
<1>3. ASSUME NEW w \in Window, Logout(w) PROVE TokensInv'
  BY <1>3, TokensExcused DEF Logout, TokensInv, FlightsTyped, Flying
<1>4. ASSUME NEW w \in Window, ExpireAccess(w) PROVE TokensInv'
  BY <1>4, TokensUntouched DEF ExpireAccess
<1>5. ASSUME NEW w \in Window, NEW c \in Call,
             Send(w, c) \/ CarryOut(w, c) \/ LoseAnswerTo(w, c) \/ Settled(w, c)
      PROVE  TokensInv'
  BY <1>5, TokensUntouched DEF Send, CarryOut, LoseAnswerTo, Settled
<1>6. ASSUME NEW w \in Window, NEW c \in Call, Unauthorized(w, c) PROVE TokensInv'
  BY <1>6, RefreshKeeps, TokensUntouched DEF Unauthorized
<1>7. ASSUME NEW w \in Window, NEW f \in Call,
             \/ Consume(w, f) \/ Spend(w, f) \/ Lapse(w, f) \/ Rotate(w, f)
             \/ RevokeReused(w, f) \/ FailRefresh(w, f)
             \/ Answered(w, f) \/ LoseRefresh(w, f)
      PROVE  TokensInv'
  BY <1>7, ConsumeKeeps, SpendKeeps, FailKeeps, RotateKeeps, RevokeKeeps, AnswerKeeps, LossKeeps
<1>8. ASSUME NEW status \in BOOLEAN, EndSessions(status) PROVE TokensInv'
  BY <1>8, TokensExcused DEF EndSessions, TokensInv, FlightsTyped, Flying
<1>9. CASE Activate
  BY <1>9 DEF Activate, TokensInv, FlightsTyped, OneFlight, AtRest, Fits, Flying
<1>10. CASE UNCHANGED sessionVars
  BY <1>10, TokensUntouched DEF sessionVars
<1> QED
  BY <1>1, <1>2, <1>3, <1>4, <1>5, <1>6, <1>7, <1>8, <1>9, <1>10 DEF SessionsNext

(* The client never presents a refresh token twice of its own accord       *)
(* (refreshInFlight, issueTokens, consume): however many calls of however  *)
(* many tabs are answered 401.                                             *)
THEOREM NeverReusedByItself == SessionsSpec => []RefusedForAReason
<1>1. ASSUME SessionsInit PROVE TokensInv
  <2>1. FlightsTyped
    BY <1>1 DEF SessionsInit, FlightsTyped, FlightPhase, Landed
  <2>2. \A w \in Window, f \in Call : flights[w][f].phase = "none"
    BY <1>1 DEF SessionsInit, Landed
  <2>3. active = TRUE /\ cookie \in live
    BY <1>1 DEF SessionsInit
  <2> QED
    BY <2>1, <2>2, <2>3 DEF TokensInv, OneFlight, AtRest, Fits, Flying
<1>2. TokensInv => RefusedForAReason
  BY DEF TokensInv, FlightsTyped, Fits, RefusedForAReason
<1> QED
  BY <1>1, <1>2, RefreshTokensInductive, PTL DEF SessionsSpec

----------------------------------------------------------------------------
(* The list pages.                                                         *)

ListsSpec == ListsInit /\ [][ListsNext]_listVars

PageName ==
  {"orders", "repairs", "purchaseOrders", "transfers", "counts", "returns", "products",
   "units", "customers", "suppliers", "locations", "inventory", "finance", "users",
   "settings", "audit", "notifications", "automation", "reorder"}

PageOk(page) ==
  /\ DOMAIN page = {"search", "filters", "buttons", "routes"}
  /\ DOMAIN page.buttons = Operations

LEMMA PagesAreNamed == DOMAIN Pages = PageName
BY DEF Pages, PageName

(* Every link leads to readers of its page, and a reader's buttons call    *)
(* routes that accept the reader.                                          *)
LEMMA LinksAreReadable ==
  ASSUME NEW name \in DOMAIN Pages
  PROVE  ShownTo(name) \subseteq ReadableBy(name) /\ ShownTo(name) \subseteq Role
BY PagesAreNamed DEF PageName, ShownTo, ReadableBy, Role, Managers, Admins

LEMMA ButtonsAreAllowed ==
  ASSUME NEW name \in DOMAIN Pages, NEW op \in Operations
  PROVE  \A role \in ShownTo(name) \cap Pages[name].buttons[op] : Allowed(name, op, role)
<1> USE DEF Allowed, Pages, Page, Only, Offered, NoButtons, Operations
<1>1. CASE name \in {"orders", "repairs", "purchaseOrders", "transfers", "counts", "returns"}
  BY <1>1 DEF OrdersPage, RepairsPage, PurchaseOrdersPage, StockTransfersPage,
     StockCountsPage, ReturnsPage, OrdersRoutes, RepairsRoutes, PurchaseOrdersRoutes,
     TransfersRoutes, CountsRoutes, ReturnsRoutes
<1>2. CASE name \in {"products", "units", "inventory", "finance"}
  BY <1>2 DEF ProductsPage, ProductUnitsPage, InventoryPage, FinancePage,
     ProductsRoutes, UnitsRoutes, StockRoutes, FinanceRoutes
<1>3. CASE name \in {"customers", "suppliers", "locations"}
  BY <1>3 DEF CustomersPage, SuppliersPage, LocationsPage, EntityCrudPage,
     CustomersRoutes, SuppliersRoutes, LocationsRoutes
<1>4. CASE name \in {"users", "settings", "audit", "reorder"}
  BY <1>4 DEF UsersPage, SettingsPage, AuditPage, ReorderPage, UsersRoutes, SettingsRoutes
<1>5. CASE name \in {"notifications", "automation"}
  BY <1>5 DEF NotificationsPage, AutomationPage, NotificationsRoutes, AutomationRoutes
<1> QED
  BY <1>1, <1>2, <1>3, <1>4, <1>5, PagesAreNamed DEF PageName

AnyFilter == UNION {Pages[name].filters : name \in DOMAIN Pages}

AnswerShown == [known : BOOLEAN, rows : Nat, total : Nat]

ListShown ==
  [name : DOMAIN Pages, role : Role, page : Nat \ {0}, typed : BOOLEAN, search : BOOLEAN,
   settling : BOOLEAN, chosen : SUBSET AnyFilter, answer : AnswerShown, left : BOOLEAN,
   outcome : {"none", "done", "refused", "forbidden"}]

ListsTyped == table \in [live : Nat, deleted : Nat] /\ list \in ListShown

LedHere == list.role \in ShownTo(list.name) /\ list.outcome # "forbidden"

RowsBefore(page) == (page - 1) * PageSize

(* While no row has left, there are rows on the page that is shown and at  *)
(* least as many as the last answer told of.                               *)
PageHasRows ==
  ~list.left =>
    /\ list.page = 1 \/ RowsBefore(list.page) < Matching
    /\ list.answer.known => list.answer.total <= Matching

ListsInv == ListsTyped /\ LedHere /\ PageHasRows /\ NoFalseEmptyList

(* Only rows that leave make fewer rows match.                             *)
LEMMA MatchingTyped == ListsTyped => Matching \in Nat
BY DEF ListsTyped, ListShown, Matching

LEMMA MatchingGrows ==
  ASSUME ListsTyped, ListsTyped', list'.search = list.search, list'.chosen = list.chosen,
         table.live <= table'.live, table.deleted <= table'.deleted
  PROVE  Matching <= Matching'
BY DEF ListsTyped, ListShown, Matching

LEMMA PageRows ==
  ASSUME NEW page \in Nat \ {0}
  PROVE  RowsBefore(page) \in Nat /\ RowsBefore(1) = 0
BY ListsAssumption DEF RowsBefore

(* buildPagination: a page that is counted has rows.                       *)
LEMMA CountedPageHasRows ==
  ASSUME NEW total \in Nat, NEW page \in 1 .. PagesOf(total)
  PROVE  RowsBefore(page) < total
<1> DEFINE q == PagesOf(total)
<1>1. q \in Nat /\ q * PageSize <= total + PageSize - 1
  BY ListsAssumption DEF PagesOf
<1>2. page \in Nat /\ page <= q /\ PageSize \in Nat /\ PageSize > 0
  BY <1>1, ListsAssumption
<1> HIDE DEF q
<1>3. (q - page) * PageSize >= 0
  BY <1>1, <1>2
<1>4. (q - page) * PageSize = q * PageSize - page * PageSize
  BY <1>1, <1>2
<1>5. RowsBefore(page) = page * PageSize - PageSize
  BY <1>2 DEF RowsBefore
<1> QED
  BY <1>1, <1>2, <1>3, <1>4, <1>5

(* An answer shows rows wherever there are rows left.                      *)
LEMMA AnswerHasRows ==
  ASSUME NEW page \in Nat \ {0}, NEW total \in Nat
  PROVE  /\ RowsOn(page, total) \in Nat
         /\ RowsOn(page, total) = 0 <=> total <= RowsBefore(page)
<1>1. RowsBefore(page) \in Nat
  BY PageRows
<1>2. RowsOn(page, total) = IF total <= RowsBefore(page) THEN 0
                            ELSE IF total - RowsBefore(page) > PageSize THEN PageSize
                                 ELSE total - RowsBefore(page)
  BY DEF RowsOn, RowsBefore
<1> QED
  BY <1>1, <1>2, ListsAssumption

(* A new search or filter starts at the first page of a list.              *)
LEMMA FirstPageShown ==
  ASSUME NEW l \in ListShown
  PROVE  /\ FirstPage(l) \in ListShown
         /\ FirstPage(l).name = l.name /\ FirstPage(l).role = l.role
         /\ FirstPage(l).outcome = l.outcome
         /\ FirstPage(l).page = 1 /\ FirstPage(l).answer = NoAnswerYet
<1>1. NoAnswerYet \in AnswerShown
  BY DEF NoAnswerYet, AnswerShown
<1> DEFINE first == [l EXCEPT !.page = 1]
           blank == [first EXCEPT !.answer = NoAnswerYet]
<1>2. /\ first \in ListShown /\ first.page = 1 /\ first.name = l.name
      /\ first.role = l.role /\ first.outcome = l.outcome
  BY DEF ListShown
<1> HIDE DEF first
<1>3. /\ blank \in ListShown /\ blank.page = 1 /\ blank.answer = NoAnswerYet
      /\ blank.name = l.name /\ blank.role = l.role /\ blank.outcome = l.outcome
  BY <1>1, <1>2 DEF ListShown
<1>4. FirstPage(l) = [blank EXCEPT !.left = FALSE]
  BY DEF FirstPage, first
<1> HIDE DEF blank
<1> QED
  BY <1>3, <1>4 DEF ListShown

LEMMA FirstPageKeeps ==
  ASSUME ListsInv, NEW l \in ListShown, list' = FirstPage(l), UNCHANGED table,
         l.name = list.name, l.role = list.role, l.outcome = list.outcome
  PROVE  ListsInv'
<1>1. ListsTyped' /\ LedHere' /\ list'.page = 1 /\ list'.answer = NoAnswerYet
  BY FirstPageShown DEF ListsInv, ListsTyped, LedHere
<1> QED
  BY <1>1 DEF ListsInv, PageHasRows, NoFalseEmptyList, NoAnswerYet

LEMMA TypeKeepsLists ==
  ASSUME ListsInv, Type PROVE ListsInv'
<1> DEFINE found == [list EXCEPT !.typed = ~@, !.search = ~@]
           waits == [list EXCEPT !.typed = ~@, !.settling = TRUE]
<1>1. list \in ListShown
  BY DEF ListsInv, ListsTyped
<1>2. /\ found \in ListShown /\ waits \in ListShown
      /\ found.name = list.name /\ found.role = list.role /\ found.outcome = list.outcome
  BY <1>1 DEF ListShown
<1>3. CASE Pages[list.name].search = "direct"
  BY <1>2, <1>3, FirstPageKeeps DEF Type
<1>4. CASE Pages[list.name].search # "direct"
  <2>1. list' = waits /\ UNCHANGED table
    BY <1>4 DEF Type
  <2>2. /\ list'.search = list.search /\ list'.chosen = list.chosen /\ list'.page = list.page
        /\ list'.answer = list.answer /\ list'.left = list.left /\ list'.name = list.name
        /\ list'.role = list.role /\ list'.outcome = list.outcome
    BY <1>1, <2>1 DEF ListShown
  <2> QED
    BY <1>2, <2>1, <2>2
       DEF ListsInv, ListsTyped, LedHere, PageHasRows, NoFalseEmptyList, Matching
<1> QED
  BY <1>3, <1>4

LEMMA SettleKeepsLists ==
  ASSUME ListsInv, Settle PROVE ListsInv'
<1> DEFINE found == [list EXCEPT !.search = list.typed, !.settling = FALSE]
<1>1. /\ found \in ListShown
      /\ found.name = list.name /\ found.role = list.role /\ found.outcome = list.outcome
  BY DEF ListsInv, ListsTyped, ListShown
<1> QED
  BY <1>1, FirstPageKeeps DEF Settle

LEMMA ChooseKeepsLists ==
  ASSUME ListsInv, NEW f \in Pages[list.name].filters, Choose(f) PROVE ListsInv'
<1> DEFINE sifted == [list EXCEPT !.chosen = IF f \in @ THEN {} ELSE {f}]
<1>1. f \in AnyFilter
  BY DEF ListsInv, ListsTyped, ListShown, AnyFilter
<1>2. /\ sifted \in ListShown
      /\ sifted.name = list.name /\ sifted.role = list.role
      /\ sifted.outcome = list.outcome
  BY <1>1 DEF ListsInv, ListsTyped, ListShown
<1> QED
  BY <1>2, FirstPageKeeps DEF Choose

LEMMA TurnKeepsLists ==
  ASSUME ListsInv, NEW page \in 1 .. MaxRows, Turn(page) PROVE ListsInv'
<1>0. NoAnswerYet \in AnswerShown /\ ~NoAnswerYet.known
  BY DEF NoAnswerYet, AnswerShown
<1>1. ListsTyped' /\ LedHere' /\ ~list'.answer.known
  <2>1. list \in ListShown /\ page \in Nat \ {0} /\ LedHere /\ ListsTyped
    BY ListsAssumption DEF ListsInv, ListsTyped
  <2>2. list' \in ListShown /\ list'.answer = NoAnswerYet
        /\ list'.name = list.name /\ list'.role = list.role /\ list'.outcome = list.outcome
    BY <1>0, <2>1 DEF Turn, ListShown
  <2> QED
    BY <1>0, <2>1, <2>2 DEF Turn, ListsTyped, LedHere
<1>2. list'.left = list.left /\ list'.page = page /\ Matching' = Matching
  BY DEF Turn, ListsInv, ListsTyped, ListShown, AnswerShown, Matching
<1>3. RowsBefore(page) < list.answer.total
  BY CountedPageHasRows DEF Turn, ListsInv, ListsTyped, ListShown, AnswerShown
<1>4. ~list.left => list.answer.total <= Matching
  BY DEF Turn, ListsInv, PageHasRows
<1>5. RowsBefore(page) \in Nat /\ Matching \in Nat /\ list.answer.total \in Nat
  BY PageRows, MatchingTyped DEF ListsInv, ListsTyped, ListShown, AnswerShown
<1>6. PageHasRows'
  BY <1>1, <1>2, <1>3, <1>4, <1>5 DEF PageHasRows, RowsBefore
<1> QED
  BY <1>1, <1>6 DEF ListsInv, NoFalseEmptyList

LEMMA FetchKeepsLists ==
  ASSUME ListsInv, Fetch PROVE ListsInv'
<1>1. list' = [list EXCEPT !.answer = [known |-> TRUE, rows |-> RowsOn(list.page, Matching),
                                       total |-> Matching]]
  BY LinksAreReadable DEF Fetch, ListsInv, ListsTyped, ListShown, AnswerShown, LedHere
<1>2. /\ Matching \in Nat /\ list.page \in Nat \ {0}
      /\ RowsOn(list.page, Matching) \in Nat
      /\ RowsOn(list.page, Matching) = 0 <=> Matching <= RowsBefore(list.page)
  BY MatchingTyped, AnswerHasRows DEF ListsInv, ListsTyped, ListShown, AnswerShown
<1>3. ListsTyped' /\ LedHere'
  <2> DEFINE answer == [known |-> TRUE, rows |-> RowsOn(list.page, Matching),
                        total |-> Matching]
  <2>1. answer \in AnswerShown
    BY <1>2 DEF AnswerShown
  <2> HIDE DEF answer
  <2>2. list' = [list EXCEPT !.answer = answer]
    BY <1>1 DEF answer
  <2>3. /\ list' \in ListShown
        /\ list'.name = list.name /\ list'.role = list.role /\ list'.outcome = list.outcome
    BY <2>1, <2>2 DEF ListsInv, ListsTyped, ListShown
  <2> QED
    BY <2>3 DEF Fetch, ListsInv, ListsTyped, LedHere
<1>4. /\ list'.left = list.left /\ list'.page = list.page /\ Matching' = Matching
      /\ list'.answer.rows = RowsOn(list.page, Matching) /\ list'.answer.total = Matching
  BY <1>1 DEF Fetch, ListsInv, ListsTyped, ListShown, AnswerShown, Matching
<1>5. PageHasRows'
  BY <1>2, <1>4 DEF ListsInv, PageHasRows, RowsBefore
<1>6. RowsBefore(1) = 0 /\ RowsBefore(list.page) \in Nat
  BY <1>2, PageRows
<1>7. NoFalseEmptyList'
  BY <1>2, <1>4, <1>6 DEF ListsInv, PageHasRows, NoFalseEmptyList
<1> QED
  BY <1>3, <1>5, <1>7 DEF ListsInv

(* A write, here or elsewhere: rows are added, or one has left.            *)
LEMMA WriteGrows ==
  ASSUME ListsTyped, NEW op \in Operations, Performable(op), table' = TableAfter(op)
  PROVE  /\ table' \in [live : Nat, deleted : Nat]
         /\ op \notin {"remove", "restore"} =>
              table.live <= table'.live /\ table.deleted <= table'.deleted
<1>0. /\ table \in [live : Nat, deleted : Nat]
      /\ table.live \in Nat /\ table.deleted \in Nat
  BY DEF ListsTyped
<1>1. CASE op \in {"create", "edit"}
  BY <1>0, <1>1 DEF TableAfter
<1>2. CASE op = "remove"
  <2>1. PICK left \in Nat : left = table.live - 1
    BY <1>0, <1>2 DEF Performable
  <2>2. PICK more \in Nat : more = table.deleted + 1
    BY <1>0
  <2>3. \/ table' = [table EXCEPT !.live = left, !.deleted = more]
        \/ table' = [table EXCEPT !.live = left]
    BY <1>2, <2>1, <2>2 DEF TableAfter
  <2>4. table' \in [live : Nat, deleted : Nat]
    BY <1>0, <2>3
  <2> QED
    BY <1>2, <2>4
<1>3. CASE op = "restore"
  <2>1. PICK left \in Nat : left = table.deleted - 1
    BY <1>0, <1>3 DEF Performable
  <2>2. PICK more \in Nat : more = table.live + 1
    BY <1>0
  <2>3. table' = [table EXCEPT !.live = more, !.deleted = left]
    BY <1>3, <2>1, <2>2 DEF TableAfter
  <2>4. table' \in [live : Nat, deleted : Nat]
    BY <1>0, <2>3
  <2> QED
    BY <1>3, <2>4
<1> QED
  BY <1>1, <1>2, <1>3 DEF Operations

MatchingCounted == Matching \in Nat

LEMMA MatchingIsCounted == ListsTyped => MatchingCounted
BY MatchingTyped DEF MatchingCounted

LEMMA MatchingTypedNext == ListsTyped' => MatchingCounted'
BY MatchingIsCounted, PTL

LEMMA RowsWrittenKeep ==
  ASSUME ListsInv, NEW op \in Operations, Performable(op), table' = TableAfter(op),
         ListsTyped', LedHere',
         list'.search = list.search, list'.chosen = list.chosen, list'.page = list.page,
         list'.left <=> list.left \/ op \in {"remove", "restore"},
         list'.answer = list.answer \/ list'.answer = NoAnswerYet
  PROVE  ListsInv'
<1>1. /\ ListsTyped /\ Matching \in Nat /\ list.page \in Nat \ {0}
      /\ RowsBefore(list.page) \in Nat
  BY MatchingTyped, PageRows DEF ListsInv, ListsTyped, ListShown
<1>2. Matching' \in Nat
  BY MatchingTypedNext DEF MatchingCounted
<1>3. ~list'.left => Matching <= Matching'
  BY <1>1, WriteGrows, MatchingGrows
<1>4. list'.answer.known =>
        list'.answer = list.answer /\ list.answer.total \in Nat
  BY <1>1 DEF NoAnswerYet, ListsTyped, ListShown, AnswerShown
<1>5. PageHasRows'
  <2>1. RowsBefore(list.page)' = RowsBefore(list.page)
    BY DEF RowsBefore
  <2>2. ASSUME ~list'.left
        PROVE  list'.page = 1 \/ RowsBefore(list.page)' < Matching'
    BY <1>1, <1>2, <1>3, <2>1, <2>2 DEF ListsInv, PageHasRows
  <2>3. ASSUME ~list'.left, list'.answer.known
        PROVE  list'.answer.total <= Matching'
    BY <1>1, <1>2, <1>3, <1>4, <2>3 DEF ListsInv, PageHasRows
  <2> QED
    BY <2>2, <2>3 DEF PageHasRows
<1>6. NoFalseEmptyList'
  BY <1>4 DEF ListsInv, NoFalseEmptyList
<1> QED
  BY <1>5, <1>6 DEF ListsInv

LEMMA UseKeepsLists ==
  ASSUME ListsInv, NEW op \in Operations, Use(op) PROVE ListsInv'
<1>1. list.name \in DOMAIN Pages /\ list.role \in ShownTo(list.name)
  BY DEF ListsInv, ListsTyped, ListShown, AnswerShown, LedHere
<1>2. list.role \in Pages[list.name].buttons[op]
  BY DEF Use, ButtonShown
<1>3. Allowed(list.name, op, list.role)
  BY <1>1, <1>2, ButtonsAreAllowed
<1>4. ASSUME Performable(op), table' = TableAfter(op),
             list' = [list EXCEPT !.answer = NoAnswerYet, !.outcome = "done",
                                  !.left = @ \/ op \in {"remove", "restore"}]
      PROVE  ListsInv'
  <2>1. ListsTyped /\ table' \in [live : Nat, deleted : Nat]
    BY <1>4, WriteGrows DEF ListsInv
  <2>2. NoAnswerYet \in AnswerShown
    BY DEF NoAnswerYet, AnswerShown
  <2> DEFINE blank == [list EXCEPT !.answer = NoAnswerYet, !.outcome = "done"]
             gone == list.left \/ op \in {"remove", "restore"}
  <2>3. /\ blank \in ListShown /\ blank.answer = NoAnswerYet /\ blank.outcome = "done"
        /\ blank.name = list.name /\ blank.role = list.role /\ blank.page = list.page
        /\ blank.search = list.search /\ blank.chosen = list.chosen
    BY <2>1, <2>2 DEF ListsTyped, ListShown
  <2>4. list' = [blank EXCEPT !.left = gone] /\ gone \in BOOLEAN
    BY <1>4, <2>1 DEF ListsTyped, ListShown
  <2> HIDE DEF blank, gone
  <2>5. /\ list' \in ListShown /\ list'.left = gone /\ list'.answer = NoAnswerYet
        /\ list'.outcome = "done" /\ list'.name = list.name /\ list'.role = list.role
        /\ list'.page = list.page /\ list'.search = list.search
        /\ list'.chosen = list.chosen
    BY <2>3, <2>4 DEF ListShown
  <2>6. ListsTyped' /\ LedHere'
    BY <2>1, <2>5 DEF ListsInv, ListsTyped, LedHere
  <2> QED
    BY <1>4, <2>5, <2>6, RowsWrittenKeep DEF gone
<1>5. ASSUME list' = [list EXCEPT !.outcome = "refused"], UNCHANGED table
      PROVE  ListsInv'
  <2>1. /\ list' \in ListShown /\ list'.outcome = "refused"
        /\ list'.search = list.search /\ list'.chosen = list.chosen /\ list'.page = list.page
        /\ list'.answer = list.answer /\ list'.left = list.left /\ list'.name = list.name
        /\ list'.role = list.role
    BY <1>5 DEF ListsInv, ListsTyped, ListShown
  <2> QED
    BY <1>5, <2>1 DEF ListsInv, ListsTyped, LedHere, PageHasRows, NoFalseEmptyList, Matching
<1> QED
  BY <1>3, <1>4, <1>5 DEF Use

LEMMA WriteElsewhereKeepsLists ==
  ASSUME ListsInv, NEW op \in Operations, WriteElsewhere(op) PROVE ListsInv'
<1>1. ListsTyped /\ table' \in [live : Nat, deleted : Nat]
  BY WriteGrows DEF WriteElsewhere, ListsInv
<1> DEFINE gone == list.left \/ op \in {"remove", "restore"}
<1>2. list' = [list EXCEPT !.left = gone] /\ gone \in BOOLEAN
  BY <1>1 DEF WriteElsewhere, ListsTyped, ListShown
<1> HIDE DEF gone
<1>3. /\ list' \in ListShown /\ list'.left = gone /\ list'.answer = list.answer
      /\ list'.name = list.name /\ list'.role = list.role /\ list'.page = list.page
      /\ list'.search = list.search /\ list'.chosen = list.chosen
      /\ list'.outcome = list.outcome
  BY <1>1, <1>2 DEF ListsTyped, ListShown
<1>4. ListsTyped' /\ LedHere'
  BY <1>1, <1>3 DEF ListsInv, ListsTyped, LedHere
<1> QED
  BY <1>3, <1>4, RowsWrittenKeep DEF WriteElsewhere, gone

LEMMA ListsInductive == ListsInv /\ [ListsNext]_listVars => ListsInv'
<1> SUFFICES ASSUME ListsInv, [ListsNext]_listVars PROVE ListsInv'
  OBVIOUS
<1>1. CASE UNCHANGED listVars
  BY <1>1 DEF listVars, ListsInv, ListsTyped, LedHere, PageHasRows, NoFalseEmptyList, Matching
<1> QED
  BY <1>1, TypeKeepsLists, SettleKeepsLists, FetchKeepsLists, ChooseKeepsLists,
     TurnKeepsLists, UseKeepsLists, WriteElsewhereKeepsLists DEF ListsNext

LEMMA ListsStart == ListsInit => ListsInv
<1> SUFFICES ASSUME ListsInit PROVE ListsInv
  OBVIOUS
<1>1. PICK name \in DOMAIN Pages : \E role \in ShownTo(name) : list = Opened(name, role)
  BY DEF ListsInit
<1>2. PICK role \in ShownTo(name) : list = Opened(name, role)
  BY <1>1
<1>3. role \in Role /\ (name = "reorder" => "needed" \in Pages[name].filters)
  BY LinksAreReadable DEF Pages, ReorderPage, Page
<1>4. ListsTyped /\ LedHere
  BY <1>2, <1>3, ListsAssumption
     DEF ListsInit, Opened, NoAnswerYet, ListsTyped, ListShown, AnswerShown, LedHere, AnyFilter
<1> QED
  BY <1>2, <1>4 DEF ListsInv, PageHasRows, NoFalseEmptyList, Opened, NoAnswerYet

(* However rows come and go, whatever is typed, chosen and turned to, a    *)
(* list with matching rows looks empty only after rows have left it        *)
(* (buildPagination, and the pages' resets of the page number).            *)
THEOREM EmptyMeansEmpty == ListsSpec => []NoFalseEmptyList
<1>1. ListsInv => NoFalseEmptyList
  BY DEF ListsInv
<1> QED
  BY <1>1, ListsStart, ListsInductive, PTL DEF ListsSpec

(* The roles of the navigation, of the buttons and of the routes agree:    *)
(* nobody is led to a page, or shown a button, that is forbidden.          *)
THEOREM NobodyMeetsForbidden == ListsSpec => []ListsAgreeOnRoles
<1>1. ListsInv => ListsAgreeOnRoles
  BY DEF ListsInv, LedHere, ListsAgreeOnRoles
<1> QED
  BY <1>1, ListsStart, ListsInductive, PTL DEF ListsSpec

----------------------------------------------------------------------------
(* The document pages.                                                     *)

PagesSpec == PagesInit /\ [][PagesNext]_pageVars

DocumentStatus ==
  [order    |-> {"DRAFT", "CONFIRMED", "COMPLETED", "CANCELLED"},
   purchase |-> {"DRAFT", "APPROVED", "ORDERED", "PARTIALLY_RECEIVED", "RECEIVED", "CANCELLED"},
   transfer |-> {"DRAFT", "REQUESTED", "APPROVED", "IN_TRANSIT", "COMPLETED", "CANCELLED"},
   count    |-> {"DRAFT", "COUNTING", "REVIEW", "APPROVED", "COMPLETED", "CANCELLED"},
   return   |-> {"PENDING", "APPROVED", "REJECTED", "COMPLETED"},
   repair   |-> OpenStatus \cup {"COMPLETED", "DELIVERED", "CANCELLED"}]

(* A document, as far as its pages look at it, has a status of its kind,   *)
(* and nothing was paid for a draft.                                       *)
IsDocument(doc) ==
  /\ DOMAIN doc = {"kind", "status", "lines", "ready", "due", "paid", "stocked"}
  /\ doc.kind \in DocumentKind /\ doc.status \in DocumentStatus[doc.kind]
  /\ doc.kind = "order" /\ doc.status = "DRAFT" => ~doc.paid

(* A tab shows the document as it was at some time.                        *)
IsTab(tab) ==
  tab.role \in Role /\ IsDocument(tab.shown) /\ tab.shown.kind = document.kind

PagesInv ==
  /\ IsDocument(document)
  /\ DOMAIN tabs = Tab /\ \A t \in Tab : IsTab(tabs[t])

LEMMA KindsOfDocument ==
  ASSUME NEW kind \in DocumentKind
  PROVE  \/ /\ kind = "order" /\ Routes(kind) = OrderRoutes
            /\ DocumentStatus[kind] = {"DRAFT", "CONFIRMED", "COMPLETED", "CANCELLED"}
         \/ /\ kind = "purchase" /\ Routes(kind) = PurchaseRoutes
            /\ DocumentStatus[kind] = {"DRAFT", "APPROVED", "ORDERED",
                                       "PARTIALLY_RECEIVED", "RECEIVED", "CANCELLED"}
         \/ /\ kind = "transfer" /\ Routes(kind) = TransferRoutes
            /\ DocumentStatus[kind] = {"DRAFT", "REQUESTED", "APPROVED", "IN_TRANSIT",
                                       "COMPLETED", "CANCELLED"}
         \/ /\ kind = "count" /\ Routes(kind) = CountRoutes
            /\ DocumentStatus[kind] = {"DRAFT", "COUNTING", "REVIEW", "APPROVED",
                                       "COMPLETED", "CANCELLED"}
         \/ /\ kind = "return" /\ Routes(kind) = ReturnRoutes
            /\ DocumentStatus[kind] = {"PENDING", "APPROVED", "REJECTED", "COMPLETED"}
         \/ /\ kind = "repair" /\ Routes(kind) = RepairRoutes
            /\ DocumentStatus[kind] =
                 OpenStatus \cup {"COMPLETED", "DELIVERED", "CANCELLED"}
BY DEF DocumentKind, DocumentStatus, Routes

LEMMA RepairRouteShape ==
  ASSUME NEW route
  PROVE  route \in RepairRoutes <=>
           \/ route \in {Edit(Repairers, OpenStatus),
                         Route("work", Repairers, OpenStatus, {}),
                         Route("pay", Sellers, PayableStatus, {})}
           \/ \E from \in DOMAIN RepairMoves : \E to \in RepairMoves[from] :
                route = To(to, Role, {from}, to)
<1> DEFINE Moved(from) == {To(to, Role, {from}, to) : to \in RepairMoves[from]}
<1>1. \A from : route \in Moved(from) <=> \E to \in RepairMoves[from] :
                                              route = To(to, Role, {from}, to)
  OBVIOUS
<1> HIDE DEF Moved
<1>2. route \in UNION {Moved(from) : from \in DOMAIN RepairMoves}
        <=> \E from \in DOMAIN RepairMoves : route \in Moved(from)
  OBVIOUS
<1> QED
  BY <1>1, <1>2, Zenon DEF RepairRoutes, Moved

RepairPageStatus == OpenStatus \cup {"COMPLETED", "DELIVERED", "CANCELLED"}

LEMMA MovesStayWithin ==
  /\ DOMAIN RepairMoves = RepairPageStatus
  /\ \A from \in RepairPageStatus : RepairMoves[from] \subseteq RepairPageStatus
BY DEF RepairMoves, RepairPageStatus, OpenStatus

LEMMA RoutesStayWithin ==
  ASSUME NEW kind \in DocumentKind, NEW route \in Routes(kind)
  PROVE  route.to \subseteq DocumentStatus[kind]
<1> USE DEF Route, To, Edit
<1>1. CASE kind \in {"order", "return"}
  BY <1>1, KindsOfDocument DEF OrderRoutes, ReturnRoutes
<1>2. CASE kind = "purchase"
  BY <1>2, KindsOfDocument DEF PurchaseRoutes
<1>3. CASE kind = "transfer"
  BY <1>3, KindsOfDocument DEF TransferRoutes
<1>4. CASE kind = "count"
  BY <1>4, KindsOfDocument DEF CountRoutes, AnyCountStatus
<1>5. CASE kind = "repair"
  <2>1. DocumentStatus[kind] = RepairPageStatus /\ route \in RepairRoutes
    BY <1>5, KindsOfDocument DEF RepairPageStatus
  <2>2. CASE \E from \in DOMAIN RepairMoves : \E to \in RepairMoves[from] :
               route = To(to, Role, {from}, to)
    BY <2>1, <2>2, MovesStayWithin
  <2> QED
    BY <2>1, <2>2, RepairRouteShape
<1> QED
  BY <1>1, <1>2, <1>3, <1>4, <1>5 DEF DocumentKind

(* What a request may leave of a document, field by field.                 *)
StatusAfter(doc, action, role) ==
  UNION {IF route.to = {} THEN {doc.status} ELSE route.to :
           route \in Accepted(doc, action, role)}
LinesAfter(doc, action) == IF action \in {"edit", "line"} THEN BOOLEAN ELSE {doc.lines}
ReadyAfter(doc, action) ==
  IF action \in {"edit", "enter", "work"} THEN BOOLEAN ELSE {doc.ready}
DueAfter(doc, action) ==
  IF action \in {"confirm", "pay", "COMPLETED"} THEN BOOLEAN
  ELSE {doc.due \/ action = "order"}

DocumentAfter(doc, action, s, l, r, d) ==
  [doc EXCEPT !.status = s, !.lines = l, !.ready = r,
              !.due = IF action = "receive" THEN s # "RECEIVED" ELSE d,
              !.paid = @ \/ action = "pay"]

LEMMA OutcomesByField ==
  ASSUME NEW doc, NEW action, NEW role, NEW later
  PROVE  later \in Outcomes(doc, action, role) <=>
           \E s \in StatusAfter(doc, action, role), l \in LinesAfter(doc, action),
              r \in ReadyAfter(doc, action), d \in DueAfter(doc, action) :
             later = DocumentAfter(doc, action, s, l, r, d)
<1>1. Outcomes(doc, action, role) =
        {DocumentAfter(doc, action, s, l, r, d) :
           s \in StatusAfter(doc, action, role), l \in LinesAfter(doc, action),
           r \in ReadyAfter(doc, action), d \in DueAfter(doc, action)}
  BY DEF Outcomes, StatusAfter, LinesAfter, ReadyAfter, DueAfter, DocumentAfter
<1> QED
  BY <1>1

(* What an accepted route makes of a document.                             *)
LEMMA OutcomeIsDocument ==
  ASSUME NEW doc, IsDocument(doc), NEW action, NEW role,
         NEW later \in Outcomes(doc, action, role)
  PROVE  IsDocument(later) /\ later.kind = doc.kind
<1>1. PICK s \in StatusAfter(doc, action, role), l \in LinesAfter(doc, action),
           r \in ReadyAfter(doc, action), d \in DueAfter(doc, action) :
        later = DocumentAfter(doc, action, s, l, r, d)
  BY OutcomesByField
<1>2. PICK route \in Accepted(doc, action, role) :
        s \in (IF route.to = {} THEN {doc.status} ELSE route.to)
  BY DEF StatusAfter
<1>3. s \in DocumentStatus[doc.kind]
  BY <1>2, RoutesStayWithin DEF Accepted, IsDocument
<1>4. /\ DOMAIN later = DOMAIN doc /\ later.kind = doc.kind
      /\ later.status = s /\ later.paid = (doc.paid \/ action = "pay")
  BY <1>1 DEF IsDocument, DocumentAfter
<1>5. ASSUME doc.kind = "order", s = "DRAFT" PROVE doc.status = "DRAFT" /\ action # "pay"
  BY <1>2, <1>5 DEF Accepted, Routes, OrderRoutes, Route, To, Edit
<1> QED
  BY <1>3, <1>4, <1>5 DEF IsDocument

LEMMA AcceptedHasOutcome ==
  ASSUME NEW doc, IsDocument(doc), NEW action, NEW role,
         NEW route \in Accepted(doc, action, role),
         NEW s \in IF route.to = {} THEN {doc.status} ELSE route.to
  PROVE  \E later \in Outcomes(doc, action, role) : later.status = s
<1>1. s \in StatusAfter(doc, action, role)
  BY DEF StatusAfter
<1>2. PICK l \in LinesAfter(doc, action), r \in ReadyAfter(doc, action),
           d \in DueAfter(doc, action) : TRUE
  BY DEF LinesAfter, ReadyAfter, DueAfter
<1> DEFINE later == DocumentAfter(doc, action, s, l, r, d)
<1>3. later \in Outcomes(doc, action, role)
  BY <1>1, <1>2, OutcomesByField
<1>4. later.status = s
  BY DEF IsDocument, DocumentAfter
<1> QED
  BY <1>3, <1>4

(* Unless it is hindered, every button a page offers for a document is a   *)
(* route that accepts it.                                                  *)
Unblocked(doc) == doc.ready /\ ~doc.paid /\ doc.stocked

Taken(doc, action, role) ==
  \E route \in Accepted(doc, action, role) : TRUE

LEMMA RouteTakes ==
  ASSUME NEW doc, NEW action, NEW role, NEW roles, NEW from, NEW to,
         Route(action, roles, from, to) \in Routes(doc.kind),
         role \in roles, doc.status \in from, Checked(doc, action)
  PROVE  Taken(doc, action, role)
BY DEF Taken, Accepted, Route

LEMMA OrderButtonsTaken ==
  ASSUME NEW doc, doc.kind = "order", Unblocked(doc), NEW role,
         NEW action \in OrderButtons(doc, role)
  PROVE  Taken(doc, action, role)
<1>1. /\ Route("confirm", Sellers, {"DRAFT"}, {"CONFIRMED"}) \in Routes(doc.kind)
      /\ Route("complete", Sellers, {"CONFIRMED"}, {"COMPLETED"}) \in Routes(doc.kind)
      /\ Route("cancel", Sellers, {"DRAFT", "CONFIRMED"}, {"CANCELLED"})
           \in Routes(doc.kind)
      /\ Route("pay", Sellers, {"CONFIRMED", "COMPLETED"}, {}) \in Routes(doc.kind)
  BY DEF Routes, OrderRoutes, To
<1>2. Checked(doc, action)
  BY DEF Checked, WantsLines, Unblocked, OrderButtons, When
<1> QED
  BY <1>1, <1>2, RouteTakes DEF OrderButtons, When

LEMMA PurchaseButtonsTaken ==
  ASSUME NEW doc, doc.kind = "purchase", Unblocked(doc), NEW role,
         NEW action \in PurchaseButtons(doc, role)
  PROVE  Taken(doc, action, role)
<1>1. /\ Route("approve", Managers, {"DRAFT"}, {"APPROVED"}) \in Routes(doc.kind)
      /\ Route("order", Managers, {"APPROVED"}, {"ORDERED"}) \in Routes(doc.kind)
      /\ Route("receive", Managers, {"ORDERED", "PARTIALLY_RECEIVED"},
               {"PARTIALLY_RECEIVED", "RECEIVED"}) \in Routes(doc.kind)
      /\ Route("cancel", Managers, {"DRAFT", "APPROVED", "ORDERED"}, {"CANCELLED"})
           \in Routes(doc.kind)
  BY DEF Routes, PurchaseRoutes, To
<1>2. Checked(doc, action)
  BY DEF Checked, WantsLines, Unblocked, PurchaseButtons, When
<1> QED
  BY <1>1, <1>2, RouteTakes DEF PurchaseButtons, When

LEMMA TransferButtonsTaken ==
  ASSUME NEW doc, doc.kind = "transfer", Unblocked(doc), NEW role,
         NEW action \in TransferButtons(doc, role)
  PROVE  Taken(doc, action, role)
<1>1. /\ Route("request", Managers, {"DRAFT"}, {"REQUESTED"}) \in Routes(doc.kind)
      /\ Route("approve", Managers, {"REQUESTED"}, {"APPROVED"}) \in Routes(doc.kind)
      /\ Route("ship", Managers, {"APPROVED"}, {"IN_TRANSIT"}) \in Routes(doc.kind)
      /\ Route("complete", Managers, {"IN_TRANSIT"}, {"COMPLETED"}) \in Routes(doc.kind)
      /\ Route("cancel", Managers, {"DRAFT", "REQUESTED", "APPROVED"}, {"CANCELLED"})
           \in Routes(doc.kind)
  BY DEF Routes, TransferRoutes, To
<1>2. Checked(doc, action)
  BY DEF Checked, WantsLines, Unblocked, TransferButtons, When
<1> QED
  BY <1>1, <1>2, RouteTakes DEF TransferButtons, When

LEMMA CountButtonsTaken ==
  ASSUME NEW doc, doc.kind = "count", Unblocked(doc), NEW role,
         NEW action \in CountButtons(doc, role)
  PROVE  Taken(doc, action, role)
<1>1. /\ Route("start", Managers, {"DRAFT"}, {"COUNTING"}) \in Routes(doc.kind)
      /\ Route("submit", Managers, {"COUNTING"}, {"REVIEW"}) \in Routes(doc.kind)
      /\ Route("approve", Managers, {"REVIEW"}, {"APPROVED"}) \in Routes(doc.kind)
      /\ Route("complete", Managers, {"APPROVED"}, {"COMPLETED"}) \in Routes(doc.kind)
      /\ Route("cancel", Managers, {"DRAFT", "COUNTING", "REVIEW"}, {"CANCELLED"})
           \in Routes(doc.kind)
  BY DEF Routes, CountRoutes, To
<1>2. Checked(doc, action)
  BY DEF Checked, WantsLines, Unblocked, CountButtons, When
<1> QED
  BY <1>1, <1>2, RouteTakes DEF CountButtons, When

LEMMA ReturnButtonsTaken ==
  ASSUME NEW doc, doc.kind = "return", Unblocked(doc), NEW role,
         NEW action \in ReturnButtons(doc, role)
  PROVE  Taken(doc, action, role)
<1>1. /\ Route("approve", Managers, {"PENDING"}, {"APPROVED"}) \in Routes(doc.kind)
      /\ Route("reject", Managers, {"PENDING"}, {"REJECTED"}) \in Routes(doc.kind)
      /\ Route("complete", Managers, {"APPROVED"}, {"COMPLETED"}) \in Routes(doc.kind)
  BY DEF Routes, ReturnRoutes, To
<1>2. Checked(doc, action)
  BY DEF Checked, WantsLines, Unblocked, ReturnButtons, When
<1> QED
  BY <1>1, <1>2, RouteTakes DEF ReturnButtons, When

(* The page's copy of the transitions is that of the service.              *)
LEMMA SameMoves == ShownMoves = RepairMoves
BY DEF ShownMoves, RepairMoves

LEMMA RepairButtonsTaken ==
  ASSUME NEW doc, IsDocument(doc), doc.kind = "repair", Unblocked(doc), NEW role \in Role,
         NEW action \in RepairButtons(doc, role)
  PROVE  Taken(doc, action, role)
<1>1. doc.status \in RepairPageStatus /\ Routes(doc.kind) = RepairRoutes
  BY KindsOfDocument DEF IsDocument, RepairPageStatus
<1>2. CASE action \in RepairMoves[doc.status]
  <2> DEFINE route == To(action, Role, {doc.status}, action)
  <2>1. route \in RepairRoutes
    BY <1>1, <1>2, RepairRouteShape, MovesStayWithin
  <2>2. action \in RepairPageStatus
    BY <1>1, <1>2, MovesStayWithin
  <2>3. Checked(doc, action)
    BY <2>2 DEF Checked, WantsLines, Unblocked, RepairPageStatus, OpenStatus
  <2>4. route \in Accepted(doc, action, role)
    BY <1>1, <2>1, <2>3 DEF Accepted, To, Route
  <2> QED
    BY <2>4 DEF Taken
<1>3. CASE action = "pay" /\ role \in Sellers /\ doc.status \in PayableStatus /\ doc.due
  <2> DEFINE route == Route("pay", Sellers, PayableStatus, {})
  <2>1. route \in RepairRoutes
    BY RepairRouteShape
  <2>2. route \in Accepted(doc, action, role)
    BY <1>1, <1>3, <2>1 DEF Accepted, Checked, WantsLines, Unblocked, Route
  <2> QED
    BY <2>2 DEF Taken
<1> QED
  BY <1>2, <1>3, SameMoves DEF RepairButtons, When

LEMMA ButtonsAreTaken ==
  ASSUME NEW doc, IsDocument(doc), Unblocked(doc), NEW role \in Role,
         NEW action \in Buttons(doc, role)
  PROVE  Taken(doc, action, role)
BY OrderButtonsTaken, PurchaseButtonsTaken, TransferButtonsTaken, CountButtonsTaken,
   ReturnButtonsTaken, RepairButtonsTaken DEF Buttons, IsDocument, DocumentKind

LEMMA TakenHasOutcome ==
  ASSUME NEW doc, IsDocument(doc), NEW action, NEW role, Taken(doc, action, role)
  PROVE  Outcomes(doc, action, role) # {}
<1>1. PICK route \in Accepted(doc, action, role) : TRUE
  BY DEF Taken
<1>2. PICK s \in IF route.to = {} THEN {doc.status} ELSE route.to : TRUE
  OBVIOUS
<1> QED
  BY <1>1, <1>2, AcceptedHasOutcome

(* An administrator has a button that moves an unfinished document on.     *)
MovesOn(doc, action) ==
  \E later \in Outcomes(doc, action, "ADMIN") : later.status # doc.status

LEMMA RouteMoves ==
  ASSUME NEW doc, IsDocument(doc), NEW action, NEW roles, NEW from, NEW to, NEW s \in to,
         Route(action, roles, from, to) \in Routes(doc.kind),
         "ADMIN" \in roles, doc.status \in from, Checked(doc, action), s # doc.status
  PROVE  MovesOn(doc, action)
<1> DEFINE route == Route(action, roles, from, to)
<1>1. route \in Accepted(doc, action, "ADMIN")
  BY DEF Accepted, Route
<1>2. s \in IF route.to = {} THEN {doc.status} ELSE route.to
  BY DEF Route
<1> HIDE DEF route
<1>3. \E later \in Outcomes(doc, action, "ADMIN") : later.status = s
  BY <1>1, <1>2, AcceptedHasOutcome
<1> QED
  BY <1>3 DEF MovesOn

(* A draft can be called off; a confirmed order may have been paid for,    *)
(* but can be completed.                                                   *)
LEMMA OrderMovesOn ==
  ASSUME NEW doc, IsDocument(doc), doc.kind = "order", doc.status \in {"DRAFT", "CONFIRMED"}
  PROVE  \E action \in Buttons(doc, "ADMIN") : MovesOn(doc, action)
<1>1. /\ Route("cancel", Sellers, {"DRAFT", "CONFIRMED"}, {"CANCELLED"}) \in Routes(doc.kind)
      /\ Route("complete", Sellers, {"CONFIRMED"}, {"COMPLETED"}) \in Routes(doc.kind)
  BY DEF Routes, OrderRoutes, To
<1>2. CASE doc.status = "DRAFT"
  <2>1. "cancel" \in Buttons(doc, "ADMIN") /\ Checked(doc, "cancel")
    BY <1>2 DEF IsDocument, Buttons, OrderButtons, When, Sellers, Checked, WantsLines
  <2> QED
    BY <1>1, <1>2, <2>1, RouteMoves DEF Sellers
<1>3. CASE doc.status = "CONFIRMED"
  <2>1. "complete" \in Buttons(doc, "ADMIN") /\ Checked(doc, "complete")
    BY <1>3 DEF Buttons, OrderButtons, When, Sellers, Checked, WantsLines
  <2> QED
    BY <1>1, <1>3, <2>1, RouteMoves DEF Sellers
<1> QED
  BY <1>2, <1>3

LEMMA PurchaseMovesOn ==
  ASSUME NEW doc, IsDocument(doc), doc.kind = "purchase",
         doc.status \notin {"RECEIVED", "CANCELLED"},
         doc.status = "PARTIALLY_RECEIVED" => doc.due
  PROVE  \E action \in Buttons(doc, "ADMIN") : MovesOn(doc, action)
<1>1. doc.status \in {"DRAFT", "APPROVED", "ORDERED", "PARTIALLY_RECEIVED"}
  BY KindsOfDocument DEF IsDocument
<1>2. /\ Route("cancel", Managers, {"DRAFT", "APPROVED", "ORDERED"}, {"CANCELLED"})
           \in Routes(doc.kind)
      /\ Route("receive", Managers, {"ORDERED", "PARTIALLY_RECEIVED"},
               {"PARTIALLY_RECEIVED", "RECEIVED"}) \in Routes(doc.kind)
  BY DEF Routes, PurchaseRoutes, To
<1>3. Checked(doc, "cancel") /\ (doc.due => Checked(doc, "receive"))
  BY DEF Checked, WantsLines
<1>4. CASE doc.status = "PARTIALLY_RECEIVED"
  <2>1. "receive" \in Buttons(doc, "ADMIN")
    BY <1>4 DEF Buttons, PurchaseButtons, When, Managers
  <2>2. MovesOn(doc, "receive")
    BY <1>2, <1>3, <1>4, RouteMoves DEF Managers
  <2> QED
    BY <2>1, <2>2
<1>5. CASE doc.status \in {"DRAFT", "APPROVED", "ORDERED"}
  <2>1. "cancel" \in Buttons(doc, "ADMIN")
    BY <1>5 DEF Buttons, PurchaseButtons, When, Managers
  <2>2. MovesOn(doc, "cancel")
    BY <1>2, <1>3, <1>5, RouteMoves DEF Managers
  <2> QED
    BY <2>1, <2>2
<1> QED
  BY <1>1, <1>4, <1>5

LEMMA TransferMovesOn ==
  ASSUME NEW doc, IsDocument(doc), doc.kind = "transfer",
         doc.status \notin {"COMPLETED", "CANCELLED"}
  PROVE  \E action \in Buttons(doc, "ADMIN") : MovesOn(doc, action)
<1>1. doc.status \in {"DRAFT", "REQUESTED", "APPROVED", "IN_TRANSIT"}
  BY KindsOfDocument DEF IsDocument
<1>2. /\ Route("cancel", Managers, {"DRAFT", "REQUESTED", "APPROVED"}, {"CANCELLED"})
           \in Routes(doc.kind)
      /\ Route("complete", Managers, {"IN_TRANSIT"}, {"COMPLETED"}) \in Routes(doc.kind)
  BY DEF Routes, TransferRoutes, To
<1>3. Checked(doc, "cancel") /\ Checked(doc, "complete")
  BY DEF Checked, WantsLines
<1>4. CASE doc.status = "IN_TRANSIT"
  <2>1. "complete" \in Buttons(doc, "ADMIN")
    BY <1>4 DEF Buttons, TransferButtons, When, Managers
  <2>2. MovesOn(doc, "complete")
    BY <1>2, <1>3, <1>4, RouteMoves DEF Managers
  <2> QED
    BY <2>1, <2>2
<1>5. CASE doc.status \in {"DRAFT", "REQUESTED", "APPROVED"}
  <2>1. "cancel" \in Buttons(doc, "ADMIN")
    BY <1>5 DEF Buttons, TransferButtons, When, Managers
  <2>2. MovesOn(doc, "cancel")
    BY <1>2, <1>3, <1>5, RouteMoves DEF Managers
  <2> QED
    BY <2>1, <2>2
<1> QED
  BY <1>1, <1>4, <1>5

LEMMA CountMovesOn ==
  ASSUME NEW doc, IsDocument(doc), doc.kind = "count",
         doc.status \notin {"COMPLETED", "CANCELLED"}
  PROVE  \E action \in Buttons(doc, "ADMIN") : MovesOn(doc, action)
<1>1. doc.status \in {"DRAFT", "COUNTING", "REVIEW", "APPROVED"}
  BY KindsOfDocument DEF IsDocument
<1>2. /\ Route("cancel", Managers, {"DRAFT", "COUNTING", "REVIEW"}, {"CANCELLED"})
           \in Routes(doc.kind)
      /\ Route("complete", Managers, {"APPROVED"}, {"COMPLETED"}) \in Routes(doc.kind)
  BY DEF Routes, CountRoutes, To
<1>3. Checked(doc, "cancel") /\ Checked(doc, "complete")
  BY DEF Checked, WantsLines
<1>4. CASE doc.status = "APPROVED"
  <2>1. "complete" \in Buttons(doc, "ADMIN")
    BY <1>4 DEF Buttons, CountButtons, When, Managers
  <2>2. MovesOn(doc, "complete")
    BY <1>2, <1>3, <1>4, RouteMoves DEF Managers
  <2> QED
    BY <2>1, <2>2
<1>5. CASE doc.status \in {"DRAFT", "COUNTING", "REVIEW"}
  <2>1. "cancel" \in Buttons(doc, "ADMIN")
    BY <1>5 DEF Buttons, CountButtons, When, Managers
  <2>2. MovesOn(doc, "cancel")
    BY <1>2, <1>3, <1>5, RouteMoves DEF Managers
  <2> QED
    BY <2>1, <2>2
<1> QED
  BY <1>1, <1>4, <1>5

LEMMA ReturnMovesOn ==
  ASSUME NEW doc, IsDocument(doc), doc.kind = "return",
         doc.status \notin {"COMPLETED", "REJECTED"}
  PROVE  \E action \in Buttons(doc, "ADMIN") : MovesOn(doc, action)
<1>1. doc.status \in {"PENDING", "APPROVED"}
  BY KindsOfDocument DEF IsDocument
<1>2. /\ Route("reject", Managers, {"PENDING"}, {"REJECTED"}) \in Routes(doc.kind)
      /\ Route("complete", Managers, {"APPROVED"}, {"COMPLETED"}) \in Routes(doc.kind)
  BY DEF Routes, ReturnRoutes, To
<1>3. Checked(doc, "reject") /\ Checked(doc, "complete")
  BY DEF Checked, WantsLines
<1>4. CASE doc.status = "APPROVED"
  <2>1. "complete" \in Buttons(doc, "ADMIN")
    BY <1>4 DEF Buttons, ReturnButtons, When, Managers
  <2>2. MovesOn(doc, "complete")
    BY <1>2, <1>3, <1>4, RouteMoves DEF Managers
  <2> QED
    BY <2>1, <2>2
<1>5. CASE doc.status = "PENDING"
  <2>1. "reject" \in Buttons(doc, "ADMIN")
    BY <1>5 DEF Buttons, ReturnButtons, When, Managers
  <2>2. MovesOn(doc, "reject")
    BY <1>2, <1>3, <1>5, RouteMoves DEF Managers
  <2> QED
    BY <2>1, <2>2
<1> QED
  BY <1>1, <1>4, <1>5

(* A repair can be called off until it is finished; then it is collected.  *)
LEMMA RepairMovesOn ==
  ASSUME NEW doc, IsDocument(doc), doc.kind = "repair",
         doc.status \notin {"DELIVERED", "CANCELLED"}
  PROVE  \E action \in Buttons(doc, "ADMIN") : MovesOn(doc, action)
<1>1. doc.status \in OpenStatus \cup {"COMPLETED"} /\ Routes(doc.kind) = RepairRoutes
  BY KindsOfDocument DEF IsDocument
<1>2. PICK next \in {"CANCELLED", "DELIVERED"} : next \in RepairMoves[doc.status]
  BY <1>1 DEF RepairMoves, OpenStatus
<1>3. doc.status \in DOMAIN RepairMoves /\ next # doc.status
  BY <1>1, MovesStayWithin DEF RepairPageStatus, OpenStatus
<1>4. To(next, Role, {doc.status}, next) \in Routes(doc.kind)
  BY <1>1, <1>2, <1>3, RepairRouteShape
<1>5. Checked(doc, next) /\ "ADMIN" \in Role
  BY <1>1 DEF Checked, WantsLines, Role
<1>6. MovesOn(doc, next)
  BY <1>3, <1>4, <1>5, RouteMoves DEF To
<1>7. next \in Buttons(doc, "ADMIN")
  BY <1>2, SameMoves DEF Buttons, RepairButtons
<1> QED
  BY <1>6, <1>7

LEMMA DocumentMovesOn ==
  ASSUME NEW doc, IsDocument(doc), doc.status \notin FinalStatus[doc.kind],
         doc.kind = "purchase" /\ doc.status = "PARTIALLY_RECEIVED" => doc.due
  PROVE  \E action \in Buttons(doc, "ADMIN") : MovesOn(doc, action)
<1>1. CASE doc.kind = "order"
  BY <1>1, OrderMovesOn, KindsOfDocument DEF IsDocument, FinalStatus
<1>2. CASE doc.kind \in {"purchase", "transfer", "count"}
  BY <1>2, PurchaseMovesOn, TransferMovesOn, CountMovesOn DEF FinalStatus
<1>3. CASE doc.kind \in {"return", "repair"}
  BY <1>3, ReturnMovesOn, RepairMovesOn DEF FinalStatus
<1> QED
  BY <1>1, <1>2, <1>3 DEF IsDocument, DocumentKind

----------------------------------------------------------------------------

LEMMA PagesStart == PagesInit => PagesInv
<1> SUFFICES ASSUME PagesInit PROVE PagesInv
  OBVIOUS
<1>1. PICK k \in DocumentKind : document = NewDocument(k)
  BY DEF PagesInit
<1>2. IsDocument(document)
  BY <1>1 DEF IsDocument, NewDocument, DocumentKind, DocumentStatus, OpenStatus
<1>3. tabs \in [Tab -> {NewTab(r, document) : r \in Role}]
  BY DEF PagesInit
<1> QED
  BY <1>2, <1>3 DEF PagesInv, IsTab, NewTab

(* A tab keeps its reader.                                                 *)
LEMMA TabKeeps ==
  ASSUME PagesInv, IsDocument(document'), document'.kind = document.kind,
         NEW t \in Tab, NEW tab, SetTab(t, tab),
         tab.role = tabs[t].role, IsDocument(tab.shown), tab.shown.kind = document.kind
  PROVE  PagesInv'
<1>1. /\ tabs' = [tabs EXCEPT ![t] = tab] /\ DOMAIN tabs = Tab
      /\ \A u \in Tab : IsTab(tabs[u])
  BY DEF PagesInv, SetTab
<1>2. ASSUME NEW u \in Tab PROVE IsTab(tabs[u])'
  <2>1. CASE u = t
    BY <1>1, <2>1 DEF IsTab
  <2>2. CASE u # t
    BY <1>1, <2>2 DEF IsTab
  <2> QED
    BY <2>1, <2>2
<1> QED
  BY <1>1, <1>2 DEF PagesInv

LEMMA DocumentKeeps ==
  ASSUME PagesInv, IsDocument(document'), document'.kind = document.kind, UNCHANGED tabs
  PROVE  PagesInv'
BY DEF PagesInv, IsTab

(* Deliveries that overlap leave a purchase order in a status it can have. *)
LEMMA OverlapKeeps ==
  ASSUME PagesInv, DeliveriesOverlap PROVE PagesInv'
<1>1. IsDocument(document) /\ document.kind = "purchase" /\ UNCHANGED tabs
  BY DEF PagesInv, DeliveriesOverlap
<1>2. PICK s \in {"PARTIALLY_RECEIVED", "RECEIVED"} :
        \/ document' = [document EXCEPT !.status = s]
        \/ document' = [document EXCEPT !.status = s, !.due = FALSE]
  BY DEF DeliveriesOverlap
<1>3. /\ DOMAIN document' = DOMAIN document
      /\ document'.kind = "purchase" /\ document'.status = s
  BY <1>1, <1>2 DEF IsDocument
<1>4. IsDocument(document') /\ document'.kind = document.kind
  BY <1>1, <1>3, KindsOfDocument DEF IsDocument
<1> QED
  BY <1>1, <1>4, DocumentKeeps

LEMMA PagesInductive == PagesInv /\ [PagesNext]_pageVars => PagesInv'
<1> SUFFICES ASSUME PagesInv, [PagesNext]_pageVars PROVE PagesInv'
  OBVIOUS
<1>1. CASE Elsewhere
  BY <1>1, OutcomeIsDocument, DocumentKeeps DEF Elsewhere, PagesInv
<1>2. CASE DeliveriesOverlap
  BY <1>2, OverlapKeeps
<1>3. CASE ShelvesChange
  <2>1. IsDocument(document') /\ document'.kind = document.kind
    BY <1>3 DEF ShelvesChange, PagesInv, IsDocument
  <2> QED
    BY <1>3, <2>1, DocumentKeeps DEF ShelvesChange
<1>4. ASSUME NEW t \in Tab, ReloadDocument(t) \/ Answer(t) \/ Refuse(t) \/ LoseAnswer(t)
      PROVE  PagesInv'
  <2>1. /\ UNCHANGED document
        /\ \E doc \in {document, tabs[t].shown} : SetTab(t, NewTab(tabs[t].role, doc))
    BY <1>4 DEF ReloadDocument, Answer, Refuse, LoseAnswer
  <2>2. IsTab(tabs[t]) /\ IsDocument(document)
    BY DEF PagesInv
  <2> QED
    BY <2>1, <2>2, TabKeeps DEF NewTab, IsTab
<1>5. ASSUME NEW t \in Tab, NEW action, Click(t, action) PROVE PagesInv'
  <2> DEFINE tab == [tabs[t] EXCEPT !.waiting = action]
  <2>1. IsTab(tabs[t]) /\ IsDocument(document)
    BY DEF PagesInv
  <2>2. tab.role = tabs[t].role /\ tab.shown = tabs[t].shown
    OBVIOUS
  <2>3. SetTab(t, tab) /\ UNCHANGED document
    BY <1>5 DEF Click
  <2> HIDE DEF tab
  <2> QED
    BY <2>1, <2>2, <2>3, TabKeeps DEF IsTab
<1>6. ASSUME NEW t \in Tab, Serve(t) PROVE PagesInv'
  <2> DEFINE tab == [tabs[t] EXCEPT !.served = TRUE]
  <2>1. IsTab(tabs[t]) /\ IsDocument(document)
    BY DEF PagesInv
  <2>2. tab.role = tabs[t].role /\ tab.shown = tabs[t].shown
    OBVIOUS
  <2>3. SetTab(t, tab)
    BY <1>6 DEF Serve
  <2>4. IsDocument(document') /\ document'.kind = document.kind
    BY <1>6, <2>1, OutcomeIsDocument DEF Serve
  <2> HIDE DEF tab
  <2> QED
    BY <2>1, <2>2, <2>3, <2>4, TabKeeps DEF IsTab
<1>7. CASE UNCHANGED pageVars
  BY <1>7 DEF pageVars, PagesInv, IsTab
<1> QED
  BY <1>1, <1>2, <1>3, <1>4, <1>5, <1>6, <1>7 DEF PagesNext

(* The buttons do not look at what the pages leave to the API.             *)
LEMMA UnhinderedShown ==
  ASSUME NEW doc, IsDocument(doc), NEW role
  PROVE  /\ IsDocument(Unhindered(doc)) /\ Unblocked(Unhindered(doc))
         /\ Buttons(Unhindered(doc), role) = Buttons(doc, role)
<1>1. /\ DOMAIN Unhindered(doc) = DOMAIN doc
      /\ \A f \in {"kind", "status", "lines", "due"} : Unhindered(doc)[f] = doc[f]
      /\ Unhindered(doc).ready = TRUE /\ Unhindered(doc).paid = FALSE
      /\ Unhindered(doc).stocked = TRUE
  BY DEF Unhindered, IsDocument
<1>2. /\ Unhindered(doc).kind = doc.kind /\ Unhindered(doc).status = doc.status
      /\ Unhindered(doc).lines = doc.lines /\ Unhindered(doc).due = doc.due
  BY <1>1
<1>3. IsDocument(Unhindered(doc)) /\ Unblocked(Unhindered(doc))
  BY <1>1, <1>2 DEF IsDocument, Unblocked
<1>4. Buttons(Unhindered(doc), role) = Buttons(doc, role)
  BY <1>2 DEF Buttons, OrderButtons, PurchaseButtons, TransferButtons, CountButtons,
              ReturnButtons, RepairButtons
<1> QED
  BY <1>3, <1>4

(* Every button of every document page, offered to the page's reader for   *)
(* the document as it is, is a request that the API carries out, unless it *)
(* finds what the page does not look at (the pages of apps/web against the *)
(* services and controllers of apps/api).                                  *)
THEOREM OfferedMeansAccepted == PagesSpec => []ButtonsWork
<1>1. PagesInv => ButtonsWork
  <2> SUFFICES ASSUME PagesInv, NEW t \in Tab,
                      Unhindered(tabs[t].shown) = Unhindered(document),
                      NEW action \in Buttons(tabs[t].shown, tabs[t].role)
               PROVE  Outcomes(Unhindered(document), action, tabs[t].role) # {}
    BY DEF ButtonsWork
  <2> DEFINE doc == Unhindered(document)
  <2>1. IsTab(tabs[t])
    BY DEF PagesInv
  <2>2. IsDocument(doc) /\ Unblocked(doc) /\ action \in Buttons(doc, tabs[t].role)
    BY <2>1, UnhinderedShown DEF IsTab
  <2> HIDE DEF doc
  <2>3. Outcomes(doc, action, tabs[t].role) # {}
    BY <2>1, <2>2, ButtonsAreTaken, TakenHasOutcome DEF IsTab
  <2> QED
    BY <2>3 DEF doc
<1> QED
  BY <1>1, PagesStart, PagesInductive, PTL DEF PagesSpec

(* What the API still carries out for a button of the document's kind, a   *)
(* page that shows the document as it is offers too.                       *)
LEMMA TakenIsOffered ==
  ASSUME NEW doc, IsDocument(doc), NEW shown, IsDocument(shown), shown.kind = doc.kind,
         NEW role, NEW action \in Buttons(shown, role),
         NEW route \in Accepted(doc, action, role)
  PROVE  action \in Buttons(doc, role)
<1>1. /\ route \in Routes(doc.kind) /\ route.action = action /\ role \in route.roles
      /\ doc.status \in route.from /\ Checked(doc, action)
  BY DEF Accepted
<1> USE DEF Buttons, Routes, When, Route, To, Edit
<1>2. CASE doc.kind = "order"
  BY <1>1, <1>2 DEF OrderButtons, OrderRoutes, Checked, WantsLines
<1>3. CASE doc.kind = "purchase"
  BY <1>1, <1>3 DEF PurchaseButtons, PurchaseRoutes, Checked, WantsLines
<1>4. CASE doc.kind = "transfer"
  BY <1>1, <1>4 DEF TransferButtons, TransferRoutes, Checked, WantsLines
<1>5. CASE doc.kind = "count"
  BY <1>1, <1>5 DEF CountButtons, CountRoutes, Checked, WantsLines
<1>6. CASE doc.kind = "return"
  BY <1>1, <1>6 DEF ReturnButtons, ReturnRoutes
<1>7. CASE doc.kind = "repair"
  <2>1. action \in RepairMoves[shown.status] \cup {"pay"} /\ action \in RepairButtons(shown, role)
    BY <1>7, SameMoves DEF RepairButtons
  <2>2. shown.status \in RepairPageStatus
    BY <1>7, KindsOfDocument DEF IsDocument, RepairPageStatus
  <2>3. action \in RepairPageStatus \cup {"pay"} /\ action \notin {"edit", "work"}
    BY <2>1, <2>2, MovesStayWithin DEF RepairPageStatus, OpenStatus
  <2>4. route \in RepairRoutes
    BY <1>1, <1>7
  <2>5. CASE \E from \in DOMAIN RepairMoves : \E to \in RepairMoves[from] :
               route = To(to, Role, {from}, to)
    BY <1>1, <1>7, <2>5, SameMoves DEF RepairButtons
  <2>6. CASE route = Route("pay", Sellers, PayableStatus, {})
    BY <1>1, <1>7, <2>6 DEF RepairButtons, Checked
  <2>7. /\ route # Edit(Repairers, OpenStatus)
        /\ route # Route("work", Repairers, OpenStatus, {})
    BY <1>1, <2>3
  <2> HIDE DEF Route, To, Edit
  <2> QED
    BY <2>4, <2>5, <2>6, <2>7, RepairRouteShape
<1> QED
  BY <1>2, <1>3, <1>4, <1>5, <1>6, <1>7 DEF IsDocument, DocumentKind

(* However old the page, a click on it is refused unless the document as   *)
(* it is would have offered the same button.                               *)
THEOREM OldPagesDoNoHarm == PagesSpec => []OutdatedButtonsAreRefused
<1>1. PagesInv => OutdatedButtonsAreRefused
  <2> SUFFICES ASSUME PagesInv, NEW t \in Tab,
                      NEW action \in Buttons(tabs[t].shown, tabs[t].role),
                      Outcomes(document, action, tabs[t].role) # {}
               PROVE  action \in Buttons(document, tabs[t].role)
    BY DEF OutdatedButtonsAreRefused
  <2>1. IsTab(tabs[t]) /\ IsDocument(document)
    BY DEF PagesInv
  <2>2. PICK later \in Outcomes(document, action, tabs[t].role) : TRUE
    OBVIOUS
  <2>3. PICK s \in StatusAfter(document, action, tabs[t].role) : TRUE
    BY <2>2, OutcomesByField
  <2>4. PICK route \in Accepted(document, action, tabs[t].role) : TRUE
    BY <2>3 DEF StatusAfter
  <2> QED
    BY <2>1, <2>4, TakenIsOffered DEF IsTab
<1> QED
  BY <1>1, PagesStart, PagesInductive, PTL DEF PagesSpec

(* Whatever any number of stale pages asked for, a document that is not    *)
(* finished has a button that moves it on, but for the purchase order on   *)
(* which the last two deliveries missed each other.                        *)
THEOREM NoDocumentIsStranded == PagesSpec => []NeverStranded
<1>1. PagesInv => NeverStranded
  <2> SUFFICES ASSUME PagesInv, document.status \notin FinalStatus[document.kind],
                      ~LastDeliveryUnnoticed
               PROVE  \E role \in Role : \E action \in Buttons(document, role) :
                        \E doc \in Outcomes(document, action, role) :
                          doc.status # document.status
    BY DEF NeverStranded
  <2>1. PICK action \in Buttons(document, "ADMIN") : MovesOn(document, action)
    BY DocumentMovesOn DEF PagesInv, LastDeliveryUnnoticed
  <2>2. "ADMIN" \in Role
    BY DEF Role
  <2> QED
    BY <2>1, <2>2 DEF MovesOn
<1> QED
  BY <1>1, PagesStart, PagesInductive, PTL DEF PagesSpec

----------------------------------------------------------------------------
(* Unique codes.                                                           *)

Tables == {Good, Category, Brand, Supplier, CustomerRow, Site}

LEMMA TableUnique ==
  ASSUME NEW e, NEW T \in Tables, e \in T
  PROVE  Table(e) = T
<1>1. Table(e) \in Tables /\ e \in Table(e)
  BY DEF Table, Tables
<1> QED
  BY <1>1, CatalogueAssumption DEF Tables

LEMMA OthersSymmetric ==
  ASSUME NEW e \in Entry, NEW f \in Others(e), e \in DOMAIN records
  PROVE  /\ f \in DOMAIN records /\ f # e /\ f \in Entry
         /\ e \in Others(f)
<1>1. PICK T \in Tables : e \in T
  BY DEF Entry, Tables
<1>2. Table(e) = T
  BY <1>1, TableUnique
<1>3. f \in T /\ f \in DOMAIN records /\ f # e
  BY <1>2 DEF Others
<1>4. Table(f) = T
  BY <1>3, TableUnique
<1>5. f \in Entry
  BY <1>3 DEF Entry, Tables
<1> QED
  BY <1>1, <1>3, <1>4, <1>5 DEF Others

(* A row that exists goes on existing, deleted or not; what is under way   *)
(* on a row, but for its creation, is of one that exists.                  *)
CatalogueInv ==
  /\ DOMAIN records \subseteq Entry
  /\ \A e \in DOMAIN records : DOMAIN records[e] = {"state", "code", "names"}
  /\ \A c \in Editor : doing[c] # NoEdit =>
       /\ doing[c].entry \in DOMAIN records
       /\ doing[c].does # "create" => records[doing[c].entry].state # "none"
  /\ DOMAIN doing = Editor
  /\ RestoreNeverCollides

(* Nothing under way, and nobody's row, is lost when one row is written.   *)
LEMMA RowWritten ==
  ASSUME CatalogueInv, NEW c \in Editor, doing[c] # NoEdit,
         NEW state, NEW code, NEW names, state # "none",
         records' = [records EXCEPT ![doing[c].entry] =
                      [state |-> state, code |-> code, names |-> names]],
         doing' = [doing EXCEPT ![c] = NoEdit],
         \A f \in Others(doing[c].entry) :
           /\ code # NoCode /\ records[f].state # "none" => records[f].code # code
           /\ code # NoCode /\ records[f].state # "none" /\ records[f].code # NoCode
                => code # records[f].code
  PROVE  CatalogueInv'
<1> DEFINE e == doing[c].entry
<1> DEFINE row == [state |-> state, code |-> code, names |-> names]
<1>1. e \in DOMAIN records /\ e \in Entry
  BY DEF CatalogueInv
<1>2. /\ DOMAIN records' = DOMAIN records /\ records'[e] = row
      /\ \A f \in DOMAIN records \ {e} : records'[f] = records[f]
  BY <1>1
<1>3. \A d \in Editor : doing'[d] = doing[d] \/ doing'[d] = NoEdit
  BY DEF CatalogueInv
<1>4. \A f \in DOMAIN records : records[f].state # "none" => records'[f].state # "none"
  BY <1>2
<1>5. \A d \in Editor : doing'[d] # NoEdit =>
       /\ doing'[d].entry \in DOMAIN records'
       /\ doing'[d].does # "create" => records'[doing'[d].entry].state # "none"
  BY <1>2, <1>3, <1>4 DEF CatalogueInv
<1>6. \A f : Others(f)' = Others(f)
  BY <1>2 DEF Others
<1>7. RestoreNeverCollides'
  <2> SUFFICES ASSUME NEW f \in DOMAIN records, NEW g \in Others(f),
                      records'[f].state # "none", records'[f].code # NoCode,
                      records'[g].state # "none"
               PROVE  records'[g].code # records'[f].code
    BY <1>2, <1>6 DEF RestoreNeverCollides
  <2>0. f \in Entry
    BY DEF CatalogueInv
  <2>1. g \in DOMAIN records /\ g # f /\ f \in Others(g)
    BY <2>0, OthersSymmetric
  <2>2. CASE f = e
    BY <1>2, <2>1, <2>2
  <2>3. CASE g = e
    BY <1>2, <2>1, <2>3
  <2>4. CASE f # e /\ g # e
    BY <1>2, <2>1, <2>4 DEF CatalogueInv, RestoreNeverCollides
  <2> QED
    BY <2>2, <2>3, <2>4
<1>8. DOMAIN doing' = Editor /\ \A f \in DOMAIN records' : DOMAIN records'[f] = {"state", "code", "names"}
  BY <1>2 DEF CatalogueInv
<1> QED
  BY <1>2, <1>5, <1>7, <1>8 DEF CatalogueInv

LEMMA WriteColumnsKeeps ==
  ASSUME CatalogueInv, NEW c \in Editor, WriteColumns(c) PROVE CatalogueInv'
<1> DEFINE op == doing[c]
<1> DEFINE state == IF op.does = "create" THEN "live" ELSE records[op.entry].state
<1>1. state # "none"
  BY DEF WriteColumns, CatalogueInv
<1>2. /\ op # NoEdit
      /\ records' = [records EXCEPT ![op.entry] =
                      [state |-> state, code |-> op.code, names |-> op.names]]
      /\ doing' = [doing EXCEPT ![c] = NoEdit]
  BY DEF WriteColumns, SetEntry, Done
<1>3. \A f \in Others(op.entry) :
        op.code # NoCode /\ records[f].state # "none" => records[f].code # op.code
  BY DEF WriteColumns, UniqueIndex
<1> HIDE DEF state
<1> QED
  BY <1>1, <1>2, <1>3, RowWritten

(* Soft deletion and restoring keep the row's code, and write over a row   *)
(* that exists.                                                            *)
LEMMA StateWritten ==
  ASSUME CatalogueInv, NEW c \in Editor, doing[c] # NoEdit, doing[c].does # "create",
         NEW state \in {"live", "deleted"},
         SetEntry(c, [records[doing[c].entry] EXCEPT !.state = state])
  PROVE  CatalogueInv'
<1> DEFINE e == doing[c].entry
<1>1. /\ e \in DOMAIN records /\ records[e].state # "none"
      /\ DOMAIN records[e] = {"state", "code", "names"}
  BY DEF CatalogueInv
<1>2. [records[e] EXCEPT !.state = state]
        = [state |-> state, code |-> records[e].code, names |-> records[e].names]
  BY <1>1
<1>3. /\ records' = [records EXCEPT ![e] =
           [state |-> state, code |-> records[e].code, names |-> records[e].names]]
      /\ doing' = [doing EXCEPT ![c] = NoEdit]
  BY <1>2 DEF SetEntry, Done
<1>4. \A f \in Others(e) :
        records[e].code # NoCode /\ records[f].state # "none" => records[f].code # records[e].code
  BY <1>1 DEF CatalogueInv, RestoreNeverCollides
<1> QED
  BY <1>1, <1>3, <1>4, RowWritten

LEMMA CatalogueInductive == CatalogueInv /\ [CatalogueNext]_catalogueVars => CatalogueInv'
<1> SUFFICES ASSUME CatalogueInv, [CatalogueNext]_catalogueVars PROVE CatalogueInv'
  OBVIOUS
<1>1. ASSUME NEW c \in Editor, NEW e \in DOMAIN records,
             NEW does \in {"create", "update", "remove", "restore"}, NEW code, NEW names,
             Read(c, does, e, code, names)
      PROVE  CatalogueInv'
  <2>1. does # "create" => records[e].state # "none"
    BY <1>1 DEF Read, FoundRow, Live
  <2>2. /\ records' = records /\ DOMAIN doing' = Editor
        /\ doing'[c] = [does |-> does, entry |-> e, code |-> code, names |-> names]
        /\ \A d \in Editor \ {c} : doing'[d] = doing[d]
    BY <1>1 DEF Read, CatalogueInv
  <2>3. \A f : Others(f)' = Others(f)
    BY <2>2 DEF Others
  <2>4. RestoreNeverCollides'
    BY <2>2, <2>3 DEF CatalogueInv, RestoreNeverCollides
  <2>5. \A d \in Editor : doing'[d] # NoEdit =>
         /\ doing'[d].entry \in DOMAIN records'
         /\ doing'[d].does # "create" => records'[doing'[d].entry].state # "none"
    BY <2>1, <2>2 DEF CatalogueInv
  <2> QED
    BY <2>2, <2>4, <2>5 DEF CatalogueInv
<1>2. ASSUME UNCHANGED records, NEW c \in Editor, doing' = doing \/ Done(c)
      PROVE  CatalogueInv'
  <2>1. DOMAIN doing' = Editor /\ \A d \in Editor : doing'[d] = doing[d] \/ doing'[d] = NoEdit
    BY <1>2 DEF Done, CatalogueInv
  <2>2. \A f : Others(f)' = Others(f)
    BY <1>2 DEF Others
  <2>3. RestoreNeverCollides'
    BY <1>2, <2>2 DEF CatalogueInv, RestoreNeverCollides
  <2>4. \A d \in Editor : doing'[d] # NoEdit =>
         /\ doing'[d].entry \in DOMAIN records'
         /\ doing'[d].does # "create" => records'[doing'[d].entry].state # "none"
    BY <1>2, <2>1 DEF CatalogueInv
  <2> QED
    BY <1>2, <2>1, <2>3, <2>4 DEF CatalogueInv
<1>3. ASSUME UNCHANGED <<records, doing>> PROVE CatalogueInv'
  <2>1. \A f : Others(f)' = Others(f)
    BY <1>3 DEF Others
  <2> QED
    BY <1>3, <2>1 DEF CatalogueInv, RestoreNeverCollides
<1>4. ASSUME NEW c \in Editor, WriteColumns(c) PROVE CatalogueInv'
  BY <1>4, WriteColumnsKeeps
<1>5. ASSUME NEW c \in Editor, CodeConflict(c) \/ Abandon(c) PROVE CatalogueInv'
  BY <1>2, <1>5 DEF CodeConflict, Abandon
<1>6. ASSUME NEW c \in Editor, SoftDelete(c) \/ Restore(c) PROVE CatalogueInv'
  BY <1>6, StateWritten DEF SoftDelete, Restore
<1>7. ASSUME NEW p \in DOMAIN stocked, StockMoves(p) PROVE CatalogueInv'
  BY <1>3, <1>7 DEF StockMoves
<1>8. CASE UNCHANGED catalogueVars
  BY <1>3, <1>8 DEF catalogueVars
<1> QED
  BY <1>1, <1>4, <1>5, <1>6, <1>7, <1>8 DEF CatalogueNext

LEMMA CatalogueStarts ==
  ASSUME NEW scene \in SUBSET Entry, CatalogueInit(scene)
  PROVE  CatalogueInv
<1>1. /\ DOMAIN records = scene /\ DOMAIN doing = Editor
      /\ \A c \in Editor : doing[c] = NoEdit
      /\ \A e \in scene : /\ DOMAIN records[e] = {"state", "code", "names"}
                          /\ records[e].code = NoCode
  BY DEF CatalogueInit, NoEntry
<1> QED
  BY <1>1 DEF CatalogueInv, RestoreNeverCollides

LEMMA InvImpliesNoCollision == CatalogueInv => RestoreNeverCollides
BY DEF CatalogueInv

(* The unique indexes span deleted rows, so restoring one never meets its  *)
(* code on another row (restore of products, categories, customers ...).   *)
THEOREM RestoreIsSafe ==
  \A scene \in SUBSET Entry : CatalogueSpec(scene) => []RestoreNeverCollides
<1> SUFFICES ASSUME NEW CONSTANT scene \in SUBSET Entry
             PROVE  CatalogueSpec(scene) => []RestoreNeverCollides
  OBVIOUS
<1>1. CatalogueInit(scene) => CatalogueInv
  BY CatalogueStarts
<1> QED
  BY <1>1, InvImpliesNoCollision, CatalogueInductive, PTL DEF CatalogueSpec

----------------------------------------------------------------------------
(* The form dialogs.                                                       *)

DialogsSpec == DialogsInit /\ [][DialogsNext]_dialogVars

(* A dialog is for the rows it was made for; one whose form is keyed by a  *)
(* revision is for a row.                                                  *)
ScreenTyped ==
  /\ DOMAIN screen = {"kind", "open", "entry"}
  /\ screen.open \in BOOLEAN
  /\ screen.open /\ screen.kind.by = "revision" => screen.entry # NewRow

DocumentKinds == screen.kind.by = "revision" => NewRow \notin screen.kind.targets

FormFields == {"key", "holds", "seen", "sending", "kept", "unanswered"}

(* A form is mounted exactly while the dialog is open, under the key of    *)
(* the row as the page shows it, and holds that row alone.                 *)
FormMounted ==
  IF screen.open
  THEN /\ DOMAIN mounted = FormFields
       /\ mounted.key = Key(fetched, screen.entry)
       /\ mounted.holds = {screen.entry}
       /\ screen.kind.by = "revision" => mounted.key = <<screen.entry, mounted.seen>>
  ELSE mounted = NoForm

SavesTyped ==
  /\ DOMAIN saves = Save
  /\ \A s \in Save :
       \/ saves[s] = NoSave
       \/ /\ DOMAIN saves[s] = {"state", "entry", "form"}
          /\ saves[s].state \in {"sent", "saved", "fetched"}
          /\ saves[s].form.holds = {saves[s].entry}

(* A form that was saved still waits for its own request's answer, unless  *)
(* that was lost.                                                          *)
KeptWaits ==
  screen.open /\ screen.kind.by # "opener" /\ mounted.kept /\ ~mounted.unanswered =>
    \E s \in Save : mounted.sending = {s} /\ saves[s].state \in {"saved", "fetched"}

DialogsInv ==
  ScreenTyped /\ DocumentKinds /\ FormMounted /\ SavesTyped /\ KeptWaits

LEMMA InvImpliesForms == DialogsInv => FormsSaveTheirOwn
<1> SUFFICES ASSUME DialogsInv PROVE FormsSaveTheirOwn
  OBVIOUS
<1>1. \A s \in Save : saves[s] # NoSave => saves[s].form.holds = {saves[s].entry}
  BY DEF DialogsInv, SavesTyped
<1>2. screen.open /\ screen.kind.by = "revision" => mounted.seen = fetched[screen.entry]
  BY DEF DialogsInv, ScreenTyped, FormMounted, Key, Revision
<1>3. screen.open /\ mounted.kept /\ ~mounted.unanswered /\ screen.kind.by # "opener" =>
        Submitting
  BY DEF DialogsInv, KeptWaits, Submitting
<1> QED
  BY <1>1, <1>2, <1>3 DEF FormsSaveTheirOwn

(* What Show leaves behind: the form that was there, or a new one.         *)
LEMMA ScreenIsShown ==
  ASSUME DialogsInv, NEW rows, NEW open \in BOOLEAN, NEW e, Show(rows, open, e),
         open /\ screen.open => e = screen.entry,
         open /\ screen.kind.by = "revision" => e # NewRow
  PROVE  /\ ScreenTyped' /\ DocumentKinds' /\ FormMounted'
         /\ screen'.open = open /\ screen'.kind = screen.kind
         /\ open => \/ screen.open /\ mounted' = mounted
                    \/ mounted'.kept = FALSE
<1>1. /\ fetched' = rows
      /\ screen' = [screen EXCEPT !.open = open, !.entry = e]
      /\ mounted' = Render(rows, open, e)
  BY DEF Show
<1>2. /\ screen'.open = open /\ screen'.entry = e /\ screen'.kind = screen.kind
      /\ DOMAIN screen' = {"kind", "open", "entry"}
  BY <1>1 DEF DialogsInv, ScreenTyped
<1>3. ScreenTyped' /\ DocumentKinds'
  BY <1>2 DEF DialogsInv, ScreenTyped, DocumentKinds
<1>4. Key(rows, e)' = Key(rows, e)
  BY <1>2 DEF Key
<1>5. CASE ~open
  BY <1>1, <1>2, <1>3, <1>5 DEF Render, FormMounted
<1>6. CASE open /\ mounted # NoForm /\ mounted.key = Key(rows, e)
  <2>1. mounted' = mounted /\ screen.open /\ e = screen.entry
    BY <1>1, <1>6 DEF Render, DialogsInv, FormMounted
  <2>2. FormMounted'
    BY <1>1, <1>2, <1>4, <1>6, <2>1 DEF DialogsInv, FormMounted
  <2> QED
    BY <1>2, <1>3, <2>1, <2>2
<1>7. CASE open /\ ~(mounted # NoForm /\ mounted.key = Key(rows, e))
  <2>1. mounted' = Fresh(rows, e)
    BY <1>1, <1>7 DEF Render
  <2>2. /\ DOMAIN mounted' = FormFields /\ mounted'.key = Key(rows, e)
        /\ mounted'.holds = {e} /\ mounted'.seen = Revision(rows, e)
        /\ mounted'.kept = FALSE
    BY <2>1 DEF Fresh, FormFields
  <2>3. screen.kind.by = "revision" => Key(rows, e) = <<e, Revision(rows, e)>>
    BY DEF Key
  <2>4. Key(fetched, screen.entry)' = Key(rows, e)
    BY <1>1, <1>2 DEF Key, Revision
  <2>5. FormMounted'
    BY <1>2, <1>7, <2>2, <2>3, <2>4 DEF FormMounted
  <2> QED
    BY <1>2, <1>3, <2>2, <2>5
<1> QED
  BY <1>5, <1>6, <1>7

(* Show keeps the invariant, if no answer that is waited for is forgotten. *)
LEMMA ShownKeeps ==
  ASSUME DialogsInv, NEW rows, NEW open \in BOOLEAN, NEW e, Show(rows, open, e),
         open /\ screen.open => e = screen.entry,
         open /\ screen.kind.by = "revision" => e # NewRow,
         SavesTyped',
         open => \A s \in Save : saves[s].state \in {"saved", "fetched"} =>
                   saves'[s].state \in {"saved", "fetched"}
  PROVE  DialogsInv'
<1>1. /\ ScreenTyped' /\ DocumentKinds' /\ FormMounted'
      /\ screen'.open = open /\ screen'.kind = screen.kind
      /\ open => \/ screen.open /\ mounted' = mounted
                 \/ mounted'.kept = FALSE
  BY ScreenIsShown
<1>2. KeptWaits'
  BY <1>1 DEF DialogsInv, KeptWaits
<1> QED
  BY <1>1, <1>2 DEF DialogsInv

(* The dialog stays as it is, and what its form holds.                     *)
LEMMA FormChanges ==
  ASSUME DialogsInv, UNCHANGED <<fetched, screen>>, SavesTyped', KeptWaits',
         screen.open =>
           /\ DOMAIN mounted' = FormFields
           /\ mounted'.key = mounted.key /\ mounted'.holds = mounted.holds
           /\ mounted'.seen = mounted.seen,
         ~screen.open => mounted' = mounted
  PROVE  DialogsInv'
BY DEF DialogsInv, ScreenTyped, DocumentKinds, FormMounted, Key, Revision

LEMMA SenderIsMounted ==
  ASSUME DialogsInv, NEW s \in Save, Sender(s)
  PROVE  screen.open /\ DOMAIN mounted = FormFields /\ mounted.sending = {s}
BY DEF DialogsInv, FormMounted, Sender

LEMMA OpenKeeps ==
  ASSUME DialogsInv, NEW e, OpenForm(e) PROVE DialogsInv'
BY ShownKeeps DEF OpenForm, DialogsInv, DocumentKinds, SavesTyped

LEMMA TypeKeeps ==
  ASSUME DialogsInv, TypeInto PROVE DialogsInv'
<1>1. /\ screen.open /\ DOMAIN mounted = FormFields
      /\ mounted.holds \cup {screen.entry} = mounted.holds
      /\ mounted' = [mounted EXCEPT !.holds = mounted.holds \cup {screen.entry}]
      /\ UNCHANGED <<revisions, fetched, screen, saves>>
  BY DEF TypeInto, DialogsInv, FormMounted
<1>2. /\ DOMAIN mounted' = FormFields /\ mounted'.key = mounted.key
      /\ mounted'.holds = mounted.holds /\ mounted'.seen = mounted.seen
      /\ mounted'.kept = mounted.kept /\ mounted'.sending = mounted.sending
      /\ mounted'.unanswered = mounted.unanswered
  BY <1>1 DEF FormFields
<1>3. SavesTyped' /\ KeptWaits'
  BY <1>1, <1>2 DEF DialogsInv, SavesTyped, KeptWaits
<1> QED
  BY <1>1, <1>2, <1>3, FormChanges

LEMMA SubmitKeeps ==
  ASSUME DialogsInv, NEW s \in Save, SubmitForm(s) PROVE DialogsInv'
<1>1. /\ screen.open /\ DOMAIN mounted = FormFields /\ mounted.holds = {screen.entry}
      /\ mounted' = [mounted EXCEPT !.sending = {s}, !.kept = FALSE, !.unanswered = FALSE]
      /\ saves' = [saves EXCEPT ![s] =
                    [state |-> "sent", entry |-> screen.entry, form |-> mounted]]
      /\ UNCHANGED <<fetched, screen>>
  BY DEF SubmitForm, DialogsInv, FormMounted
<1>2. SavesTyped'
  BY <1>1 DEF DialogsInv, SavesTyped
<1>3. /\ DOMAIN mounted' = FormFields /\ mounted'.key = mounted.key
      /\ mounted'.holds = mounted.holds /\ mounted'.seen = mounted.seen
      /\ mounted'.kept = FALSE
  BY <1>1 DEF FormFields
<1>4. KeptWaits'
  BY <1>3 DEF KeptWaits
<1> QED
  BY <1>1, <1>2, <1>3, <1>4, FormChanges

LEMMA SaveKeeps ==
  ASSUME DialogsInv, NEW s \in Save, SaveRow(s) PROVE DialogsInv'
<1>1. /\ saves[s].state = "sent" /\ saves' = [saves EXCEPT ![s].state = "saved"]
      /\ mounted' = IF Sender(s) THEN [mounted EXCEPT !.kept = TRUE] ELSE mounted
      /\ UNCHANGED <<fetched, screen>>
  BY DEF SaveRow
<1>2. saves[s] # NoSave
  BY <1>1 DEF NoSave
<1>3. SavesTyped' /\ saves'[s].state = "saved"
  BY <1>1, <1>2 DEF DialogsInv, SavesTyped
<1>4. screen.open =>
        /\ DOMAIN mounted' = FormFields /\ mounted'.key = mounted.key
        /\ mounted'.holds = mounted.holds /\ mounted'.seen = mounted.seen
        /\ mounted'.sending = mounted.sending
  BY <1>1 DEF DialogsInv, FormMounted, FormFields
<1>5. ~screen.open => mounted' = mounted
  BY <1>1, SenderIsMounted
<1>6. KeptWaits'
  <2>1. CASE Sender(s)
    BY <1>1, <1>3, <1>4, <2>1, SenderIsMounted DEF KeptWaits
  <2>2. CASE ~Sender(s)
    <3>1. \A t \in Save : saves[t].state \in {"saved", "fetched"} => saves'[t] = saves[t]
      BY <1>1 DEF DialogsInv, SavesTyped
    <3> QED
      BY <1>1, <2>2, <3>1 DEF DialogsInv, KeptWaits
  <2> QED
    BY <2>1, <2>2
<1> QED
  BY <1>1, <1>3, <1>4, <1>5, <1>6, FormChanges

LEMMA InvalidateKeeps ==
  ASSUME DialogsInv, NEW s \in Save, Invalidate(s) PROVE DialogsInv'
<1>1. /\ saves[s].state = "saved" /\ saves' = [saves EXCEPT ![s].state = "fetched"]
      /\ Show(revisions, screen.open, screen.entry)
  BY DEF Invalidate
<1>2. saves[s] # NoSave
  BY <1>1 DEF NoSave
<1>3. SavesTyped'
  BY <1>1, <1>2 DEF DialogsInv, SavesTyped
<1>4. \A t \in Save : saves[t].state \in {"saved", "fetched"} =>
        saves'[t].state \in {"saved", "fetched"}
  BY <1>1, <1>2 DEF DialogsInv, SavesTyped
<1>5. screen.open \in BOOLEAN /\ (screen.open /\ screen.kind.by = "revision" => screen.entry # NewRow)
  BY DEF DialogsInv, ScreenTyped
<1> QED
  BY <1>1, <1>3, <1>4, <1>5, ShownKeeps

LEMMA CloseSavedKeeps ==
  ASSUME DialogsInv, NEW s \in Save, CloseSaved(s) PROVE DialogsInv'
<1>1. saves' = [saves EXCEPT ![s] = NoSave] /\ Show(fetched, FALSE, screen.entry)
  BY DEF CloseSaved
<1>2. SavesTyped'
  BY <1>1 DEF DialogsInv, SavesTyped
<1> QED
  BY <1>1, <1>2, ShownKeeps

(* An error frees the form it came from, which remembers a lost answer.    *)
LEMMA RefuseKeeps ==
  ASSUME DialogsInv, NEW s \in Save, RefuseSave(s) \/ LoseSave(s) PROVE DialogsInv'
<1>1. /\ saves' = [saves EXCEPT ![s] = NoSave] /\ UNCHANGED <<fetched, screen>>
      /\ ~Sender(s) => mounted' = mounted
      /\ Sender(s) => \/ /\ saves[s].state = "sent"
                         /\ mounted' = [mounted EXCEPT !.sending = {}]
                      \/ mounted' = [mounted EXCEPT !.sending = {}, !.unanswered = TRUE]
  BY DEF RefuseSave, LoseSave
<1>2. SavesTyped'
  BY <1>1 DEF DialogsInv, SavesTyped
<1>3. screen.open =>
        /\ DOMAIN mounted' = FormFields /\ mounted'.key = mounted.key
        /\ mounted'.holds = mounted.holds /\ mounted'.seen = mounted.seen
        /\ mounted'.kept = mounted.kept
  BY <1>1 DEF DialogsInv, FormMounted, FormFields
<1>4. ~screen.open => mounted' = mounted
  BY <1>1, SenderIsMounted
<1>5. KeptWaits'
  <2> SUFFICES ASSUME screen.open, screen.kind.by # "opener", mounted.kept,
                      ~mounted'.unanswered
               PROVE  \E t \in Save : /\ mounted'.sending = {t}
                                      /\ saves'[t].state \in {"saved", "fetched"}
    BY <1>1, <1>3 DEF KeptWaits
  <2>1. DOMAIN mounted = FormFields
    BY DEF DialogsInv, FormMounted
  <2>2. ~mounted.unanswered /\ (Sender(s) => saves[s].state = "sent")
    BY <1>1, <2>1 DEF FormFields
  <2>3. PICK t \in Save : mounted.sending = {t} /\ saves[t].state \in {"saved", "fetched"}
    BY <2>2 DEF DialogsInv, KeptWaits
  <2>4. ~Sender(s)
    BY <2>2, <2>3 DEF Sender
  <2>5. t # s
    BY <2>3, <2>4 DEF Sender, DialogsInv, FormMounted, NoForm, FormFields
  <2>6. saves'[t] = saves[t]
    BY <1>1, <2>5 DEF DialogsInv, SavesTyped
  <2> QED
    BY <1>1, <2>3, <2>4, <2>6
<1> QED
  BY <1>1, <1>2, <1>3, <1>4, <1>5, FormChanges

LEMMA DialogsInductive == DialogsInv /\ [DialogsNext]_dialogVars => DialogsInv'
<1> SUFFICES ASSUME DialogsInv, [DialogsNext]_dialogVars PROVE DialogsInv'
  OBVIOUS
<1>0. /\ screen.open \in BOOLEAN
      /\ screen.open /\ screen.kind.by = "revision" => screen.entry # NewRow
  BY DEF DialogsInv, ScreenTyped
<1>1. ASSUME UNCHANGED saves PROVE SavesTyped'
  BY <1>1 DEF DialogsInv, SavesTyped
<1>2. ASSUME NEW e \in ListedRow \cup {NewRow}, OpenForm(e) PROVE DialogsInv'
  BY <1>2, OpenKeeps
<1>3. CASE CloseForm
  BY <1>1, <1>3, ShownKeeps DEF CloseForm
<1>4. CASE TypeInto
  BY <1>4, TypeKeeps
<1>5. CASE RefetchRows
  BY <1>0, <1>1, <1>5, ShownKeeps DEF RefetchRows
<1>6. ASSUME UNCHANGED <<fetched, screen, mounted, saves>> PROVE DialogsInv'
  BY <1>6 DEF DialogsInv, ScreenTyped, DocumentKinds, FormMounted, SavesTyped, KeptWaits,
              Key, Revision
<1>7. ASSUME NEW e \in ListedRow, ChangeElsewhere(e) PROVE DialogsInv'
  BY <1>6, <1>7 DEF ChangeElsewhere
<1>8. ASSUME NEW s \in Save,
             \/ SubmitForm(s) \/ SaveRow(s) \/ Invalidate(s) \/ CloseSaved(s)
             \/ RefuseSave(s) \/ LoseSave(s)
      PROVE  DialogsInv'
  BY <1>8, SubmitKeeps, SaveKeeps, InvalidateKeeps, CloseSavedKeeps, RefuseKeeps
<1>9. CASE UNCHANGED dialogVars
  BY <1>6, <1>9 DEF dialogVars
<1> QED
  BY <1>2, <1>3, <1>4, <1>5, <1>7, <1>8, <1>9 DEF DialogsNext

(* The kinds keyed by a revision belong to the document of their page; it  *)
(* is a row, so there must be one.                                         *)
LEMMA KindsOfDocuments ==
  ASSUME ListedRow # {}, NEW kind \in DialogKinds, kind.by = "revision"
  PROVE  NewRow \notin kind.targets
<1>1. TheDocument \subseteq ListedRow
  BY DEF TheDocument
<1>2. kind.targets = TheDocument
  BY DEF DialogKinds, Keyed, ProductFormDialog, UserFormDialog, ExpenseFormDialog,
         SettingFormDialog, RuleDialog, StockAdjustDialog, RecordIncomeDialog,
         ExtendTrialDialog, AddPaymentDialog, ReceiveGoodsDialog, ChangeStatusDialog,
         EntityDialog
<1> QED
  BY <1>1, <1>2, DialogsAssumption

(* On a page of at least one row, no dialog of the twelve sends to a row   *)
(* what was filled in for another, describes another document than the     *)
(* page, or sends twice what it knows or could know to be saved (the React *)
(* keys of the forms, isSubmitting).                                       *)
THEOREM FormsAreTheirRows ==
  ASSUME ListedRow # {} PROVE DialogsSpec => []FormsSaveTheirOwn
<1>1. ASSUME DialogsInit PROVE DialogsInv
  <2>1. PICK kind \in DialogKinds : screen = [kind |-> kind, open |-> FALSE, entry |-> NewRow]
    BY <1>1 DEF DialogsInit
  <2>2. screen.kind = kind /\ screen.open = FALSE /\ DOMAIN screen = {"kind", "open", "entry"}
    BY <2>1
  <2>3. mounted = NoForm /\ DOMAIN saves = Save /\ \A s \in Save : saves[s] = NoSave
    BY <1>1 DEF DialogsInit
  <2>4. DocumentKinds
    BY <2>2, KindsOfDocuments DEF DocumentKinds
  <2> QED
    BY <2>2, <2>3, <2>4 DEF DialogsInv, ScreenTyped, FormMounted, SavesTyped, KeptWaits
<1> QED
  BY <1>1, DialogsInductive, InvImpliesForms, PTL DEF DialogsSpec

----------------------------------------------------------------------------
(* Default addresses.                                                      *)

CustomersSpec == CustomersInit /\ [][CustomersNext]_customerVars

RequestFields == {"kind", "id", "default", "cleared"}

OneDefault ==
  \A a, b \in DOMAIN isDefault : isDefault[a] /\ isDefault[b] => a = b

NoDefault == \A a \in DOMAIN isDefault : ~isDefault[a]

Pending(r) == sent[r] # NoRequest

(* Until requests cross there is one at a time; one that has cleared the   *)
(* defaults finds none when it writes its own.                             *)
AddressesInv ==
  /\ DOMAIN sent = Request
  /\ \A r \in Request : DOMAIN sent[r] = RequestFields
  /\ ~crossed =>
       /\ \A r, s \in Request : Pending(r) /\ Pending(s) => r = s
       /\ OneDefault
       /\ \A r \in Request : sent[r].cleared => NoDefault

LEMMA InvImpliesOneDefault == AddressesInv => TwoDefaultsTakeTwoRequests
<1> SUFFICES ASSUME AddressesInv, ~crossed
             PROVE  Cardinality({a \in DOMAIN isDefault : isDefault[a]}) <= 1
  BY DEF TwoDefaultsTakeTwoRequests
<1> DEFINE defaults == {a \in DOMAIN isDefault : isDefault[a]}
<1>1. \A a, b \in defaults : a = b
  BY DEF AddressesInv, OneDefault
<1>2. CASE defaults = {}
  BY <1>2, FS_EmptySet
<1>3. CASE defaults # {}
  <2>1. PICK a \in defaults : TRUE
    BY <1>3
  <2>2. defaults = {a}
    BY <1>1, <2>1
  <2>3. Cardinality({a}) = 1
    BY FS_Singleton
  <2> QED
    BY <2>2, <2>3
<1> QED
  BY <1>2, <1>3

LEMMA SendKeeps ==
  ASSUME AddressesInv, NEW r \in Request, NEW kind, NEW id, NEW default,
         SendRequest(r, kind, id, default), isDefault' = isDefault
  PROVE  AddressesInv'
<1> DEFINE request == [kind |-> kind, id |-> id, default |-> default, cleared |-> FALSE]
<1>1. /\ sent[r] = NoRequest /\ sent' = [sent EXCEPT ![r] = request]
      /\ crossed' = (crossed \/ \E s \in Request : sent[s] # NoRequest)
  BY DEF SendRequest
<1>2. /\ sent'[r] = request /\ DOMAIN sent' = Request
      /\ \A s \in Request \ {r} : sent'[s] = sent[s]
  BY <1>1 DEF AddressesInv
<1>3. DOMAIN request = RequestFields /\ request.cleared = FALSE
  BY DEF RequestFields
<1>4. ~crossed' => ~crossed /\ \A s \in Request \ {r} : sent'[s] = NoRequest
  BY <1>1, <1>2
<1> HIDE DEF request
<1>5. ~crossed' => \A s, t \in Request : Pending(s)' /\ Pending(t)' => s = t
  BY <1>4 DEF Pending
<1>6. ~crossed' => OneDefault'
  BY <1>4 DEF AddressesInv, OneDefault
<1>7. ~crossed' => \A s \in Request : sent'[s].cleared => NoDefault'
  BY <1>2, <1>3, <1>4 DEF AddressesInv, NoDefault
<1> QED
  BY <1>2, <1>3, <1>5, <1>6, <1>7 DEF AddressesInv

LEMMA ClearKeeps ==
  ASSUME AddressesInv, NEW r \in Request, ClearDefaults(r)
  PROVE  AddressesInv'
<1>1. /\ isDefault' = [a \in DOMAIN isDefault |-> FALSE]
      /\ sent' = [sent EXCEPT ![r].cleared = TRUE] /\ crossed' = crossed
      /\ sent[r].kind # "remove" /\ sent[r].default /\ ~sent[r].cleared
  BY DEF ClearDefaults, Clears
<1>2. NoDefault' /\ OneDefault'
  BY <1>1 DEF NoDefault, OneDefault
<1>3. /\ DOMAIN sent' = Request
      /\ \A s \in Request : DOMAIN sent'[s] = RequestFields
      /\ \A s \in Request \ {r} : sent'[s] = sent[s]
  BY <1>1 DEF AddressesInv, RequestFields
<1>4. Pending(r)
  BY <1>1 DEF Pending, NoRequest
<1>5. ~crossed => \A s, t \in Request : Pending(s)' /\ Pending(t)' => s = t
  BY <1>3, <1>4 DEF AddressesInv, Pending
<1> QED
  BY <1>1, <1>2, <1>3, <1>5 DEF AddressesInv

LEMMA DroppedRequest ==
  ASSUME AddressesInv, NEW r \in Request, sent' = [sent EXCEPT ![r] = NoRequest],
         crossed' = crossed,
         ~crossed => OneDefault' /\ (NoDefault' \/ Pending(r) \/ isDefault' = isDefault)
  PROVE  AddressesInv'
<1>1. /\ DOMAIN sent' = Request /\ sent'[r] = NoRequest
      /\ \A s \in Request \ {r} : sent'[s] = sent[s]
  BY DEF AddressesInv
<1>2. DOMAIN NoRequest = RequestFields /\ NoRequest.cleared = FALSE
  BY DEF NoRequest, RequestFields
<1>3. \A s \in Request : Pending(s)' => s # r /\ Pending(s)
  BY <1>1 DEF Pending
<1>4. ASSUME ~crossed, NEW s \in Request, sent'[s].cleared PROVE NoDefault'
  <2>1. s # r /\ sent[s].cleared /\ NoDefault
    BY <1>1, <1>2, <1>4 DEF AddressesInv
  <2>2. Pending(s)
    BY <1>2, <2>1 DEF Pending
  <2>3. ~Pending(r)
    BY <1>4, <2>1, <2>2 DEF AddressesInv
  <2> QED
    BY <1>4, <2>1, <2>3 DEF NoDefault
<1> QED
  BY <1>1, <1>2, <1>3, <1>4 DEF AddressesInv

LEMMA WriteAddressKeeps ==
  ASSUME AddressesInv, NEW r \in Request, Write(r)
  PROVE  AddressesInv'
<1>1. /\ sent' = [sent EXCEPT ![r] = NoRequest] /\ crossed' = crossed
      /\ sent[r].kind # "none"
      /\ sent[r].kind # "remove" /\ sent[r].default => sent[r].cleared
  BY DEF Write, Clears
<1>2. Pending(r)
  BY <1>1 DEF Pending, NoRequest
<1>3. ASSUME ~crossed, NEW id, sent[r].kind # "remove", isDefault' = With(id, sent[r].default)
      PROVE  OneDefault'
  <2>1. sent[r].default => NoDefault
    BY <1>1, <1>3 DEF AddressesInv
  <2>2. CASE sent[r].default
    BY <1>3, <2>1, <2>2 DEF With, OneDefault, NoDefault
  <2>3. CASE ~sent[r].default
    BY <1>3, <2>3 DEF With, AddressesInv, OneDefault
  <2> QED
    BY <2>2, <2>3
<1>4. ASSUME ~crossed,
             isDefault' = [a \in DOMAIN isDefault \ {sent[r].id} |-> isDefault[a]]
      PROVE  OneDefault'
  BY <1>4 DEF AddressesInv, OneDefault
<1>5. \/ sent[r].kind = "add" /\ \E id \in Address : isDefault' = With(id, sent[r].default)
      \/ sent[r].kind \in {"edit", "default"} /\ isDefault' = With(sent[r].id, sent[r].default)
      \/ isDefault' = [a \in DOMAIN isDefault \ {sent[r].id} |-> isDefault[a]]
  BY DEF Write
<1> QED
  BY <1>1, <1>2, <1>3, <1>4, <1>5, DroppedRequest

LEMMA AddressesInductive == AddressesInv /\ [CustomersNext]_customerVars => AddressesInv'
<1> SUFFICES ASSUME AddressesInv, [CustomersNext]_customerVars PROVE AddressesInv'
  OBVIOUS
<1>1. ASSUME UNCHANGED <<isDefault, sent, crossed>> PROVE AddressesInv'
  BY <1>1 DEF AddressesInv, OneDefault, NoDefault, Pending
<1>2. CASE TickDefault \/ CloseAddress \/ Refetch
  BY <1>1, <1>2 DEF TickDefault, CloseAddress, Refetch
<1>3. ASSUME NEW id, OpenDialog(id) PROVE AddressesInv'
  BY <1>1, <1>3 DEF OpenDialog
<1>4. ASSUME NEW r \in Request, SaveDialog(r) PROVE AddressesInv'
  BY <1>4, SendKeeps DEF SaveDialog
<1>5. ASSUME NEW r \in Request, NEW id, MakeDefault(r, id) \/ DeleteAddress(r, id)
      PROVE  AddressesInv'
  BY <1>5, SendKeeps DEF MakeDefault, DeleteAddress
<1>6. ASSUME NEW r \in Request, ClearDefaults(r) PROVE AddressesInv'
  BY <1>6, ClearKeeps
<1>7. ASSUME NEW r \in Request, Write(r) PROVE AddressesInv'
  BY <1>7, WriteAddressKeeps
<1>8. ASSUME NEW r \in Request, Fail(r) PROVE AddressesInv'
  BY <1>8, DroppedRequest DEF Fail, AddressesInv, OneDefault
<1>9. CASE UNCHANGED customerVars
  BY <1>1, <1>9 DEF customerVars
<1> QED
  BY <1>2, <1>3, <1>4, <1>5, <1>6, <1>7, <1>8, <1>9 DEF CustomersNext

(* Without two requests at once no customer ever has two default           *)
(* addresses, however stale the list and the form (clearDefaults).         *)
THEOREM OneDefaultAddress == CustomersSpec => []TwoDefaultsTakeTwoRequests
<1>1. CustomersInit => AddressesInv
  BY DEF CustomersInit, AddressesInv, NoRequest, RequestFields, OneDefault, NoDefault, Pending
<1> QED
  BY <1>1, AddressesInductive, InvImpliesOneDefault, PTL DEF CustomersSpec

----------------------------------------------------------------------------
(* The trial.                                                              *)

SubscriptionsSpec == SubscriptionsInit /\ [][SubscriptionsNext]_subscriptionVars

(* Each extension moved the end of the trial by its days at least, counted *)
(* from the row itself; nothing else moves it.                             *)
TrialInv ==
  /\ DOMAIN organization = {"status", "trialEnds", "customer"}
  /\ organization.trialEnds \in Nat /\ granted \in Nat /\ today \in Nat
  /\ organization.trialEnds >= Trial + granted

LEMMA StatusAlone ==
  ASSUME TrialInv, NEW status,
         organization' = [organization EXCEPT !.status = status]
  PROVE  /\ DOMAIN organization' = {"status", "trialEnds", "customer"}
         /\ organization'.trialEnds = organization.trialEnds
BY DEF TrialInv

LEMMA TrialInductive == TrialInv /\ [SubscriptionsNext]_subscriptionVars => TrialInv'
<1> SUFFICES ASSUME TrialInv, [SubscriptionsNext]_subscriptionVars PROVE TrialInv'
  OBVIOUS
<1>0. Trial \in Nat /\ \A days \in Extension : days \in Nat
  BY SubscriptionsAssumption
<1>1. ASSUME UNCHANGED <<organization, granted>>, today' \in Nat PROVE TrialInv'
  BY <1>1 DEF TrialInv
<1>2. ASSUME NEW status, organization' = [organization EXCEPT !.status = status],
             UNCHANGED <<today, granted>>
      PROVE  TrialInv'
  BY <1>2, StatusAlone DEF TrialInv
<1>3. CASE DayEnds
  BY <1>1, <1>3 DEF DayEnds, TrialInv
<1>4. CASE Subscribe
  BY <1>1, <1>4 DEF Subscribe, TrialInv
<1>5. ASSUME NEW c \in 0..MaxPayer, PayCheckout(c) PROVE TrialInv'
  BY <1>1, <1>5 DEF PayCheckout, TrialInv
<1>6. ASSUME NEW c \in Payer, NEW state \in {"active", "past_due", "canceled"},
             StripeChanges(c, state)
      PROVE  TrialInv'
  BY <1>1, <1>6 DEF StripeChanges, TrialInv
<1>7. ASSUME NEW e \in events, DeliverEvent(e) PROVE TrialInv'
  <2>1. CASE OnCheckoutCompleted(e)
    <3>1. organization' = [organization EXCEPT !.status = "ACTIVE", !.customer = e.customer]
      BY <2>1 DEF OnCheckoutCompleted
    <3>2. /\ DOMAIN organization' = {"status", "trialEnds", "customer"}
          /\ organization'.trialEnds = organization.trialEnds
      BY <3>1 DEF TrialInv
    <3> QED
      BY <1>7, <3>2 DEF DeliverEvent, TrialInv
  <2>2. CASE UpdateByCustomerId(e)
    BY <1>2, <1>7, <2>2 DEF DeliverEvent, UpdateByCustomerId
  <2> QED
    BY <1>7, <2>1, <2>2 DEF DeliverEvent
<1>8. ASSUME NEW w \in Operator, ReloadOrganization(w) \/ Reactivate(w) PROVE TrialInv'
  BY <1>1, <1>8 DEF ReloadOrganization, Reactivate, TrialInv
<1>9. ASSUME NEW w \in Operator, Suspend(w) \/ Reactivated(w) PROVE TrialInv'
  BY <1>2, <1>9 DEF Suspend, Reactivated, SetStatus
<1>10. ASSUME NEW w \in Operator, NEW days \in Extension, ExtendTrial(w, days)
       PROVE  TrialInv'
  <2>1. /\ organization' =
             [organization EXCEPT
                !.trialEnds = ExtendedEnd(w, days),
                !.status = IF organization.status = "SUSPENDED" THEN "SUSPENDED"
                           ELSE "TRIALING"]
        /\ granted' = granted + days /\ today' = today
    BY <1>10 DEF ExtendTrial
  <2>2. /\ DOMAIN organization' = {"status", "trialEnds", "customer"}
        /\ organization'.trialEnds = ExtendedEnd(w, days)
    BY <2>1 DEF TrialInv
  <2>3. days \in Nat
    BY <1>0
  <2>4. /\ ExtendedEnd(w, days) \in Nat
        /\ ExtendedEnd(w, days) >= organization.trialEnds + days
    BY <2>3 DEF ExtendedEnd, Later, TrialInv
  <2> QED
    BY <1>0, <2>1, <2>2, <2>3, <2>4 DEF TrialInv
<1>11. CASE UNCHANGED subscriptionVars
  BY <1>1, <1>11 DEF subscriptionVars, TrialInv
<1> QED
  BY <1>3, <1>4, <1>5, <1>6, <1>7, <1>8, <1>9, <1>10, <1>11 DEF SubscriptionsNext

LEMMA TrialImplies == TrialInv => ExtensionsAllCount
<1> SUFFICES ASSUME TrialInv PROVE ExtensionsAllCount
  OBVIOUS
<1>1. Trial \in Nat
  BY SubscriptionsAssumption
<1>2. today < Trial + granted => organization.trialEnds > today
  BY <1>1 DEF TrialInv
<1> QED
  BY <1>2 DEF ExtensionsAllCount, HasAccess, TrialInv

(* No extension of a trial is ever lost, whatever stale pages, repeated    *)
(* events and other operators do meanwhile (extendTrial's single UPDATE).  *)
THEOREM NoExtensionIsLost == SubscriptionsSpec => []ExtensionsAllCount
<1>1. SubscriptionsInit => TrialInv
  BY SubscriptionsAssumption DEF SubscriptionsInit, TrialInv
<1> QED
  BY <1>1, TrialInductive, TrialImplies, PTL DEF SubscriptionsSpec

----------------------------------------------------------------------------
(* Overdue repairs.                                                        *)

ShopFloorSpec == NoticesInit /\ [][ShopFloorNext]_noticeVars

InboxTyped ==
  \A m \in Member :
    /\ DOMAIN inbox[m] = {"overdue", "unread"}
    /\ inbox[m].overdue \in Nat

OverdueInv ==
  /\ DOMAIN inbox = Member
  /\ InboxTyped
  /\ OverdueToldOnce

(* Notices of other kinds do not count as being told of the repair.        *)
LEMMA OtherNotices ==
  ASSUME NEW box, NEW kind, NEW roles, NEW extra, kind # "REPAIR_OVERDUE",
         NEW m \in Member, DOMAIN box[m] = {"overdue", "unread"}
  PROVE  /\ DOMAIN Notified(box, kind, roles, extra)[m] = {"overdue", "unread"}
         /\ Notified(box, kind, roles, extra)[m].overdue = box[m].overdue
BY DEF Notified

LEMMA AnnounceKeeps ==
  ASSUME OverdueInv, NEW trigger \in Trigger, NEW extra, Announce(trigger, extra)
  PROVE  OverdueInv'
<1> DEFINE told == Notified(inbox, trigger, DefaultRoles, extra)
<1> DEFINE both == Notified(told, trigger, rule.roles, {})
<1>1. trigger # "REPAIR_OVERDUE"
  BY DEF Trigger
<1>2. inbox' \in {told, both}
  BY DEF Announce, AfterRules
<1>3. DOMAIN told = Member /\ DOMAIN both = Member
  BY DEF Notified
<1> HIDE DEF told, both
<1>4. \A m \in Member : /\ DOMAIN told[m] = {"overdue", "unread"}
                        /\ told[m].overdue = inbox[m].overdue
  BY <1>1, OtherNotices DEF OverdueInv, InboxTyped, told
<1>5. \A m \in Member : /\ DOMAIN both[m] = {"overdue", "unread"}
                        /\ both[m].overdue = inbox[m].overdue
  BY <1>1, <1>4, OtherNotices DEF both
<1>6. \A m \in Member : /\ DOMAIN inbox'[m] = {"overdue", "unread"}
                        /\ inbox'[m].overdue = inbox[m].overdue
  BY <1>2, <1>4, <1>5
<1> QED
  BY <1>2, <1>3, <1>6 DEF OverdueInv, InboxTyped, OverdueToldOnce

(* The one step that tells: only while nobody has been told.               *)
LEMMA CheckTellsOnce ==
  ASSUME OverdueInv, CheckOverdueRepairs
  PROVE  OverdueInv'
<1>1. inbox' = Notified(inbox, "REPAIR_OVERDUE", DefaultRoles, repair.technician)
  BY DEF CheckOverdueRepairs
<1>2. \A m \in Member : inbox[m].overdue = 0
  BY DEF CheckOverdueRepairs, AlreadyNotified, OverdueInv, InboxTyped
<1>3. DOMAIN inbox' = Member
  BY <1>1 DEF Notified
<1>4. ASSUME NEW m \in Member
      PROVE  /\ DOMAIN inbox'[m] = {"overdue", "unread"}
             /\ inbox'[m].overdue \in Nat /\ inbox'[m].overdue <= 1
  <2>1. CASE inbox'[m] = inbox[m]
    BY <1>2, <2>1 DEF OverdueInv, InboxTyped
  <2>2. CASE inbox'[m] = [overdue |-> inbox[m].overdue + 1,
                          unread |-> inbox[m].unread \cup {"REPAIR_OVERDUE"}]
    BY <1>2, <2>2
  <2> QED
    BY <1>1, <1>2, <2>1, <2>2 DEF Notified
<1> QED
  BY <1>3, <1>4 DEF OverdueInv, InboxTyped, OverdueToldOnce

LEMMA ReadingKeeps ==
  ASSUME OverdueInv, NEW m \in Member, NEW kinds, MarkRead(m, kinds)
  PROVE  OverdueInv'
<1>1. inbox' = [inbox EXCEPT ![m].unread = inbox[m].unread \ kinds]
  BY DEF MarkRead
<1>2. DOMAIN inbox' = Member
  BY <1>1 DEF OverdueInv
<1>3. \A n \in Member : /\ DOMAIN inbox'[n] = {"overdue", "unread"}
                        /\ inbox'[n].overdue = inbox[n].overdue
  BY <1>1 DEF OverdueInv, InboxTyped
<1> QED
  BY <1>2, <1>3 DEF OverdueInv, InboxTyped, OverdueToldOnce

LEMMA OverdueInductive == OverdueInv /\ [ShopFloorNext]_noticeVars => OverdueInv'
<1> SUFFICES ASSUME OverdueInv, [ShopFloorNext]_noticeVars PROVE OverdueInv'
  OBVIOUS
<1>1. ASSUME UNCHANGED inbox PROVE OverdueInv'
  BY <1>1 DEF OverdueInv, InboxTyped, OverdueToldOnce
<1>2. ASSUME NEW q, NotifyLowStock(q) PROVE OverdueInv'
  <2>1. {"LOW_STOCK", "OUT_OF_STOCK"} \subseteq Trigger
    BY DEF Trigger
  <2> QED
    BY <1>1, <1>2, <2>1, AnnounceKeeps DEF NotifyLowStock
<1>3. ASSUME NEW n \in 1..MaxOnHand, TakeStock(n) \/ PutStock(n)
      PROVE  OverdueInv'
  BY <1>1, <1>2, <1>3 DEF TakeStock, PutStock
<1>4. ASSUME NEW n \in 0..MaxOnHand, CountApplied(n) PROVE OverdueInv'
  BY <1>1, <1>4 DEF CountApplied
<1>5. CASE RepairReady
  <2>1. "REPAIR_READY" \in Trigger
    BY DEF Trigger
  <2> QED
    BY <1>5, <2>1, AnnounceKeeps DEF RepairReady
<1>6. CASE CheckOverdueRepairs
  BY <1>6, CheckTellsOnce
<1>7. ASSUME NEW overdue \in BOOLEAN, Promise(overdue) PROVE OverdueInv'
  BY <1>1, <1>7 DEF Promise
<1>8. ASSUME NEW m \in Member, Assign(m) \/ Deactivate(m) PROVE OverdueInv'
  BY <1>1, <1>8 DEF Assign, Deactivate
<1>9. ASSUME NEW m \in Member, ReadOne(m) \/ ReadAll(m) PROVE OverdueInv'
  BY <1>9, ReadingKeeps DEF ReadOne, ReadAll
<1>10. CASE UNCHANGED noticeVars
  BY <1>1, <1>10 DEF noticeVars
<1> QED
  BY <1>3, <1>4, <1>5, <1>6, <1>7, <1>8, <1>9, <1>10 DEF ShopFloorNext

(* Nobody is told of an overdue repair twice, for any staff and however    *)
(* often the morning job runs (checkOverdueRepairs, "once per repair").    *)
THEOREM ToldOnce == ShopFloorSpec => []OverdueToldOnce
<1>1. NoticesInit => OverdueInv
  BY DEF NoticesInit, OverdueInv, InboxTyped, OverdueToldOnce
<1>2. OverdueInv => OverdueToldOnce
  BY DEF OverdueInv
<1> QED
  BY <1>1, <1>2, OverdueInductive, PTL DEF ShopFloorSpec

----------------------------------------------------------------------------
(* Automation rules.                                                       *)

RulesSpec == NoticesInit /\ [][RulesNext]_noticeVars

(* A rule, written or being written, names only what its event passes.     *)
RuleFits(draft) ==
  /\ DOMAIN draft = {"trigger", "fields", "roles", "active"}
  /\ draft.trigger \in Trigger
  /\ draft.fields \subseteq Context(draft.trigger)

RulesInv ==
  /\ rule # NoRule => RuleFits(rule)
  /\ dialog # NoRule => RuleFits(dialog)

(* The dialog's list of fields and the contexts of the events are written  *)
(* down apart, in the web application and in the API.                      *)
LEMMA SameFields == \A trigger \in Trigger : TriggerFields(trigger) = Context(trigger)
BY DEF Trigger, TriggerFields, Context

LEMMA EditKeepsFit ==
  ASSUME RuleFits(dialog), dialog # NoRule, EditDialog
  PROVE  RuleFits(dialog')
<1>1. ASSUME NEW trigger \in Trigger, dialog' = ChooseTrigger(dialog, trigger)
      PROVE  RuleFits(dialog')
  BY <1>1 DEF ChooseTrigger, RuleFits
<1>2. ASSUME NEW field \in TriggerFields(dialog.trigger),
             dialog' = AddCondition(dialog, field)
      PROVE  RuleFits(dialog')
  <2>1. field \in Context(dialog.trigger)
    BY SameFields DEF RuleFits
  <2> QED
    BY <1>2, <2>1 DEF AddCondition, RuleFits
<1>3. ASSUME dialog' = [dialog EXCEPT !.fields = {}] PROVE RuleFits(dialog')
  BY <1>3 DEF RuleFits
<1>4. ASSUME NEW roles, dialog' = [dialog EXCEPT !.roles = roles] PROVE RuleFits(dialog')
  BY <1>4 DEF RuleFits
<1>5. ASSUME dialog' = [dialog EXCEPT !.active = ~dialog.active] PROVE RuleFits(dialog')
  BY <1>5 DEF RuleFits
<1> QED
  BY <1>1, <1>2, <1>3, <1>4, <1>5 DEF EditDialog

LEMMA RulesInductive == RulesInv /\ [RulesNext]_noticeVars => RulesInv'
<1> SUFFICES ASSUME RulesInv, [RulesNext]_noticeVars PROVE RulesInv'
  OBVIOUS
<1>1. CASE OpenRule
  <2>1. RuleFits([trigger |-> "LOW_STOCK", fields |-> {}, roles |-> {}, active |-> TRUE])
    BY DEF RuleFits, Trigger
  <2> QED
    BY <1>1, <2>1 DEF OpenRule, RulesInv
<1>2. CASE EditDialog
  <2>1. dialog # NoRule /\ rule' = rule
    BY <1>2 DEF EditDialog
  <2> QED
    BY <1>2, <2>1, EditKeepsFit DEF RulesInv
<1>3. CASE SaveRule \/ CancelRule \/ RemoveRule
  BY <1>3 DEF SaveRule, CancelRule, RemoveRule, RulesInv
<1>4. CASE Occur("ORDER_COMPLETED") \/ Occur("PURCHASE_RECEIVED")
  BY <1>4 DEF Occur, RulesInv
<1>5. CASE UNCHANGED noticeVars
  BY <1>5 DEF noticeVars, RulesInv
<1> QED
  BY <1>1, <1>2, <1>3, <1>4, <1>5 DEF RulesNext

(* No sequence of edits in the rule dialog saves a rule that its event     *)
(* could never make fire.                                                  *)
THEOREM EveryRuleCanFire == RulesSpec => []RulesCanFire
<1>1. NoticesInit => RulesInv
  BY DEF NoticesInit, RulesInv
<1>2. RulesInv => RulesCanFire
  BY DEF RulesInv, RulesCanFire, RuleFits
<1> QED
  BY <1>1, <1>2, RulesInductive, PTL DEF RulesSpec

----------------------------------------------------------------------------
(* Reorder suggestions.                                                    *)

ShelvesTyped ==
  /\ quantity \in [Article -> [Shelf -> Int]]
  /\ reserved \in [Article -> Int]
  /\ purchase \in [Article -> [draft : Nat, incoming : Nat]]
  /\ unplanned \in [Article -> Nat]

(* What is suggested, ordered and on the shelf never adds up to more than  *)
(* the target and what came unasked for.                                   *)
Committed(p) == AvailableStock(p) + purchase[p].incoming + purchase[p].draft

ShelvesInv ==
  /\ ShelvesTyped
  /\ \A p \in Reordered : Committed(p) <= TargetStock + unplanned[p]

(* A step adds to what one product comes to only what it notes.            *)
LEMMA NothingAdded ==
  ASSUME ShelvesInv, ShelvesTyped', NEW p \in Article,
         \A q \in Article \ {p} : Committed(q)' = Committed(q) /\ unplanned'[q] = unplanned[q],
         p \in Reordered => Committed(p)' <= TargetStock + unplanned'[p]
  PROVE  ShelvesInv'
BY ReportsAssumption DEF ShelvesInv

LEMMA Products == Reordered \subseteq Article /\ DefaultShelf \in Shelf /\ TargetStock \in Nat
BY ReportsAssumption

LEMMA NotedOrLess ==
  ASSUME ShelvesInv, ShelvesTyped', NEW p \in Article,
         \A q \in Article \ {p} : Committed(q)' = Committed(q) /\ unplanned'[q] = unplanned[q],
         Committed(p)' + unplanned[p] <= Committed(p) + unplanned'[p]
  PROVE  ShelvesInv'
<1>1. p \in Reordered => Committed(p) <= TargetStock + unplanned[p]
  BY DEF ShelvesInv
<1>2. /\ Committed(p) \in Int /\ Committed(p)' \in Int
      /\ unplanned[p] \in Nat /\ unplanned'[p] \in Nat
  BY Products DEF ShelvesInv, ShelvesTyped, Committed, AvailableStock
<1>3. p \in Reordered => Committed(p)' <= TargetStock + unplanned'[p]
  BY <1>1, <1>2, Products
<1> QED
  BY <1>3, NothingAdded

LEMMA ShelfMoves ==
  ASSUME ShelvesInv, NEW p \in Article,
         Arrive(p) \/ WriteOff(p) \/ Promised(p) \/ Ship(p) \/ GiveUp(p)
  PROVE  ShelvesInv'
<1> USE DEF Arrive, WriteOff, Promised, Ship, GiveUp, Unplanned
<1>0. ShelvesTyped'
  <2>1. quantity' \in [Article -> [Shelf -> Int]]
    <3>1. CASE Arrive(p)
      BY <3>1, Products DEF ShelvesInv, ShelvesTyped
    <3>2. CASE WriteOff(p) \/ Ship(p)
      BY <3>2, Products DEF ShelvesInv, ShelvesTyped
    <3>3. CASE Promised(p) \/ GiveUp(p)
      BY <3>3 DEF ShelvesInv, ShelvesTyped
    <3> QED
      BY <3>1, <3>2, <3>3
  <2>2. reserved' \in [Article -> Int]
    <3>1. CASE Promised(p) \/ Ship(p) \/ GiveUp(p)
      BY <3>1 DEF ShelvesInv, ShelvesTyped
    <3>2. CASE Arrive(p) \/ WriteOff(p)
      BY <3>2 DEF ShelvesInv, ShelvesTyped
    <3> QED
      BY <3>1, <3>2
  <2>3. unplanned' \in [Article -> Nat]
    <3>1. CASE Arrive(p) \/ GiveUp(p)
      BY <3>1 DEF ShelvesInv, ShelvesTyped
    <3>2. CASE WriteOff(p) \/ Promised(p) \/ Ship(p)
      BY <3>2 DEF ShelvesInv, ShelvesTyped
    <3> QED
      BY <3>1, <3>2
  <2>4. purchase' = purchase
    OBVIOUS
  <2> QED
    BY <2>1, <2>2, <2>3, <2>4 DEF ShelvesInv, ShelvesTyped
<1>1. \A q \in Article \ {p} : Committed(q)' = Committed(q) /\ unplanned'[q] = unplanned[q]
  <2> SUFFICES ASSUME NEW q \in Article \ {p}
               PROVE  Committed(q)' = Committed(q) /\ unplanned'[q] = unplanned[q]
    OBVIOUS
  <2>1. quantity'[q] = quantity[q] /\ UNCHANGED purchase
    BY DEF ShelvesInv, ShelvesTyped
  <2>2. reserved'[q] = reserved[q] /\ unplanned'[q] = unplanned[q]
    BY DEF ShelvesInv, ShelvesTyped
  <2> QED
    BY <2>1, <2>2 DEF Committed, AvailableStock
<1>2. Committed(p)' + unplanned[p] <= Committed(p) + unplanned'[p]
  BY Products DEF ShelvesInv, ShelvesTyped, Committed, AvailableStock
<1> QED
  BY <1>0, <1>1, <1>2, NotedOrLess

(* A unit that is sent on to the default location is noted.                *)
LEMMA SendKeepsShelves ==
  ASSUME ShelvesInv, NEW p \in Article, NEW k \in Shelf, NEW l \in Shelf, SendOn(p, k, l)
  PROVE  ShelvesInv'
<1>1. /\ quantity \in [Article -> [Shelf -> Int]] /\ unplanned \in [Article -> Nat]
      /\ k # l /\ UNCHANGED <<reserved, purchase>>
  BY DEF ShelvesInv, ShelvesTyped, SendOn
<1> DEFINE gone == [quantity EXCEPT ![p][k] = quantity[p][k] - 1]
<1>2. /\ gone \in [Article -> [Shelf -> Int]]
      /\ \A q \in Article : \A s \in Shelf :
           gone[q][s] = IF q = p /\ s = k THEN quantity[q][s] - 1 ELSE quantity[q][s]
  BY <1>1
<1>3. quantity' = [gone EXCEPT ![p][l] = quantity[p][l] + 1]
  BY DEF SendOn
<1>4. quantity[p][l] + 1 \in Int
  BY <1>1
<1> HIDE DEF gone
<1>5. /\ quantity' \in [Article -> [Shelf -> Int]]
      /\ \A q \in Article : \A s \in Shelf :
           quantity'[q][s] = IF q = p /\ s = l THEN quantity[p][l] + 1 ELSE gone[q][s]
  BY <1>2, <1>3, <1>4
<1>6. unplanned' = [unplanned EXCEPT ![p] = unplanned[p] + IF l = DefaultShelf THEN 1 ELSE 0]
  BY DEF SendOn, Unplanned
<1>7. ShelvesTyped'
  BY <1>1, <1>5, <1>6 DEF ShelvesInv, ShelvesTyped
<1>8. \A q \in Article \ {p} : Committed(q)' = Committed(q) /\ unplanned'[q] = unplanned[q]
  BY <1>1, <1>2, <1>5, <1>6, Products DEF Committed, AvailableStock
<1>9. Committed(p)' + unplanned[p] <= Committed(p) + unplanned'[p]
  BY <1>1, <1>2, <1>5, <1>6, Products
  DEF Committed, AvailableStock, ShelvesInv, ShelvesTyped
<1> QED
  BY <1>7, <1>8, <1>9, NotedOrLess

LEMMA ReviveKeeps ==
  ASSUME ShelvesInv, NEW p \in Article, Revive(p)
  PROVE  ShelvesInv'
<1> USE DEF Revive, Unplanned
<1>1. ShelvesTyped'
  BY DEF ShelvesInv, ShelvesTyped
<1>2. \A q \in Article \ {p} : Committed(q)' = Committed(q) /\ unplanned'[q] = unplanned[q]
  BY DEF ShelvesInv, ShelvesTyped, Committed, AvailableStock
<1>3. Committed(p)' + unplanned[p] <= Committed(p) + unplanned'[p]
  BY Products DEF ShelvesInv, ShelvesTyped, Committed, AvailableStock
<1> QED
  BY <1>1, <1>2, <1>3, NotedOrLess

(* One product's purchase orders change, and its stock perhaps.            *)
LEMMA PurchaseMoves ==
  ASSUME ShelvesInv, NEW p \in Article, NEW m \in Nat, NEW i \in Nat, NEW n \in Nat,
         purchase' = [purchase EXCEPT ![p] = [draft |-> m, incoming |-> i]],
         quantity' = [quantity EXCEPT ![p][DefaultShelf] = quantity[p][DefaultShelf] + n],
         UNCHANGED <<reserved, unplanned>>,
         n + i + m <= purchase[p].incoming + purchase[p].draft
  PROVE  ShelvesInv'
<1>1. purchase' \in [Article -> [draft : Nat, incoming : Nat]]
  BY DEF ShelvesInv, ShelvesTyped
<1>2. quantity' \in [Article -> [Shelf -> Int]]
  BY Products DEF ShelvesInv, ShelvesTyped
<1>3. ShelvesTyped'
  BY <1>1, <1>2 DEF ShelvesInv, ShelvesTyped
<1>4. \A q \in Article \ {p} : Committed(q)' = Committed(q) /\ unplanned'[q] = unplanned[q]
  BY DEF ShelvesInv, ShelvesTyped, Committed, AvailableStock
<1>5. /\ purchase'[p].incoming = i /\ purchase'[p].draft = m
      /\ quantity'[p][DefaultShelf] = quantity[p][DefaultShelf] + n
  BY Products DEF ShelvesInv, ShelvesTyped
<1>6. Committed(p)' + unplanned[p] <= Committed(p) + unplanned'[p]
  BY <1>5, Products DEF ShelvesInv, ShelvesTyped, Committed, AvailableStock
<1> QED
  BY <1>3, <1>4, <1>6, NotedOrLess

LEMMA NothingDelivered ==
  ASSUME ShelvesInv, NEW p \in Article
  PROVE  /\ quantity = [quantity EXCEPT ![p][DefaultShelf] = quantity[p][DefaultShelf] + 0]
         /\ purchase[p].draft \in Nat /\ purchase[p].incoming \in Nat
         /\ purchase[p] = [draft |-> purchase[p].draft, incoming |-> purchase[p].incoming]
<1>1. quantity[p][DefaultShelf] + 0 = quantity[p][DefaultShelf]
  BY Products DEF ShelvesInv, ShelvesTyped
<1>2. quantity = [quantity EXCEPT ![p][DefaultShelf] = quantity[p][DefaultShelf]]
  BY DEF ShelvesInv, ShelvesTyped
<1> QED
  BY <1>1, <1>2 DEF ShelvesInv, ShelvesTyped

LEMMA Quantities ==
  ASSUME NEW d \in Nat, NEW c \in Nat
  PROVE  /\ c + d \in Nat /\ 0 + (c + d) + 0 <= c + d
         /\ 0 + c + 0 <= c + d
         /\ \A n \in 1..MaxUnits : n <= c =>
              /\ n \in Nat /\ c - n \in Nat
              /\ n + (c - n) + d <= c + d /\ 0 + (c - n) + d <= c + d
BY ReportsAssumption

LEMMA OneField ==
  ASSUME ShelvesInv, NEW p \in Article, NEW n \in Nat
  PROVE  /\ [purchase EXCEPT ![p].draft = n]
               = [purchase EXCEPT ![p] = [draft |-> n, incoming |-> purchase[p].incoming]]
         /\ [purchase EXCEPT ![p].incoming = n]
               = [purchase EXCEPT ![p] = [draft |-> purchase[p].draft, incoming |-> n]]
<1>1. purchase[p] \in [draft : Nat, incoming : Nat]
  BY DEF ShelvesInv, ShelvesTyped
<1>2. /\ [purchase[p] EXCEPT !.draft = n] = [draft |-> n, incoming |-> purchase[p].incoming]
      /\ [purchase[p] EXCEPT !.incoming = n] = [draft |-> purchase[p].draft, incoming |-> n]
  BY <1>1
<1> QED
  BY <1>2

LEMMA PlaceKeeps ==
  ASSUME ShelvesInv, NEW p \in Article, Place(p) PROVE ShelvesInv'
<1> DEFINE i == purchase[p].incoming + purchase[p].draft
<1>1. i \in Nat /\ 0 + i + 0 <= purchase[p].incoming + purchase[p].draft
  <2>1. purchase[p].incoming \in Nat /\ purchase[p].draft \in Nat
    BY NothingDelivered
  <2> QED
    BY <2>1, Quantities
<1>2. purchase' = [purchase EXCEPT ![p] = [draft |-> 0, incoming |-> i]]
  BY DEF Place
<1>3. /\ quantity' = [quantity EXCEPT ![p][DefaultShelf] = quantity[p][DefaultShelf] + 0]
      /\ UNCHANGED <<reserved, unplanned>>
  BY NothingDelivered DEF Place
<1> QED
  BY <1>1, <1>2, <1>3, PurchaseMoves

LEMMA DeliverKeeps ==
  ASSUME ShelvesInv, NEW p \in Article, NEW n \in 1..MaxUnits, Deliver(p, n)
  PROVE  ShelvesInv'
<1> DEFINE i == purchase[p].incoming - n
<1>0. n \in Nat
  BY ReportsAssumption
<1>1. /\ i \in Nat
      /\ n + i + purchase[p].draft <= purchase[p].incoming + purchase[p].draft
  <2>1. purchase[p].incoming \in Nat /\ purchase[p].draft \in Nat
    BY NothingDelivered
  <2>2. n <= purchase[p].incoming
    BY DEF Deliver
  <2> QED
    BY <2>1, <2>2, Quantities
<1>2. purchase' = [purchase EXCEPT ![p] = [draft |-> purchase[p].draft, incoming |-> i]]
  BY <1>1, OneField DEF Deliver
<1>3. /\ quantity' = [quantity EXCEPT ![p][DefaultShelf] = quantity[p][DefaultShelf] + n]
      /\ UNCHANGED <<reserved, unplanned>>
  BY DEF Deliver
<1> QED
  BY <1>0, <1>1, <1>2, <1>3, NothingDelivered, PurchaseMoves

LEMMA CancelKeeps ==
  ASSUME ShelvesInv, NEW p \in Article, NEW n \in 1..MaxUnits, CancelPurchase(p, n)
  PROVE  ShelvesInv'
<1> DEFINE i == purchase[p].incoming - n
<1>0. n \in Nat
  BY ReportsAssumption
<1>1. /\ i \in Nat
      /\ 0 + i + purchase[p].draft <= purchase[p].incoming + purchase[p].draft
      /\ 0 + purchase[p].incoming + 0 <= purchase[p].incoming + purchase[p].draft
  <2>1. purchase[p].incoming \in Nat /\ purchase[p].draft \in Nat
    BY NothingDelivered
  <2>2. n <= purchase[p].incoming
    BY DEF CancelPurchase
  <2> QED
    BY <2>1, <2>2, Quantities
<1>2. /\ quantity' = [quantity EXCEPT ![p][DefaultShelf] = quantity[p][DefaultShelf] + 0]
      /\ UNCHANGED <<reserved, unplanned>>
  BY NothingDelivered DEF CancelPurchase
<1>3. \/ purchase' = [purchase EXCEPT ![p] = [draft |-> 0, incoming |-> purchase[p].incoming]]
      \/ purchase' = [purchase EXCEPT ![p] = [draft |-> purchase[p].draft, incoming |-> i]]
  BY <1>1, OneField DEF CancelPurchase
<1>4. CASE purchase' = [purchase EXCEPT ![p] = [draft |-> 0, incoming |-> purchase[p].incoming]]
  BY <1>1, <1>2, <1>4, NothingDelivered, PurchaseMoves
<1>5. CASE purchase' = [purchase EXCEPT ![p] = [draft |-> purchase[p].draft, incoming |-> i]]
  BY <1>1, <1>2, <1>5, NothingDelivered, PurchaseMoves
<1> QED
  BY <1>3, <1>4, <1>5

(* A draft for what is suggested fills the gap; what was on drafts is noted.*)
LEMMA DraftFillsGap ==
  ASSUME ShelvesInv, NEW p \in Article, DraftSuggested(p)
  PROVE  ShelvesInv'
<1> DEFINE n == SuggestedReorderQuantity(p)
<1>0. /\ n \in Nat /\ n = TargetStock - Projected(p)
      /\ Projected(p) \in Int /\ purchase[p].draft \in Nat /\ unplanned[p] \in Nat
  BY Products DEF DraftSuggested, SuggestedReorderQuantity, Projected, AvailableStock,
                  ShelvesInv, ShelvesTyped
<1>1. /\ purchase' = [purchase EXCEPT ![p].draft = purchase[p].draft + n]
      /\ unplanned' = [unplanned EXCEPT ![p] = unplanned[p] + purchase[p].draft]
      /\ UNCHANGED <<quantity, reserved>>
  BY DEF DraftSuggested, Unplanned
<1> HIDE DEF n
<1>2. ShelvesTyped'
  BY <1>0, <1>1 DEF ShelvesInv, ShelvesTyped
<1>3. \A q \in Article \ {p} : Committed(q)' = Committed(q) /\ unplanned'[q] = unplanned[q]
  BY <1>1 DEF ShelvesInv, ShelvesTyped, Committed, AvailableStock
<1>4. Committed(p)' = Projected(p) + (purchase[p].draft + n)
  BY <1>0, <1>1, Products
  DEF Committed, Projected, AvailableStock, ShelvesInv, ShelvesTyped
<1>5. unplanned'[p] = unplanned[p] + purchase[p].draft
  BY <1>1 DEF ShelvesInv, ShelvesTyped
<1>6. Committed(p)' <= TargetStock + unplanned'[p]
  BY <1>0, <1>4, <1>5, Products
<1> QED
  BY <1>2, <1>3, <1>6, NothingAdded

LEMMA ShelvesInductive == ShelvesInv /\ [ShelvesNext]_reportVars => ShelvesInv'
<1> SUFFICES ASSUME ShelvesInv, [ShelvesNext]_reportVars PROVE ShelvesInv'
  OBVIOUS
<1>1. ASSUME NEW p \in Article,
             Arrive(p) \/ WriteOff(p) \/ Promised(p) \/ Ship(p) \/ GiveUp(p)
      PROVE  ShelvesInv'
  BY <1>1, ShelfMoves
<1>2. ASSUME NEW p \in Article, NEW k \in Shelf, NEW l \in Shelf, SendOn(p, k, l)
      PROVE  ShelvesInv'
  BY <1>2, SendKeepsShelves
<1>3. ASSUME NEW p \in Article, DraftSuggested(p) PROVE ShelvesInv'
  BY <1>3, DraftFillsGap
<1>4. ASSUME NEW p \in Article, Place(p) \/ Revive(p) PROVE ShelvesInv'
  BY <1>4, PlaceKeeps, ReviveKeeps
<1>5. ASSUME NEW p \in Article, NEW n \in 1..MaxUnits, Deliver(p, n) \/ CancelPurchase(p, n)
      PROVE  ShelvesInv'
  BY <1>5, DeliverKeeps, CancelKeeps
<1>6. ASSUME UNCHANGED <<quantity, reserved, purchase, unplanned>> PROVE ShelvesInv'
  BY <1>6 DEF ShelvesInv, ShelvesTyped, Committed, AvailableStock
<1>7. ASSUME NEW p \in Article, RemoveProduct(p) \/ RestoreProduct(p) PROVE ShelvesInv'
  BY <1>6, <1>7 DEF RemoveProduct, RestoreProduct
<1>8. CASE UNCHANGED reportVars
  BY <1>6, <1>8 DEF reportVars, shelfVars
<1> QED
  BY <1>1, <1>2, <1>3, <1>4, <1>5, <1>7, <1>8 DEF ShelvesNext

(* Following the suggestions never buys more than the target and what came *)
(* unasked for, for any number of products and locations and whatever      *)
(* happens in between (findReorderSuggestions).                            *)
THEOREM SuggestionsNeverOverstock == ShelvesSpec => []NeverOverstocked
<1>1. ReportsInit => ShelvesInv
  BY Products DEF ReportsInit, ShelvesInv, ShelvesTyped, Committed, AvailableStock
<1>2. ShelvesInv => NeverOverstocked
  BY Products DEF ShelvesInv, ShelvesTyped, NeverOverstocked, Committed, AvailableStock
<1> QED
  BY <1>1, <1>2, ShelvesInductive, PTL DEF ShelvesSpec

----------------------------------------------------------------------------
(* Sums, counted one by one.                                               *)

LEMMA CountOfUnits ==
  ASSUME NEW n \in Nat
  PROVE  IsFiniteSet(1..n) /\ Cardinality(1..n) = n
BY FS_Interval

LEMMA TallyIsFinite ==
  ASSUME NEW S, IsFiniteSet(S), NEW f, \A i \in S : f[i] \in Nat
  PROVE  /\ IsFiniteSet(UNION {{i} \X (1..f[i]) : i \in S})
         /\ SumOver(f, S) \in Nat
<1> DEFINE Tally(i) == {i} \X (1..f[i])
           Tallies == {Tally(i) : i \in S}
<1>1. ASSUME NEW i \in S PROVE IsFiniteSet(Tally(i))
  <2>1. IsFiniteSet({i}) /\ IsFiniteSet(1..f[i])
    BY CountOfUnits, FS_Singleton
  <2> QED
    BY <2>1, FS_Product
<1>2. IsFiniteSet(Tallies)
  <2>1. [i \in S |-> Tally(i)] \in Surjection(S, Tallies)
    BY DEF Surjection
  <2> HIDE DEF Tallies, Tally
  <2> QED
    BY <2>1, FS_Surjection
<1>3. \A T \in Tallies : IsFiniteSet(T)
  BY <1>1
<1>4. IsFiniteSet(UNION Tallies)
  <2> HIDE DEF Tallies
  <2> QED
    BY <1>2, <1>3, FS_UNION
<1>5. Cardinality(UNION Tallies) \in Nat
  <2> HIDE DEF Tallies
  <2> QED
    BY <1>4, FS_CardinalityType
<1> QED
  BY <1>4, <1>5 DEF SumOver

Contents(S, held) == UNION {{i} \X held[i] : i \in S}

(* Counting what is in a place, place after place, counts each thing once. *)
LEMMA SumOfCounts ==
  ASSUME NEW S, IsFiniteSet(S), NEW held, NEW f,
         \A i \in S : IsFiniteSet(held[i]) /\ f[i] = Cardinality(held[i])
  PROVE  /\ IsFiniteSet(Contents(S, held))
         /\ SumOver(f, S) = Cardinality(Contents(S, held))
<1> DEFINE numbering(i) == CHOOSE b : b \in Bijection(1..f[i], held[i])
           Numbered == UNION {{i} \X (1..f[i]) : i \in S}
           Things == UNION {{i} \X held[i] : i \in S}
           naming == [c \in Numbered |-> <<c[1], numbering(c[1])[c[2]]>>]
<1>1. ASSUME NEW i \in S
      PROVE  f[i] \in Nat /\ numbering(i) \in Bijection(1..f[i], held[i])
  <2>1. f[i] \in Nat /\ ExistsBijection(1..f[i], held[i])
    BY FS_CardinalityType
  <2> QED
    BY <2>1 DEF ExistsBijection
<1> HIDE DEF numbering
<1>2. ASSUME NEW i \in S
      PROVE  /\ numbering(i) \in [1..f[i] -> held[i]]
             /\ \A a, b \in 1..f[i] : numbering(i)[a] = numbering(i)[b] => a = b
             /\ \A t \in held[i] : \E a \in 1..f[i] : numbering(i)[a] = t
  BY <1>1 DEF Bijection, Injection, Surjection, IsInjective
<1>3. IsFiniteSet(Numbered)
  BY <1>1, TallyIsFinite
<1>4. naming \in [Numbered -> Things]
  <2>1. ASSUME NEW c \in Numbered PROVE naming[c] \in Things
    <3>1. PICK i \in S : c \in {i} \X (1..f[i])
      OBVIOUS
    <3>2. naming[c] = <<i, numbering(i)[c[2]]>>
      BY <3>1
    <3>3. numbering(i)[c[2]] \in held[i]
      BY <1>2, <3>1
    <3>4. <<i, numbering(i)[c[2]]>> \in {i} \X held[i]
      BY <3>3
    <3> QED
      BY <3>2, <3>4
  <2>2. naming = [c \in Numbered |-> naming[c]]
    OBVIOUS
  <2> HIDE DEF Numbered, Things, naming
  <2> QED
    BY <2>1, <2>2
<1>5. ASSUME NEW c \in Numbered, NEW d \in Numbered, naming[c] = naming[d]
      PROVE  c = d
  <2>1. PICK i \in S : c \in {i} \X (1..f[i])
    OBVIOUS
  <2>2. PICK j \in S : d \in {j} \X (1..f[j])
    OBVIOUS
  <2>3. i = j /\ numbering(i)[c[2]] = numbering(j)[d[2]]
    BY <1>5, <2>1, <2>2
  <2>4. c[2] = d[2]
    BY <1>2, <2>1, <2>2, <2>3
  <2> QED
    BY <2>1, <2>2, <2>3, <2>4
<1>6. ASSUME NEW t \in Things PROVE \E c \in Numbered : naming[c] = t
  <2>1. PICK i \in S : t \in {i} \X held[i]
    OBVIOUS
  <2>2. PICK a \in 1..f[i] : numbering(i)[a] = t[2]
    BY <1>2, <2>1
  <2>3. <<i, a>> \in Numbered
    OBVIOUS
  <2>4. naming[<<i, a>>] = <<i, t[2]>>
    BY <2>2, <2>3
  <2>5. t = <<i, t[2]>>
    BY <2>1
  <2> QED
    BY <2>3, <2>4, <2>5
<1>7. ExistsBijection(Numbered, Things)
  <2> HIDE DEF Numbered, Things, naming
  <2>1. naming \in Injection(Numbered, Things)
    BY <1>4, <1>5 DEF Injection, IsInjective
  <2>2. naming \in Surjection(Numbered, Things)
    BY <1>4, <1>6 DEF Surjection
  <2> QED
    BY <2>1, <2>2 DEF ExistsBijection, Bijection
<1> QED
  <2> HIDE DEF Things
  <2>1. SumOver(f, S) = Cardinality(Numbered)
    BY DEF SumOver
  <2> HIDE DEF Numbered
  <2>2. IsFiniteSet(Things) /\ Cardinality(Things) = Cardinality(Numbered)
    BY <1>3, <1>7, FS_Bijection
  <2> QED
    BY <2>1, <2>2 DEF Things, Contents

(* Rows or columns, each unit is counted once.                             *)
LEMMA Swapped ==
  ASSUME NEW P, NEW Q, IsFiniteSet(P),
         \A a \in P : a = <<a[1], <<a[2][1], a[2][2]>>>>,
         \A a \in P : <<a[2][1], <<a[1], a[2][2]>>>> \in Q,
         \A b \in Q : b = <<b[1], <<b[2][1], b[2][2]>>>>,
         \A b \in Q : <<b[2][1], <<b[1], b[2][2]>>>> \in P
  PROVE  IsFiniteSet(Q) /\ Cardinality(Q) = Cardinality(P)
<1> DEFINE swap == [a \in P |-> <<a[2][1], <<a[1], a[2][2]>>>>]
<1>1. swap \in [P -> Q]
  OBVIOUS
<1>2. ASSUME NEW a \in P, NEW b \in P, swap[a] = swap[b] PROVE a = b
  <2>1. a[1] = b[1] /\ a[2][1] = b[2][1] /\ a[2][2] = b[2][2]
    BY <1>2
  <2> QED
    BY <2>1
<1>3. ASSUME NEW b \in Q PROVE \E a \in P : swap[a] = b
  <2>1. <<b[2][1], <<b[1], b[2][2]>>>> \in P
    OBVIOUS
  <2>2. swap[<<b[2][1], <<b[1], b[2][2]>>>>] = <<b[1], <<b[2][1], b[2][2]>>>>
    BY <2>1
  <2> QED
    BY <2>1, <2>2
<1> HIDE DEF swap
<1>4. swap \in Injection(P, Q)
  BY <1>1, <1>2 DEF Injection, IsInjective
<1>5. swap \in Surjection(P, Q)
  BY <1>1, <1>3 DEF Surjection
<1>6. ExistsBijection(P, Q)
  BY <1>4, <1>5 DEF ExistsBijection, Bijection
<1> QED
  BY <1>6, FS_Bijection

----------------------------------------------------------------------------
(* The stock report.                                                       *)

(* Nothing is on a shelf, or promised, that is not there.                  *)
StockInv ==
  /\ quantity \in [Article -> [Shelf -> Nat]]
  /\ reserved \in [Article -> Nat]
  /\ \A p \in Article : reserved[p] <= quantity[p][DefaultShelf]

LEMMA StockInductive == StockInv /\ [ShelvesNext]_reportVars => StockInv'
<1> SUFFICES ASSUME StockInv, [ShelvesNext]_reportVars PROVE StockInv'
  OBVIOUS
<1> USE Products
<1>1. ASSUME NEW p \in Article, Arrive(p) PROVE StockInv'
  BY <1>1 DEF StockInv, Arrive
<1>2. ASSUME NEW p \in Article, Promised(p) PROVE StockInv'
  BY <1>2 DEF StockInv, Promised, AvailableStock
<1>3. ASSUME NEW p \in Article, Ship(p) PROVE StockInv'
  BY <1>3 DEF StockInv, Ship
<1>4. ASSUME NEW p \in Article, GiveUp(p) PROVE StockInv'
  BY <1>4 DEF StockInv, GiveUp
<1>5. ASSUME NEW p \in Article, NEW k \in Shelf, NEW l \in Shelf, SendOn(p, k, l)
      PROVE  StockInv'
  <2>1. /\ quantity \in [Article -> [Shelf -> Nat]] /\ reserved \in [Article -> Nat]
        /\ \A q \in Article : reserved[q] <= quantity[q][DefaultShelf]
        /\ k # l /\ UNCHANGED reserved
    BY <1>5 DEF StockInv, SendOn
  <2>2. /\ quantity[p][k] - 1 \in Nat /\ quantity[p][l] + 1 \in Nat
        /\ k = DefaultShelf => reserved[p] <= quantity[p][k] - 1
    BY <1>5, <2>1 DEF SendOn, AvailableStock
  <2> DEFINE gone == [quantity EXCEPT ![p][k] = quantity[p][k] - 1]
  <2>3. /\ gone \in [Article -> [Shelf -> Nat]]
        /\ \A q \in Article : reserved[q] <= gone[q][DefaultShelf]
        /\ gone[p][l] = quantity[p][l]
    BY <2>1, <2>2
  <2>4. quantity' = [gone EXCEPT ![p][l] = quantity[p][l] + 1]
    BY <1>5 DEF SendOn
  <2> HIDE DEF gone
  <2>5. quantity' \in [Article -> [Shelf -> Nat]]
    BY <2>2, <2>3, <2>4
  <2>6. \A q \in Article : reserved[q] <= quantity'[q][DefaultShelf]
    BY <2>1, <2>2, <2>3, <2>4
  <2> QED
    BY <2>1, <2>5, <2>6 DEF StockInv
<1>6. ASSUME NEW p \in Article, WriteOff(p) PROVE StockInv'
  BY <1>6 DEF StockInv, WriteOff, AvailableStock
<1>7. ASSUME NEW p \in Article, NEW n \in 1..MaxUnits, Deliver(p, n) PROVE StockInv'
  BY <1>7, ReportsAssumption DEF StockInv, Deliver
<1>8. ASSUME UNCHANGED <<quantity, reserved>> PROVE StockInv'
  BY <1>8 DEF StockInv
<1> QED
  BY <1>1, <1>2, <1>3, <1>4, <1>5, <1>6, <1>7, <1>8
    DEF ShelvesNext, DraftSuggested, Place, CancelPurchase, Revive, RemoveProduct,
        RestoreProduct, reportVars, shelfVars

(* The units of a category, place by place, and of a location, product by  *)
(* product.                                                                *)
LEMMA BreakdownsFollow == StockInv => BreakdownsAgree
<1> SUFFICES ASSUME StockInv PROVE BreakdownsAgree
  OBVIOUS
<1> DEFINE units(p) == UNION {{l} \X (1..quantity[p][l]) : l \in Shelf}
           column(l) == [p \in Article |-> quantity[p][l]]
           left == Article \ removed
           pieces(l) == UNION {{p} \X (1..column(l)[p]) : p \in left}
           byCategory == [p \in Article |-> IF p \in removed THEN {} ELSE units(p)]
           byLocation == [l \in Shelf |-> pieces(l)]
           categories == [p \in Article |-> CategoryUnits(p)]
           locations == [l \in Shelf |-> LocationUnits(l)]
           P == UNION {{p} \X byCategory[p] : p \in Article}
           Q == UNION {{l} \X byLocation[l] : l \in Shelf}
<1>1. ASSUME NEW p \in Article
      PROVE  IsFiniteSet(byCategory[p]) /\ categories[p] = Cardinality(byCategory[p])
  <2>1. \A l \in Shelf : quantity[p][l] \in Nat
    BY DEF StockInv
  <2>2. IsFiniteSet(units(p)) /\ SumOver(quantity[p], Shelf) = Cardinality(units(p))
    BY <2>1, TallyIsFinite, ReportsAssumption DEF SumOver
  <2> HIDE DEF units
  <2>3. CASE p \in removed
    BY <2>3, FS_EmptySet DEF CategoryUnits
  <2>4. CASE p \notin removed
    BY <2>2, <2>4 DEF CategoryUnits
  <2> QED
    BY <2>3, <2>4
<1>2. ASSUME NEW l \in Shelf
      PROVE  IsFiniteSet(byLocation[l]) /\ locations[l] = Cardinality(byLocation[l])
  <2>1. \A p \in left : column(l)[p] \in Nat
    BY DEF StockInv
  <2>2. IsFiniteSet(left)
    BY FS_Subset, ReportsAssumption
  <2>3. LocationUnits(l) = SumOver(column(l), left)
    BY DEF LocationUnits
  <2> HIDE DEF column, left
  <2>4. IsFiniteSet(pieces(l)) /\ SumOver(column(l), left) = Cardinality(pieces(l))
    BY <2>1, <2>2, TallyIsFinite DEF SumOver
  <2> HIDE DEF pieces
  <2> QED
    BY <2>3, <2>4
<1>3. IsFiniteSet(P) /\ SumOver(categories, Article) = Cardinality(P)
  <2>1. P = Contents(Article, byCategory)
    BY DEF Contents
  <2> HIDE DEF categories, byCategory, P
  <2>2. \A i \in Article : IsFiniteSet(byCategory[i]) /\ categories[i] = Cardinality(byCategory[i])
    BY <1>1
  <2> QED
    BY <2>1, <2>2, SumOfCounts, ReportsAssumption
<1>4. IsFiniteSet(Q) /\ SumOver(locations, Shelf) = Cardinality(Q)
  <2>1. Q = Contents(Shelf, byLocation)
    BY DEF Contents
  <2> HIDE DEF locations, byLocation, Q
  <2>2. \A i \in Shelf : IsFiniteSet(byLocation[i]) /\ locations[i] = Cardinality(byLocation[i])
    BY <1>2
  <2> QED
    BY <2>1, <2>2, SumOfCounts, ReportsAssumption
<1>5. ASSUME NEW a \in P
      PROVE  a = <<a[1], <<a[2][1], a[2][2]>>>> /\ <<a[2][1], <<a[1], a[2][2]>>>> \in Q
  <2>1. PICK p \in Article : a \in {p} \X byCategory[p]
    OBVIOUS
  <2>2. p \in left /\ a[2] \in units(p)
    BY <2>1
  <2>3. PICK l \in Shelf : a[2] \in {l} \X (1..quantity[p][l])
    BY <2>2
  <2>4. <<p, a[2][2]>> \in pieces(l)
    BY <2>2, <2>3
  <2>5. <<l, <<p, a[2][2]>>>> \in {l} \X byLocation[l]
    BY <2>4
  <2> QED
    BY <2>1, <2>3, <2>5
<1>6. ASSUME NEW b \in Q
      PROVE  b = <<b[1], <<b[2][1], b[2][2]>>>> /\ <<b[2][1], <<b[1], b[2][2]>>>> \in P
  <2>1. PICK l \in Shelf : b \in {l} \X byLocation[l]
    OBVIOUS
  <2>2. PICK p \in left : b[2] \in {p} \X (1..column(l)[p])
    BY <2>1
  <2>3. <<l, b[2][2]>> \in units(p)
    BY <2>2
  <2>4. <<p, <<l, b[2][2]>>>> \in {p} \X byCategory[p]
    BY <2>3
  <2> QED
    BY <2>1, <2>2, <2>4
<1>7. Cardinality(Q) = Cardinality(P)
  <2> HIDE DEF P, Q
  <2> QED
    BY <1>3, <1>5, <1>6, Swapped
<1>8. TotalUnits = LocationUnits(DefaultShelf)
  BY DEF TotalUnits, LocationUnits
<1> QED
  <2> HIDE DEF P, Q
  <2> QED
    BY <1>3, <1>4, <1>7, <1>8 DEF BreakdownsAgree

(* The stock report's categories and its locations are breakdowns of the   *)
(* same units, whatever is sold, moved, delivered, deleted and restored.   *)
THEOREM ReportsAgree == ShelvesSpec => []BreakdownsAgree
<1>1. ReportsInit => StockInv
  BY Products DEF ReportsInit, StockInv
<1> QED
  BY <1>1, StockInductive, BreakdownsFollow, PTL DEF ShelvesSpec

----------------------------------------------------------------------------
(* The chart.                                                              *)

LedgerInv ==
  /\ now \in Day
  /\ sales \in [Tenant -> [Day -> Nat]]

LEMMA LedgerInductive == LedgerInv /\ [LedgerNext]_reportVars => LedgerInv'
<1> SUFFICES ASSUME LedgerInv, [LedgerNext]_reportVars PROVE LedgerInv'
  OBVIOUS
<1>1. CASE DayPasses
  BY <1>1, ReportsAssumption DEF LedgerInv, DayPasses, Day
<1>2. ASSUME NEW o \in Tenant, Sell(o) PROVE LedgerInv'
  BY <1>2 DEF LedgerInv, Sell
<1>3. CASE UNCHANGED reportVars
  BY <1>3 DEF LedgerInv, reportVars
<1> QED
  BY <1>1, <1>2, <1>3 DEF LedgerNext

(* A sum of one number is that number.                                     *)
LEMMA SumOfOne ==
  ASSUME NEW i, NEW f, f[i] \in Nat
  PROVE  SumOver(f, {i}) = f[i]
<1>1. UNION {{j} \X (1..f[j]) : j \in {i}} = {i} \X (1..f[i])
  OBVIOUS
<1>2. IsFiniteSet({i}) /\ Cardinality({i}) = 1
  BY FS_Singleton
<1>3. IsFiniteSet(1..f[i]) /\ Cardinality(1..f[i]) = f[i]
  BY CountOfUnits
<1>4. Cardinality({i} \X (1..f[i])) = Cardinality({i}) * Cardinality(1..f[i])
  BY <1>2, <1>3, FS_Product
<1>5. SumOver(f, {i}) = Cardinality({i} \X (1..f[i]))
  BY <1>1 DEF SumOver
<1> QED
  BY <1>2, <1>3, <1>4, <1>5

LEMMA ChartFollows == LedgerInv => ChartAddsUp
<1> SUFFICES ASSUME LedgerInv, NEW d \in DOMAIN SalesChart
             PROVE  SalesChart[d] = SumOver([o \in Tenant |-> SalesTotal(o, d, d)], Tenant)
  BY DEF ChartAddsUp
<1>1. d \in Day /\ now < d + ChartDays /\ SalesChart[d] = ChartRows[d]
  BY DEF SalesChart
<1>2. d \in Nat /\ now \in Nat /\ ChartDays \in Nat /\ \A o \in Tenant : sales[o][d] \in Nat
  BY <1>1, ReportsAssumption DEF LedgerInv, Day
<1>3. d >= ChartStart(now)
  BY <1>1, <1>2 DEF ChartStart
<1>4. ChartRows[d] = SumOver([o \in Tenant |-> sales[o][d]], Tenant)
  BY <1>1, <1>3 DEF ChartRows
<1>5. {x \in Day : d <= x /\ x <= d} = {d}
  BY <1>1, <1>2 DEF Day
<1>6. \A o \in Tenant : SalesTotal(o, d, d) = sales[o][d]
  BY <1>2, <1>5, SumOfOne DEF SalesTotal
<1>7. [o \in Tenant |-> SalesTotal(o, d, d)] = [o \in Tenant |-> sales[o][d]]
  BY <1>6
<1> QED
  BY <1>1, <1>4, <1>7

(* However many organizations share the database, the chart has the right  *)
(* days and counts every sale of a day once (salesChart, fillChartDays) -  *)
(* but those of all of them, which DashboardChart shows to be one tenant   *)
(* too many.                                                               *)
THEOREM ChartAddsTenantsUp == LedgerSpec => []ChartAddsUp
<1>1. ReportsInit => LedgerInv
  BY ReportsAssumption DEF ReportsInit, LedgerInv, Day
<1> QED
  BY <1>1, ChartFollows, LedgerInductive, PTL DEF LedgerSpec

=============================================================================
