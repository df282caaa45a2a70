------------------------------ MODULE Accounts ------------------------------
(***************************************************************************)
(* The accounts of organizations: signing up, and the administrators who   *)
(* create accounts and change roles and statuses.  A change is decided on  *)
(* what was read and written afterwards, without a transaction: a request  *)
(* is between the two while it is under way.                               *)
(***************************************************************************)
EXTENDS Naturals, FiniteSets

CONSTANTS User, Email, Company, Nobody, Handler

ASSUME AccountsAssumption == Nobody \notin User

VARIABLES
  accounts,    \* the rows of User
  tokens,      \* users whose unexpired access token says ADMIN
  underway,    \* per handler, the change that was decided and not written
  overlapped   \* organizations where two changes were under way at once

accountVars == <<accounts, tokens, underway, overlapped>>

UserRole == {"ADMIN", "STAFF"}  \* what the rules tell apart
Status == {"ACTIVE", "SUSPENDED"}

NoAccount == [exists |-> FALSE]

AccountOf(org, role, status, email) ==
  [exists |-> TRUE, org |-> org, role |-> role, status |-> status, email |-> email]

Free == [user |-> Nobody]

AccountsInit ==
  /\ accounts = [u \in User |-> NoAccount]
  /\ tokens = {}
  /\ underway = [h \in Handler |-> Free]
  /\ overlapped = {}

Members(org) == {u \in User : accounts[u].exists /\ accounts[u].org = org}

ActiveAdmins(org) ==
  {u \in Members(org) : accounts[u].role = "ADMIN" /\ accounts[u].status = "ACTIVE"}

(* The unique index on email, over every organization; assertEmailAvailable *)
(* and register's findUnique only word the refusal.                        *)
EmailFree(email, u) ==
  \A v \in User \ {u} : accounts[v].exists => accounts[v].email # email

(* register: a new organization, its default location and its first        *)
(* account, an administrator, in one transaction.                          *)
Register(u, org, email) ==
  /\ ~accounts[u].exists /\ Members(org) = {} /\ EmailFree(email, u)
  /\ accounts' = [accounts EXCEPT ![u] = AccountOf(org, "ADMIN", "ACTIVE", email)]
  /\ tokens' = tokens \cup {u}
  /\ UNCHANGED <<underway, overlapped>>

(* login, refresh: the token says what the account says now.               *)
SignIn(u) ==
  /\ accounts[u].exists /\ accounts[u].status = "ACTIVE"
  /\ tokens' = IF accounts[u].role = "ADMIN" THEN tokens \cup {u} ELSE tokens \ {u}
  /\ UNCHANGED <<accounts, underway, overlapped>>

TokenExpires(u) ==
  /\ u \in tokens /\ tokens' = tokens \ {u}
  /\ UNCHANGED <<accounts, underway, overlapped>>

(* The guards of the users routes look at the token.                       *)
Administers(caller, org) == caller \in tokens /\ accounts[caller].org = org

CreateUser(caller, u, role, status, email) ==
  /\ ~accounts[u].exists /\ caller \in tokens /\ EmailFree(email, u)
  /\ accounts' = [accounts EXCEPT ![u] =
                   AccountOf(accounts[caller].org, role, status, email)]
  /\ UNCHANGED <<tokens, underway, overlapped>>

UpdateUser(caller, u, email) ==
  /\ accounts[u].exists /\ Administers(caller, accounts[u].org) /\ EmailFree(email, u)
  /\ accounts' = [accounts EXCEPT ![u].email = email]
  /\ UNCHANGED <<tokens, underway, overlapped>>

(* Mutant: the count forgets to ask for ACTIVE.                            *)
NotLastAdmin(u) ==
  \E v \in Members(accounts[u].org) \ {u} : accounts[v].role = "ADMIN"

(* assertNotLastActiveAdmin.                                               *)
NotLastActiveAdmin(u) == ActiveAdmins(accounts[u].org) \ {u} # {}

(* changeRole and changeStatus up to the write.                            *)
DecideChange(h, caller, u, field, value) ==
  /\ underway[h] = Free
  /\ accounts[u].exists /\ Administers(caller, accounts[u].org)
  /\ u # caller
  /\ accounts[u].role = "ADMIN" /\ value \notin {"ADMIN", "ACTIVE"}
       => NotLastActiveAdmin(u)
  /\ underway' = [underway EXCEPT ![h] = [user |-> u, field |-> field, value |-> value]]
  /\ overlapped' = overlapped \cup
       {accounts[u].org : k \in {k \in Handler :
          /\ underway[k] # Free
          /\ accounts[underway[k].user].org = accounts[u].org}}
  /\ UNCHANGED <<accounts, tokens>>

(* The UPDATE; a suspension then revokes the refresh tokens.               *)
WriteChange(h) ==
  LET change == underway[h] IN
  /\ change # Free
  /\ accounts' = [accounts EXCEPT ![change.user] =
       IF change.field = "role" THEN [@ EXCEPT !.role = change.value]
       ELSE [@ EXCEPT !.status = change.value]]
  /\ underway' = [underway EXCEPT ![h] = Free]
  /\ UNCHANGED <<tokens, overlapped>>

AccountsNext ==
  \/ \E u \in User, email \in Email : \E org \in Company : Register(u, org, email)
  \/ \E u \in User : SignIn(u) \/ TokenExpires(u)
  \/ \E caller, u \in User, email \in Email :
       \/ UpdateUser(caller, u, email)
       \/ \E role \in UserRole, status \in Status : CreateUser(caller, u, role, status, email)
  \/ \E h \in Handler, caller, u \in User :
       \/ \E role \in UserRole : DecideChange(h, caller, u, "role", role)
       \/ \E status \in Status : DecideChange(h, caller, u, "status", status)
  \/ \E h \in Handler : WriteChange(h)

AccountsSpec == AccountsInit /\ [][AccountsNext]_accountVars

----------------------------------------------------------------------------
(* An organization never loses its last active administrator, though an    *)
(* administrator who was demoted may act for as long as the old access     *)
(* token lasts - provided no two changes in it were ever under way at      *)
(* once: SomebodyManages is what is left to those.                         *)
AdminRemains ==
  \A org \in Company \ overlapped :
    Members(org) # {} => ActiveAdmins(org) # {}

(* What the comment on changeRole says, without that proviso: it "refuses  *)
(* to remove the last active administrator, which would leave the          *)
(* deployment with nobody able to manage users".                           *)
SomebodyManages == \A org \in Company : Members(org) # {} => ActiveAdmins(org) # {}

=============================================================================
