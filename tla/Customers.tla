----------------------------- MODULE Customers -----------------------------
(***************************************************************************)
(* The saved addresses of one customer and the default one among them, as  *)
(* the customer's page edits them: a list fetched some time ago, a dialog  *)
(* whose form outlives it, and requests that clear the old default and set *)
(* the new one in two statements, outside any transaction.                 *)
(***************************************************************************)
EXTENDS Naturals, FiniteSets

CONSTANTS
  Address,  \* bound: the ids addresses are created with
  NewOne,   \* the key of the form of an address that has no id yet
  Request   \* bound: requests in flight at once

ASSUME CustomersAssumption == NewOne \notin Address

VARIABLES
  isDefault, \* of each address of the customer
  listed,    \* the addresses the page shows, as last fetched
  form,      \* the dialog: is it open, which key it was filled for, its tick
  sent,      \* the requests, and how far each has come
  crossed \* whether two requests were ever carried out at the same time

customerVars == <<isDefault, listed, form, sent, crossed>>

NoRequest == [kind |-> "none", id |-> NewOne, default |-> FALSE, cleared |-> FALSE]

CustomersInit ==
  /\ isDefault = [a \in {} |-> FALSE]
  /\ listed = isDefault
  /\ form = [open |-> FALSE, for |-> NewOne, default |-> FALSE]
  /\ sent = [r \in Request |-> NoRequest]
  /\ crossed = FALSE

----------------------------------------------------------------------------
(* The page.                                                               *)

SendRequest(r, kind, id, default) ==
  /\ sent[r] = NoRequest
  /\ sent' = [sent EXCEPT
       ![r] = [kind |-> kind, id |-> id, default |-> default, cleared |-> FALSE]]
  /\ crossed' = (crossed \/ \E s \in Request : sent[s] # NoRequest)

(* AddressDialog fills its form when it is opened for another key than the *)
(* last time: the form of a new address keeps what was typed before.       *)
OpenDialog(id) ==
  /\ ~form.open
  /\ id \in DOMAIN listed \cup {NewOne}
  /\ form' = [open |-> TRUE, for |-> id,
              default |-> IF id = form.for THEN form.default
                          ELSE id # NewOne /\ listed[id]]
  /\ UNCHANGED <<isDefault, listed, sent, crossed>>

TickDefault ==
  /\ form.open
  /\ form' = [form EXCEPT !.default = ~form.default]
  /\ UNCHANGED <<isDefault, listed, sent, crossed>>

CloseAddress ==
  /\ form.open
  /\ form' = [form EXCEPT !.open = FALSE]
  /\ UNCHANGED <<isDefault, listed, sent, crossed>>

(* Save sends the whole form; the dialog closes on the answer.             *)
SaveDialog(r) ==
  /\ form.open
  /\ SendRequest(r, IF form.for = NewOne THEN "add" ELSE "edit", form.for, form.default)
  /\ UNCHANGED <<isDefault, listed, form>>

(* The buttons of a row stay pressable while a request is under way.       *)
MakeDefault(r, id) ==
  /\ id \in DOMAIN listed /\ ~listed[id]
  /\ SendRequest(r, "default", id, TRUE)
  /\ UNCHANGED <<isDefault, listed, form>>

DeleteAddress(r, id) ==
  /\ id \in DOMAIN listed
  /\ SendRequest(r, "remove", id, FALSE)
  /\ UNCHANGED <<isDefault, listed, form>>

(* invalidate, or another visit: the list is fetched again.                *)
Refetch ==
  /\ listed' = isDefault
  /\ UNCHANGED <<isDefault, form, sent, crossed>>

----------------------------------------------------------------------------
(* The API.                                                                *)

(* findAddress: an address that is gone is not found.                      *)
FoundAddress(request) == request.kind = "add" \/ request.id \in DOMAIN isDefault

ClearsAdding(request) == request.kind = "add" /\ request.default

(* A default one clears the others before it is written.                   *)
Clears(request) == request.kind # "remove" /\ request.default

ClearDefaults(r) ==
  /\ Clears(sent[r]) /\ ~sent[r].cleared /\ FoundAddress(sent[r])
  /\ isDefault' = [a \in DOMAIN isDefault |-> FALSE]
  /\ sent' = [sent EXCEPT ![r].cleared = TRUE]
  /\ UNCHANGED <<listed, form, crossed>>

With(id, default) == [a \in DOMAIN isDefault \cup {id} |-> IF a = id THEN default ELSE isDefault[a]]

(* addAddress, updateAddress and removeAddress, from the last write on;    *)
(* the page fetches the list, and closes the dialog if it was the dialog's.*)
Write(r) ==
  /\ FoundAddress(sent[r])
  /\ Clears(sent[r]) => sent[r].cleared
  /\ CASE sent[r].kind = "add" ->
            \E id \in Address \ DOMAIN isDefault : isDefault' = With(id, sent[r].default)
       [] sent[r].kind \in {"edit", "default"} -> isDefault' = With(sent[r].id, sent[r].default)
       [] sent[r].kind = "remove" ->
            isDefault' = [a \in DOMAIN isDefault \ {sent[r].id} |-> isDefault[a]]
       [] OTHER -> FALSE
  /\ sent' = [sent EXCEPT ![r] = NoRequest]
  /\ form' = [form EXCEPT !.open = form.open /\ sent[r].kind \notin {"add", "edit"}]
  /\ listed' = isDefault'
  /\ UNCHANGED crossed

(* Not found; or the API stops, after the first statement perhaps.         *)
Fail(r) ==
  /\ sent[r] # NoRequest
  /\ sent' = [sent EXCEPT ![r] = NoRequest]
  /\ UNCHANGED <<isDefault, listed, form, crossed>>

CustomersNext ==
  \/ TickDefault \/ CloseAddress \/ Refetch
  \/ \E id \in Address \cup {NewOne} : OpenDialog(id)
  \/ \E r \in Request :
       \/ SaveDialog(r) \/ ClearDefaults(r) \/ Write(r) \/ Fail(r)
       \/ \E id \in Address : MakeDefault(r, id) \/ DeleteAddress(r, id)

----------------------------------------------------------------------------
(* Properties.                                                             *)

(* Only requests carried out at the same time can leave a customer with    *)
(* two default addresses: no stale list, no form kept from before, no      *)
(* request that fails between its two statements ever does.                *)
TwoDefaultsTakeTwoRequests ==
  ~crossed => Cardinality({a \in DOMAIN isDefault : isDefault[a]}) <= 1

=============================================================================
