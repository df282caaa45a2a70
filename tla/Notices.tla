------------------------------ MODULE Notices ------------------------------
(***************************************************************************)
(* What the shop tells its people, and when: notify, the automation rules  *)
(* that tell others as well, the morning job for overdue repairs, and the  *)
(* windows where notices are read and rules are written.  One product, one *)
(* repair and one rule stand for all: notices are about one of each.       *)
(***************************************************************************)
EXTENDS Naturals, Roles

CONSTANTS
  Member,      \* the people of the organization
  RoleOf,      \* their roles
  MaxOnHand, \* bound: units of the product
  Minimum,     \* its minimumStock
  NoRule

ASSUME NoticesAssumption ==
  /\ RoleOf \in [Member -> Role]
  /\ MaxOnHand \in Nat /\ Minimum \in Nat

VARIABLES
  onHand,  \* quantity of the product
  members,  \* the members whose account is ACTIVE
  repair,  \* whether it is open and overdue, and whose it is
  inbox,   \* what each member was told: overdue notices, kinds still unread
  rule,    \* the automation rule, or NoRule
  dialog   \* the rule being written, or NoRule

noticeVars == <<onHand, members, repair, inbox, rule, dialog>>

Trigger == {"LOW_STOCK", "OUT_OF_STOCK", "ORDER_COMPLETED", "PURCHASE_RECEIVED", "REPAIR_READY"}

NoticesInit ==
  /\ onHand = MaxOnHand
  /\ members = Member
  /\ repair = [open |-> TRUE, overdue |-> FALSE, technician |-> {}]
  /\ inbox = [m \in Member |-> [overdue |-> 0, unread |-> {}]]
  /\ rule = NoRule
  /\ dialog = NoRule

----------------------------------------------------------------------------
(* notify and runAutomationRules.                                          *)

(* One row for every active member of the roles, and for the extra ones    *)
(* whatever their account.  Counting stops at two: once too often is once. *)
Notified(box, kind, roles, extra) ==
  [m \in Member |->
    IF m \in extra \/ (m \in members /\ RoleOf[m] \in roles)
    THEN [overdue |-> IF kind = "REPAIR_OVERDUE" /\ box[m].overdue < 2
                      THEN box[m].overdue + 1 ELSE box[m].overdue,
          unread |-> box[m].unread \cup {kind}]
    ELSE box[m]]

DefaultRoles == {"ADMIN", "MANAGER"}

(* The context each call of runAutomationRules passes.                     *)
Context(trigger) ==
  CASE trigger \in {"LOW_STOCK", "OUT_OF_STOCK"} -> {"sku", "name", "categoryName", "quantity"}
    [] trigger = "ORDER_COMPLETED" -> {"orderNumber", "total"}
    [] trigger = "PURCHASE_RECEIVED" -> {"poNumber"}
    [] trigger = "REPAIR_READY" -> {"repairNumber"}

(* conditionsMatch: a field the context lacks never matches; whether the   *)
(* others do is up to their values.                                        *)
MayMatch(trigger) ==
  /\ rule # NoRule
  /\ rule.active /\ rule.trigger = trigger
  /\ rule.fields \subseteq Context(trigger)

AfterRules(box, trigger) ==
  {box} \cup IF MayMatch(trigger) THEN {Notified(box, trigger, rule.roles, {})} ELSE {}

(* Every event tells its own audience first, then runs the rules.          *)
Announce(trigger, extra) ==
  inbox' \in AfterRules(Notified(inbox, trigger, DefaultRoles, extra), trigger)

----------------------------------------------------------------------------
(* The events.                                                             *)

(* notifyLowStock, after consumeStock and a manual adjustment downwards.   *)
NotifyLowStock(quantity) ==
  IF quantity > Minimum THEN UNCHANGED inbox
  ELSE Announce(IF quantity = 0 THEN "OUT_OF_STOCK" ELSE "LOW_STOCK", {})

TakeStock(n) ==
  /\ onHand >= n
  /\ onHand' = onHand - n
  /\ NotifyLowStock(onHand')
  /\ UNCHANGED <<members, repair, rule, dialog>>

(* restoreStock, and a manual adjustment upwards: nobody is told.          *)
PutStock(n) ==
  /\ onHand + n <= MaxOnHand
  /\ onHand' = onHand + n
  /\ UNCHANGED <<members, repair, inbox, rule, dialog>>

(* applyVariance, when a stock count is applied: nobody is told.           *)
CountApplied(counted) ==
  /\ onHand' = counted
  /\ UNCHANGED <<members, repair, inbox, rule, dialog>>

(* A completed order, a fully received purchase order.                     *)
Occur(trigger) ==
  /\ Announce(trigger, {})
  /\ UNCHANGED <<onHand, members, repair, rule, dialog>>

(* A repair is completed: its technician is told as well.                  *)
RepairReady ==
  /\ repair.open
  /\ repair' = [repair EXCEPT !.open = FALSE]
  /\ Announce("REPAIR_READY", repair.technician)
  /\ UNCHANGED <<onHand, members, rule, dialog>>

Assign(m) ==
  /\ repair.open
  /\ m \in members /\ RoleOf[m] = "TECHNICIAN"
  /\ repair' = [repair EXCEPT !.technician = {m}]
  /\ UNCHANGED <<onHand, members, inbox, rule, dialog>>

(* The promised date passes, or a later one is promised.                   *)
Promise(overdue) ==
  /\ repair.open
  /\ repair' = [repair EXCEPT !.overdue = overdue]
  /\ UNCHANGED <<onHand, members, inbox, rule, dialog>>

AlreadyNotifiedUnread ==
  \E m \in Member : inbox[m].overdue > 0 /\ "REPAIR_OVERDUE" \in inbox[m].unread

(* checkOverdueRepairs, every morning: has anybody been told of it?        *)
AlreadyNotified == \E m \in Member : inbox[m].overdue > 0

CheckOverdueRepairs ==
  /\ repair.open /\ repair.overdue
  /\ ~AlreadyNotified
  /\ inbox' = Notified(inbox, "REPAIR_OVERDUE", DefaultRoles, repair.technician)
  /\ UNCHANGED <<onHand, members, repair, rule, dialog>>

(* Accounts are deactivated and activated again.                           *)
Deactivate(m) ==
  /\ members' = IF m \in members THEN members \ {m} ELSE members \cup {m}
  /\ UNCHANGED <<onHand, repair, inbox, rule, dialog>>

----------------------------------------------------------------------------
(* Reading them.                                                           *)

(* A notice shown unread is marked read, from the bell or from the page;   *)
(* markRead of one that has been read meanwhile answers all the same.      *)
MarkRead(m, kinds) ==
  /\ inbox' = [inbox EXCEPT ![m].unread = inbox[m].unread \ kinds]
  /\ UNCHANGED <<onHand, members, repair, rule, dialog>>

ReadOne(m) == \E kind \in inbox[m].unread : MarkRead(m, {kind})

(* markAllRead takes whatever is unread by then, shown or not.             *)
ReadAll(m) == MarkRead(m, inbox[m].unread)

----------------------------------------------------------------------------
(* Writing rules.                                                          *)

(* What the dialog offers for each trigger.                                *)
TriggerFields(trigger) ==
  CASE trigger \in {"LOW_STOCK", "OUT_OF_STOCK"} -> {"sku", "name", "categoryName", "quantity"}
    [] trigger = "ORDER_COMPLETED" -> {"orderNumber", "total"}
    [] trigger = "PURCHASE_RECEIVED" -> {"poNumber"}
    [] trigger = "REPAIR_READY" -> {"repairNumber"}

OpenRule ==
  /\ dialog = NoRule
  /\ dialog' = IF rule # NoRule THEN rule
               ELSE [trigger |-> "LOW_STOCK", fields |-> {}, roles |-> {}, active |-> TRUE]
  /\ UNCHANGED <<onHand, members, repair, inbox, rule>>

ChooseTriggerOnly(draft, trigger) == [draft EXCEPT !.trigger = trigger]

(* Another trigger clears the conditions.                                  *)
ChooseTrigger(draft, trigger) == [draft EXCEPT !.trigger = trigger, !.fields = {}]

AddCondition(draft, field) ==
  IF draft.fields = {} THEN [draft EXCEPT !.fields = {field}] ELSE draft

EditDialog ==
  /\ dialog # NoRule
  /\ \/ \E trigger \in Trigger : dialog' = ChooseTrigger(dialog, trigger)
     \/ \E field \in TriggerFields(dialog.trigger) : dialog' = AddCondition(dialog, field)
     \/ dialog' = [dialog EXCEPT !.fields = {}]
     \/ \E roles \in {{"TECHNICIAN"}, {}} :
          dialog' = [dialog EXCEPT !.roles = roles]
     \/ dialog' = [dialog EXCEPT !.active = ~dialog.active]
  /\ UNCHANGED <<onHand, members, repair, inbox, rule>>

(* A rule that tells nobody is not sent; nor would the API take it.        *)
SaveRule ==
  /\ dialog # NoRule
  /\ dialog.roles # {}
  /\ rule' = dialog
  /\ dialog' = NoRule
  /\ UNCHANGED <<onHand, members, repair, inbox>>

CancelRule ==
  /\ dialog # NoRule
  /\ dialog' = NoRule
  /\ UNCHANGED <<onHand, members, repair, inbox, rule>>

RemoveRule ==
  /\ rule # NoRule /\ dialog = NoRule
  /\ rule' = NoRule
  /\ UNCHANGED <<onHand, members, repair, inbox, dialog>>

(* What happens in the shop, and what its people do about it.              *)
ShopFloorNext ==
  \/ \E n \in 1..MaxOnHand : TakeStock(n) \/ PutStock(n)
  \/ \E n \in 0..MaxOnHand : CountApplied(n)
  \/ RepairReady \/ CheckOverdueRepairs
  \/ \E overdue \in BOOLEAN : Promise(overdue)
  \/ \E m \in Member : Assign(m) \/ Deactivate(m) \/ ReadOne(m) \/ ReadAll(m)

(* The rules page, and the events that run the rules.                      *)
RulesNext ==
  \/ OpenRule \/ EditDialog \/ SaveRule \/ CancelRule \/ RemoveRule
  \/ Occur("ORDER_COMPLETED") \/ Occur("PURCHASE_RECEIVED")

----------------------------------------------------------------------------
(* Properties.                                                             *)

(* "Fires once per repair, not once per day it stays overdue": however     *)
(* many mornings pass, technicians change, dates move and notices are      *)
(* read, nobody is told of an overdue repair twice.                        *)
OverdueToldOnce == \A m \in Member : inbox[m].overdue <= 1

(* A rule the dialog lets anyone write is one its event can make fire:     *)
(* each condition is about a field the code that raises the event passes,  *)
(* whatever was chosen before and however often the rule was edited.       *)
RulesCanFire == rule # NoRule => rule.fields \subseteq Context(rule.trigger)

(* What notifyLowStock says of itself: "a threshold crossing is reported   *)
(* the same way regardless of which document caused it".                   *)
CrossingIsReported ==
  [][onHand > Minimum /\ onHand' <= Minimum
       => \A m \in members : RoleOf[m] \in DefaultRoles =>
            inbox'[m].unread \cap {"LOW_STOCK", "OUT_OF_STOCK"} # {}]_noticeVars

=============================================================================
