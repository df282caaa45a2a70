--------------------------- MODULE Subscriptions ---------------------------
(***************************************************************************)
(* Whether an organization may use the product: its trial, its Stripe      *)
(* subscription as the webhooks report it, and what the platform's         *)
(* operators decide.  Three writers of one column.  Stripe repeats its     *)
(* events and delivers them in any order; an operator acts on the page he  *)
(* last loaded; a reactivation reads the trial's end before it writes.     *)
(***************************************************************************)
EXTENDS Naturals, FiniteSets

CONSTANTS
  Operator,     \* operators' windows on the organization
  Trial,        \* the day the first trial ends
  Extension,    \* how many days an operator may add at once
  LastTrialDay, \* bound: the days the model lives through
  MaxTrialEnd,  \* bound: no extension beyond this day
  MaxPayer,     \* bound: Stripe customers made for the organization
  MaxEvents     \* bound: Stripe sends no more once there are as many

ASSUME SubscriptionsAssumption ==
  /\ Trial \in Nat /\ LastTrialDay \in Nat /\ MaxTrialEnd \in Nat
  /\ MaxPayer \in Nat /\ MaxEvents \in Nat
  /\ Extension \subseteq Nat

VARIABLES
  organization, \* subscriptionStatus, trialEndsAt, stripeCustomerId (0: none)
  today,
  checkout,     \* the customers of the checkout pages left open (0: a new one)
  stripe,       \* the state of each customer's subscription at Stripe
  events,       \* what Stripe has sent: it may arrive again at any time
  pages,        \* what each operator's window shows of the organization
  reviving,     \* reactivations that have read the trial: what they will write
  granted       \* all the days the extensions added up to

subscriptionVars ==
  <<organization, today, checkout, stripe, events, pages, reviving, granted>>

SubscriptionStatus == {"TRIALING", "ACTIVE", "PAST_DUE", "CANCELED", "SUSPENDED"}

Payer == 1..MaxPayer

(* mapStatus.                                                              *)
MapStatus(state) ==
  CASE state = "active" -> "ACTIVE"
    [] state = "trialing" -> "TRIALING"
    [] state \in {"past_due", "unpaid", "incomplete"} -> "PAST_DUE"
    [] OTHER -> "CANCELED"

(* SubscriptionGuard.hasAccess.                                            *)
HasAccess ==
  \/ organization.status = "ACTIVE"
  \/ organization.status = "TRIALING" /\ organization.trialEnds > today

(* What the operators' page shows of it.                                   *)
Shown(org) == [status |-> org.status, trialEnds |-> org.trialEnds]

SubscriptionsInit ==
  /\ organization = [status |-> "TRIALING", trialEnds |-> Trial, customer |-> 0]
  /\ today = 0
  /\ checkout = {}
  /\ stripe = [c \in {} |-> "none"]
  /\ events = {}
  /\ pages = [w \in Operator |-> Shown(organization)]
  /\ reviving = [w \in Operator |-> "none"]
  /\ granted = 0

DayEnds ==
  /\ today < LastTrialDay
  /\ today' = today + 1
  /\ UNCHANGED <<organization, checkout, stripe, events, pages, reviving, granted>>

----------------------------------------------------------------------------
(* The organization and Stripe.                                            *)

(* The billing page offers Subscribe unless the subscription is ACTIVE;    *)
(* createCheckoutSession reuses the customer, if there is one already.     *)
Subscribe ==
  /\ organization.status # "ACTIVE"
  /\ checkout' = checkout \cup {organization.customer}
  /\ UNCHANGED <<organization, today, stripe, events, pages, reviving, granted>>

Notify(kind, c, state) == [kind |-> kind, customer |-> c, state |-> state]

(* A checkout page is paid: Stripe makes the customer, if it is new.       *)
PayCheckout(c) ==
  /\ c \in checkout
  /\ \E paying \in IF c # 0 THEN {c} ELSE Payer \ DOMAIN stripe :
       /\ stripe' = [x \in DOMAIN stripe \cup {paying} |->
                       IF x = paying THEN "active" ELSE stripe[x]]
       /\ events' = events \cup {Notify("completed", paying, "active")}
  /\ checkout' = checkout \ {c}
  /\ UNCHANGED <<organization, today, pages, reviving, granted>>

(* A renewal succeeds or fails, the portal ends the subscription.          *)
StripeChanges(c, state) ==
  /\ c \in DOMAIN stripe
  /\ stripe[c] \notin {state, "canceled"}
  /\ Cardinality(events) < MaxEvents
  /\ stripe' = [stripe EXCEPT ![c] = state]
  /\ events' = events \cup
       IF state = "canceled" THEN {Notify("deleted", c, state)}
       ELSE {Notify("updated", c, state)}
            \cup IF state = "past_due" THEN {Notify("payment_failed", c, state)} ELSE {}
  /\ UNCHANGED <<organization, today, checkout, pages, reviving, granted>>

(* onCheckoutCompleted: the organization is named by the session.          *)
OnCheckoutCompleted(e) ==
  /\ e.kind = "completed"
  /\ organization' = [organization EXCEPT !.status = "ACTIVE", !.customer = e.customer]

(* onSubscriptionUpdated, onSubscriptionDeleted and onPaymentFailed: the   *)
(* organization is found by its customer, or not at all.                   *)
Reported(e) ==
  CASE e.kind = "updated" -> MapStatus(e.state)
    [] e.kind = "deleted" -> "CANCELED"
    [] e.kind = "payment_failed" -> "PAST_DUE"

UpdateByCustomerId(e) ==
  /\ e.kind # "completed"
  /\ e.customer = organization.customer
  /\ organization' = [organization EXCEPT !.status = Reported(e)]

(* handleWebhook.                                                          *)
DeliverEvent(e) ==
  /\ e \in events
  /\ OnCheckoutCompleted(e) \/ UpdateByCustomerId(e)
  /\ UNCHANGED <<today, checkout, stripe, events, pages, reviving, granted>>

----------------------------------------------------------------------------
(* The operators.                                                          *)

ReloadOrganization(w) ==
  /\ pages' = [pages EXCEPT ![w] = Shown(organization)]
  /\ UNCHANGED <<organization, today, checkout, stripe, events, reviving, granted>>

(* setStatus; the page that asked reloads, the others keep what they show. *)
SetStatus(w, status) ==
  /\ organization' = [organization EXCEPT !.status = status]
  /\ pages' = [pages EXCEPT ![w] = Shown(organization')]

Suspend(w) ==
  /\ pages[w].status # "SUSPENDED"
  /\ SetStatus(w, "SUSPENDED")
  /\ UNCHANGED <<today, checkout, stripe, events, reviving, granted>>

(* reactivate: TRIALING while the trial runs, ACTIVE after it - by the     *)
(* trial's end as read before the status is written.                       *)
Reactivate(w) ==
  /\ pages[w].status = "SUSPENDED"
  /\ reviving[w] = "none"
  /\ reviving' = [reviving EXCEPT ![w] =
                    IF organization.trialEnds > today THEN "TRIALING" ELSE "ACTIVE"]
  /\ UNCHANGED <<organization, today, checkout, stripe, events, pages, granted>>

Reactivated(w) ==
  /\ reviving[w] # "none"
  /\ SetStatus(w, reviving[w])
  /\ reviving' = [reviving EXCEPT ![w] = "none"]
  /\ UNCHANGED <<today, checkout, stripe, events, granted>>

Later(a, b) == IF a > b THEN a ELSE b

(* The end a window would compute, from what it shows.                     *)
ExtendedEndShown(w, days) == Later(pages[w].trialEnds, today) + days

(* The end the UPDATE computes, from the row it finds.                     *)
ExtendedEnd(w, days) == Later(organization.trialEnds, today) + days

(* extendTrial: one conditional UPDATE; a paying organization is refused.  *)
ExtendTrial(w, days) ==
  /\ pages[w].status # "ACTIVE"
  /\ organization.status # "ACTIVE"
  /\ ExtendedEnd(w, days) <= MaxTrialEnd
  /\ organization' =
       [organization EXCEPT
          !.trialEnds = ExtendedEnd(w, days),
          !.status = IF organization.status = "SUSPENDED" THEN "SUSPENDED" ELSE "TRIALING"]
  /\ pages' = [pages EXCEPT ![w] = Shown(organization')]
  /\ granted' = granted + days
  /\ UNCHANGED <<today, checkout, stripe, events, reviving>>

SubscriptionsNext ==
  \/ DayEnds \/ Subscribe
  \/ \E c \in 0..MaxPayer : PayCheckout(c)
  \/ \E c \in Payer, state \in {"active", "past_due", "canceled"} : StripeChanges(c, state)
  \/ \E e \in events : DeliverEvent(e)
  \/ \E w \in Operator :
       \/ ReloadOrganization(w) \/ Suspend(w) \/ Reactivate(w) \/ Reactivated(w)
       \/ \E days \in Extension : ExtendTrial(w, days)

----------------------------------------------------------------------------
(* Properties.                                                             *)

(* Two extensions landing together both count: whatever days pass, pages   *)
(* go stale, events arrive and operators decide, the trial lasts at least  *)
(* as long as all the extensions together made it, and until then whoever  *)
(* is on trial is let in.                                                  *)
ExtensionsAllCount ==
  /\ organization.trialEnds >= Trial + granted
  /\ organization.status = "TRIALING" /\ today < Trial + granted => HasAccess

(* What the suspend route says, "Lock a tenant out of the product": it is  *)
(* the operators who let it in again.                                      *)
SuspendedStaysOut ==
  [][organization.status = "SUSPENDED" /\ organization'.status # "SUSPENDED"
       => \E w \in Operator : reviving[w] # "none"]_subscriptionVars

=============================================================================
