------------------------------ MODULE Dialogs ------------------------------
(***************************************************************************)
(* The form dialogs of the web application.  A page shows rows and one     *)
(* dialog; opening it mounts a form, filled from the row it is for, and    *)
(* saving sends the form.  The page stays usable while a save is on its    *)
(* way: the dialog can be closed and opened for another row, the rows can  *)
(* be fetched again, and the answer acts on whatever is there by then.     *)
(***************************************************************************)
EXTENDS Naturals, FiniteSets

CONSTANTS
  ListedRow,   \* the rows of a page
  NewRow,      \* what the form of a row that is yet to be created is for
  Save,        \* bound: requests on their way at once
  MaxRevision  \* bound: changes to a row

ASSUME DialogsAssumption == NewRow \notin ListedRow /\ MaxRevision \in Nat

VARIABLES
  revisions,  \* how often each row has been changed
  fetched,    \* the revision of each row the page shows
  screen,     \* the dialog: its kind, whether it is open, and for which row
  mounted,    \* its form, or NoForm
  saves       \* the requests on their way

dialogVars == <<revisions, fetched, screen, mounted, saves>>

NoForm == [key |-> "none"]
NoSave == [state |-> "none"]

----------------------------------------------------------------------------
(* The dialogs: what a form's React key is made of, whether the dialog     *)
(* creates rows, changes rows, or belongs to the one document of its page. *)

Keyed(by, creates, entries) == [by |-> by, targets |-> creates \cup entries]

TheDocument == {CHOOSE e \in ListedRow : TRUE}

ProductFormDialog == Keyed("entry", {NewRow}, ListedRow)
UserFormDialog == Keyed("entry", {NewRow}, ListedRow)
ExpenseFormDialog == Keyed("entry", {NewRow}, ListedRow)
SettingFormDialog == Keyed("entry", {NewRow}, ListedRow)
RuleDialog == Keyed("entry", {NewRow}, ListedRow)
StockAdjustDialog == Keyed("entry", {}, ListedRow)
RecordIncomeDialog == Keyed("nothing", {NewRow}, {})
ExtendTrialDialog == Keyed("nothing", {}, TheDocument)
AddPaymentDialog == Keyed("revision", {}, TheDocument)
ReceiveGoodsDialog == Keyed("revision", {}, TheDocument)
ChangeStatusDialog == Keyed("revision", {}, TheDocument)
(* EntityCrudPage: the form lives as long as the page, its opener fills it.*)
EntityDialog == Keyed("opener", {NewRow}, ListedRow)

DialogKinds ==
  {ProductFormDialog, UserFormDialog, ExpenseFormDialog, SettingFormDialog,
   RuleDialog, StockAdjustDialog, RecordIncomeDialog, ExtendTrialDialog,
   AddPaymentDialog, ReceiveGoodsDialog, ChangeStatusDialog, EntityDialog}

Revision(rows, e) == IF e = NewRow THEN 0 ELSE rows[e]

Key(rows, e) ==
  CASE screen.kind.by = "entry"    -> <<e, 0>>
    [] screen.kind.by = "revision" -> <<e, Revision(rows, e)>>
    [] OTHER                       -> <<NewRow, 0>>

----------------------------------------------------------------------------
(* What React mounts.                                                      *)

(* holds: the rows whose values or typing the form holds; sending: its     *)
(* request, while isSubmitting; of the request it sent last, kept: the API *)
(* has carried it out, unanswered: the answer was lost.                    *)
Fresh(rows, e) ==
  [key |-> Key(rows, e), holds |-> {e}, seen |-> Revision(rows, e),
   sending |-> {}, kept |-> FALSE, unanswered |-> FALSE]

(* Mutant: one form, mounted once and for all.                             *)
RenderOnce(rows, open, e) == IF mounted = NoForm THEN Fresh(rows, e) ELSE mounted

(* A form is mounted while the dialog is open, and again when its key      *)
(* changes; the entity pages' form is filled again by what opens it.       *)
Render(rows, open, e) ==
  IF ~open THEN NoForm
  ELSE IF mounted # NoForm /\ mounted.key = Key(rows, e) THEN mounted
  ELSE Fresh(rows, e)

Show(rows, open, e) ==
  /\ fetched' = rows
  /\ screen' = [screen EXCEPT !.open = open, !.entry = e]
  /\ mounted' = Render(rows, open, e)

(* On an entity page a request that has no answer yet keeps every form     *)
(* from being sent; the others wait for the rows to be fetched as well.    *)
Submitting ==
  IF screen.kind.by = "opener" THEN \E s \in Save : saves[s].state = "sent"
  ELSE mounted.sending # {}

DialogsInit ==
  /\ revisions = [e \in ListedRow |-> 0]
  /\ fetched = revisions
  /\ \E kind \in DialogKinds : screen = [kind |-> kind, open |-> FALSE, entry |-> NewRow]
  /\ mounted = NoForm
  /\ saves = [s \in Save |-> NoSave]

(* An open dialog is modal: the rows behind it cannot be reached.          *)
OpenForm(e) ==
  /\ ~screen.open /\ e \in screen.kind.targets
  /\ Show(fetched, TRUE, e)
  /\ UNCHANGED <<revisions, saves>>

(* Cancel, Escape, a click beside it - also while a save is on its way.    *)
CloseForm ==
  /\ screen.open
  /\ Show(fetched, FALSE, screen.entry)
  /\ UNCHANGED <<revisions, saves>>

TypeInto ==
  /\ screen.open
  /\ mounted' = [mounted EXCEPT !.holds = mounted.holds \cup {screen.entry}]
  /\ UNCHANGED <<revisions, fetched, screen, saves>>

SubmitForm(s) ==
  /\ screen.open /\ ~Submitting /\ saves[s] = NoSave
  /\ saves' = [saves EXCEPT ![s] =
       [state |-> "sent", entry |-> screen.entry, form |-> mounted]]
  /\ mounted' = [mounted EXCEPT !.sending = {s}, !.kept = FALSE, !.unanswered = FALSE]
  /\ UNCHANGED <<revisions, fetched, screen>>

(* Is the form a request came from still there?                            *)
Sender(s) == mounted # NoForm /\ mounted.sending = {s}

(* The API carries it out.                                                 *)
Changed(e) == IF e = NewRow THEN revisions ELSE [revisions EXCEPT ![e] = revisions[e] + 1]

SaveRow(s) ==
  /\ saves[s].state = "sent"
  /\ Revision(revisions, saves[s].entry) < MaxRevision
  /\ revisions' = Changed(saves[s].entry)
  /\ saves' = [saves EXCEPT ![s].state = "saved"]
  /\ mounted' = IF Sender(s) THEN [mounted EXCEPT !.kept = TRUE] ELSE mounted
  /\ UNCHANGED <<fetched, screen>>

(* It succeeded: the rows are fetched again ...                            *)
Invalidate(s) ==
  /\ saves[s].state = "saved"
  /\ saves' = [saves EXCEPT ![s].state = "fetched"]
  /\ Show(revisions, screen.open, screen.entry)
  /\ UNCHANGED revisions

(* ... then the dialog is closed, whoever opened it since.                 *)
CloseSaved(s) ==
  /\ saves[s].state = "fetched"
  /\ saves' = [saves EXCEPT ![s] = NoSave]
  /\ Show(fetched, FALSE, screen.entry)
  /\ UNCHANGED revisions

(* It is refused: the form shows the error and can be sent again.          *)
RefuseSave(s) ==
  /\ saves[s].state = "sent"
  /\ saves' = [saves EXCEPT ![s] = NoSave]
  /\ mounted' = IF Sender(s) THEN [mounted EXCEPT !.sending = {}] ELSE mounted
  /\ UNCHANGED <<revisions, fetched, screen>>

(* The answer is lost, before or after the API carried the request out: to *)
(* the page that is an error like any other.  What the API still carries   *)
(* out afterwards is to this page a change made elsewhere.                 *)
LoseSave(s) ==
  /\ saves[s].state \in {"sent", "saved"}
  /\ saves' = [saves EXCEPT ![s] = NoSave]
  /\ mounted' = IF Sender(s) THEN [mounted EXCEPT !.sending = {}, !.unanswered = TRUE]
                ELSE mounted
  /\ UNCHANGED <<revisions, fetched, screen>>

(* On focus, when older than 30 s.                                         *)
RefetchRows ==
  /\ Show(revisions, screen.open, screen.entry)
  /\ UNCHANGED <<revisions, saves>>

ChangeElsewhere(e) ==
  /\ revisions[e] < MaxRevision
  /\ revisions' = Changed(e)
  /\ UNCHANGED <<fetched, screen, mounted, saves>>

DialogsNext ==
  \/ \E e \in ListedRow \cup {NewRow} : OpenForm(e)
  \/ CloseForm \/ TypeInto \/ RefetchRows
  \/ \E e \in ListedRow : ChangeElsewhere(e)
  \/ \E s \in Save :
       \/ SubmitForm(s) \/ SaveRow(s) \/ Invalidate(s) \/ CloseSaved(s)
       \/ RefuseSave(s) \/ LoseSave(s)

----------------------------------------------------------------------------
(* "Opening for a different product (or a fresh New) remounts the form     *)
(* with clean state": whichever rows were opened, closed, saved and        *)
(* fetched again in between, what is saved to a row was filled in from     *)
(* that row or typed for it; a dialog of a document describes the document *)
(* the page shows; and a form whose request was carried out waits for its  *)
(* answer and cannot be sent a second time - but on the entity pages, which*)
(* free it before their rows are fetched, and after an answer was lost,    *)
(* when nothing tells the form that its request was carried out.           *)
FormsSaveTheirOwn ==
  /\ \A s \in Save : saves[s] # NoSave => saves[s].form.holds = {saves[s].entry}
  /\ screen.open /\ screen.kind.by = "revision" => mounted.seen = fetched[screen.entry]
  /\ screen.open /\ screen.kind.by # "opener" =>
       (mounted.kept /\ ~mounted.unanswered => Submitting)

=============================================================================
