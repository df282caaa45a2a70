---------------------------- MODULE StockCounts ----------------------------
(***************************************************************************)
(* Physical counts of a location (stock-counts.service.ts): expected       *)
(* quantities are copied when a product is put on the list, counted ones   *)
(* are entered while the count is COUNTING, and approval applies the       *)
(* difference, not the counted quantity, to the inventory.                 *)
(***************************************************************************)
EXTENDS Documents

CONSTANTS StockCount, MaxCount  \* MaxCount bounds a counted quantity

ASSUME StockCountsAssumption == MaxCount \in Nat

VARIABLES
  counts,
  submitting  \* counts that a session entering a quantity has read as COUNTING

countVars == <<counts, submitting>>

CountStatus ==
  {"NONE", "DRAFT", "COUNTING", "REVIEW", "APPROVED", "COMPLETED", "CANCELLED"}

CountRecord ==
  [status   : CountStatus,
   location : Location,
   expected : UNION {[D -> 0..MaxQuantity] : D \in SUBSET Product},
   counted  : UNION {[D -> 0..MaxCount] : D \in SUBSET Product}]

(* A product on the list is in the domain of expected; it is in that of    *)
(* counted too when its countedQuantity is not null.                       *)
NoCount ==
  [status |-> "NONE", location |-> Default, expected |-> NoLines, counted |-> NoLines]

CountsInit == counts = [c \in StockCount |-> NoCount] /\ submitting = {}

SetCount(c, record) ==
  /\ counts' = [counts EXCEPT ![c] = record]
  /\ UNCHANGED submitting

(* snapshotItems; 0 stands for a product without a row.                    *)
OnHand(p, l) == inventory[<<p, l>>].quantity

(* The products named, or those with a row at the location.                *)
CreateCount(c, l, products) ==
  /\ counts[c].status = "NONE"
  /\ SetCount(c, [status   |-> "DRAFT",
                  location |-> l,
                  expected |-> [p \in products |-> OnHand(p, l)],
                  counted  |-> NoLines])
  /\ UNCHANGED stockVars

AddCountItem(c, p) ==
  LET count == counts[c]
  IN /\ count.status = "DRAFT"
     /\ p \notin DOMAIN count.expected
     /\ SetCount(c, [count EXCEPT !.expected =
                       WithLine(@, p, OnHand(p, count.location))])
     /\ UNCHANGED stockVars

RemoveCountItem(c, p) ==
  /\ counts[c].status = "DRAFT"
  /\ p \in DOMAIN counts[c].expected
  /\ SetCount(c, [counts[c] EXCEPT !.expected = WithoutLine(@, p)])
  /\ UNCHANGED stockVars

MoveCount(c, from, to) ==
  /\ counts[c].status = from
  /\ SetCount(c, [counts[c] EXCEPT !.status = to])

StartCounting(c) ==
  /\ MoveCount(c, "DRAFT", "COUNTING")
  /\ DOMAIN counts[c].expected # {}
  /\ UNCHANGED stockVars

----------------------------------------------------------------------------
(* submitCount reads the status without a lock, then writes the line; any  *)
(* number of sessions may be in between.                                   *)

ReadCounting(c) ==
  /\ counts[c].status = "COUNTING"
  /\ submitting' = submitting \cup {c}
  /\ UNCHANGED <<counts, stockVars>>

WriteCounted(c, p, n) ==
  /\ c \in submitting
  /\ p \in DOMAIN counts[c].expected
  /\ counts' = [counts EXCEPT ![c] =
                [@ EXCEPT !.counted = WithLine(counts[c].counted, p, n)]]
  /\ submitting' \in {submitting, submitting \ {c}}
  /\ UNCHANGED stockVars

(* The session died before it wrote.                                       *)
AbandonSubmit(c) ==
  /\ c \in submitting
  /\ submitting' = submitting \ {c}
  /\ UNCHANGED <<counts, stockVars>>

(* Mutant: one counted line is enough.                                     *)
SubmitPartial(c) ==
  /\ MoveCount(c, "COUNTING", "REVIEW")
  /\ DOMAIN counts[c].counted # {}
  /\ UNCHANGED stockVars

SubmitForReview(c) ==
  /\ MoveCount(c, "COUNTING", "REVIEW")
  /\ DOMAIN counts[c].expected \subseteq DOMAIN counts[c].counted
  /\ UNCHANGED stockVars

(* The lines approval applies: a null counted quantity would count as 0.   *)
Variances(count) ==
  LET variance == [p \in DOMAIN count.expected |->
                     Units(count.counted, p) - count.expected[p]]
  IN [p \in {q \in DOMAIN variance : variance[q] # 0} |-> variance[p]]

ApproveCount(c) ==
  /\ MoveCount(c, "REVIEW", "APPROVED")
  /\ Apply(Ask("count", counts[c].location, Variances(counts[c])))

CloseCount(c) ==
  /\ MoveCount(c, "APPROVED", "COMPLETED")
  /\ UNCHANGED stockVars

CancelCount(c) ==
  /\ \E from \in {"DRAFT", "COUNTING", "REVIEW"} : MoveCount(c, from, "CANCELLED")
  /\ UNCHANGED stockVars

CountsNext ==
  \E c \in StockCount :
    \/ \E l \in Location, products \in SUBSET Product : CreateCount(c, l, products)
    \/ \E p \in Product : AddCountItem(c, p) \/ RemoveCountItem(c, p)
    \/ StartCounting(c)
    \/ ReadCounting(c)
    \/ \E p \in Product, n \in 0..MaxCount : WriteCounted(c, p, n)
    \/ AbandonSubmit(c)
    \/ SubmitForReview(c)
    \/ ApproveCount(c)
    \/ CloseCount(c)
    \/ CancelCount(c)

=============================================================================
