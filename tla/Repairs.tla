------------------------------ MODULE Repairs ------------------------------
(***************************************************************************)
(* Repair jobs and the parts fitted on them (repairs.service.ts,           *)
(* repair-status.ts).  A part is reserved from the moment it is put on the *)
(* job, and taken when the job is completed.                               *)
(***************************************************************************)
EXTENDS Documents

CONSTANTS Repair, MaxCost  \* MaxCost bounds a repair's final cost

ASSUME RepairsAssumption == MaxCost \in Nat

VARIABLES
  repairs,
  completing  \* repairs a session has read as priced, and means to complete

repairVars == <<repairs, completing>>

RepairTransitions ==
  [RECEIVED         |-> {"DIAGNOSING", "CANCELLED"},
   DIAGNOSING       |-> {"WAITING_APPROVAL", "APPROVED", "CANCELLED"},
   WAITING_APPROVAL |-> {"APPROVED", "CANCELLED"},
   APPROVED         |-> {"IN_PROGRESS", "WAITING_PARTS", "CANCELLED"},
   IN_PROGRESS      |-> {"WAITING_PARTS", "COMPLETED", "CANCELLED"},
   WAITING_PARTS    |-> {"IN_PROGRESS", "CANCELLED"},
   COMPLETED        |-> {"DELIVERED"},
   DELIVERED        |-> {},
   CANCELLED        |-> {},
   NONE             |-> {}]

RepairStatus == DOMAIN RepairTransitions
Open == {"RECEIVED", "DIAGNOSING", "WAITING_APPROVAL", "APPROVED",
         "IN_PROGRESS", "WAITING_PARTS"}
Payable == {"COMPLETED", "DELIVERED"}

(* A final cost that is not set.                                           *)
NotSet == -1
Cost == {NotSet} \cup 0..MaxCost

RepairRecord ==
  [status : RepairStatus, parts : Lines, finalCost : Cost, paid : 0..MaxCost]

NoRepair == [status |-> "NONE", parts |-> NoLines, finalCost |-> NotSet, paid |-> 0]

RepairsInit == repairs = [d \in Repair |-> NoRepair] /\ completing = {}

CreateRepair(d) ==
  /\ repairs[d].status = "NONE"
  /\ repairs' = [repairs EXCEPT ![d] = [@ EXCEPT !.status = "RECEIVED"]]
  /\ UNCHANGED <<completing, stockVars>>

(* A request may set the cost, or clear it with a null.                    *)
UpdateRepair(d, cost) ==
  /\ repairs[d].status \in Open
  /\ repairs' = [repairs EXCEPT ![d] = [@ EXCEPT !.finalCost = cost]]
  /\ UNCHANGED <<completing, stockVars>>

----------------------------------------------------------------------------
(* changeStatus.                                                           *)

MoveRepair(d, to) ==
  /\ to \in RepairTransitions[repairs[d].status]
  /\ repairs' = [repairs EXCEPT ![d] = [@ EXCEPT !.status = to]]

(* The status read first only picks the transition: the conditional UPDATE *)
(* checks it again.                                                        *)
ProgressRepair(d, to) ==
  /\ to \notin {"COMPLETED", "CANCELLED"}
  /\ MoveRepair(d, to)
  /\ UNCHANGED <<completing, stockVars>>

CancelRepair(d) ==
  /\ MoveRepair(d, "CANCELLED")
  /\ Apply(Ask("release", Default, repairs[d].parts))
  /\ UNCHANGED completing

(* Completing a repair reads its final cost with the status, without a     *)
(* lock; the UPDATE that follows checks only the status.                   *)
ReadFinalCost(d) ==
  /\ "COMPLETED" \in RepairTransitions[repairs[d].status]
  /\ repairs[d].finalCost # NotSet
  /\ completing' = completing \cup {d}
  /\ UNCHANGED <<repairs, stockVars>>

CompleteRepair(d) ==
  /\ d \in completing
  /\ MoveRepair(d, "COMPLETED")
  /\ Apply(Ask("consume", Default, repairs[d].parts))
  /\ completing' = completing \ {d}

(* The status has moved on, or the session died.                           *)
AbandonCompletion(d) ==
  /\ d \in completing
  /\ completing' = completing \ {d}
  /\ UNCHANGED <<repairs, stockVars>>

----------------------------------------------------------------------------
(* Parts and payments.                                                     *)

SetParts(d, parts) ==
  /\ repairs[d].status \in Open
  /\ repairs' = [repairs EXCEPT ![d] = [@ EXCEPT !.parts = parts]]
  /\ UNCHANGED completing

AddPart(d, p, n) ==
  /\ p \notin DOMAIN repairs[d].parts
  /\ SetParts(d, WithLine(repairs[d].parts, p, n))
  /\ Apply(Ask("reserve", Default, OneLine(p, n)))

(* Only the difference touches stock; a correction of the price moves none.*)
UpdatePart(d, p, n) ==
  LET fitted == repairs[d].parts[p]
  IN /\ p \in DOMAIN repairs[d].parts
     /\ SetParts(d, WithLine(repairs[d].parts, p, n))
     /\ \/ n > fitted /\ Apply(Ask("reserve", Default, OneLine(p, n - fitted)))
        \/ n < fitted /\ Apply(Ask("release", Default, OneLine(p, fitted - n)))
        \/ n = fitted /\ UNCHANGED stockVars

RemovePart(d, p) ==
  /\ p \in DOMAIN repairs[d].parts
  /\ SetParts(d, WithoutLine(repairs[d].parts, p))
  /\ Apply(Ask("release", Default, OneLine(p, repairs[d].parts[p])))

(* SELECT ... FOR UPDATE: what has been paid is the sum of the payments.   *)
AddRepairPayment(d, amount) ==
  /\ repairs[d].status \in Payable
  /\ repairs[d].finalCost # NotSet
  /\ amount <= repairs[d].finalCost - repairs[d].paid
  /\ repairs' = [repairs EXCEPT ![d] = [@ EXCEPT !.paid = repairs[d].paid + amount]]
  /\ UNCHANGED <<completing, stockVars>>

RepairsNext ==
  \E d \in Repair :
    \/ CreateRepair(d)
    \/ \E cost \in Cost : UpdateRepair(d, cost)
    \/ \E to \in RepairStatus : ProgressRepair(d, to)
    \/ CancelRepair(d)
    \/ ReadFinalCost(d)
    \/ CompleteRepair(d)
    \/ AbandonCompletion(d)
    \/ \E p \in Product :
         \/ \E n \in 1..MaxLine : AddPart(d, p, n) \/ UpdatePart(d, p, n)
         \/ RemovePart(d, p)
    \/ \E amount \in 1..MaxCost : AddRepairPayment(d, amount)

(* The units of a row a repair has claimed and not yet taken.              *)
RepairHolds(d, r) ==
  IF repairs[d].status \in Open /\ r[2] = Default
    THEN Units(repairs[d].parts, r[1]) ELSE 0

=============================================================================
