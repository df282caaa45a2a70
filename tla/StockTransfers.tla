--------------------------- MODULE StockTransfers ---------------------------
(***************************************************************************)
(* Moving stock between two locations (stock-transfers.service.ts).        *)
(* Approval reserves the units at the source, shipping takes them off its  *)
(* shelf, completion puts them on the destination's.                       *)
(***************************************************************************)
EXTENDS Documents

CONSTANT Transfer

VARIABLE transfers

TransferStatus ==
  {"NONE", "DRAFT", "REQUESTED", "APPROVED", "IN_TRANSIT", "COMPLETED", "CANCELLED"}

TransferRecord ==
  [status : TransferStatus, source : Location, destination : Location, lines : Lines]

NoTransfer ==
  [status |-> "NONE", source |-> Default, destination |-> Default, lines |-> NoLines]

TransfersInit == transfers = [t \in Transfer |-> NoTransfer]

SetTransfer(t, record) == transfers' = [transfers EXCEPT ![t] = record]

CreateTransfer(t, from, to, lines) ==
  /\ transfers[t].status = "NONE"
  /\ from # to
  /\ SetTransfer(t, [status |-> "DRAFT", source |-> from, destination |-> to,
                     lines |-> lines])
  /\ UNCHANGED stockVars

UpdateTransfer(t, from, to) ==
  /\ transfers[t].status = "DRAFT"
  /\ from # to
  /\ SetTransfer(t, [transfers[t] EXCEPT !.source = from, !.destination = to])
  /\ UNCHANGED stockVars

EditLines(t, lines) ==
  /\ transfers[t].status = "DRAFT"
  /\ SetTransfer(t, [transfers[t] EXCEPT !.lines = lines])
  /\ UNCHANGED stockVars

AddTransferItem(t, p, n) ==
  /\ p \notin DOMAIN transfers[t].lines
  /\ EditLines(t, WithLine(transfers[t].lines, p, n))

UpdateTransferItem(t, p, n) ==
  /\ p \in DOMAIN transfers[t].lines
  /\ EditLines(t, WithLine(transfers[t].lines, p, n))

RemoveTransferItem(t, p) ==
  /\ p \in DOMAIN transfers[t].lines
  /\ EditLines(t, WithoutLine(transfers[t].lines, p))

MoveTransfer(t, from, to) ==
  /\ transfers[t].status = from
  /\ SetTransfer(t, [transfers[t] EXCEPT !.status = to])

RequestTransfer(t) ==
  /\ MoveTransfer(t, "DRAFT", "REQUESTED")
  /\ transfers[t].lines # NoLines
  /\ UNCHANGED stockVars

ApproveTransfer(t) ==
  /\ MoveTransfer(t, "REQUESTED", "APPROVED")
  /\ Apply(Ask("reserve", transfers[t].source, transfers[t].lines))

ShipTransfer(t) ==
  /\ MoveTransfer(t, "APPROVED", "IN_TRANSIT")
  /\ Apply(Ask("consume", transfers[t].source, transfers[t].lines))

CompleteTransfer(t) ==
  /\ MoveTransfer(t, "IN_TRANSIT", "COMPLETED")
  /\ Apply(Ask("arrive", transfers[t].destination, transfers[t].lines))

(* Mutants: the reservation is forgotten; a transfer under way is called   *)
(* off with its units on the road.                                         *)
CancelKeepingClaim(t) ==
  /\ \E from \in {"DRAFT", "REQUESTED", "APPROVED"} : MoveTransfer(t, from, "CANCELLED")
  /\ UNCHANGED stockVars

CancelOnTheRoad(t) ==
  \/ /\ \E from \in {"DRAFT", "REQUESTED", "IN_TRANSIT"} : MoveTransfer(t, from, "CANCELLED")
     /\ UNCHANGED stockVars
  \/ /\ MoveTransfer(t, "APPROVED", "CANCELLED")
     /\ Apply(Ask("release", transfers[t].source, transfers[t].lines))

CancelTransfer(t) ==
  \/ /\ \E from \in {"DRAFT", "REQUESTED"} : MoveTransfer(t, from, "CANCELLED")
     /\ UNCHANGED stockVars
  \/ /\ MoveTransfer(t, "APPROVED", "CANCELLED")
     /\ Apply(Ask("release", transfers[t].source, transfers[t].lines))

EditTransfer(t) ==
  \/ \E from, to \in Location :
       \/ \E lines \in Lines : CreateTransfer(t, from, to, lines)
       \/ UpdateTransfer(t, from, to)
  \/ \E p \in Product :
       \/ \E n \in 1..MaxLine : AddTransferItem(t, p, n) \/ UpdateTransferItem(t, p, n)
       \/ RemoveTransferItem(t, p)

TransfersNext ==
  \E t \in Transfer :
    \/ EditTransfer(t)
    \/ RequestTransfer(t)
    \/ ApproveTransfer(t)
    \/ ShipTransfer(t)
    \/ CompleteTransfer(t)
    \/ CancelTransfer(t)

(* The units of a row a transfer has claimed and not yet shipped.          *)
TransferHolds(t, r) ==
  IF transfers[t].status = "APPROVED" /\ r[2] = transfers[t].source
    THEN Units(transfers[t].lines, r[1]) ELSE 0

(* The units of a product that are on the road.                            *)
InTransit(t, p) ==
  IF transfers[t].status = "IN_TRANSIT" THEN Units(transfers[t].lines, p) ELSE 0

=============================================================================
