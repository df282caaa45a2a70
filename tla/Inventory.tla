----------------------------- MODULE Inventory -----------------------------
(***************************************************************************)
(* What the stock operations promise their callers: requests are atomic    *)
(* (Stock), and each movement they write starts from the quantity the      *)
(* previous one left.  There are no transactions, locks or statements      *)
(* here; StockOperations implements it.                                    *)
(***************************************************************************)
EXTENDS Stock, Sequences

CONSTANT Request  \* what documents ask for: [kind, location, lines]

VARIABLE ledger   \* per key, its StockMovements in commit order

vars == <<inventory, rows, ledger>>

Init == StockInit /\ ledger = [r \in Row |-> <<>>]

(* The movements of a request, in the same transaction as its updates.     *)
Record(req) ==
  ledger' = [r \in Row |->
    IF r \in Targets(req) /\ Moves(req.kind)
      THEN Append(ledger[r], Movement(req.kind, req.lines[r[1]], inventory'[r].quantity))
      ELSE ledger[r]]

Perform(req) == Apply(req) /\ Record(req)

Next == \E req \in Request : Perform(req)

Spec == Init /\ [][Next]_vars

=============================================================================
