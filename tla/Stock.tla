------------------------------- MODULE Stock -------------------------------
(***************************************************************************)
(* The Inventory table as the documents of the shop see it: a request      *)
(* moves all of its lines at once or none of them.  StockOperations shows  *)
(* that this is what concurrent transactions amount to.                    *)
(***************************************************************************)
EXTENDS StockRows

VARIABLES
  inventory,  \* the committed quantities, per key; EmptyRow where no row is
  rows        \* the keys that have a row

stockVars == <<inventory, rows>>

StockInit ==
  /\ inventory = [r \in Row |-> EmptyRow]
  /\ rows = Catalogue

(* Does every statement of the request match its row?                      *)
Accepts(req) ==
  \A r \in Targets(req) :
    FindsRow(req.kind, r, rows) /\ Permits(req.kind, inventory[r], req.lines[r[1]])

Apply(req) ==
  /\ Accepts(req)
  /\ inventory' = [r \in Row |->
       IF r \in Targets(req) THEN After(req.kind, inventory[r], req.lines[r[1]])
                             ELSE inventory[r]]
  /\ rows' = rows \cup Targets(req)

=============================================================================
