----------------------------- MODULE Documents -----------------------------
(***************************************************************************)
(* What the documents that move stock - orders, repairs, transfers, counts *)
(* - have in common: lines of products and quantities, and the requests    *)
(* they make of the inventory.                                             *)
(*                                                                         *)
(* Every operation of a document starts with a conditional UPDATE of the   *)
(* document's own row, which locks it until the transaction ends, and a    *)
(* stock request is atomic (Inventory): the operation is one action, and   *)
(* one whose request is refused is rolled back whole.  The operations that *)
(* decide on a read taken before that lock are split in two.               *)
(***************************************************************************)
EXTENDS Stock

CONSTANTS
  Default,   \* the location sales, repairs and receipts use
  MaxLine    \* bound on the quantity of a line

ASSUME DocumentsAssumption == Default \in Location /\ MaxLine \in Nat

(* Lines: at most one per product, the unique index of every item table.   *)
Lines == UNION {[D -> 1..MaxLine] : D \in SUBSET Product}

NoLines == [p \in {} |-> 0]

OneLine(p, n) == [q \in {p} |-> n]

(* Mutant: changing a line adds to it.                                     *)
WithMore(lines, p, n) ==
  [q \in DOMAIN lines \cup {p} |->
    IF q # p THEN lines[q] ELSE IF p \in DOMAIN lines THEN lines[p] + n ELSE n]

WithLine(lines, p, n) ==
  [q \in DOMAIN lines \cup {p} |-> IF q = p THEN n ELSE lines[q]]

WithoutLine(lines, p) == [q \in DOMAIN lines \ {p} |-> lines[q]]

Units(lines, p) == IF p \in DOMAIN lines THEN lines[p] ELSE 0

Ask(kind, l, lines) == [kind |-> kind, location |-> l, lines |-> lines]

=============================================================================
