---------------------------- MODULE MCAfterSales ----------------------------
(***************************************************************************)
(* Instances of AfterSales for TLC.                                        *)
(***************************************************************************)
EXTENDS AfterSales, TLC

CONSTANTS o1, r1, r2, main

OneOrder == {o1}
TwoReturns == {r1, r2}
Documented == {o1, r1, r2}
NoExpenses == {}
NoClerks == {}
OneLocation == {main}
FullCatalogue == Row

Symmetry == Permutations(TwoReturns)

=============================================================================
