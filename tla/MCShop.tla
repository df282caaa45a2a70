------------------------------- MODULE MCShop -------------------------------
(***************************************************************************)
(* Instances of Shop for TLC.                                              *)
(***************************************************************************)
EXTENDS Shop

CONSTANTS o1, d1, t1, c1, main, shop

OneOrder == {o1}
OneRepair == {d1}
OneTransfer == {t1}
OneCount == {c1}
NoDocument == {}

OneLocation == {main}
TwoLocations == {main, shop}

(* products.create inserts a row at the default location only.             *)
DefaultCatalogue == Product \X {Default}

=============================================================================
