------------------------- MODULE MCStockOperations -------------------------
(***************************************************************************)
(* Instances of StockOperations for TLC.                                   *)
(***************************************************************************)
EXTENDS StockOperations

CONSTANTS t1, t2, main

TwoSessions == {t1, t2}

OneLocation == {main}

(* In the second catalogue the last product has no row.                    *)
FullCatalogue == Row
CatalogueWithGap == Row \ ({ProductCount} \X Location)

Documents(kinds, locations, products, quantities) ==
  {[kind |-> k, location |-> l, lines |-> f] :
     k \in kinds, l \in locations,
     f \in UNION {[D -> quantities] : D \in products}}

AnyProducts == SUBSET Product \ {{}}
OneProduct == {{p} : p \in Product}

Adjustments(locations, deltas) ==
  Documents({"adjust"}, locations, OneProduct, deltas)

(* Every kind of request; those that do nothing special with several lines *)
(* carry one.  A count has one line, which is in order of itself.          *)
EveryKind ==
  Documents({"reserve", "consume"}, Location, AnyProducts, {1})
    \cup Documents({"arrive", "release", "restore"}, Location, OneProduct, {1})
    \cup Documents({"count"}, Location, OneProduct, {-1})
    \cup Adjustments(Location, {2})

(* A stock count beside a sale.                                            *)
CountRequests == Documents({"reserve", "count"}, Location, AnyProducts, {1})

=============================================================================
