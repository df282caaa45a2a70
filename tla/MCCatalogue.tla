---------------------------- MODULE MCCatalogue -----------------------------
(***************************************************************************)
(* An instance of Catalogue for TLC: two products, what they name, and one *)
(* clerk at work.                                                          *)
(***************************************************************************)
EXTENDS Catalogue

CONSTANTS good1, good2, category1, brand1, supplier1, person1, site1

Goods == {good1, good2}
Categories == {category1}
Brands == {brand1}
Suppliers == {supplier1}
Persons == {person1}
Sites == {site1}

MCSpec == CatalogueInit({good1, category1}) /\ [][CatalogueNext]_catalogueVars

=============================================================================
