------------------------------ MODULE MCOffice ------------------------------
(***************************************************************************)
(* An instance of Office for TLC.                                          *)
(***************************************************************************)
EXTENDS Office, TLC

CONSTANTS
  o1, d1, c1, main, till1, till2,
  x1, clerk1, clerk2,
  good1, good2, category1, category2, brand1, supplier1, person1, person2, site1, site2,
  member1, member2

OneOrder == {o1}
OneRepair == {d1}
OneCount == {c1}
NoDocument == {}
OneLocation == {main}
DefaultCatalogue == Product \X {Default}
TwoTills == {till1, till2}

OneExpense == {x1}
TwoClerks == {clerk1, clerk2}

Goods == {good1, good2}
Categories == {category1, category2}
Brands == {brand1}
Suppliers == {supplier1}
Persons == {person1, person2}
Sites == {site1, site2}

(* Rows whose operations look at one another.                              *)
Together ==
  {{good1, category1}, {good1, brand1}, {good1, supplier1}, Goods, Categories, Persons, Sites}

TwoMembers == {member1, member2}
TheirRoles == member1 :> "ADMIN" @@ member2 :> "TECHNICIAN"

=============================================================================
