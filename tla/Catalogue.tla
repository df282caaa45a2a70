----------------------------- MODULE Catalogue -----------------------------
(***************************************************************************)
(* The reference data: products, the categories, brands and suppliers they *)
(* name, customers and locations.  Rows are deleted softly, and keep their *)
(* unique codes.  A service reads what it must know first and writes       *)
(* afterwards, without a transaction: a clerk is between the two while it  *)
(* has an operation under way.                                             *)
(***************************************************************************)
EXTENDS Naturals

CONSTANTS
  Good, Category, Brand, Supplier, CustomerRow, Site,  \* ids of rows, by table
  Home,   \* the default location
  Code,   \* values of the unique columns: sku, name, slug, customer code
  NoCode, \* of a table without one
  Editor, NoEdit

ASSUME CatalogueAssumption ==
  /\ Home \in Site /\ NoCode \notin Code
  /\ \A T, U \in {Good, Category, Brand, Supplier, CustomerRow, Site} :
       T # U => T \cap U = {}

VARIABLES
  records,  \* the rows, by id
  stocked,  \* does the product's inventory row have units?
  doing     \* what each clerk's request has read and not yet written

catalogueVars == <<records, stocked, doing>>

Entry == Good \cup Category \cup Brand \cup Supplier \cup CustomerRow \cup Site

Table(e) ==
  CHOOSE T \in {Good, Category, Brand, Supplier, CustomerRow, Site} : e \in T

(* names: the category, brand and preferred supplier of a product.         *)
NoEntry == [state |-> "none", code |-> NoCode, names |-> {}]

CodesOf(e) == IF e \in Site THEN {NoCode} ELSE Code

NamesOf(e) == IF e \in Good THEN Category \cup Brand \cup Supplier ELSE {}

(* The other rows of its table.                                            *)
Others(e) == (Table(e) \cap DOMAIN records) \ {e}

Live(e) == records[e].state = "live"

(* Mutant: a partial index, over the rows that are not deleted.            *)
UniqueIndexOfLive(e, code) ==
  code = NoCode \/ \A f \in Others(e) : Live(f) => records[f].code # code

(* The unique indexes of the schema span deleted rows.                     *)
UniqueIndex(e, code) ==
  code = NoCode \/ \A f \in Others(e) :
    records[f].state # "none" => records[f].code # code

(* assertSkuAvailable, assertNameAvailable and the like look where the     *)
(* index does.                                                             *)
CodeFree(e, code) ==
  code = NoCode \/ \A f \in Others(e) :
    records[f].state # "none" => records[f].code # code

UsedByProducts(e) == \E p \in DOMAIN stocked : Live(p) /\ e \in records[p].names

(* findOne: an operation on an existing row wants it live, restore deleted.*)
FoundRow(does, e) ==
  CASE does = "create"  -> records[e].state = "none"
    [] does = "restore" -> records[e].state = "deleted"
    [] OTHER            -> Live(e)

----------------------------------------------------------------------------
(* What each service asserts before it writes.                             *)

Writes == {"create", "update"}

GoodAsserts(does, e, code, names) ==
  /\ does \in Writes => CodeFree(e, code) /\ \A n \in names : Live(n)
  /\ does = "remove" => ~stocked[e]

CategoryAsserts(does, e, code) ==
  /\ does \in Writes => CodeFree(e, code)
  /\ does = "remove" => ~UsedByProducts(e)

BrandAsserts(does, e, code) ==
  /\ does \in Writes => CodeFree(e, code)
  /\ does = "remove" => ~UsedByProducts(e)

SupplierAsserts(does, e, code) == does \in Writes => CodeFree(e, code)

CustomerAsserts(does, e, code) == does \in Writes => CodeFree(e, code)

PlaceAsserts(does, e) == does = "remove" => e # Home

Asserts(does, e, code, names) ==
  /\ e \in Good     => GoodAsserts(does, e, code, names)
  /\ e \in Category => CategoryAsserts(does, e, code)
  /\ e \in Brand    => BrandAsserts(does, e, code)
  /\ e \in Supplier => SupplierAsserts(does, e, code)
  /\ e \in CustomerRow => CustomerAsserts(does, e, code)
  /\ e \in Site    => PlaceAsserts(does, e)

----------------------------------------------------------------------------

(* Only the rows of a scene are used; the rest of the tables stays empty.  *)
CatalogueInit(scene) ==
  /\ records = [e \in scene |->
       IF e = Home THEN [NoEntry EXCEPT !.state = "live"] ELSE NoEntry]
  /\ stocked = [p \in scene \cap Good |-> FALSE]
  /\ doing = [c \in Editor |-> NoEdit]

Read(c, does, e, code, names) ==
  /\ doing[c] = NoEdit
  /\ does = "create" => \A d \in Editor : doing[d] # NoEdit => doing[d].entry # e
  /\ FoundRow(does, e)
  /\ Asserts(does, e, code, names)
  /\ doing' = [doing EXCEPT ![c] =
       [does |-> does, entry |-> e, code |-> code, names |-> names]]
  /\ UNCHANGED <<records, stocked>>

Done(c) == doing' = [doing EXCEPT ![c] = NoEdit]

SetEntry(c, entry) ==
  /\ records' = [records EXCEPT ![doing[c].entry] = entry]
  /\ Done(c)
  /\ UNCHANGED stocked

(* Create and update write the columns and leave deletedAt alone.          *)
WriteColumns(c) ==
  LET op == doing[c]
  IN /\ op # NoEdit /\ op.does \in Writes
     /\ UniqueIndex(op.entry, op.code)
     /\ SetEntry(c, [state |-> IF op.does = "create" THEN "live"
                               ELSE records[op.entry].state,
                     code  |-> op.code,
                     names |-> op.names])

(* The index refuses what the read let through.                            *)
CodeConflict(c) ==
  LET op == doing[c]
  IN /\ op # NoEdit /\ op.does \in Writes
     /\ ~UniqueIndex(op.entry, op.code)
     /\ Done(c) /\ UNCHANGED <<records, stocked>>

SoftDelete(c) ==
  /\ doing[c] # NoEdit /\ doing[c].does = "remove"
  /\ SetEntry(c, [records[doing[c].entry] EXCEPT !.state = "deleted"])

Restore(c) ==
  /\ doing[c] # NoEdit /\ doing[c].does = "restore"
  /\ SetEntry(c, [records[doing[c].entry] EXCEPT !.state = "live"])

(* The process died between the read and the write.                        *)
Abandon(c) == doing[c] # NoEdit /\ Done(c) /\ UNCHANGED <<records, stocked>>

(* Goods received, sold or adjusted: the stock operations.                 *)
StockMoves(p) ==
  /\ records[p].state # "none"
  /\ stocked' = [stocked EXCEPT ![p] = ~@]
  /\ UNCHANGED <<records, doing>>

CatalogueNext ==
  \/ \E c \in Editor :
       \/ \E e \in DOMAIN records, does \in {"create", "update", "remove", "restore"} :
            \E code \in CodesOf(e), names \in SUBSET (NamesOf(e) \cap DOMAIN records) :
              Read(c, does, e, code, names)
       \/ WriteColumns(c)
       \/ CodeConflict(c)
       \/ SoftDelete(c)
       \/ Restore(c)
       \/ Abandon(c)
  \/ \E p \in DOMAIN stocked : StockMoves(p)

CatalogueSpec(scene) == CatalogueInit(scene) /\ [][CatalogueNext]_catalogueVars

----------------------------------------------------------------------------
(* Properties.                                                             *)

(* A deleted row keeps its code to itself, so restore, which checks        *)
(* nothing of the kind, can never bring back a code that somebody else has *)
(* taken meanwhile.                                                        *)
RestoreNeverCollides ==
  \A e \in DOMAIN records :
    records[e].state # "none" /\ records[e].code # NoCode =>
      \A f \in Others(e) :
        records[f].state # "none" => records[f].code # records[e].code

(* What the comment on remove says: a category is not hidden while live    *)
(* products point at it, "a broken catalogue rather than a tidy one".      *)
NoBrokenCatalogue ==
  \A p \in DOMAIN stocked : Live(p) =>
    \A n \in records[p].names \cap Category : Live(n)

=============================================================================
