CONSTANTS
  good1 = good1
  good2 = good2
  category1 = category1
  brand1 = brand1
  supplier1 = supplier1
  person1 = person1
  site1 = site1
  Good <- Goods
  Category <- Categories
  Brand <- Brands
  Supplier <- Suppliers
  CustomerRow <- Persons
  Site <- Sites
  Home = site1
  Code = {code1, code2}
  NoCode = NoCode
  Editor = {editor1}
  NoEdit = NoEdit
SPECIFICATION MCSpec
CHECK_DEADLOCK FALSE
INVARIANT NoBrokenCatalogue
