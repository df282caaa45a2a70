CONSTANTS
  o1 = o1
  d1 = d1
  c1 = c1
  main = main
  till1 = till1
  till2 = till2
  x1 = x1
  clerk1 = clerk1
  clerk2 = clerk2
  good1 = good1
  good2 = good2
  category1 = category1
  category2 = category2
  brand1 = brand1
  supplier1 = supplier1
  person1 = person1
  person2 = person2
  site1 = site1
  site2 = site2
  member1 = member1
  member2 = member2
  ProductCount = 2
  Location <- OneLocation
  Catalogue <- DefaultCatalogue
  MaxQuantity = 2
  Default = main
  MaxLine = 2
  Order <- OneOrder
  MaxAmount = 2
  Repair <- OneRepair
  MaxCost = 2
  Transfer <- NoDocument
  StockCount <- OneCount
  MaxCount = 2
  Till <- TwoTills
  NoSale = NoSale
  Expense <- OneExpense
  Clerk <- TwoClerks
  Source <- NoDocument
  OtherIncome = OtherIncome
  MaxMoney = 2
  MaxEntries = 1
  Tab = {tab}
  NoAction = NoAction
  Good <- Goods
  Category <- Categories
  Brand <- Brands
  Supplier <- Suppliers
  CustomerRow <- Persons
  Site <- Sites
  Home = site1
  Code = {code1, code2}
  NoCode = NoCode
  Editor = {editor1, editor2}
  NoEdit = NoEdit
  Scenes <- Together
  ListedRow = {entry1, entry2}
  NewRow = NewRow
  Save = {save1, save2}
  MaxRevision = 1
  MaxRows = 2
  PageSize = 1
  Window = {window1, window2}
  Call = {1, 2}
  MaxTokens = 3
  User = {user1, user2}
  Email = {email1, email2}
  Company = {company1}
  Nobody = Nobody
  Handler = {handler1, handler2}
  Address = {address1, address2}
  NewOne = NewOne
  Request = {request1, request2}
  Operator = {operator1, operator2}
  Trial = 1
  Extension = {1}
  LastTrialDay = 1
  MaxTrialEnd = 3
  MaxPayer = 1
  MaxEvents = 2
  Member <- TwoMembers
  RoleOf <- TheirRoles
  MaxOnHand = 2
  Minimum = 1
  NoRule = NoRule
  Tenant = {tenant1, tenant2}
  Article = {article1, article2}
  Reordered = {article1}
  Shelf = {shelf1, shelf2}
  DefaultShelf = shelf1
  ChartDays = 2
  ReorderPoint = 1
  TargetStock = 2
  LastSalesDay = 3
  MaxUnits = 2
  MaxUnplanned = 2
SPECIFICATION OfficeSpec
CHECK_DEADLOCK FALSE
INVARIANTS
  MoneyIsSound
  ReviewIsComplete
  ExpenseHasOneEntry
  ButtonsWork
  OutdatedButtonsAreRefused
  NeverStranded
  RestoreNeverCollides
  ListsAgreeOnRoles
  NoFalseEmptyList
  FormsSaveTheirOwn
  RefusedForAReason
  CarriedOutOnce
  AdminRemains
  TwoDefaultsTakeTwoRequests
  ExtensionsAllCount
  OverdueToldOnce
  RulesCanFire
  BreakdownsAgree
  NeverOverstocked
PROPERTY GoodsArePaidFor
