SPECIFICATION Spec
CONSTANTS
  None = None
  t1 = t1
  t2 = t2
  o1 = o1
  o2 = o2
  b1 = b1
  s1 = s1
  k1 = k1
  d1 = d1
  l1 = l1
  MaxOps = 6
  Tenants = {t1, t2}
  SeededTenants = {t1}
  Outlets = {o1, o2}
  Brands = {b1}
  Stations = {s1}
  OrderIds = {1, 2, 3}
  TicketIds = {k1}
  Devices = {d1}
  Lines = {l1}
  PageLimit = 1
  Tables = {1, 2}
  Sessions = {1, 2}
  Registers = {"front"}
  Shifts = {1, 2}
  Items = {"idli", "tea"}
  Catalog <- MCCatalog
  Bills = {1, 2}
  PlacedBills <- MCPlaced
  TenderIds = {1, 2, 3}
  TokenNames = {"A01"}
  MaxAmount = 2
  MaxOpen = 2
  UnitIds = {"g", "kg", "pc"}
  IngredientIds = {"rice", "batter", "egg"}
  RecipeIds = {"r1", "r2"}
  VersionIds = {"v1", "v2", "v3"}
  MenuItemIds = {"m1"}
  KnownUnits <- MCUnits
  KnownIngredients <- MCIngredients
  KnownVersions <- MCVersions
  MaxDate = 3
  Sites = {"s1", "s2"}
  TransferIds = {"x1"}
  BatchIds = {"b1"}
  OpeningStock <- MCOpening
  MaxQuantity = 2
  SupplierIds = {"mill"}
  PurchaseIds = {"p1"}
  ChecklistIds = {"c1"}
  ChecklistItems <- MCChecklistItems
  StaffIds = {"ana"}
  RosterIds = {"r1"}
  TaskIds = {"k1"}
  GuestIds = {1, 2}
  ReservationIds = {"v1"}
  PromotionIds = {"p1"}
  Phones = {"98"}
  MaxPoints = 2
  MaxToday = 2
  CaseIds = {"c1"}
  Assignees = {"ana", "ben"}
  Resolutions = {"fixed", "ignored"}
  SnapshotIds = {"n1", "n2"}
  IncidentIds = {"i1"}
  ManifestIds = {"m1"}
  DrillIds = {"d1"}
  Shops = {"a", "b"}
  ShopOrders <- MCShopOrders
  ChannelIds = {1, 2}
  ConnectorIds = {1, 2}
  EntryIds = {1}
  ExternalIds = {"x1"}
  LinkIds = {1, 2}
  Slugs = {"qr", "web"}
  KnownChannels <- MCChannels
  KnownConnectors <- MCConnectors
  KnownLinks <- MCLinks
  StationIds = {"hot"}
  MaxDeciding = 2
  MaxClock = 5
  ItemShop <- MCItemShop
  StudioIds = {"q1"}
  MenuVersionIds = {1, 2}
  PublicationIds = {1, 2}
  RequestIds = {"w1"}
  MaxSubmitting = 2
INVARIANT
  NeverOverpaid
SYMMETRY Symmetry
CHECK_DEADLOCK FALSE
