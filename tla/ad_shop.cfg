SPECIFICATION Spec
CONSTANTS
  d1 = d1
  d2 = d2
  d3 = d3
  d4 = d4
  p1 = p1
  p2 = p2
  c1 = c1
  c2 = c2
  c3 = c3
  q1 = q1
  q2 = q2
  q3 = q3
  i1 = i1
  u1 = u1
  a1 = a1
  a2 = a2
  e1 = e1
  e2 = e2
  v1 = v1
  l1 = l1
  k1 = k1
  k2 = k2
  t1 = t1
  t2 = t2
  t3 = t3
  n3 = n3
  o1 = o1
  o2 = o2
  m1 = m1
  m2 = m2
  m3 = m3
  r1 = r1
  s2 = s2
  x1 = x1
  x2 = x2
  y1 = y1
  y2 = y2
  w1 = w1
  g1 = g1
  g2 = g2
  h1 = h1
  h2 = h2
  b1 = b1
  b2 = b2
  f1 = f1
  key1 = key1
  key2 = key2
  NoEan = NoEan
  Absent = Absent
  NoRow = NoRow
  NoDevice = NoDevice
  NoRegister = NoRegister
  Unknown = Unknown
  Requests <- MCRequests
  Deliveries <- MCDeliveries
  Planners <- MCPlanners
  Closers <- MCClosers
  Repricers <- MCRepricers
  Importers <- MCImporters
  Updaters <- MCUpdaters
  Skus <- MCSkus
  Eans <- MCEans
  Vendors <- MCVendors
  Lots <- MCLots
  Ean <- MCEan
  Payload <- MCPayload
  Catalog <- MCCatalog
  Vendor <- MCVendor
  Plan <- MCPlan
  Sheet <- MCSheet
  Count <- MCCount
  Offer <- MCOffer
  Timely <- MCTimely
  Edit <- MCEdit
  Registers <- MCRegisters
  Devices <- MCDevices
  Installers <- MCInstallers
  Openers <- MCOpeners
  Movers <- MCMovers
  Removers <- MCRemovers
  Scrappers <- MCScrappers
  About <- MCAbout
  Device <- MCDevice
  Flag <- MCFlag
  Keys <- MCKeys
  Roles <- MCRoles
  Users <- MCUsers
  RoleMakers <- MCRoleMakers
  Granters <- MCGranters
  UserMakers <- MCUserMakers
  Switchers <- MCSwitchers
  Assigners <- MCAssigners
  Subject <- MCSubject
  Wanted <- MCWanted
  Casts <- MCCasts
  Books <- MCClosers
CHECK_DEADLOCK FALSE
INVARIANTS
  TypeOK
  StockAccounted
  CountedStockHasCause
  PriceFollowsHistory
  SigningRegisterHasCause
  AuditTellsAccess
