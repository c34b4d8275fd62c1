SPECIFICATION Spec
CONSTANTS
  o1 = o1
  p1 = p1
  p2 = p2
  s1 = s1
  r1 = r1
  r2 = r2
  d1 = d1
  w1 = w1
  q1 = q1
  x1 = x1
  z1 = z1
  z2 = z2
  f1 = f1
  f2 = f2
  NoSale = NoSale
  NoOrder = NoOrder
  Orders <- MCOrders
  Buyers <- MCPayments
  Payments <- MCPayments
  Refunds <- MCRefunds
  Simulations <- MCSimulations
  Adjustments <- MCAdjustments
  Withdrawals <- MCWithdrawals
  Readers <- MCReaders
  Closings <- MCClosings
  ZClosings <- MCZClosings
  DayStart <- MCDayStart
  Passes <- MCPasses
  Method <- MCMethod
  Amount <- MCAmount
  Tendered <- MCTendered
  Reference <- MCReference
  Mailed <- MCMailed
  Casts <- MCCasts
  MaxNow = 3
  MaxWolt = 2
CHECK_DEADLOCK FALSE
INVARIANTS
  TypeOK
  MissedOrderHasCause
  RefundedTwiceOverlapped
  TwoPapersHaveCause
  CountedOnce
  ClosingsMatchDrawer
  LatestSaleHasCause
PROPERTIES
  ImplementsSaleLedger
  RequestsEnd
