SPECIFICATION Spec
CONSTANTS
  Scans = {s1}
  Payments = {p1, p2}
  Runs = {r1}
  NoPayment = NoPayment
  NoRun = NoRun
  DetectsDuplicates = TRUE
  FaultBudget = 2
  CartsInTransit = 1
  ReloadBudget = 1
SYMMETRY Symmetry
INVARIANTS
  QueueIsPersisted
  NoSilentLoss
  CartPaidTwiceHasCause
PROPERTIES
  ImplementsPaymentLife
