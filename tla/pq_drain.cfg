SPECIFICATION FairSpec
CONSTANTS
  Scans = {s1}
  Payments = {p1, p2}
  Runs = {r1}
  NoPayment = NoPayment
  NoRun = NoRun
  DetectsDuplicates = FALSE
  FaultBudget = 2
  CartsInTransit = 0
  ReloadBudget = 0
PROPERTIES
  QueueDrains
