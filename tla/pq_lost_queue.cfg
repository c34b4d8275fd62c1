SPECIFICATION Spec
CONSTANTS
  Scans = {s1}
  Payments = {p1}
  Runs = {r1}
  NoPayment = NoPayment
  NoRun = NoRun
  DetectsDuplicates = FALSE
  FaultBudget = 1
  CartsInTransit = 0
  ReloadBudget = 1
SYMMETRY Symmetry
INVARIANTS
  StoredQueueIsLoaded
