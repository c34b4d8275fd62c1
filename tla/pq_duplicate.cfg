SPECIFICATION Spec
CONSTANTS
  Scans = {s1}
  Payments = {p1}
  Runs = {r1, r2}
  NoPayment = NoPayment
  NoRun = NoRun
  DetectsDuplicates = FALSE
  FaultBudget = 1
  CartsInTransit = 0
  ReloadBudget = 0
SYMMETRY Symmetry
INVARIANTS
  AtMostOneSale
