SPECIFICATION Spec
CONSTANTS
  Scans = {s1, s2}
  Payments = {p1, p2}
  Runs = {r1, r2}
  NoPayment = NoPayment
  NoRun = NoRun
  DetectsDuplicates = FALSE
  FaultBudget = 2
  CartsInTransit = 0
  ReloadBudget = 0
SYMMETRY Symmetry
INVARIANTS
  TypeOK
  AgreementAtRest
  DuplicateSaleHasCause
