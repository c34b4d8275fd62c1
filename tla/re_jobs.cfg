SPECIFICATION FairSpec
CONSTANTS
  asked = asked
  daily = daily
  Reports <- MCReports
  Daily <- MCDaily
  Requests = {c1, c2}
  Passes = {p1, p2}
  Addresses = {a1, a2}
  Nobody = Nobody
  NoReport = NoReport
  Batch = 2
  RequestBudget = 4
  FaultBudget = 1
CHECK_DEADLOCK FALSE
INVARIANTS
  TypeOK
  OneWorkerPerReport
  ReadyIsAnnounced
PROPERTIES
  ImplementsReportJob
  WaitingEnds
