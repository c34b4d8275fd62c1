SPECIFICATION Spec
CONSTANTS
  Orders = {o1}
  Updates = {u1, u2}
  KitchenOrders = {o1}
  Load <- MCLoad
  Capacity <- MCCapacity
  NoOrder = NoOrder
  Credits = {}
  TaskEdits = {"DONE"}
  DriveEdits = {"EN_ROUTE"}
  UpdateBudget = 5
  MishapBudget = 1
CHECK_DEADLOCK FALSE
SYMMETRY Symmetry
INVARIANTS
  TypeOK
  WorkFollowsStatus
  HistoryIsPath
PROPERTIES
  StatusStepsAreAllowed
