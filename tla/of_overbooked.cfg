SPECIFICATION Spec
CONSTANTS
  Orders = {o1, o2}
  Updates = {u1}
  KitchenOrders = {o1}
  Load <- MCLoad
  Capacity <- MCCapacity
  NoOrder = NoOrder
  Credits = {}
  TaskEdits = {"DONE"}
  DriveEdits = {"EN_ROUTE"}
  UpdateBudget = 0
  MishapBudget = 0
CHECK_DEADLOCK FALSE
INVARIANTS
  SlotNeverOverbooked
