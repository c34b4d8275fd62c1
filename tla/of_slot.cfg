SPECIFICATION Spec
CONSTANTS
  Orders = {o1, o2, o3}
  Updates = {u1, u2}
  KitchenOrders = {}
  Load <- MCLoad
  Capacity <- MCCapacity
  NoOrder = NoOrder
  Credits = {o3}
  TaskEdits = {"DONE"}
  DriveEdits = {"EN_ROUTE"}
  UpdateBudget = 2
  MishapBudget = 0
CHECK_DEADLOCK FALSE
SYMMETRY Symmetry
CONSTRAINT SlotOnly
INVARIANTS
  OverbookingHasCause
