------------------------ MODULE OrderFulfilmentProofs ------------------------
(***************************************************************************)
(* Proofs about OrderFulfilment, for any number of orders, of overlapping  *)
(* updates, of failures and of edits, and any loads and capacities: types  *)
(* and statuses, slots and feedback first, then the work that follows an   *)
(* order's status, its tasks, its driver and its history.                  *)
(***************************************************************************)
EXTENDS OrderFulfilment, FiniteSetTheorems, SumTheorems, TLAPS

-----------------------------------------------------------------------------
(* The tables of statuses *)

LEMMA AllowedFacts ==
  /\ \A s : Allowed(s) \subseteq OrderStatus
  /\ \A s : Allowed(s) # {} => s \in OrderStatus \ Final
  BY DEF Allowed, OrderStatus, Final

LEMMA WorkStatusFacts ==
  /\ \A s : TaskStatusFor(s) \in TaskStatus \cup {"none"}
  /\ \A s : DriveStatusFor(s) \in DriveStatus \cup {"none"}
  BY DEF TaskStatusFor, DriveStatusFor, TaskStatus, DriveStatus

-----------------------------------------------------------------------------
(* Type correctness *)

UpdateRecord == [pc : UpdatePhases, order : Orders \cup {NoOrder}, to : OrderStatus]

LEMMA IdleUpdateType == IdleUpdate \in UpdateRecord /\ IdleUpdate.pc = "idle"
  BY DEF IdleUpdate, UpdateRecord, UpdatePhases, OrderStatus

\* A request that is being served has an order, and that order is stored.
BusyShape ==
  \A u \in Updates : update[u].pc # "idle" =>
    update[u].order \in Orders /\ status[update[u].order] # "none"

TypeInv == TypeOK /\ BusyShape

\* What Goto and Finish do to the type of the requests.
LEMMA GotoType ==
  ASSUME update \in [Updates -> UpdateRecord], NEW u \in Updates,
         NEW pc \in UpdatePhases, Goto(u, pc)
  PROVE  /\ update' \in [Updates -> UpdateRecord]
         /\ update'[u].pc = pc /\ update'[u].order = update[u].order
         /\ update'[u].to = update[u].to
         /\ \A v \in Updates \ {u} : update'[v] = update[v]
  BY DEF Goto, UpdateRecord

LEMMA FinishType ==
  ASSUME update \in [Updates -> UpdateRecord], NEW u \in Updates, Finish(u)
  PROVE  /\ update' \in [Updates -> UpdateRecord]
         /\ update'[u].pc = "idle"
         /\ \A v \in Updates \ {u} : update'[v] = update[v]
  BY IdleUpdateType DEF Finish

LEMMA AfterNoticeType ==
  ASSUME update \in [Updates -> UpdateRecord], NEW u \in Updates, AfterNotice(u)
  PROVE  /\ update' \in [Updates -> UpdateRecord]
         /\ \/ update'[u].pc = "idle"
            \/ /\ update'[u].pc = "requesting"
               /\ update'[u].order = update[u].order
               /\ update'[u].to = update[u].to /\ update[u].to = "DELIVERED"
         /\ \A v \in Updates \ {u} : update'[v] = update[v]
  <1>1. CASE update[u].to = "DELIVERED"
    <2>1. Goto(u, "requesting") BY <1>1 DEF AfterNotice
    <2>2. "requesting" \in UpdatePhases BY DEF UpdatePhases
    <2>. QED BY <1>1, <2>1, <2>2, GotoType
  <1>2. CASE update[u].to # "DELIVERED"
    <2>1. Finish(u) BY <1>2 DEF AfterNotice
    <2>. QED BY <2>1, FinishType
  <1>. QED BY <1>1, <1>2

\* A request that goes on or ends keeps the shape of all of them.
LEMMA ShapeKept ==
  ASSUME update \in [Updates -> UpdateRecord], BusyShape, NEW u \in Updates,
         update[u].pc # "idle",
         \/ \E pc \in UpdatePhases : Goto(u, pc)
         \/ Finish(u) \/ AfterNotice(u),
         \A o \in Orders : status[o] # "none" => status'[o] # "none"
  PROVE  update' \in [Updates -> UpdateRecord] /\ BusyShape'
  <1>1. ASSUME NEW pc \in UpdatePhases, Goto(u, pc)
        PROVE  update' \in [Updates -> UpdateRecord] /\ BusyShape'
    BY <1>1, GotoType DEF BusyShape
  <1>2. CASE Finish(u)
    BY <1>2, FinishType DEF BusyShape
  <1>3. CASE AfterNotice(u)
    BY <1>3, AfterNoticeType DEF BusyShape
  <1>. QED
    BY <1>1, <1>2, <1>3

\* A request of the given shape replaces the one of u.
LEMMA StartType ==
  ASSUME update \in [Updates -> UpdateRecord], NEW u \in Updates,
         NEW o \in Orders, NEW to \in OrderStatus,
         update' = [update EXCEPT ![u] = [pc |-> "writing", order |-> o, to |-> to]]
  PROVE  /\ update' \in [Updates -> UpdateRecord]
         /\ update'[u].pc = "writing" /\ update'[u].order = o /\ update'[u].to = to
         /\ \A v \in Updates \ {u} : update'[v] = update[v]
  BY DEF UpdateRecord, UpdatePhases

LEMMA InitType == Init => TypeInv
  <1>. SUFFICES ASSUME Init PROVE TypeInv
    OBVIOUS
  <1>1. update \in [Updates -> UpdateRecord] /\ BusyShape
    BY IdleUpdateType DEF Init, BusyShape
  <1>2. events \in [Orders -> Seq(OrderStatus)]
    BY DEF Init
  <1>3. tasks \in [Orders -> [TaskType -> TaskStatus \cup {"none"}]]
    BY DEF Init
  <1>4. create \in [Orders -> CreatePhases] /\ inserts \in [Orders -> SUBSET TaskType]
    BY DEF Init, CreatePhases
  <1>5. status \in [Orders -> OrderStatus \cup {"none"}]
        /\ drive \in [Orders -> DriveStatus \cup {"none"}]
    BY DEF Init
  <1>. QED
    BY <1>1, <1>2, <1>3, <1>4, <1>5 DEF Init, TypeInv, TypeOK, UpdateRecord

LEMMA CreateStepType ==
  ASSUME TypeInv, NEW o \in Orders,
         ReserveCapacity(o) \/ RefuseStock(o) \/ CreateStep(o) \/ CreateFails(o)
         \/ Visit(o) \/ VisitInserts(o)
  PROVE  TypeInv'
  <1>. USE DEF TypeInv, TypeOK, BusyShape, rowVars, boundVars, histVars
  <1>1. CASE ReserveCapacity(o)
    BY <1>1 DEF ReserveCapacity, CreatePhases
  <1>2. CASE RefuseStock(o)
    BY <1>2 DEF RefuseStock, CreatePhases
  <1>3. CASE StoreOrder(o)
    <2>1. TaskTypes(o) \subseteq TaskType
      BY DEF TaskTypes, TaskType
    <2>. QED
      BY <1>3, <2>1 DEF StoreOrder, CreatePhases, OrderStatus
  <1>4. ASSUME NEW t \in TaskType, CreateTask(o, t) PROVE TypeInv'
    BY <1>4 DEF CreateTask, CreatePhases, TaskStatus
  <1>5. CASE EnsureAssignment(o)
    BY <1>5 DEF EnsureAssignment, CreatePhases, DriveStatus
  <1>6. CASE PlanPreferred(o)
    BY <1>6 DEF PlanPreferred, CreatePhases, DriveStatus
  <1>7. CASE FindPreference(o)
    BY <1>7 DEF FindPreference, CreatePhases
  <1>8. CASE InsertPreference(o)
    <2>1. preference' \subseteq Orders /\ broken' \subseteq Orders
          /\ create' \in [Orders -> CreatePhases]
      BY <1>8 DEF InsertPreference, CreatePhases
    <2>. QED
      BY <1>8, <2>1 DEF InsertPreference
  <1>9. CASE RecordCreated(o)
    BY <1>9 DEF RecordCreated, CreatePhases, OrderStatus
  <1>10. CASE CreateFails(o)
    BY <1>10 DEF CreateFails, CreatePhases
  <1>11. CASE Visit(o)
    BY <1>11 DEF Visit
  <1>12. CASE VisitInserts(o)
    BY <1>12 DEF VisitInserts
  <1>. QED
    BY <1>1, <1>2, <1>3, <1>4, <1>5, <1>6, <1>7, <1>8, <1>9, <1>10, <1>11, <1>12
       DEF CreateStep

LEMMA UpdateStepType ==
  ASSUME TypeInv, NEW u \in Updates,
         \/ \E o \in Orders, to \in OrderStatus : StartUpdate(u, o, to)
         \/ UpdateStep(u) \/ UpdateFails(u)
  PROVE  TypeInv'
  <1>. USE DEF TypeInv, TypeOK, BusyShape, rowVars, boundVars, histVars
  <1>. update \in [Updates -> UpdateRecord]
    BY DEF UpdateRecord
  <1>a. {"idle", "kitchen", "dispatch", "recording", "notifying", "inserting",
         "requesting"} \subseteq UpdatePhases
    BY DEF UpdatePhases
  <1>1. ASSUME NEW o \in Orders, NEW to \in OrderStatus, StartUpdate(u, o, to)
        PROVE  TypeInv'
    <2>1. status[o] # "none"
      BY <1>1, AllowedFacts DEF StartUpdate, OrderStatus
    <2>2. update' \in [Updates -> UpdateRecord] /\ BusyShape'
      BY <1>1, <2>1, StartType DEF StartUpdate
    <2>3. early' \subseteq Orders /\ crossed' \subseteq Orders
      BY <1>1 DEF StartUpdate
    <2>. QED
      BY <1>1, <2>2, <2>3 DEF StartUpdate, UpdateRecord
  <1>2. CASE WriteStatus(u)
    <2>1. Goto(u, "kitchen") BY <1>2 DEF WriteStatus
    <2>2. update[u].order \in Orders /\ update[u].to \in OrderStatus
      BY <1>2 DEF WriteStatus
    <2>3. status' \in [Orders -> OrderStatus \cup {"none"}]
          /\ \A o \in Orders : status[o] # "none" => status'[o] # "none"
      BY <1>2, <2>2 DEF WriteStatus, OrderStatus
    <2>4. update' \in [Updates -> UpdateRecord] /\ BusyShape'
      BY <1>2, <2>1, <2>3, <1>a, ShapeKept DEF WriteStatus
    <2>. QED
      BY <1>2, <2>3, <2>4 DEF WriteStatus, UpdateRecord
  <1>3. CASE KitchenFollows(u)
    <2>1. Goto(u, "dispatch") BY <1>3 DEF KitchenFollows
    <2>2. tasks' \in [Orders -> [TaskType -> TaskStatus \cup {"none"}]]
      BY <1>3, WorkStatusFacts DEF KitchenFollows
    <2>3. update' \in [Updates -> UpdateRecord] /\ BusyShape'
      BY <1>3, <2>1, <1>a, ShapeKept DEF KitchenFollows
    <2>. QED
      BY <1>3, <2>2, <2>3 DEF KitchenFollows, UpdateRecord
  <1>4. CASE DispatchFollows(u)
    <2>1. Goto(u, "recording") BY <1>4 DEF DispatchFollows
    <2>2. drive' \in [Orders -> DriveStatus \cup {"none"}]
      BY <1>4, WorkStatusFacts DEF DispatchFollows
    <2>3. update' \in [Updates -> UpdateRecord] /\ BusyShape'
      BY <1>4, <2>1, <1>a, ShapeKept DEF DispatchFollows
    <2>. QED
      BY <1>4, <2>2, <2>3 DEF DispatchFollows, UpdateRecord
  <1>5. CASE RecordStatus(u)
    <2>1. Goto(u, "notifying") BY <1>5 DEF RecordStatus
    <2>2. events' \in [Orders -> Seq(OrderStatus)]
      BY <1>5 DEF RecordStatus
    <2>3. update' \in [Updates -> UpdateRecord] /\ BusyShape'
      BY <1>5, <2>1, <1>a, ShapeKept DEF RecordStatus
    <2>. QED
      BY <1>5, <2>2, <2>3 DEF RecordStatus, UpdateRecord
  <1>6. CASE Notify(u)
    <2>1. AfterNotice(u) \/ Goto(u, "inserting") BY <1>6 DEF Notify
    <2>2. update' \in [Updates -> UpdateRecord] /\ BusyShape'
      BY <1>6, <2>1, <1>a, ShapeKept DEF Notify
    <2>. QED
      BY <1>6, <2>2 DEF Notify, UpdateRecord
  <1>7. CASE NotifyInserting(u)
    <2>1. AfterNotice(u) \/ Finish(u) BY <1>7 DEF NotifyInserting
    <2>2. update[u].order \in Orders BY <1>7 DEF NotifyInserting
    <2>3. update' \in [Updates -> UpdateRecord] /\ BusyShape'
      BY <1>7, <2>1, ShapeKept DEF NotifyInserting
    <2>4. preference' \subseteq Orders /\ broken' \subseteq Orders
      BY <1>7, <2>2 DEF NotifyInserting
    <2>. QED
      BY <1>7, <2>3, <2>4 DEF NotifyInserting, UpdateRecord
  <1>8. CASE RequestFeedback(u)
    <2>1. Finish(u) /\ update[u].order \in Orders BY <1>8 DEF RequestFeedback
    <2>. QED
      BY <1>8, <2>1, FinishType DEF RequestFeedback, UpdateRecord
  <1>9. CASE UpdateFails(u)
    <2>1. Finish(u) /\ update[u].order \in Orders BY <1>9 DEF UpdateFails
    <2>. QED
      BY <1>9, <2>1, FinishType DEF UpdateFails, UpdateRecord
  <1>. QED
    BY <1>1, <1>2, <1>3, <1>4, <1>5, <1>6, <1>7, <1>8, <1>9 DEF UpdateStep

LEMMA StaffType ==
  ASSUME TypeInv, Staff
  PROVE  TypeInv'
  <1>. USE SlotAssumption DEF TypeInv, TypeOK, BusyShape, pcVars
  <1>1. ASSUME NEW o \in Orders, NEW t \in TaskType, NEW s \in TaskEdits,
               UpdateTaskStatus(o, t, s)
        PROVE  TypeInv'
    BY <1>1 DEF UpdateTaskStatus, Edit, SlotAssumption
  <1>2. ASSUME NEW o \in Orders, NEW s \in DriveEdits, UpdateAssignmentStatus(o, s)
        PROVE  TypeInv'
    BY <1>2 DEF UpdateAssignmentStatus, Edit, SlotAssumption
  <1>3. ASSUME NEW o \in Orders, PlanDriver(o) PROVE TypeInv'
    BY <1>3 DEF PlanDriver, Edit, DriveStatus
  <1>. QED
    BY <1>1, <1>2, <1>3 DEF Staff

LEMMA TypeStep == TypeInv /\ [Next]_vars => TypeInv'
  <1>. SUFFICES ASSUME TypeInv, [Next]_vars PROVE TypeInv'
    OBVIOUS
  <1>1. CASE UNCHANGED vars
    BY <1>1 DEF vars, rowVars, pcVars, boundVars, histVars, TypeInv, TypeOK, BusyShape
  <1>. QED
    BY <1>1, CreateStepType, UpdateStepType, StaffType DEF Next

\* Every variable keeps to its type, and a request that is being served has a
\* stored order: nothing in the fan-out of an update works on a missing row.
THEOREM TypeCorrect == Spec => []TypeOK
  <1>1. TypeInv => TypeOK BY DEF TypeInv
  <1>. QED BY <1>1, InitType, TypeStep, PTL DEF Spec

-----------------------------------------------------------------------------
(* The status of an order and the requests that change it *)

Busy(u, o) == update[u].pc # "idle" /\ update[u].order = o

\* An order nobody has stored yet has no status and no work.
Unstored ==
  \A o \in Orders : create[o] \in {"unused", "admitted"} =>
    /\ status[o] = "none" /\ inserts[o] = {}
    /\ \A t \in TaskType : tasks[o][t] = "none"

\* Where updates do not overlap there is one request for an order, ...
Alone ==
  \A u, v \in Updates, o \in Orders \ crossed : Busy(u, o) /\ Busy(v, o) => u = v

\* ... and what it is about to write, or has written, fits the order's status.
Linked ==
  \A u \in Updates, o \in Orders \ crossed : Busy(u, o) =>
    IF update[u].pc = "writing" THEN update[u].to \in Allowed(status[o])
                                ELSE update[u].to = status[o]

StatusInv == Unstored /\ Alone /\ Linked

\* What a step of u leaves of the other requests.
OthersKept(u) == \A v \in Updates \ {u} : update'[v] = update[v]

LEMMA StatusInit == Init => StatusInv
  BY IdleUpdateType DEF Init, StatusInv, Unstored, Alone, Linked, Busy

\* A step that starts no request and writes no status.
LEMMA StatusFrame ==
  ASSUME TypeInv, StatusInv, status' = status, crossed \subseteq crossed',
         \A u \in Updates :
           \/ update'[u] = update[u]
           \/ update'[u].pc = "idle"
           \/ /\ update[u].pc \notin {"idle", "writing"}
              /\ update'[u].pc \notin {"idle", "writing"}
              /\ update'[u].order = update[u].order /\ update'[u].to = update[u].to,
         Unstored'
  PROVE  StatusInv'
  <1>1. \A u \in Updates, o \in Orders : Busy(u, o)' => Busy(u, o)
    BY DEF Busy
  <1>2. Alone'
    BY <1>1 DEF StatusInv, Alone
  <1>3. Linked'
    <2>1. SUFFICES ASSUME NEW u \in Updates, NEW o \in Orders \ crossed', Busy(u, o)'
                   PROVE  IF update'[u].pc = "writing"
                            THEN update'[u].to \in Allowed(status[o])
                            ELSE update'[u].to = status[o]
      BY DEF Linked
    <2>2. Busy(u, o) /\ o \in Orders \ crossed
      BY <1>1, <2>1
    <2>3. IF update[u].pc = "writing" THEN update[u].to \in Allowed(status[o])
                                      ELSE update[u].to = status[o]
      BY <2>2 DEF StatusInv, Linked
    <2>. QED
      BY <2>1, <2>3 DEF Busy
  <1>. QED
    BY <1>2, <1>3 DEF StatusInv

LEMMA CreateStepStatus ==
  ASSUME TypeInv, StatusInv, NEW o \in Orders,
         ReserveCapacity(o) \/ RefuseStock(o) \/ CreateStep(o) \/ CreateFails(o)
         \/ Visit(o) \/ VisitInserts(o)
  PROVE  StatusInv'
  <1>. USE DEF rowVars, boundVars, histVars
  <1>a. /\ create \in [Orders -> CreatePhases]
        /\ inserts \in [Orders -> SUBSET TaskType]
        /\ tasks \in [Orders -> [TaskType -> TaskStatus \cup {"none"}]]
    BY DEF TypeInv, TypeOK
  <1>u. Unstored
    BY DEF StatusInv
  <1>1. CASE StoreOrder(o)
    <2>1. Unstored'
      BY <1>1, <1>a, <1>u DEF StoreOrder, Unstored
    <2>2. update' = update /\ crossed' = crossed
      BY <1>1 DEF StoreOrder
    <2>3. status[o] = "none" /\ \A p \in Orders \ {o} : status'[p] = status[p]
      BY <1>1, <1>u DEF StoreOrder, Unstored, TypeInv, TypeOK
    <2>4. \A u \in Updates : ~ Busy(u, o)
      BY <2>3 DEF TypeInv, BusyShape, Busy
    <2>. QED
      BY <2>1, <2>2, <2>3, <2>4 DEF StatusInv, Alone, Linked, Busy
  <1>2. CASE ~ StoreOrder(o)
    <2>1. status' = status /\ update' = update /\ crossed' = crossed
      BY <1>2 DEF ReserveCapacity, RefuseStock, CreateStep, CreateTask,
         EnsureAssignment, PlanPreferred, FindPreference, InsertPreference,
         RecordCreated, CreateFails, Visit, VisitInserts
    <2>2. Unstored'
      <3>1. CASE ReserveCapacity(o) \/ RefuseStock(o)
        BY <3>1, <1>a, <1>u DEF ReserveCapacity, RefuseStock, Unstored
      <3>2. ASSUME NEW t \in TaskType, CreateTask(o, t) PROVE Unstored'
        <4>1. inserts[o] # {} BY <3>2 DEF CreateTask
        <4>2. create[o] \notin {"unused", "admitted"} BY <4>1, <1>u DEF Unstored
        <4>. QED BY <3>2, <4>2, <1>a, <1>u DEF CreateTask, Unstored
      <3>3. CASE EnsureAssignment(o) \/ PlanPreferred(o) \/ FindPreference(o)
                 \/ InsertPreference(o) \/ RecordCreated(o)
        BY <3>3, <1>a, <1>u DEF EnsureAssignment, PlanPreferred, FindPreference,
           InsertPreference, RecordCreated, Unstored
      <3>4. CASE CreateFails(o)
        BY <3>4, <1>a, <1>u DEF CreateFails, Unstored
      <3>5. CASE Visit(o) \/ VisitInserts(o)
        BY <3>5, <1>u DEF Visit, VisitInserts, Unstored
      <3>. QED
        BY <1>2, <3>1, <3>2, <3>3, <3>4, <3>5 DEF CreateStep
    <2>. QED
      BY <2>1, <2>2, StatusFrame
  <1>. QED
    BY <1>1, <1>2

LEMMA UpdateStepStatus ==
  ASSUME TypeInv, StatusInv, NEW u \in Updates,
         \/ \E o \in Orders, to \in OrderStatus : StartUpdate(u, o, to)
         \/ UpdateStep(u) \/ UpdateFails(u)
  PROVE  StatusInv'
  <1>. USE DEF rowVars, boundVars, histVars
  <1>t. update \in [Updates -> UpdateRecord] /\ BusyShape
    BY DEF TypeInv, TypeOK, UpdateRecord
  <1>a. {"idle", "kitchen", "dispatch", "recording", "notifying", "inserting",
         "requesting"} \subseteq UpdatePhases
    BY DEF UpdatePhases
  <1>u. Unstored
    BY DEF StatusInv
  <1>1. ASSUME NEW o \in Orders, NEW to \in OrderStatus, StartUpdate(u, o, to)
        PROVE  StatusInv'
    <2>1. /\ update'[u].pc = "writing" /\ update'[u].order = o /\ update'[u].to = to
          /\ OthersKept(u) /\ update[u].pc = "idle"
      BY <1>1, <1>t, StartType DEF StartUpdate, OthersKept
    <2>2. status' = status /\ Unstored' /\ to \in Allowed(status[o])
      BY <1>1, <1>u DEF StartUpdate, Unstored
    <2>3. /\ crossed \subseteq crossed'
          /\ o \notin crossed' => \A v \in Updates : ~ Busy(v, o)
      BY <1>1 DEF StartUpdate, UpdatesOf, Busy
    <2>4. \A v \in Updates \ {u}, p \in Orders : Busy(v, p)' <=> Busy(v, p)
      BY <2>1 DEF Busy, OthersKept
    <2>5. \A p \in Orders : Busy(u, p)' <=> p = o
      BY <2>1 DEF Busy
    <2>6. Alone'
      BY <2>3, <2>4, <2>5 DEF Alone, StatusInv
    <2>7. Linked'
      BY <2>1, <2>2, <2>3, <2>4, <2>5 DEF Linked, StatusInv, OthersKept
    <2>. QED
      BY <2>2, <2>6, <2>7 DEF StatusInv
  <1>2. CASE WriteStatus(u)
    <2>. DEFINE o == update[u].order
    <2>1. o \in Orders /\ status[o] # "none" /\ update[u].pc = "writing"
      BY <1>2, <1>t DEF WriteStatus, BusyShape
    <2>2. /\ update'[u].pc = "kitchen" /\ update'[u].order = o
          /\ update'[u].to = update[u].to /\ OthersKept(u)
      BY <1>2, <1>t, <1>a, GotoType DEF WriteStatus, OthersKept
    <2>3. /\ status'[o] = update[u].to
          /\ \A p \in Orders \ {o} : status'[p] = status[p]
          /\ crossed' = crossed
      BY <1>2, <2>1 DEF WriteStatus, TypeInv, TypeOK
    <2>4. Unstored'
      BY <1>2, <1>u, <2>1, <2>3 DEF WriteStatus, Unstored
    <2>5. \A v \in Updates, p \in Orders : Busy(v, p)' <=> Busy(v, p)
      BY <2>1, <2>2 DEF Busy, OthersKept
    <2>6. Alone'
      BY <2>3, <2>5 DEF Alone, StatusInv
    <2>7. Linked'
      <3>1. SUFFICES ASSUME NEW v \in Updates, NEW p \in Orders \ crossed, Busy(v, p)
                     PROVE  IF update'[v].pc = "writing"
                              THEN update'[v].to \in Allowed(status'[p])
                              ELSE update'[v].to = status'[p]
        BY <2>3, <2>5 DEF Linked
      <3>2. CASE v = u
        BY <3>1, <3>2, <2>2, <2>3 DEF Busy
      <3>3. CASE v # u
        <4>1. p # o
          BY <3>1, <3>3, <2>1 DEF Alone, StatusInv, Busy
        <4>2. IF update[v].pc = "writing" THEN update[v].to \in Allowed(status[p])
                                          ELSE update[v].to = status[p]
          BY <3>1 DEF Linked, StatusInv
        <4>. QED
          BY <3>3, <4>1, <4>2, <2>2, <2>3 DEF OthersKept
      <3>. QED
        BY <3>2, <3>3
    <2>. QED
      BY <2>4, <2>6, <2>7 DEF StatusInv
  <1>3. CASE KitchenFollows(u)
    <2>1. Goto(u, "dispatch") /\ update[u].pc = "kitchen" /\ update[u].order \in Orders
      BY <1>3, <1>t DEF KitchenFollows, BusyShape
    <2>2. Unstored'
      BY <1>3, <2>1, <1>u, <1>t DEF KitchenFollows, Unstored, BusyShape, TypeInv, TypeOK
    <2>. QED
      BY <1>3, <2>1, <2>2, <1>t, <1>a, GotoType, StatusFrame DEF KitchenFollows
  <1>4. CASE DispatchFollows(u) \/ RecordStatus(u)
    <2>1. /\ Goto(u, "recording") \/ Goto(u, "notifying")
          /\ update[u].pc \in {"dispatch", "recording"}
          /\ status' = status /\ crossed' = crossed
      BY <1>4 DEF DispatchFollows, RecordStatus
    <2>2. Unstored'
      BY <1>4, <1>u DEF DispatchFollows, RecordStatus, Unstored
    <2>. QED
      BY <2>1, <2>2, <1>t, <1>a, GotoType, StatusFrame
  <1>5. CASE Notify(u) \/ NotifyInserting(u) \/ RequestFeedback(u) \/ UpdateFails(u)
    <2>1. /\ \/ (AfterNotice(u) \/ Goto(u, "inserting"))
                /\ update[u].pc \in {"notifying", "inserting"}
             \/ Finish(u)
          /\ status' = status /\ crossed' = crossed
      BY <1>5 DEF Notify, NotifyInserting, RequestFeedback, UpdateFails
    <2>2. Unstored'
      BY <1>5, <1>u DEF Notify, NotifyInserting, RequestFeedback, UpdateFails, Unstored
    <2>. QED
      BY <2>1, <2>2, <1>t, <1>a, GotoType, FinishType, AfterNoticeType, StatusFrame
  <1>. QED
    BY <1>1, <1>2, <1>3, <1>4, <1>5 DEF UpdateStep

LEMMA StaffStatus ==
  ASSUME TypeInv, StatusInv, Staff
  PROVE  StatusInv'
  <1>1. PICK o \in Orders :
          \/ \E t \in TaskType, s \in TaskEdits : UpdateTaskStatus(o, t, s)
          \/ \E s \in DriveEdits : UpdateAssignmentStatus(o, s)
          \/ PlanDriver(o)
    BY DEF Staff
  <1>2. status' = status /\ update' = update /\ crossed' = crossed
    BY <1>1 DEF UpdateTaskStatus, UpdateAssignmentStatus, PlanDriver, Edit, pcVars
  <1>3. create' = create /\ inserts' = inserts
    BY <1>1 DEF UpdateTaskStatus, UpdateAssignmentStatus, PlanDriver, Edit, pcVars
  <1>4. Unstored'
    <2>1. CASE tasks' = tasks
      BY <2>1, <1>2, <1>3 DEF Unstored, StatusInv
    <2>2. ASSUME NEW t \in TaskType, NEW s \in TaskEdits, UpdateTaskStatus(o, t, s)
          PROVE  Unstored'
      <3>1. tasks[o][t] # "none" /\ \A p \in Orders \ {o} : tasks'[p] = tasks[p]
        BY <2>2 DEF UpdateTaskStatus, TypeInv, TypeOK
      <3>2. create[o] \notin {"unused", "admitted"}
        BY <3>1 DEF Unstored, StatusInv
      <3>. QED
        BY <3>1, <3>2, <1>2, <1>3 DEF Unstored, StatusInv
    <2>. QED
      BY <1>1, <2>1, <2>2 DEF UpdateAssignmentStatus, PlanDriver
  <1>. QED
    BY <1>2, <1>4, StatusFrame

LEMMA StatusStep == TypeInv /\ StatusInv /\ [Next]_vars => StatusInv'
  <1>. SUFFICES ASSUME TypeInv, StatusInv, [Next]_vars PROVE StatusInv'
    OBVIOUS
  <1>1. CASE UNCHANGED vars
    BY <1>1 DEF vars, rowVars, pcVars, boundVars, histVars, StatusInv, Unstored,
       Alone, Linked, Busy
  <1>. QED
    BY <1>1, CreateStepStatus, UpdateStepStatus, StaffStatus DEF Next

\* Only WriteStatus changes the status of a stored order.
LEMMA StatusStepAllowed ==
  ASSUME TypeInv, StatusInv, [Next]_vars, NEW o \in Orders,
         status'[o] # status[o], status[o] # "none"
  PROVE  status'[o] \in Allowed(status[o]) \/ o \in crossed
  <1>. USE DEF rowVars, boundVars, histVars
  <1>1. ASSUME NEW p \in Orders,
               ReserveCapacity(p) \/ RefuseStock(p) \/ CreateStep(p)
               \/ CreateFails(p) \/ Visit(p) \/ VisitInserts(p)
        PROVE  FALSE
    <2>1. CASE StoreOrder(p)
      BY <2>1 DEF StoreOrder, StatusInv, Unstored, TypeInv, TypeOK
    <2>2. CASE ~ StoreOrder(p)
      BY <1>1, <2>2 DEF ReserveCapacity, RefuseStock, CreateStep, CreateTask,
         EnsureAssignment, PlanPreferred, FindPreference, InsertPreference,
         RecordCreated, CreateFails, Visit, VisitInserts
    <2>. QED BY <2>1, <2>2
  <1>2. ASSUME NEW u \in Updates,
               \/ \E p \in Orders, to \in OrderStatus : StartUpdate(u, p, to)
               \/ UpdateStep(u) \/ UpdateFails(u)
        PROVE  status'[o] \in Allowed(status[o]) \/ o \in crossed
    <2>1. CASE WriteStatus(u)
      <3>1. Busy(u, o) /\ status'[o] = update[u].to /\ update[u].pc = "writing"
        BY <2>1 DEF WriteStatus, Busy, TypeInv, TypeOK
      <3>. QED
        BY <3>1 DEF StatusInv, Linked
    <2>2. CASE ~ WriteStatus(u)
      BY <1>2, <2>2 DEF StartUpdate, UpdateStep, KitchenFollows, DispatchFollows,
         RecordStatus, Notify, NotifyInserting, RequestFeedback, UpdateFails
    <2>. QED BY <2>1, <2>2
  <1>3. CASE Staff
    BY <1>3 DEF Staff, UpdateTaskStatus, UpdateAssignmentStatus, PlanDriver, Edit
  <1>4. CASE UNCHANGED vars
    BY <1>4 DEF vars
  <1>. QED
    BY <1>1, <1>2, <1>3, <1>4 DEF Next

\* An order's status only takes the steps of ORDER_TRANSITIONS, unless two of
\* its updates overlap: the look-up before the write is enough for one request.
THEOREM StatusSteps == Spec => StatusStepsAreAllowed
  <1>1. Init => TypeInv /\ StatusInv
    BY InitType, StatusInit
  <1>2. TypeInv /\ StatusInv /\ [Next]_vars => (TypeInv /\ StatusInv)'
    BY TypeStep, StatusStep
  <1>3. TypeInv /\ StatusInv /\ [Next]_vars =>
          [\A o \in Orders :
             status'[o] # status[o] /\ status[o] # "none"
               => status'[o] \in Allowed(status[o]) \/ o \in crossed]_vars
    BY StatusStepAllowed
  <1>. QED
    BY <1>1, <1>2, <1>3, PTL DEF Spec, StatusStepsAreAllowed

-----------------------------------------------------------------------------
(* The capacity of the slot *)

LEMMA UsageIs ==
  ASSUME NEW S, IsFiniteSet(S), NEW res
  PROVE  Usage(S, res) = SumOf([o \in S |-> Load[o][res]], S)
  <1>. DEFINE LoadOf(o) == Load[o][res]
              f == [o \in S |-> LoadOf(o)]
              Eq(g) == g = [s \in SUBSET S |-> IF s = {} THEN 0 ELSE LoadOf(Pick(s)) + g[s \ {Pick(s)}]]
              I == CHOOSE g : Eq(g)
  <1>1. \A g : Eq(g) <=> Adds(g, f, S)
    <2>1. \A s \in SUBSET S : s # {} => f[Pick(s)] = LoadOf(Pick(s))
      BY DEF Pick
    <2>. QED
      BY <2>1 DEF Adds
  <1>2. Usage(S, res) = I[S]
    BY DEF Usage, MapThenSumSet, MapThenFoldSet, Pick
  <1>. HIDE DEF Eq, f
  <1>3. I[S] = SumOf(f, S)
    BY <1>1, FoldIsSum
  <1>. QED
    BY <1>2, <1>3 DEF f

\* Without the orders R, none of which has a negative load, no more is taken.
LEMMA UsageMonotone ==
  ASSUME NEW T \in SUBSET Orders, NEW R \in SUBSET T, NEW res \in Resources,
         \A o \in R : Load[o][res] >= 0
  PROVE  Usage(T \ R, res) \in Int /\ Usage(T, res) \in Int
         /\ Usage(T \ R, res) =< Usage(T, res)
  <1>. DEFINE f == [o \in Orders |-> Load[o][res]]
              L == T \ R
  <1>1. \A o \in Orders : f[o] = Load[o][res] /\ f[o] \in Int
    BY SlotAssumption DEF SlotAssumption
  <1>2. IsFiniteSet(T) /\ IsFiniteSet(R) /\ IsFiniteSet(L)
    BY SlotAssumption, FS_Subset DEF SlotAssumption
  <1>3. \A S \in SUBSET Orders : IsFiniteSet(S) => Usage(S, res) = SumOf(f, S)
    <2>. SUFFICES ASSUME NEW S \in SUBSET Orders, IsFiniteSet(S) PROVE Usage(S, res) = SumOf(f, S)
      OBVIOUS
    <2>. DEFINE k == [o \in S |-> Load[o][res]]
    <2>1. Usage(S, res) = SumOf(k, S)
      BY UsageIs
    <2>2. \A o \in S : k[o] = f[o]
      OBVIOUS
    <2>. HIDE DEF k, f
    <2>. QED
      BY <2>1, <2>2, SumOfSame
  <1>4. \A o \in R : f[o] \in Nat
    BY <1>1
  <1>5. L \cap R = {} /\ L \cup R = T /\ \A o \in T : f[o] \in Int
    BY <1>1
  <1>. HIDE DEF f, L
  <1>6. SumOf(f, T) = SumOf(f, L) + SumOf(f, R)
    BY <1>2, <1>5, SumOfTwo
  <1>7. SumOf(f, R) \in Nat
    BY <1>2, <1>4, SumOfNaturals
  <1>8. SumOf(f, L) \in Int
    BY <1>2, <1>5, SumOfType
  <1>9. Usage(T, res) = SumOf(f, T) /\ Usage(L, res) = SumOf(f, L)
    BY <1>2, <1>3, <1>5
  <1>. QED
    BY <1>6, <1>7, <1>8, <1>9 DEF L

\* The settled orders and those that have been admitted, next to no other, and
\* are not yet stored.
Admitted(o) == create[o] = "admitted"
Kept == (Active \cup {o \in Orders : Admitted(o)}) \ (hasty \cup crossed)

\* A stored order whose negative load may have made room for others and no
\* longer does.
Gone(res) == \E o \in Orders \ Settled : status[o] # "none" /\ Load[o][res] < 0

Fits(S, res) == Usage(S, res) =< Capacity[res]

\* Of two orders that are admitted, one found the other.
OneHonest ==
  \A p, q \in Orders : Admitted(p) /\ Admitted(q) /\ p # q => p \in hasty \/ q \in hasty

\* Unless such an order has gone, the slot has room both with the one that is to
\* be stored next and without it: it may be refused yet, and take its negative
\* load with it.
SlotInv ==
  /\ OneHonest
  /\ \A res \in Resources : Gone(res) \/ \A S \in {Settled, Kept} : Fits(S, res)

LEMMA KeptType == Kept \in SUBSET Orders /\ Settled \in SUBSET Kept
  BY DEF Kept, Settled, Active

LEMMA SlotInit == Init => SlotInv
  <1>. SUFFICES ASSUME Init PROVE SlotInv
    OBVIOUS
  <1>1. Settled = {} /\ Kept = {}
    BY DEF Init, Settled, Kept, Admitted, Active, OrderStatus
  <1>2. OneHonest
    BY DEF Init, OneHonest, Admitted
  <1>3. ASSUME NEW res \in Resources PROVE Fits({}, res)
    <2>1. Usage({}, res) = 0
      BY UsageIs, SumOfNone, FS_EmptySet
    <2>2. Capacity[res] \in Nat
      BY SlotAssumption DEF SlotAssumption
    <2>. QED
      BY <2>1, <2>2 DEF Fits
  <1>. QED
    BY <1>1, <1>2, <1>3 DEF SlotInv

\* The slot keeps its room as long as nothing is admitted to it and no stored
\* order comes back.
LEMMA SlotShrinks ==
  ASSUME SlotInv, OneHonest',
         Kept' \subseteq Kept,
         \A o \in Orders : status[o] # "none" =>
           status'[o] # "none" /\ (o \in Settled' => o \in Settled)
  PROVE  SlotInv'
  <1>. DEFINE A == Settled
              K == Kept
              C == Settled'
  <1>1. SUFFICES ASSUME NEW res \in Resources, ~ Gone(res)'
                 PROVE  Fits(C, res) /\ Fits(Kept', res)
    BY DEF SlotInv
  <1>2. A \in SUBSET Orders /\ K \in SUBSET Orders /\ A \subseteq K
        /\ C \subseteq Kept' /\ \A o \in A : status[o] # "none"
    BY KeptType DEF Kept, Settled, Active, OrderStatus
  <1>3. ~ Gone(res)
    BY <1>1 DEF Gone
  <1>4. Fits(A, res) /\ Fits(K, res)
    BY <1>3 DEF SlotInv
  <1>5. \A o \in A \ C : Load[o][res] >= 0
    <2>1. \A o \in Orders : Load[o][res] \in Int
      BY SlotAssumption DEF SlotAssumption
    <2>2. \A o \in A \ C : o \in Orders /\ o \notin Settled' /\ status'[o] # "none"
      BY <1>2
    <2>. QED
      BY <1>1, <2>1, <2>2 DEF Gone
  <1>6. \A p, q \in K \ A : p = q
    <2>1. \A p \in K \ A : p \in Orders /\ Admitted(p) /\ p \notin hasty
      BY DEF Kept, Settled, Active
    <2>. QED
      BY <2>1 DEF SlotInv, OneHonest
  <1>7. ASSUME NEW B \in SUBSET K, C \subseteq B PROVE Fits(B, res)
    <2>. DEFINE T == IF B \subseteq A THEN A ELSE K
    <2>1. T \in SUBSET Orders /\ Fits(T, res) /\ T \ B \subseteq A \ C /\ B \subseteq T
      BY <1>2, <1>4, <1>6, <1>7
    <2>2. T \ B \in SUBSET T /\ T \ (T \ B) = B
      BY <2>1
    <2>3. \A o \in T \ B : Load[o][res] >= 0
      BY <1>5, <2>1
    <2>. HIDE DEF T
    <2>4. Usage(B, res) \in Int /\ Usage(T, res) \in Int /\ Usage(B, res) =< Usage(T, res)
      <3>. DEFINE R == T \ B
      <3>1. R \in SUBSET T /\ T \ R = B /\ \A o \in R : Load[o][res] >= 0
        BY <2>2, <2>3
      <3>. HIDE DEF R
      <3>2. Usage(T \ R, res) \in Int /\ Usage(T, res) \in Int /\ Usage(T \ R, res) =< Usage(T, res)
        BY <2>1, <3>1, UsageMonotone
      <3>. QED BY <3>1, <3>2
    <2>5. Capacity[res] \in Nat
      BY SlotAssumption DEF SlotAssumption
    <2>. QED
      BY <2>1, <2>4, <2>5 DEF Fits
  <1>8. C \in SUBSET K /\ Kept' \in SUBSET K
    BY <1>2
  <1>. QED
    BY <1>2, <1>7, <1>8

LEMMA ReserveSlot ==
  ASSUME TypeInv, SlotInv, NEW o \in Orders, ReserveCapacity(o)
  PROVE  SlotInv'
  <1>. USE DEF rowVars, boundVars, histVars
  <1>1. /\ status' = status /\ Active' = Active /\ crossed' = crossed
        /\ \A p \in Orders \ {o} : create'[p] = create[p]
        /\ create'[o] = IF Admits(o) THEN "admitted" ELSE "refused"
        /\ hasty \subseteq hasty'
    BY DEF ReserveCapacity, Active, TypeInv, TypeOK
  <1>2. (\E p \in Orders : create[p] = "admitted") => o \in hasty'
    BY DEF ReserveCapacity
  <1>3. OneHonest'
    <2>. SUFFICES ASSUME NEW p \in Orders, NEW q \in Orders, Admitted(p)', Admitted(q)', p # q
                  PROVE  p \in hasty' \/ q \in hasty'
      BY DEF OneHonest
    <2>1. CASE p = o \/ q = o
      BY <1>1, <1>2, <2>1 DEF Admitted
    <2>2. CASE p # o /\ q # o
      <3>1. Admitted(p) /\ Admitted(q)
        BY <1>1, <2>2 DEF Admitted
      <3>. QED BY <1>1, <3>1 DEF SlotInv, OneHonest
    <2>. QED BY <2>1, <2>2
  <1>4. Settled' \subseteq Settled
    BY <1>1 DEF Settled
  <1>5. CASE o \notin Kept'
    <2>1. Kept' \subseteq Kept
      BY <1>1, <1>5 DEF Kept, Admitted
    <2>. QED
      BY <1>1, <1>3, <1>4, <2>1, SlotShrinks
  <1>6. CASE o \in Kept' /\ ~ Admits(o)
    <2>1. Kept' \subseteq Kept
      BY <1>1, <1>6 DEF Kept, Admitted
    <2>. QED
      BY <1>1, <1>3, <1>4, <2>1, SlotShrinks
  <1>7. CASE o \in Kept' /\ Admits(o)
    <2>1. ~ \E p \in Orders : create[p] = "admitted"
      BY <1>2, <1>7 DEF Kept
    <2>2. hasty' = hasty
      BY <2>1 DEF ReserveCapacity
    <2>3. Settled' = Settled
      BY <1>1, <2>2 DEF Settled
    <2>. DEFINE T == Active \cup {o}
                R == (Active \ Settled) \ {o}
    <2>4. Kept' = T \ R
      BY <1>1, <1>7, <2>1, <2>2 DEF Kept, Settled, Admitted, Active
    <2>5. SUFFICES ASSUME NEW res \in Resources, ~ Gone(res)'
                   PROVE  Fits(Settled, res) /\ Fits(T \ R, res)
      BY <1>3, <2>3, <2>4 DEF SlotInv
    <2>6. ~ Gone(res)
      BY <1>1, <2>3, <2>5 DEF Gone
    <2>7. Fits(Settled, res)
      BY <2>6 DEF SlotInv
    <2>8. \A p \in R : Load[p][res] >= 0
      <3>1. \A p \in Orders : Load[p][res] \in Int
        BY SlotAssumption DEF SlotAssumption
      <3>. QED
        BY <2>6, <3>1 DEF Gone, Active, OrderStatus
    <2>9. T \in SUBSET Orders /\ R \in SUBSET T
      BY DEF Active
    <2>10. Usage(T, res) =< Capacity[res] /\ Capacity[res] \in Nat
      BY <1>7, SlotAssumption DEF Admits, SlotAssumption
    <2>. HIDE DEF T, R
    <2>11. Usage(T \ R, res) \in Int /\ Usage(T, res) \in Int
           /\ Usage(T \ R, res) =< Usage(T, res)
      BY <2>8, <2>9, UsageMonotone
    <2>. QED
      BY <2>7, <2>10, <2>11 DEF Fits
  <1>. QED
    BY <1>5, <1>6, <1>7

\* Requests that are not admitted by this step find the others as they were.
LEMMA OneHonestKept ==
  ASSUME OneHonest, hasty \subseteq hasty',
         \A p \in Orders : Admitted(p)' => Admitted(p)
  PROVE  OneHonest'
  BY DEF OneHonest

\* Steps that change no status and admit nobody.
LEMMA SlotFrame ==
  ASSUME SlotInv, status' = status, hasty' = hasty, crossed \subseteq crossed',
         \A p \in Orders : Admitted(p)' => Admitted(p)
  PROVE  SlotInv'
  <1>1. Kept' \subseteq Kept /\ Settled' \subseteq Settled
    BY DEF Kept, Settled, Active
  <1>2. OneHonest'
    BY OneHonestKept DEF SlotInv
  <1>. QED
    BY <1>1, <1>2, SlotShrinks

LEMMA SlotStep == TypeInv /\ StatusInv /\ SlotInv /\ [Next]_vars => SlotInv'
  <1>. SUFFICES ASSUME TypeInv, StatusInv, SlotInv, [Next]_vars PROVE SlotInv'
    OBVIOUS
  <1>. USE DEF rowVars, boundVars, histVars
  <1>t. create \in [Orders -> CreatePhases] /\ status \in [Orders -> OrderStatus \cup {"none"}]
    BY DEF TypeInv, TypeOK
  <1>1. ASSUME NEW o \in Orders,
               RefuseStock(o) \/ CreateStep(o) \/ CreateFails(o)
               \/ Visit(o) \/ VisitInserts(o)
        PROVE  SlotInv'
    <2>1. CASE StoreOrder(o)
      <3>1. /\ hasty' = hasty /\ crossed' = crossed
            /\ create[o] = "admitted" /\ create'[o] = "tasks" /\ status'[o] = "SUBMITTED"
            /\ \A p \in Orders \ {o} : status'[p] = status[p] /\ create'[p] = create[p]
        BY <2>1, <1>t DEF StoreOrder
      <3>2. status[o] = "none"
        BY <3>1 DEF StatusInv, Unstored
      <3>3. \A p \in Orders : Admitted(p)' => Admitted(p)
        BY <3>1 DEF Admitted
      <3>4. OneHonest'
        BY <3>1, <3>3, OneHonestKept DEF SlotInv
      <3>5. Kept' \subseteq Kept
        BY <3>1 DEF Kept, Active, Admitted
      <3>6. \A p \in Orders : status[p] # "none" =>
              status'[p] # "none" /\ (p \in Settled' => p \in Settled)
        BY <3>1, <3>2 DEF Settled, Active
      <3>. QED BY <3>4, <3>5, <3>6, SlotShrinks
    <2>2. CASE ~ StoreOrder(o)
      <3>1. status' = status /\ hasty' = hasty /\ crossed' = crossed
        BY <1>1, <2>2 DEF RefuseStock, CreateStep, CreateTask, EnsureAssignment,
           PlanPreferred, FindPreference, InsertPreference, RecordCreated,
           CreateFails, Visit, VisitInserts
      <3>2. \A p \in Orders : create'[p] = "admitted" => create[p] = "admitted"
        BY <1>1, <2>2, <1>t DEF RefuseStock, CreateStep, CreateTask, EnsureAssignment,
           PlanPreferred, FindPreference, InsertPreference, RecordCreated,
           CreateFails, Visit, VisitInserts
      <3>3. \A p \in Orders : Admitted(p)' => Admitted(p)
        BY <3>2 DEF Admitted
      <3>. QED BY <3>1, <3>3, SlotFrame
    <2>. QED BY <2>1, <2>2
  <1>2. ASSUME NEW u \in Updates, WriteStatus(u) PROVE SlotInv'
    <2>. DEFINE o == update[u].order
    <2>1. Busy(u, o) /\ o \in Orders
      BY <1>2 DEF WriteStatus, Busy, TypeInv, BusyShape
    <2>2. /\ \A p \in Orders \ {o} : status'[p] = status[p]
          /\ create' = create /\ hasty' = hasty /\ crossed' = crossed
          /\ status'[o] = update[u].to
      BY <1>2, <2>1, <1>t DEF WriteStatus
    <2>3. o \in Active \/ o \in crossed
      BY <1>2, <2>1, AllowedFacts DEF StatusInv, Linked, WriteStatus, Active
    <2>4. status'[o] # "none"
      BY <2>2 DEF TypeInv, TypeOK, OrderStatus
    <2>5. OneHonest'
      BY <2>2, OneHonestKept DEF SlotInv, Admitted
    <2>6. Kept' \subseteq Kept /\ Settled' \subseteq Settled
      BY <2>2, <2>3 DEF Kept, Settled, Active, Admitted
    <2>7. \A p \in Orders : status[p] # "none" =>
            status'[p] # "none" /\ (p \in Settled' => p \in Settled)
      BY <2>2, <2>4, <2>6
    <2>. QED
      BY <2>5, <2>6, <2>7, SlotShrinks
  <1>3. ASSUME NEW u \in Updates,
               \/ \E o \in Orders, to \in OrderStatus : StartUpdate(u, o, to)
               \/ UpdateStep(u) \/ UpdateFails(u),
               ~ WriteStatus(u)
        PROVE  SlotInv'
    <2>1. status' = status /\ create' = create /\ hasty' = hasty /\ crossed \subseteq crossed'
      BY <1>3 DEF StartUpdate, UpdateStep, KitchenFollows, DispatchFollows,
         RecordStatus, Notify, NotifyInserting, RequestFeedback, UpdateFails
    <2>. QED BY <2>1, SlotFrame DEF Admitted
  <1>4. CASE Staff
    <2>1. status' = status /\ create' = create /\ hasty' = hasty /\ crossed' = crossed
      BY <1>4 DEF Staff, UpdateTaskStatus, UpdateAssignmentStatus, PlanDriver, Edit, pcVars
    <2>. QED BY <2>1, SlotFrame DEF Admitted
  <1>5. CASE UNCHANGED vars
    <2>1. status' = status /\ create' = create /\ hasty' = hasty /\ crossed' = crossed
      BY <1>5 DEF vars, pcVars
    <2>. QED BY <2>1, SlotFrame DEF Admitted
  <1>. QED
    BY <1>1, <1>2, <1>3, <1>4, <1>5, ReserveSlot DEF Next

LEMMA SlotImplies == SlotInv => OverbookingHasCause
  BY DEF SlotInv, OverbookingHasCause, Gone, Fits

\* The orders that neither were admitted next to an unstored one nor had
\* overlapping updates fit into the slot, unless one with a negative load, which
\* the DTO lets pass, has left it or is not one of them: the check of
\* reserveCapacity, though it reserves nothing, fails in no other way.
THEOREM OverbookingExplained == Spec => []OverbookingHasCause
  <1>1. Init => TypeInv /\ StatusInv /\ SlotInv
    BY InitType, StatusInit, SlotInit
  <1>2. TypeInv /\ StatusInv /\ SlotInv /\ [Next]_vars
          => (TypeInv /\ StatusInv /\ SlotInv)'
    BY TypeStep, StatusStep, SlotStep
  <1>. QED
    BY <1>1, <1>2, SlotImplies, PTL DEF Spec

-----------------------------------------------------------------------------
(* Requests for feedback *)

FeedbackInv ==
  /\ FeedbackAfterDelivery
  /\ \A u \in Updates : update[u].pc = "requesting" => update[u].to = "DELIVERED"

LEMMA FeedbackInit == Init => FeedbackInv
  BY IdleUpdateType DEF Init, FeedbackInv, FeedbackAfterDelivery

LEMMA FeedbackStep == TypeInv /\ StatusInv /\ FeedbackInv /\ [Next]_vars => FeedbackInv'
  <1>. SUFFICES ASSUME TypeInv, StatusInv, FeedbackInv, [Next]_vars PROVE FeedbackInv'
    OBVIOUS
  <1>. USE DEF rowVars, boundVars, histVars
  <1>t. update \in [Updates -> UpdateRecord] /\ BusyShape
    BY DEF TypeInv, TypeOK, UpdateRecord
  <1>a. {"idle", "kitchen", "dispatch", "recording", "notifying", "inserting",
         "requesting"} \subseteq UpdatePhases
    BY DEF UpdatePhases
  <1>b. Allowed("DELIVERED") = {}
    BY AllowedFacts DEF Final
  <1>d. \A o \in feedback \ crossed : status'[o] = "DELIVERED" \/ o \notin Orders
    BY StatusStepAllowed, <1>b DEF FeedbackInv, FeedbackAfterDelivery
  <1>e. feedback \subseteq Orders
    BY DEF TypeInv, TypeOK
  <1>1. CASE feedback' = feedback /\ update' = update /\ crossed \subseteq crossed'
    BY <1>1, <1>d, <1>e DEF FeedbackInv, FeedbackAfterDelivery
  <1>2. ASSUME NEW u \in Updates, NEW o \in Orders, NEW to \in OrderStatus,
               StartUpdate(u, o, to)
        PROVE  FeedbackInv'
    <2>1. /\ update'[u].pc = "writing" /\ OthersKept(u)
          /\ feedback' = feedback /\ crossed \subseteq crossed'
      BY <1>2, <1>t, StartType DEF StartUpdate, OthersKept
    <2>. QED
      BY <2>1, <1>d, <1>e DEF FeedbackInv, FeedbackAfterDelivery, OthersKept
  <1>3. ASSUME NEW u \in Updates, UpdateStep(u) \/ UpdateFails(u), ~ RequestFeedback(u)
        PROVE  FeedbackInv'
    <2>1. /\ \/ \E pc \in UpdatePhases \ {"requesting"} : Goto(u, pc)
             \/ Finish(u) \/ AfterNotice(u)
          /\ feedback' = feedback /\ crossed' = crossed
      BY <1>3, <1>a DEF UpdateStep, WriteStatus, KitchenFollows, DispatchFollows,
         RecordStatus, Notify, NotifyInserting, UpdateFails
    <2>2. /\ update'[u].pc = "requesting" => update'[u].to = "DELIVERED"
          /\ OthersKept(u)
      BY <2>1, <1>t, GotoType, FinishType, AfterNoticeType DEF OthersKept
    <2>. QED
      BY <2>1, <2>2, <1>d, <1>e DEF FeedbackInv, FeedbackAfterDelivery, OthersKept
  <1>4. ASSUME NEW u \in Updates, RequestFeedback(u) PROVE FeedbackInv'
    <2>1. /\ update'[u].pc = "idle" /\ OthersKept(u)
          /\ feedback' = feedback \cup {update[u].order}
          /\ crossed' = crossed /\ status' = status
      BY <1>4, <1>t, FinishType DEF RequestFeedback, OthersKept
    <2>2. update[u].order \in Orders \ crossed => status[update[u].order] = "DELIVERED"
      BY <1>4 DEF RequestFeedback, FeedbackInv, StatusInv, Linked, Busy
    <2>3. update[u].order \in Orders
      BY <1>4, <1>t DEF RequestFeedback, BusyShape
    <2>. QED
      BY <2>1, <2>2, <2>3 DEF FeedbackInv, FeedbackAfterDelivery, OthersKept
  <1>5. CASE UNCHANGED vars
    BY <1>1, <1>5 DEF vars, pcVars
  <1>6. CASE Staff
    BY <1>1, <1>6 DEF Staff, UpdateTaskStatus, UpdateAssignmentStatus, PlanDriver,
       Edit, pcVars
  <1>7. ASSUME NEW o \in Orders,
               ReserveCapacity(o) \/ RefuseStock(o) \/ CreateStep(o) \/ CreateFails(o)
               \/ Visit(o) \/ VisitInserts(o)
        PROVE  FeedbackInv'
    BY <1>1, <1>7 DEF ReserveCapacity, RefuseStock, CreateStep, StoreOrder, CreateTask,
       EnsureAssignment, PlanPreferred, FindPreference, InsertPreference,
       RecordCreated, CreateFails, Visit, VisitInserts
  <1>. QED
    BY <1>2, <1>3, <1>4, <1>5, <1>6, <1>7 DEF Next

\* Feedback is asked for delivered orders only, and these stay delivered, unless
\* two updates overlap: no transition leaves DELIVERED.
THEOREM FeedbackDeserved == Spec => []FeedbackAfterDelivery
  <1>1. Init => TypeInv /\ StatusInv /\ FeedbackInv
    BY InitType, StatusInit, FeedbackInit
  <1>2. TypeInv /\ StatusInv /\ FeedbackInv /\ [Next]_vars
          => (TypeInv /\ StatusInv /\ FeedbackInv)'
    BY TypeStep, StatusStep, FeedbackStep
  <1>3. FeedbackInv => FeedbackAfterDelivery
    BY DEF FeedbackInv
  <1>. QED
    BY <1>1, <1>2, <1>3, PTL DEF Spec

-----------------------------------------------------------------------------
(* Kitchen and warehouse *)

\* While an insert is under way no update of the order is, so that no
\* updateMany can pass between two of them.
InsertsAlone ==
  \A o \in Orders \ (early \cup edited) : inserts[o] # {} =>
    /\ \A u \in Updates : ~ Busy(u, o)
    /\ \A t \in TaskType : tasks[o][t] \in {"none", "OPEN"}

TaskInv == InsertsAlone /\ TasksMoveTogether

LEMMA TaskInit == Init => TaskInv
  BY DEF Init, TaskInv, InsertsAlone, TasksMoveTogether

\* A step that leaves the tasks alone, sends no insert and starts no update.
LEMMA TaskFrame ==
  ASSUME TaskInv, tasks' = tasks,
         early \subseteq early', edited \subseteq edited',
         \A o \in Orders : inserts'[o] \subseteq inserts[o],
         \A u \in Updates, o \in Orders \ early' : Busy(u, o)' /\ inserts'[o] # {} => Busy(u, o)
  PROVE  TaskInv'
  <1>1. InsertsAlone'
    BY DEF TaskInv, InsertsAlone
  <1>2. TasksMoveTogether'
    BY DEF TaskInv, TasksMoveTogether
  <1>. QED
    BY <1>1, <1>2 DEF TaskInv

LEMMA CreateTasks ==
  ASSUME TypeInv, StatusInv, TaskInv, NEW o \in Orders,
         ReserveCapacity(o) \/ RefuseStock(o) \/ CreateStep(o) \/ CreateFails(o)
         \/ Visit(o) \/ VisitInserts(o)
  PROVE  TaskInv'
  <1>. USE DEF rowVars, boundVars, histVars
  <1>t. /\ inserts \in [Orders -> SUBSET TaskType]
        /\ tasks \in [Orders -> [TaskType -> TaskStatus \cup {"none"}]]
    BY DEF TypeInv, TypeOK
  <1>1. CASE StoreOrder(o)
    <2>1. status[o] = "none" /\ \A t \in TaskType : tasks[o][t] = "none"
      BY <1>1 DEF StoreOrder, StatusInv, Unstored
    <2>2. \A u \in Updates : ~ Busy(u, o)
      BY <2>1 DEF TypeInv, BusyShape, Busy
    <2>3. /\ tasks' = tasks /\ update' = update /\ early' = early /\ edited' = edited
          /\ \A p \in Orders \ {o} : inserts'[p] = inserts[p]
      BY <1>1, <1>t DEF StoreOrder
    <2>4. InsertsAlone'
      BY <2>1, <2>2, <2>3 DEF TaskInv, InsertsAlone, Busy
    <2>. QED
      BY <2>3, <2>4 DEF TaskInv, TasksMoveTogether
  <1>2. ASSUME NEW t \in TaskType, CreateTask(o, t) PROVE TaskInv'
    <2>1. /\ update' = update /\ early' = early /\ edited' = edited
          /\ inserts[o] # {} /\ tasks'[o][t] = "OPEN"
          /\ \A v \in TaskType \ {t} : tasks'[o][v] = tasks[o][v]
          /\ \A p \in Orders \ {o} : tasks'[p] = tasks[p] /\ inserts'[p] = inserts[p]
      BY <1>2, <1>t DEF CreateTask
    <2>2. o \notin early \cup edited => \A v \in TaskType : tasks'[o][v] \in {"none", "OPEN"}
      BY <2>1 DEF TaskInv, InsertsAlone
    <2>3. InsertsAlone'
      BY <2>1, <2>2 DEF TaskInv, InsertsAlone, Busy
    <2>4. TasksMoveTogether'
      BY <2>1, <2>2 DEF TaskInv, TasksMoveTogether
    <2>. QED
      BY <2>3, <2>4 DEF TaskInv
  <1>3. CASE CreateFails(o)
    <2>1. /\ tasks' = tasks /\ update' = update /\ early' = early /\ edited' = edited
          /\ \A p \in Orders : inserts'[p] \subseteq inserts[p]
      BY <1>3, <1>t DEF CreateFails
    <2>. QED
      BY <2>1, TaskFrame DEF Busy
  <1>4. CASE ReserveCapacity(o) \/ RefuseStock(o) \/ EnsureAssignment(o)
             \/ PlanPreferred(o) \/ FindPreference(o) \/ InsertPreference(o)
             \/ RecordCreated(o) \/ Visit(o) \/ VisitInserts(o)
    <2>1. /\ tasks' = tasks /\ update' = update /\ inserts' = inserts
          /\ early' = early /\ edited' = edited
      BY <1>4 DEF ReserveCapacity, RefuseStock, EnsureAssignment, PlanPreferred,
         FindPreference, InsertPreference, RecordCreated, Visit, VisitInserts
    <2>. QED
      BY <2>1, TaskFrame DEF Busy
  <1>. QED
    BY <1>1, <1>2, <1>3, <1>4 DEF CreateStep

LEMMA UpdateTasks ==
  ASSUME TypeInv, StatusInv, TaskInv, NEW u \in Updates,
         \/ \E o \in Orders, to \in OrderStatus : StartUpdate(u, o, to)
         \/ UpdateStep(u) \/ UpdateFails(u)
  PROVE  TaskInv'
  <1>. USE DEF rowVars, boundVars, histVars
  <1>t. /\ update \in [Updates -> UpdateRecord] /\ BusyShape
        /\ tasks \in [Orders -> [TaskType -> TaskStatus \cup {"none"}]]
    BY DEF TypeInv, TypeOK, UpdateRecord
  <1>a. {"idle", "kitchen", "dispatch", "recording", "notifying", "inserting",
         "requesting"} \subseteq UpdatePhases
    BY DEF UpdatePhases
  <1>1. ASSUME NEW o \in Orders, NEW to \in OrderStatus, StartUpdate(u, o, to)
        PROVE  TaskInv'
    <2>1. update'[u].order = o /\ OthersKept(u)
      BY <1>1, <1>t, StartType DEF StartUpdate, OthersKept
    <2>2. /\ tasks' = tasks /\ inserts' = inserts /\ early \subseteq early'
          /\ edited' = edited
          /\ o \notin early' => inserts[o] = {}
      BY <1>1 DEF StartUpdate, Placed
    <2>3. ASSUME NEW v \in Updates, NEW p \in Orders \ early', Busy(v, p)',
                 inserts'[p] # {}
          PROVE  Busy(v, p)
      <3>1. CASE v = u
        BY <2>1, <2>2, <2>3, <3>1 DEF Busy
      <3>2. CASE v # u
        BY <2>1, <2>3, <3>2 DEF Busy, OthersKept
      <3>. QED BY <3>1, <3>2
    <2>. QED
      BY <2>2, <2>3, TaskFrame
  <1>2. CASE KitchenFollows(u)
    <2>. DEFINE o == update[u].order
                s == TaskStatusFor(update[u].to)
    <2>1. Goto(u, "dispatch") /\ Busy(u, o) /\ o \in Orders
      BY <1>2, <1>t DEF KitchenFollows, BusyShape, Busy
    <2>2. /\ inserts' = inserts /\ early' = early /\ edited' = edited
          /\ \A p \in Orders \ {o} : tasks'[p] = tasks[p]
          /\ \A t \in TaskType : tasks'[o][t] = IF s = "none" \/ tasks[o][t] = "none"
                                                THEN tasks[o][t] ELSE s
      BY <1>2, <1>t, <2>1 DEF KitchenFollows
    <2>3. \A v \in Updates, p \in Orders : Busy(v, p)' => Busy(v, p)
      BY <2>1, <1>t, <1>a, GotoType DEF Busy
    <2>4. o \notin early \cup edited => inserts[o] = {}
      BY <2>1 DEF TaskInv, InsertsAlone
    <2>5. InsertsAlone'
      BY <2>2, <2>3, <2>4 DEF TaskInv, InsertsAlone
    <2>6. TasksMoveTogether'
      <3>1. ASSUME NEW p \in Orders \ (early \cup edited), NEW t \in TaskType,
                   NEW v \in TaskType, tasks'[p][t] # "none", tasks'[p][v] # "none"
            PROVE  tasks'[p][t] = tasks'[p][v]
        <4>1. tasks[p][t] # "none" /\ tasks[p][v] # "none"
          BY <3>1, <2>2
        <4>2. tasks[p][t] = tasks[p][v]
          BY <4>1 DEF TaskInv, TasksMoveTogether
        <4>. QED
          BY <4>1, <4>2, <2>2
      <3>. QED
        BY <3>1, <2>2 DEF TasksMoveTogether
    <2>. QED
      BY <2>5, <2>6 DEF TaskInv
  <1>3. CASE (UpdateStep(u) \/ UpdateFails(u)) /\ ~ KitchenFollows(u)
    <2>1. /\ \/ \E pc \in UpdatePhases : Goto(u, pc)
             \/ Finish(u) \/ AfterNotice(u)
          /\ update[u].pc # "idle" /\ tasks' = tasks /\ inserts' = inserts
          /\ early' = early /\ edited' = edited
      BY <1>3, <1>a DEF UpdateStep, WriteStatus, DispatchFollows, RecordStatus,
         Notify, NotifyInserting, RequestFeedback, UpdateFails
    <2>2. \A v \in Updates, p \in Orders : Busy(v, p)' => Busy(v, p)
      BY <2>1, <1>t, GotoType, FinishType, AfterNoticeType DEF Busy
    <2>. QED
      BY <2>1, <2>2, TaskFrame
  <1>. QED
    BY <1>1, <1>2, <1>3

LEMMA StaffTasks ==
  ASSUME TypeInv, TaskInv, Staff
  PROVE  TaskInv'
  <1>1. PICK o \in Orders :
          \/ \E t \in TaskType, s \in TaskEdits : UpdateTaskStatus(o, t, s)
          \/ \E s \in DriveEdits : UpdateAssignmentStatus(o, s)
          \/ PlanDriver(o)
    BY DEF Staff
  <1>2. /\ inserts' = inserts /\ update' = update /\ early' = early
        /\ edited' = edited \cup {o}
        /\ \A p \in Orders \ {o} : tasks'[p] = tasks[p]
    BY <1>1 DEF UpdateTaskStatus, UpdateAssignmentStatus, PlanDriver, Edit, pcVars,
       histVars, TypeInv, TypeOK
  <1>3. InsertsAlone'
    BY <1>2 DEF TaskInv, InsertsAlone, Busy
  <1>. QED
    BY <1>2, <1>3 DEF TaskInv, TasksMoveTogether

LEMMA TaskStep == TypeInv /\ StatusInv /\ TaskInv /\ [Next]_vars => TaskInv'
  <1>. SUFFICES ASSUME TypeInv, StatusInv, TaskInv, [Next]_vars PROVE TaskInv'
    OBVIOUS
  <1>1. CASE UNCHANGED vars
    BY <1>1, TaskFrame DEF vars, rowVars, pcVars, histVars, Busy
  <1>. QED
    BY <1>1, CreateTasks, UpdateTasks, StaffTasks DEF Next

\* However updates of an order overlap or fail, its tasks agree once they are
\* created: each updateMany sets them all, and every task counts for it unless
\* an insert was still under way.
THEOREM TasksTogether == Spec => []TasksMoveTogether
  <1>1. Init => TypeInv /\ StatusInv /\ TaskInv
    BY InitType, StatusInit, TaskInit
  <1>2. TypeInv /\ StatusInv /\ TaskInv /\ [Next]_vars
          => (TypeInv /\ StatusInv /\ TaskInv)'
    BY TypeStep, StatusStep, TaskStep
  <1>3. TaskInv => TasksMoveTogether
    BY DEF TaskInv
  <1>. QED
    BY <1>1, <1>2, <1>3, PTL DEF Spec
-----------------------------------------------------------------------------
(* Where a request that places an order is, and the order's status *)

\* The orders no request of which failed half-way or met another one.
Plain == Orders \ (early \cup crossed \cup broken)

\* The order is stored, and the request that places it is still being served.
Stored == Placing \ {"admitted"}

StageOf(o) ==
  /\ create[o] # "failed"
  /\ create[o] \in {"unused", "admitted", "refused"} => status[o] = "none"
  /\ create[o] \in Stored =>
       status[o] = "SUBMITTED" /\ \A u \in Updates : ~ Busy(u, o)

StageInv == \A o \in Plain : StageOf(o)

LEMMA StageInit == Init => StageInv
  BY DEF Init, StageInv, StageOf, Plain, Stored, Placing, CreatePhases

\* The calls between storing the order and answering the request.
LEMMA CreateMoves ==
  ASSUME TypeInv, NEW o \in Orders,
         \/ \E t \in TaskType : CreateTask(o, t)
         \/ EnsureAssignment(o) \/ PlanPreferred(o) \/ FindPreference(o)
         \/ InsertPreference(o) \/ RecordCreated(o) \/ CreateFails(o)
  PROVE  /\ status' = status /\ update' = update /\ early' = early
         /\ crossed' = crossed /\ broken \subseteq broken' /\ edited' = edited
         /\ \A p \in Orders \ {o} : create'[p] = create[p]
         /\ \/ create'[o] = create[o]
            \/ create[o] \in Stored /\ create'[o] \in Stored \cup {"done"}
            \/ o \in broken'
  <1>. USE DEF rowVars, boundVars, histVars, TypeInv, TypeOK, Stored, Placing, CreatePhases
  <1>1. ASSUME NEW t \in TaskType, CreateTask(o, t)
        PROVE  /\ status' = status /\ update' = update /\ early' = early
               /\ crossed' = crossed /\ broken' = broken /\ edited' = edited
               /\ \A p \in Orders \ {o} : create'[p] = create[p]
               /\ \/ create'[o] = create[o]
                  \/ create[o] = "tasks" /\ create'[o] = "assigning"
    BY <1>1 DEF CreateTask
  <1>2. CASE EnsureAssignment(o) \/ PlanPreferred(o) \/ FindPreference(o)
             \/ RecordCreated(o)
    BY <1>2 DEF EnsureAssignment, PlanPreferred, FindPreference, RecordCreated
  <1>3. CASE InsertPreference(o) \/ CreateFails(o)
    BY <1>3 DEF InsertPreference, CreateFails
  <1>. QED
    BY <1>1, <1>2, <1>3

\* The steps that say nothing of a request that places an order.
LEMMA StageFrame ==
  ASSUME TypeInv, StageInv, create' = create,
         early \subseteq early', crossed \subseteq crossed', broken \subseteq broken',
         \A o \in Orders : status'[o] = status[o] \/ \E u \in Updates : Busy(u, o),
         \A o \in Orders : status[o] = "none" => status'[o] = "none",
         \A u \in Updates, o \in Plain' : Busy(u, o)' =>
           Busy(u, o) \/ create[o] \notin Stored
  PROVE  StageInv'
  <1>1. SUFFICES ASSUME NEW o \in Plain' PROVE StageOf(o)'
    BY DEF StageInv
  <1>2. o \in Plain /\ o \in Orders /\ StageOf(o)
    BY DEF Plain, StageInv
  <1>. QED
    BY <1>2 DEF StageOf

LEMMA StageCreate ==
  ASSUME TypeInv, StatusInv, StageInv, NEW o \in Orders,
         ReserveCapacity(o) \/ RefuseStock(o) \/ CreateStep(o) \/ CreateFails(o)
         \/ Visit(o) \/ VisitInserts(o)
  PROVE  StageInv'
  <1>. USE DEF rowVars, boundVars, histVars
  <1>1. SUFFICES ASSUME NEW p \in Plain' PROVE StageOf(p)'
    BY DEF StageInv
  <1>t. create \in [Orders -> CreatePhases] /\ status \in [Orders -> OrderStatus \cup {"none"}]
    BY DEF TypeInv, TypeOK
  <1>2. CASE ReserveCapacity(o) \/ RefuseStock(o)
    <2>1. /\ create[o] \in {"unused", "admitted"} /\ create'[o] \in {"admitted", "refused"}
          /\ \A q \in Orders \ {o} : create'[q] = create[q]
          /\ status' = status /\ update' = update /\ early' = early
          /\ crossed' = crossed /\ broken' = broken
      BY <1>2, <1>t DEF ReserveCapacity, RefuseStock
    <2>2. p \in Plain /\ StageOf(p)
      BY <2>1 DEF Plain, StageInv
    <2>3. status[o] = "none"
      BY <2>1 DEF StatusInv, Unstored
    <2>. QED
      BY <2>1, <2>2, <2>3 DEF StageOf, Plain, Busy, Stored, Placing
  <1>3. CASE StoreOrder(o)
    <2>1. /\ create[o] = "admitted" /\ create'[o] = "tasks" /\ status'[o] = "SUBMITTED"
          /\ \A q \in Orders \ {o} : create'[q] = create[q] /\ status'[q] = status[q]
          /\ update' = update /\ early' = early /\ crossed' = crossed /\ broken' = broken
      BY <1>3, <1>t DEF StoreOrder
    <2>2. p \in Plain /\ StageOf(p)
      BY <2>1 DEF Plain, StageInv
    <2>3. \A u \in Updates : ~ Busy(u, o)
      BY <2>1 DEF StatusInv, Unstored, TypeInv, BusyShape, Busy
    <2>. QED
      BY <2>1, <2>2, <2>3 DEF StageOf, Plain, Busy
  <1>4. CASE (CreateStep(o) /\ ~ StoreOrder(o)) \/ CreateFails(o)
    <2>1. /\ status' = status /\ update' = update /\ early' = early
          /\ crossed' = crossed /\ broken \subseteq broken'
          /\ \A q \in Orders \ {o} : create'[q] = create[q]
          /\ \/ create'[o] = create[o]
             \/ create[o] \in Stored /\ create'[o] \in Stored \cup {"done"}
             \/ o \in broken'
      BY <1>4, CreateMoves DEF CreateStep
    <2>2. p \in Plain /\ p \in Orders /\ StageOf(p) /\ p \notin broken'
      BY <2>1 DEF Plain, StageInv
    <2>3. CASE create'[p] = create[p]
      BY <2>1, <2>2, <2>3 DEF StageOf, Busy
    <2>4. CASE p = o /\ create[o] \in Stored /\ create'[o] \in Stored \cup {"done"}
      BY <2>1, <2>2, <2>4 DEF StageOf, Busy, Stored, Placing
    <2>. QED
      BY <2>1, <2>2, <2>3, <2>4
  <1>5. CASE Visit(o) \/ VisitInserts(o)
    <2>1. /\ create' = create /\ status' = status /\ update' = update /\ early' = early
          /\ crossed' = crossed /\ broken' = broken
      BY <1>5 DEF Visit, VisitInserts
    <2>. QED
      BY <2>1, StageFrame DEF Busy, StageInv
  <1>. QED
    BY <1>2, <1>3, <1>4, <1>5 DEF CreateStep

LEMMA StageUpdate ==
  ASSUME TypeInv, StatusInv, StageInv, NEW u \in Updates,
         \/ \E o \in Orders, to \in OrderStatus : StartUpdate(u, o, to)
         \/ UpdateStep(u) \/ UpdateFails(u)
  PROVE  StageInv'
  <1>. USE DEF rowVars, boundVars, histVars
  <1>t. update \in [Updates -> UpdateRecord] /\ BusyShape
    BY DEF TypeInv, TypeOK, UpdateRecord
  <1>a. {"idle", "kitchen", "dispatch", "recording", "notifying", "inserting",
         "requesting"} \subseteq UpdatePhases
    BY DEF UpdatePhases
  <1>1. ASSUME NEW o \in Orders, NEW to \in OrderStatus, StartUpdate(u, o, to)
        PROVE  StageInv'
    <2>1. update'[u].order = o /\ OthersKept(u)
      BY <1>1, <1>t, StartType DEF StartUpdate, OthersKept
    <2>2. /\ create' = create /\ status' = status /\ early \subseteq early'
          /\ crossed \subseteq crossed' /\ broken' = broken
          /\ create[o] \in Stored => o \in early'
      BY <1>1 DEF StartUpdate, Placed, Stored
    <2>3. ASSUME NEW v \in Updates, NEW p \in Plain', Busy(v, p)'
          PROVE  Busy(v, p) \/ create[p] \notin Stored
      <3>1. CASE v = u
        BY <2>1, <2>2, <2>3, <3>1 DEF Busy, Plain
      <3>2. CASE v # u
        BY <2>1, <2>3, <3>2 DEF Busy, OthersKept
      <3>. QED BY <3>1, <3>2
    <2>. QED
      BY <2>2, <2>3, StageFrame
  <1>2. CASE UpdateStep(u) \/ UpdateFails(u)
    <2>1. /\ \/ \E pc \in UpdatePhases : Goto(u, pc)
             \/ Finish(u) \/ AfterNotice(u)
          /\ update[u].pc # "idle" /\ create' = create
          /\ early' = early /\ crossed' = crossed /\ broken \subseteq broken'
      BY <1>2, <1>a DEF UpdateStep, WriteStatus, KitchenFollows, DispatchFollows,
         RecordStatus, Notify, NotifyInserting, RequestFeedback, UpdateFails
    <2>2. \A v \in Updates, p \in Orders : Busy(v, p)' => Busy(v, p)
      BY <2>1, <1>t, GotoType, FinishType, AfterNoticeType DEF Busy
    <2>3. \A p \in Orders : status'[p] = status[p] \/ Busy(u, p)
      BY <1>2, <2>1 DEF UpdateStep, WriteStatus, KitchenFollows, DispatchFollows,
         RecordStatus, Notify, NotifyInserting, RequestFeedback, UpdateFails, Busy,
         TypeInv, TypeOK
    <2>4. \A p \in Orders : status[p] = "none" => status'[p] = "none"
      BY <2>1, <2>3, <1>t DEF Busy, BusyShape
    <2>. QED
      BY <2>1, <2>2, <2>3, <2>4, StageFrame DEF Plain
  <1>. QED
    BY <1>1, <1>2

LEMMA StageStep == TypeInv /\ StatusInv /\ StageInv /\ [Next]_vars => StageInv'
  <1>. SUFFICES ASSUME TypeInv, StatusInv, StageInv, [Next]_vars PROVE StageInv'
    OBVIOUS
  <1>1. CASE /\ create' = create /\ status' = status /\ update' = update
             /\ early' = early /\ crossed' = crossed /\ broken' = broken
    BY <1>1, StageFrame DEF Busy
  <1>2. CASE Staff
    BY <1>1, <1>2 DEF Staff, UpdateTaskStatus, UpdateAssignmentStatus, PlanDriver,
       Edit, pcVars
  <1>3. CASE UNCHANGED vars
    BY <1>1, <1>3 DEF vars, rowVars, pcVars, histVars
  <1>. QED
    BY <1>2, <1>3, StageCreate, StageUpdate DEF Next

-----------------------------------------------------------------------------
(* The history of an order *)

\* An update of o is in one of the phases P.
At(o, P) == \E u \in Updates : Busy(u, o) /\ update[u].pc \in P

\* An update has written the status and not yet recorded it.
Owed(o) == At(o, {"kitchen", "dispatch", "recording"})

IsPath(h) == /\ h # <<>> => h[1] = "SUBMITTED"
             /\ \A i \in 2 .. Len(h) : h[i] \in Allowed(h[i - 1])

HistoryOf(o) ==
  LET h == events[o]
  IN  /\ IsPath(h)
      /\ create[o] # "done" => h = <<>>
      /\ create[o] = "done" =>
           /\ h # <<>>
           /\ IF Owed(o) THEN status[o] \in Allowed(h[Len(h)])
                         ELSE status[o] = h[Len(h)]

HistoryInv == \A o \in Plain : HistoryOf(o)

LEMMA HistoryInit == Init => HistoryInv
  BY DEF Init, HistoryInv, HistoryOf, IsPath, Plain

LEMMA PathExtended ==
  ASSUME NEW h \in Seq(OrderStatus), NEW s \in OrderStatus, IsPath(h),
         IF h = <<>> THEN s = "SUBMITTED" ELSE s \in Allowed(h[Len(h)])
  PROVE  /\ IsPath(Append(h, s)) /\ Append(h, s) # <<>>
         /\ Append(h, s)[Len(Append(h, s))] = s
  <1>. DEFINE g == Append(h, s)
  <1>1. /\ Len(h) \in Nat /\ Len(g) = Len(h) + 1 /\ g[Len(h) + 1] = s
        /\ \A i \in 1 .. Len(h) : g[i] = h[i]
        /\ h = <<>> <=> Len(h) = 0
    OBVIOUS
  <1>. HIDE DEF g
  <1>2. g # <<>> /\ g[Len(g)] = s
    BY <1>1
  <1>3. g[1] = "SUBMITTED"
    BY <1>1 DEF IsPath
  <1>4. ASSUME NEW i \in 2 .. Len(g) PROVE g[i] \in Allowed(g[i - 1])
    <2>1. CASE i = Len(h) + 1
      <3>1. h # <<>> /\ i - 1 = Len(h) /\ Len(h) \in 1 .. Len(h)
        BY <1>1, <1>4, <2>1
      <3>2. g[i] = s /\ g[i - 1] = h[Len(h)]
        BY <1>1, <2>1, <3>1
      <3>. QED BY <3>1, <3>2
    <2>2. CASE i # Len(h) + 1
      <3>1. i \in 2 .. Len(h) /\ i - 1 \in 1 .. Len(h) BY <1>1, <1>4, <2>2
      <3>. QED BY <1>1, <3>1 DEF IsPath
    <2>. QED BY <2>1, <2>2
  <1>. QED
    BY <1>2, <1>3, <1>4 DEF IsPath, g

\* What leaves the history, the status and the debts of the plain orders alone.
LEMMA HistoryFrame ==
  ASSUME HistoryInv, events' = events,
         early \subseteq early', crossed \subseteq crossed', broken \subseteq broken',
         \A o \in Plain' : /\ status'[o] = status[o] \/ create'[o] # "done"
                           /\ create'[o] = "done" <=> create[o] = "done"
                           /\ Owed(o)' <=> Owed(o)
  PROVE  HistoryInv'
  <1>1. SUFFICES ASSUME NEW o \in Plain' PROVE HistoryOf(o)'
    BY DEF HistoryInv
  <1>2. o \in Plain /\ HistoryOf(o)
    BY DEF Plain, HistoryInv
  <1>. QED
    BY <1>2 DEF HistoryOf

LEMMA HistoryCreate ==
  ASSUME TypeInv, StatusInv, StageInv, HistoryInv, NEW o \in Orders,
         ReserveCapacity(o) \/ RefuseStock(o) \/ CreateStep(o) \/ CreateFails(o)
         \/ Visit(o) \/ VisitInserts(o)
  PROVE  HistoryInv'
  <1>. USE DEF rowVars, boundVars, histVars
  <1>t. /\ create \in [Orders -> CreatePhases] /\ events \in [Orders -> Seq(OrderStatus)]
        /\ status \in [Orders -> OrderStatus \cup {"none"}]
    BY DEF TypeInv, TypeOK
  <1>1. CASE RecordCreated(o)
    <2>1. /\ create[o] = "recording" /\ create'[o] = "done"
          /\ events'[o] = Append(events[o], "SUBMITTED")
          /\ \A q \in Orders \ {o} : create'[q] = create[q] /\ events'[q] = events[q]
          /\ status' = status /\ update' = update
          /\ early' = early /\ crossed' = crossed /\ broken' = broken
      BY <1>1, <1>t DEF RecordCreated
    <2>2. SUFFICES ASSUME NEW p \in Plain' PROVE HistoryOf(p)'
      BY DEF HistoryInv
    <2>3. p \in Plain /\ p \in Orders /\ HistoryOf(p) /\ StageOf(p)
      BY <2>1 DEF Plain, HistoryInv, StageInv
    <2>4. CASE p = o
      <3>1. status[o] = "SUBMITTED" /\ ~ Owed(o)
        BY <2>1, <2>3, <2>4 DEF StageOf, Stored, Placing, CreatePhases, Owed, At
      <3>2. events[o] = <<>> /\ IsPath(events[o])
        BY <2>1, <2>3, <2>4 DEF HistoryOf
      <3>3. ~ Owed(o)'
        BY <2>1, <3>1 DEF Owed, At, Busy
      <3>4. "SUBMITTED" \in OrderStatus
        BY DEF OrderStatus
      <3>5. /\ IsPath(events'[o]) /\ events'[o] # <<>>
            /\ events'[o][Len(events'[o])] = "SUBMITTED"
        <4>1. events[o] \in Seq(OrderStatus) BY <1>t
        <4>2. LET g == Append(events[o], "SUBMITTED")
              IN  IsPath(g) /\ g # <<>> /\ g[Len(g)] = "SUBMITTED"
          BY <3>2, <3>4, <4>1, PathExtended
        <4>. QED BY <2>1, <4>2
      <3>. QED
        BY <2>1, <2>4, <3>1, <3>3, <3>5 DEF HistoryOf
    <2>5. CASE p # o
      BY <2>1, <2>3, <2>5 DEF HistoryOf, Owed, At, Busy
    <2>. QED
      BY <2>4, <2>5
  <1>2. CASE StoreOrder(o)
    <2>1. /\ create[o] = "admitted" /\ create'[o] = "tasks"
          /\ \A q \in Orders \ {o} : create'[q] = create[q] /\ status'[q] = status[q]
          /\ events' = events /\ update' = update
          /\ early' = early /\ crossed' = crossed /\ broken' = broken
      BY <1>2, <1>t DEF StoreOrder
    <2>. QED
      BY <2>1, HistoryFrame DEF Owed, At, Busy, Plain
  <1>3. CASE ReserveCapacity(o) \/ RefuseStock(o) \/ Visit(o) \/ VisitInserts(o)
    <2>1. /\ \A q \in Orders : create'[q] = "done" <=> create[q] = "done"
          /\ events' = events /\ update' = update /\ status' = status
          /\ early' = early /\ crossed' = crossed /\ broken' = broken
      BY <1>3, <1>t DEF ReserveCapacity, RefuseStock, Visit, VisitInserts
    <2>. QED
      BY <2>1, HistoryFrame DEF Owed, At, Busy, Plain
  <1>4. CASE \/ \E t \in TaskType : CreateTask(o, t)
             \/ EnsureAssignment(o) \/ PlanPreferred(o) \/ FindPreference(o)
             \/ InsertPreference(o) \/ CreateFails(o)
    <2>1. /\ events' = events /\ update' = update /\ status' = status
          /\ early' = early /\ crossed' = crossed /\ broken \subseteq broken'
          /\ \A q \in Orders \ {o} : create'[q] = create[q]
      BY <1>4 DEF CreateTask, EnsureAssignment, PlanPreferred, FindPreference,
         InsertPreference, CreateFails, TypeInv, TypeOK
    <2>2. (create'[o] = "done" <=> create[o] = "done") \/ o \in broken'
      BY <1>4, <1>t DEF CreateTask, EnsureAssignment, PlanPreferred, FindPreference,
         InsertPreference, CreateFails, Placing
    <2>. QED
      BY <2>1, <2>2, HistoryFrame DEF Owed, At, Busy, Plain
  <1>. QED
    BY <1>1, <1>2, <1>3, <1>4 DEF CreateStep

\* A plain order with an update is completely placed.
LEMMA BusyDone ==
  ASSUME TypeInv, StageInv, NEW u \in Updates, NEW o \in Plain, Busy(u, o)
  PROVE  create[o] = "done" /\ status[o] # "none"
  <1>1. StageOf(o) /\ o \in Orders /\ create[o] \in CreatePhases
    BY DEF StageInv, Plain, TypeInv, TypeOK
  <1>2. status[o] # "none"
    BY <1>1 DEF TypeInv, BusyShape, Busy
  <1>. QED
    BY <1>1, <1>2 DEF StageOf, Stored, Placing

\* Steps of u that change nothing of who is in a phase of P for an order.
LEMMA AtKept ==
  ASSUME NEW u \in Updates, OthersKept(u), NEW o \in Orders, NEW P,
         \/ update[u].order # o /\ (update'[u].pc = "idle" \/ update'[u].order # o)
         \/ update[u].pc \notin P /\ update'[u].pc \notin P
         \/ /\ update[u].pc \in P \ {"idle"} /\ update'[u].pc \in P \ {"idle"}
            /\ update'[u].order = update[u].order
  PROVE  At(o, P)' <=> At(o, P)
  BY DEF At, Busy, OthersKept

LEMMA HistoryUpdate ==
  ASSUME TypeInv, StatusInv, StageInv, HistoryInv, NEW u \in Updates,
         \/ \E o \in Orders, to \in OrderStatus : StartUpdate(u, o, to)
         \/ UpdateStep(u) \/ UpdateFails(u)
  PROVE  HistoryInv'
  <1>. USE DEF rowVars, boundVars, histVars
  <1>t. /\ update \in [Updates -> UpdateRecord] /\ BusyShape
        /\ events \in [Orders -> Seq(OrderStatus)]
        /\ status \in [Orders -> OrderStatus \cup {"none"}]
    BY DEF TypeInv, TypeOK, UpdateRecord
  <1>a. {"idle", "kitchen", "dispatch", "recording", "notifying", "inserting",
         "requesting"} \subseteq UpdatePhases
    BY DEF UpdatePhases
  <1>1. ASSUME NEW o \in Orders, NEW to \in OrderStatus, StartUpdate(u, o, to)
        PROVE  HistoryInv'
    <2>1. update[u].pc = "idle" /\ update'[u].pc = "writing" /\ OthersKept(u)
      BY <1>1, <1>t, StartType DEF StartUpdate, OthersKept
    <2>2. \A p \in Orders : Owed(p)' <=> Owed(p)
      BY <2>1, AtKept DEF Owed
    <2>3. /\ create' = create /\ status' = status /\ events' = events
          /\ early \subseteq early' /\ crossed \subseteq crossed' /\ broken' = broken
      BY <1>1 DEF StartUpdate
    <2>. QED
      BY <2>2, <2>3, HistoryFrame DEF Plain
  <1>2. CASE WriteStatus(u)
    <2>. DEFINE o == update[u].order
    <2>1. /\ Busy(u, o) /\ o \in Orders /\ update[u].pc = "writing"
          /\ Goto(u, "kitchen") /\ create' = create /\ events' = events
          /\ early' = early /\ crossed' = crossed /\ broken' = broken
      BY <1>2, <1>t DEF WriteStatus, Busy, BusyShape
    <2>2. /\ update'[u].pc = "kitchen" /\ update'[u].order = o /\ OthersKept(u)
      BY <2>1, <1>t, <1>a, GotoType DEF OthersKept
    <2>3. status'[o] = update[u].to /\ \A p \in Orders \ {o} : status'[p] = status[p]
      BY <1>2, <1>t, <2>1 DEF WriteStatus
    <2>4. SUFFICES ASSUME NEW p \in Plain' PROVE HistoryOf(p)'
      BY DEF HistoryInv
    <2>5. p \in Plain /\ p \in Orders /\ HistoryOf(p)
      BY <2>1, <2>4 DEF Plain, HistoryInv
    <2>6. CASE p = o
      <3>1. create[p] = "done"
        BY <2>1, <2>5, <2>6, BusyDone
      <3>2. ~ Owed(p)
        BY <2>1, <2>5, <2>6 DEF Owed, At, StatusInv, Alone, Plain
      <3>3. Owed(p)'
        BY <2>2, <2>6 DEF Owed, At, Busy
      <3>4. update[u].to \in Allowed(status[p])
        BY <2>1, <2>5, <2>6 DEF StatusInv, Linked, Plain
      <3>. QED
        BY <3>1, <3>2, <3>3, <3>4, <2>1, <2>3, <2>5, <2>6 DEF HistoryOf
    <2>7. CASE p # o
      <3>1. Owed(p)' <=> Owed(p)
        BY <2>2, <2>5, <2>7, AtKept DEF Owed
      <3>. QED
        BY <3>1, <2>1, <2>3, <2>5, <2>7 DEF HistoryOf
    <2>. QED
      BY <2>6, <2>7
  <1>3. CASE RecordStatus(u)
    <2>. DEFINE o == update[u].order
    <2>1. /\ Busy(u, o) /\ o \in Orders /\ update[u].pc = "recording"
          /\ Goto(u, "notifying") /\ create' = create /\ status' = status
          /\ early' = early /\ crossed' = crossed /\ broken' = broken
      BY <1>3, <1>t DEF RecordStatus, Busy, BusyShape
    <2>2. /\ update'[u].pc = "notifying" /\ update'[u].order = o /\ OthersKept(u)
      BY <2>1, <1>t, <1>a, GotoType DEF OthersKept
    <2>3. /\ events'[o] = Append(events[o], update[u].to)
          /\ \A p \in Orders \ {o} : events'[p] = events[p]
      BY <1>3, <1>t, <2>1 DEF RecordStatus
    <2>4. SUFFICES ASSUME NEW p \in Plain' PROVE HistoryOf(p)'
      BY DEF HistoryInv
    <2>5. p \in Plain /\ p \in Orders /\ HistoryOf(p)
      BY <2>1, <2>4 DEF Plain, HistoryInv
    <2>6. CASE p = o
      <3>1. create[p] = "done" /\ Owed(p)
        BY <2>1, <2>5, <2>6, BusyDone DEF Owed, At
      <3>2. ~ Owed(p)'
        <4>1. ASSUME NEW v \in Updates, Busy(v, p)' PROVE v = u
          <5>1. CASE v # u
            <6>1. Busy(v, p) BY <4>1, <5>1, <2>2 DEF Busy, OthersKept
            <6>. QED BY <6>1, <2>1, <2>5, <2>6 DEF StatusInv, Alone, Plain
          <5>. QED BY <5>1
        <4>. QED BY <4>1, <2>2 DEF Owed, At
      <3>3. update[u].to = status[p]
        BY <2>1, <2>5, <2>6 DEF StatusInv, Linked, Plain
      <3>4. LET h == Append(events[p], status[p])
            IN  IsPath(h) /\ h # <<>> /\ h[Len(h)] = status[p]
        <4>1. /\ events[p] # <<>> /\ IsPath(events[p])
              /\ status[p] \in Allowed(events[p][Len(events[p])])
          BY <3>1, <2>5 DEF HistoryOf
        <4>2. events[p] \in Seq(OrderStatus) /\ status[p] \in OrderStatus
          BY <4>1, <2>5, <1>t, AllowedFacts
        <4>. QED
          BY <4>1, <4>2, PathExtended
      <3>. QED
        BY <3>1, <3>2, <3>3, <3>4, <2>1, <2>3, <2>6 DEF HistoryOf
    <2>7. CASE p # o
      <3>1. Owed(p)' <=> Owed(p)
        BY <2>2, <2>5, <2>7, AtKept DEF Owed
      <3>. QED
        BY <3>1, <2>1, <2>3, <2>5, <2>7 DEF HistoryOf
    <2>. QED
      BY <2>6, <2>7
  <1>4. CASE KitchenFollows(u) \/ DispatchFollows(u)
    <2>1. /\ Goto(u, "dispatch") \/ Goto(u, "recording")
          /\ update[u].pc \in {"kitchen", "dispatch"}
          /\ create' = create /\ status' = status /\ events' = events
          /\ early' = early /\ crossed' = crossed /\ broken' = broken
      BY <1>4 DEF KitchenFollows, DispatchFollows
    <2>2. /\ update'[u].pc \in {"dispatch", "recording"} /\ OthersKept(u)
          /\ update'[u].order = update[u].order
      BY <2>1, <1>t, <1>a, GotoType DEF OthersKept
    <2>3. \A p \in Orders : Owed(p)' <=> Owed(p)
      BY <2>1, <2>2, AtKept DEF Owed
    <2>. QED
      BY <2>1, <2>3, HistoryFrame DEF Plain
  <1>5. CASE Notify(u) \/ NotifyInserting(u) \/ RequestFeedback(u)
    <2>1. /\ AfterNotice(u) \/ Goto(u, "inserting") \/ Finish(u)
          /\ update[u].pc \in {"notifying", "inserting", "requesting"}
          /\ create' = create /\ status' = status /\ events' = events
          /\ early' = early /\ crossed' = crossed /\ broken \subseteq broken'
      BY <1>5 DEF Notify, NotifyInserting, RequestFeedback
    <2>2. update'[u].pc \in {"idle", "inserting", "requesting"} /\ OthersKept(u)
      BY <2>1, <1>t, <1>a, GotoType, FinishType, AfterNoticeType DEF OthersKept
    <2>3. \A p \in Orders : Owed(p)' <=> Owed(p)
      BY <2>1, <2>2, AtKept DEF Owed
    <2>. QED
      BY <2>1, <2>3, HistoryFrame DEF Plain
  <1>6. CASE UpdateFails(u)
    <2>1. /\ Finish(u) /\ create' = create /\ status' = status /\ events' = events
          /\ early' = early /\ crossed' = crossed
          /\ broken' = broken \cup {update[u].order}
      BY <1>6 DEF UpdateFails
    <2>2. update'[u].pc = "idle" /\ OthersKept(u)
      BY <2>1, <1>t, FinishType DEF OthersKept
    <2>3. \A p \in Plain' : p \in Orders /\ update[u].order # p
      BY <2>1 DEF Plain
    <2>4. \A p \in Plain' : Owed(p)' <=> Owed(p)
      BY <2>2, <2>3, AtKept DEF Owed
    <2>. QED
      BY <2>1, <2>4, HistoryFrame DEF Plain
  <1>. QED
    BY <1>1, <1>2, <1>3, <1>4, <1>5, <1>6 DEF UpdateStep

LEMMA HistoryStep ==
  TypeInv /\ StatusInv /\ StageInv /\ HistoryInv /\ [Next]_vars => HistoryInv'
  <1>. SUFFICES ASSUME TypeInv, StatusInv, StageInv, HistoryInv, [Next]_vars
                PROVE  HistoryInv'
    OBVIOUS
  <1>1. CASE /\ create' = create /\ status' = status /\ update' = update
             /\ events' = events /\ early' = early /\ crossed' = crossed
             /\ broken' = broken
    BY <1>1, HistoryFrame DEF Owed, At, Busy
  <1>2. CASE Staff
    BY <1>1, <1>2 DEF Staff, UpdateTaskStatus, UpdateAssignmentStatus, PlanDriver,
       Edit, pcVars
  <1>3. CASE UNCHANGED vars
    BY <1>1, <1>3 DEF vars, rowVars, pcVars, histVars
  <1>. QED
    BY <1>2, <1>3, HistoryCreate, HistoryUpdate DEF Next

LEMMA HistoryImplies == TypeInv /\ StageInv /\ HistoryInv => HistoryIsPath
  <1>. SUFFICES ASSUME TypeInv, StageInv, HistoryInv, NEW o \in Plain
                PROVE  /\ IsPath(events[o])
                       /\ AtRest(o) /\ status[o] # "none" =>
                            events[o] # <<>> /\ events[o][Len(events[o])] = status[o]
    BY DEF HistoryIsPath, IsPath, Plain
  <1>1. HistoryOf(o) /\ StageOf(o) /\ o \in Orders /\ create[o] \in CreatePhases
    BY DEF HistoryInv, StageInv, Plain, TypeInv, TypeOK
  <1>2. ASSUME AtRest(o), status[o] # "none"
        PROVE  events[o] # <<>> /\ events[o][Len(events[o])] = status[o]
    <2>1. create[o] = "done"
      BY <1>1, <1>2 DEF AtRest, Placed, StageOf, Placing
    <2>2. ~ Owed(o)
      BY <1>2 DEF AtRest, UpdatesOf, Owed, At, Busy
    <2>. QED
      BY <2>1, <2>2, <1>1 DEF HistoryOf
  <1>. QED
    BY <1>1, <1>2 DEF HistoryOf

\* The events of an order are written long after the status, and still the
\* history of an order whose requests neither meet nor fail is a path of
\* ORDER_TRANSITIONS from SUBMITTED to the order's status: an update's event is
\* owed until it is written, and no other update starts meanwhile.
THEOREM HistoryFaithful == Spec => []HistoryIsPath
  <1>1. Init => TypeInv /\ StatusInv /\ StageInv /\ HistoryInv
    BY InitType, StatusInit, StageInit, HistoryInit
  <1>2. TypeInv /\ StatusInv /\ StageInv /\ HistoryInv /\ [Next]_vars
          => (TypeInv /\ StatusInv /\ StageInv /\ HistoryInv)'
    BY TypeStep, StatusStep, StageStep, HistoryStep
  <1>. QED
    BY <1>1, <1>2, HistoryImplies, PTL DEF Spec

-----------------------------------------------------------------------------
(* Tasks and driver *)

Driven == {"planning", "preferring", "inserting", "recording", "done"}

TasksMatch(o) ==
  TaskStatusFor(status[o]) # "none" =>
    \A t \in TaskTypes(o) : tasks[o][t] = TaskStatusFor(status[o])

DriveMatches(o) ==
  DriveStatusFor(status[o]) # "none" => drive[o] = DriveStatusFor(status[o])

\* What has to exist at each stage of an order, and what may still lag behind
\* its status because an update is on its way to kitchen or dispatch.
WorkOf(o) ==
  /\ create[o] \in Stored \cup {"done"} =>
       \A t \in TaskTypes(o) :
         tasks[o][t] # "none" \/ (t \in inserts[o] /\ create[o] = "tasks")
  /\ create[o] \in (Stored \cup {"done"}) \ {"tasks"} => inserts[o] = {}
  /\ create[o] \in Driven => drive[o] # "none"
  /\ create[o] = "done" =>
       /\ TasksMatch(o) \/ At(o, {"kitchen"})
       /\ DriveMatches(o) \/ At(o, {"kitchen", "dispatch"})

WorkInv == \A o \in Plain \ edited : WorkOf(o)

LEMMA WorkInit == Init => WorkInv
  BY DEF Init, WorkInv, WorkOf, Plain, Stored, Placing, CreatePhases, Driven

LEMMA TaskTypesType == \A o : TaskTypes(o) \subseteq TaskType
  BY DEF TaskTypes, TaskType

\* The steps that leave orders, tasks and drivers alone.
LEMMA WorkFrame ==
  ASSUME WorkInv, tasks' = tasks, drive' = drive, inserts' = inserts,
         early \subseteq early', crossed \subseteq crossed', broken \subseteq broken',
         edited \subseteq edited',
         \A o \in Plain' :
           /\ create'[o] = create[o] \/ create'[o] \notin Stored \cup {"done"}
           /\ status'[o] = status[o] \/ create'[o] # "done"
           /\ At(o, {"kitchen"})' <=> At(o, {"kitchen"})
           /\ At(o, {"kitchen", "dispatch"})' <=> At(o, {"kitchen", "dispatch"})
  PROVE  WorkInv'
  <1>1. SUFFICES ASSUME NEW o \in Plain' \ edited' PROVE WorkOf(o)'
    BY DEF WorkInv
  <1>2. o \in Plain' /\ o \in Plain \ edited /\ WorkOf(o)
    BY DEF Plain, WorkInv
  <1>3. CASE create'[o] = create[o]
    BY <1>2, <1>3 DEF WorkOf, TasksMatch, DriveMatches
  <1>4. CASE create'[o] \notin Stored \cup {"done"}
    <2>1. create'[o] \notin Driven /\ create'[o] # "done"
      BY <1>4 DEF Driven, Stored, Placing, CreatePhases
    <2>. QED
      BY <1>4, <2>1 DEF WorkOf
  <1>. QED
    BY <1>2, <1>3, <1>4

\* The calls after the order is stored, each with what it adds.
LEMMA WorkMoves ==
  ASSUME TypeInv, StageInv, WorkInv, NEW o \in Orders,
         \/ \E t \in TaskType : CreateTask(o, t)
         \/ EnsureAssignment(o) \/ PlanPreferred(o) \/ FindPreference(o)
         \/ InsertPreference(o) \/ RecordCreated(o) \/ CreateFails(o)
  PROVE  WorkInv'
  <1>. USE DEF rowVars, boundVars, histVars
  <1>t. /\ create \in [Orders -> CreatePhases] /\ inserts \in [Orders -> SUBSET TaskType]
        /\ tasks \in [Orders -> [TaskType -> TaskStatus \cup {"none"}]]
        /\ drive \in [Orders -> DriveStatus \cup {"none"}]
    BY DEF TypeInv, TypeOK
  <1>1. SUFFICES ASSUME NEW p \in Plain' \ edited' PROVE WorkOf(p)'
    BY DEF WorkInv
  <1>2. /\ status' = status /\ update' = update
        /\ \A q \in Orders \ {o} : create'[q] = create[q]
        /\ p \in Plain \ edited /\ p \in Orders /\ p \notin broken'
    BY CreateMoves DEF Plain
  <1>3. WorkOf(p) /\ StageOf(p)
    BY <1>2 DEF WorkInv, StageInv, Plain
  <1>4. CASE p # o
    <2>1. tasks'[p] = tasks[p] /\ drive'[p] = drive[p] /\ inserts'[p] = inserts[p]
      BY <1>2, <1>4, <1>t DEF CreateTask, EnsureAssignment, PlanPreferred, FindPreference,
         InsertPreference, RecordCreated, CreateFails
    <2>. QED
      BY <1>2, <1>3, <1>4, <2>1 DEF WorkOf, TasksMatch, DriveMatches, At, Busy
  <1>5. CASE p = o
    <2>. USE DEF Stored, Placing, CreatePhases, Driven
    <2>1. ASSUME NEW t \in TaskType, CreateTask(o, t) PROVE WorkOf(o)'
      <3>1. /\ t \in inserts[o] /\ tasks'[o][t] = "OPEN" /\ inserts'[o] = inserts[o] \ {t}
            /\ \A v \in TaskType \ {t} : tasks'[o][v] = tasks[o][v]
            /\ create'[o] = IF create[o] = "tasks" /\ inserts[o] = {t}
                            THEN "assigning" ELSE create[o]
            /\ drive' = drive
        BY <2>1, <1>t DEF CreateTask
      <3>2. create[o] \notin (Stored \cup {"done"}) \ {"tasks"}
        BY <3>1, <1>3, <1>5 DEF WorkOf
      <3>3. create'[o] \in Stored \cup {"done"} => create[o] = "tasks"
        BY <3>1, <3>2
      <3>4. ASSUME NEW v \in TaskTypes(o), create'[o] \in Stored \cup {"done"}
            PROVE  tasks'[o][v] # "none" \/ (v \in inserts'[o] /\ create'[o] = "tasks")
        <4>1. create[o] = "tasks" /\ v \in TaskType
          BY <3>3, <3>4, TaskTypesType
        <4>2. tasks[o][v] # "none" \/ v \in inserts[o]
          BY <4>1, <1>3, <1>5 DEF WorkOf
        <4>3. CASE v = t
          BY <3>1, <4>3
        <4>4. CASE v # t
          BY <3>1, <4>1, <4>2, <4>4
        <4>. QED
          BY <4>3, <4>4
      <3>5. create'[o] \in (Stored \cup {"done"}) \ {"tasks"} => inserts'[o] = {}
        BY <3>1, <3>3
      <3>6. create'[o] \notin Driven
        BY <3>1, <3>2, <3>3
      <3>. QED
        BY <3>4, <3>5, <3>6 DEF WorkOf
    <2>2. CASE EnsureAssignment(o) \/ PlanPreferred(o)
      <3>1. /\ create[o] \in {"assigning", "planning"}
            /\ create'[o] \in {"planning", "preferring"}
            /\ drive'[o] # "none" /\ tasks' = tasks /\ inserts' = inserts
        BY <2>2, <1>t DEF EnsureAssignment, PlanPreferred
      <3>. QED
        BY <3>1, <1>3, <1>5 DEF WorkOf
    <2>3. CASE FindPreference(o) \/ InsertPreference(o)
      <3>1. /\ create[o] \in {"preferring", "inserting"}
            /\ create'[o] \in {"inserting", "recording", "failed"}
            /\ drive' = drive /\ tasks' = tasks /\ inserts' = inserts
        BY <2>3, <1>t DEF FindPreference, InsertPreference
      <3>. QED
        BY <3>1, <1>3, <1>5 DEF WorkOf
    <2>4. CASE RecordCreated(o)
      <3>1. /\ create[o] = "recording" /\ create'[o] = "done"
            /\ drive' = drive /\ tasks' = tasks /\ inserts' = inserts
        BY <2>4, <1>t DEF RecordCreated
      <3>2. status[o] = "SUBMITTED"
        BY <3>1, <1>3, <1>5 DEF StageOf
      <3>3. TaskStatusFor(status[o]) = "none" /\ DriveStatusFor(status[o]) = "none"
        BY <3>2 DEF TaskStatusFor, DriveStatusFor
      <3>. QED
        BY <3>1, <3>3, <1>2, <1>3, <1>5 DEF WorkOf, TasksMatch, DriveMatches
    <2>5. CASE CreateFails(o)
      BY <2>5, <1>2, <1>5 DEF CreateFails
    <2>. QED
      BY <1>5, <2>1, <2>2, <2>3, <2>4, <2>5
  <1>. QED
    BY <1>4, <1>5

LEMMA WorkCreate ==
  ASSUME TypeInv, StatusInv, StageInv, WorkInv, NEW o \in Orders,
         ReserveCapacity(o) \/ RefuseStock(o) \/ CreateStep(o) \/ CreateFails(o)
         \/ Visit(o) \/ VisitInserts(o)
  PROVE  WorkInv'
  <1>. USE DEF rowVars, boundVars, histVars
  <1>t. /\ create \in [Orders -> CreatePhases] /\ inserts \in [Orders -> SUBSET TaskType]
        /\ status \in [Orders -> OrderStatus \cup {"none"}]
    BY DEF TypeInv, TypeOK
  <1>1. CASE StoreOrder(o)
    <2>1. /\ create'[o] = "tasks" /\ inserts'[o] = TaskTypes(o)
          /\ \A q \in Orders \ {o} : create'[q] = create[q] /\ inserts'[q] = inserts[q]
                                     /\ status'[q] = status[q]
          /\ tasks' = tasks /\ drive' = drive /\ update' = update /\ early' = early
          /\ crossed' = crossed /\ broken' = broken /\ edited' = edited
      BY <1>1, <1>t, TaskTypesType DEF StoreOrder, CreatePhases
    <2>2. SUFFICES ASSUME NEW p \in Plain' \ edited' PROVE WorkOf(p)'
      BY DEF WorkInv
    <2>3. p \in Plain \ edited /\ p \in Orders /\ WorkOf(p)
      BY <2>1 DEF Plain, WorkInv
    <2>4. CASE p = o
      BY <2>1, <2>4 DEF WorkOf, Driven
    <2>5. CASE p # o
      BY <2>1, <2>3, <2>5 DEF WorkOf, TasksMatch, DriveMatches, At, Busy
    <2>. QED
      BY <2>4, <2>5
  <1>2. CASE ReserveCapacity(o) \/ RefuseStock(o) \/ Visit(o) \/ VisitInserts(o)
    <2>1. /\ \A q \in Orders : create'[q] = create[q] \/ create'[q] \in {"admitted", "refused"}
          /\ tasks' = tasks /\ drive' = drive /\ inserts' = inserts
          /\ update' = update /\ status' = status /\ early' = early
          /\ crossed' = crossed /\ broken' = broken /\ edited' = edited
      BY <1>2, <1>t DEF ReserveCapacity, RefuseStock, Visit, VisitInserts
    <2>2. {"admitted", "refused"} \cap (Stored \cup {"done"}) = {}
      BY DEF Stored, Placing
    <2>3. \A q \in Plain' : create'[q] = create[q] \/ create'[q] \notin Stored \cup {"done"}
      BY <2>1, <2>2 DEF Plain
    <2>. QED
      BY <2>1, <2>3, WorkFrame DEF At, Busy
  <1>. QED
    BY <1>1, <1>2, WorkMoves DEF CreateStep

LEMMA WorkUpdate ==
  ASSUME TypeInv, StatusInv, StageInv, WorkInv, NEW u \in Updates,
         \/ \E o \in Orders, to \in OrderStatus : StartUpdate(u, o, to)
         \/ UpdateStep(u) \/ UpdateFails(u)
  PROVE  WorkInv'
  <1>. USE DEF rowVars, boundVars, histVars
  <1>t. /\ update \in [Updates -> UpdateRecord] /\ BusyShape
        /\ tasks \in [Orders -> [TaskType -> TaskStatus \cup {"none"}]]
        /\ drive \in [Orders -> DriveStatus \cup {"none"}]
        /\ status \in [Orders -> OrderStatus \cup {"none"}]
    BY DEF TypeInv, TypeOK, UpdateRecord
  <1>a. {"idle", "kitchen", "dispatch", "recording", "notifying", "inserting",
         "requesting"} \subseteq UpdatePhases
    BY DEF UpdatePhases
  <1>1. ASSUME NEW o \in Orders, NEW to \in OrderStatus, StartUpdate(u, o, to)
        PROVE  WorkInv'
    <2>1. update[u].pc = "idle" /\ update'[u].pc = "writing" /\ OthersKept(u)
      BY <1>1, <1>t, StartType DEF StartUpdate, OthersKept
    <2>2. \A p \in Orders : /\ At(p, {"kitchen"})' <=> At(p, {"kitchen"})
                            /\ At(p, {"kitchen", "dispatch"})' <=> At(p, {"kitchen", "dispatch"})
      BY <2>1, AtKept
    <2>3. /\ create' = create /\ status' = status /\ tasks' = tasks /\ drive' = drive
          /\ inserts' = inserts /\ early \subseteq early' /\ crossed \subseteq crossed'
          /\ broken' = broken /\ edited' = edited
      BY <1>1 DEF StartUpdate
    <2>. QED
      BY <2>2, <2>3, WorkFrame DEF Plain
  <1>2. ASSUME WriteStatus(u) \/ KitchenFollows(u) \/ DispatchFollows(u)
        PROVE  WorkInv'
    <2>. DEFINE o == update[u].order
    <2>1. /\ Busy(u, o) /\ o \in Orders /\ create' = create /\ inserts' = inserts
          /\ early' = early /\ crossed' = crossed /\ broken' = broken /\ edited' = edited
          /\ \E pc \in UpdatePhases : Goto(u, pc)
      BY <1>2, <1>a, <1>t DEF WriteStatus, KitchenFollows, DispatchFollows, Busy, BusyShape
    <2>2. update'[u].order = o /\ update'[u].to = update[u].to /\ OthersKept(u)
      BY <2>1, <1>t, GotoType DEF OthersKept
    <2>3. \A p \in Orders \ {o} : status'[p] = status[p] /\ tasks'[p] = tasks[p]
                                  /\ drive'[p] = drive[p]
      BY <1>2, <1>t, <2>1 DEF WriteStatus, KitchenFollows, DispatchFollows
    <2>4. SUFFICES ASSUME NEW p \in Plain' \ edited' PROVE WorkOf(p)'
      BY DEF WorkInv
    <2>5. p \in Plain \ edited /\ p \in Plain /\ p \in Orders /\ WorkOf(p)
      BY <2>1 DEF Plain, WorkInv
    <2>6. CASE p # o
      <3>1. /\ At(p, {"kitchen"})' <=> At(p, {"kitchen"})
            /\ At(p, {"kitchen", "dispatch"})' <=> At(p, {"kitchen", "dispatch"})
        BY <2>2, <2>5, <2>6, AtKept
      <3>. QED
        BY <3>1, <2>1, <2>3, <2>5, <2>6 DEF WorkOf, TasksMatch, DriveMatches
    <2>7. CASE p = o
      <3>1. create[p] = "done"
        BY <2>1, <2>5, <2>7, BusyDone
      <3>2. /\ \A t \in TaskTypes(p) : tasks[p][t] # "none"
            /\ inserts[p] = {} /\ drive[p] # "none"
        BY <3>1, <2>5, <2>7 DEF WorkOf, Driven
      <3>3. SUFFICES /\ \A t \in TaskTypes(p) : tasks'[p][t] # "none"
                     /\ drive'[p] # "none"
                     /\ TasksMatch(p)' \/ At(p, {"kitchen"})'
                     /\ DriveMatches(p)' \/ At(p, {"kitchen", "dispatch"})'
        BY <2>1, <2>7, <3>1, <3>2 DEF WorkOf
      <3>4. CASE WriteStatus(u)
        <4>1. update'[u].pc = "kitchen" /\ tasks' = tasks /\ drive' = drive
          BY <3>4, <1>t, <1>a, GotoType DEF WriteStatus
        <4>. QED
          BY <4>1, <3>2, <2>2, <2>7 DEF At, Busy
      <3>5. CASE KitchenFollows(u)
        <4>. DEFINE s == TaskStatusFor(update[u].to)
        <4>1. /\ update[u].pc = "kitchen" /\ update'[u].pc = "dispatch"
              /\ drive' = drive /\ status' = status
          BY <3>5, <1>t, <1>a, GotoType DEF KitchenFollows
        <4>2. \A t \in TaskType : tasks'[p][t] = IF s = "none" \/ tasks[p][t] = "none"
                                                 THEN tasks[p][t] ELSE s
          BY <3>5, <1>t, <2>1, <2>7 DEF KitchenFollows
        <4>3. update[u].to = status[p]
          BY <4>1, <2>1, <2>5, <2>7 DEF StatusInv, Linked, Plain
        <4>4. \A t \in TaskTypes(p) : /\ tasks'[p][t] # "none"
                                      /\ s # "none" => tasks'[p][t] = s
          BY <4>2, <3>2, TaskTypesType
        <4>5. TasksMatch(p)'
          BY <4>1, <4>3, <4>4 DEF TasksMatch
        <4>6. At(p, {"kitchen", "dispatch"})'
          BY <4>1, <2>2, <2>7 DEF At, Busy
        <4>. QED
          BY <4>1, <4>4, <4>5, <4>6, <3>2
      <3>6. CASE DispatchFollows(u)
        <4>. DEFINE s == DriveStatusFor(update[u].to)
        <4>1. /\ update[u].pc = "dispatch" /\ tasks' = tasks /\ status' = status
              /\ drive'[p] = IF s = "none" \/ drive[p] = "none" THEN drive[p] ELSE s
          BY <3>6, <1>t, <2>1, <2>7 DEF DispatchFollows
        <4>2. update[u].to = status[p]
          BY <4>1, <2>1, <2>5, <2>7 DEF StatusInv, Linked, Plain
        <4>3. DriveMatches(p)' /\ drive'[p] # "none"
          BY <4>1, <4>2, <3>2 DEF DriveMatches
        <4>4. ~ At(p, {"kitchen"})
          BY <4>1, <2>1, <2>5, <2>7 DEF At, StatusInv, Alone, Plain
        <4>5. TasksMatch(p)
          BY <4>4, <3>1, <2>5, <2>7 DEF WorkOf
        <4>6. TasksMatch(p)'
          BY <4>1, <4>5 DEF TasksMatch
        <4>. QED
          BY <4>1, <4>3, <4>6, <3>2
      <3>. QED
        BY <1>2, <3>4, <3>5, <3>6
    <2>. QED
      BY <2>6, <2>7
  <1>3. CASE RecordStatus(u) \/ Notify(u) \/ NotifyInserting(u) \/ RequestFeedback(u)
    <2>1. /\ \/ AfterNotice(u) \/ Goto(u, "inserting") \/ Finish(u)
             \/ Goto(u, "notifying")
          /\ update[u].pc \in {"recording", "notifying", "inserting", "requesting"}
          /\ create' = create /\ status' = status /\ tasks' = tasks /\ drive' = drive
          /\ inserts' = inserts /\ early' = early /\ crossed' = crossed
          /\ broken \subseteq broken' /\ edited' = edited
      BY <1>3 DEF RecordStatus, Notify, NotifyInserting, RequestFeedback
    <2>2. /\ update'[u].pc \in {"idle", "notifying", "inserting", "requesting"}
          /\ OthersKept(u)
      BY <2>1, <1>t, <1>a, GotoType, FinishType, AfterNoticeType DEF OthersKept
    <2>3. \A p \in Orders : /\ At(p, {"kitchen"})' <=> At(p, {"kitchen"})
                            /\ At(p, {"kitchen", "dispatch"})' <=> At(p, {"kitchen", "dispatch"})
      BY <2>1, <2>2, AtKept
    <2>. QED
      BY <2>1, <2>3, WorkFrame DEF Plain
  <1>4. CASE UpdateFails(u)
    <2>1. /\ Finish(u) /\ create' = create /\ status' = status /\ tasks' = tasks
          /\ drive' = drive /\ inserts' = inserts /\ early' = early
          /\ crossed' = crossed /\ broken' = broken \cup {update[u].order}
          /\ edited' = edited
      BY <1>4 DEF UpdateFails
    <2>2. update'[u].pc = "idle" /\ OthersKept(u)
      BY <2>1, <1>t, FinishType DEF OthersKept
    <2>3. \A p \in Plain' : p \in Orders /\ update[u].order # p
      BY <2>1 DEF Plain
    <2>4. \A p \in Plain' : /\ At(p, {"kitchen"})' <=> At(p, {"kitchen"})
                            /\ At(p, {"kitchen", "dispatch"})' <=> At(p, {"kitchen", "dispatch"})
      BY <2>2, <2>3, AtKept
    <2>. QED
      BY <2>1, <2>4, WorkFrame DEF Plain
  <1>. QED
    BY <1>1, <1>2, <1>3, <1>4 DEF UpdateStep

LEMMA StaffWork ==
  ASSUME TypeInv, WorkInv, Staff
  PROVE  WorkInv'
  <1>1. PICK o \in Orders :
          \/ \E t \in TaskType, s \in TaskEdits : UpdateTaskStatus(o, t, s)
          \/ \E s \in DriveEdits : UpdateAssignmentStatus(o, s)
          \/ PlanDriver(o)
    BY DEF Staff
  <1>2. /\ create' = create /\ inserts' = inserts /\ update' = update
        /\ status' = status /\ early' = early /\ crossed' = crossed
        /\ broken' = broken /\ edited' = edited \cup {o}
        /\ \A p \in Orders \ {o} : tasks'[p] = tasks[p] /\ drive'[p] = drive[p]
    BY <1>1 DEF UpdateTaskStatus, UpdateAssignmentStatus, PlanDriver, Edit, pcVars,
       TypeInv, TypeOK
  <1>3. SUFFICES ASSUME NEW p \in Plain' \ edited' PROVE WorkOf(p)'
    BY DEF WorkInv
  <1>4. p \in Plain \ edited /\ p \in Orders /\ p # o /\ WorkOf(p)
    BY <1>2 DEF Plain, WorkInv
  <1>. QED
    BY <1>2, <1>4 DEF WorkOf, TasksMatch, DriveMatches, At, Busy

LEMMA WorkStep ==
  TypeInv /\ StatusInv /\ StageInv /\ WorkInv /\ [Next]_vars => WorkInv'
  <1>. SUFFICES ASSUME TypeInv, StatusInv, StageInv, WorkInv, [Next]_vars
                PROVE  WorkInv'
    OBVIOUS
  <1>1. CASE UNCHANGED vars
    BY <1>1, WorkFrame DEF vars, rowVars, pcVars, histVars, At, Busy
  <1>. QED
    BY <1>1, WorkCreate, WorkUpdate, StaffWork DEF Next

LEMMA WorkImplies == TypeInv /\ StageInv /\ WorkInv => WorkAtRest
  <1>. SUFFICES ASSUME TypeInv, StageInv, WorkInv, NEW o \in Plain \ edited, AtRest(o)
                PROVE  TasksMatch(o) /\ DriveMatches(o)
    BY DEF WorkAtRest, TasksMatch, DriveMatches, Plain
  <1>1. WorkOf(o) /\ StageOf(o) /\ o \in Orders /\ create[o] \in CreatePhases
    BY DEF WorkInv, StageInv, Plain, TypeInv, TypeOK
  <1>2. create[o] = "done" \/ status[o] = "none"
    BY <1>1 DEF AtRest, Placed, StageOf, Placing
  <1>3. CASE create[o] = "done"
    <2>1. ~ At(o, {"kitchen"}) /\ ~ At(o, {"kitchen", "dispatch"})
      BY DEF AtRest, UpdatesOf, At, Busy
    <2>. QED
      BY <2>1, <1>1, <1>3 DEF WorkOf
  <1>4. CASE status[o] = "none"
    BY <1>4 DEF TasksMatch, DriveMatches, TaskStatusFor, DriveStatusFor
  <1>. QED
    BY <1>2, <1>3, <1>4

\* Kitchen and warehouse agree, and once nothing is under way, tasks and driver are where the status wants them,
\* unless requests for the order met or failed or the staff intervened: every
\* update reaches the tasks and the assignment because both exist by then.
THEOREM WorkInStep == Spec => []WorkFollowsStatus
  <1>1. Init => TypeInv /\ StatusInv /\ StageInv /\ WorkInv
    BY InitType, StatusInit, StageInit, WorkInit
  <1>2. TypeInv /\ StatusInv /\ StageInv /\ WorkInv /\ [Next]_vars
          => (TypeInv /\ StatusInv /\ StageInv /\ WorkInv)'
    BY TypeStep, StatusStep, StageStep, WorkStep
  <1>3. Spec => []WorkAtRest
    BY <1>1, <1>2, WorkImplies, PTL DEF Spec
  <1>. QED
    BY <1>3, TasksTogether, PTL DEF WorkFollowsStatus
=============================================================================
