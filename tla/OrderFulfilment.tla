--------------------------- MODULE OrderFulfilment ---------------------------
(***************************************************************************)
(* Customer orders for one delivery slot, from POST /orders to delivery:   *)
(* OrdersService with the services it calls, DeliverySlotsService,         *)
(* KitchenService, DispatchService and OrderEngagementService.             *)
(*                                                                         *)
(* Every Prisma call is one atomic step and no two are grouped in a        *)
(* transaction: an action is one such call with the code up to the next.   *)
(* Requests interleave at the awaits between them.  A broadcast or webhook *)
(* changes no state, but its query can fail like any other call.           *)
(***************************************************************************)
EXTENDS Integers, Sequences, FiniteSetsExt

CONSTANTS
  Orders,        \* requests to place an order, and the rows they create
  Updates,       \* requests to update an order's status that may overlap
  KitchenOrders, \* orders with an item that requires the kitchen
  Load,          \* what an order takes of each resource of the slot, or gives: the
                 \* DTO has no least load
  Capacity,      \* what the slot has of each
  NoOrder,       \* "none" in Orders
  TaskEdits, DriveEdits, \* what the staff sets tasks and assignments to
  UpdateBudget,  \* bound on status updates
  MishapBudget   \* bound on requests that fail half-way and on direct edits of
                 \* tasks and assignments by the staff, together

\* Number of orders, kitchen load, storage load.
Resources == {"orders", "kitchen", "storage"}

OrderStatus == {"SUBMITTED", "CONFIRMED", "PREPARING", "READY",
                "OUT_FOR_DELIVERY", "DELIVERED", "CANCELLED"}
Final       == {"DELIVERED", "CANCELLED"}
TaskType    == {"KITCHEN", "WAREHOUSE"}
TaskStatus  == {"OPEN", "IN_PROGRESS", "DONE", "CANCELLED"}
DriveStatus == {"PLANNED", "EN_ROUTE", "DELIVERED", "FAILED"}

ASSUME SlotAssumption ==
  /\ IsFiniteSet(Orders)
  /\ KitchenOrders \subseteq Orders
  /\ NoOrder \notin Orders
  /\ Load \in [Orders -> [Resources -> Int]]
  /\ Capacity \in [Resources -> Nat]
  /\ TaskEdits \subseteq TaskStatus /\ DriveEdits \subseteq DriveStatus
  /\ UpdateBudget \in Nat /\ MishapBudget \in Nat

VARIABLES
  status,     \* customerOrder.status, "none" before the row exists
  tasks,      \* fulfillmentTask.status by task type, "none" before it exists
  drive,      \* driverAssignment.status
  preference, \* whether customerNotificationPreference has a row
  events,     \* the order's status events
  feedback,   \* orders whose feedback has been requested
  create,     \* where the request that places the order is
  inserts,    \* task inserts that have been sent and not yet been executed
  update,     \* the requests that update a status
  visit,      \* TRUE: a customer's request is about to insert a preference
  updates, mishaps, \* budgets used
  hasty,      \* history: orders admitted while another one was not yet stored
  early,      \* history: orders updated before they were completely placed
  crossed,    \* history: orders with two updates at the same time
  broken,     \* history: orders with a request that failed half-way
  edited      \* history: orders whose tasks or assignment the staff edited

rowVars   == <<status, tasks, drive, preference, events, feedback>>
pcVars    == <<create, inserts, update, visit>>
boundVars == <<updates, mishaps>>
histVars  == <<hasty, early, crossed, broken, edited>>
vars == <<rowVars, pcVars, boundVars, histVars>>

-----------------------------------------------------------------------------
\* "unused" to "admitted": before the row is stored; "tasks" to "recording":
\* the calls that follow; "done", "refused", "failed": answered.
CreatePhases == {"unused", "admitted", "tasks", "assigning", "planning",
                 "preferring", "inserting", "recording", "done", "refused",
                 "failed"}
Placing == CreatePhases \ {"unused", "done", "refused", "failed"}

UpdatePhases == {"idle", "writing", "kitchen", "dispatch", "recording",
                 "notifying", "inserting", "requesting"}

IdleUpdate == [pc |-> "idle", order |-> NoOrder, to |-> "SUBMITTED"]

\* ORDER_TRANSITIONS
Allowed(s) ==
  CASE s = "SUBMITTED"        -> {"CONFIRMED", "CANCELLED"}
    [] s = "CONFIRMED"        -> {"PREPARING", "CANCELLED"}
    [] s = "PREPARING"        -> {"READY", "CANCELLED"}
    [] s = "READY"            -> {"OUT_FOR_DELIVERY", "CANCELLED"}
    [] s = "OUT_FOR_DELIVERY" -> {"DELIVERED", "CANCELLED"}
    [] OTHER                  -> {}

\* The orders that count against the slot: ACTIVE_ORDER_STATUSES.
Active == {o \in Orders : status[o] \in OrderStatus \ Final}

\* The aggregate of computeUsage over the orders S.
Usage(S, res) == LET LoadOf(o) == Load[o][res] IN MapThenSumSet(LoadOf, S)

TaskTypes(o) == IF o \in KitchenOrders THEN TaskType ELSE {"WAREHOUSE"}

\* Seeded fault: the task is given the order's own status.
TaskStatusFor_Copies(s) ==
  CASE s = "PREPARING" -> "IN_PROGRESS"
    [] s \in {"READY", "OUT_FOR_DELIVERY", "DELIVERED"} -> s
    [] s = "CANCELLED" -> "CANCELLED"
    [] OTHER           -> "none"

\* What KitchenService sets the tasks of an order to, given its new status.
TaskStatusFor(s) ==
  CASE s = "PREPARING" -> "IN_PROGRESS"
    [] s \in {"READY", "OUT_FOR_DELIVERY", "DELIVERED"} -> "DONE"
    [] s = "CANCELLED" -> "CANCELLED"
    [] OTHER           -> "none"

DriveStatusFor(s) ==
  CASE s = "OUT_FOR_DELIVERY" -> "EN_ROUTE"
    [] s = "DELIVERED"        -> "DELIVERED"
    [] s = "CANCELLED"        -> "FAILED"
    [] OTHER                  -> "none"

UpdatesOf(o) == {u \in Updates : update[u].pc # "idle" /\ update[u].order = o}
Placed(o)    == create[o] \notin Placing /\ inserts[o] = {}

Init ==
  /\ status = [o \in Orders |-> "none"]
  /\ tasks = [o \in Orders |-> [t \in TaskType |-> "none"]]
  /\ drive = [o \in Orders |-> "none"]
  /\ preference = {} /\ feedback = {}
  /\ events = [o \in Orders |-> <<>>]
  /\ create = [o \in Orders |-> "unused"]
  /\ inserts = [o \in Orders |-> {}]
  /\ update = [u \in Updates |-> IdleUpdate]
  /\ visit = {}
  /\ updates = 0 /\ mishaps = 0
  /\ hasty = {} /\ early = {} /\ crossed = {} /\ broken = {} /\ edited = {}

-----------------------------------------------------------------------------
(* POST /orders *)

\* Seeded fault: only the number of orders is compared with the slot's.
Admits_CountsOnly(o) ==
  Usage(Active \cup {o}, "orders") =< Capacity["orders"]

\* reserveCapacity: the orders stored for the slot and this one fit into it.
Admits(o) ==
  \A res \in Resources : Usage(Active \cup {o}, res) =< Capacity[res]

\* The check keeps nothing: no row says that this order has been admitted.
ReserveCapacity(o) ==
  /\ create[o] = "unused"
  /\ create' = [create EXCEPT ![o] = IF Admits(o) THEN "admitted" ELSE "refused"]
  /\ hasty' = IF \E p \in Orders : create[p] = "admitted"
              THEN hasty \cup {o} ELSE hasty
  /\ UNCHANGED <<rowVars, inserts, update, visit, boundVars, early, crossed,
                 broken, edited>>

\* ensureInventory: a product is unknown or short.
RefuseStock(o) ==
  /\ create[o] = "admitted"
  /\ create' = [create EXCEPT ![o] = "refused"]
  /\ UNCHANGED <<rowVars, inserts, update, visit, boundVars, histVars>>

\* The row is stored; Promise.all has sent the inserts of all tasks.
StoreOrder(o) ==
  /\ create[o] = "admitted"
  /\ status' = [status EXCEPT ![o] = "SUBMITTED"]
  /\ inserts' = [inserts EXCEPT ![o] = TaskTypes(o)]
  /\ create' = [create EXCEPT ![o] = "tasks"]
  /\ UNCHANGED <<tasks, drive, preference, events, feedback, update, visit,
                 boundVars, histVars>>

\* The inserts run on connections of their own, in any order, also after one
\* of them has failed and the request with it.
CreateTask(o, t) ==
  /\ t \in inserts[o]
  /\ tasks' = [tasks EXCEPT ![o][t] = "OPEN"]
  /\ inserts' = [inserts EXCEPT ![o] = @ \ {t}]
  /\ create' = [create EXCEPT ![o] = IF @ = "tasks" /\ inserts[o] = {t}
                                     THEN "assigning" ELSE @]
  /\ UNCHANGED <<status, drive, preference, events, feedback, update, visit,
                 boundVars, histVars>>

\* An upsert that leaves an existing assignment alone; a preferred driver is
\* planned next.
EnsureAssignment(o) ==
  /\ create[o] = "assigning"
  /\ drive' = [drive EXCEPT ![o] = IF @ = "none" THEN "PLANNED" ELSE @]
  /\ \E next \in {"planning", "preferring"} :
       create' = [create EXCEPT ![o] = next]
  /\ UNCHANGED <<status, tasks, preference, events, feedback, inserts, update,
                 visit, boundVars, histVars>>

\* planDriver sets the assignment back to PLANNED, whatever it was.
PlanPreferred(o) ==
  /\ create[o] = "planning"
  /\ drive' = [drive EXCEPT ![o] = "PLANNED"]
  /\ create' = [create EXCEPT ![o] = "preferring"]
  /\ UNCHANGED <<status, tasks, preference, events, feedback, inserts, update,
                 visit, boundVars, histVars>>

\* Seeded fault: an existing preference ends the request.
FindPreference_Returns(o) ==
  /\ create[o] = "preferring"
  /\ create' = [create EXCEPT ![o] = IF o \in preference THEN "done"
                                                        ELSE "inserting"]
  /\ UNCHANGED <<rowVars, inserts, update, visit, boundVars, histVars>>

\* ensurePreference: look for the row, ...
FindPreference(o) ==
  /\ create[o] = "preferring"
  /\ create' = [create EXCEPT ![o] = IF o \in preference THEN "recording"
                                                        ELSE "inserting"]
  /\ UNCHANGED <<rowVars, inserts, update, visit, boundVars, histVars>>

\* ... insert it: the unique index fails the request if another was faster.
InsertPreference(o) ==
  /\ create[o] = "inserting"
  /\ preference' = preference \cup {o}
  /\ IF o \in preference
       THEN /\ create' = [create EXCEPT ![o] = "failed"]
            /\ broken' = broken \cup {o}
       ELSE /\ create' = [create EXCEPT ![o] = "recording"]
            /\ UNCHANGED broken
  /\ UNCHANGED <<status, tasks, drive, events, feedback, inserts, update, visit,
                 boundVars, hasty, early, crossed, edited>>

RecordCreated(o) ==
  /\ create[o] = "recording"
  /\ events' = [events EXCEPT ![o] = Append(@, "SUBMITTED")]
  /\ create' = [create EXCEPT ![o] = "done"]
  /\ UNCHANGED <<status, tasks, drive, preference, feedback, inserts, update,
                 visit, boundVars, histVars>>

\* A call fails or the process dies: what was done stays done, and of the task
\* inserts under way any may still be executed.
CreateFails(o) ==
  /\ create[o] \in Placing
  /\ mishaps < MishapBudget /\ mishaps' = mishaps + 1
  /\ create' = [create EXCEPT ![o] = "failed"]
  /\ \E left \in SUBSET inserts[o] : inserts' = [inserts EXCEPT ![o] = left]
  /\ broken' = broken \cup {o}
  /\ UNCHANGED <<rowVars, update, visit, updates, hasty, early, crossed,
                 edited>>

-----------------------------------------------------------------------------
(* PATCH /orders/:id/status *)

Goto(u, pc) == update' = [update EXCEPT ![u].pc = pc]
Finish(u)   == update' = [update EXCEPT ![u] = IdleUpdate]

\* Seeded fault: the transition is not looked up.
StartUpdate_Unchecked(u, o, to) ==
  /\ update[u].pc = "idle"
  /\ updates < UpdateBudget /\ updates' = updates + 1
  /\ status[o] # "none" /\ to # status[o]
  /\ update' = [update EXCEPT ![u] = [pc |-> "writing", order |-> o, to |-> to]]
  /\ early' = IF Placed(o) THEN early ELSE early \cup {o}
  /\ crossed' = IF UpdatesOf(o) = {} THEN crossed ELSE crossed \cup {o}
  /\ UNCHANGED <<rowVars, create, inserts, visit, mishaps, hasty, broken,
                 edited>>

\* The row is read and the transition looked up; a forbidden one is refused.
StartUpdate(u, o, to) ==
  /\ update[u].pc = "idle"
  /\ updates < UpdateBudget /\ updates' = updates + 1
  /\ to \in Allowed(status[o])
  /\ update' = [update EXCEPT ![u] = [pc |-> "writing", order |-> o, to |-> to]]
  /\ early' = IF Placed(o) THEN early ELSE early \cup {o}
  /\ crossed' = IF UpdatesOf(o) = {} THEN crossed ELSE crossed \cup {o}
  /\ UNCHANGED <<rowVars, create, inserts, visit, mishaps, hasty, broken,
                 edited>>

\* The write does not look at the status again.
WriteStatus(u) ==
  /\ update[u].pc = "writing"
  /\ status' = [status EXCEPT ![update[u].order] = update[u].to]
  /\ Goto(u, "kitchen")
  /\ UNCHANGED <<tasks, drive, preference, events, feedback, create, inserts,
                 visit, boundVars, histVars>>

\* Seeded fault: the kitchen hears nothing of a cancellation.
KitchenFollows_NotCancelled(u) ==
  LET o == update[u].order
      s == IF update[u].to = "CANCELLED" THEN "none"
                                         ELSE TaskStatusFor(update[u].to)
  IN  /\ update[u].pc = "kitchen"
      /\ tasks' = [tasks EXCEPT ![o] =
                     [t \in TaskType |-> IF s = "none" \/ @[t] = "none"
                                         THEN @[t] ELSE s]]
      /\ Goto(u, "dispatch")
      /\ UNCHANGED <<status, drive, preference, events, feedback, create,
                     inserts, visit, boundVars, histVars>>

\* One updateMany over the tasks that exist.
KitchenFollows(u) ==
  LET o == update[u].order
      s == TaskStatusFor(update[u].to)
  IN  /\ update[u].pc = "kitchen"
      /\ tasks' = [tasks EXCEPT ![o] =
                     [t \in TaskType |-> IF s = "none" \/ @[t] = "none"
                                         THEN @[t] ELSE s]]
      /\ Goto(u, "dispatch")
      /\ UNCHANGED <<status, drive, preference, events, feedback, create,
                     inserts, visit, boundVars, histVars>>

\* Nothing is done for an order without an assignment; one that is found is
\* never deleted, so that the look-up and the write are one step.
DispatchFollows(u) ==
  LET o == update[u].order
      s == DriveStatusFor(update[u].to)
  IN  /\ update[u].pc = "dispatch"
      /\ drive' = [drive EXCEPT ![o] = IF s = "none" \/ @ = "none" THEN @ ELSE s]
      /\ Goto(u, "recording")
      /\ UNCHANGED <<status, tasks, preference, events, feedback, create,
                     inserts, visit, boundVars, histVars>>

RecordStatus(u) ==
  /\ update[u].pc = "recording"
  /\ events' = [events EXCEPT ![update[u].order] = Append(@, update[u].to)]
  /\ Goto(u, "notifying")
  /\ UNCHANGED <<status, tasks, drive, preference, feedback, create, inserts,
                 visit, boundVars, histVars>>

\* After push and mail, which change nothing here: ask for feedback, or end.
AfterNotice(u) == IF update[u].to = "DELIVERED" THEN Goto(u, "requesting")
                                                ELSE Finish(u)

Notify(u) ==
  /\ update[u].pc = "notifying"
  /\ IF update[u].order \in preference THEN AfterNotice(u)
                                       ELSE Goto(u, "inserting")
  /\ UNCHANGED <<rowVars, create, inserts, visit, boundVars, histVars>>

NotifyInserting(u) ==
  LET o == update[u].order
  IN  /\ update[u].pc = "inserting"
      /\ preference' = preference \cup {o}
      /\ IF o \in preference THEN Finish(u) /\ broken' = broken \cup {o}
                             ELSE AfterNotice(u) /\ UNCHANGED broken
      /\ UNCHANGED <<status, tasks, drive, events, feedback, create, inserts,
                     visit, boundVars, hasty, early, crossed, edited>>

RequestFeedback(u) ==
  /\ update[u].pc = "requesting"
  /\ feedback' = feedback \cup {update[u].order}
  /\ Finish(u)
  /\ UNCHANGED <<status, tasks, drive, preference, events, create, inserts,
                 visit, boundVars, histVars>>

UpdateFails(u) ==
  /\ update[u].pc # "idle"
  /\ mishaps < MishapBudget /\ mishaps' = mishaps + 1
  /\ broken' = broken \cup {update[u].order}
  /\ Finish(u)
  /\ UNCHANGED <<rowVars, create, inserts, visit, updates, hasty, early,
                 crossed, edited>>

-----------------------------------------------------------------------------
(* The customer's tracking page and the staff *)

\* getTrackingSnapshot, registerPushSubscription and
\* updateNotificationPreferences look for the preference as well, ...
Visit(o) ==
  /\ status[o] # "none" /\ o \notin preference /\ o \notin visit
  /\ visit' = visit \cup {o}
  /\ UNCHANGED <<rowVars, create, inserts, update, boundVars, histVars>>

\* ... and insert it, or fail.
VisitInserts(o) ==
  /\ o \in visit
  /\ visit' = visit \ {o}
  /\ preference' = preference \cup {o}
  /\ UNCHANGED <<status, tasks, drive, events, feedback, create, inserts, update,
                 boundVars, histVars>>

Edit(o) ==
  /\ mishaps < MishapBudget /\ mishaps' = mishaps + 1
  /\ edited' = edited \cup {o}
  /\ UNCHANGED <<status, preference, events, feedback, pcVars, updates,
                 hasty, early, crossed, broken>>

UpdateTaskStatus(o, t, s) ==
  /\ tasks[o][t] # "none"
  /\ tasks' = [tasks EXCEPT ![o][t] = s]
  /\ Edit(o) /\ UNCHANGED drive

PlanDriver(o) ==
  /\ status[o] # "none"
  /\ drive' = [drive EXCEPT ![o] = "PLANNED"]
  /\ Edit(o) /\ UNCHANGED tasks

UpdateAssignmentStatus(o, s) ==
  /\ drive[o] # "none"
  /\ drive' = [drive EXCEPT ![o] = s]
  /\ Edit(o) /\ UNCHANGED tasks

-----------------------------------------------------------------------------
\* What a request does of its own accord once it has begun.
CreateStep(o) ==
  \/ StoreOrder(o) \/ \E t \in TaskType : CreateTask(o, t)
  \/ EnsureAssignment(o) \/ PlanPreferred(o)
  \/ FindPreference(o) \/ InsertPreference(o) \/ RecordCreated(o)

UpdateStep(u) ==
  \/ WriteStatus(u) \/ KitchenFollows(u) \/ DispatchFollows(u)
  \/ RecordStatus(u) \/ Notify(u) \/ NotifyInserting(u) \/ RequestFeedback(u)

Staff ==
  \E o \in Orders :
    \/ \E t \in TaskType, s \in TaskEdits : UpdateTaskStatus(o, t, s)
    \/ \E s \in DriveEdits : UpdateAssignmentStatus(o, s)
    \/ PlanDriver(o)

Next ==
  \/ \E o \in Orders : \/ ReserveCapacity(o) \/ RefuseStock(o) \/ CreateStep(o)
                       \/ CreateFails(o) \/ Visit(o) \/ VisitInserts(o)
  \/ \E u \in Updates : \/ \E o \in Orders, to \in OrderStatus : StartUpdate(u, o, to)
                        \/ UpdateStep(u) \/ UpdateFails(u)
  \/ Staff

Spec == Init /\ [][Next]_vars

-----------------------------------------------------------------------------
TypeOK ==
  /\ status \in [Orders -> OrderStatus \cup {"none"}]
  /\ tasks \in [Orders -> [TaskType -> TaskStatus \cup {"none"}]]
  /\ drive \in [Orders -> DriveStatus \cup {"none"}]
  /\ preference \subseteq Orders /\ feedback \subseteq Orders
  /\ events \in [Orders -> Seq(OrderStatus)]
  /\ create \in [Orders -> CreatePhases]
  /\ inserts \in [Orders -> SUBSET TaskType]
  /\ update \in [Updates -> [pc : UpdatePhases, order : Orders \cup {NoOrder},
                             to : OrderStatus]]
  /\ visit \subseteq Orders
  /\ updates \in Nat /\ mishaps \in Nat
  /\ hasty \subseteq Orders /\ early \subseteq Orders /\ crossed \subseteq Orders
  /\ broken \subseteq Orders /\ edited \subseteq Orders

\* No request is being served for o.
AtRest(o) == Placed(o) /\ UpdatesOf(o) = {}

\* The active orders that nothing overlapped with.
Settled == Active \ (hasty \cup crossed)

\* A delivery slot is overbooked only by orders that were admitted while
\* another one was admitted and not yet stored, or that two overlapping updates
\* brought back from CANCELLED or DELIVERED, or because an order with a
\* negative load, which had made room for others, has left the slot again or is
\* one of those.
OverbookingHasCause ==
  \A res \in Resources :
    \/ Usage(Settled, res) =< Capacity[res]
    \/ \E o \in Orders \ Settled : status[o] # "none" /\ Load[o][res] < 0

\* The slot's capacity is never exceeded.
SlotNeverOverbooked ==
  \A res \in Resources : Usage(Active, res) =< Capacity[res]

\* An order's status only takes the steps of ORDER_TRANSITIONS, unless two of
\* its updates overlap.
StatusStepsAreAllowed ==
  [][\A o \in Orders :
       status'[o] # status[o] /\ status[o] # "none"
         => status'[o] \in Allowed(status[o]) \/ o \in crossed]_vars

\* At rest, the tasks and the driver are where the order's status wants them.
WorkAtRest ==
  \A o \in Orders \ (early \cup crossed \cup broken \cup edited) :
    AtRest(o) =>
      /\ TaskStatusFor(status[o]) # "none" =>
           \A t \in TaskTypes(o) : tasks[o][t] = TaskStatusFor(status[o])
      /\ DriveStatusFor(status[o]) # "none" =>
           drive[o] = DriveStatusFor(status[o])

\* Kitchen and warehouse never see one order in two states.
TasksMoveTogether ==
  \A o \in Orders \ (early \cup edited) : \A t, v \in TaskType :
    "none" \notin {tasks[o][t], tasks[o][v]} => tasks[o][t] = tasks[o][v]

\* Tasks and driver follow the order: at rest they are where its status wants
\* them, unless requests for the order overlapped or failed or the staff
\* intervened; and at any time its tasks agree, even if updates overlap or fail,
\* unless one of them ran before the tasks were all created or the staff set one.
WorkFollowsStatus == WorkAtRest /\ TasksMoveTogether

\* The history shown to the customer is a path of ORDER_TRANSITIONS that starts
\* with SUBMITTED and, at rest, ends in the order's status.
HistoryIsPath ==
  \A o \in Orders \ (early \cup crossed \cup broken) :
    LET h == events[o]
    IN  /\ h # <<>> => h[1] = "SUBMITTED"
        /\ \A i \in 2 .. Len(h) : h[i] \in Allowed(h[i - 1])
        /\ AtRest(o) /\ status[o] # "none" => h # <<>> /\ h[Len(h)] = status[o]

\* Feedback is asked only of customers whose order is delivered, and stays so,
\* unless two updates overlap.
FeedbackAfterDelivery ==
  \A o \in feedback \ crossed : status[o] = "DELIVERED"
=============================================================================
