-------------------------- MODULE MCOrderFulfilment --------------------------
(* Instances of OrderFulfilment for TLC. *)
EXTENDS OrderFulfilment, TLC

CONSTANT Credits \* the orders with a negative load

\* All orders fit by their number, but not two by what they take of the store,
\* unless an order with a negative load makes room.
MCLoad == [o \in Orders |->
             [orders |-> 1, kitchen |-> IF o \in KitchenOrders THEN 1 ELSE 0,
              storage |-> IF o \in Credits THEN -1 ELSE 2]]

MCCapacity == [orders |-> 3, kitchen |-> 2, storage |-> 3]

\* The slot is a matter of admissions and statuses: where only it is asked for,
\* the customers' visits and the preferred drivers, which change neither, are
\* left out.
SlotOnly == visit = {} /\ \A o \in Orders : create[o] # "planning"

Symmetry == Permutations(Updates) \cup Permutations(Orders \ (Credits \cup KitchenOrders))
=============================================================================
