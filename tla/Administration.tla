--------------------------- MODULE Administration ---------------------------
(***************************************************************************)
(* The administration of the shop at work: goods, registers and access.    *)
(*                                                                         *)
(* Bound: a behaviour has one of Casts: the requests that are made, and    *)
(* the deliveries, registers, roles and users that were there before.      *)
(***************************************************************************)
EXTENDS Inventory, TenantConfig, AccessControl

CONSTANT Casts

ASSUME CastAssumption ==
  /\ Casts \subseteq [requests : SUBSET Requests,
                      known : SUBSET (Deliveries \cup Registers \cup Roles \cup Users)]
  /\ \A c \in Casts : c.requests \cap c.known = {}

VARIABLE cast

vars == <<overlapVars, stockVars, configVars, accessVars, cast>>

Init ==
  /\ cast \in Casts
  /\ OverlapInit
  /\ StockInit(cast.known \cap Deliveries)
  /\ ConfigInit(cast.known \cap Registers)
  /\ AccessInit(cast.known \cap (Roles \cup Users))

Request(r) ==
  \/ (BeginStock(r) \/ StockStep(r)) /\ UNCHANGED <<configVars, accessVars>>
  \/ (BeginOperation(r) \/ ConfigStep(r)) /\ UNCHANGED <<stockVars, accessVars>>
  \/ (BeginAdmin(r) \/ AdminStep(r)) /\ UNCHANGED <<stockVars, configVars>>
  \/ Fail(r) /\ UNCHANGED <<stockVars, configVars, accessVars>>

Next == (\E r \in cast.requests : Request(r)) /\ UNCHANGED cast

Spec == Init /\ [][Next]_vars

-----------------------------------------------------------------------------
(* Every variable keeps to its type.                                         *)
TypeOK ==
  /\ at \in [Requests -> Still \cup StockSteps \cup ConfigSteps \cup AccessSteps]
  /\ met \in [Requests -> SUBSET Requests]
  /\ StockTypeOK
  /\ ConfigTypeOK
  /\ AccessTypeOK
  /\ cast \in Casts
=============================================================================
