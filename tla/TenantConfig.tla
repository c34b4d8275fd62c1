---------------------------- MODULE TenantConfig ----------------------------
(***************************************************************************)
(* The TSS and the cash registers of a tenant (tenant-config.service.ts)   *)
(* and the register that signs (fiscal-management.service.ts).  A change   *)
(* that makes a register the default takes the flag from the others in a   *)
(* second write.                                                           *)
(*                                                                         *)
(* Labels, locations and serial numbers tell nothing apart here, and the   *)
(* set of a tenant's modules is replaced in one transaction: left out.  So *)
(* are the upserts and setDefault... of fiscal management, which nothing   *)
(* calls.                                                                  *)
(***************************************************************************)
EXTENDS Overlap, Naturals, FiniteSets

CONSTANTS
  Registers, Devices,
  Installers,  \* createTss
  Openers,     \* createCashRegister
  Movers,      \* updateCashRegister
  Removers,    \* deleteCashRegister
  Scrappers,   \* deleteTss
  About,       \* the register or the TSS a request is about
  Device,      \* the TSS a register is to use, NoDevice if an update names none
  Flag,        \* what a request says of isDefault: "yes", "no" or "unsaid"
  NoDevice, NoRegister

Writers   == Openers \cup Movers
Operators == Installers \cup Writers \cup Removers \cup Scrappers

ASSUME ConfigAssumption ==
  /\ Operators \subseteq Requests
  /\ IsFiniteSet(Registers)
  /\ Installers \cap (Writers \cup Removers \cup Scrappers) = {}
  /\ Openers \cap (Movers \cup Removers \cup Scrappers) = {}
  /\ Movers \cap (Removers \cup Scrappers) = {}
  /\ Removers \cap Scrappers = {}
  /\ About \in [Operators -> Registers \cup Devices]
  /\ \A r \in Writers \cup Removers : About[r] \in Registers
  /\ \A r \in Installers \cup Scrappers : About[r] \in Devices
  /\ Device \in [Writers -> Devices \cup {NoDevice}]
  /\ \A r \in Openers : Device[r] # NoDevice
  /\ Flag \in [Writers -> {"yes", "no", "unsaid"}]
  /\ NoDevice \notin Devices
  /\ NoRegister \notin Registers

VARIABLES
  devices,  \* the TSS there are
  register, \* the TSS of each register, NoDevice if there is no such register, and its flag
  age,      \* the order in which the registers were created
  chosen    \* history: the register last made the default

configVars == <<devices, register, age, chosen>>

Register == [device : Devices \cup {NoDevice}, isDefault : BOOLEAN]
ConfigSteps == {"device", "write", "unset", "count", "delete"}

Open(k) == register[k].device # NoDevice
Gone == [device |-> NoDevice, isDefault |-> FALSE]

\* Before the start the registers of known are open, and one of them may be the default.
ConfigInit(known) ==
  /\ devices = Devices \ {About[r] : r \in Installers}
  /\ \E use \in [known -> devices] : \E k \in known \cup {NoRegister} :
       /\ register = [r \in Registers |->
            IF r \in known THEN [device |-> use[r], isDefault |-> r = k] ELSE Gone]
       /\ chosen = k
  /\ age \in [Registers -> 0 .. Cardinality(known)]
  /\ \A k \in Registers : (age[k] = 0) <=> (k \notin known)
  /\ \A k, l \in known : k # l => age[k] # age[l]

-----------------------------------------------------------------------------
\* getActiveContext: the register whose sales a TSS signs is the first default one by age, or
\* else the first.
First(K) == CHOOSE k \in K : \A l \in K : age[k] <= age[l]
SigningRegister ==
  LET opened == {k \in Registers : Open(k)}
      flagged == {k \in opened : register[k].isDefault}
  IN IF flagged # {} THEN First(flagged)
     ELSE IF opened # {} THEN First(opened) ELSE NoRegister

\* A new TSS; one with the id of another is turned down by the database.
Install(r) ==
  /\ Start(r, IF About[r] \in devices THEN "failed" ELSE "done")
  /\ devices' = devices \cup {About[r]}
  /\ UNCHANGED <<register, age, chosen>>

\* An update of a register that is not there is turned down, and so is its removal; an update
\* that names no TSS checks none.
BeginConfig(r) ==
  LET there == IF r \in Scrappers THEN About[r] \in devices ELSE Open(About[r]) IN
  /\ Start(r, IF ~there /\ r \notin Openers THEN "failed"
              ELSE IF r \in Scrappers THEN "count"
              ELSE IF r \in Removers THEN "delete"
              ELSE IF Device[r] = NoDevice THEN "write" ELSE "device")
  /\ UNCHANGED configVars

CheckDevice(r) ==
  /\ at[r] = "device"
  /\ Goto(r, IF Device[r] \in devices THEN "write" ELSE "failed")
  /\ UNCHANGED configVars

\* The database turns down a second register of one id, the update of a register that has gone,
\* and a TSS that has gone.
MayWrite(r) ==
  /\ Open(About[r]) <=> r \in Movers
  /\ Device[r] \in devices \cup {NoDevice}

WriteRegister(r) ==
  LET k == About[r]
      old == register[k]
  IN
  /\ at[r] = "write"
  /\ IF MayWrite(r)
       THEN /\ register' = [register EXCEPT ![k] =
                 [device |-> IF Device[r] = NoDevice THEN old.device ELSE Device[r],
                  isDefault |-> IF Flag[r] = "unsaid" THEN old.isDefault ELSE Flag[r] = "yes"]]
            /\ age' = IF r \in Movers THEN age
                      ELSE [age EXCEPT ![k] = 1 + Cardinality({l \in Registers : age[l] > 0})]
            /\ chosen' = IF Flag[r] = "yes" THEN k
                         ELSE IF Flag[r] = "no" /\ chosen = k THEN NoRegister ELSE chosen
            /\ Goto(r, IF Flag[r] = "yes" THEN "unset" ELSE "done")
       ELSE Goto(r, "failed") /\ UNCHANGED <<register, age, chosen>>
  /\ UNCHANGED devices

\* Mutant: the flag is taken from all registers.
UnsetOthers_All(r) ==
  /\ at[r] = "unset"
  /\ register' = [k \in Registers |-> [register[k] EXCEPT !.isDefault = FALSE]]
  /\ Goto(r, "done")
  /\ UNCHANGED <<devices, age, chosen>>

\* unsetOtherDefaultCashRegisters.
UnsetOthers(r) ==
  /\ at[r] = "unset"
  /\ register' = [k \in Registers |->
       IF k = About[r] THEN register[k] ELSE [register[k] EXCEPT !.isDefault = FALSE]]
  /\ Goto(r, "done")
  /\ UNCHANGED <<devices, age, chosen>>

RemoveRegister(r) ==
  /\ at[r] = "delete" /\ r \in Removers
  /\ register' = [register EXCEPT ![About[r]] = Gone]
  /\ Goto(r, IF Open(About[r]) THEN "done" ELSE "failed")
  /\ UNCHANGED <<devices, age, chosen>>

\* A TSS goes only if no register uses it, as far as was counted before.
CountRegisters(r) ==
  /\ at[r] = "count"
  /\ Goto(r, IF \E k \in Registers : register[k].device = About[r] THEN "failed" ELSE "delete")
  /\ UNCHANGED configVars

\* The registers that use it go with it.
DeleteTss(r) ==
  /\ at[r] = "delete" /\ r \in Scrappers
  /\ devices' = devices \ {About[r]}
  /\ register' = [k \in Registers |->
       IF register[k].device = About[r] THEN Gone ELSE register[k]]
  /\ Goto(r, IF About[r] \in devices THEN "done" ELSE "failed")
  /\ UNCHANGED <<age, chosen>>

-----------------------------------------------------------------------------
BeginOperation(r) ==
  \/ r \in Installers /\ Install(r)
  \/ r \in Operators \ Installers /\ BeginConfig(r)

ConfigStep(r) ==
  \/ r \in Writers   /\ (CheckDevice(r) \/ WriteRegister(r) \/ UnsetOthers(r))
  \/ r \in Removers  /\ RemoveRegister(r)
  \/ r \in Scrappers /\ (CountRegisters(r) \/ DeleteTss(r))

-----------------------------------------------------------------------------
ConfigTypeOK ==
  /\ devices \subseteq Devices
  /\ register \in [Registers -> Register]
  /\ age \in [Registers -> Nat]
  /\ chosen \in Registers \cup {NoRegister}

(* When all requests have ended, sales are signed by the register last made  *)
(* the default, unless two requests that made a register the default         *)
(* overlapped (each takes the flag from the other's), one failed before it   *)
(* took the flag from the others, the register was deleted, or it was        *)
(* written between the two steps of a deletion of its TSS, and went with it. *)
(* The exceptions go by who has overlapped with whom, at whatever step, and   *)
(* so forgive some overlaps that do no harm.                                 *)
SigningRegisterHasCause ==
  LET makers == {w \in Writers : Flag[w] = "yes"} IN
  (Busy = {} /\ chosen # NoRegister) =>
    \/ SigningRegister = chosen
    \/ \E v, w \in makers : v \in met[w]
    \/ \E w \in makers : at[w] = "failed" /\ register[About[w]].isDefault
    \/ \E r \in Removers : About[r] = chosen /\ at[r] = "done"
    \/ \E s \in Scrappers, w \in Writers : About[w] = chosen /\ w \in met[s]
=============================================================================
