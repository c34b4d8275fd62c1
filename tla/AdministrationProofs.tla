------------------------ MODULE AdministrationProofs ------------------------
(***************************************************************************)
(* Proofs about the administration of the shop, with everything in it at   *)
(* work: the audit log tells who may do what, the quantity of a batch is   *)
(* accounted for, what was counted is in stock, a price is the one its     *)
(* history states and the register last made the default signs, each       *)
(* unless a request has failed half-way or two have overlapped.            *)
(*                                                                         *)
(* What a step does to access, goods, prices and registers is one of       *)
(* the moves below, and the invariants are proved of the moves.            *)
(***************************************************************************)
EXTENDS Administration, FiniteSetTheorems, SequenceTheorems, WellFoundedInduction, TLAPS

rights == <<grants, active, entry, changed>>
Steps  == StockSteps \cup ConfigSteps \cup AccessSteps
\* The awaits at which a change has been made and its log entry has not.
Owing  == {"grant", "audit"}
Makers == Admins \ Assigners

-----------------------------------------------------------------------------
(* The moves.                                                                *)

Enter(r) == (\E s \in (Steps \cup Still) \ Owing : Start(r, s)) /\ UNCHANGED rights
Onward(r) ==
  /\ at[r] \in Steps \ Owing
  /\ \E s \in (Steps \cup {"done", "failed"}) \ Owing : Goto(r, s)
  /\ UNCHANGED rights
Assign(r) ==
  /\ r \in Assigners /\ at[r] \in Steps
  /\ \E s \in {"audit", "done"} : Goto(r, s)
  /\ UNCHANGED rights
NewRole(r) ==
  /\ r \in RoleMakers /\ at[r] = "role" /\ Goto(r, "audit")
  /\ grants' = [grants EXCEPT ![Subject[r]] = Wanted[r]]
  /\ changed' = changed \cup {r}
  /\ UNCHANGED <<active, entry>>
Clear(r) ==
  /\ r \in Granters /\ at[r] = "clear" /\ Goto(r, "grant")
  /\ grants' = [grants EXCEPT ![Subject[r]] = {}]
  /\ changed' = changed \cup {r}
  /\ UNCHANGED <<active, entry>>
Fill(r) ==
  /\ r \in Granters /\ at[r] = "grant" /\ Goto(r, "audit")
  /\ grants' = [grants EXCEPT ![Subject[r]] = @ \cup Wanted[r]]
  /\ UNCHANGED <<active, entry, changed>>
SetUser(r) ==
  /\ r \in UserMakers \cup Switchers /\ at[r] \in {"user", "switch"} /\ Goto(r, "audit")
  /\ active' = [active EXCEPT ![Subject[r]] = Wanted[r]]
  /\ changed' = changed \cup {r}
  /\ UNCHANGED <<grants, entry>>
Log(r) ==
  /\ r \in Makers /\ at[r] = "audit" /\ Goto(r, "done")
  /\ entry' = [entry EXCEPT ![Subject[r]] = Wanted[r]]
  /\ UNCHANGED <<grants, active, changed>>
Break(r) == at[r] \in Steps /\ Goto(r, "failed") /\ UNCHANGED rights

Alters == \E r \in Requests : NewRole(r) \/ Clear(r) \/ Fill(r) \/ SetUser(r) \/ Log(r)
Go     == \E r \in Requests : Onward(r) \/ Assign(r) \/ Break(r)
Move   == (\E r \in Requests : Enter(r)) \/ Go \/ Alters \/ UNCHANGED <<overlapVars, rights>>

AtType == at \in [Requests -> Steps \cup Still]

LEMMA StockMoves ==
  ASSUME NEW r \in Requests, StockStep(r)
  PROVE  at[r] \in StockSteps /\ \E s \in StockSteps \cup {"done", "failed"} : Goto(r, s)
  <1>. USE DEF StockSteps, AfterSupplier, FirstStep, NextLine, NextCount
  <1>1. CASE FindSupplier(r) \/ CreateSupplier(r)
    BY <1>1 DEF FindSupplier, CreateSupplier
  <1>2. CASE FindArticle(r)
    BY <1>2 DEF FindArticle
  <1>3. CASE SetEan(r) \/ CreateArticle(r) \/ CreateBatch(r)
    BY <1>3 DEF SetEan, CreateArticle, CreateBatch
  <1>4. CASE PutLine(r)
    BY <1>4 DEF PutLine
  <1>5. CASE UpdateProduct(r)
    BY <1>5 DEF UpdateProduct
  <1>6. CASE WriteHistory(r) \/ WritePrice(r)
    BY <1>6 DEF WriteHistory, WritePrice
  <1>7. CASE OpenSheet(r) \/ AddItem(r)
    BY <1>7 DEF OpenSheet, AddItem
  <1>8. CASE LookUp(r)
    BY <1>8 DEF LookUp
  <1>9. CASE WriteItem(r)
    BY <1>9 DEF WriteItem
  <1>10. CASE Adjust(r) \/ WriteStock(r) \/ CloseSheet(r)
    BY <1>10 DEF Adjust, WriteStock, CloseSheet
  <1>. QED
    BY <1>1, <1>2, <1>3, <1>4, <1>5, <1>6, <1>7, <1>8, <1>9, <1>10 DEF StockStep

LEMMA ConfigMoves ==
  ASSUME NEW r \in Requests, ConfigStep(r)
  PROVE  at[r] \in ConfigSteps /\ \E s \in ConfigSteps \cup {"done", "failed"} : Goto(r, s)
  BY DEF ConfigStep, CheckDevice, WriteRegister, UnsetOthers, RemoveRegister, CountRegisters,
         DeleteTss, ConfigSteps

LEMMA BeginMoves ==
  ASSUME NEW r \in Requests, BeginStock(r) \/ BeginOperation(r) \/ BeginAdmin(r)
  PROVE  \E s \in (Steps \cup Still) \ Owing : Start(r, s)
  <1>. USE DEF Steps, StockSteps, ConfigSteps, AccessSteps, Still, Owing
  <1>1. CASE BeginStock(r)
    BY <1>1 DEF BeginStock, BeginDelivery, BeginImport, BeginUpdate, BeginPriceChange, BeginPlan,
                BeginClose, FirstStep, AfterSupplier
  <1>2. CASE BeginOperation(r)
    BY <1>2 DEF BeginOperation, Install, BeginConfig
  <1>3. CASE BeginAdmin(r)
    BY <1>3 DEF BeginAdmin, BeginGrant, BeginUserMaker, BeginSwitch, BeginAssign
  <1>. QED
    BY <1>1, <1>2, <1>3

LEMMA AdminMoves ==
  ASSUME NEW r \in Requests, AdminStep(r)
  PROVE  Onward(r) \/ Assign(r) \/ NewRole(r) \/ Clear(r) \/ Fill(r) \/ SetUser(r) \/ Log(r) \/ Break(r)
  <1>. USE AccessAssumption DEF Steps, AccessSteps, Still, Owing, rights, Makers, Admins, Governors, Hosts
  <1>1. CASE r \in Governors /\ (FindKeys(r) \/ CreateKeys(r))
    BY <1>1 DEF FindKeys, CreateKeys, Onward
  <1>2. CASE r \in RoleMakers /\ CreateRole(r)
    BY <1>2 DEF CreateRole, Onward, NewRole
  <1>3. CASE r \in Granters /\ ClearGrants(r)
    BY <1>3 DEF ClearGrants, Clear
  <1>4. CASE r \in Granters /\ WriteGrants(r)
    BY <1>4 DEF WriteGrants, Fill, Break
  <1>5. CASE r \in UserMakers /\ CreateUser(r)
    BY <1>5 DEF CreateUser, Onward, SetUser
  <1>6. CASE r \in Switchers /\ SwitchUser(r)
    BY <1>6 DEF SwitchUser, SetUser
  <1>7. CASE r \in Assigners /\ AssignRole(r)
    BY <1>7 DEF AssignRole, Assign
  <1>8. CASE r \in Admins /\ WriteAuditLog(r)
    BY <1>8 DEF WriteAuditLog, Assign, Log
  <1>. QED
    BY <1>1, <1>2, <1>3, <1>4, <1>5, <1>6, <1>7, <1>8 DEF AdminStep

\* Whatever happens in the administration is a move.
LEMMA NextMoves ==
  ASSUME cast.requests \subseteq Requests, AtType, [Next]_vars
  PROVE  Move
  <1>1. CASE UNCHANGED vars
    BY <1>1 DEF vars, accessVars, rights, overlapVars, Move
  <1>2. CASE Next
    <2>1. PICK r \in Requests : Request(r)
      BY <1>2 DEF Next
    <2>2. CASE UNCHANGED accessVars /\ (BeginStock(r) \/ BeginOperation(r))
      BY <2>2, BeginMoves DEF accessVars, rights, Enter, Move
    <2>3. CASE UNCHANGED accessVars /\ (StockStep(r) \/ ConfigStep(r))
      BY <2>3, StockMoves, ConfigMoves
      DEF accessVars, rights, Onward, Go, Move, Steps, Owing, StockSteps, ConfigSteps
    <2>4. CASE BeginAdmin(r)
      BY <2>4, BeginMoves
      DEF BeginAdmin, BeginGrant, BeginUserMaker, BeginSwitch, BeginAssign, accessVars, rights,
          Enter, Move
    <2>5. CASE AdminStep(r)
      BY <2>5, AdminMoves DEF Go, Alters, Move
    <2>6. CASE Fail(r) /\ UNCHANGED accessVars
      BY <2>6 DEF Fail, AtType, Break, Go, Move, accessVars, rights
    <2>. QED
      BY <2>1, <2>2, <2>3, <2>4, <2>5, <2>6 DEF Request
  <1>. QED
    BY <1>1, <1>2

-----------------------------------------------------------------------------
(* Who may do what, and the audit log.                                       *)

\* The requests about role or user x, what x is now, and what the log says of it.
Concerning(x) == {r \in Makers : Subject[r] = x}
Value(x)  == IF x \in Roles THEN grants[x] ELSE active[x]
Told(x)   == IF x \in Roles /\ entry[x] = Unknown THEN {} ELSE entry[x]

AccessType ==
  /\ AtType
  /\ met \in [Requests -> SUBSET Requests]
  /\ grants \in [Roles -> SUBSET Keys]
  /\ active \in [Users -> BOOLEAN \cup {Unknown}]
  /\ entry = [x \in Roles \cup Users |-> entry[x]]

\* Those that are under way have met one another.
MetInv == \A a, b \in Busy : a # b => b \in met[a]

ChangedInv == \A r \in Makers : at[r] \in Owing => r \in changed

\* No request about x has failed half-way, and no two have overlapped.
Clean(x) ==
  /\ \A r \in Concerning(x) : ~(at[r] = "failed" /\ r \in changed)
  /\ \A r, q \in Concerning(x) : q \notin met[r]

\* Then x is what the log says, or the one request that owes an entry has made it so far.
Faithful(x) ==
  /\ \A r \in Concerning(x) :
       /\ at[r] = "audit" => Value(x) = Wanted[r]
       /\ at[r] = "grant" => Value(x) = {}
  /\ (\A r \in Concerning(x) : at[r] \notin Owing) => Value(x) = Told(x)

AuditInv == \A x \in Roles \cup Users : Clean(x) => Faithful(x)

AccessInv == AccessType /\ MetInv /\ ChangedInv /\ AuditInv

LEMMA AccessInvInit == Init => AccessInv
  <1>. SUFFICES ASSUME Init PROVE AccessInv
    OBVIOUS
  <1>. USE DEF Init, OverlapInit
  <1>1. at = [r \in Requests |-> "idle"] /\ Busy = {}
    BY DEF Busy, Still
  <1>2. AccessType
    <2>1. PICK K \in SUBSET Keys : \A x \in Roles : grants[x] = IF x \in cast.known THEN K ELSE {}
      BY DEF AccessInit
    <2>2. grants \in [Roles -> SUBSET Keys]
      BY <2>1 DEF AccessInit
    <2>3. active \in [Users -> BOOLEAN \cup {Unknown}]
      BY DEF AccessInit
    <2>4. entry = [x \in Roles \cup Users |-> entry[x]]
      BY DEF AccessInit
    <2>. QED
      BY <2>2, <2>3, <2>4 DEF AccessType, AtType, Still
  <1>3. MetInv /\ ChangedInv
    BY <1>1, AccessAssumption DEF MetInv, ChangedInv, Owing, Makers
  <1>4. ASSUME NEW x \in Roles \cup Users PROVE Value(x) = Told(x)
    <2>1. CASE x \in Roles
      <3>1. x \notin cast.known => grants[x] = {}
        BY <2>1 DEF AccessInit
      <3>2. entry[x] = IF x \notin cast.known THEN Unknown ELSE grants[x]
        BY <2>1 DEF AccessInit
      <3>3. grants[x] # Unknown
        BY <1>2, <2>1, AccessAssumption DEF AccessType
      <3>. QED
        BY <2>1, <3>1, <3>2, <3>3 DEF Value, Told
    <2>2. CASE x \in Users
      BY <2>2, AccessAssumption DEF AccessInit, Value, Told
    <2>. QED
      BY <2>1, <2>2
  <1>5. AuditInv
    BY <1>1, <1>4, AccessAssumption DEF AuditInv, Faithful, Concerning, Makers
  <1>. QED
    BY <1>2, <1>3, <1>5 DEF AccessInv

\* Each move begins a request, or takes one from await to await.
LEMMA MoveShape ==
  ASSUME Move
  PROVE  \/ \E r \in Requests, s \in Steps \cup Still : Start(r, s) /\ UNCHANGED rights
         \/ \E r \in Requests, s \in Steps \cup Still : at[r] \in Steps /\ Goto(r, s)
         \/ UNCHANGED <<overlapVars, rights>>
  BY DEF Move, Enter, Go, Alters, Onward, Assign, Break, NewRole, Clear, Fill, SetUser, Log, Steps,
         AccessSteps, Still

LEMMA TypeKept == AccessType /\ Move => AccessType'
  <1>. SUFFICES ASSUME AccessType, Move PROVE AccessType'
    OBVIOUS
  <1>1. AtType' /\ met' \in [Requests -> SUBSET Requests]
    BY MoveShape DEF AccessType, AtType, Start, Goto, Busy, overlapVars
  <1>2. /\ grants' \in [Roles -> SUBSET Keys]
        /\ active' \in [Users -> BOOLEAN \cup {Unknown}]
        /\ entry' = [x \in Roles \cup Users |-> entry'[x]]
    <2>1. CASE UNCHANGED rights
      BY <2>1 DEF rights, AccessType
    <2>2. CASE Alters
      <3>1. PICK r \in Requests : NewRole(r) \/ Clear(r) \/ Fill(r) \/ SetUser(r) \/ Log(r)
        BY <2>2 DEF Alters
      <3>. USE AccessAssumption DEF AccessType, Governors, Hosts, Makers, Admins
      <3>2. CASE NewRole(r) \/ Clear(r) \/ Fill(r)
        BY <3>2 DEF NewRole, Clear, Fill
      <3>3. CASE SetUser(r)
        BY <3>3 DEF SetUser
      <3>4. CASE Log(r)
        BY <3>4 DEF Log
      <3>. QED
        BY <3>1, <3>2, <3>3, <3>4
    <2>. QED
      BY <2>1, <2>2 DEF Move, Enter, Go, Onward, Assign, Break
  <1>. QED
    BY <1>1, <1>2 DEF AccessType

LEMMA MetKept == AccessType /\ MetInv /\ Move => MetInv'
  <1>. SUFFICES ASSUME AccessType, MetInv, Move PROVE MetInv'
    OBVIOUS
  <1>1. CASE UNCHANGED overlapVars
    BY <1>1 DEF overlapVars, MetInv, Busy
  <1>2. CASE \E r \in Requests, s \in Steps \cup Still : Start(r, s)
    BY <1>2 DEF Start, MetInv, Busy, AccessType, AtType
  <1>3. CASE \E r \in Requests, s \in Steps \cup Still : at[r] \in Steps /\ Goto(r, s)
    <2>1. PICK r \in Requests, s \in Steps \cup Still : at[r] \in Steps /\ Goto(r, s)
      BY <1>3
    <2>2. r \in Busy
      BY <2>1 DEF Busy, Steps, StockSteps, ConfigSteps, AccessSteps, Still
    <2>. QED
      BY <2>1, <2>2 DEF Goto, MetInv, Busy, AccessType, AtType
  <1>. QED
    BY <1>1, <1>2, <1>3, MoveShape

LEMMA ChangedKept == AccessType /\ ChangedInv /\ Move => ChangedInv'
  <1>. SUFFICES ASSUME AccessType, ChangedInv, Move PROVE ChangedInv'
    OBVIOUS
  <1>. USE AccessAssumption DEF ChangedInv, AccessType, AtType, Makers, Owing
  <1>1. CASE \E r \in Requests : Enter(r)
    BY <1>1 DEF Enter, Start, rights
  <1>2. CASE Go
    BY <1>2 DEF Go, Onward, Assign, Break, Goto, rights
  <1>3. CASE Alters
    BY <1>3 DEF Alters, NewRole, Clear, Fill, SetUser, Log, Goto
  <1>4. CASE UNCHANGED <<overlapVars, rights>>
    BY <1>4 DEF overlapVars, rights
  <1>. QED
    BY <1>1, <1>2, <1>3, <1>4 DEF Move

\* What is not clean stays so.
LEMMA CleanBefore ==
  ASSUME AccessType, Move, NEW x, Clean(x)'
  PROVE  Clean(x)
  <1>. USE AccessAssumption DEF Clean, Concerning, Makers
  <1>1. changed \subseteq changed'
    BY DEF Move, Enter, Go, Alters, Onward, Assign, Break, NewRole, Clear, Fill, SetUser, Log, rights
  <1>2. \A r \in Requests : met[r] \subseteq met'[r] /\ (at[r] = "failed" => at'[r] = "failed")
    <2>1. CASE UNCHANGED overlapVars
      BY <2>1 DEF overlapVars
    <2>2. CASE \E r \in Requests, s \in Steps \cup Still : Start(r, s)
      BY <2>2 DEF Start, AccessType, AtType
    <2>3. CASE \E r \in Requests, s \in Steps \cup Still : at[r] \in Steps /\ Goto(r, s)
      BY <2>3 DEF Goto, AccessType, AtType, Steps, StockSteps, ConfigSteps, AccessSteps
    <2>. QED
      BY <2>1, <2>2, <2>3, MoveShape
  <1>. QED
    BY <1>1, <1>2

\* One request about a clean role or user is under way at most.
LEMMA Alone ==
  ASSUME MetInv, NEW x, Clean(x),
         NEW r \in Concerning(x), NEW q \in Concerning(x), at[r] \in Steps, at[q] \in Steps
  PROVE  r = q
  BY AccessAssumption
  DEF MetInv, Busy, Clean, Concerning, Makers, Steps, StockSteps, ConfigSteps, AccessSteps, Still

LEMMA AuditKept == AccessInv /\ Move => AuditInv'
  <1>. SUFFICES ASSUME AccessInv, Move, NEW x \in Roles \cup Users, Clean(x)'
                PROVE  Faithful(x)'
    BY DEF AuditInv
  <1>. USE AccessAssumption
  <1>1. Clean(x) /\ Faithful(x)
    BY CleanBefore DEF AccessInv, AuditInv
  <1>2. CASE UNCHANGED <<overlapVars, rights>>
    BY <1>1, <1>2 DEF overlapVars, rights, Faithful, Concerning, Value, Told
  <1>3. CASE \E r \in Requests : Enter(r)
    BY <1>1, <1>3
    DEF Enter, Start, rights, AccessInv, AccessType, AtType, Faithful, Concerning, Makers, Value, Told, Owing
  <1>4. CASE Go
    <2>1. PICK r \in Requests : Onward(r) \/ Assign(r) \/ Break(r)
      BY <1>4 DEF Go
    <2>2. CASE Onward(r) \/ Assign(r)
      BY <1>1, <2>2
      DEF Onward, Assign, Goto, rights, AccessInv, AccessType, AtType, Faithful, Concerning, Makers,
          Value, Told, Owing
    <2>3. CASE Break(r)
      <3>1. r \in Concerning(x) => at[r] \notin Owing
        BY <2>3 DEF Break, Goto, rights, AccessInv, AccessType, AtType, ChangedInv, Clean, Concerning,
                    Makers
      <3>. QED
        BY <1>1, <2>3, <3>1
        DEF Break, Goto, rights, AccessInv, AccessType, AtType, Faithful, Concerning, Makers,
            Value, Told, Owing
    <2>. QED
      BY <2>1, <2>2, <2>3
  <1>5. CASE Alters
    <2>1. PICK r \in Requests : NewRole(r) \/ Clear(r) \/ Fill(r) \/ SetUser(r) \/ Log(r)
      BY <1>5 DEF Alters
    <2>. USE DEF AccessInv, AccessType, AtType, Goto, Makers, Admins, Governors, Hosts
    <2>2. r \in Makers /\ at[r] \in Steps /\ Subject[r] \in Roles \cup Users
      BY <2>1 DEF NewRole, Clear, Fill, SetUser, Log, Steps, AccessSteps
    <2>3. CASE Subject[r] # x
      <3>1. /\ \A q \in Concerning(x) : at'[q] = at[q]
            /\ Value(x)' = Value(x) /\ Told(x)' = Told(x)
        BY <2>1, <2>3 DEF NewRole, Clear, Fill, SetUser, Log, Concerning, Value, Told
      <3>. QED
        BY <1>1, <3>1 DEF Faithful, Concerning
    <2>4. CASE Subject[r] = x
      <3>1. \A q \in Concerning(x) : q # r => at'[q] \notin Owing /\ at[q] \notin Owing
        BY <1>1, <2>1, <2>2, <2>4, Alone
        DEF NewRole, Clear, Fill, SetUser, Log, Concerning, Owing, Steps, AccessSteps
      <3>2. CASE NewRole(r) \/ Clear(r) \/ SetUser(r)
        BY <3>1, <3>2, <2>2, <2>4 DEF NewRole, Clear, SetUser, Faithful, Value, Concerning, Owing
      <3>3. CASE Fill(r)
        <4>1. x \in Roles /\ grants[x] = {}
          BY <1>1, <3>3, <2>2, <2>4 DEF Fill, Faithful, Value, Concerning
        <4>2. Value(x)' = Wanted[r] /\ at'[r] = "audit"
          BY <4>1, <3>3, <2>4 DEF Fill, Value
        <4>. QED
          BY <3>1, <4>2, <2>2, <2>4 DEF Faithful, Concerning, Owing
      <3>4. CASE Log(r)
        <4>1. Value(x)' = Wanted[r] /\ Told(x)' = Wanted[r]
          BY <1>1, <3>4, <2>2, <2>4 DEF Log, Faithful, Value, Told, Concerning
        <4>. QED
          BY <3>1, <3>4, <2>4, <4>1 DEF Log, Faithful, Concerning, Owing
      <3>. QED
        BY <2>1, <3>2, <3>3, <3>4
    <2>. QED
      BY <2>3, <2>4
  <1>. QED
    BY <1>2, <1>3, <1>4, <1>5 DEF Move

LEMMA SmallestOf ==
  ASSUME NEW S, S \subseteq Nat, S # {}
  PROVE  \E k \in S : \A j \in S : k <= j
  <1>. DEFINE T == {0 .. k : k \in S}
  <1>1. T \subseteq FiniteSubsetsOf(Nat)
    <2>1. ASSUME NEW k \in S PROVE 0 .. k \in SUBSET Nat /\ IsFiniteSet(0 .. k)
      BY FS_Interval
    <2>. QED
      BY <2>1 DEF FiniteSubsetsOf
  <1>2. PICK U \in T : \A V \in T : ~(<<V, U>> \in StrictSubsetOrdering(Nat))
    <2>1. T # {}
      OBVIOUS
    <2>. HIDE DEF T
    <2>. QED
      BY <1>1, <2>1, FS_StrictSubsetOrderingWellFounded, WFMin
  <1>3. PICK k \in S : U = 0 .. k
    OBVIOUS
  <1>4. ASSUME NEW j \in S, j < k PROVE FALSE
    <2>1. 0 .. j \subseteq 0 .. k /\ k \in 0 .. k /\ k \notin 0 .. j
      BY <1>4
    <2>2. <<0 .. j, 0 .. k>> \in StrictSubsetOrdering(Nat)
      <3>1. 0 .. j \in SUBSET Nat /\ 0 .. k \in SUBSET Nat
        OBVIOUS
      <3>. QED
        BY <2>1, <3>1 DEF StrictSubsetOrdering
    <2>3. 0 .. j \in T
      OBVIOUS
    <2>. QED
      BY <1>2, <1>3, <2>2, <2>3
  <1>. QED
    BY <1>4

-----------------------------------------------------------------------------
(* The papers a request works from.                                          *)

\* Every line of a delivery that is not turned down can be booked.
LEMMA ParsedLines ==
  ASSUME NEW d \in Deliveries
  PROVE  ParsedPayload(d) \in
           Seq([sku : Skus, ean : Eans \cup {NoEan}, price : Int, qty : Int, lot : Lots])
  <1>. DEFINE Raw == [sku : Skus \cup {Absent}, ean : Skus \cup {Absent}, price : Int,
                      qty : Int \cup {Absent}, lot : Lots]
              L == [sku : Skus, ean : Eans \cup {NoEan}, price : Int, qty : Int, lot : Lots]
              n == Len(Payload[d])
  <1>1. Payload[d] \in Seq(Raw)
    BY InventoryAssumption
  <1>2. n \in Nat /\ DOMAIN Payload[d] = 1 .. n /\ \A k \in 1 .. n : Payload[d][k] \in Raw
    BY <1>1, LenProperties
  <1>3. CASE \E k \in DOMAIN Payload[d] : ~Legible(Payload[d][k])
    BY <1>3 DEF ParsedPayload
  <1>4. CASE \A k \in DOMAIN Payload[d] : Legible(Payload[d][k])
    <2>1. ASSUME NEW k \in 1 .. n PROVE NormalizeBnnItem(Payload[d][k]) \in L
      <3>. DEFINE raw == Payload[d][k]
      <3>1. raw \in Raw /\ Legible(raw)
        BY <1>2, <1>4
      <3>2. raw.ean # Absent => Ean[raw.ean] \in Eans \cup {NoEan}
        BY <3>1, InventoryAssumption
      <3>3. raw.qty \in Int /\ (raw.sku # Absent \/ raw.ean # Absent)
        BY <3>1 DEF Legible
      <3>. HIDE DEF raw
      <3>4. NormalizeBnnItem(raw) \in L
        BY <3>1, <3>2, <3>3 DEF NormalizeBnnItem
      <3>. QED
        BY <3>4 DEF raw
    <2>2. ParsedPayload(d) = [k \in 1 .. n |-> NormalizeBnnItem(Payload[d][k])]
      BY <1>2, <1>4 DEF ParsedPayload
    <2>3. ParsedPayload(d) \in [1 .. n -> L]
      BY <2>1, <2>2
    <2>. QED
      BY <1>2, <2>3, SeqDef
  <1>. QED
    BY <1>3, <1>4

LEMMA Documents ==
  ASSUME NEW r \in Deliveries \cup Importers
  PROVE  /\ Len(Document[r]) \in Nat
         /\ DOMAIN Document[r] = 1 .. Len(Document[r])
         /\ Document[r] # <<>> => 1 \in DOMAIN Document[r]
         /\ \A k \in DOMAIN Document[r] :
              /\ Document[r][k].sku \in Skus
              /\ Document[r][k].ean \in Eans \cup {NoEan, Absent}
              /\ Document[r][k].price \in Int
              /\ r \in Deliveries => /\ Document[r][k].qty \in Int /\ Document[r][k].lot \in Lots
                                    /\ Document[r][k].ean \in Eans \cup {NoEan}
  <1>1. CASE r \in Deliveries
    <2>. DEFINE L == [sku : Skus, ean : Eans \cup {NoEan}, price : Int, qty : Int, lot : Lots]
    <2>1. Document[r] = ParsedPayload(r)
      BY <1>1 DEF Document
    <2>2. Document[r] \in Seq(L)
      BY <1>1, <2>1, ParsedLines
    <2>3. /\ Len(Document[r]) \in Nat /\ DOMAIN Document[r] = 1 .. Len(Document[r])
          /\ Document[r] \in [1 .. Len(Document[r]) -> L]
          /\ Document[r] # <<>> => Len(Document[r]) # 0
      BY <2>2, LenProperties, EmptySeq
    <2>4. \A k \in DOMAIN Document[r] : Document[r][k] \in L
      BY <2>3
    <2>. QED
      BY <2>3, <2>4
  <1>2. CASE r \in Importers
    <2>. DEFINE L == [sku : Skus, ean : Eans \cup {NoEan, Absent}, price : Int]
    <2>1. Document[r] = Catalog[r]
      BY <1>2, InventoryAssumption DEF Document, Editors
    <2>2. Document[r] \in Seq(L)
      BY <1>2, <2>1, InventoryAssumption
    <2>3. /\ Len(Document[r]) \in Nat /\ DOMAIN Document[r] = 1 .. Len(Document[r])
          /\ Document[r] \in [1 .. Len(Document[r]) -> L]
          /\ Document[r] # <<>> => Len(Document[r]) # 0
      BY <2>2, LenProperties, EmptySeq
    <2>4. \A k \in DOMAIN Document[r] : Document[r][k] \in L
      BY <2>3
    <2>. QED
      BY <1>2, <2>3, <2>4, InventoryAssumption DEF Editors
  <1>. QED
    BY <1>1, <1>2

LEMMA Sheets ==
  /\ \A p \in Planners :
       /\ Len(Plan[p]) \in Nat /\ DOMAIN Plan[p] = 1 .. Len(Plan[p])
       /\ Plan[p] # <<>> => 1 \in DOMAIN Plan[p]
       /\ \A k \in DOMAIN Plan[p] : Plan[p][k].id \in Skus /\ Plan[p][k].expected \in Int \cup {Absent}
  /\ \A c \in Closers :
       /\ Len(Count[c]) \in Nat /\ DOMAIN Count[c] = 1 .. Len(Count[c])
       /\ Count[c] # <<>> => 1 \in DOMAIN Count[c]
       /\ \A k \in DOMAIN Count[c] : Count[c][k].id \in Skus /\ Count[c][k].counted \in Int
  <1>1. ASSUME NEW p \in Planners
        PROVE  /\ Len(Plan[p]) \in Nat /\ DOMAIN Plan[p] = 1 .. Len(Plan[p])
               /\ Plan[p] # <<>> => 1 \in DOMAIN Plan[p]
               /\ \A k \in DOMAIN Plan[p] : Plan[p][k].id \in Skus /\ Plan[p][k].expected \in Int \cup {Absent}
    <2>. DEFINE L == [id : Skus, lot : Lots \cup {Absent}, expected : Int \cup {Absent}]
    <2>1. Plan[p] \in Seq(L)
      BY InventoryAssumption
    <2>2. /\ Len(Plan[p]) \in Nat /\ DOMAIN Plan[p] = 1 .. Len(Plan[p])
          /\ Plan[p] \in [1 .. Len(Plan[p]) -> L]
          /\ Plan[p] # <<>> => Len(Plan[p]) # 0
      BY <2>1, LenProperties, EmptySeq
    <2>3. \A k \in DOMAIN Plan[p] : Plan[p][k] \in L
      BY <2>2
    <2>. QED
      BY <2>2, <2>3
  <1>2. ASSUME NEW c \in Closers
        PROVE  /\ Len(Count[c]) \in Nat /\ DOMAIN Count[c] = 1 .. Len(Count[c])
               /\ Count[c] # <<>> => 1 \in DOMAIN Count[c]
               /\ \A k \in DOMAIN Count[c] : Count[c][k].id \in Skus /\ Count[c][k].counted \in Int
    <2>. DEFINE L == [id : Skus, lot : Lots \cup {Absent}, item : Nat, counted : Int]
    <2>1. Count[c] \in Seq(L)
      BY InventoryAssumption
    <2>2. /\ Len(Count[c]) \in Nat /\ DOMAIN Count[c] = 1 .. Len(Count[c])
          /\ Count[c] \in [1 .. Len(Count[c]) -> L]
          /\ Count[c] # <<>> => Len(Count[c]) # 0
      BY <2>1, LenProperties, EmptySeq
    <2>3. \A k \in DOMAIN Count[c] : Count[c][k] \in L
      BY <2>2
    <2>. QED
      BY <2>2, <2>3
  <1>. QED
    BY <1>1, <1>2

-----------------------------------------------------------------------------
(* Where a request is, and what it has then.                                 *)

Written == Deliveries \cup Importers
StockReach ==
  /\ \A r \in Stockers : at[r] \in {"idle", "open"} => line[r] = 1
  /\ \A r \in Written : at[r] \in {"supplier", "newSupplier", "find", "ean", "create", "batch", "put"} =>
       line[r] \in DOMAIN Document[r]
  /\ \A c \in Closers : at[c] \in {"look", "item", "adjust", "stock"} => line[c] \in DOMAIN Count[c]
  /\ \A p \in Planners : at[p] \in {"look", "item"} => line[p] \in DOMAIN Plan[p]
  /\ \A r \in Stockers :
       at[r] \in {"ean", "batch", "item", "adjust", "stock", "history", "price"} => row[r] \in Articles
  /\ \A u \in Updaters : at[u] \in {"supplier", "newSupplier", "put"} => row[u] \in Articles
  /\ \A c \in Closers : at[c] = "stock" => lot[c] \in Goods

StockInv == AtType /\ StockTypeOK /\ StockReach

LEMMA Kinds ==
  /\ Stockers \subseteq Requests
  /\ Deliveries \cap (Planners \cup Closers \cup Repricers \cup Editors) = {}
  /\ Planners \cap (Closers \cup Repricers \cup Editors) = {}
  /\ Closers \cap (Repricers \cup Editors) = {}
  /\ Repricers \cap Editors = {}
  /\ Importers \cap Updaters = {}
  BY InventoryAssumption

\* The product and the batch a line of a request becomes.
LEMMA HereIs ==
  ASSUME NEW r \in Written, line[r] \in DOMAIN Document[r]
  PROVE  Here(r) \in Articles /\ (r \in Deliveries => Here(r) \in Goods)
  BY DEF Here, Articles, Goods, Lines, Written

LEMMA FoundIs ==
  ASSUME NEW s, NEW e
  PROVE  Found(s, e) \subseteq Articles
  BY DEF Found

LEMMA SupplierKeeps ==
  ASSUME StockInv, NEW r \in Deliveries \cup Editors, FindSupplier(r) \/ CreateSupplier(r)
  PROVE  StockInv'
  <1>. USE Kinds DEF StockInv, Stockers, Editors, Written
  <1>1. CASE FindSupplier(r)
    <2>1. AtType' /\ StockTypeOK'
      BY <1>1 DEF FindSupplier, AfterSupplier, Goto, AtType, Steps, StockSteps, StockTypeOK, stockVars
    <2>2. StockReach'
      BY <1>1 DEF FindSupplier, AfterSupplier, Goto, AtType, StockReach, stockVars
    <2>. QED
      BY <2>1, <2>2
  <1>2. CASE CreateSupplier(r)
    <2>0. Vendor[r] \in Vendors \cup {Absent}
      BY InventoryAssumption
    <2>1. AtType' /\ StockTypeOK'
      BY <1>2, <2>0
      DEF CreateSupplier, AfterSupplier, Goto, AtType, Steps, StockSteps, StockTypeOK, catalogRest
    <2>2. StockReach'
      BY <1>2 DEF CreateSupplier, AfterSupplier, Goto, AtType, StockReach, catalogRest
    <2>. QED
      BY <2>1, <2>2
  <1>. QED
    BY <1>1, <1>2

LEMMA FindArticleKeeps ==
  ASSUME StockInv, NEW r \in Written, FindArticle(r)
  PROVE  StockInv'
  <1>. USE Kinds DEF StockInv, Stockers, Editors, Written
  <1>. DEFINE F == Found(Document[r][line[r]].sku, EanOf(Document[r][line[r]]))
  <1>0. /\ F = {} \/ (CHOOSE a \in F : TRUE) \in Articles
        /\ row' = [row EXCEPT ![r] = IF F = {} THEN NoRow ELSE CHOOSE a \in F : TRUE]
        /\ at'[r] \in {"put", "create", "ean", "batch"} /\ at' = [at EXCEPT ![r] = at'[r]]
        /\ r \in Importers => at'[r] = "put"
        /\ F = {} => at'[r] \notin {"ean", "batch"}
    <2>1. F = {} \/ (CHOOSE a \in F : TRUE) \in Articles
      BY FoundIs
    <2>. HIDE DEF F
    <2>2. row' = [row EXCEPT ![r] = IF F = {} THEN NoRow ELSE CHOOSE a \in F : TRUE]
      BY DEF FindArticle, F
    <2>3. \E s \in {"put", "create", "ean", "batch"} :
            Goto(r, s) /\ (r \in Importers => s = "put") /\ (F = {} => s \notin {"ean", "batch"})
      BY DEF FindArticle, F
    <2>. QED
      BY <2>1, <2>2, <2>3 DEF Goto, AtType
  <1>. HIDE DEF F
  <1>1. /\ row' \in [Stockers -> Articles \cup {NoRow}]
        /\ at'[r] \in {"ean", "batch"} => row'[r] \in Articles
        /\ at'[r] # "put" => r \notin Importers
        /\ at'[r] \in {"put", "create", "ean", "batch"} /\ r \notin Updaters
    BY <1>0 DEF StockTypeOK, AtType
  <1>2. AtType' /\ StockTypeOK'
    <2>1. AtType'
      BY <1>0 DEF AtType, Steps, StockSteps
    <2>. QED
      BY <1>1, <2>1 DEF FindArticle, StockTypeOK, catalogRest
  <1>3. \A q \in Stockers : q # r => row'[q] = row[q] /\ at'[q] = at[q]
    BY <1>0 DEF StockTypeOK, AtType
  <1>4. StockReach'
    BY <1>1, <1>3 DEF FindArticle, StockReach, catalogRest
  <1>. QED
    BY <1>2, <1>4

LEMMA DeliveryKeeps ==
  ASSUME StockInv, NEW d \in Deliveries, SetEan(d) \/ CreateArticle(d) \/ CreateBatch(d)
  PROVE  StockInv'
  <1>. USE Kinds DEF StockInv, Stockers, Editors, Written
  <1>. DEFINE l == Document[d][line[d]]
  <1>0. line[d] \in DOMAIN Document[d]
    BY DEF SetEan, CreateArticle, CreateBatch, StockReach
  <1>1. l.sku \in Skus /\ l.ean \in Eans \cup {NoEan} /\ l.price \in Int /\ l.qty \in Int /\ l.lot \in Lots
    BY <1>0, Documents
  <1>2. Here(d) \in Articles /\ Here(d) \in Goods
    BY <1>0, HereIs
  <1>. HIDE DEF l
  <1>3. CASE SetEan(d)
    <2>1. row[d] \in Articles
      BY <1>3 DEF SetEan, StockReach
    <2>2. product' \in [Articles -> Entry]
      <3>1. product[row[d]] \in Entry
        BY <2>1 DEF StockTypeOK
      <3>2. [product[row[d]] EXCEPT !.ean = l.ean] \in Entry
        BY <3>1, <1>1 DEF Entry
      <3>. QED
        <4>1. \/ product' = [product EXCEPT ![row[d]] = [product[row[d]] EXCEPT !.ean = l.ean]]
              \/ product' = product
          BY <1>3 DEF SetEan, Write, l
        <4>2. product \in [Articles -> Entry]
          BY DEF StockTypeOK
        <4>. QED
          BY <3>2, <4>1, <4>2
    <2>3. Goto(d, "batch") \/ Goto(d, "failed")
      BY <1>3 DEF SetEan
    <2>4. AtType' /\ StockTypeOK'
      BY <1>3, <2>2, <2>3 DEF SetEan, Goto, AtType, Steps, StockSteps, Still, StockTypeOK, catalogRest
    <2>5. StockReach'
      BY <1>0, <1>3, <2>1, <2>3 DEF SetEan, Goto, AtType, StockReach, catalogRest
    <2>. QED
      BY <2>4, <2>5
  <1>4. CASE CreateArticle(d)
    <2>1. product' \in [Articles -> Entry]
      <3>1. [sku |-> l.sku, ean |-> EanOf(l), price |-> l.price] \in Entry
        BY <1>1 DEF Entry, EanOf
      <3>. QED
        <4>1. \/ product' = [product EXCEPT ![Here(d)] = [sku |-> l.sku, ean |-> EanOf(l), price |-> l.price]]
              \/ product' = product
          BY <1>4 DEF CreateArticle, Write, l
        <4>2. product \in [Articles -> Entry]
          BY DEF StockTypeOK
        <4>. QED
          BY <1>2, <3>1, <4>1, <4>2
    <2>2. \/ row' = [row EXCEPT ![d] = Here(d)] /\ Goto(d, "batch")
          \/ row' = row /\ Goto(d, "failed")
      BY <1>4 DEF CreateArticle
    <2>3. AtType' /\ StockTypeOK'
      <3>1. AtType'
        BY <2>2 DEF Goto, AtType, Steps, StockSteps, Still
      <3>2. row' \in [Stockers -> Articles \cup {NoRow}]
        <4>1. row \in [Stockers -> Articles \cup {NoRow}]
          BY DEF StockTypeOK
        <4>. QED
          BY <1>2, <2>2, <4>1
      <3>. QED
        BY <1>4, <2>1, <3>1, <3>2 DEF CreateArticle, StockTypeOK, catalogRest
    <2>4. StockReach'
      BY <1>0, <1>2, <1>4, <2>2 DEF CreateArticle, Goto, AtType, StockReach, StockTypeOK, catalogRest
    <2>. QED
      BY <2>3, <2>4
  <1>5. CASE CreateBatch(d)
    <2>1. batch' \in [Goods -> Batch]
      <3>1. row[d] \in Articles \cup {NoRow}
        BY DEF StockTypeOK
      <3>2. [product |-> row[d], lot |-> l.lot, qty |-> l.qty] \in Batch
        BY <1>1, <3>1 DEF Batch
      <3>. QED
        BY <1>2, <1>5, <3>2 DEF CreateBatch, StockTypeOK, l
    <2>2. /\ line' = [line EXCEPT ![d] = @ + 1]
          /\ \/ line[d] < Len(Document[d]) /\ Goto(d, "find")
             \/ Goto(d, "done")
      BY <1>5 DEF CreateBatch, NextLine
    <2>3. AtType' /\ StockTypeOK'
      <3>1. AtType'
        BY <2>2 DEF Goto, AtType, Steps, StockSteps, Still
      <3>2. line' \in [Stockers -> Nat]
        BY <2>2 DEF StockTypeOK
      <3>. QED
        BY <1>5, <2>1, <3>1, <3>2 DEF CreateBatch, StockTypeOK
    <2>4. line[d] < Len(Document[d]) => line[d] + 1 \in DOMAIN Document[d]
      BY <1>0, Documents
    <2>5. StockReach'
      BY <1>5, <2>2, <2>4 DEF CreateBatch, Goto, AtType, StockReach, StockTypeOK
    <2>. QED
      BY <2>3, <2>5
  <1>. QED
    BY <1>3, <1>4, <1>5

LEMMA PutLineKeeps ==
  ASSUME StockInv, NEW i \in Importers, PutLine(i)
  PROVE  StockInv'
  <1>. USE Kinds DEF StockInv, Stockers, Editors, Written
  <1>. DEFINE l == Document[i][line[i]]
              a == IF row[i] = NoRow THEN Here(i) ELSE row[i]
              e == [sku |-> IF row[i] = NoRow THEN l.sku ELSE product[a].sku,
                    ean |-> Given(l.ean, product[a].ean), price |-> l.price]
  <1>0. line[i] \in DOMAIN Document[i]
    BY DEF PutLine, StockReach
  <1>1. l.sku \in Skus /\ l.ean \in Eans \cup {NoEan, Absent} /\ l.price \in Int
    BY <1>0, Documents
  <1>2. a \in Articles
    <2>1. row[i] \in Articles \cup {NoRow}
      BY DEF StockTypeOK
    <2>. QED
      BY <1>0, <2>1, HereIs
  <1>3. product[a] \in Entry
    <2>1. product \in [Articles -> Entry]
      BY DEF StockTypeOK
    <2>. HIDE DEF a
    <2>. QED
      BY <1>2, <2>1
  <1>4. e \in Entry
    <2>. HIDE DEF l, a
    <2>. QED
      BY <1>1, <1>3 DEF Given, Entry
  <1>5. \/ /\ product' = [product EXCEPT ![a] = e] /\ edited' = edited \cup {a}
           /\ line' = [line EXCEPT ![i] = @ + 1]
           /\ \/ line[i] < Len(Document[i]) /\ Goto(i, FirstStep(i))
              \/ Goto(i, "done")
        \/ UNCHANGED <<product, edited, line>> /\ Goto(i, "failed")
    BY DEF PutLine, NextLine, Write
  <1>6. FirstStep(i) \in {"supplier", "find"}
    BY DEF FirstStep, AfterSupplier
  <1>. HIDE DEF l, a, e
  <1>7. AtType'
    BY <1>5, <1>6 DEF Goto, AtType, Steps, StockSteps, Still
  <1>8. product' \in [Articles -> Entry] /\ edited' \subseteq Articles /\ line' \in [Stockers -> Nat]
    <2>1. product \in [Articles -> Entry] /\ edited \subseteq Articles /\ line \in [Stockers -> Nat]
      BY DEF StockTypeOK
    <2>. QED
      BY <1>2, <1>4, <1>5, <2>1
  <1>9. UNCHANGED <<supplier, price, batch, adjusted, sheet, row, lot, read, due, copy, bookers, last,
                    told>>
    BY DEF PutLine, catalogRest
  <1>10. StockTypeOK'
    BY <1>8, <1>9 DEF StockTypeOK
  <1>11. line[i] < Len(Document[i]) => line[i] + 1 \in DOMAIN Document[i]
    BY <1>0, Documents
  <1>12. StockReach'
    <2>1. line \in [Stockers -> Nat] /\ i \in Stockers \ (Updaters \cup Closers \cup Planners)
      BY DEF StockTypeOK
    <2>2. \A r \in Stockers \ {i} : at'[r] = at[r] /\ line'[r] = line[r]
      BY <1>5, <2>1 DEF Goto, AtType
    <2>3. \/ at'[i] \in {"supplier", "find"} /\ line'[i] \in DOMAIN Document[i]
          \/ at'[i] \in {"done", "failed"}
      BY <1>5, <1>6, <1>11, <2>1 DEF Goto, AtType
    <2>. QED
      BY <1>9, <2>1, <2>2, <2>3 DEF StockReach
  <1>. QED
    BY <1>7, <1>10, <1>12

LEMMA UpdateKeeps ==
  ASSUME StockInv, NEW u \in Updaters, UpdateProduct(u)
  PROVE  StockInv'
  <1>. USE Kinds DEF StockInv, Stockers, Editors, Written
  <1>. DEFINE a == row[u]
              e == [sku |-> Given(Edit[u].sku, product[a].sku),
                    ean |-> Given(Edit[u].ean, product[a].ean),
                    price |-> Given(Edit[u].price, product[a].price)]
  <1>1. a \in Articles
    BY DEF UpdateProduct, StockReach
  <1>2. product[a] \in Entry
    BY <1>1 DEF StockTypeOK
  <1>3. e \in Entry
    <2>1. /\ Edit[u].sku \in Skus \cup {Absent} /\ Edit[u].ean \in Eans \cup {NoEan, Absent}
          /\ Edit[u].price \in Int \cup {Absent}
      BY InventoryAssumption
    <2>. HIDE DEF a
    <2>. QED
      BY <1>2, <2>1 DEF Given, Entry
  <1>4. \/ /\ product' = [product EXCEPT ![a] = e] /\ edited' \subseteq edited \cup {a}
           /\ Goto(u, "done")
        \/ UNCHANGED <<product, edited>> /\ Goto(u, "failed")
    BY DEF UpdateProduct, Write
  <1>. HIDE DEF a, e
  <1>5. AtType'
    BY <1>4 DEF Goto, AtType, Steps, Still
  <1>6. product' \in [Articles -> Entry] /\ edited' \subseteq Articles
    <2>1. product \in [Articles -> Entry] /\ edited \subseteq Articles
      BY DEF StockTypeOK
    <2>. QED
      BY <1>1, <1>3, <1>4, <2>1
  <1>7. UNCHANGED <<supplier, price, batch, adjusted, sheet, line, row, lot, read, due, copy, bookers,
                    last, told>>
    BY DEF UpdateProduct, catalogRest
  <1>8. StockTypeOK'
    BY <1>6, <1>7 DEF StockTypeOK
  <1>9. StockReach'
    BY <1>4, <1>7 DEF Goto, AtType, StockReach
  <1>. QED
    BY <1>5, <1>8, <1>9

LEMMA PriceKeeps ==
  ASSUME StockInv, NEW q \in Repricers, WriteHistory(q) \/ WritePrice(q)
  PROVE  StockInv'
  <1>. USE Kinds DEF StockInv, Stockers, Editors, Written
  <1>1. row[q] \in Articles /\ Offer[q].price \in Int
    BY InventoryAssumption DEF WriteHistory, WritePrice, StockReach
  <1>2. CASE WriteHistory(q)
    <2>1. AtType'
      BY <1>2 DEF WriteHistory, Goto, AtType, Steps, StockSteps
    <2>2. price' \in [Articles -> Change]
      <3>1. q \in Timely => [by |-> q, to |-> Offer[q].price] \in Change
        BY <1>1 DEF Change
      <3>2. price \in [Articles -> Change]
        BY DEF StockTypeOK
      <3>. QED
        BY <1>2, <3>1, <3>2 DEF WriteHistory
    <2>3. StockTypeOK'
      BY <1>2, <2>2 DEF WriteHistory, StockTypeOK
    <2>4. StockReach'
      BY <1>1, <1>2 DEF WriteHistory, Goto, AtType, StockReach
    <2>. QED
      BY <2>1, <2>3, <2>4
  <1>3. CASE WritePrice(q)
    <2>1. AtType'
      BY <1>3 DEF WritePrice, Goto, AtType, Steps, Still
    <2>2. product' \in [Articles -> Entry]
      <3>1. product \in [Articles -> Entry]
        BY DEF StockTypeOK
      <3>2. [product[row[q]] EXCEPT !.price = Offer[q].price] \in Entry
        BY <1>1, <3>1 DEF Entry
      <3>. QED
        BY <1>3, <3>1, <3>2 DEF WritePrice, Write
    <2>3. edited' \subseteq Articles
      BY <1>1, <1>3 DEF WritePrice, StockTypeOK
    <2>4. StockTypeOK'
      BY <1>3, <2>2, <2>3 DEF WritePrice, StockTypeOK, catalogRest
    <2>5. StockReach'
      BY <1>3 DEF WritePrice, Goto, AtType, StockReach, catalogRest
    <2>. QED
      BY <2>1, <2>4, <2>5
  <1>. QED
    BY <1>2, <1>3

SheetRow == [status : {"none", "OPEN", "COMPLETED"}, items : Seq(Item)]

LEMMA SheetKeeps ==
  ASSUME StockInv, NEW r \in Requests,
         \/ r \in Planners /\ (OpenSheet(r) \/ AddItem(r))
         \/ r \in Closers /\ CloseSheet(r)
  PROVE  StockInv'
  <1>. USE Kinds DEF StockInv, Stockers, Editors, Written
  <1>0. sheet \in [Planners -> SheetRow]
    BY DEF StockTypeOK, SheetRow
  <1>1. CASE r \in Planners /\ OpenSheet(r)
    <2>1. AtType'
      BY <1>1 DEF OpenSheet, Goto, AtType, Steps, StockSteps, Still
    <2>2. sheet' \in [Planners -> SheetRow]
      BY <1>0, <1>1 DEF OpenSheet, SheetRow
    <2>3. StockTypeOK'
      BY <1>1, <2>2 DEF OpenSheet, StockTypeOK, SheetRow
    <2>4. Plan[r] # <<>> => 1 \in DOMAIN Plan[r]
      BY <1>1, Sheets
    <2>5. StockReach'
      BY <1>1, <2>4 DEF OpenSheet, Goto, AtType, StockReach
    <2>. QED
      BY <2>1, <2>3, <2>5
  <1>2. CASE r \in Planners /\ AddItem(r)
    <2>. DEFINE item == [product |-> row[r], batch |-> lot[r], expected |-> Plan[r][line[r]].expected]
    <2>1. line[r] \in DOMAIN Plan[r] /\ row[r] \in Articles
      BY <1>2 DEF AddItem, StockReach
    <2>2. item \in Item
      <3>1. Plan[r][line[r]].expected \in Int \cup {Absent}
        BY <1>2, <2>1, Sheets
      <3>2. lot[r] \in Goods \cup {NoRow}
        BY <1>2 DEF StockTypeOK
      <3>. QED
        BY <2>1, <3>1, <3>2 DEF Item
    <2>3. sheet' = [sheet EXCEPT ![r].items = Append(@, item)]
      BY <1>2 DEF AddItem
    <2>4. \/ line[r] < Len(Plan[r]) /\ Goto(r, "look")
          \/ Goto(r, "done")
      BY <1>2 DEF AddItem, NextLine
    <2>. HIDE DEF item
    <2>5. sheet' \in [Planners -> SheetRow]
      <3>1. sheet[r].items \in Seq(Item)
        BY <1>0, <1>2 DEF SheetRow
      <3>2. Append(sheet[r].items, item) \in Seq(Item)
        BY <2>2, <3>1
      <3>. QED
        BY <1>0, <1>2, <2>3, <3>2 DEF SheetRow
    <2>6. AtType'
      BY <2>4 DEF Goto, AtType, Steps, StockSteps, Still
    <2>7. line' = [line EXCEPT ![r] = @ + 1] /\ line \in [Stockers -> Nat]
      BY <1>2 DEF AddItem, NextLine, StockTypeOK
    <2>8. line' \in [Stockers -> Nat]
      BY <2>7
    <2>9. StockTypeOK'
      BY <1>2, <2>5, <2>8 DEF AddItem, StockTypeOK, SheetRow
    <2>10. line[r] < Len(Plan[r]) => line[r] + 1 \in DOMAIN Plan[r]
      BY <1>2, <2>1, Sheets
    <2>11. StockReach'
      BY <1>2, <2>4, <2>7, <2>10 DEF AddItem, Goto, AtType, StockReach
    <2>. QED
      BY <2>6, <2>9, <2>11
  <1>3. CASE r \in Closers /\ CloseSheet(r)
    <2>1. AtType'
      BY <1>3 DEF CloseSheet, Goto, AtType, Steps, StockSteps, Still
    <2>2. sheet' \in [Planners -> SheetRow]
      BY <1>0, <1>3 DEF CloseSheet, SheetRow
    <2>3. StockTypeOK'
      BY <1>3, <2>2 DEF CloseSheet, StockTypeOK, SheetRow
    <2>4. StockReach'
      BY <1>3 DEF CloseSheet, Goto, AtType, StockReach
    <2>. QED
      BY <2>1, <2>3, <2>4
  <1>. QED
    BY <1>1, <1>2, <1>3

LEMMA LookUpKeeps ==
  ASSUME StockInv, NEW r \in Planners \cup Closers, LookUp(r)
  PROVE  StockInv'
  <1>. USE Kinds DEF StockInv, Stockers, Editors, Written
  <1>1. \/ /\ Goto(r, "item")
           /\ \E a \in Articles : row' = [row EXCEPT ![r] = a]
           /\ \E g \in Goods \cup {NoRow} :
                /\ lot' = [lot EXCEPT ![r] = g]
                /\ read' = [read EXCEPT ![r] = IF g = NoRow THEN 0 ELSE batch[g].qty]
        \/ Goto(r, "failed") /\ UNCHANGED <<row, lot, read>>
    BY FoundIs DEF LookUp
  <1>2. UNCHANGED <<supplier, product, price, batch, adjusted, sheet, line, due, copy, edited, bookers,
                    last, told>>
    BY DEF LookUp
  <1>3. AtType'
    BY <1>1 DEF Goto, AtType, Steps, StockSteps, Still
  <1>4. /\ row' \in [Stockers -> Articles \cup {NoRow}]
        /\ lot' \in [Closers \cup Planners -> Goods \cup {NoRow}]
        /\ read' \in [Stockers -> Int]
    <2>1. /\ row \in [Stockers -> Articles \cup {NoRow}]
          /\ lot \in [Closers \cup Planners -> Goods \cup {NoRow}]
          /\ read \in [Stockers -> Int]
          /\ \A g \in Goods : batch[g].qty \in Int
      BY DEF StockTypeOK, Batch
    <2>. QED
      BY <1>1, <2>1
  <1>5. StockTypeOK'
    BY <1>2, <1>4 DEF StockTypeOK
  <1>6. StockReach'
    <2>1. /\ \A q \in Stockers \ {r} : at'[q] = at[q] /\ row'[q] = row[q]
          /\ \A c \in Closers : c # r => lot'[c] = lot[c]
          /\ (at'[r] = "item" /\ row'[r] \in Articles) \/ at'[r] = "failed"
      <3>1. row \in [Stockers -> Articles \cup {NoRow}] /\ lot \in [Closers \cup Planners -> Goods \cup {NoRow}]
        BY DEF StockTypeOK
      <3>. QED
        BY <1>1, <3>1 DEF Goto, AtType
    <2>2. at[r] = "look"
      BY DEF LookUp
    <2>. QED
      BY <1>2, <2>1, <2>2 DEF StockReach
  <1>. QED
    BY <1>3, <1>5, <1>6

LEMMA ExpectedIs ==
  ASSUME StockInv, NEW c \in Closers
  PROVE  Expected(c) \in Int
  <1>1. read[c] \in Int
    BY DEF StockInv, StockTypeOK, Stockers
  <1>2. copy[c] \in Seq(Item)
    BY DEF StockInv, StockTypeOK
  <1>3. /\ DOMAIN copy[c] = 1 .. Len(copy[c]) /\ Len(copy[c]) \in Nat
        /\ copy[c] \in [1 .. Len(copy[c]) -> Item]
    BY <1>2, LenProperties
  <1>4. \A k \in DOMAIN copy[c] : copy[c][k].expected \in Int \cup {Absent}
    BY <1>3 DEF Item
  <1>5. Matches(c) \subseteq DOMAIN copy[c] /\ Matches(c) \subseteq Nat
    BY <1>3 DEF Matches
  <1>6. CASE Matches(c) # {}
    <2>. DEFINE k == CHOOSE k \in Matches(c) : \A j \in Matches(c) : k <= j
    <2>1. \E n \in Matches(c) : \A j \in Matches(c) : n <= j
      BY <1>5, <1>6, SmallestOf
    <2>2. k \in Matches(c)
      BY <2>1
    <2>. HIDE DEF k
    <2>3. Given(copy[c][k].expected, 0) \in Int
      BY <1>4, <1>5, <2>2 DEF Given
    <2>. QED
      BY <1>6, <2>3 DEF Expected, k
  <1>. QED
    BY <1>1, <1>6 DEF Expected

LEMMA WriteItemKeeps ==
  ASSUME StockInv, NEW c \in Closers, WriteItem(c)
  PROVE  StockInv' /\ due'[c] \in Int
  <1>. USE Kinds DEF StockInv, Stockers, Editors, Written
  <1>. DEFINE counted == Count[c][line[c]].counted
              diff == counted - Expected(c)
              item == [product |-> row[c], batch |-> lot[c],
                       expected |-> IF read[c] = 0 THEN Absent ELSE read[c]]
              s == Sheet[c]
  <1>1. /\ at[c] = "item" /\ line[c] \in DOMAIN Count[c] /\ row[c] \in Articles
        /\ lot[c] \in Goods \cup {NoRow} /\ read[c] \in Int
    BY DEF WriteItem, StockReach, StockTypeOK
  <1>2. counted \in Int /\ Expected(c) \in Int
    BY <1>1, Sheets, ExpectedIs
  <1>3. diff \in Int /\ item \in Item /\ s \in Planners
    BY <1>1, <1>2, InventoryAssumption DEF Item
  <1>4. /\ \/ UNCHANGED <<sheet, copy>>
           \/ /\ sheet' = [sheet EXCEPT ![s].items = Append(@, item)]
              /\ copy' = [copy EXCEPT ![c] = Append(@, item)]
        /\ due' = [due EXCEPT ![c] = diff]
        /\ told' = IF lot[c] = NoRow THEN told
                   ELSE [told EXCEPT ![c][lot[c]] =
                           [counted |-> counted, expected |-> Expected(c), read |-> read[c]]]
        /\ \/ Goto(c, "adjust") /\ UNCHANGED line
           \/ /\ line' = [line EXCEPT ![c] = @ + 1]
              /\ (line[c] < Len(Count[c]) /\ Goto(c, "look")) \/ Goto(c, "close")
        /\ UNCHANGED <<supplier, product, price, batch, adjusted, row, lot, read, edited, bookers, last>>
    BY DEF WriteItem, NextCount, NextLine
  <1>. HIDE DEF counted, diff, item, s
  <1>5. AtType'
    BY <1>4 DEF Goto, AtType, Steps, StockSteps
  <1>6. sheet' \in [Planners -> SheetRow] /\ copy' \in [Closers -> Seq(Item)]
    <2>1. sheet \in [Planners -> SheetRow] /\ copy \in [Closers -> Seq(Item)]
      BY DEF StockTypeOK, SheetRow
    <2>2. Append(copy[c], item) \in Seq(Item)
      BY <1>3, <2>1
    <2>3. sheet[s].items \in Seq(Item)
      BY <1>3, <2>1 DEF SheetRow
    <2>4. Append(sheet[s].items, item) \in Seq(Item)
      BY <1>3, <2>3
    <2>5. copy' \in [Closers -> Seq(Item)]
      BY <1>4, <2>1, <2>2
    <2>6. sheet' \in [Planners -> SheetRow]
      BY <1>3, <1>4, <2>1, <2>4 DEF SheetRow
    <2>. QED
      BY <2>5, <2>6
  <1>7. due' \in [Closers -> Int] /\ line' \in [Stockers -> Nat]
    <2>1. due \in [Closers -> Int] /\ line \in [Stockers -> Nat]
      BY DEF StockTypeOK
    <2>. QED
      BY <1>3, <1>4, <2>1
  <1>8. told' \in [Closers -> [Goods -> Tale]]
    <2>1. told \in [Closers -> [Goods -> Tale]]
      BY DEF StockTypeOK
    <2>2. [counted |-> counted, expected |-> Expected(c), read |-> read[c]] \in Tale
      BY <1>1, <1>2 DEF Tale
    <2>. QED
      BY <1>4, <2>1, <2>2
  <1>9. StockTypeOK'
    BY <1>4, <1>6, <1>7, <1>8 DEF StockTypeOK, SheetRow
  <1>10. line[c] < Len(Count[c]) => line[c] + 1 \in DOMAIN Count[c]
    BY <1>1, Sheets
  <1>11. StockReach'
    <2>1. line \in [Stockers -> Nat]
      BY DEF StockTypeOK
    <2>2. \A r \in Stockers \ {c} : at'[r] = at[r] /\ line'[r] = line[r]
      BY <1>4, <2>1 DEF Goto, AtType
    <2>3. \/ at'[c] = "adjust" /\ line'[c] = line[c]
          \/ at'[c] = "look" /\ line'[c] \in DOMAIN Count[c]
          \/ at'[c] = "close"
      BY <1>4, <1>10, <2>1 DEF Goto, AtType
    <2>. QED
      BY <1>1, <1>4, <2>2, <2>3 DEF StockReach
  <1>. QED
    BY <1>5, <1>7, <1>9, <1>11

LEMMA BookingKeeps ==
  ASSUME StockInv, NEW c \in Closers, Adjust(c) \/ WriteStock(c)
  PROVE  StockInv'
  <1>. USE Kinds DEF StockInv, Stockers, Editors, Written
  <1>0. /\ line \in [Stockers -> Nat] /\ line[c] \in DOMAIN Count[c]
        /\ line[c] < Len(Count[c]) => line[c] + 1 \in DOMAIN Count[c]
    <2>1. line \in [Stockers -> Nat] /\ line[c] \in DOMAIN Count[c]
      BY DEF Adjust, WriteStock, StockReach, StockTypeOK
    <2>. QED
      BY <2>1, Sheets
  <1>1. CASE NextCount(c) /\ UNCHANGED <<supplier, product, price, sheet, adjusted, bookers, last, row, lot,
                                         read, due, copy, edited, told>>
             /\ batch' \in [Goods -> Batch]
    <2>1. /\ line' = [line EXCEPT ![c] = @ + 1]
          /\ (line[c] < Len(Count[c]) /\ Goto(c, "look")) \/ Goto(c, "close")
      BY <1>1 DEF NextCount, NextLine
    <2>2. AtType'
      BY <2>1 DEF Goto, AtType, Steps, StockSteps
    <2>3. line' \in [Stockers -> Nat]
      BY <1>0, <2>1
    <2>4. StockTypeOK'
      BY <1>1, <2>3 DEF StockTypeOK
    <2>5. \A r \in Stockers \ {c} : at'[r] = at[r] /\ line'[r] = line[r]
      BY <1>0, <2>1 DEF Goto, AtType
    <2>6. \/ at'[c] = "look" /\ line'[c] \in DOMAIN Count[c]
          \/ at'[c] = "close"
      BY <1>0, <2>1 DEF Goto, AtType
    <2>7. StockReach'
      BY <1>1, <2>5, <2>6 DEF StockReach
    <2>. QED
      BY <2>2, <2>4, <2>7
  <1>2. batch \in [Goods -> Batch]
    BY DEF StockTypeOK
  <1>3. CASE Adjust(c) /\ lot[c] = NoRow
    BY <1>1, <1>2, <1>3 DEF Adjust
  <1>4. CASE Adjust(c) /\ lot[c] # NoRow
    <2>1. /\ adjusted' = [adjusted EXCEPT ![lot[c]] = @ + due[c]]
          /\ bookers' = [bookers EXCEPT ![lot[c]] = @ \cup {c}]
          /\ last' = [last EXCEPT ![lot[c]] = c]
          /\ Goto(c, "stock") /\ at[c] = "adjust"
          /\ UNCHANGED <<line, supplier, product, price, batch, sheet, row, lot, read, due, copy, edited, told>>
      BY <1>4 DEF Adjust
    <2>2. /\ adjusted \in [Goods -> Int] /\ bookers \in [Goods -> SUBSET Closers]
          /\ last \in [Goods -> Closers \cup {NoRow}] /\ lot[c] \in Goods /\ due[c] \in Int
      BY <1>4 DEF StockTypeOK
    <2>3. /\ adjusted' \in [Goods -> Int] /\ bookers' \in [Goods -> SUBSET Closers]
          /\ last' \in [Goods -> Closers \cup {NoRow}]
      BY <2>1, <2>2
    <2>4. AtType'
      BY <2>1 DEF Goto, AtType, Steps, StockSteps
    <2>5. StockTypeOK'
      BY <2>1, <2>3 DEF StockTypeOK
    <2>6. StockReach'
      BY <2>1, <2>2 DEF Goto, AtType, StockReach
    <2>. QED
      BY <2>4, <2>5, <2>6
  <1>5. CASE WriteStock(c)
    <2>1. lot[c] \in Goods /\ read[c] + due[c] \in Int
      BY <1>5 DEF WriteStock, StockReach, StockTypeOK
    <2>2. [batch[lot[c]] EXCEPT !.qty = read[c] + due[c]] \in Batch
      BY <1>2, <2>1 DEF Batch
    <2>3. batch' \in [Goods -> Batch]
      BY <1>2, <1>5, <2>1, <2>2 DEF WriteStock
    <2>. QED
      BY <1>1, <1>5, <2>3 DEF WriteStock
  <1>. QED
    BY <1>3, <1>4, <1>5

LEMMA BeginStockKeeps ==
  ASSUME StockInv, NEW r \in Requests, BeginStock(r)
  PROVE  StockInv'
  <1>. USE Kinds DEF StockInv, Stockers, Editors, Written
  <1>1. CASE r \in Written /\ UNCHANGED stockVars /\ \E s \in {"done", "failed", FirstStep(r)} :
               Start(r, s) /\ (s = FirstStep(r) => Document[r] # <<>>)
    <2>1. FirstStep(r) \in {"supplier", "find"}
      BY <1>1 DEF FirstStep, AfterSupplier
    <2>2. at[r] = "idle" /\ line[r] = 1
      BY <1>1 DEF Start, StockReach
    <2>3. at' = [at EXCEPT ![r] = at'[r]] /\ at'[r] \in {"done", "failed", "supplier", "find"}
          /\ (at'[r] \in {"supplier", "find"} => line[r] \in DOMAIN Document[r])
      BY <1>1, <2>1, <2>2, Documents DEF Start, AtType
    <2>4. AtType'
      BY <2>3 DEF AtType, Steps, StockSteps, Still
    <2>5. StockTypeOK'
      BY <1>1 DEF StockTypeOK, stockVars
    <2>6. StockReach'
      BY <1>1, <2>3 DEF StockReach, stockVars, AtType
    <2>. QED
      BY <2>4, <2>5, <2>6
  <1>2. CASE r \in Deliveries /\ BeginDelivery(r)
    BY <1>1, <1>2 DEF BeginDelivery, FirstStep, AfterSupplier
  <1>3. CASE r \in Importers /\ BeginImport(r)
    BY <1>1, <1>3 DEF BeginImport, FirstStep, AfterSupplier
  <1>4. CASE r \in Updaters /\ BeginUpdate(r)
    <2>1. PICK a \in Articles : row' = [row EXCEPT ![r] = a]
      BY <1>4 DEF BeginUpdate
    <2>2. FirstStep(r) \in {"supplier", "put"}
      BY <1>4 DEF FirstStep, AfterSupplier
    <2>3. at' = [at EXCEPT ![r] = FirstStep(r)]
      BY <1>4 DEF BeginUpdate, Start
    <2>4. AtType'
      BY <2>2, <2>3 DEF AtType, Steps, StockSteps
    <2>5. row \in [Stockers -> Articles \cup {NoRow}]
      BY DEF StockTypeOK
    <2>6. row' \in [Stockers -> Articles \cup {NoRow}]
      BY <2>1, <2>5
    <2>7. StockTypeOK'
      BY <1>4, <2>6 DEF BeginUpdate, StockTypeOK, catalogRest
    <2>8. StockReach'
      BY <1>4, <2>1, <2>2, <2>3, <2>5 DEF BeginUpdate, StockReach, catalogRest, AtType
    <2>. QED
      BY <2>4, <2>7, <2>8
  <1>5. CASE r \in Repricers /\ BeginPriceChange(r)
    <2>. DEFINE F == Found(Offer[r].id, Ean[Offer[r].id])
    <2>1. F \subseteq Articles
      BY FoundIs
    <2>2. /\ row' = [row EXCEPT ![r] = IF F = {} THEN NoRow ELSE CHOOSE a \in F : TRUE]
          /\ at' = [at EXCEPT ![r] = IF F = {} THEN "failed" ELSE "history"]
      BY <1>5 DEF BeginPriceChange, Start
    <2>. HIDE DEF F
    <2>3. \/ /\ \E a \in Articles : row' = [row EXCEPT ![r] = a]
             /\ at' = [at EXCEPT ![r] = "history"]
          \/ row' = [row EXCEPT ![r] = NoRow] /\ at' = [at EXCEPT ![r] = "failed"]
      BY <2>1, <2>2
    <2>4. AtType'
      BY <2>3 DEF AtType, Steps, StockSteps, Still
    <2>5. row \in [Stockers -> Articles \cup {NoRow}]
      BY DEF StockTypeOK
    <2>6. row' \in [Stockers -> Articles \cup {NoRow}]
      BY <2>3, <2>5
    <2>7. StockTypeOK'
      BY <1>5, <2>6 DEF BeginPriceChange, StockTypeOK, catalogRest
    <2>8. StockReach'
      BY <1>5, <2>3, <2>5 DEF BeginPriceChange, StockReach, catalogRest, AtType
    <2>. QED
      BY <2>4, <2>7, <2>8
  <1>6. CASE r \in Planners /\ BeginPlan(r)
    <2>1. at' = [at EXCEPT ![r] = "open"] /\ at[r] = "idle"
      BY <1>6 DEF BeginPlan, Start
    <2>2. AtType'
      BY <2>1 DEF AtType, Steps, StockSteps
    <2>3. StockTypeOK'
      BY <1>6 DEF BeginPlan, StockTypeOK, stockVars
    <2>4. StockReach'
      BY <1>6, <2>1 DEF BeginPlan, StockReach, stockVars, AtType
    <2>. QED
      BY <2>2, <2>3, <2>4
  <1>7. CASE r \in Closers /\ BeginClose(r)
    <2>1. /\ at[r] = "idle"
          /\ \E s \in {"failed", "close", "look"} :
               at' = [at EXCEPT ![r] = s] /\ (s = "look" => Count[r] # <<>>)
      BY <1>7 DEF BeginClose, Start
    <2>2. copy' \in [Closers -> Seq(Item)]
      <3>1. sheet \in [Planners -> SheetRow] /\ copy \in [Closers -> Seq(Item)]
        BY DEF StockTypeOK, SheetRow
      <3>2. sheet[Sheet[r]].items \in Seq(Item)
        BY <1>7, <3>1, InventoryAssumption DEF SheetRow
      <3>. QED
        BY <1>7, <3>1, <3>2 DEF BeginClose
    <2>3. AtType'
      BY <2>1 DEF AtType, Steps, StockSteps, Still
    <2>4. StockTypeOK'
      BY <1>7, <2>2 DEF BeginClose, StockTypeOK
    <2>5. Count[r] # <<>> => 1 \in DOMAIN Count[r]
      BY <1>7, Sheets
    <2>6. StockReach'
      BY <1>7, <2>1, <2>5 DEF BeginClose, StockReach, AtType
    <2>. QED
      BY <2>3, <2>4, <2>6
  <1>. QED
    BY <1>2, <1>3, <1>4, <1>5, <1>6, <1>7 DEF BeginStock

LEMMA StockStepKeeps ==
  ASSUME StockInv, NEW r \in Requests, StockStep(r)
  PROVE  StockInv'
  BY SupplierKeeps, FindArticleKeeps, DeliveryKeeps, PutLineKeeps, UpdateKeeps, PriceKeeps, SheetKeeps,
     LookUpKeeps, WriteItemKeeps, BookingKeeps
  DEF StockStep, Editors, Written

\* What leaves the goods alone starts or moves a request to an await of another component, or ends it.
LEMMA ElsewhereKeeps ==
  ASSUME StockInv, UNCHANGED stockVars, NEW r \in Requests, NEW s \in (Steps \cup Still) \ (StockSteps \cup {"idle"}),
         at' = [at EXCEPT ![r] = s]
  PROVE  StockInv'
  <1>1. AtType'
    BY DEF AtType, StockInv
  <1>2. StockTypeOK'
    BY DEF StockTypeOK, StockInv, stockVars
  <1>3. StockReach'
    BY DEF StockReach, StockInv, AtType, StockSteps, stockVars, Stockers, Editors, Written
  <1>. QED
    BY <1>1, <1>2, <1>3 DEF StockInv

LEMMA StockInvInit ==
  ASSUME OverlapInit, NEW known, known \subseteq Deliveries, StockInit(known)
  PROVE  StockInv
  <1>1. AtType
    BY DEF OverlapInit, AtType, Steps, Still
  <1>2. StockReach
    <2>1. \A r \in Requests : at[r] = "idle"
      BY DEF OverlapInit
    <2>. QED
      BY <2>1, Kinds DEF StockReach, StockInit, Stockers, Editors, Written
  <1>3. ASSUME NEW a \in Articles, a[1] \in known
        PROVE  /\ Document[a[1]][a[2]].sku \in Skus /\ Document[a[1]][a[2]].ean \in Eans \cup {NoEan}
               /\ Document[a[1]][a[2]].price \in Int /\ Document[a[1]][a[2]].qty \in Int
               /\ Document[a[1]][a[2]].lot \in Lots
    <2>1. PICK r \in Deliveries \cup Importers : \E i \in DOMAIN Document[r] : a = <<r, i>>
      BY DEF Articles, Lines
    <2>2. PICK i \in DOMAIN Document[r] : a = <<r, i>>
      BY <2>1
    <2>3. r \in Deliveries /\ a[1] = r /\ a[2] = i
      BY <1>3, <2>2
    <2>. QED
      BY <2>2, <2>3, Documents
  <1>4. product \in [Articles -> Entry]
    BY <1>3 DEF StockInit, Entry, ArticleOf, NoArticle
  <1>5. Goods \subseteq Articles
    BY DEF Goods, Articles
  <1>6. batch \in [Goods -> Batch]
    BY <1>3, <1>5 DEF StockInit, Batch
  <1>7. supplier \in [Deliveries \cup Editors -> Vendors \cup {Absent}]
    BY InventoryAssumption DEF StockInit
  <1>8. price \in [Articles -> Change] /\ sheet \in [Planners -> SheetRow]
    BY DEF StockInit, Change, SheetRow
  <1>9. StockTypeOK
    BY <1>4, <1>6, <1>7, <1>8 DEF StockInit, StockTypeOK, SheetRow, Tale
  <1>. QED
    BY <1>1, <1>2, <1>9 DEF StockInv

-----------------------------------------------------------------------------
\* The requests of the other components do not come to an await of a stocker.
LEMMA Elsewhere ==
  ASSUME NEW r \in Requests,
         BeginOperation(r) \/ ConfigStep(r) \/ BeginAdmin(r) \/ AdminStep(r) \/ Fail(r)
  PROVE  \E s \in (Steps \cup Still) \ (StockSteps \cup {"idle"}) : at' = [at EXCEPT ![r] = s]
  <1>. USE DEF Steps, StockSteps, ConfigSteps, AccessSteps, Still
  <1>1. CASE BeginOperation(r)
    BY <1>1 DEF BeginOperation, Install, BeginConfig, Start
  <1>2. CASE ConfigStep(r)
    BY <1>2, ConfigMoves DEF Goto
  <1>3. CASE BeginAdmin(r)
    BY <1>3 DEF BeginAdmin, BeginGrant, BeginUserMaker, BeginSwitch, BeginAssign, Start
  <1>4. CASE AdminStep(r)
    BY <1>4
    DEF AdminStep, FindKeys, CreateKeys, CreateRole, ClearGrants, WriteGrants, CreateUser, SwitchUser,
        AssignRole, WriteAuditLog, Goto
  <1>5. CASE Fail(r)
    BY <1>5 DEF Fail, Goto
  <1>. QED
    BY <1>1, <1>2, <1>3, <1>4, <1>5

\* Every step keeps the goods in order.
LEMMA StockKept ==
  ASSUME StockInv, cast.requests \subseteq Requests, [Next]_vars
  PROVE  StockInv'
  <1>1. CASE UNCHANGED vars
    BY <1>1 DEF vars, overlapVars, stockVars, StockInv, AtType, StockTypeOK, StockReach
  <1>2. CASE Next
    <2>1. PICK r \in Requests : Request(r)
      BY <1>2 DEF Next
    <2>2. CASE BeginStock(r) \/ StockStep(r)
      BY <2>2, BeginStockKeeps, StockStepKeeps
    <2>3. CASE /\ UNCHANGED stockVars
               /\ BeginOperation(r) \/ ConfigStep(r) \/ BeginAdmin(r) \/ AdminStep(r) \/ Fail(r)
      <3>1. \E s \in (Steps \cup Still) \ (StockSteps \cup {"idle"}) : at' = [at EXCEPT ![r] = s]
        BY <2>3, Elsewhere
      <3>. QED
        BY <2>3, <3>1, ElsewhereKeeps
    <2>. QED
      BY <2>1, <2>2, <2>3 DEF Request
  <1>. QED
    BY <1>1, <1>2

-----------------------------------------------------------------------------
(* The quantities of the batches: what a step does to them.                  *)

Held == {"item", "adjust", "stock"}
Onto == {"look", "close"}
LinesGrow == \A d \in Deliveries : line'[d] >= line[d]

\* A step of anyone that writes no quantity and takes no new batch in hand.
Frame ==
  /\ UNCHANGED <<batch, adjusted, bookers>>
  /\ \A c \in Closers :
       lot'[c] = lot[c] /\ read'[c] = read[c] /\ (at[c] = "stock" => due'[c] = due[c])
  /\ LinesGrow
Quiet ==
  /\ Frame
  /\ \E r \in Requests :
       \/ \E s \in (Steps \cup Still) \ Held : Start(r, s)
       \/ \E s \in Steps \cup Still :
            /\ at[r] \in Steps /\ Goto(r, s)
            /\ r \in Closers => (s \notin Held /\ (at[r] = "stock" => s = "failed"))
       \/ at[r] = "item" /\ \E s \in {"adjust"} \cup Onto : Goto(r, s)

Take(c) ==
  /\ at[c] = "look" /\ Goto(c, "item")
  /\ \E g \in Goods \cup {NoRow} :
       /\ g # NoRow => batch[g].product # NoRow
       /\ lot' = [lot EXCEPT ![c] = g]
       /\ read' = [read EXCEPT ![c] = IF g = NoRow THEN 0 ELSE batch[g].qty]
  /\ UNCHANGED <<batch, adjusted, bookers, due>> /\ LinesGrow
Book(c) ==
  /\ at[c] = "adjust" /\ lot[c] \in Goods /\ Goto(c, "stock")
  /\ adjusted' = [adjusted EXCEPT ![lot[c]] = @ + due[c]]
  /\ bookers' = [bookers EXCEPT ![lot[c]] = @ \cup {c}]
  /\ UNCHANGED <<batch, lot, read, due>> /\ LinesGrow
Store(c) ==
  /\ at[c] = "stock" /\ \E s \in Onto : Goto(c, s)
  /\ batch' = [batch EXCEPT ![lot[c]].qty = read[c] + due[c]]
  /\ UNCHANGED <<adjusted, bookers, lot, read, due>> /\ LinesGrow
Arrive(d) ==
  /\ d \in cast.requests /\ at[d] = "batch" /\ \E s \in {"find", "done"} : Goto(d, s)
  /\ line' = [line EXCEPT ![d] = @ + 1]
  /\ batch' = [batch EXCEPT ![Here(d)] =
       [product |-> row[d], lot |-> Document[d][line[d]].lot, qty |-> Document[d][line[d]].qty]]
  /\ UNCHANGED <<adjusted, bookers, lot, read, due>>

GoodsMove ==
  \/ Quiet
  \/ \E c \in Closers : Take(c) \/ Book(c) \/ Store(c)
  \/ \E d \in Deliveries : Arrive(d)
  \/ UNCHANGED <<at, met, batch, adjusted, bookers, lot, read, due, line>>

LEMMA LookUpMoves ==
  ASSUME StockInv, NEW r \in Planners \cup Closers, LookUp(r)
  PROVE  GoodsMove
  <1>. USE Kinds DEF StockInv, Stockers, Editors
  <1>1. LinesGrow
    BY DEF LookUp, LinesGrow, StockTypeOK
  <1>2. CASE r \in Closers /\ Goto(r, "item")
    <2>1. \E g \in Goods \cup {NoRow} :
            /\ g # NoRow => batch[g].product \in Articles
            /\ lot' = [lot EXCEPT ![r] = g]
            /\ read' = [read EXCEPT ![r] = IF g = NoRow THEN 0 ELSE batch[g].qty]
      BY <1>2, FoundIs DEF LookUp, Goto, AtType
    <2>2. at[r] = "look" /\ UNCHANGED <<batch, adjusted, bookers, due>>
      BY DEF LookUp
    <2>. QED
      BY <1>1, <1>2, <2>1, <2>2, InventoryAssumption DEF Take, GoodsMove
  <1>3. CASE r \in Closers /\ ~Goto(r, "item")
    <2>1. Goto(r, "failed") /\ at[r] = "look"
          /\ UNCHANGED <<batch, adjusted, bookers, lot, read, due, line>>
      BY <1>3 DEF LookUp
    <2>. QED
      BY <1>1, <2>1 DEF Frame, Quiet, GoodsMove, Held, Steps, StockSteps, Still
  <1>4. CASE r \in Planners
    <2>1. \E s \in {"item", "failed"} : Goto(r, s)
      BY DEF LookUp
    <2>2. /\ at[r] = "look" /\ UNCHANGED <<batch, adjusted, bookers, due>>
          /\ \A c \in Closers : lot'[c] = lot[c] /\ read'[c] = read[c]
      BY <1>4 DEF LookUp, StockTypeOK
    <2>. QED
      BY <1>1, <1>4, <2>1, <2>2 DEF Frame, Quiet, GoodsMove, Held, Steps, StockSteps, Still
  <1>. QED
    BY <1>2, <1>3, <1>4

LEMMA CloserMoves ==
  ASSUME StockInv, NEW c \in Closers, WriteItem(c) \/ Adjust(c) \/ WriteStock(c) \/ CloseSheet(c)
  PROVE  GoodsMove
  <1>. USE Kinds DEF StockInv, Stockers, Editors
  <1>0. line \in [Stockers -> Nat] /\ due \in [Closers -> Int]
    BY DEF StockTypeOK
  <1>1. LinesGrow
    BY <1>0 DEF WriteItem, Adjust, WriteStock, CloseSheet, NextCount, NextLine, LinesGrow
  <1>2. CASE WriteItem(c)
    <2>1. at[c] = "item" /\ \E s \in {"adjust"} \cup Onto : Goto(c, s)
      BY <1>2 DEF WriteItem, NextCount, NextLine, Onto
    <2>2. UNCHANGED <<batch, adjusted, bookers, lot, read>> /\ \A q \in Closers \ {c} : due'[q] = due[q]
      BY <1>0, <1>2 DEF WriteItem
    <2>. QED
      BY <1>1, <2>1, <2>2 DEF Frame, Quiet, GoodsMove
  <1>3. CASE Adjust(c) /\ lot[c] = NoRow
    <2>1. at[c] = "adjust" /\ \E s \in Onto : Goto(c, s)
      BY <1>3 DEF Adjust, NextCount, NextLine, Onto
    <2>2. UNCHANGED <<batch, adjusted, bookers, lot, read, due>>
      BY <1>3 DEF Adjust
    <2>. QED
      BY <1>1, <2>1, <2>2 DEF Frame, Quiet, GoodsMove, Held, Onto, Steps, StockSteps
  <1>4. CASE Adjust(c) /\ lot[c] # NoRow
    <2>1. lot[c] \in Goods
      BY <1>4 DEF StockTypeOK
    <2>. QED
      BY <1>1, <1>4, <2>1 DEF Adjust, Book, GoodsMove
  <1>5. CASE WriteStock(c)
    BY <1>1, <1>5 DEF WriteStock, NextCount, NextLine, Store, Onto, GoodsMove
  <1>6. CASE CloseSheet(c)
    BY <1>1, <1>6 DEF CloseSheet, Frame, Quiet, GoodsMove, Held, Steps, StockSteps, Still
  <1>. QED
    BY <1>2, <1>3, <1>4, <1>5, <1>6

goodsVars == <<batch, adjusted, bookers, lot, read, due>>

LEMMA OtherMoves ==
  ASSUME StockInv, NEW r \in Requests,
         \/ r \in Deliveries \cup Editors /\ (FindSupplier(r) \/ CreateSupplier(r))
         \/ r \in Written    /\ FindArticle(r)
         \/ r \in Deliveries /\ (SetEan(r) \/ CreateArticle(r))
         \/ r \in Importers  /\ PutLine(r)
         \/ r \in Updaters   /\ UpdateProduct(r)
         \/ r \in Repricers  /\ (WriteHistory(r) \/ WritePrice(r))
         \/ r \in Planners   /\ (OpenSheet(r) \/ AddItem(r))
  PROVE  GoodsMove
  <1>. USE Kinds DEF StockInv, Stockers, Editors, Written
  <1>1. r \notin Closers
    OBVIOUS
  <1>2. UNCHANGED goodsVars
    BY DEF FindSupplier, CreateSupplier, FindArticle, SetEan, CreateArticle, PutLine, UpdateProduct,
           WriteHistory, WritePrice, OpenSheet, AddItem, goodsVars, stockVars, catalogRest
  <1>3. LinesGrow
    <2>1. line \in [Stockers -> Nat]
      BY DEF StockTypeOK
    <2>2. \A q \in Stockers : line'[q] = line[q] \/ line'[q] = line[q] + 1
      BY <2>1
      DEF FindSupplier, CreateSupplier, FindArticle, SetEan, CreateArticle, PutLine, UpdateProduct,
          WriteHistory, WritePrice, OpenSheet, AddItem, stockVars, catalogRest, NextLine
    <2>. QED
      BY <2>1, <2>2 DEF LinesGrow
  <1>4. at[r] \in Steps /\ \E s \in Steps \cup Still : Goto(r, s)
    <2>1. StockStep(r)
      BY DEF StockStep
    <2>. QED
      BY <2>1, StockMoves DEF Steps, Still
  <1>. QED
    BY <1>1, <1>2, <1>3, <1>4 DEF Frame, Quiet, GoodsMove, goodsVars

LEMMA BeginningMoves ==
  ASSUME StockInv, NEW r \in Requests, BeginStock(r)
  PROVE  GoodsMove
  <1>. USE Kinds DEF StockInv, Stockers, Editors, Written
  <1>1. \E s \in (Steps \cup Still) \ Held : Start(r, s)
    BY DEF BeginStock, BeginDelivery, BeginImport, BeginUpdate, BeginPriceChange, BeginPlan,
           BeginClose, FirstStep, AfterSupplier, Held, Steps, StockSteps, Still
  <1>2. UNCHANGED <<goodsVars, line>>
    BY DEF BeginStock, BeginDelivery, BeginImport, BeginUpdate, BeginPriceChange, BeginPlan,
           BeginClose, goodsVars, stockVars, catalogRest
  <1>3. LinesGrow
    BY <1>2 DEF LinesGrow, StockTypeOK
  <1>. QED
    BY <1>1, <1>2, <1>3 DEF Frame, Quiet, GoodsMove, goodsVars

LEMMA GoodsMoves ==
  ASSUME StockInv, cast.requests \subseteq Requests, [Next]_vars
  PROVE  GoodsMove
  <1>1. CASE UNCHANGED vars
    BY <1>1 DEF vars, overlapVars, stockVars, GoodsMove
  <1>2. CASE Next
    <2>1. PICK r \in Requests : Request(r) /\ r \in cast.requests
      BY <1>2 DEF Next
    <2>2. CASE BeginStock(r)
      BY <2>2, BeginningMoves
    <2>3. CASE StockStep(r)
      <3>1. CASE r \in Deliveries /\ CreateBatch(r)
        BY <2>1, <3>1 DEF CreateBatch, NextLine, Arrive, GoodsMove
      <3>. QED
        BY <2>3, <3>1, LookUpMoves, CloserMoves, OtherMoves DEF StockStep, Written
    <2>4. CASE /\ UNCHANGED stockVars
               /\ BeginOperation(r) \/ ConfigStep(r) \/ BeginAdmin(r) \/ AdminStep(r) \/ Fail(r)
      <3>1. Frame
        BY <2>4 DEF Frame, LinesGrow, stockVars, StockInv, StockTypeOK, Stockers
      <3>2. CASE BeginOperation(r) \/ BeginAdmin(r)
        <4>1. \E s \in (Steps \cup Still) \ Held : Start(r, s)
          BY <3>2 DEF BeginOperation, BeginAdmin, Install, BeginConfig, BeginGrant, BeginUserMaker,
                      BeginSwitch, BeginAssign, Held, Steps, ConfigSteps, AccessSteps, Still
        <4>. QED
          BY <3>1, <4>1 DEF Quiet, GoodsMove
      <3>3. CASE ConfigStep(r) \/ AdminStep(r)
        <4>1. at[r] \in ConfigSteps \cup AccessSteps
          BY <3>3, ConfigMoves
          DEF AdminStep, FindKeys, CreateKeys, CreateRole, ClearGrants, WriteGrants, CreateUser,
              SwitchUser, AssignRole, WriteAuditLog, AccessSteps
        <4>2. \E s \in ConfigSteps \cup AccessSteps \cup {"done", "failed"} : Goto(r, s)
          BY <3>3, ConfigMoves
          DEF AdminStep, FindKeys, CreateKeys, CreateRole, ClearGrants, WriteGrants, CreateUser,
              SwitchUser, AssignRole, WriteAuditLog, AccessSteps
        <4>. QED
          BY <3>1, <4>1, <4>2
          DEF Quiet, GoodsMove, Held, Steps, StockSteps, ConfigSteps, AccessSteps, Still
      <3>4. CASE Fail(r)
        BY <3>1, <3>4 DEF Fail, StockInv, AtType, Quiet, GoodsMove, Held, Still
      <3>. QED
        BY <2>4, <3>2, <3>3, <3>4
    <2>. QED
      BY <2>1, <2>2, <2>3, <2>4 DEF Request
  <1>. QED
    BY <1>1, <1>2

-----------------------------------------------------------------------------
(* The quantities of the batches: what is true of them.                      *)

Delivered(g) == Document[g[1]][g[2]].qty

\* What a delivery has still to bring is not there, and nobody has it in hand.
NotYet ==
  \A d \in Deliveries \cap cast.requests : \A i \in DOMAIN Document[d] : i >= line[d] =>
    /\ batch[<<d, i>>].product = NoRow /\ adjusted[<<d, i>>] = 0
    /\ \A c \in Closers : lot[c] # <<d, i>>

BookedInv == \A c \in Closers : at[c] = "stock" => c \in bookers[lot[c]]

\* No closing that has adjusted g has failed, and no two of them have overlapped.
Straight(g) ==
  \A b \in bookers[g] : at[b] # "failed" /\ \A c \in bookers[g] : c \notin met[b]

\* Then its quantity is accounted for, or it will be by the one closing that has still to write it;
\* and one that has it in hand has read it as it is, if it has not overlapped with those before.
Accounted(g) ==
  /\ \A c \in Closers : lot[c] = g =>
       /\ at[c] = "stock" => read[c] + due[c] = Delivered(g) + adjusted[g]
       /\ at[c] \in {"item", "adjust"} /\ (\A b \in bookers[g] \ {c} : b \notin met[c]) =>
            read[c] = batch[g].qty
  /\ (\A c \in Closers : ~(at[c] = "stock" /\ lot[c] = g)) =>
       batch[g].qty = Delivered(g) + adjusted[g]

AccountInv == \A g \in Goods : batch[g].product # NoRow /\ Straight(g) => Accounted(g)

GoodsInv == NotYet /\ BookedInv /\ AccountInv

LEMMA GoodsAre ==
  ASSUME NEW g \in Goods
  PROVE  g[1] \in Deliveries /\ g[2] \in DOMAIN Document[g[1]] /\ g = <<g[1], g[2]>>
         /\ Delivered(g) \in Int
  <1>1. PICK d \in Deliveries : g \in Lines(d)
    BY DEF Goods
  <1>2. PICK i \in DOMAIN Document[d] : g = <<d, i>>
    BY <1>1 DEF Lines
  <1>3. Document[d][i].qty \in Int
    BY Documents
  <1>. QED
    BY <1>2, <1>3 DEF Delivered

LEMMA GoodsInvInit == Init => GoodsInv
  <1>. SUFFICES ASSUME Init PROVE GoodsInv
    OBVIOUS
  <1>1. \A r \in Requests : at[r] = "idle"
    BY DEF Init, OverlapInit
  <1>2. StockInit(cast.known \cap Deliveries) /\ cast.requests \cap cast.known = {}
    BY CastAssumption DEF Init
  <1>3. NotYet
    <2>. SUFFICES ASSUME NEW d \in Deliveries \cap cast.requests, NEW i \in DOMAIN Document[d]
                  PROVE  /\ batch[<<d, i>>].product = NoRow /\ adjusted[<<d, i>>] = 0
                         /\ \A c \in Closers : lot[c] # <<d, i>>
      BY DEF NotYet
    <2>1. <<d, i>> \in Goods /\ <<d, i>> \in Articles
      BY DEF Goods, Articles, Lines
    <2>2. <<d, i>> # NoRow
      BY <2>1, InventoryAssumption
    <2>. QED
      BY <1>2, <2>1, <2>2 DEF StockInit
  <1>4. BookedInv
    BY <1>1, Kinds DEF BookedInv, Stockers
  <1>5. AccountInv
    <2>. SUFFICES ASSUME NEW g \in Goods, batch[g].product # NoRow PROVE Accounted(g)
      BY DEF AccountInv
    <2>1. batch[g].qty = Delivered(g) /\ adjusted[g] = 0
      BY <1>2 DEF StockInit, Delivered
    <2>. QED
      BY <1>1, <2>1, GoodsAre, Kinds DEF Accounted, Stockers
  <1>. QED
    BY <1>3, <1>4, <1>5 DEF GoodsInv

LEMMA NotYetKept ==
  ASSUME StockInv, StockInv', NotYet, GoodsMove, UNCHANGED cast
  PROVE  NotYet'
  <1>. SUFFICES ASSUME NEW d \in Deliveries \cap cast.requests, NEW i \in DOMAIN Document[d], i >= line'[d]
                PROVE  /\ batch'[<<d, i>>].product = NoRow /\ adjusted'[<<d, i>>] = 0
                       /\ \A c \in Closers : lot'[c] # <<d, i>>
    BY DEF NotYet
  <1>. DEFINE g == <<d, i>>
  <1>0. g \in Goods /\ g # NoRow /\ i \in Nat /\ line[d] \in Nat
    <2>1. g \in Goods /\ g \in Articles
      BY DEF Goods, Articles, Lines
    <2>. QED
      <3>1. DOMAIN Document[d] = 1 .. Len(Document[d]) /\ Len(Document[d]) \in Nat
        BY Documents
      <3>2. line[d] \in Nat
        BY DEF StockInv, StockTypeOK, Stockers
      <3>3. i \in Nat
        BY <3>1
      <3>. QED
        BY <2>1, <3>2, <3>3, InventoryAssumption
  <1>. USE DEF StockInv
  <1>1. CASE LinesGrow \/ UNCHANGED line
    <2>1. i >= line[d]
      <3>1. line'[d] \in Nat
        BY DEF StockTypeOK, Stockers
      <3>. QED
        BY <1>0, <1>1, <3>1 DEF LinesGrow
    <2>2. batch[g].product = NoRow /\ adjusted[g] = 0 /\ \A c \in Closers : lot[c] # g
      BY <2>1 DEF NotYet
    <2>. HIDE DEF g
    <2>3. CASE Quiet
      BY <2>2, <2>3 DEF Quiet, Frame, g
    <2>4. CASE \E c \in Closers : Take(c)
      BY <2>2, <2>4, <1>0 DEF Take, StockTypeOK, g
    <2>5. CASE \E c \in Closers : Book(c)
      BY <2>2, <2>5 DEF Book, StockTypeOK, g
    <2>6. CASE \E c \in Closers : Store(c)
      BY <2>2, <2>6 DEF Store, StockTypeOK, Batch, g
    <2>7. CASE UNCHANGED <<at, met, batch, adjusted, bookers, lot, read, due, line>>
      BY <2>2, <2>7 DEF g
    <2>8. CASE \E b \in Deliveries : Arrive(b)
      <3>1. PICK b \in Deliveries : Arrive(b)
        BY <2>8
      <3>2. line'[b] = line[b] + 1 /\ line[b] \in Nat
        BY <3>1 DEF Arrive, StockTypeOK, Stockers
      <3>3. b # d \/ i # line[b]
        BY <3>2, <1>0, <1>1
      <3>4. Here(b) # g
        BY <3>3 DEF Here, g
      <3>. QED
        BY <2>2, <3>1, <3>4, <1>0 DEF Arrive, StockTypeOK, g
    <2>. QED
      BY <2>3, <2>4, <2>5, <2>6, <2>7, <2>8 DEF GoodsMove
  <1>2. CASE \E b \in Deliveries : Arrive(b)
    <2>1. PICK b \in Deliveries : Arrive(b)
      BY <1>2
    <2>2. line' = [line EXCEPT ![b] = @ + 1] /\ line \in [Stockers -> Nat]
      BY <2>1 DEF Arrive, StockTypeOK
    <2>3. i >= line[d] /\ (b # d \/ i # line[b])
      BY <1>0, <2>2 DEF Stockers
    <2>4. batch[g].product = NoRow /\ adjusted[g] = 0 /\ \A c \in Closers : lot[c] # g
      BY <2>3 DEF NotYet
    <2>5. Here(b) # g
      BY <2>3 DEF Here
    <2>6. batch'[g] = batch[g]
      BY <2>1, <2>5, <1>0 DEF Arrive, StockTypeOK
    <2>. QED
      BY <2>1, <2>4, <2>6 DEF Arrive
  <1>. QED
    BY <1>1, <1>2 DEF GoodsMove, Quiet, Frame, Take, Book, Store

\* A step in hand, from before to after.
LEMMA BookedKept ==
  ASSUME StockInv, BookedInv, GoodsMove
  PROVE  BookedInv'
  <1>. USE Kinds DEF StockInv, AtType, Stockers, BookedInv
  <1>1. CASE Quiet
    BY <1>1 DEF Quiet, Frame, Start, Goto, Held, Onto
  <1>2. CASE \E c \in Closers : Take(c)
    BY <1>2 DEF Take, Goto, StockTypeOK
  <1>3. CASE \E c \in Closers : Book(c)
    BY <1>3 DEF Book, Goto, StockTypeOK
  <1>4. CASE \E c \in Closers : Store(c)
    BY <1>4 DEF Store, Goto, Onto
  <1>5. CASE \E d \in Deliveries : Arrive(d)
    BY <1>5 DEF Arrive, Goto
  <1>6. CASE UNCHANGED <<at, met, batch, adjusted, bookers, lot, read, due, line>>
    BY <1>6
  <1>. QED
    BY <1>1, <1>2, <1>3, <1>4, <1>5, <1>6 DEF GoodsMove

\* A closing has met everyone under way; what has been met stays so, and so do failures.
LEMMA MoveKeeps ==
  ASSUME StockInv, met \in [Requests -> SUBSET Requests], GoodsMove
  PROVE  /\ \A r \in Requests : met[r] \subseteq met'[r] /\ (at[r] = "failed" => at'[r] = "failed")
         /\ \A g \in Goods : bookers[g] \subseteq bookers'[g]
         /\ (~ \E d \in Deliveries : Arrive(d)) =>
              \A g \in Goods : batch'[g].product = batch[g].product
  <1>. USE Kinds DEF StockInv, AtType, Stockers
  <1>1. \A g \in Goods : bookers[g] \subseteq bookers'[g]
    <2>1. CASE \E c \in Closers : Book(c)
      <3>1. bookers \in [Goods -> SUBSET Closers]
        BY DEF StockTypeOK
      <3>. QED
        BY <2>1, <3>1 DEF Book
    <2>2. CASE UNCHANGED bookers
      BY <2>2
    <2>. QED
      BY <2>1, <2>2 DEF GoodsMove, Quiet, Frame, Take, Store, Arrive
  <1>2. \A r \in Requests : met[r] \subseteq met'[r] /\ (at[r] = "failed" => at'[r] = "failed")
    <2>1. CASE \E r \in Requests : \E s : at[r] \in Steps /\ Goto(r, s)
      BY <2>1 DEF Goto, Steps, StockSteps, ConfigSteps, AccessSteps
    <2>2. CASE \E r \in Requests : \E s : Start(r, s)
      BY <2>2 DEF Start
    <2>3. CASE UNCHANGED <<at, met>>
      BY <2>3
    <2>. QED
      BY <2>1, <2>2, <2>3
      DEF GoodsMove, Quiet, Take, Book, Store, Arrive, Steps, StockSteps
  <1>3. ASSUME ~ \E d \in Deliveries : Arrive(d), NEW g \in Goods
        PROVE  batch'[g].product = batch[g].product
    <2>1. CASE \E c \in Closers : Store(c)
      BY <2>1 DEF Store, StockTypeOK, Batch
    <2>. QED
      BY <1>3, <2>1 DEF GoodsMove, Quiet, Frame, Take, Book
  <1>. QED
    BY <1>1, <1>2, <1>3

LEMMA StraightBefore ==
  ASSUME StockInv, met \in [Requests -> SUBSET Requests], GoodsMove, NEW g \in Goods, Straight(g)'
  PROVE  Straight(g)
  <1>1. bookers[g] \subseteq Closers /\ Closers \subseteq Requests
    BY Kinds DEF StockInv, StockTypeOK, Stockers
  <1>. QED
    BY <1>1, MoveKeeps DEF Straight

LEMMA AccountKept ==
  ASSUME StockInv, StockInv', MetInv, met \in [Requests -> SUBSET Requests], GoodsInv, GoodsMove
  PROVE  AccountInv'
  <1>. SUFFICES ASSUME NEW g \in Goods, batch'[g].product # NoRow, Straight(g)'
                PROVE  Accounted(g)'
    BY DEF AccountInv
  <1>. USE Kinds DEF StockInv, AtType, Stockers
  <1>0. /\ lot \in [Closers \cup Planners -> Goods \cup {NoRow}] /\ read \in [Stockers -> Int]
        /\ adjusted \in [Goods -> Int] /\ bookers \in [Goods -> SUBSET Closers]
        /\ batch \in [Goods -> Batch] /\ due \in [Closers -> Int] /\ Delivered(g) \in Int
    BY GoodsAre DEF StockTypeOK
  <1>1. Straight(g)
    BY StraightBefore
  <1>2. CASE \E d \in Deliveries : Arrive(d)
    <2>1. PICK d \in Deliveries : Arrive(d)
      BY <1>2
    <2>2. /\ UNCHANGED <<adjusted, bookers, lot, read, due, met>>
          /\ \A c \in Closers : at'[c] = at[c]
      BY <2>1 DEF Arrive, Goto
    <2>3. CASE g = Here(d)
      <3>1. line[d] \in DOMAIN Document[d]
        BY <2>1 DEF Arrive, StockReach, Written
      <3>2. line[d] \in Nat
        BY DEF StockTypeOK
      <3>3. adjusted[g] = 0 /\ \A c \in Closers : lot[c] # g
        BY <2>1, <2>3, <3>1, <3>2 DEF GoodsInv, NotYet, Arrive, Here
      <3>4. batch'[g].qty = Delivered(g)
        BY <1>0, <2>1, <2>3 DEF Arrive, Here, Delivered
      <3>. QED
        BY <1>0, <2>2, <3>3, <3>4 DEF Accounted, Delivered
    <2>4. CASE g # Here(d)
      <3>1. batch'[g] = batch[g]
        BY <1>0, <2>1, <2>4 DEF Arrive
      <3>2. Accounted(g)
        BY <1>1, <3>1 DEF GoodsInv, AccountInv
      <3>. QED
        BY <2>2, <3>1, <3>2 DEF Accounted, Delivered
    <2>. QED
      BY <2>3, <2>4
  <1>3. CASE ~ \E d \in Deliveries : Arrive(d)
    <2>0. Accounted(g)
      BY <1>1, <1>3, MoveKeeps DEF GoodsInv, AccountInv
    <2>1. CASE UNCHANGED <<at, met, batch, adjusted, bookers, lot, read, due, line>>
      BY <2>0, <2>1 DEF Accounted, Delivered
    <2>2. CASE Quiet
      <3>1. /\ UNCHANGED <<batch, adjusted, bookers>>
            /\ \A c \in Closers :
                 lot'[c] = lot[c] /\ read'[c] = read[c] /\ (at[c] = "stock" => due'[c] = due[c])
        BY <2>2 DEF Quiet, Frame
      <3>2. \A c \in Closers : /\ at'[c] = "stock" => at[c] = "stock"
                               /\ at'[c] \in {"item", "adjust"} => at[c] \in {"item", "adjust"}
                               /\ at[c] = "stock" => at'[c] \in {"stock", "failed"}
        BY <2>2 DEF Quiet, Start, Goto, Held, Onto
      <3>3. \A c \in Closers : at[c] = "stock" /\ lot[c] = g => at'[c] = "stock"
        BY <3>1, <3>2 DEF GoodsInv, BookedInv, Straight
      <3>. QED
        BY <2>0, <3>1, <3>2, <3>3, MoveKeeps DEF Accounted, Delivered
    <2>3. CASE \E c \in Closers : Take(c)
      <3>1. PICK c \in Closers : Take(c)
        BY <2>3
      <3>2. /\ UNCHANGED <<batch, adjusted, bookers, due, met>> /\ at[c] = "look" /\ at'[c] = "item"
            /\ \A q \in Closers \ {c} : at'[q] = at[q] /\ lot'[q] = lot[q] /\ read'[q] = read[q]
            /\ lot'[c] = g => read'[c] = batch[g].qty
        <4>1. g # NoRow
          BY InventoryAssumption DEF Goods, Articles
        <4>. QED
          BY <1>0, <3>1, <4>1 DEF Take, Goto
      <3>. QED
        BY <2>0, <3>2 DEF Accounted, Delivered
    <2>4. CASE \E c \in Closers : Book(c)
      <3>1. PICK c \in Closers : Book(c)
        BY <2>4
      <3>2. /\ UNCHANGED <<batch, lot, read, due, met>> /\ at[c] = "adjust" /\ at'[c] = "stock"
            /\ \A q \in Closers \ {c} : at'[q] = at[q]
            /\ adjusted'[lot[c]] = adjusted[lot[c]] + due[c]
            /\ bookers'[lot[c]] = bookers[lot[c]] \cup {c}
            /\ lot[c] # g => adjusted'[g] = adjusted[g] /\ bookers'[g] = bookers[g]
        BY <1>0, <3>1 DEF Book, Goto
      <3>3. CASE lot[c] # g
        BY <2>0, <3>2, <3>3 DEF Accounted, Delivered
      <3>4. CASE lot[c] = g
        <4>1. \A b \in bookers[g] \ {c} : b \notin met[c] /\ c \notin met[b]
          BY <3>2, <3>4 DEF Straight
        <4>2. \A b \in bookers[g] \ {c} : at[b] # "stock"
          BY <1>0, <3>2, <4>1 DEF MetInv, Busy, Still
        <4>3. \A q \in Closers : ~(at[q] = "stock" /\ lot[q] = g)
          BY <3>2, <4>2 DEF GoodsInv, BookedInv
        <4>4. read[c] = batch[g].qty /\ batch[g].qty = Delivered(g) + adjusted[g]
          BY <2>0, <3>2, <3>4, <4>1, <4>3 DEF Accounted
        <4>5. read[c] + due[c] = Delivered(g) + adjusted'[g]
          BY <1>0, <3>2, <3>4, <4>4
        <4>6. \A q \in Closers \ {c} : at[q] \in {"item", "adjust"} => c \in met[q]
          BY <3>2 DEF MetInv, Busy, Still
        <4>. QED
          BY <3>2, <3>4, <4>3, <4>5, <4>6 DEF Accounted, Delivered
      <3>. QED
        BY <3>3, <3>4
    <2>5. CASE \E c \in Closers : Store(c)
      <3>1. PICK c \in Closers : Store(c)
        BY <2>5
      <3>2. /\ UNCHANGED <<adjusted, bookers, lot, read, due, met>>
            /\ at[c] = "stock" /\ at'[c] \in Onto
            /\ \A q \in Closers \ {c} : at'[q] = at[q]
            /\ lot[c] # g => batch'[g] = batch[g]
        BY <1>0, <3>1 DEF Store, Goto, Onto
      <3>3. CASE lot[c] # g
        BY <2>0, <3>2, <3>3 DEF Accounted, Delivered, Onto
      <3>4. CASE lot[c] = g
        <4>1. c \in bookers[g]
          BY <3>2, <3>4 DEF GoodsInv, BookedInv
        <4>2. \A q \in Closers \ {c} : at[q] \notin Still => c \in met[q] /\ q \in met[c]
          BY <3>2 DEF MetInv, Busy, Still
        <4>3. \A q \in Closers \ {c} : ~(at[q] = "stock" /\ lot[q] = g)
          BY <1>1, <4>1, <4>2 DEF GoodsInv, BookedInv, Straight, Still
        <4>4. batch'[g].qty = Delivered(g) + adjusted[g]
          <5>1. batch'[g].qty = read[c] + due[c]
            BY <1>0, <3>1, <3>4 DEF Store, Batch
          <5>. QED
            BY <2>0, <3>2, <3>4, <5>1 DEF Accounted
        <4>. QED
          BY <3>2, <4>1, <4>2, <4>3, <4>4 DEF Accounted, Delivered, Onto, Still
      <3>. QED
        BY <3>3, <3>4
    <2>. QED
      BY <1>3, <2>1, <2>2, <2>3, <2>4, <2>5 DEF GoodsMove
  <1>. QED
    BY <1>2, <1>3

-----------------------------------------------------------------------------
(* What has been counted: what a step does to it.                            *)

Jot(c) ==
  /\ at[c] = "item" /\ \E s \in {"adjust"} \cup Onto : Goto(c, s)
  /\ UNCHANGED <<batch, adjusted, bookers, lot, read, last>>
  /\ LinesGrow
  /\ \E e, n \in Int :
       /\ due' = [due EXCEPT ![c] = n - e]
       /\ told' = IF lot[c] = NoRow THEN told
                  ELSE [told EXCEPT ![c][lot[c]] = [counted |-> n, expected |-> e, read |-> read[c]]]
       /\ IF c \in Books /\ n # e THEN at'[c] = "adjust" ELSE at'[c] \in Onto
BookLast(c) == Book(c) /\ told' = told /\ last' = [last EXCEPT ![lot[c]] = c]
Steady ==
  /\ GoodsMove
  /\ UNCHANGED <<last, told, due>>
  /\ \A c \in Closers :
       /\ at'[c] \in {"adjust", "stock"} => at'[c] = at[c]
       /\ at[c] = "item" => at'[c] \in {"item", "failed"}
       /\ at[c] = "adjust" /\ lot[c] \in Goods => at'[c] \in {"adjust", "failed"}
CountMove == Steady \/ \E c \in Closers : Jot(c) \/ BookLast(c)

LEMMA NoRowIs == NoRow \notin Goods /\ NoRow \notin Closers
  <1>1. NoRow \notin Articles /\ NoRow \notin Closers
    BY InventoryAssumption
  <1>2. Goods \subseteq Articles
    BY DEF Goods, Articles
  <1>. QED
    BY <1>1, <1>2

LEMMA CountMoves ==
  ASSUME StockInv, cast.requests \subseteq Requests, [Next]_vars
  PROVE  CountMove
  <1>. USE Kinds DEF StockInv
  <1>0. GoodsMove
    BY GoodsMoves
  <1>a. /\ at \in [Requests -> Steps \cup Still] /\ line \in [Stockers -> Nat] /\ due \in [Closers -> Int]
        /\ lot \in [Closers \cup Planners -> Goods \cup {NoRow}]
    BY DEF AtType, StockTypeOK
  <1>b. Closers \subseteq Requests /\ Closers \subseteq Stockers
    BY DEF Stockers
  <1>1. CASE UNCHANGED vars
    BY <1>0, <1>1 DEF vars, overlapVars, stockVars, CountMove, Steady
  <1>2. CASE Next
    <2>1. PICK r \in Requests : Request(r) /\ r \in cast.requests
      BY <1>2 DEF Next
    <2>2. CASE r \in Closers /\ WriteItem(r)
      <3>. DEFINE n == Count[r][line[r]].counted
                  e == Expected(r)
      <3>1. n \in Int /\ e \in Int
        <4>1. line[r] \in DOMAIN Count[r]
          BY <2>2 DEF WriteItem, StockReach
        <4>. QED
          BY <2>2, <4>1, Sheets, ExpectedIs
      <3>2. LinesGrow
        <4>1. line' = line \/ line' = [line EXCEPT ![r] = @ + 1]
          BY <2>2 DEF WriteItem, NextCount, NextLine
        <4>2. \A d \in Deliveries : line[d] \in Nat /\ d # r
          BY <1>a, <2>2 DEF Stockers
        <4>3. \A d \in Deliveries : line'[d] = line[d]
          BY <1>a, <4>1, <4>2 DEF Stockers
        <4>. QED
          BY <4>2, <4>3 DEF LinesGrow
      <3>3. /\ due' = [due EXCEPT ![r] = n - e]
            /\ told' = IF lot[r] = NoRow THEN told
                       ELSE [told EXCEPT ![r][lot[r]] = [counted |-> n, expected |-> e, read |-> read[r]]]
            /\ at[r] = "item" /\ UNCHANGED <<batch, adjusted, bookers, lot, read, last>>
        BY <2>2 DEF WriteItem
      <3>4. IF r \in Books /\ n - e # 0 THEN Goto(r, "adjust") ELSE \E s \in Onto : Goto(r, s)
        BY <2>2 DEF WriteItem, NextCount, NextLine, Onto
      <3>. HIDE DEF n, e
      <3>5. n - e # 0 <=> n # e
        BY <3>1
      <3>6. /\ \E s \in {"adjust"} \cup Onto : Goto(r, s)
            /\ IF r \in Books /\ n # e THEN at'[r] = "adjust" ELSE at'[r] \in Onto
        BY <1>a, <3>4, <3>5 DEF Goto
      <3>7. Jot(r)
        BY <3>1, <3>2, <3>3, <3>6 DEF Jot
      <3>. QED
        BY <2>2, <3>7 DEF CountMove
    <2>3. CASE r \in Closers /\ Adjust(r) /\ lot[r] # NoRow
      <3>1. lot[r] \in Goods
        BY <1>a, <2>3
      <3>2. BookLast(r)
        BY <2>3, <3>1 DEF Adjust, BookLast, Book, LinesGrow, Stockers, StockTypeOK
      <3>. QED
        BY <2>3, <3>2 DEF CountMove
    <2>4. CASE r \in Closers /\ Adjust(r) /\ lot[r] = NoRow
      <3>1. UNCHANGED <<last, told, due>> /\ at[r] = "adjust" /\ \E s \in Onto : Goto(r, s)
        BY <2>4 DEF Adjust, NextCount, NextLine, Onto
      <3>2. lot[r] \notin Goods
        BY <2>4, NoRowIs
      <3>3. at'[r] \in Onto /\ \A c \in Closers \ {r} : at'[c] = at[c]
        BY <1>a, <1>b, <2>4, <3>1 DEF Goto
      <3>4. \A c \in Closers : /\ at'[c] \in {"adjust", "stock"} => at'[c] = at[c]
                               /\ at[c] = "item" => at'[c] \in {"item", "failed"}
                               /\ at[c] = "adjust" /\ lot[c] \in Goods => at'[c] \in {"adjust", "failed"}
        BY <3>1, <3>2, <3>3 DEF Onto
      <3>. QED
        BY <1>0, <3>1, <3>4 DEF CountMove, Steady
    <2>5. CASE r \in Closers /\ (LookUp(r) \/ WriteStock(r) \/ CloseSheet(r))
      <3>1. UNCHANGED <<last, told, due>> /\ at[r] \in {"look", "stock", "close"}
            /\ \E s \in Onto \cup {"item", "done", "failed"} : Goto(r, s)
        BY <2>5 DEF LookUp, WriteStock, CloseSheet, NextCount, NextLine, Onto
      <3>. QED
        BY <1>0, <1>a, <1>b, <3>1 DEF CountMove, Steady, Goto, Onto
    <2>6. CASE StockStep(r) /\ r \notin Closers
      <3>1. \A c \in Closers : at'[c] = at[c]
        <4>1. \E s \in StockSteps \cup {"done", "failed"} : at' = [at EXCEPT ![r] = s]
          BY <2>1, <2>6, StockMoves DEF Goto
        <4>. QED
          BY <1>b, <2>6, <4>1
      <3>2. UNCHANGED <<last, told, due>>
        BY <2>6
        DEF StockStep, FindSupplier, CreateSupplier, FindArticle, SetEan, CreateArticle, CreateBatch, PutLine,
            UpdateProduct, WriteHistory, WritePrice, OpenSheet, LookUp, AddItem, stockVars, catalogRest
      <3>. QED
        BY <1>0, <3>1, <3>2 DEF CountMove, Steady
    <2>7. CASE BeginStock(r) \/ (UNCHANGED stockVars /\ (BeginOperation(r) \/ BeginAdmin(r)))
      <3>1. at[r] = "idle" /\ \E s \in (Steps \cup Still) \ Held : at' = [at EXCEPT ![r] = s]
        BY <2>7
        DEF BeginStock, BeginDelivery, BeginImport, BeginUpdate, BeginPriceChange, BeginPlan, BeginClose,
            FirstStep, AfterSupplier, BeginOperation, BeginAdmin, Install, BeginConfig, BeginGrant, BeginUserMaker,
            BeginSwitch, BeginAssign, Start, Held, Steps, StockSteps, ConfigSteps, AccessSteps, Still
      <3>2. UNCHANGED <<last, told, due>>
        <4>1. CASE BeginStock(r)
          BY <4>1
          DEF BeginStock, BeginDelivery, BeginImport, BeginUpdate, BeginPriceChange, BeginPlan, BeginClose,
              stockVars, catalogRest
        <4>2. CASE UNCHANGED stockVars
          BY <4>2 DEF stockVars
        <4>. QED
          BY <2>7, <4>1, <4>2
      <3>. QED
        BY <1>0, <1>a, <1>b, <3>1, <3>2 DEF CountMove, Steady, Held
    <2>8. CASE UNCHANGED stockVars /\ (ConfigStep(r) \/ AdminStep(r) \/ Fail(r))
      <3>1. \/ at' = [at EXCEPT ![r] = "failed"]
            \/ /\ at[r] \in ConfigSteps \cup AccessSteps
               /\ \E s \in ConfigSteps \cup AccessSteps \cup {"done", "failed"} : at' = [at EXCEPT ![r] = s]
        BY <2>8, ConfigMoves
        DEF AdminStep, FindKeys, CreateKeys, CreateRole, ClearGrants, WriteGrants, CreateUser,
            SwitchUser, AssignRole, WriteAuditLog, AccessSteps, Fail, Goto
      <3>. QED
        BY <1>0, <1>a, <1>b, <2>8, <3>1 DEF CountMove, Steady, stockVars, ConfigSteps, AccessSteps
    <2>9. Request(r)
      BY <2>1
    <2>. QED
      BY <2>2, <2>3, <2>4, <2>5, <2>6, <2>7, <2>8, <2>9 DEF Request, StockStep, Stockers, Editors
  <1>. QED
    BY <1>1, <1>2

\* A closing that is to book holds the difference it has noted.
HandInv ==
  \A c \in Closers : at[c] \in {"adjust", "stock"} =>
    /\ c \in Books
    /\ lot[c] \in Goods =>
         LET t == told[c][lot[c]] IN t.read = read[c] /\ due[c] = t.counted - t.expected

\* What has still to be delivered nobody has booked.
Unbooked ==
  \A d \in Deliveries \cap cast.requests : \A i \in DOMAIN Document[d] : i >= line[d] => last[<<d, i>>] = NoRow

\* The closing c that was the last to book batch g has overlapped with no other that booked it.
Lonely(c, g) == \A d \in bookers[g] : d \notin met[c]

\* Then there is in stock what it has counted, or it is about to see to that; and when it counts the
\* batch once more it has read what there is.  Whoever is still to write g has overlapped with it.
CountedRight(g) ==
  LET c == last[g] IN c # NoRow =>
    /\ c \in Books
    /\ \A q \in Closers \ {c} : at[q] = "stock" /\ lot[q] = g => q \in bookers[g] /\ q \in met[c]
    /\ Lonely(c, g) /\ at[c] # "failed" /\ told[c][g].expected = told[c][g].read =>
         IF at[c] = "stock" /\ lot[c] = g THEN read[c] + due[c] = told[c][g].counted
         ELSE (at[c] = "adjust" /\ lot[c] = g) \/ batch[g].qty = told[c][g].counted
    /\ Lonely(c, g) /\ at[c] = "item" /\ lot[c] = g => read[c] = batch[g].qty

CountInv == HandInv /\ Unbooked /\ \A g \in Goods : CountedRight(g)

LEMMA CountInvInit == Init => CountInv
  <1>. SUFFICES ASSUME Init PROVE CountInv
    OBVIOUS
  <1>1. HandInv
    BY Kinds DEF Init, OverlapInit, HandInv, Stockers
  <1>2. \A g \in Goods : last[g] = NoRow
    BY DEF Init, StockInit
  <1>3. \A d \in Deliveries : \A i \in DOMAIN Document[d] : <<d, i>> \in Goods
    BY DEF Goods, Lines
  <1>. QED
    BY <1>1, <1>2, <1>3 DEF CountInv, Unbooked, CountedRight

LEMMA HandKept ==
  ASSUME StockInv, HandInv, CountMove
  PROVE  HandInv'
  <1>. USE Kinds DEF StockInv
  <1>0. /\ due \in [Closers -> Int] /\ told \in [Closers -> [Goods -> Tale]]
        /\ lot \in [Closers \cup Planners -> Goods \cup {NoRow}] /\ Closers \subseteq Requests
        /\ at \in [Requests -> Steps \cup Still] /\ NoRow \notin Goods
    BY NoRowIs DEF StockTypeOK, AtType, Stockers
  <1>. SUFFICES ASSUME NEW c \in Closers, at'[c] \in {"adjust", "stock"}
                PROVE  /\ c \in Books
                       /\ lot'[c] \in Goods => /\ told'[c][lot'[c]].read = read'[c]
                                               /\ due'[c] = told'[c][lot'[c]].counted - told'[c][lot'[c]].expected
    BY DEF HandInv
  <1>1. CASE Steady
    <2>1. at'[c] = at[c] /\ UNCHANGED <<told, due>>
      BY <1>1 DEF Steady
    <2>2. lot'[c] = lot[c] /\ read'[c] = read[c]
      <3>1. CASE Quiet \/ UNCHANGED <<at, met, batch, adjusted, bookers, lot, read, due, line>>
        BY <3>1 DEF Quiet, Frame
      <3>2. CASE \E q \in Closers : Take(q)
        <4>1. PICK q \in Closers : Take(q)
          BY <3>2
        <4>2. q # c
          BY <1>0, <2>1, <4>1 DEF Take, Goto
        <4>. QED
          BY <1>0, <4>1, <4>2 DEF Take, StockTypeOK, Stockers
      <3>3. CASE \E q \in Requests : Book(q) \/ Store(q) \/ Arrive(q)
        BY <3>3 DEF Book, Store, Arrive
      <3>. QED
        BY <1>0, <1>1, <3>1, <3>2, <3>3 DEF Steady, GoodsMove, Stockers
    <2>. QED
      BY <2>1, <2>2 DEF HandInv
  <1>2. CASE \E q \in Closers : Jot(q)
    <2>1. PICK q \in Closers : Jot(q)
      BY <1>2
    <2>2. CASE q = c
      <3>1. PICK e \in Int, n \in Int :
              /\ due' = [due EXCEPT ![c] = n - e]
              /\ told' = IF lot[c] = NoRow THEN told
                         ELSE [told EXCEPT ![c][lot[c]] = [counted |-> n, expected |-> e, read |-> read[c]]]
              /\ IF c \in Books /\ n # e THEN at'[c] = "adjust" ELSE at'[c] \in Onto
        BY <2>1, <2>2 DEF Jot
      <3>2. c \in Books
        BY <3>1 DEF Onto
      <3>3. UNCHANGED <<lot, read>>
        BY <2>1 DEF Jot
      <3>4. ASSUME lot[c] \in Goods
            PROVE  told'[c][lot[c]] = [counted |-> n, expected |-> e, read |-> read[c]]
        BY <1>0, <3>1, <3>4
      <3>5. due'[c] = n - e
        BY <1>0, <3>1
      <3>. QED
        BY <3>2, <3>3, <3>4, <3>5
    <2>3. CASE q # c
      <3>1. at'[c] = at[c] /\ UNCHANGED <<lot, read>> /\ due'[c] = due[c] /\ told'[c] = told[c]
        BY <1>0, <2>1, <2>3 DEF Jot, Goto
      <3>. QED
        BY <3>1 DEF HandInv
    <2>. QED
      BY <2>2, <2>3
  <1>3. CASE \E q \in Closers : BookLast(q)
    <2>1. PICK q \in Closers : BookLast(q)
      BY <1>3
    <2>2. UNCHANGED <<told, due, lot, read>> /\ at[c] \in {"adjust", "stock"}
      BY <1>0, <2>1 DEF BookLast, Book, Goto
    <2>. QED
      BY <2>2 DEF HandInv
  <1>. QED
    BY <1>1, <1>2, <1>3 DEF CountMove

LEMMA UnbookedKept ==
  ASSUME StockInv, StockInv', NotYet, Unbooked, CountMove, UNCHANGED cast
  PROVE  Unbooked'
  <1>. SUFFICES ASSUME NEW d \in Deliveries \cap cast.requests, NEW i \in DOMAIN Document[d], i >= line'[d]
                PROVE  last'[<<d, i>>] = NoRow
    BY DEF Unbooked
  <1>. USE Kinds DEF StockInv
  <1>0. i \in Nat /\ line[d] \in Nat /\ line'[d] \in Nat
    <2>1. DOMAIN Document[d] = 1 .. Len(Document[d]) /\ Len(Document[d]) \in Nat
      BY Documents
    <2>. QED
      BY <2>1 DEF StockTypeOK, Stockers
  <1>1. i >= line[d]
    <2>1. line'[d] >= line[d]
      <3>1. CASE LinesGrow
        BY <3>1 DEF LinesGrow
      <3>2. CASE UNCHANGED line
        BY <1>0, <3>2
      <3>3. CASE \E q \in Deliveries : Arrive(q)
        BY <1>0, <3>3 DEF Arrive, StockTypeOK, Stockers
      <3>. QED
        BY <3>1, <3>2, <3>3 DEF CountMove, Steady, Jot, BookLast, GoodsMove, Quiet, Frame, Take, Book, Store
    <2>. QED
      BY <1>0, <2>1
  <1>2. last[<<d, i>>] = NoRow /\ \A c \in Closers : lot[c] # <<d, i>>
    BY <1>1 DEF Unbooked, NotYet
  <1>3. CASE UNCHANGED last
    BY <1>2, <1>3
  <1>4. CASE \E c \in Closers : BookLast(c)
    <2>1. PICK c \in Closers : last' = [last EXCEPT ![lot[c]] = c]
      BY <1>4 DEF BookLast
    <2>. QED
      BY <1>2, <2>1 DEF StockTypeOK
  <1>. QED
    BY <1>3, <1>4 DEF CountMove, Steady, Jot

\* What holds of the last booking of g, if the step is no booking of g.
LEMMA CountedKept ==
  ASSUME StockInv, StockInv', MetInv, GoodsInv, HandInv, Unbooked, CountMove,
         \A q \in Requests : met[q] \subseteq met'[q],
         \A g \in Goods : CountedRight(g)
  PROVE  \A g \in Goods : CountedRight(g)'
  <1>. USE Kinds DEF StockInv
  <1>0. /\ due \in [Closers -> Int] /\ told \in [Closers -> [Goods -> Tale]]
        /\ lot \in [Closers \cup Planners -> Goods \cup {NoRow}] /\ Closers \subseteq Requests
        /\ at \in [Requests -> Steps \cup Still] /\ NoRow \notin Goods
        /\ last \in [Goods -> Closers \cup {NoRow}] /\ bookers \in [Goods -> SUBSET Closers]
        /\ batch \in [Goods -> Batch] /\ read \in [Stockers -> Int] /\ Closers \subseteq Stockers
        /\ NoRow \notin Closers
    BY NoRowIs DEF StockTypeOK, AtType, Stockers
  <1>. SUFFICES ASSUME NEW g \in Goods, last'[g] # NoRow PROVE CountedRight(g)'
    BY DEF CountedRight
  <1>. DEFINE c == last[g]
  <1>1. c = NoRow \/ c \in Closers
    BY <1>0
  <1>2. CASE Steady
    <2>1. last' = last /\ told' = told /\ due' = due /\ c \in Closers
      BY <1>1, <1>2 DEF Steady
    <2>2. bookers' = bookers
      <3>1. \A q \in Closers : ~Book(q)
        BY <1>0, <1>2 DEF Steady, Book, Goto
      <3>. QED
        BY <1>2, <3>1 DEF Steady, GoodsMove, Quiet, Frame, Take, Store, Arrive
    <2>3. Lonely(last[g], g)' => Lonely(last[g], g)
      <3>1. met[last[g]] \subseteq met'[last'[g]]
        BY <1>0, <2>1
      <3>. QED
        BY <2>2, <3>1 DEF Lonely
    <2>. HIDE DEF c
    <2>4. \A q \in Closers \ {c} : at'[q] = "stock" /\ lot'[q] = g => q \in bookers'[g] /\ q \in met'[c]
      <3>. SUFFICES ASSUME NEW q \in Closers \ {c}, at'[q] = "stock", lot'[q] = g
                    PROVE  q \in bookers[g] /\ q \in met[c]
        BY <1>0, <2>1, <2>2
      <3>1. at[q] = "stock"
        BY <1>2 DEF Steady
      <3>2. lot'[q] = lot[q]
        BY <1>0, <1>2, <3>1 DEF Steady, GoodsMove, Quiet, Frame, Take, Book, Store, Arrive, Goto
      <3>. QED
        BY <2>1, <3>1, <3>2 DEF CountedRight, c
    <2>5. CASE Quiet \/ UNCHANGED <<at, met, batch, adjusted, bookers, lot, read, due, line>>
      <3>1. batch' = batch /\ lot'[c] = lot[c] /\ read'[c] = read[c]
        BY <2>1, <2>5 DEF Quiet, Frame
      <3>2. /\ at'[c] \in {"adjust", "stock"} => at'[c] = at[c]
            /\ at'[c] = "item" => at[c] = "item"
            /\ at[c] \in {"adjust", "stock"} /\ lot[c] \in Goods => at'[c] \in {at[c], "failed"}
            /\ at'[c] # "failed" => at[c] # "failed"
        BY <1>0, <1>2, <2>1, <2>5
        DEF Steady, Quiet, Start, Goto, Held, Onto, Steps, StockSteps, ConfigSteps, AccessSteps, Still
      <3>. QED
        BY <1>0, <2>1, <2>3, <2>4, <3>1, <3>2 DEF CountedRight, c
    <2>6. CASE \E q \in Closers : Take(q)
      <3>1. PICK q \in Closers : Take(q)
        BY <2>6
      <3>2. CASE q # c
        <4>1. batch' = batch /\ lot'[c] = lot[c] /\ read'[c] = read[c] /\ at'[c] = at[c]
          BY <1>0, <2>1, <3>1, <3>2 DEF Take, Goto
        <4>. QED
          BY <2>1, <2>3, <2>4, <4>1 DEF CountedRight, c
      <3>3. CASE q = c
        <4>1. batch' = batch /\ at[c] = "look" /\ at'[c] = "item"
          BY <1>0, <2>1, <3>1, <3>3 DEF Take, Goto
        <4>2. lot'[c] = g => read'[c] = batch[g].qty
          BY <1>0, <2>1, <3>1, <3>3 DEF Take
        <4>. QED
          BY <2>1, <2>3, <2>4, <4>1, <4>2 DEF CountedRight, c
      <3>. QED
        BY <3>2, <3>3
    <2>7. CASE \E q \in Closers : Store(q)
      <3>1. PICK q \in Closers : Store(q)
        BY <2>7
      <3>2. UNCHANGED <<lot, read>> /\ at[q] = "stock" /\ at'[q] \in Onto
            /\ \A p \in Closers \ {q} : at'[p] = at[p]
        BY <1>0, <3>1 DEF Store, Goto, Onto
      <3>3. CASE lot[q] # g
        <4>1. batch'[g] = batch[g]
          BY <1>0, <3>1, <3>3 DEF Store
        <4>2. /\ at'[c] \in {"adjust", "stock", "item"} => at'[c] = at[c]
              /\ at[c] \in {"adjust", "stock"} /\ lot[c] = g => at'[c] = at[c]
              /\ at'[c] # "failed" => at[c] # "failed"
          BY <1>0, <2>1, <3>2, <3>3 DEF Onto
        <4>. QED
          BY <2>1, <2>3, <2>4, <3>2, <4>1, <4>2 DEF CountedRight, c
      <3>4. CASE lot[q] = g /\ q = c
        <4>1. batch'[g].qty = read[c] + due[c]
          BY <1>0, <3>1, <3>4 DEF Store, Batch
        <4>. QED
          BY <2>1, <2>3, <2>4, <3>2, <3>4, <4>1 DEF CountedRight, c, Onto
      <3>5. CASE lot[q] = g /\ q # c
        <4>1. q \in bookers[g] /\ q \in met[c]
          BY <2>1, <3>2, <3>5 DEF CountedRight, c
        <4>2. ~Lonely(last[g], g)'
          BY <2>3, <4>1 DEF Lonely, c
        <4>. QED
          BY <2>1, <2>4, <4>2 DEF CountedRight, c
      <3>. QED
        BY <3>3, <3>4, <3>5
    <2>8. CASE \E d \in Deliveries : Arrive(d)
      <3>1. PICK d \in Deliveries : Arrive(d)
        BY <2>8
      <3>2. Here(d) # g
        <4>1. line[d] \in DOMAIN Document[d] /\ line[d] \in Nat
          BY <3>1 DEF Arrive, StockReach, StockTypeOK, Stockers, Written
        <4>2. last[Here(d)] = NoRow
          BY <3>1, <4>1 DEF Arrive, Unbooked, Here
        <4>. QED
          BY <1>0, <2>1, <4>2 DEF c
      <3>3. batch'[g] = batch[g] /\ UNCHANGED <<lot, read>>
        BY <1>0, <3>1, <3>2 DEF Arrive
      <3>4. at'[c] = at[c]
        BY <1>0, <2>1, <3>1 DEF Arrive, Goto
      <3>. QED
        BY <2>1, <2>3, <2>4, <3>3, <3>4 DEF CountedRight, c
    <2>9. \A q \in Closers : ~Book(q)
      BY <1>0, <1>2 DEF Steady, Book, Goto
    <2>. QED
      BY <1>2, <2>5, <2>6, <2>7, <2>8, <2>9 DEF Steady, GoodsMove
  <1>3. CASE \E q \in Closers : Jot(q)
    <2>1. PICK q \in Closers : Jot(q)
      BY <1>3
    <2>2. UNCHANGED <<batch, bookers, lot, read, last, met>> /\ at[q] = "item" /\ at'[q] \in {"adjust"} \cup Onto
          /\ \A p \in Closers \ {q} : at'[p] = at[p]
      BY <1>0, <2>1 DEF Jot, Goto, Onto
    <2>3. c \in Closers
      BY <1>1, <2>2
    <2>4. \A p \in Closers \ {q} : due'[p] = due[p] /\ told'[p] = told[p]
      BY <1>0, <2>1 DEF Jot
    <2>. HIDE DEF c
    <2>5. c \in Books /\ \A p \in Closers \ {c} : at'[p] = "stock" /\ lot[p] = g => p \in bookers[g] /\ p \in met[c]
      BY <2>2, <2>3 DEF CountedRight, c, Onto
    <2>6. CASE q # c
      BY <2>2, <2>3, <2>4, <2>5, <2>6 DEF CountedRight, c, Lonely
    <2>7. CASE q = c /\ lot[c] # g
      <3>1. told'[c][g] = told[c][g]
        BY <1>0, <2>1, <2>3, <2>7 DEF Jot
      <3>. QED
        BY <2>2, <2>3, <2>5, <2>7, <3>1 DEF CountedRight, c, Lonely, Onto
    <2>8. CASE q = c /\ lot[c] = g
      <3>1. PICK e \in Int, n \in Int :
              /\ told' = IF lot[c] = NoRow THEN told
                         ELSE [told EXCEPT ![c][lot[c]] = [counted |-> n, expected |-> e, read |-> read[c]]]
              /\ IF c \in Books /\ n # e THEN at'[c] = "adjust" ELSE at'[c] \in Onto
        BY <2>1, <2>8 DEF Jot
      <3>2. told'[c][g] = [counted |-> n, expected |-> e, read |-> read[c]]
        BY <1>0, <2>3, <2>8, <3>1
      <3>3. Lonely(c, g) => read[c] = batch[g].qty
        BY <2>2, <2>3, <2>8 DEF CountedRight, c
      <3>. QED
        BY <2>2, <2>3, <2>5, <2>8, <3>1, <3>2, <3>3 DEF CountedRight, c, Lonely, Onto
    <2>. QED
      BY <2>6, <2>7, <2>8
  <1>4. CASE \E q \in Closers : BookLast(q)
    <2>1. PICK q \in Closers : BookLast(q)
      BY <1>4
    <2>2. /\ UNCHANGED <<batch, lot, read, due, told, met>> /\ at[q] = "adjust" /\ at'[q] = "stock" /\ lot[q] \in Goods
          /\ \A p \in Closers \ {q} : at'[p] = at[p]
          /\ last' = [last EXCEPT ![lot[q]] = q]
          /\ bookers' = [bookers EXCEPT ![lot[q]] = @ \cup {q}]
      BY <1>0, <2>1 DEF BookLast, Book, Goto
    <2>3. CASE lot[q] = g
      <3>1. last'[g] = q /\ bookers[g] \subseteq bookers'[g]
        BY <1>0, <2>2, <2>3
      <3>2. \A p \in Closers \ {q} : at'[p] = "stock" /\ lot[p] = g => p \in bookers'[g] /\ p \in met[q]
        <4>1. \A p \in Closers \ {q} : at[p] = "stock" => p \in met[q]
          BY <1>0, <2>2 DEF MetInv, Busy, Still
        <4>2. \A p \in Closers : at[p] = "stock" /\ lot[p] = g => p \in bookers[g]
          BY DEF GoodsInv, BookedInv
        <4>. QED
          BY <2>2, <3>1, <4>1, <4>2
      <3>3. q \in Books /\ told[q][g].read = read[q] /\ due[q] = told[q][g].counted - told[q][g].expected
        BY <2>2, <2>3 DEF HandInv
      <3>4. told[q][g] \in Tale /\ read[q] \in Int
        BY <1>0
      <3>5. told[q][g].expected = told[q][g].read => read[q] + due[q] = told[q][g].counted
        BY <3>3, <3>4 DEF Tale
      <3>. QED
        BY <2>2, <2>3, <3>1, <3>2, <3>3, <3>5 DEF CountedRight
    <2>4. CASE lot[q] # g
      <3>1. last'[g] = c /\ bookers'[g] = bookers[g] /\ c \in Closers
        BY <1>0, <1>1, <2>2, <2>4
      <3>2. \A p \in Closers : at'[p] = at[p] \/ (p = q /\ at'[p] = "stock" /\ at[p] = "adjust")
        BY <2>2
      <3>. HIDE DEF c
      <3>. QED
        BY <2>2, <2>4, <3>1, <3>2 DEF CountedRight, c, Lonely
    <2>. QED
      BY <2>3, <2>4
  <1>. QED
    BY <1>2, <1>3, <1>4 DEF CountMove

-----------------------------------------------------------------------------
(* The catalog: which rows there are, and who has found which.               *)

LEMMA FoundListed ==
  ASSUME NEW s \in Skus, NEW e
  PROVE  \A a \in Found(s, e) : a \in Articles /\ Listed(a)
  BY InventoryAssumption DEF Found, Listed

\* The lines of a delivery that are not in the catalog yet.
Ahead(d, i) == i > line[d] \/ (i = line[d] /\ at[d] \notin {"batch", "done", "failed"})
Unlisted ==
  \A d \in Deliveries \cap cast.requests : \A i \in DOMAIN Document[d] : Ahead(d, i) =>
    ~Listed(<<d, i>>) /\ \A r \in Stockers : row[r] # <<d, i>>

\* What a step does to the catalog.
Lists ==
  /\ \A a \in Articles : Listed(a)' =>
       \/ Listed(a)
       \/ \E r \in Stockers : row[r] = a
       \/ \E r \in Importers : a[1] = r
       \/ \E d \in Deliveries : a = Here(d) /\ line'[d] = line[d] /\ at'[d] = "batch"
  /\ \A r \in Stockers :
       \/ row'[r] \in {row[r], NoRow}
       \/ Listed(row'[r])
       \/ r \in Deliveries /\ row'[r] = Here(r) /\ line'[r] = line[r] /\ at'[r] = "batch"

\* A delivery goes through its lines in order.
Passes ==
  \A d \in Deliveries \cap cast.requests :
    \/ line'[d] = line[d] /\ at'[d] = at[d]
    \/ line'[d] = line[d] /\ at[d] \notin {"batch", "done", "failed"}
    \/ line'[d] = line[d] /\ at'[d] \in {"done", "failed"}
    \/ line'[d] = line[d] + 1

LEMMA BeginLists ==
  ASSUME StockInv, NEW r \in Requests, BeginStock(r)
  PROVE  Lists
  <1>. USE Kinds DEF StockInv, Stockers, Editors, Written
  <1>1. product' = product
    BY DEF BeginStock, BeginDelivery, BeginImport, BeginUpdate, BeginPriceChange, BeginPlan, BeginClose,
           stockVars, catalogRest
  <1>2. row \in [Stockers -> Articles \cup {NoRow}]
    BY DEF StockTypeOK
  <1>3. \A q \in Stockers : row'[q] \in {row[q], NoRow} \/ Listed(row'[q])
    <2>1. CASE UNCHANGED row
      BY <2>1
    <2>2. CASE r \in Updaters /\ BeginUpdate(r)
      BY <1>2, <2>2 DEF BeginUpdate
    <2>3. CASE r \in Repricers /\ BeginPriceChange(r)
      <3>. DEFINE F == Found(Offer[r].id, Ean[Offer[r].id])
      <3>1. Offer[r].id \in Skus
        BY <2>3, InventoryAssumption
      <3>2. \A a \in F : Listed(a)
        BY <3>1, FoundListed
      <3>3. row' = [row EXCEPT ![r] = IF F = {} THEN NoRow ELSE CHOOSE a \in F : TRUE]
        BY <2>3 DEF BeginPriceChange
      <3>. HIDE DEF F
      <3>4. F = {} \/ Listed(CHOOSE a \in F : TRUE)
        BY <3>2
      <3>. QED
        BY <1>2, <3>3, <3>4
    <2>. QED
      BY <2>1, <2>2, <2>3
      DEF BeginStock, BeginDelivery, BeginImport, BeginPlan, BeginClose, stockVars
  <1>. QED
    BY <1>1, <1>3 DEF Lists, Listed

LEMMA StepLists ==
  ASSUME StockInv, NEW r \in Requests, StockStep(r)
  PROVE  Lists
  <1>. USE Kinds DEF StockInv, Stockers, Editors, Written
  <1>0. row \in [Stockers -> Articles \cup {NoRow}] /\ product \in [Articles -> Entry]
    BY DEF StockTypeOK
  <1>1. CASE UNCHANGED <<product, row>>
    BY <1>1 DEF Lists, Listed
  <1>2. CASE r \in Written /\ FindArticle(r)
    <2>. DEFINE l == Document[r][line[r]]
                F == Found(l.sku, EanOf(l))
    <2>1. l.sku \in Skus
      <3>1. line[r] \in DOMAIN Document[r]
        BY <1>2 DEF FindArticle, StockReach
      <3>. QED
        BY <1>2, <3>1, Documents
    <2>2. \A a \in F : Listed(a)
      BY <2>1, FoundListed
    <2>3. row' = [row EXCEPT ![r] = IF F = {} THEN NoRow ELSE CHOOSE a \in F : TRUE] /\ product' = product
      BY <1>2 DEF FindArticle
    <2>. HIDE DEF F
    <2>4. F = {} \/ Listed(CHOOSE a \in F : TRUE)
      BY <2>2
    <2>5. \A q \in Stockers : row'[q] \in {row[q], NoRow} \/ Listed(row'[q])
      BY <1>0, <2>3, <2>4
    <2>. QED
      BY <2>3, <2>5 DEF Lists, Listed
  <1>3. CASE r \in Deliveries /\ SetEan(r)
    <2>1. UNCHANGED row /\ \A a \in Articles : product'[a] = product[a] \/ a = row[r]
      BY <1>0, <1>3 DEF SetEan, Write, catalogRest
    <2>. QED
      BY <1>3, <2>1 DEF Lists, Listed
  <1>4. CASE r \in Deliveries /\ CreateArticle(r)
    <2>1. \/ UNCHANGED <<row, product>>
          \/ /\ row' = [row EXCEPT ![r] = Here(r)] /\ line' = line /\ Goto(r, "batch")
             /\ \A a \in Articles : product'[a] = product[a] \/ a = Here(r)
      BY <1>0, <1>4 DEF CreateArticle, Write, catalogRest
    <2>2. r \in Stockers /\ at' = [at EXCEPT ![r] = "batch"] => at'[r] = "batch"
      BY DEF AtType
    <2>. QED
      BY <1>0, <1>1, <1>4, <2>1, <2>2 DEF Lists, Listed, Goto
  <1>5. CASE r \in Importers /\ PutLine(r)
    <2>. DEFINE a == IF row[r] = NoRow THEN Here(r) ELSE row[r]
    <2>1. UNCHANGED row /\ \A b \in Articles : product'[b] = product[b] \/ b = a
      BY <1>0, <1>5 DEF PutLine, Write, catalogRest
    <2>2. Here(r)[1] = r
      BY DEF Here
    <2>. QED
      BY <1>5, <2>1, <2>2 DEF Lists, Listed
  <1>6. CASE r \in Updaters /\ UpdateProduct(r)
    <2>1. UNCHANGED row /\ \A a \in Articles : product'[a] = product[a] \/ a = row[r]
      BY <1>0, <1>6 DEF UpdateProduct, Write, catalogRest
    <2>. QED
      BY <1>6, <2>1 DEF Lists, Listed
  <1>7. CASE r \in Repricers /\ WritePrice(r)
    <2>1. UNCHANGED row /\ \A a \in Articles : product'[a] = product[a] \/ a = row[r]
      BY <1>0, <1>7 DEF WritePrice, Write, catalogRest
    <2>. QED
      BY <1>7, <2>1 DEF Lists, Listed
  <1>8. CASE r \in Planners \cup Closers /\ LookUp(r)
    <2>. DEFINE l == IF r \in Planners THEN Plan[r][line[r]] ELSE Count[r][line[r]]
    <2>1. l.id \in Skus
      <3>1. r \in Planners => line[r] \in DOMAIN Plan[r]
        BY <1>8 DEF LookUp, StockReach
      <3>2. r \in Closers => line[r] \in DOMAIN Count[r]
        BY <1>8 DEF LookUp, StockReach
      <3>. QED
        BY <1>8, <3>1, <3>2, Sheets
    <2>2. \A a \in Found(l.id, Ean[l.id]) : Listed(a)
      BY <2>1, FoundListed
    <2>3. product' = product /\ (row' = row \/ \E a \in Found(l.id, Ean[l.id]) : row' = [row EXCEPT ![r] = a])
      BY <1>8 DEF LookUp
    <2>. HIDE DEF l
    <2>4. \A q \in Stockers : row'[q] = row[q] \/ Listed(row'[q])
      BY <1>0, <2>2, <2>3
    <2>. QED
      BY <2>3, <2>4 DEF Lists, Listed
  <1>9. CASE \/ r \in Deliveries \cup Editors /\ (FindSupplier(r) \/ CreateSupplier(r))
             \/ r \in Deliveries /\ CreateBatch(r)
             \/ r \in Repricers /\ WriteHistory(r)
             \/ r \in Planners /\ (OpenSheet(r) \/ AddItem(r))
             \/ r \in Closers /\ (WriteItem(r) \/ Adjust(r) \/ WriteStock(r) \/ CloseSheet(r))
    BY <1>1, <1>9
    DEF FindSupplier, CreateSupplier, CreateBatch, WriteHistory, OpenSheet, AddItem, WriteItem, Adjust,
        WriteStock, CloseSheet, stockVars, catalogRest
  <1>. QED
    BY <1>2, <1>3, <1>4, <1>5, <1>6, <1>7, <1>8, <1>9 DEF StockStep

LEMMA NextLists ==
  ASSUME StockInv, cast.requests \subseteq Requests, [Next]_vars
  PROVE  Lists
  <1>1. CASE UNCHANGED stockVars
    BY <1>1 DEF stockVars, Lists, Listed
  <1>2. CASE Next
    <2>1. PICK r \in Requests : Request(r)
      BY <1>2 DEF Next
    <2>. QED
      BY <1>1, <2>1, BeginLists, StepLists DEF Request
  <1>. QED
    BY <1>1, <1>2 DEF vars

LEMMA DeliveryPasses ==
  ASSUME StockInv, cast.requests \subseteq Requests, [Next]_vars
  PROVE  Passes
  <1>. USE Kinds DEF StockInv, Stockers, Editors, Written, AtType
  <1>0. line \in [Stockers -> Nat]
    BY DEF StockTypeOK
  <1>1. CASE UNCHANGED <<at, line>>
    BY <1>1 DEF Passes
  <1>2. CASE Next
    <2>1. PICK r \in Requests : Request(r)
      BY <1>2 DEF Next
    <2>2. CASE StockStep(r)
      <3>1. CASE r \in Deliveries /\ CreateBatch(r)
        BY <1>0, <3>1 DEF CreateBatch, NextLine, Goto, Passes
      <3>2. CASE r \in Deliveries /\ ~CreateBatch(r)
        <4>1. UNCHANGED line /\ at[r] # "batch" /\ at[r] \in StockSteps
              /\ \E s \in StockSteps \cup {"done", "failed"} : at' = [at EXCEPT ![r] = s]
          <5>1. FindSupplier(r) \/ CreateSupplier(r) \/ FindArticle(r) \/ SetEan(r) \/ CreateArticle(r)
            BY <2>2, <3>2 DEF StockStep
          <5>2. UNCHANGED line /\ at[r] # "batch"
            BY <5>1 DEF FindSupplier, CreateSupplier, FindArticle, SetEan, CreateArticle, stockVars, catalogRest
          <5>. QED
            BY <2>2, <5>2, StockMoves DEF Goto
        <4>. QED
          BY <4>1 DEF Passes, StockSteps
      <3>3. CASE r \notin Deliveries
        <4>1. \A d \in Deliveries : at'[d] = at[d]
          BY <2>2, <3>3, StockMoves DEF Goto
        <4>2. \A d \in Deliveries : line'[d] = line[d]
          BY <1>0, <2>2, <3>3
          DEF StockStep, FindSupplier, CreateSupplier, FindArticle, PutLine, UpdateProduct, WriteHistory,
              WritePrice, OpenSheet, LookUp, AddItem, WriteItem, Adjust, WriteStock, CloseSheet,
              NextCount, NextLine, stockVars, catalogRest
        <4>. QED
          BY <4>1, <4>2 DEF Passes
      <3>. QED
        BY <3>1, <3>2, <3>3
    <2>3. CASE BeginStock(r)
      <3>1. UNCHANGED line /\ at[r] = "idle" /\ \E s \in Steps \cup Still : at' = [at EXCEPT ![r] = s]
        BY <2>3
        DEF BeginStock, BeginDelivery, BeginImport, BeginUpdate, BeginPriceChange, BeginPlan,
            BeginClose, FirstStep, AfterSupplier, Start, stockVars, catalogRest, Steps, StockSteps, Still
      <3>. QED
        BY <3>1 DEF Passes
    <2>4. CASE /\ UNCHANGED stockVars
               /\ BeginOperation(r) \/ BeginAdmin(r) \/ Fail(r)
      <3>1. \/ at[r] = "idle" /\ \E s \in Steps \cup Still : at' = [at EXCEPT ![r] = s]
            \/ at' = [at EXCEPT ![r] = "failed"]
        BY <2>4
        DEF BeginOperation, BeginAdmin, Install, BeginConfig, BeginGrant, BeginUserMaker,
            BeginSwitch, BeginAssign, Start, Fail, Goto, Steps, ConfigSteps, AccessSteps, Still
      <3>. QED
        BY <2>4, <3>1 DEF Passes, stockVars
    <2>5. CASE /\ UNCHANGED stockVars
               /\ ConfigStep(r) \/ AdminStep(r)
      <3>1. at[r] \in ConfigSteps \cup AccessSteps
        BY <2>5, ConfigMoves
        DEF AdminStep, FindKeys, CreateKeys, CreateRole, ClearGrants, WriteGrants, CreateUser,
            SwitchUser, AssignRole, WriteAuditLog, AccessSteps
      <3>2. \E s \in Steps \cup Still : at' = [at EXCEPT ![r] = s]
        BY <2>5, Elsewhere
      <3>. QED
        BY <2>5, <3>1, <3>2 DEF Passes, stockVars, ConfigSteps, AccessSteps
    <2>. QED
      BY <2>1, <2>2, <2>3, <2>4, <2>5 DEF Request
  <1>. QED
    BY <1>1, <1>2 DEF vars, overlapVars, stockVars

LEMMA UnlistedKept ==
  ASSUME StockInv, StockInv', Unlisted, Lists, Passes, UNCHANGED cast
  PROVE  Unlisted'
  <1>. SUFFICES ASSUME NEW d \in Deliveries \cap cast.requests, NEW i \in DOMAIN Document[d], Ahead(d, i)'
                PROVE  ~Listed(<<d, i>>)' /\ \A r \in Stockers : row'[r] # <<d, i>>
    BY DEF Unlisted
  <1>. DEFINE a == <<d, i>>
  <1>. USE Kinds DEF Stockers, Editors
  <1>0. a \in Articles /\ a # NoRow /\ i \in Nat /\ line[d] \in Nat
    <2>1. a \in Articles
      BY DEF Articles, Lines
    <2>2. DOMAIN Document[d] = 1 .. Len(Document[d]) /\ Len(Document[d]) \in Nat
      BY Documents
    <2>3. line[d] \in Nat
      BY DEF StockInv, StockTypeOK
    <2>4. i \in Nat
      BY <2>2
    <2>. QED
      BY <2>1, <2>3, <2>4, InventoryAssumption
  <1>1. Ahead(d, i)
    BY <1>0 DEF Ahead, Passes
  <1>2. ~Listed(a) /\ \A r \in Stockers : row[r] # a
    BY <1>1 DEF Unlisted
  <1>3. \A b \in Deliveries : a = Here(b) => b = d /\ i = line[b]
    BY DEF Here
  <1>4. \A b \in Deliveries : a = Here(b) => ~(line'[b] = line[b] /\ at'[b] = "batch")
    BY <1>0, <1>3 DEF Ahead
  <1>5. a[1] \notin Importers
    OBVIOUS
  <1>. HIDE DEF a
  <1>6. ~Listed(a)'
    BY <1>0, <1>2, <1>4, <1>5 DEF Lists
  <1>7. \A r \in Stockers : row'[r] # a
    BY <1>0, <1>2, <1>4 DEF Lists
  <1>. QED
    BY <1>6, <1>7 DEF a

-----------------------------------------------------------------------------
(* The prices: what a step does to them.                                     *)

Past == {"price", "done", "failed"}
Others(p) == \A q \in Timely \ {p} : at'[q] = at[q]

\* A step of another kind: where it changes the price of a product that a price change has found,
\* it is an edit of the catalog, or a price change that is not in force.
Calm ==
  /\ UNCHANGED price /\ edited \subseteq edited'
  /\ \A a \in Articles :
       product'[a].price = product[a].price \/ a \in edited' \/ \A q \in Repricers : row[q] # a
  /\ \A q \in Timely : at[q] \in Past => row'[q] = row[q] /\ at'[q] \in {at[q], "failed"}
  /\ \A q \in Timely : at'[q] = "price" => at[q] = "price"
State(q) ==
  /\ at[q] = "history" /\ at'[q] = "price" /\ Others(q) /\ row[q] \in Articles
  /\ price' = [price EXCEPT ![row[q]] = [by |-> q, to |-> Offer[q].price]]
  /\ UNCHANGED <<product, row, edited, met>>
Apply(q) ==
  /\ at[q] = "price" /\ at'[q] = "done" /\ Others(q) /\ row[q] \in Articles
  /\ product'[row[q]].price = Offer[q].price
  /\ \A a \in Articles \ {row[q]} : product'[a] = product[a]
  /\ edited' = edited \ {row[q]}
  /\ UNCHANGED <<price, row, met>>
PriceMove == Calm \/ \E q \in Timely : State(q) \/ Apply(q)

\* The steps that change the catalog.
LEMMA CatalogMoves ==
  ASSUME StockInv, Unlisted, NEW r \in Requests, r \in cast.requests, StockStep(r), r \notin Repricers
  PROVE  /\ UNCHANGED price /\ edited \subseteq edited'
         /\ \A a \in Articles :
              product'[a].price = product[a].price \/ a \in edited' \/ \A q \in Repricers : row[q] # a
         /\ \A q \in Repricers : row'[q] = row[q]
  <1>. USE Kinds DEF StockInv, Stockers, Editors, Written
  <1>0. product \in [Articles -> Entry] /\ row \in [Stockers -> Articles \cup {NoRow}]
    BY DEF StockTypeOK
  <1>1. CASE r \in Deliveries /\ SetEan(r)
    <2>1. row[r] \in Articles
      BY <1>1 DEF SetEan, StockReach
    <2>2. \A a \in Articles : product'[a].price = product[a].price
      BY <1>0, <1>1, <2>1 DEF SetEan, Write, Entry, catalogRest
    <2>. QED
      BY <1>1, <2>2 DEF SetEan, catalogRest
  <1>2. CASE r \in Deliveries /\ CreateArticle(r)
    <2>1. line[r] \in DOMAIN Document[r] /\ Ahead(r, line[r])
      BY <1>2 DEF CreateArticle, StockReach, Ahead
    <2>2. \A q \in Stockers : row[q] # Here(r)
      BY <1>2, <2>1 DEF Unlisted, Here
    <2>3. \A a \in Articles : product'[a] = product[a] \/ a = Here(r)
      BY <1>0, <1>2 DEF CreateArticle, Write
    <2>4. UNCHANGED <<price, edited>> /\ \A q \in Repricers : row'[q] = row[q]
      BY <1>0, <1>2 DEF CreateArticle, catalogRest
    <2>. QED
      BY <2>2, <2>3, <2>4
  <1>3. CASE r \in Importers /\ PutLine(r)
    <2>. DEFINE b == IF row[r] = NoRow THEN Here(r) ELSE row[r]
    <2>1. \/ UNCHANGED <<product, edited>>
          \/ edited' = edited \cup {b} /\ \A a \in Articles : product'[a] = product[a] \/ a = b
      BY <1>0, <1>3 DEF PutLine, Write
    <2>2. UNCHANGED <<price, row>>
      BY <1>3 DEF PutLine, catalogRest
    <2>. HIDE DEF b
    <2>. QED
      BY <2>1, <2>2
  <1>4. CASE r \in Updaters /\ UpdateProduct(r)
    <2>1. row[r] \in Articles
      BY <1>4 DEF UpdateProduct, StockReach
    <2>2. CASE UNCHANGED <<product, edited>>
      BY <1>4, <2>2 DEF UpdateProduct, catalogRest
    <2>3. CASE Edit[r].price = Absent /\ UNCHANGED edited
      <3>1. product'[row[r]].price = product[row[r]].price /\ \A a \in Articles \ {row[r]} : product'[a] = product[a]
        BY <1>0, <1>4, <2>1, <2>3 DEF UpdateProduct, Write, Given, Entry
      <3>. QED
        BY <1>4, <2>3, <3>1 DEF UpdateProduct, catalogRest
    <2>4. CASE edited' = edited \cup {row[r]}
      <3>1. \A a \in Articles \ {row[r]} : product'[a] = product[a]
        BY <1>0, <1>4 DEF UpdateProduct, Write
      <3>. QED
        BY <1>4, <2>4, <3>1 DEF UpdateProduct, catalogRest
    <2>. QED
      BY <1>4, <2>2, <2>3, <2>4 DEF UpdateProduct
  <1>5. CASE r \in Written /\ FindArticle(r)
    BY <1>0, <1>5 DEF FindArticle, catalogRest
  <1>6. CASE r \in Planners \cup Closers /\ LookUp(r)
    BY <1>0, <1>6 DEF LookUp, catalogRest
  <1>7. CASE \/ r \in Deliveries \cup Editors /\ (FindSupplier(r) \/ CreateSupplier(r))
             \/ r \in Deliveries /\ CreateBatch(r)
             \/ r \in Planners /\ (OpenSheet(r) \/ AddItem(r))
             \/ r \in Closers /\ (WriteItem(r) \/ Adjust(r) \/ WriteStock(r) \/ CloseSheet(r))
    BY <1>7
    DEF FindSupplier, CreateSupplier, CreateBatch, OpenSheet, AddItem, WriteItem, Adjust,
        WriteStock, CloseSheet, stockVars, catalogRest
  <1>. QED
    BY <1>1, <1>2, <1>3, <1>4, <1>5, <1>6, <1>7 DEF StockStep

LEMMA PriceMoves ==
  ASSUME StockInv, Unlisted, cast.requests \subseteq Requests, [Next]_vars
  PROVE  PriceMove
  <1>. USE Kinds DEF StockInv, AtType
  <1>0. /\ product \in [Articles -> Entry] /\ price \in [Articles -> Change]
        /\ row \in [Stockers -> Articles \cup {NoRow}]
    BY DEF StockTypeOK
  <1>1. CASE UNCHANGED vars
    BY <1>1 DEF vars, overlapVars, stockVars, PriceMove, Calm
  <1>2. CASE Next
    <2>1. PICK r \in cast.requests : Request(r)
      BY <1>2 DEF Next
    <2>2. CASE StockStep(r) /\ r \notin Repricers
      <3>1. \A q \in Repricers : at'[q] = at[q]
        <4>1. \E s \in StockSteps \cup {"done", "failed"} : at' = [at EXCEPT ![r] = s]
          BY <2>1, <2>2, StockMoves DEF Goto
        <4>. QED
          BY <2>2, <4>1 DEF Stockers
      <3>2. /\ UNCHANGED price /\ edited \subseteq edited'
            /\ \A a \in Articles :
                 product'[a].price = product[a].price \/ a \in edited' \/ \A q \in Repricers : row[q] # a
            /\ \A q \in Repricers : row'[q] = row[q]
        BY <2>1, <2>2, CatalogMoves
      <3>3. /\ \A q \in Timely : at[q] \in Past => row'[q] = row[q] /\ at'[q] \in {at[q], "failed"}
            /\ \A q \in Timely : at'[q] = "price" => at[q] = "price"
        BY <3>1, <3>2, InventoryAssumption
      <3>. QED
        BY <3>2, <3>3 DEF PriceMove, Calm
    <2>3. CASE StockStep(r) /\ r \in Repricers
      <3>0. Timely \subseteq Repricers
        BY InventoryAssumption
      <3>1. CASE r \in Timely /\ WriteHistory(r)
        <4>1. row[r] \in Articles
          BY <2>3, <3>1 DEF WriteHistory, StockReach, Stockers
        <4>2. State(r)
          BY <2>3, <3>0, <3>1, <4>1 DEF WriteHistory, Goto, State, Others, Stockers
        <4>. QED
          BY <3>1, <4>2 DEF PriceMove
      <3>2. CASE r \in Timely /\ WritePrice(r)
        <4>1. row[r] \in Articles
          BY <2>3, <3>2 DEF WritePrice, StockReach, Stockers
        <4>2. /\ product'[row[r]].price = Offer[r].price
              /\ \A a \in Articles \ {row[r]} : product'[a] = product[a]
          BY <1>0, <3>2, <4>1 DEF WritePrice, Write, Entry
        <4>3. Apply(r)
          BY <2>3, <3>0, <3>2, <4>1, <4>2 DEF WritePrice, Goto, Apply, Others, Stockers, catalogRest
        <4>. QED
          BY <3>2, <4>3 DEF PriceMove
      <3>3. CASE r \notin Timely /\ WriteHistory(r)
        <4>1. \A q \in Timely : at'[q] = at[q]
          BY <3>0, <3>3 DEF WriteHistory, Goto, Stockers
        <4>2. UNCHANGED <<price, product, edited, row>>
          BY <3>3 DEF WriteHistory
        <4>. QED
          BY <4>1, <4>2 DEF PriceMove, Calm
      <3>4. CASE r \notin Timely /\ WritePrice(r)
        <4>1. \A q \in Timely : at'[q] = at[q]
          BY <3>0, <3>4 DEF WritePrice, Goto, Stockers
        <4>2. /\ edited' = edited \cup {row[r]} /\ UNCHANGED <<price, row>>
              /\ \A a \in Articles \ {row[r]} : product'[a] = product[a]
          BY <1>0, <3>4 DEF WritePrice, Write, catalogRest
        <4>. QED
          BY <4>1, <4>2 DEF PriceMove, Calm
      <3>. QED
        BY <2>3, <3>1, <3>2, <3>3, <3>4 DEF StockStep, Stockers, Editors
    <2>4. CASE BeginStock(r)
      <3>1. at[r] = "idle" /\ \A q \in Requests \ {r} : at'[q] = at[q]
        BY <2>4
        DEF BeginStock, BeginDelivery, BeginImport, BeginUpdate, BeginPriceChange, BeginPlan, BeginClose, Start
      <3>2. r \in Repricers => at'[r] \in {"failed", "history"}
        BY <2>1, <2>4 DEF BeginStock, BeginPriceChange, Start, Stockers, Editors
      <3>3. UNCHANGED <<price, product, edited>>
        BY <2>4
        DEF BeginStock, BeginDelivery, BeginImport, BeginUpdate, BeginPriceChange, BeginPlan, BeginClose,
            stockVars, catalogRest
      <3>4. \A q \in Repricers \ {r} : row'[q] = row[q]
        BY <1>0, <2>4
        DEF BeginStock, BeginDelivery, BeginImport, BeginUpdate, BeginPriceChange, BeginPlan, BeginClose,
            stockVars, catalogRest, Stockers
      <3>5. Repricers \subseteq Requests
        BY DEF Stockers
      <3>. QED
        BY <3>1, <3>2, <3>3, <3>4, <3>5, InventoryAssumption DEF PriceMove, Calm, Past
    <2>5. CASE /\ UNCHANGED stockVars
               /\ BeginOperation(r) \/ BeginAdmin(r) \/ ConfigStep(r) \/ AdminStep(r) \/ Fail(r)
      <3>1. \E s \in (Steps \cup Still) \ (StockSteps \cup {"idle"}) : at' = [at EXCEPT ![r] = s]
        BY <2>1, <2>5, Elsewhere
      <3>2. at[r] \in Past => at'[r] \in {at[r], "failed"}
        <4>1. CASE BeginOperation(r) \/ BeginAdmin(r)
          BY <4>1
          DEF BeginOperation, BeginAdmin, Install, BeginConfig, BeginGrant, BeginUserMaker,
              BeginSwitch, BeginAssign, Start, Past
        <4>2. CASE ConfigStep(r)
          BY <2>1, <4>2, ConfigMoves DEF ConfigSteps, Past
        <4>3. CASE AdminStep(r)
          BY <4>3
          DEF AdminStep, FindKeys, CreateKeys, CreateRole, ClearGrants, WriteGrants, CreateUser,
              SwitchUser, AssignRole, WriteAuditLog, Past
        <4>4. CASE Fail(r)
          BY <2>1, <4>4 DEF Fail, Goto
        <4>. QED
          BY <2>5, <4>1, <4>2, <4>3, <4>4
      <3>3. \A q \in Repricers : at'[q] = at[q] \/ (q = r /\ at'[q] # "price")
        BY <2>1, <3>1 DEF StockSteps, Stockers
      <3>. QED
        BY <2>5, <3>2, <3>3, InventoryAssumption DEF PriceMove, Calm, stockVars
    <2>. QED
      BY <2>1, <2>2, <2>3, <2>4, <2>5 DEF Request
  <1>. QED
    BY <1>1, <1>2

LEMMA MetGrows ==
  ASSUME AccessType, Move
  PROVE  \A q \in Requests : met[q] \subseteq met'[q]
  <1>1. CASE UNCHANGED met
    BY <1>1
  <1>2. CASE \E r \in Requests, s \in Steps \cup Still : Start(r, s)
    BY <1>2 DEF Start, AccessType
  <1>. QED
    BY <1>1, <1>2, MoveShape DEF Goto, overlapVars

\* The newest entry in force for a product was written by a change that has found it. Those that have still to
\* write the price of the product overlapped with it, and so did those that wrote theirs after it.
Priced(a) ==
  LET q == price[a].by IN q # NoRow =>
    /\ row[q] = a /\ at[q] \in Past /\ price[a].to = Offer[q].price
    /\ \A p \in Timely \ {q} : at[p] = "price" /\ row[p] = a => p \in met[q]
    /\ at[q] = "done" =>
         \/ product[a].price = price[a].to
         \/ a \in edited
         \/ \E p \in Timely : p \in met[q] /\ row[p] = a /\ at[p] \in Past

HistoryInv == \A a \in Articles : Priced(a)
PriceInv == Unlisted /\ HistoryInv

LEMMA PriceInvInit == Init => PriceInv
  <1>. SUFFICES ASSUME Init PROVE PriceInv
    OBVIOUS
  <1>1. HistoryInv
    BY DEF Init, StockInit, HistoryInv, Priced
  <1>2. ASSUME NEW d \in Deliveries \cap cast.requests, NEW i \in DOMAIN Document[d]
        PROVE  ~Listed(<<d, i>>) /\ \A r \in Stockers : row[r] # <<d, i>>
    <2>. DEFINE a == <<d, i>>
    <2>1. a \in Articles
      BY DEF Articles, Lines
    <2>2. a[1] \notin cast.known \cap Deliveries
      BY CastAssumption DEF Init
    <2>3. product[a] = NoArticle /\ \A r \in Stockers : row[r] = NoRow
      BY <2>1, <2>2 DEF Init, StockInit
    <2>4. NoArticle.sku = Absent
      BY DEF NoArticle
    <2>5. a # NoRow
      BY <2>1, InventoryAssumption
    <2>. QED
      BY <2>3, <2>4, <2>5 DEF Listed
  <1>. QED
    BY <1>1, <1>2 DEF PriceInv, Unlisted

LEMMA HistoryKept ==
  ASSUME StockInv, MetInv, PriceMove, HistoryInv, \A q \in Requests : met[q] \subseteq met'[q]
  PROVE  HistoryInv'
  <1>. SUFFICES ASSUME NEW a \in Articles, price'[a].by # NoRow PROVE Priced(a)'
    BY DEF HistoryInv, Priced
  <1>0. /\ price \in [Articles -> Change] /\ Priced(a)
        /\ Timely \subseteq Requests /\ Timely \subseteq Stockers /\ NoRow \notin Timely
    BY InventoryAssumption DEF StockInv, StockTypeOK, HistoryInv, Stockers
  <1>. DEFINE q == price[a].by
  <1>1. q = NoRow \/ q \in Timely
    BY <1>0 DEF Change
  <1>2. CASE Calm
    <2>1. price'[a] = price[a] /\ q # NoRow /\ q \in Timely
      BY <1>1, <1>2 DEF Calm
    <2>2. row[q] = a /\ at[q] \in Past /\ price[a].to = Offer[q].price
      BY <1>0, <2>1 DEF Priced
    <2>3. row'[q] = a /\ at'[q] \in Past
      BY <1>2, <2>1, <2>2 DEF Calm, Past
    <2>4. \A p \in Timely \ {q} : at'[p] = "price" /\ row'[p] = a => p \in met'[q]
      BY <1>0, <1>2, <2>1 DEF Calm, Priced, Past
    <2>5. ASSUME at'[q] = "done"
          PROVE  \/ product'[a].price = price[a].to
                 \/ a \in edited'
                 \/ \E p \in Timely : p \in met'[q] /\ row'[p] = a /\ at'[p] \in Past
      <3>1. at[q] = "done"
        BY <1>2, <2>1, <2>2, <2>5 DEF Calm
      <3>2. CASE product[a].price = price[a].to
        <4>1. q \in Repricers /\ row[q] = a
          BY <2>1, <2>2, InventoryAssumption
        <4>2. product'[a].price = product[a].price \/ a \in edited'
          BY <1>2, <4>1 DEF Calm
        <4>. QED
          BY <3>2, <4>2
      <3>3. CASE a \in edited
        BY <1>2, <3>3 DEF Calm
      <3>4. CASE \E p \in Timely : p \in met[q] /\ row[p] = a /\ at[p] \in Past
        BY <1>0, <1>2, <2>1, <3>4 DEF Calm, Past
      <3>. QED
        BY <1>0, <2>1, <3>1, <3>2, <3>3, <3>4 DEF Priced
    <2>. QED
      BY <2>1, <2>2, <2>3, <2>4, <2>5 DEF Priced
  <1>3. CASE \E p \in Timely : State(p)
    <2>1. PICK p \in Timely : State(p)
      BY <1>3
    <2>2. CASE row[p] = a
      <3>1. price'[a] = [by |-> p, to |-> Offer[p].price]
        BY <1>0, <2>1, <2>2 DEF State
      <3>2. \A s \in Timely \ {p} : at'[s] = "price" => s \in met[p]
        BY <1>0, <2>1 DEF State, Others, MetInv, Busy, Still
      <3>. QED
        BY <2>1, <2>2, <3>1, <3>2 DEF State, Priced, Past
    <2>3. CASE row[p] # a
      <3>1. price'[a] = price[a] /\ q # NoRow /\ q \in Timely
        BY <1>0, <1>1, <2>1, <2>3 DEF State
      <3>2. q # p /\ at'[q] = at[q]
        BY <1>0, <2>1, <2>3, <3>1 DEF State, Others, Priced
      <3>3. \A s \in Timely : at'[s] = at[s] \/ (s = p /\ row'[s] # a)
        BY <2>1, <2>3 DEF State, Others
      <3>4. UNCHANGED <<product, row, edited, met>>
        BY <2>1 DEF State
      <3>. QED
        BY <1>0, <3>1, <3>2, <3>3, <3>4 DEF Priced
    <2>. QED
      BY <2>2, <2>3
  <1>4. CASE \E p \in Timely : Apply(p)
    <2>1. PICK p \in Timely : Apply(p)
      BY <1>4
    <2>2. price'[a] = price[a] /\ q # NoRow /\ q \in Timely
      BY <1>1, <2>1 DEF Apply
    <2>3. \A s \in Timely : (at[s] \in Past => at'[s] \in Past) /\ (at'[s] = "price" => at[s] = "price")
      BY <2>1 DEF Apply, Others, Past
    <2>4. CASE p = q
      BY <1>0, <2>1, <2>2, <2>3, <2>4 DEF Apply, Priced
    <2>5. CASE p # q /\ row[p] = a
      <3>1. p \in met[q]
        BY <1>0, <2>1, <2>2, <2>5 DEF Apply, Priced
      <3>2. p \in met'[q] /\ row'[p] = a /\ at'[p] \in Past
        BY <2>1, <2>5, <3>1 DEF Apply, Past
      <3>. QED
        BY <1>0, <2>1, <2>2, <2>3, <3>2 DEF Apply, Priced
    <2>6. CASE p # q /\ row[p] # a
      <3>1. product'[a] = product[a] /\ (a \in edited => a \in edited') /\ at'[q] = at[q]
        BY <2>1, <2>2, <2>6 DEF Apply, Others
      <3>2. UNCHANGED <<row, met>>
        BY <2>1 DEF Apply
      <3>. QED
        BY <1>0, <2>2, <2>3, <3>1, <3>2 DEF Priced
    <2>. QED
      BY <2>4, <2>5, <2>6
  <1>. QED
    BY <1>2, <1>3, <1>4 DEF PriceMove

-----------------------------------------------------------------------------
(* The registers: which of them signs.                                       *)

DefaultMakers == {w \in Writers : Flag[w] = "yes"}
Rivals == \E v, w \in DefaultMakers : v \in met[w]

\* Register k has been removed, or was written while a TSS was being removed.
Undone(k) ==
  \/ \E r \in Removers : About[r] = k /\ at[r] = "done"
  \/ \E s \in Scrappers, w \in Writers : About[w] = k /\ w \in met[s]

\* Register k is the default, no TSS is about to take it along, and it is the only default one
\* unless a request that made it the default has still to take the flag from the others, or failed.
Signs(k) ==
  /\ register[k].isDefault
  /\ \A s \in Scrappers : at[s] = "delete" => register[k].device # About[s]
  /\ \/ \A l \in Registers \ {k} : ~register[l].isDefault
     \/ \E w \in DefaultMakers : About[w] = k /\ at[w] \in {"unset", "failed"}

FlagInv == \A k \in Registers : register[k].isDefault => Open(k)
UnsetInv ==
  \A w \in Writers : at[w] = "unset" =>
    w \in DefaultMakers /\ (chosen \in {About[w], NoRegister} \/ Rivals)
ChosenInv == chosen # NoRegister /\ ~Rivals /\ ~Undone(chosen) => Signs(chosen)
SignInv == ConfigTypeOK /\ FlagInv /\ UnsetInv /\ ChosenInv

\* A step that writes no register.
Untouched ==
  /\ UNCHANGED <<register, chosen, age>> /\ devices' \subseteq Devices
  /\ \A r \in Requests :
       /\ at[r] \in {"done", "failed"} => at'[r] = at[r]
       /\ at[r] = "unset" => at'[r] \in {"unset", "failed"}
       /\ at'[r] = "unset" => at[r] = "unset"
       /\ r \in Scrappers /\ at'[r] = "delete" =>
            at[r] = "delete" \/ \A k \in Registers : register[k].device # About[r]
RegisterMove ==
  \/ Untouched
  \/ \E r \in Writers : WriteRegister(r) \/ UnsetOthers(r)
  \/ \E r \in Removers : RemoveRegister(r)
  \/ \E r \in Scrappers : DeleteTss(r)

LEMMA OperatorKinds ==
  /\ Operators \subseteq Requests
  /\ Installers \cap (Writers \cup Removers \cup Scrappers) = {}
  /\ Openers \cap (Movers \cup Removers \cup Scrappers) = {}
  /\ Movers \cap (Removers \cup Scrappers) = {}
  /\ Removers \cap Scrappers = {}
  /\ \A r \in Writers \cup Removers : About[r] \in Registers
  /\ \A r \in Installers \cup Scrappers : About[r] \in Devices
  BY ConfigAssumption

LEMMA RegisterMoves ==
  ASSUME AtType, ConfigTypeOK, cast.requests \subseteq Requests, [Next]_vars
  PROVE  RegisterMove
  <1>. USE OperatorKinds
  <1>1. CASE UNCHANGED vars
    BY <1>1 DEF vars, overlapVars, configVars, RegisterMove, Untouched, ConfigTypeOK
  <1>2. CASE Next
    <2>1. PICK r \in Requests : Request(r)
      BY <1>2 DEF Next
    <2>2. CASE UNCHANGED configVars /\ (BeginStock(r) \/ BeginAdmin(r))
      <3>1. at[r] = "idle" /\ \E s \in StockSteps \cup AccessSteps \cup {"done", "failed"} : at' = [at EXCEPT ![r] = s]
        BY <2>2
        DEF BeginStock, BeginDelivery, BeginImport, BeginUpdate, BeginPriceChange, BeginPlan, BeginClose,
            FirstStep, AfterSupplier, BeginAdmin, BeginGrant, BeginUserMaker, BeginSwitch, BeginAssign,
            Start, StockSteps, AccessSteps
      <3>. QED
        BY <2>2, <3>1 DEF AtType, Untouched, RegisterMove, configVars, ConfigTypeOK, StockSteps, AccessSteps
    <2>3. CASE UNCHANGED configVars /\ (StockStep(r) \/ AdminStep(r))
      <3>1. /\ at[r] \in StockSteps \cup AccessSteps
            /\ \E s \in StockSteps \cup AccessSteps \cup {"done", "failed"} : at' = [at EXCEPT ![r] = s]
        BY <2>3, StockMoves
        DEF AdminStep, FindKeys, CreateKeys, CreateRole, ClearGrants, WriteGrants, CreateUser,
            SwitchUser, AssignRole, WriteAuditLog, AccessSteps, Goto
      <3>. QED
        BY <2>3, <3>1 DEF AtType, Untouched, RegisterMove, configVars, ConfigTypeOK, StockSteps, AccessSteps
    <2>4. CASE UNCHANGED configVars /\ Fail(r)
      BY <2>4 DEF Fail, Goto, Still, AtType, Untouched, RegisterMove, configVars, ConfigTypeOK
    <2>5. CASE BeginOperation(r)
      <3>1. UNCHANGED <<register, chosen, age>> /\ devices' \subseteq Devices
        BY <2>5 DEF BeginOperation, Install, BeginConfig, configVars, ConfigTypeOK
      <3>2. at[r] = "idle" /\ \E s \in {"done", "failed", "count", "delete", "write", "device"} :
              at' = [at EXCEPT ![r] = s] /\ (r \in Scrappers => s # "delete")
        BY <2>5 DEF BeginOperation, Install, BeginConfig, Start
      <3>. QED
        BY <3>1, <3>2 DEF AtType, Untouched, RegisterMove
    <2>6. CASE r \in Writers /\ CheckDevice(r)
      BY <2>6 DEF CheckDevice, Goto, AtType, Untouched, RegisterMove, configVars, ConfigTypeOK, Writers
    <2>7. CASE r \in Scrappers /\ CountRegisters(r)
      BY <2>7 DEF CountRegisters, Goto, AtType, Untouched, RegisterMove, configVars, ConfigTypeOK
    <2>. QED
      BY <2>1, <2>2, <2>3, <2>4, <2>5, <2>6, <2>7 DEF Request, ConfigStep, RegisterMove
  <1>. QED
    BY <1>1, <1>2

LEMMA SignInvInit == Init => SignInv
  <1>. SUFFICES ASSUME Init PROVE SignInv
    OBVIOUS
  <1>. DEFINE known == cast.known \cap Registers
  <1>1. ConfigInit(known) /\ OverlapInit
    BY DEF Init
  <1>2. age \in [Registers -> Nat]
    <2>1. IsFiniteSet(known)
      BY ConfigAssumption, FS_Subset
    <2>2. Cardinality(known) \in Nat
      BY <2>1, FS_CardinalityType
    <2>3. 0 .. Cardinality(known) \subseteq Nat
      BY <2>2
    <2>4. age \in [Registers -> 0 .. Cardinality(known)]
      BY <1>1 DEF ConfigInit
    <2>. QED
      BY <2>3, <2>4
  <1>3. devices \subseteq Devices
    BY <1>1 DEF ConfigInit
  <1>. HIDE DEF known
  <1>4. PICK use \in [known -> devices], k \in known \cup {NoRegister} :
          /\ register = [r \in Registers |->
               IF r \in known THEN [device |-> use[r], isDefault |-> r = k] ELSE Gone]
          /\ chosen = k
    BY <1>1 DEF ConfigInit
  <1>5. known \subseteq Registers
    BY DEF known
  <1>6. \A r \in Registers : /\ register[r] \in Register
                             /\ register[r].isDefault => r = k /\ Open(r)
                             /\ r = k => register[r].isDefault
    <2>. SUFFICES ASSUME NEW r \in Registers
                  PROVE  /\ register[r] \in Register
                         /\ register[r].isDefault => r = k /\ Open(r)
                         /\ r = k => register[r].isDefault
      OBVIOUS
    <2>1. CASE r \in known
      <3>1. register[r] = [device |-> use[r], isDefault |-> r = k] /\ use[r] \in Devices
        BY <1>3, <1>4, <2>1
      <3>2. (r = k) \in BOOLEAN /\ register[r].isDefault = (r = k) /\ register[r].device # NoDevice
        BY <3>1, ConfigAssumption
      <3>3. register[r] \in Register
        BY <3>1, <3>2 DEF Register
      <3>. QED
        BY <3>2, <3>3 DEF Open
    <2>2. CASE r \notin known
      <3>1. register[r] = Gone /\ r # k
        BY <1>4, <2>2, ConfigAssumption
      <3>. QED
        BY <3>1 DEF Register, Gone
    <2>. QED
      BY <2>1, <2>2
  <1>7. register \in [Registers -> Register]
    BY <1>4, <1>6
  <1>8. \A r \in Requests : at[r] = "idle"
    BY <1>1 DEF OverlapInit
  <1>9. chosen \in Registers \cup {NoRegister}
    BY <1>4, <1>5
  <1>10. UnsetInv
    BY <1>8, OperatorKinds DEF UnsetInv, Operators
  <1>11. ChosenInv
    <2>1. \A s \in Scrappers : at[s] # "delete"
      BY <1>8, OperatorKinds DEF Operators
    <2>. QED
      BY <1>4, <1>5, <1>6, <2>1 DEF ChosenInv, Signs
  <1>. QED
    BY <1>2, <1>3, <1>6, <1>7, <1>9, <1>10, <1>11 DEF SignInv, ConfigTypeOK, FlagInv

LEMMA ConfigTypeKept ==
  ASSUME ConfigTypeOK, RegisterMove
  PROVE  ConfigTypeOK'
  <1>. USE OperatorKinds
  <1>g. Gone \in Register
    BY DEF Gone, Register
  <1>1. CASE Untouched
    BY <1>1 DEF Untouched, ConfigTypeOK
  <1>2. CASE \E r \in Writers : WriteRegister(r)
    <2>1. PICK r \in Writers : WriteRegister(r)
      BY <1>2
    <2>2. About[r] \in Registers /\ Device[r] \in Devices \cup {NoDevice}
      BY ConfigAssumption
    <2>3. age' \in [Registers -> Nat]
      <3>. DEFINE K == {l \in Registers : age[l] > 0}
      <3>1. 1 + Cardinality(K) \in Nat
        BY ConfigAssumption, FS_Subset, FS_CardinalityType
      <3>2. age' = age \/ age' = [age EXCEPT ![About[r]] = 1 + Cardinality(K)]
        BY <2>1 DEF WriteRegister
      <3>. HIDE DEF K
      <3>. QED
        BY <2>2, <3>1, <3>2 DEF ConfigTypeOK
    <2>4. register' \in [Registers -> Register]
      <3>. DEFINE old == register[About[r]]
                  e == [device |-> IF Device[r] = NoDevice THEN old.device ELSE Device[r],
                        isDefault |-> IF Flag[r] = "unsaid" THEN old.isDefault ELSE Flag[r] = "yes"]
      <3>1. old \in Register
        BY <2>2 DEF ConfigTypeOK
      <3>2. e \in Register
        BY <2>2, <3>1 DEF Register
      <3>3. register' = register \/ register' = [register EXCEPT ![About[r]] = e]
        BY <2>1 DEF WriteRegister
      <3>. HIDE DEF old, e
      <3>. QED
        BY <3>2, <3>3 DEF ConfigTypeOK
    <2>5. devices' = devices /\ chosen' \in {chosen, About[r], NoRegister}
      BY <2>1 DEF WriteRegister
    <2>6. chosen' \in Registers \cup {NoRegister} /\ devices' \subseteq Devices
      BY <2>2, <2>5 DEF ConfigTypeOK
    <2>. QED
      BY <2>3, <2>4, <2>6 DEF ConfigTypeOK
  <1>3. CASE \E r \in Writers : UnsetOthers(r)
    <2>1. PICK r \in Writers : UnsetOthers(r)
      BY <1>3
    <2>2. \A k \in Registers : register[k] \in Register /\ [register[k] EXCEPT !.isDefault = FALSE] \in Register
      BY DEF ConfigTypeOK, Register
    <2>3. register' \in [Registers -> Register]
      BY <2>1, <2>2 DEF UnsetOthers
    <2>. QED
      BY <2>1, <2>3 DEF UnsetOthers, ConfigTypeOK
  <1>4. CASE \E r \in Removers : RemoveRegister(r)
    BY <1>4, <1>g DEF RemoveRegister, ConfigTypeOK
  <1>5. CASE \E r \in Scrappers : DeleteTss(r)
    BY <1>5, <1>g DEF DeleteTss, ConfigTypeOK
  <1>. QED
    BY <1>1, <1>2, <1>3, <1>4, <1>5 DEF RegisterMove

LEMMA SignKept ==
  ASSUME AtType, MetInv, SignInv, RegisterMove,
         \A q \in Requests : met[q] \subseteq met'[q]
  PROVE  SignInv'
  <1>. USE OperatorKinds
  <1>a. at \in [Requests -> Steps \cup Still] /\ register \in [Registers -> Register]
        /\ chosen \in Registers \cup {NoRegister} /\ NoRegister \notin Registers
        /\ Writers \cup Removers \cup Scrappers \subseteq Requests /\ Writers \cap Scrappers = {}
        /\ DefaultMakers \subseteq Writers
    BY ConfigAssumption DEF AtType, SignInv, ConfigTypeOK, Operators, Writers, DefaultMakers
  <1>b. Rivals => Rivals'
    BY <1>a DEF Rivals
  <1>c. ASSUME \A r \in Removers : at[r] = "done" => at'[r] = "done", NEW k
        PROVE  (\E r \in Removers : About[r] = k /\ at[r] = "done")
                 \/ (\E s \in Scrappers, w \in Writers : About[w] = k /\ w \in met[s])
               => \/ \E r \in Removers : About[r] = k /\ at'[r] = "done"
                  \/ \E s \in Scrappers, w \in Writers : About[w] = k /\ w \in met'[s]
    BY <1>a, <1>c
  <1>0. ConfigTypeOK'
    BY ConfigTypeKept DEF SignInv
  <1>1. CASE Untouched
    <2>1. UNCHANGED <<register, chosen>>
      BY <1>1 DEF Untouched
    <2>2. FlagInv'
      BY <2>1 DEF SignInv, FlagInv, Open
    <2>3. UnsetInv'
      BY <1>1, <1>a, <1>b, <2>1 DEF Untouched, SignInv, UnsetInv
    <2>4. ChosenInv'
      <3>. SUFFICES ASSUME chosen # NoRegister, ~Rivals', ~Undone(chosen)' PROVE Signs(chosen)'
        BY <2>1 DEF ChosenInv
      <3>1. Signs(chosen)
        BY <1>1, <1>a, <1>b, <1>c, <2>1 DEF Untouched, SignInv, ChosenInv, Undone
      <3>2. chosen \in Registers
        BY <1>a
      <3>. QED
        BY <1>1, <1>a, <2>1, <3>1, <3>2 DEF Untouched, Signs
    <2>. QED
      BY <1>0, <2>2, <2>3, <2>4 DEF SignInv
  <1>2. CASE \E r \in Writers : WriteRegister(r) /\ ~MayWrite(r)
    <2>1. PICK r \in Writers : WriteRegister(r) /\ ~MayWrite(r)
      BY <1>2
    <2>2. UNCHANGED <<register, chosen, age, devices>> /\ at[r] = "write" /\ at' = [at EXCEPT ![r] = "failed"]
      BY <2>1 DEF WriteRegister, Goto
    <2>3. FlagInv'
      BY <2>2 DEF SignInv, FlagInv, Open
    <2>4. UnsetInv'
      BY <1>a, <1>b, <2>2 DEF SignInv, UnsetInv
    <2>5. ChosenInv'
      <3>. SUFFICES ASSUME chosen # NoRegister, ~Rivals', ~Undone(chosen)' PROVE Signs(chosen)'
        BY <2>2 DEF ChosenInv
      <3>1. Signs(chosen)
        BY <1>a, <1>b, <1>c, <2>2 DEF SignInv, ChosenInv, Undone
      <3>. QED
        BY <1>a, <2>2, <3>1 DEF Signs
    <2>. QED
      BY <1>0, <2>3, <2>4, <2>5 DEF SignInv
  <1>3. CASE \E r \in Writers : WriteRegister(r) /\ MayWrite(r)
    <2>1. PICK r \in Writers : WriteRegister(r) /\ MayWrite(r)
      BY <1>3
    <2>. DEFINE k == About[r]
    <2>2. k \in Registers
      BY <1>a
    <2>3. /\ at[r] = "write" /\ at' = [at EXCEPT ![r] = IF Flag[r] = "yes" THEN "unset" ELSE "done"]
          /\ register' = [register EXCEPT ![k] =
               [device |-> IF Device[r] = NoDevice THEN register[k].device ELSE Device[r],
                isDefault |-> IF Flag[r] = "unsaid" THEN register[k].isDefault ELSE Flag[r] = "yes"]]
          /\ chosen' = IF Flag[r] = "yes" THEN k
                       ELSE IF Flag[r] = "no" /\ chosen = k THEN NoRegister ELSE chosen
          /\ UNCHANGED met
      BY <2>1 DEF WriteRegister, Goto
    <2>4. \A l \in Registers \ {k} : register'[l] = register[l]
      BY <1>a, <2>3
    <2>5. register'[k].isDefault = (IF Flag[r] = "unsaid" THEN register[k].isDefault ELSE Flag[r] = "yes")
      BY <1>a, <2>2, <2>3
    <2>6. (r \in Movers => Open(k)) /\ (r \in Openers => ~Open(k) /\ ~register[k].isDefault /\ Device[r] # NoDevice)
      BY <1>a, <2>1, <2>2, ConfigAssumption DEF MayWrite, SignInv, FlagInv
    <2>7. register'[k].device # NoDevice
      <3>1. register'[k].device = IF Device[r] = NoDevice THEN register[k].device ELSE Device[r]
        BY <1>a, <2>2, <2>3
      <3>. QED
        BY <2>6, <3>1 DEF Open, Writers
    <2>8. \A s \in Scrappers : at[s] = "delete" => r \in met[s]
      BY <1>a, <2>3 DEF MetInv, Busy, Still
    <2>9. \A w \in Writers \ {r} : at[w] = "unset" => r \in met[w] /\ w \in DefaultMakers
      BY <1>a, <2>3 DEF MetInv, Busy, Still, SignInv, UnsetInv
    <2>10. FlagInv'
      BY <1>a, <2>4, <2>7 DEF SignInv, FlagInv, Open
    <2>11. UnsetInv'
      <3>. SUFFICES ASSUME NEW w \in Writers, at'[w] = "unset"
                    PROVE  w \in DefaultMakers /\ (chosen' \in {About[w], NoRegister} \/ Rivals')
        BY DEF UnsetInv
      <3>1. CASE w = r
        BY <1>a, <2>3, <3>1 DEF DefaultMakers
      <3>2. CASE w # r
        <4>1. at[w] = "unset"
          BY <1>a, <2>3, <3>2
        <4>2. w \in DefaultMakers /\ (chosen \in {About[w], NoRegister} \/ Rivals)
          BY <4>1 DEF SignInv, UnsetInv
        <4>3. CASE Flag[r] = "yes"
          BY <2>3, <2>9, <3>2, <4>1, <4>2, <4>3 DEF Rivals, DefaultMakers
        <4>4. CASE Flag[r] # "yes"
          BY <1>b, <2>3, <4>2, <4>4
        <4>. QED
          BY <4>3, <4>4
      <3>. QED
        BY <3>1, <3>2
    <2>12. ChosenInv'
      <3>. SUFFICES ASSUME chosen' # NoRegister, ~Rivals', ~Undone(chosen)' PROVE Signs(chosen)'
        BY DEF ChosenInv
      <3>. DEFINE c == chosen'
      <3>1. c \in Registers
        BY <1>0, <1>a DEF ConfigTypeOK
      <3>2. c = k => \A s \in Scrappers : at[s] # "delete"
        BY <2>3, <2>8 DEF Undone
      <3>3. CASE Flag[r] = "yes"
        BY <1>a, <2>3, <2>5, <3>2, <3>3 DEF Signs, DefaultMakers
      <3>4. CASE Flag[r] # "yes"
        <4>1. chosen' = chosen /\ (Flag[r] = "no" => c # k)
          BY <2>3, <3>4
        <4>2. Signs(chosen)
          BY <1>a, <1>b, <1>c, <2>3, <3>4, <4>1 DEF SignInv, ChosenInv, Undone
        <4>3. register'[c].isDefault
          BY <2>4, <2>5, <3>1, <3>4, <4>1, <4>2, ConfigAssumption DEF Signs
        <4>4. \A l \in Registers : register'[l].isDefault => register[l].isDefault
          BY <2>4, <2>5, <3>4
        <4>5. \A s \in Scrappers : at'[s] = "delete" => at[s] = "delete"
          BY <1>a, <2>3
        <4>6. \A s \in Scrappers : at'[s] = "delete" => register'[c].device # About[s]
          BY <2>4, <3>1, <3>2, <4>1, <4>2, <4>5 DEF Signs
        <4>7. \A w \in DefaultMakers : at[w] \in {"unset", "failed"} => at'[w] = at[w]
          BY <1>a, <2>3
        <4>. QED
          BY <4>1, <4>2, <4>3, <4>4, <4>6, <4>7 DEF Signs
      <3>. QED
        BY <3>3, <3>4
    <2>. QED
      BY <1>0, <2>10, <2>11, <2>12 DEF SignInv
  <1>4. CASE \E r \in Writers : UnsetOthers(r)
    <2>1. PICK r \in Writers : UnsetOthers(r)
      BY <1>4
    <2>2. /\ at[r] = "unset" /\ at' = [at EXCEPT ![r] = "done"] /\ UNCHANGED <<chosen, met>>
          /\ register' = [k \in Registers |->
               IF k = About[r] THEN register[k] ELSE [register[k] EXCEPT !.isDefault = FALSE]]
      BY <2>1 DEF UnsetOthers, Goto
    <2>3. /\ register'[About[r]] = register[About[r]] /\ About[r] \in Registers
          /\ \A l \in Registers \ {About[r]} : ~register'[l].isDefault
      BY <1>a, <2>2 DEF Register
    <2>4. FlagInv'
      BY <2>3 DEF SignInv, FlagInv, Open
    <2>5. UnsetInv'
      BY <1>a, <1>b, <2>2 DEF SignInv, UnsetInv
    <2>6. ChosenInv'
      <3>. SUFFICES ASSUME chosen # NoRegister, ~Rivals', ~Undone(chosen)' PROVE Signs(chosen)'
        BY <2>2 DEF ChosenInv
      <3>1. Signs(chosen)
        BY <1>a, <1>b, <1>c, <2>2 DEF SignInv, ChosenInv, Undone
      <3>2. chosen = About[r]
        BY <1>b, <2>2 DEF SignInv, UnsetInv
      <3>. QED
        BY <1>a, <2>2, <2>3, <3>1, <3>2 DEF Signs
    <2>. QED
      BY <1>0, <2>4, <2>5, <2>6 DEF SignInv
  <1>5. CASE \E r \in Removers : RemoveRegister(r)
    <2>1. PICK r \in Removers : RemoveRegister(r)
      BY <1>5
    <2>2. /\ at[r] = "delete" /\ at' = [at EXCEPT ![r] = IF Open(About[r]) THEN "done" ELSE "failed"]
          /\ UNCHANGED <<chosen, met>> /\ About[r] \in Registers
          /\ register' = [register EXCEPT ![About[r]] = Gone]
      BY <2>1 DEF RemoveRegister, Goto
    <2>3. /\ \A l \in Registers \ {About[r]} : register'[l] = register[l]
          /\ ~register'[About[r]].isDefault
      BY <1>a, <2>2 DEF Gone
    <2>4. FlagInv'
      BY <2>3 DEF SignInv, FlagInv, Open
    <2>5. UnsetInv'
      BY <1>a, <1>b, <2>2 DEF SignInv, UnsetInv
    <2>6. ChosenInv'
      <3>. SUFFICES ASSUME chosen # NoRegister, ~Rivals', ~Undone(chosen)' PROVE Signs(chosen)'
        BY <2>2 DEF ChosenInv
      <3>1. Signs(chosen)
        BY <1>a, <1>b, <1>c, <2>2 DEF SignInv, ChosenInv, Undone
      <3>2. chosen \in Registers /\ Open(chosen)
        BY <1>a, <3>1 DEF SignInv, FlagInv, Signs
      <3>3. chosen # About[r]
        BY <1>a, <2>2, <3>2 DEF Undone
      <3>4. \A s \in Scrappers : at'[s] = "delete" => at[s] = "delete"
        BY <1>a, <2>2
      <3>5. \A w \in DefaultMakers : at[w] \in {"unset", "failed"} => at'[w] = at[w]
        BY <1>a, <2>2
      <3>. QED
        BY <2>2, <2>3, <3>1, <3>2, <3>3, <3>4, <3>5 DEF Signs
    <2>. QED
      BY <1>0, <2>4, <2>5, <2>6 DEF SignInv
  <1>6. CASE \E r \in Scrappers : DeleteTss(r)
    <2>1. PICK r \in Scrappers : DeleteTss(r)
      BY <1>6
    <2>2. /\ at[r] = "delete" /\ (\E s \in {"done", "failed"} : at' = [at EXCEPT ![r] = s])
          /\ UNCHANGED <<chosen, met>>
          /\ register' = [k \in Registers |->
               IF register[k].device = About[r] THEN Gone ELSE register[k]]
      BY <2>1 DEF DeleteTss, Goto
    <2>3. \A l \in Registers : \/ register'[l] = register[l]
                               \/ register[l].device = About[r] /\ ~register'[l].isDefault
      BY <2>2 DEF Gone
    <2>4. FlagInv'
      BY <2>3 DEF SignInv, FlagInv, Open
    <2>5. UnsetInv'
      BY <1>a, <1>b, <2>2 DEF SignInv, UnsetInv
    <2>6. ChosenInv'
      <3>. SUFFICES ASSUME chosen # NoRegister, ~Rivals', ~Undone(chosen)' PROVE Signs(chosen)'
        BY <2>2 DEF ChosenInv
      <3>1. Signs(chosen)
        BY <1>a, <1>b, <1>c, <2>2 DEF SignInv, ChosenInv, Undone
      <3>2. chosen \in Registers /\ register'[chosen] = register[chosen]
        BY <1>a, <2>2, <2>3, <3>1 DEF Signs
      <3>3. \A s \in Scrappers : at'[s] = "delete" => at[s] = "delete"
        BY <1>a, <2>2
      <3>4. \A w \in DefaultMakers : at[w] \in {"unset", "failed"} => at'[w] = at[w]
        BY <1>a, <2>2
      <3>. QED
        BY <2>2, <2>3, <3>1, <3>2, <3>3, <3>4 DEF Signs
    <2>. QED
      BY <1>0, <2>4, <2>5, <2>6 DEF SignInv
  <1>. QED
    BY <1>1, <1>2, <1>3, <1>4, <1>5, <1>6 DEF RegisterMove

-----------------------------------------------------------------------------
(* The rows of the permissions: no role has one that is not there.           *)

KeySteps == {"newKeys", "role", "clear", "grant", "assign"}

\* What r is about to write, it has found or is about to create.
Sure(r) ==
  /\ r \in Governors /\ at[r] = "newKeys" => Wanted[r] \subseteq permissions \cup missing[r]
  /\ r \in Governors /\ at[r] \in {"role", "clear", "grant"} => Wanted[r] \subseteq permissions
  /\ r \in Assigners /\ at[r] = "assign" => Wanted[r] \in roles
KeysInv == AccessTypeOK /\ \A r \in Requests : Sure(r)

LEMMA KeysInvInit == Init => KeysInv
  <1>. SUFFICES ASSUME Init PROVE KeysInv
    OBVIOUS
  <1>. DEFINE known == cast.known \cap (Roles \cup Users)
  <1>1. AccessInit(known) /\ OverlapInit
    BY DEF Init
  <1>2. known \subseteq Roles \cup Users
    OBVIOUS
  <1>. HIDE DEF known
  <1>3. PICK K \in SUBSET Keys :
          /\ permissions = IF roles = {} THEN {} ELSE K
          /\ grants = [x \in Roles |-> IF x \in known THEN K ELSE {}]
    BY <1>1 DEF AccessInit
  <1>4. roles = Roles \cap known
    BY <1>1 DEF AccessInit
  <1>5. permissions \subseteq Keys /\ grants \in [Roles -> SUBSET permissions]
    BY <1>3, <1>4
  <1>6. /\ active = [u \in Users |-> IF u \in known THEN TRUE ELSE Unknown]
        /\ has = [u \in Users |-> {}] /\ missing = [r \in Governors |-> {}] /\ changed = {}
        /\ entry = [x \in Roles \cup Users |->
             IF x \notin known THEN Unknown ELSE IF x \in Roles THEN grants[x] ELSE TRUE]
    BY <1>1 DEF AccessInit
  <1>7. \A x \in Roles : entry[x] \in {Unknown} \cup SUBSET Keys
    BY <1>5, <1>6
  <1>8. \A u \in Users : entry[u] \in {Unknown} \cup BOOLEAN
    <2>. SUFFICES ASSUME NEW u \in Users PROVE entry[u] = Unknown \/ entry[u] = TRUE
      OBVIOUS
    <2>1. u \notin Roles
      BY AccessAssumption
    <2>. QED
      BY <1>6, <2>1
  <1>9. active \in [Users -> BOOLEAN \cup {Unknown}]
    BY <1>6
  <1>10. has \in [Users -> SUBSET roles] /\ missing \in [Governors -> SUBSET Keys] /\ changed \subseteq Admins
    BY <1>6
  <1>11. \A r \in Requests : at[r] = "idle"
    BY <1>1 DEF OverlapInit
  <1>. QED
    BY <1>4, <1>5, <1>7, <1>8, <1>9, <1>10, <1>11 DEF KeysInv, AccessTypeOK, Sure

\* A step of r leaves the others sure, as rows are never removed.
LEMMA SureKept ==
  ASSUME AtType, KeysInv, NEW r \in Requests, NEW s, at' = [at EXCEPT ![r] = s],
         permissions \subseteq permissions', roles \subseteq roles',
         \A q \in Governors \ {r} : missing'[q] = missing[q],
         s \in KeySteps => Sure(r)'
  PROVE  \A q \in Requests : Sure(q)'
  <1>1. ASSUME NEW q \in Requests, q # r PROVE Sure(q)'
    BY <1>1 DEF AtType, KeysInv, Sure
  <1>2. s \notin KeySteps => Sure(r)'
    BY DEF AtType, Sure, KeySteps
  <1>. QED
    BY <1>1, <1>2

\* A step that writes nothing about access, and enters on no write of it.
LEMMA AsideKeeps ==
  ASSUME AtType, KeysInv, UNCHANGED accessVars, NEW r \in Requests, NEW s,
         at' = [at EXCEPT ![r] = s], s \in KeySteps => Sure(r)'
  PROVE  KeysInv'
  <1>1. AccessTypeOK'
    BY DEF accessVars, KeysInv, AccessTypeOK
  <1>2. \A q \in Requests : Sure(q)'
    BY SureKept DEF accessVars
  <1>. QED
    BY <1>1, <1>2 DEF KeysInv

LEMMA AdminKinds ==
  /\ Admins \subseteq Requests
  /\ RoleMakers \cap (Granters \cup Hosts) = {}
  /\ Granters \cap Hosts = {}
  /\ UserMakers \cap (Switchers \cup Assigners) = {}
  /\ Switchers \cap Assigners = {}
  /\ \A r \in Governors : Subject[r] \in Roles /\ Wanted[r] \subseteq Keys
  /\ \A r \in Hosts : Subject[r] \in Users
  /\ \A r \in Assigners : Wanted[r] \in Roles
  /\ Roles \cap Users = {}
  BY AccessAssumption

LEMMA BeginKeeps ==
  ASSUME AtType, KeysInv, NEW r \in Requests, BeginAdmin(r)
  PROVE  KeysInv'
  <1>. USE AdminKinds DEF Admins, Governors, Hosts
  <1>1. UNCHANGED accessVars
    BY DEF BeginAdmin, BeginGrant, BeginUserMaker, BeginSwitch, BeginAssign
  <1>2. CASE r \in Assigners /\ BeginAssign(r)
    <2>1. PICK s \in {"assign", "failed"} :
            at' = [at EXCEPT ![r] = s] /\ (s = "assign" => Wanted[r] \in roles)
      BY <1>2 DEF BeginAssign, Start
    <2>2. s = "assign" => Sure(r)'
      BY <1>1, <1>2, <2>1 DEF AtType, Sure, accessVars
    <2>. QED
      BY <1>1, <2>1, <2>2, AsideKeeps DEF KeySteps
  <1>3. CASE BeginGrant(r) \/ BeginUserMaker(r) \/ BeginSwitch(r)
    <2>1. PICK s \in {"keys", "user", "switch", "failed"} : at' = [at EXCEPT ![r] = s]
      BY <1>3 DEF BeginGrant, BeginUserMaker, BeginSwitch, Start
    <2>2. s \notin KeySteps
      BY DEF KeySteps
    <2>. QED
      BY <1>1, <2>1, <2>2, AsideKeeps
  <1>. QED
    BY <1>2, <1>3 DEF BeginAdmin

LEMMA AdminStepKeeps ==
  ASSUME AtType, KeysInv, entry = [x \in Roles \cup Users |-> entry[x]], NEW r \in Requests, AdminStep(r)
  PROVE  KeysInv'
  <1>. USE AdminKinds DEF Admins, Governors, Hosts
  <1>1. CASE r \in Governors /\ FindKeys(r)
    <2>1. PICK s \in {"newKeys", "role", "clear"} :
            /\ at' = [at EXCEPT ![r] = s]
            /\ s # "newKeys" => Wanted[r] \ permissions = {}
            /\ missing' = [missing EXCEPT ![r] = Wanted[r] \ permissions]
            /\ UNCHANGED <<permissions, roles, grants, active, has, entry, changed>>
      BY <1>1 DEF FindKeys, Goto
    <2>2. missing \in [Governors -> SUBSET Keys]
      BY DEF KeysInv, AccessTypeOK
    <2>3. AccessTypeOK'
      BY <1>1, <2>1, <2>2 DEF KeysInv, AccessTypeOK
    <2>4. Sure(r)'
      BY <1>1, <2>1, <2>2 DEF AtType, Sure
    <2>5. \A q \in Governors \ {r} : missing'[q] = missing[q]
      BY <2>1, <2>2
    <2>6. \A q \in Requests : Sure(q)'
      BY <2>1, <2>4, <2>5, SureKept
    <2>. QED
      BY <2>3, <2>6 DEF KeysInv
  <1>2. CASE r \in Governors /\ CreateKeys(r)
    <2>1. PICK s \in {"role", "clear", "failed"} :
            /\ at[r] = "newKeys" /\ at' = [at EXCEPT ![r] = s]
            /\ permissions' = IF s = "failed" THEN permissions ELSE permissions \cup missing[r]
            /\ UNCHANGED <<roles, grants, active, has, missing, entry, changed>>
      BY <1>2 DEF CreateKeys, Goto
    <2>2. missing[r] \subseteq Keys
      BY <1>2 DEF KeysInv, AccessTypeOK
    <2>3. permissions \subseteq permissions' /\ permissions' \subseteq Keys
      BY <2>1, <2>2 DEF KeysInv, AccessTypeOK
    <2>4. grants' \in [Roles -> SUBSET permissions']
      BY <2>1, <2>3 DEF KeysInv, AccessTypeOK
    <2>5. AccessTypeOK'
      BY <2>1, <2>3, <2>4 DEF KeysInv, AccessTypeOK
    <2>6. s \in KeySteps => Sure(r)'
      BY <1>2, <2>1 DEF AtType, KeysInv, Sure, KeySteps
    <2>7. \A q \in Requests : Sure(q)'
      BY <2>1, <2>3, <2>6, SureKept
    <2>. QED
      BY <2>5, <2>7 DEF KeysInv
  <1>3. CASE r \in Governors /\ (CreateRole(r) \/ ClearGrants(r) \/ WriteGrants(r))
    <2>1. PICK s \in {"grant", "audit", "failed"} :
            /\ at[r] \in {"role", "clear", "grant"} /\ at' = [at EXCEPT ![r] = s]
            /\ roles' \in {roles, roles \cup {Subject[r]}}
            /\ changed' \in {changed, changed \cup {r}}
            /\ UNCHANGED <<permissions, active, has, missing, entry>>
      BY <1>3 DEF CreateRole, ClearGrants, WriteGrants, Goto
    <2>2. Wanted[r] \subseteq permissions /\ Subject[r] \in Roles
      BY <1>3, <2>1 DEF KeysInv, Sure
    <2>3. grants' \in [Roles -> SUBSET permissions]
      <3>1. grants \in [Roles -> SUBSET permissions]
        BY DEF KeysInv, AccessTypeOK
      <3>2. \E G \in SUBSET permissions : grants' = grants \/ grants' = [grants EXCEPT ![Subject[r]] = G]
        <4>1. CASE CreateRole(r)
          BY <2>2, <4>1 DEF CreateRole
        <4>2. CASE ClearGrants(r)
          BY <4>2 DEF ClearGrants
        <4>3. CASE WriteGrants(r)
          <5>1. grants[Subject[r]] \cup Wanted[r] \subseteq permissions
            BY <2>2, <3>1
          <5>. QED
            BY <4>3, <5>1 DEF WriteGrants
        <4>. QED
          BY <1>3, <4>1, <4>2, <4>3
      <3>. QED
        BY <2>2, <3>1, <3>2
    <2>4. roles \subseteq roles' /\ roles' \subseteq Roles
      BY <2>1, <2>2 DEF KeysInv, AccessTypeOK
    <2>5. has' \in [Users -> SUBSET roles']
      BY <2>1, <2>4 DEF KeysInv, AccessTypeOK
    <2>6. AccessTypeOK'
      BY <1>3, <2>1, <2>3, <2>4, <2>5 DEF KeysInv, AccessTypeOK
    <2>7. Sure(r)'
      BY <1>3, <2>1, <2>2 DEF AtType, Sure
    <2>8. \A q \in Requests : Sure(q)'
      BY <2>1, <2>4, <2>7, SureKept
    <2>. QED
      BY <2>6, <2>8 DEF KeysInv
  <1>4. CASE (r \in UserMakers /\ CreateUser(r)) \/ (r \in Switchers /\ SwitchUser(r))
    <2>1. PICK s \in {"audit", "failed"} :
            /\ at' = [at EXCEPT ![r] = s]
            /\ changed' \in {changed, changed \cup {r}}
            /\ UNCHANGED <<permissions, roles, grants, has, missing, entry>>
      BY <1>4 DEF CreateUser, SwitchUser, Goto
    <2>2. active' \in [Users -> BOOLEAN \cup {Unknown}]
      <3>1. active \in [Users -> BOOLEAN \cup {Unknown}]
        BY DEF KeysInv, AccessTypeOK
      <3>2. Subject[r] \in Users /\ (r \in Switchers => Wanted[r] \in BOOLEAN)
        BY <1>4, AccessAssumption
      <3>3. CASE CreateUser(r)
        BY <3>1, <3>2, <3>3 DEF CreateUser
      <3>4. CASE r \in Switchers /\ SwitchUser(r)
        BY <3>1, <3>2, <3>4 DEF SwitchUser
      <3>. QED
        BY <1>4, <3>3, <3>4
    <2>3. AccessTypeOK'
      BY <1>4, <2>1, <2>2 DEF KeysInv, AccessTypeOK
    <2>4. s \notin KeySteps
      BY DEF KeySteps
    <2>5. \A q \in Requests : Sure(q)'
      BY <2>1, <2>4, SureKept
    <2>. QED
      BY <2>3, <2>5 DEF KeysInv
  <1>5. CASE r \in Assigners /\ AssignRole(r)
    <2>1. /\ at[r] = "assign" /\ at' = [at EXCEPT ![r] = "audit"]
          /\ has' = [has EXCEPT ![Subject[r]] = @ \cup {Wanted[r]}]
          /\ UNCHANGED <<permissions, roles, grants, active, missing, entry, changed>>
      BY <1>5 DEF AssignRole, Goto
    <2>2. Wanted[r] \in roles /\ Subject[r] \in Users
      BY <1>5, <2>1 DEF KeysInv, Sure
    <2>3. has' \in [Users -> SUBSET roles]
      BY <2>1, <2>2 DEF KeysInv, AccessTypeOK
    <2>4. AccessTypeOK'
      BY <2>1, <2>3 DEF KeysInv, AccessTypeOK
    <2>5. \A q \in Requests : Sure(q)'
      BY <2>1, SureKept DEF KeySteps
    <2>. QED
      BY <2>4, <2>5 DEF KeysInv
  <1>6. CASE r \in Admins /\ WriteAuditLog(r)
    <2>1. /\ at' = [at EXCEPT ![r] = "done"]
          /\ entry' = IF r \in Assigners THEN entry ELSE [entry EXCEPT ![Subject[r]] = Wanted[r]]
          /\ UNCHANGED <<permissions, roles, grants, active, has, missing, changed>>
      BY <1>6 DEF WriteAuditLog, Goto
    <2>2. \A x \in Roles \cup Users : entry'[x] # entry[x] =>
            r \notin Assigners /\ x = Subject[r] /\ entry'[x] = Wanted[r]
      BY <2>1
    <2>3. \A x \in Roles : entry'[x] \in {Unknown} \cup SUBSET Keys
      <3>. SUFFICES ASSUME NEW x \in Roles PROVE entry'[x] \in {Unknown} \cup SUBSET Keys
        OBVIOUS
      <3>1. entry'[x] # entry[x] => entry'[x] = Wanted[r] /\ r \in Governors
        BY <1>6, <2>2
      <3>2. r \in Governors => Wanted[r] \in SUBSET Keys
        OBVIOUS
      <3>3. entry[x] \in {Unknown} \cup SUBSET Keys
        BY DEF KeysInv, AccessTypeOK
      <3>. QED
        BY <3>1, <3>2, <3>3
    <2>4. \A u \in Users : entry'[u] \in {Unknown} \cup BOOLEAN
      <3>. SUFFICES ASSUME NEW u \in Users PROVE entry'[u] \in {Unknown} \cup BOOLEAN
        OBVIOUS
      <3>1. entry[u] \in {Unknown} \cup BOOLEAN
        BY DEF KeysInv, AccessTypeOK
      <3>2. r \in UserMakers \cup Switchers => Wanted[r] \in BOOLEAN
        BY AccessAssumption
      <3>3. entry'[u] # entry[u] => entry'[u] = Wanted[r] /\ r \in UserMakers \cup Switchers
        BY <1>6, <2>2
      <3>. QED
        BY <3>1, <3>2, <3>3
    <2>5. AccessTypeOK'
      BY <2>1, <2>3, <2>4 DEF KeysInv, AccessTypeOK
    <2>6. \A q \in Requests : Sure(q)'
      BY <2>1, SureKept DEF KeySteps
    <2>. QED
      BY <2>5, <2>6 DEF KeysInv
  <1>. QED
    BY <1>1, <1>2, <1>3, <1>4, <1>5, <1>6 DEF AdminStep

LEMMA KeysKept ==
  ASSUME AccessType, KeysInv, cast.requests \subseteq Requests, [Next]_vars
  PROVE  KeysInv'
  <1>. USE DEF AccessType
  <1>1. CASE UNCHANGED vars
    BY <1>1 DEF vars, overlapVars, accessVars, KeysInv, AccessTypeOK, Sure
  <1>2. CASE Next
    <2>1. PICK r \in Requests : Request(r)
      BY <1>2 DEF Next
    <2>2. CASE UNCHANGED accessVars /\ (BeginStock(r) \/ BeginOperation(r))
      <3>1. PICK s \in StockSteps \cup ConfigSteps \cup {"done", "failed"} : at' = [at EXCEPT ![r] = s]
        BY <2>2
        DEF BeginStock, BeginDelivery, BeginImport, BeginUpdate, BeginPriceChange, BeginPlan, BeginClose,
            FirstStep, AfterSupplier, BeginOperation, Install, BeginConfig, Start, StockSteps, ConfigSteps
      <3>2. s \notin KeySteps
        BY DEF StockSteps, ConfigSteps, KeySteps
      <3>. QED
        BY <2>2, <3>1, <3>2, AsideKeeps
    <2>3. CASE UNCHANGED accessVars /\ (StockStep(r) \/ ConfigStep(r) \/ Fail(r))
      <3>1. PICK s \in StockSteps \cup ConfigSteps \cup {"done", "failed"} : at' = [at EXCEPT ![r] = s]
        BY <2>3, StockMoves, ConfigMoves DEF Fail, Goto
      <3>2. s \notin KeySteps
        BY DEF StockSteps, ConfigSteps, KeySteps
      <3>. QED
        BY <2>3, <3>1, <3>2, AsideKeeps
    <2>4. CASE BeginAdmin(r)
      BY <2>4, BeginKeeps
    <2>5. CASE AdminStep(r)
      BY <2>5, AdminStepKeeps
    <2>. QED
      BY <2>1, <2>2, <2>3, <2>4, <2>5 DEF Request
  <1>. QED
    BY <1>1, <1>2

-----------------------------------------------------------------------------
(* All of it together.                                                       *)

CastInv == cast \in Casts /\ cast.requests \subseteq Requests

AdminInv == CastInv /\ AccessInv /\ StockInv /\ GoodsInv /\ CountInv /\ PriceInv /\ SignInv /\ KeysInv

LEMMA AdminInvInit == Init => AdminInv
  <1>. SUFFICES ASSUME Init PROVE AdminInv
    OBVIOUS
  <1>1. CastInv
    BY CastAssumption DEF Init, CastInv
  <1>2. StockInv
    BY StockInvInit DEF Init
  <1>. QED
    BY <1>1, <1>2, AccessInvInit, GoodsInvInit, CountInvInit, PriceInvInit, SignInvInit, KeysInvInit DEF AdminInv

LEMMA AdminInvKept == AdminInv /\ [Next]_vars => AdminInv'
  <1>. SUFFICES ASSUME AdminInv, [Next]_vars PROVE AdminInv'
    OBVIOUS
  <1>1. cast' = cast /\ CastInv'
    BY DEF AdminInv, CastInv, Next, vars
  <1>2. Move /\ GoodsMove /\ StockInv'
    BY NextMoves, GoodsMoves, StockKept DEF AdminInv, AccessInv, AccessType, CastInv
  <1>3. AccessInv'
    BY <1>2, TypeKept, MetKept, ChangedKept, AuditKept DEF AdminInv, AccessInv
  <1>4. GoodsInv'
    BY <1>1, <1>2, NotYetKept, BookedKept, AccountKept
    DEF AdminInv, AccessInv, AccessType, GoodsInv
  <1>5. Unlisted'
    BY <1>1, <1>2, NextLists, DeliveryPasses, UnlistedKept DEF AdminInv, CastInv, PriceInv
  <1>6. HistoryInv'
    <2>1. PriceMove
      BY PriceMoves DEF AdminInv, CastInv, PriceInv
    <2>2. \A q \in Requests : met[q] \subseteq met'[q]
      BY <1>2, MetGrows DEF AdminInv, AccessInv
    <2>. QED
      BY <2>1, <2>2, HistoryKept DEF AdminInv, AccessInv, PriceInv
  <1>7. CountInv'
    <2>1. CountMove
      BY CountMoves DEF AdminInv, CastInv
    <2>2. \A q \in Requests : met[q] \subseteq met'[q]
      BY <1>2, MetGrows DEF AdminInv, AccessInv
    <2>. QED
      BY <1>1, <1>2, <2>1, <2>2, HandKept, UnbookedKept, CountedKept
      DEF AdminInv, AccessInv, GoodsInv, CountInv
  <1>8. SignInv'
    <2>1. RegisterMove
      BY RegisterMoves DEF AdminInv, CastInv, AccessInv, AccessType, SignInv
    <2>2. \A q \in Requests : met[q] \subseteq met'[q]
      BY <1>2, MetGrows DEF AdminInv, AccessInv
    <2>. QED
      BY <2>1, <2>2, SignKept DEF AdminInv, AccessInv, AccessType
  <1>9. KeysInv'
    BY KeysKept DEF AdminInv, CastInv, AccessInv
  <1>. QED
    BY <1>1, <1>2, <1>3, <1>4, <1>5, <1>6, <1>7, <1>8, <1>9 DEF AdminInv, PriceInv

\* Every variable keeps to its type, for any values of the constants; among them: a role has only
\* permissions that have a row, and a user only roles that are there.
THEOREM TypeHolds == Spec => []TypeOK
  <1>1. AdminInv => TypeOK
    BY DEF AdminInv, CastInv, AccessInv, AccessType, AtType, Steps, StockInv, SignInv, KeysInv, TypeOK
  <1>. QED
    BY <1>1, AdminInvInit, AdminInvKept, PTL DEF Spec

\* The access control, for any roles, users and requests and whatever else is going on: with no
\* request about it under way a role has the permissions and a user the status that the newest
\* log entry states, unless one failed between its change and its entry or two overlapped.
THEOREM AuditHolds == Spec => []AuditTellsAccess
  <1>1. AdminInv => AuditTellsAccess
    <2>. SUFFICES ASSUME AccessInv, NEW x \in Roles \cup Users, Concerning(x) \cap Busy = {}, Clean(x)
                  PROVE  \/ x \in Roles /\ grants[x] = (IF entry[x] = Unknown THEN {} ELSE entry[x])
                         \/ x \in Users /\ active[x] = entry[x]
      BY DEF AuditTellsAccess, Concerning, Makers, Clean, AdminInv
    <2>1. Value(x) = Told(x)
      BY AccessAssumption
      DEF AccessInv, AuditInv, Faithful, Concerning, Makers, Busy, Owing, Still
    <2>. QED
      BY <2>1, AccessAssumption DEF Value, Told
  <1>. QED
    BY <1>1, AdminInvInit, AdminInvKept, PTL DEF Spec

\* Deliveries and count sheets, for any documents, sheets and requests: the quantity of a batch is
\* what was delivered and the sum of its adjustments, unless a closing that adjusted it has not
\* written the quantity or two of them overlapped.
THEOREM StockHolds == Spec => []StockAccounted
  <1>1. AdminInv => StockAccounted
    <2>. SUFFICES ASSUME AdminInv, NEW g \in Goods, batch[g].product # NoRow, Straight(g),
                         \A c \in bookers[g] : ~(at[c] = "stock" /\ lot[c] = g)
                  PROVE  batch[g].qty = Document[g[1]][g[2]].qty + adjusted[g]
      BY DEF StockAccounted, Straight
    <2>1. Accounted(g)
      BY DEF AdminInv, GoodsInv, AccountInv
    <2>2. \A c \in Closers : ~(at[c] = "stock" /\ lot[c] = g)
      BY DEF AdminInv, GoodsInv, BookedInv
    <2>. QED
      BY <2>1, <2>2 DEF Accounted, Delivered
  <1>. QED
    BY <1>1, AdminInvInit, AdminInvKept, PTL DEF Spec

\* Count sheets, for any sheets, closings and deliveries between them: when the closing that booked a
\* batch last is done there is in stock what it counted, unless it did not compare with what was in
\* stock or overlapped with another closing of the batch.
THEOREM CountHolds == Spec => []CountedStockHasCause
  <1>1. AdminInv => CountedStockHasCause
    <2>. SUFFICES ASSUME AdminInv, NEW g \in Goods, NEW c \in Closers, last[g] = c, at[c] = "done",
                         told[c][g].expected = told[c][g].read, Lonely(c, g)
                  PROVE  batch[g].qty = told[c][g].counted
      BY DEF CountedStockHasCause, Lonely
    <2>1. c # NoRow
      BY InventoryAssumption
    <2>. QED
      BY <2>1 DEF AdminInv, CountInv, CountedRight
  <1>. QED
    BY <1>1, AdminInvInit, AdminInvKept, PTL DEF Spec

\* Price changes, for any catalog, imports, edits and deliveries next to them: a product has the price
\* its newest history entry in force states once the change is done, unless the catalog was edited
\* after it, a change that is not in force was recorded after it, or another change of the product
\* overlapped with it.
THEOREM PriceHolds == Spec => []PriceFollowsHistory
  <1>1. AdminInv => PriceFollowsHistory
    BY DEF AdminInv, PriceInv, HistoryInv, Priced, PriceFollowsHistory
  <1>. QED
    BY <1>1, AdminInvInit, AdminInvKept, PTL DEF Spec

\* The registers, for any number of registers, TSS and requests: with all requests ended, the register
\* last made the default signs, unless two such requests overlapped, one failed before it took the
\* flag from the others, or the register was removed, by itself or with a TSS.
THEOREM SigningHolds == Spec => []SigningRegisterHasCause
  <1>1. AdminInv => SigningRegisterHasCause
    <2>. SUFFICES ASSUME AdminInv, Busy = {}, chosen # NoRegister, ~Rivals, ~Undone(chosen),
                         ~\E w \in DefaultMakers : at[w] = "failed" /\ register[About[w]].isDefault
                  PROVE  SigningRegister = chosen
      BY DEF SigningRegisterHasCause, Rivals, Undone, DefaultMakers
    <2>1. SignInv /\ Signs(chosen)
      BY DEF AdminInv, SignInv, ChosenInv
    <2>2. chosen \in Registers /\ Open(chosen) /\ age[chosen] \in Nat
      BY <2>1 DEF SignInv, ConfigTypeOK, FlagInv, Signs
    <2>3. \A w \in DefaultMakers : at[w] # "unset"
      BY OperatorKinds DEF Busy, Still, DefaultMakers, Operators
    <2>4. \A l \in Registers \ {chosen} : ~register[l].isDefault
      BY <2>1, <2>3 DEF Signs
    <2>5. {k \in {l \in Registers : Open(l)} : register[k].isDefault} = {chosen}
      BY <2>1, <2>2, <2>4 DEF Signs
    <2>6. First({chosen}) = chosen
      BY <2>2 DEF First
    <2>. QED
      BY <2>5, <2>6 DEF SigningRegister
  <1>. QED
    BY <1>1, AdminInvInit, AdminInvKept, PTL DEF Spec
=============================================================================
