-------------------------- MODULE BackOfficeProofs --------------------------
(***************************************************************************)
(* Proofs about the requests that book money, with everything else in the  *)
(* back office around them: two refunds of one sale have overlapped, the   *)
(* pipeline keeps the promises of SaleLedger, the closings, the cached     *)
(* latest sale, the pickup receipts and Wolt's changes are right but for   *)
(* the listed causes, and the cash of the closings is what is in the       *)
(* drawer and what simulated payments pretend to have put there.           *)
(*                                                                         *)
(* For the requests six variables matter.  What a step does to them is one *)
(* of the moves below, and the invariants are proved of the moves.  The    *)
(* closings, the cache and the preorders have moves of their own.          *)
(***************************************************************************)
EXTENDS BackOffice, SumTheorems, FiniteSetTheorems, TLAPS

money == <<fiscalActive, at, met, status, target, tss>>
sums  == <<fiscalActive, status, tss>>

Early == {"idle", "check", "sign", "insert", "commit"}
Late  == {"print", "mail", "find", "event", "link", "read", "move"}

-----------------------------------------------------------------------------
(* The moves.                                                                *)

\* A request or a closing begins, at an await of its kind.
EnterSale(r)  == r \in Payments /\ Start(r, "sign") /\ fiscalActive /\ UNCHANGED <<sums, target>>
EnterPlain(r) ==
  /\ r \in Payments \cup Simulations \cup Adjustments
  /\ r \in Payments => ~fiscalActive
  /\ Start(r, "insert") /\ UNCHANGED <<sums, target>>
EnterRefused(r) == r \in Requests /\ Start(r, "failed") /\ UNCHANGED <<sums, target>>
EnterRefund(r, o) ==
  /\ r \in Refunds /\ o \in Booking
  /\ Start(r, "check") /\ target' = [target EXCEPT ![r] = o] /\ UNCHANGED sums
EnterReader(r) ==
  /\ r \in Readers
  /\ \E s \in {"done", "look"} : Start(r, s)
  /\ UNCHANGED <<sums, target>>
EnterClosing(z) == z \in Closings /\ Start(z, "from") /\ UNCHANGED <<sums, target>>

\* The checks of a refund, the calls of the TSS, the three inserts.
Check(r) ==
  /\ at[r] = "check" /\ r \in Requests
  /\ Goto(r, IF status[target[r]] = "SUCCESS" THEN AfterChecks ELSE "failed")
  /\ UNCHANGED <<sums, target>>
Sign(r) ==
  /\ at[r] = "sign" /\ r \in Requests
  /\ tss' = [tss EXCEPT ![r] = NextStage(tss[r])]
  /\ \/ Goto(r, "failed")
     \/ NextStage(tss[r]) # "finished" /\ Goto(r, "sign")
     \/ NextStage(tss[r]) = "finished" /\ Goto(r, "insert")
  /\ UNCHANGED <<fiscalActive, status, target>>
Row(r) == at[r] = "insert" /\ r \in Requests /\ Goto(r, "commit") /\ UNCHANGED <<sums, target>>
Sell(r) ==
  /\ at[r] = "commit" /\ r \in Sellers
  /\ status' = [status EXCEPT ![r] = "SUCCESS"]
  /\ \E s \in {"print", "cache"} : Goto(r, s)
  /\ UNCHANGED <<fiscalActive, tss, target>>
Return(r) ==
  /\ at[r] = "commit" /\ r \in Refunds
  /\ status' = [status EXCEPT ![r] = "REFUND", ![target[r]] = "REFUNDED"]
  /\ Goto(r, "cache")
  /\ UNCHANGED <<fiscalActive, tss, target>>
Adjust(r) ==
  /\ at[r] = "commit" /\ r \in Adjustments
  /\ \E s \in {"CASH_WITHDRAWAL", "CASH_DEPOSIT"} : status' = [status EXCEPT ![r] = s]
  /\ Goto(r, "done")
  /\ UNCHANGED <<fiscalActive, tss, target>>

\* What comes after.
Onward(r) ==
  /\ at[r] \in Late /\ r \in Requests
  /\ \E s \in Late \cup {"cache"} : Goto(r, s)
  /\ UNCHANGED <<sums, target>>
Look(q) ==
  /\ at[q] = "look" /\ q \in Requests
  /\ \/ \E r \in Booking : target' = [target EXCEPT ![q] = r] /\ Goto(q, "cache")
     \/ UNCHANGED target /\ Goto(q, "failed")
  /\ UNCHANGED sums
Finish(r) ==
  /\ at[r] \in {"cache", "reprint"} /\ r \in Requests
  /\ \E s \in {"reprint", "done"} : Goto(r, s)
  /\ UNCHANGED <<sums, target>>
Fail(r) == at[r] \in Awaits /\ r \in Requests /\ Goto(r, "failed") /\ UNCHANGED <<sums, target>>
Close(z) == z \in Closings /\ at[z] \in Awaits /\ (\E s \in Steps \ {"idle"} : Goto(z, s)) /\ UNCHANGED <<sums, target>>

Begin ==
  \E r \in Actors :
    \/ EnterSale(r) \/ EnterPlain(r) \/ EnterRefused(r) \/ EnterReader(r) \/ EnterClosing(r)
    \/ \E o \in Booking : EnterRefund(r, o)

Go ==
  \E r \in Actors :
    \/ Check(r) \/ Sign(r) \/ Row(r) \/ Sell(r) \/ Return(r) \/ Adjust(r)
    \/ Onward(r) \/ Look(r) \/ Finish(r) \/ Fail(r) \/ Close(r)

Move == Begin \/ Go \/ UNCHANGED money

LEMMA BeginRequestMoves ==
  ASSUME NEW r \in Requests, BeginRequest(r)
  PROVE  Begin
  <1>. USE PipelineAssumption DEF Requests, Booking, Sellers, Actors, sums
  <1>1. CASE r \in Payments /\ BeginPayment(r)
    BY <1>1 DEF BeginPayment, AfterChecks, EnterSale, EnterPlain, EnterRefused, Begin
  <1>2. CASE r \in Simulations /\ BeginSimulation(r)
    BY <1>2 DEF BeginSimulation, EnterPlain, EnterRefused, Begin
  <1>3. CASE r \in Refunds /\ \E o \in Booking : BeginRefund(r, o)
    BY <1>3 DEF BeginRefund, EnterRefund, Begin
  <1>4. CASE r \in Adjustments /\ BeginAdjustment(r)
    BY <1>4 DEF BeginAdjustment, EnterPlain, EnterRefused, Begin
  <1>5. CASE r \in Readers /\ GetLatestSale(r)
    BY <1>5 DEF GetLatestSale, EnterReader, Begin
  <1>. QED
    BY <1>1, <1>2, <1>3, <1>4, <1>5 DEF BeginRequest

LEMMA WorkMoves ==
  ASSUME NEW r \in Requests, Work(r) \/ SendReceiptEmail(r) \/ RequestFails(r)
  PROVE  Go
  <1>. USE DEF Requests, Actors, sums, Go, Late
  <1>1. CASE CheckOriginal(r)
    BY <1>1 DEF CheckOriginal, Check
  <1>2. CASE CallTss(r)
    BY <1>2 DEF CallTss, Sign
  <1>3. CASE CallLost(r)
    BY <1>3 DEF CallLost, Sign
  <1>4. CASE Insert(r)
    BY <1>4 DEF Insert, Row
  <1>5. CASE CommitSale(r)
    BY <1>5 DEF CommitSale, Sell
  <1>6. CASE CommitRefund(r)
    BY <1>6 DEF CommitRefund, Return
  <1>7. CASE CommitAdjustment(r)
    BY <1>7 DEF CommitAdjustment, Adjust
  <1>8. CASE PrintReceipt(r)
    BY <1>8 DEF PrintReceipt, Onward
  <1>9. CASE FindPreorder(r) \/ SaleCompleted(r)
    BY <1>9 DEF FindPreorder, SaleCompleted, Onward
  <1>10. CASE LinkPreorder(r) \/ ReadPreorder(r) \/ TransitionStatus(r)
    BY <1>10 DEF LinkPreorder, ReadPreorder, TransitionStatus, Onward
  <1>11. CASE LookUp(r)
    BY <1>11 DEF LookUp, Newest, Look
  <1>12. CASE CacheLatestSale(r)
    BY <1>12 DEF CacheLatestSale, Finish
  <1>13. CASE PrintRefund(r)
    BY <1>13 DEF PrintRefund, Finish
  <1>14. CASE SendReceiptEmail(r)
    BY <1>14 DEF SendReceiptEmail, Onward
  <1>15. CASE RequestFails(r)
    BY <1>15 DEF RequestFails, Fail
  <1>. QED
    BY <1>1, <1>2, <1>3, <1>4, <1>5, <1>6, <1>7, <1>8, <1>9, <1>10, <1>11, <1>12, <1>13, <1>14,
       <1>15 DEF Work

LEMMA ClosingMoves ==
  ASSUME ClosingSteps
  PROVE  Go
  <1>1. PICK z \in Closings : ClosingWork(z)
    BY DEF ClosingSteps
  <1>2. UNCHANGED <<sums, target>>
    BY DEF ClosingSteps, saleRest, sums
  <1>3. at[z] \in Awaits /\ \E s \in Steps \ {"idle"} : Goto(z, s)
    <2>1. CASE ResolveFromDate(z)
      BY <2>1 DEF ResolveFromDate, Awaits, Steps
    <2>2. CASE StoreClosing(z)
      BY <2>2 DEF StoreClosing, Awaits, Steps
    <2>3. CASE ClosingFails(z)
      BY <2>3 DEF ClosingFails, Awaits, Steps
    <2>4. CASE \E what \in {"sales", "adjustments"} : SumUp(z, what)
      BY <2>4 DEF SumUp, Awaits, Steps
    <2>. QED
      BY <1>1, <2>1, <2>2, <2>3, <2>4 DEF ClosingWork
  <1>. QED
    BY <1>2, <1>3 DEF Close, Go, Actors

\* Whatever happens in the back office is a move.
LEMMA NextMoves == [Next]_vars => Move
  <1>. SUFFICES ASSUME [Next]_vars PROVE Move
    OBVIOUS
  <1>1. CASE UNCHANGED vars
    BY <1>1 DEF vars, saleVars, Move, money
  <1>2. CASE UNCHANGED saleVars
    BY <1>2 DEF saleVars, Move, money
  <1>3. CASE Begins
    <2>1. CASE \E r \in Requests \cap cast.actors : BeginRequest(r)
      BY <2>1, BeginRequestMoves DEF Move
    <2>2. CASE \E z \in Closings \cap cast.actors : BeginClosing(z) /\ UNCHANGED saleRest
      BY <2>2 DEF BeginClosing, saleRest, EnterClosing, Actors, sums, Begin, Move
    <2>3. CASE UNCHANGED saleVars
      BY <1>2, <2>3
    <2>. QED
      BY <1>3, <2>1, <2>2, <2>3 DEF Begins
  <1>4. CASE SaleSteps
    BY <1>4, WorkMoves DEF SaleSteps, Move
  <1>5. CASE LatestExpires
    BY <1>5 DEF LatestExpires, Move, money
  <1>6. CASE ClosingSteps
    BY <1>6, ClosingMoves DEF Move
  <1>. QED
    BY <1>1, <1>2, <1>3, <1>4, <1>5, <1>6 DEF Next

-----------------------------------------------------------------------------
(* What is true of the six variables.                                        *)

MoneyType ==
  /\ fiscalActive \in BOOLEAN
  /\ at \in [Actors -> Steps]
  /\ met \in [Actors -> SUBSET Actors]
  /\ status \in [Requests -> RowStatus]
  /\ target \in [Requests -> Booking \cup {NoSale}]
  /\ tss \in [Requests -> TssStage]

\* A request has no row before its commit, and one that books has one after it.
StageInv ==
  \A r \in Requests :
    /\ at[r] \in Early => status[r] = "none"
    /\ r \in Booking /\ at[r] \in Late \cup {"cache", "reprint", "done"} => status[r] # "none"
    /\ at[r] = "check" => r \in Refunds /\ target[r] \in Booking
    /\ at[r] = "look" => r \in Readers

\* Nothing but a simulation goes past the TSS unsigned.
SignedInv ==
  \A r \in Booking \ Simulations :
    fiscalActive /\ at[r] \in {"insert", "commit"} => tss[r] = "finished"

\* A refund that has passed its check is for a sale, and a booked one has made it REFUNDED.
Taking(r) == at[r] \in {"sign", "insert", "commit"} \/ Booked(r)
TargetInv ==
  \A r \in Refunds :
    /\ Taking(r) => target[r] \in Booking /\ status[target[r]] \in {"SUCCESS", "REFUNDED"}
    /\ Booked(r) => status[target[r]] = "REFUNDED"

\* Those that are under way have met one another.
MetInv == \A a, b \in Busy : a # b => b \in met[a]

\* Refunds of one sale that have passed their checks have met.
ApartInv ==
  \A r, q \in Refunds :
    r # q /\ Taking(r) /\ Taking(q) /\ target[r] = target[q] => q \in met[r]

MoneyInv ==
  MoneyType /\ StageInv /\ SignedInv /\ TargetInv /\ MetInv /\ ApartInv

LEMMA MoneyInit == Init => MoneyInv
  <1>. SUFFICES ASSUME SaleInit PROVE MoneyInv
    BY DEF Init
  <1>1. MoneyType
    BY DEF SaleInit, MoneyType, Steps, RowStatus, TssStage
  <1>2. Busy = {} /\ \A r \in Requests : ~Booked(r) /\ at[r] = "idle"
    BY DEF SaleInit, Busy, Awaits, Booked, SaleStatus, Requests, Actors
  <1>3. StageInv /\ SignedInv
    BY <1>2 DEF SaleInit, StageInv, SignedInv, Late, Requests
  <1>4. MetInv /\ TargetInv /\ ApartInv
    BY <1>2 DEF MetInv, TargetInv, ApartInv, Taking, Requests, Booking
  <1>. QED
    BY <1>1, <1>3, <1>4 DEF MoneyInv

LEMMA TypeKept == MoneyType /\ Move => MoneyType'
  <1>. SUFFICES ASSUME MoneyType, Move PROVE MoneyType'
    OBVIOUS
  <1>. USE PipelineAssumption DEF MoneyType, Requests, Actors, sums
  <1>1. CASE UNCHANGED money
    BY <1>1 DEF money
  <1>2. CASE Begin
    <2>1. PICK r \in Actors, s \in Steps : Start(r, s)
      BY <1>2 DEF Begin, EnterSale, EnterPlain, EnterRefused, EnterReader, EnterClosing, EnterRefund,
                  Steps, Awaits
    <2>2. at' \in [Actors -> Steps] /\ met' \in [Actors -> SUBSET Actors]
      BY <2>1 DEF Start, Busy
    <2>3. UNCHANGED sums /\ target' \in [Requests -> Booking \cup {NoSale}]
      BY <1>2 DEF Begin, EnterSale, EnterPlain, EnterRefused, EnterReader, EnterClosing, EnterRefund
    <2>. QED
      BY <2>2, <2>3
  <1>3. CASE Go
    <2>1. PICK r \in Actors, s \in Steps : Goto(r, s)
      BY <1>3 DEF Go, Check, Sign, Row, Sell, Return, Adjust, Onward, Look, Finish, Fail, Close,
                  AfterChecks, Steps, Awaits, Late
    <2>2. at' \in [Actors -> Steps] /\ met' = met
      BY <2>1 DEF Goto
    <2>3. fiscalActive' = fiscalActive
      BY <1>3 DEF Go, Check, Sign, Row, Sell, Return, Adjust, Onward, Look, Finish, Fail, Close
    <2>4. tss' \in [Requests -> TssStage]
      BY <1>3 DEF Go, Check, Sign, Row, Sell, Return, Adjust, Onward, Look, Finish, Fail, Close,
                  NextStage, TssStage
    <2>5. status' \in [Requests -> RowStatus]
      BY <1>3 DEF Go, Check, Sign, Row, Sell, Return, Adjust, Onward, Look, Finish, Fail, Close,
                  RowStatus, SaleStatus
    <2>6. target' \in [Requests -> Booking \cup {NoSale}]
      BY <1>3 DEF Go, Check, Sign, Row, Sell, Return, Adjust, Onward, Look, Finish, Fail, Close
    <2>. QED
      BY <2>2, <2>3, <2>4, <2>5, <2>6
  <1>. QED
    BY <1>1, <1>2, <1>3 DEF Move

LEMMA MetKept == MoneyType /\ MetInv /\ Move => MetInv'
  <1>. SUFFICES ASSUME MoneyType, MetInv, Move PROVE MetInv'
    OBVIOUS
  <1>1. CASE UNCHANGED money
    BY <1>1 DEF money, MetInv, Busy
  <1>2. CASE Begin
    <2>1. PICK r \in Actors, s \in Steps : Start(r, s)
      BY <1>2 DEF Begin, EnterSale, EnterPlain, EnterRefused, EnterReader, EnterClosing, EnterRefund,
                  Steps, Awaits
    <2>. QED
      BY <2>1 DEF Start, MetInv, Busy, MoneyType
  <1>3. CASE Go
    <2>1. PICK r \in Actors, s \in Steps : Goto(r, s) /\ r \in Busy
      BY <1>3 DEF Go, Check, Sign, Row, Sell, Return, Adjust, Onward, Look, Finish, Fail, Close,
                  AfterChecks, Steps, Awaits, Late, Busy
    <2>. QED
      BY <2>1 DEF Goto, MetInv, Busy, MoneyType
  <1>. QED
    BY <1>1, <1>2, <1>3 DEF Move

\* Who has met, has met.
LEMMA MetGrows ==
  ASSUME MoneyType, Move, NEW a \in Actors
  PROVE  met[a] \subseteq met'[a]
  <1>1. CASE UNCHANGED money
    BY <1>1 DEF money
  <1>2. CASE Begin
    BY <1>2 DEF Begin, EnterSale, EnterPlain, EnterRefused, EnterReader, EnterClosing, EnterRefund,
                Start
  <1>3. CASE Go
    BY <1>3 DEF Go, Check, Sign, Row, Sell, Return, Adjust, Onward, Look, Finish, Fail, Close, Goto
  <1>. QED
    BY <1>1, <1>2, <1>3 DEF Move

\* A return takes back a sale of another request, which is booked.
LEMMA ReturnsAnother ==
  ASSUME MoneyType, StageInv, TargetInv, NEW r \in Refunds, at[r] = "commit"
  PROVE  /\ target[r] \in Booking /\ target[r] # r
         /\ status[target[r]] \in {"SUCCESS", "REFUNDED"} /\ status[r] = "none"
  <1>1. status[r] = "none" /\ target[r] \in Booking
    BY DEF StageInv, TargetInv, Taking, Early, Requests, Booking
  <1>2. status[target[r]] \in {"SUCCESS", "REFUNDED"}
    BY DEF TargetInv, Taking
  <1>. QED
    BY <1>1, <1>2

LEMMA StageKept == MoneyType /\ StageInv /\ TargetInv /\ Move => StageInv'
  <1>. SUFFICES ASSUME MoneyType, StageInv, TargetInv, Move PROVE StageInv'
    OBVIOUS
  <1>. USE PipelineAssumption
       DEF MoneyType, StageInv, Early, Late, Requests, Booking, Sellers, Actors, sums
  <1>1. CASE UNCHANGED money
    BY <1>1 DEF money
  <1>2. CASE Begin
    <2>1. CASE \E r \in Actors : EnterSale(r)
      BY <2>1 DEF EnterSale, Start
    <2>2. CASE \E r \in Actors : EnterPlain(r)
      BY <2>2 DEF EnterPlain, Start
    <2>3. CASE \E r \in Actors : EnterRefused(r)
      BY <2>3 DEF EnterRefused, Start
    <2>4. CASE \E r \in Actors : EnterReader(r)
      BY <2>4 DEF EnterReader, Start
    <2>5. CASE \E r \in Actors : EnterClosing(r)
      BY <2>5 DEF EnterClosing, Start
    <2>6. CASE \E r \in Actors, o \in Booking : EnterRefund(r, o)
      BY <2>6 DEF EnterRefund, Start
    <2>. QED
      BY <1>2, <2>1, <2>2, <2>3, <2>4, <2>5, <2>6 DEF Begin
  <1>3. CASE Go
    <2>. USE DEF Goto
    <2>1. CASE \E r \in Actors : Check(r)
      BY <2>1 DEF Check, AfterChecks
    <2>2. CASE \E r \in Actors : Sign(r)
      BY <2>2 DEF Sign
    <2>3. CASE \E r \in Actors : Row(r)
      BY <2>3 DEF Row
    <2>4. CASE \E r \in Actors : Sell(r)
      BY <2>4 DEF Sell
    <2>5. CASE \E r \in Actors : Return(r)
      BY <2>5, ReturnsAnother DEF Return
    <2>6. CASE \E r \in Actors : Adjust(r)
      BY <2>6 DEF Adjust
    <2>7. CASE \E r \in Actors : Onward(r)
      BY <2>7 DEF Onward
    <2>8. CASE \E r \in Actors : Look(r)
      BY <2>8 DEF Look
    <2>9. CASE \E r \in Actors : Finish(r)
      BY <2>9 DEF Finish
    <2>10. CASE \E r \in Actors : Fail(r)
      BY <2>10 DEF Fail
    <2>11. CASE \E r \in Actors : Close(r)
      BY <2>11 DEF Close
    <2>. QED
      BY <1>3, <2>1, <2>2, <2>3, <2>4, <2>5, <2>6, <2>7, <2>8, <2>9, <2>10, <2>11 DEF Go
  <1>. QED
    BY <1>1, <1>2, <1>3 DEF Move

LEMMA SignedKept == MoneyType /\ StageInv /\ SignedInv /\ TargetInv /\ Move => SignedInv'
  <1>. SUFFICES ASSUME MoneyType, StageInv, SignedInv, TargetInv, Move PROVE SignedInv'
    OBVIOUS
  <1>. USE PipelineAssumption
       DEF MoneyType, SignedInv, Late, Requests, Booking, Sellers, Actors, sums
  <1>1. CASE UNCHANGED money
    BY <1>1 DEF money
  <1>2. CASE Begin
    <2>1. CASE \E r \in Actors : EnterSale(r)
      BY <2>1 DEF EnterSale, Start, StageInv, Early
    <2>2. CASE \E r \in Actors : EnterPlain(r)
      BY <2>2 DEF EnterPlain, Start
    <2>3. CASE \E r \in Actors : EnterRefused(r)
      BY <2>3 DEF EnterRefused, Start
    <2>4. CASE \E r \in Actors : EnterReader(r)
      BY <2>4 DEF EnterReader, Start
    <2>5. CASE \E r \in Actors : EnterClosing(r)
      BY <2>5 DEF EnterClosing, Start
    <2>6. CASE \E r \in Actors, o \in Booking : EnterRefund(r, o)
      BY <2>6 DEF EnterRefund, Start
    <2>. QED
      BY <1>2, <2>1, <2>2, <2>3, <2>4, <2>5, <2>6 DEF Begin
  <1>3. CASE Go
    <2>. USE DEF Goto
    <2>1. CASE \E r \in Actors : Check(r)
      BY <2>1 DEF Check, AfterChecks
    <2>2. CASE \E r \in Actors : Sign(r)
      BY <2>2 DEF Sign, NextStage
    <2>3. CASE \E r \in Actors : Row(r)
      BY <2>3 DEF Row
    <2>4. CASE \E r \in Actors : Sell(r)
      BY <2>4 DEF Sell
    <2>5. CASE \E r \in Actors : Return(r)
      BY <2>5 DEF Return
    <2>6. CASE \E r \in Actors : Adjust(r)
      BY <2>6 DEF Adjust
    <2>7. CASE \E r \in Actors : Onward(r)
      BY <2>7 DEF Onward
    <2>8. CASE \E r \in Actors : Look(r)
      BY <2>8 DEF Look
    <2>9. CASE \E r \in Actors : Finish(r)
      BY <2>9 DEF Finish
    <2>10. CASE \E r \in Actors : Fail(r)
      BY <2>10 DEF Fail
    <2>11. CASE \E r \in Actors : Close(r)
      BY <2>11 DEF Close
    <2>. QED
      BY <1>3, <2>1, <2>2, <2>3, <2>4, <2>5, <2>6, <2>7, <2>8, <2>9, <2>10, <2>11 DEF Go
  <1>. QED
    BY <1>1, <1>2, <1>3 DEF Move

LEMMA TargetKept == MoneyType /\ StageInv /\ TargetInv /\ Move => TargetInv'
  <1>. SUFFICES ASSUME MoneyType, StageInv, TargetInv, Move PROVE TargetInv'
    OBVIOUS
  <1>. USE PipelineAssumption
       DEF MoneyType, StageInv, TargetInv, Taking, Booked, SaleStatus, Early, Late, Requests, Booking,
           Sellers, Actors, sums
  <1>1. CASE UNCHANGED money
    BY <1>1 DEF money
  <1>2. CASE Begin
    <2>1. CASE \E r \in Actors : EnterSale(r)
      BY <2>1 DEF EnterSale, Start
    <2>2. CASE \E r \in Actors : EnterPlain(r)
      BY <2>2 DEF EnterPlain, Start
    <2>3. CASE \E r \in Actors : EnterRefused(r)
      BY <2>3 DEF EnterRefused, Start
    <2>4. CASE \E r \in Actors : EnterReader(r)
      BY <2>4 DEF EnterReader, Start
    <2>5. CASE \E r \in Actors : EnterClosing(r)
      BY <2>5 DEF EnterClosing, Start
    <2>6. CASE \E r \in Actors, o \in Booking : EnterRefund(r, o)
      BY <2>6 DEF EnterRefund, Start
    <2>. QED
      BY <1>2, <2>1, <2>2, <2>3, <2>4, <2>5, <2>6 DEF Begin
  <1>3. CASE Go
    <2>. USE DEF Goto
    <2>1. CASE \E r \in Actors : Check(r)
      BY <2>1 DEF Check, AfterChecks
    <2>2. CASE \E r \in Actors : Sign(r)
      BY <2>2 DEF Sign
    <2>3. CASE \E r \in Actors : Row(r)
      BY <2>3 DEF Row
    <2>4. CASE \E r \in Actors : Sell(r)
      BY <2>4 DEF Sell
    <2>5. CASE \E r \in Actors : Return(r)
      BY <2>5, ReturnsAnother DEF Return
    <2>6. CASE \E r \in Actors : Adjust(r)
      BY <2>6 DEF Adjust
    <2>7. CASE \E r \in Actors : Onward(r)
      BY <2>7 DEF Onward
    <2>8. CASE \E r \in Actors : Look(r)
      BY <2>8 DEF Look
    <2>9. CASE \E r \in Actors : Finish(r)
      BY <2>9 DEF Finish
    <2>10. CASE \E r \in Actors : Fail(r)
      BY <2>10 DEF Fail
    <2>11. CASE \E r \in Actors : Close(r)
      BY <2>11 DEF Close
    <2>. QED
      BY <1>3, <2>1, <2>2, <2>3, <2>4, <2>5, <2>6, <2>7, <2>8, <2>9, <2>10, <2>11 DEF Go
  <1>. QED
    BY <1>1, <1>2, <1>3 DEF Move

LEMMA ApartKept ==
  MoneyType /\ StageInv /\ TargetInv /\ MetInv /\ ApartInv /\ Move => ApartInv'
  <1>. SUFFICES ASSUME MoneyType, StageInv, TargetInv, MetInv, ApartInv, Move PROVE ApartInv'
    OBVIOUS
  <1>0. \A a \in Actors : met[a] \subseteq met'[a]
    BY MetGrows
  <1>. USE PipelineAssumption, <1>0
       DEF MoneyType, StageInv, ApartInv, Taking, Booked, SaleStatus, Early, Late, Requests, Booking,
           Sellers, Actors, sums
  <1>1. CASE UNCHANGED money
    BY <1>1 DEF money
  <1>2. CASE Begin
    <2>1. CASE \E r \in Actors : EnterSale(r)
      BY <2>1 DEF EnterSale, Start
    <2>2. CASE \E r \in Actors : EnterPlain(r)
      BY <2>2 DEF EnterPlain, Start
    <2>3. CASE \E r \in Actors : EnterRefused(r)
      BY <2>3 DEF EnterRefused, Start
    <2>4. CASE \E r \in Actors : EnterReader(r)
      BY <2>4 DEF EnterReader, Start
    <2>5. CASE \E r \in Actors : EnterClosing(r)
      BY <2>5 DEF EnterClosing, Start
    <2>6. CASE \E r \in Actors, o \in Booking : EnterRefund(r, o)
      BY <2>6 DEF EnterRefund, Start
    <2>. QED
      BY <1>2, <2>1, <2>2, <2>3, <2>4, <2>5, <2>6 DEF Begin
  <1>3. CASE Go
    <2>. USE DEF Goto
    <2>1. CASE \E r \in Actors : Check(r)
      BY <2>1 DEF Check, AfterChecks, TargetInv, MetInv, Busy, Awaits
    <2>2. CASE \E r \in Actors : Sign(r)
      BY <2>2 DEF Sign
    <2>3. CASE \E r \in Actors : Row(r)
      BY <2>3 DEF Row
    <2>4. CASE \E r \in Actors : Sell(r)
      BY <2>4 DEF Sell
    <2>5. CASE \E r \in Actors : Return(r)
      BY <2>5, ReturnsAnother DEF Return
    <2>6. CASE \E r \in Actors : Adjust(r)
      BY <2>6 DEF Adjust
    <2>7. CASE \E r \in Actors : Onward(r)
      BY <2>7 DEF Onward
    <2>8. CASE \E r \in Actors : Look(r)
      BY <2>8 DEF Look
    <2>9. CASE \E r \in Actors : Finish(r)
      BY <2>9 DEF Finish
    <2>10. CASE \E r \in Actors : Fail(r)
      BY <2>10 DEF Fail
    <2>11. CASE \E r \in Actors : Close(r)
      BY <2>11 DEF Close
    <2>. QED
      BY <1>3, <2>1, <2>2, <2>3, <2>4, <2>5, <2>6, <2>7, <2>8, <2>9, <2>10, <2>11 DEF Go
  <1>. QED
    BY <1>1, <1>2, <1>3 DEF Move

LEMMA MoneyKept == MoneyInv /\ [Next]_vars => MoneyInv'
  <1>. SUFFICES ASSUME MoneyInv, Move PROVE MoneyInv'
    BY NextMoves
  <1>. QED
    BY TypeKept, StageKept, SignedKept, TargetKept, MetKept, ApartKept DEF MoneyInv

\* refundPayment, for any sales, refunds and whatever else is going on: a sale is refunded twice
\* only by refunds that overlapped.  A refund that has passed its check while the sale was not
\* refunded is under way, or booked, when another one passes it.
THEOREM RefundsOverlapped == Spec => []RefundedTwiceOverlapped
  <1>1. MoneyInv => RefundedTwiceOverlapped
    BY DEF MoneyInv, ApartInv, Taking, RefundedTwiceOverlapped
  <1>. QED
    BY <1>1, MoneyInit, MoneyKept, PTL DEF Spec

-----------------------------------------------------------------------------
(* The moves as steps of the ledger.                                         *)

LEMMA LedgerInit == Init => Ledger!Init
BY MoneyInit
   DEF Init, SaleInit, Ledger!Init, rowStatus, signed, taking, replied, MoneyInv, MoneyType, Requests,
       Booking, Actors

\* What the ledger does not see.
LEMMA Unseen ==
  ASSUME fiscalActive' = fiscalActive,
         \A r \in Booking :
           /\ status'[r] = status[r]
           /\ tss'[r] = tss[r]
           /\ (at'[r] = "done" <=> at[r] = "done") /\ (at'[r] = "failed" <=> at[r] = "failed")
           /\ r \in Refunds => \/ at[r] \in {"sign", "insert", "commit"} /\ target'[r] = target[r]
                                  /\ at'[r] \in {"sign", "insert", "commit"}
                               \/ at[r] \notin {"sign", "insert", "commit"}
                                  /\ at'[r] \notin {"sign", "insert", "commit"}
  PROVE  UNCHANGED Ledger!vars
  <1>1. rowStatus' = rowStatus /\ signed' = signed
    BY DEF rowStatus, signed
  <1>2. taking' = taking
    BY DEF taking
  <1>3. replied' = replied
    BY DEF replied
  <1>. QED
    BY <1>1, <1>2, <1>3 DEF Ledger!vars

(* Each kind of step of the ledger, from what it needs.                      *)

LEMMA Refused ==
  ASSUME MoneyInv, Move, NEW r \in Booking, at[r] \notin {"done", "failed"}, Goto(r, "failed") \/ Start(r, "failed"),
         UNCHANGED <<fiscalActive, status, target>>, \A q \in Booking \ {r} : tss'[q] = tss[q],
         tss[r] = "finished" => tss'[r] = "finished"
  PROVE  Ledger!Refuse(r)
  <1>1. at' = [at EXCEPT ![r] = "failed"] /\ r \in Actors /\ at \in [Actors -> Steps]
    BY DEF Goto, Start, Booking, Requests, Actors, MoneyInv, MoneyType, Sellers
  <1>2. rowStatus' = rowStatus
    BY DEF rowStatus
  <1>3. signed' \in {signed, signed \cup {r}}
    BY DEF signed
  <1>4. taking' = [taking EXCEPT ![r] = NoSale]
    BY <1>1 DEF taking, Actors, Requests, Booking
  <1>5. replied' = [replied EXCEPT ![r] = "refused"] /\ replied[r] = "open"
    BY <1>1 DEF replied, Actors, Requests, Booking
  <1>. QED
    BY <1>2, <1>3, <1>4, <1>5 DEF Ledger!Refuse

LEMMA Confirmed ==
  ASSUME MoneyInv, NEW r \in Booking, at[r] \in {"cache", "reprint"}, Goto(r, "done"),
         UNCHANGED <<sums, target>>
  PROVE  Ledger!Confirm(r)
  <1>1. at' = [at EXCEPT ![r] = "done"] /\ r \in Actors /\ at \in [Actors -> Steps]
    BY DEF Goto, Booking, Requests, Actors, MoneyInv, MoneyType, Sellers
  <1>2. rowStatus' = rowStatus /\ signed' = signed
    BY DEF rowStatus, signed, sums
  <1>3. taking' = taking
    BY <1>1 DEF taking, Actors, Requests, Booking
  <1>4. replied' = [replied EXCEPT ![r] = "confirmed"] /\ replied[r] = "open"
    BY <1>1 DEF replied, Actors, Requests, Booking
  <1>5. rowStatus[r] # "none"
    BY DEF rowStatus, MoneyInv, StageInv, Requests
  <1>. QED
    BY <1>2, <1>3, <1>4, <1>5 DEF Ledger!Confirm, sums

\* A check that a refund passes is a claim.
LEMMA Claimed ==
  ASSUME MoneyInv, NEW r \in Refunds, at[r] = "check", status[target[r]] = "SUCCESS",
         Goto(r, AfterChecks), UNCHANGED <<sums, target>>
  PROVE  \E o \in Booking : Ledger!Claim(r, o)
  <1>1. /\ at' = [at EXCEPT ![r] = AfterChecks] /\ r \in Actors /\ at \in [Actors -> Steps]
        /\ AfterChecks \in {"sign", "insert"} /\ r \in Booking /\ target[r] \in Booking
    BY DEF Goto, Booking, Requests, Actors, MoneyInv, MoneyType, StageInv, AfterChecks
  <1>2. rowStatus' = rowStatus /\ signed' = signed
    BY DEF rowStatus, signed, sums
  <1>3. taking' = [taking EXCEPT ![r] = target[r]] /\ taking[r] = NoSale
    BY <1>1 DEF taking, Actors, Requests, Booking
  <1>4. replied' = replied
    BY <1>1 DEF replied, Actors, Requests, Booking
  <1>5. rowStatus[target[r]] = "SUCCESS"
    BY <1>1 DEF rowStatus
  <1>. QED
    BY <1>1, <1>2, <1>3, <1>4, <1>5 DEF Ledger!Claim, sums

LEMMA Sold ==
  ASSUME MoneyInv, NEW r \in Sellers, Sell(r)
  PROVE  Ledger!Sell(r)
  <1>0. r \notin Refunds /\ r \in Booking /\ r \in Requests
    BY PipelineAssumption DEF Booking, Requests, Sellers
  <1>1. PICK s \in {"print", "cache"} : at' = [at EXCEPT ![r] = s]
    BY DEF Sell, Goto
  <1>2. r \in Actors /\ at \in [Actors -> Steps] /\ at[r] = "commit"
    BY <1>0 DEF Sell, Actors, MoneyInv, MoneyType
  <1>3. rowStatus' = [rowStatus EXCEPT ![r] = "SUCCESS"] /\ rowStatus[r] = "none"
    BY <1>0, <1>2 DEF Sell, rowStatus, MoneyInv, MoneyType, StageInv, Early, Requests
  <1>4. signed' = signed
    BY DEF Sell, signed
  <1>5. taking' = taking
    BY <1>0, <1>1, <1>2 DEF Sell, taking
  <1>6. replied' = replied
    BY <1>1, <1>2 DEF replied, Actors, Requests, Booking
  <1>7. Ledger!Proven(r)
    BY <1>0, <1>2 DEF Ledger!Proven, signed, MoneyInv, SignedInv
  <1>. QED
    BY <1>0, <1>3, <1>4, <1>5, <1>6, <1>7 DEF Ledger!Sell, Sell

LEMMA Returned ==
  ASSUME MoneyInv, NEW r \in Refunds, Return(r)
  PROVE  Ledger!Refund(r)
  <1>0. r \notin Simulations /\ r \in Booking /\ r \in Requests /\ r \in Actors
    BY PipelineAssumption DEF Booking, Requests, Sellers, Actors
  <1>1. at' = [at EXCEPT ![r] = "cache"] /\ at \in [Actors -> Steps] /\ at[r] = "commit"
    BY DEF Return, Goto, MoneyInv, MoneyType
  <1>2. /\ target[r] \in Booking /\ target[r] # r /\ target[r] # NoSale
        /\ status[target[r]] \in {"SUCCESS", "REFUNDED"} /\ status[r] = "none"
    BY <1>1, ReturnsAnother, PipelineAssumption DEF MoneyInv, Requests, Actors
  <1>3. taking[r] = target[r] /\ taking' = [taking EXCEPT ![r] = NoSale]
    BY <1>0, <1>1 DEF Return, taking, Actors, Requests, Booking
  <1>4. /\ rowStatus' = [rowStatus EXCEPT ![r] = "REFUND", ![target[r]] = "REFUNDED"]
        /\ rowStatus[r] = "none" /\ rowStatus[target[r]] \in {"SUCCESS", "REFUNDED"}
    BY <1>0, <1>2 DEF Return, rowStatus, MoneyInv, MoneyType, Requests, Booking
  <1>5. signed' = signed
    BY DEF Return, signed
  <1>6. replied' = replied
    BY <1>1 DEF replied, Actors, Requests, Booking
  <1>7. Ledger!Proven(r)
    BY <1>0, <1>1 DEF Ledger!Proven, signed, MoneyInv, SignedInv
  <1>. QED
    BY <1>2, <1>3, <1>4, <1>5, <1>6, <1>7 DEF Ledger!Refund, Return

LEMMA Signed ==
  ASSUME MoneyInv, NEW r \in Booking, Sign(r), at'[r] # "failed"
  PROVE  Ledger!Sign(r) \/ UNCHANGED Ledger!vars
  <1>1. r \in Actors /\ r \in Requests /\ at \in [Actors -> Steps] /\ tss \in [Requests -> TssStage]
    BY DEF Actors, Requests, MoneyInv, MoneyType, Booking
  <1>2. PICK s \in {"sign", "insert"} : at' = [at EXCEPT ![r] = s]
    BY <1>1 DEF Sign, Goto
  <1>3. at[r] = "sign" /\ tss' = [tss EXCEPT ![r] = NextStage(tss[r])]
    BY DEF Sign
  <1>4. rowStatus' = rowStatus
    BY DEF Sign, rowStatus
  <1>5. signed' = signed \cup {r} \/ signed' = signed
    BY <1>1, <1>3 DEF signed, NextStage, TssStage, Requests, Booking
  <1>6. taking' = taking
    BY <1>1, <1>2, <1>3 DEF Sign, taking, Actors, Requests, Booking
  <1>7. replied' = replied
    BY <1>1, <1>2, <1>3 DEF replied, Actors, Requests, Booking
  <1>. QED
    BY <1>4, <1>5, <1>6, <1>7 DEF Sign, Ledger!Sign, Ledger!vars

LEMMA BeginsInLedger == MoneyInv /\ Begin => Ledger!Next \/ UNCHANGED Ledger!vars
  <1>. SUFFICES ASSUME MoneyInv, Begin PROVE Ledger!Next \/ UNCHANGED Ledger!vars
    OBVIOUS
  <1>. USE PipelineAssumption
  <1>1. CASE \E r \in Booking : EnterRefused(r)
    <2>1. PICK r \in Booking : EnterRefused(r)
      BY <1>1
    <2>2. Ledger!Refuse(r)
      BY <2>1, Refused DEF EnterRefused, Start, sums, Move
    <2>. QED
      BY <2>2 DEF Ledger!Next
  <1>2. ASSUME ~\E r \in Booking : EnterRefused(r)
        PROVE  UNCHANGED Ledger!vars
    <2>. USE DEF MoneyInv, MoneyType, sums, Requests, Actors, Booking, Sellers
    <2>1. CASE \E r \in Actors : EnterSale(r)
      BY <2>1, Unseen DEF EnterSale, Start
    <2>2. CASE \E r \in Actors : EnterPlain(r)
      BY <2>2, Unseen DEF EnterPlain, Start
    <2>3. CASE \E r \in Actors : EnterRefused(r)
      <3>1. PICK r \in Actors \ Booking : EnterRefused(r)
        BY <1>2, <2>3
      <3>. QED
        BY <3>1, Unseen DEF EnterRefused, Start
    <2>4. CASE \E r \in Actors : EnterReader(r)
      BY <2>4, Unseen DEF EnterReader, Start
    <2>5. CASE \E r \in Actors : EnterClosing(r)
      BY <2>5, Unseen DEF EnterClosing, Start
    <2>6. CASE \E r \in Actors, o \in Booking : EnterRefund(r, o)
      BY <2>6, Unseen DEF EnterRefund, Start
    <2>. QED
      BY <2>1, <2>2, <2>3, <2>4, <2>5, <2>6 DEF Begin
  <1>. QED
    BY <1>1, <1>2

LEMMA GoesInLedger == MoneyInv /\ Go => Ledger!Next \/ UNCHANGED Ledger!vars
  <1>. SUFFICES ASSUME MoneyInv, NEW r \in Actors,
                       \/ Check(r) \/ Sign(r) \/ Row(r) \/ Sell(r) \/ Return(r) \/ Adjust(r)
                       \/ Onward(r) \/ Look(r) \/ Finish(r) \/ Fail(r) \/ Close(r)
                PROVE  Ledger!Next \/ UNCHANGED Ledger!vars
    BY DEF Go
  <1>. USE PipelineAssumption
  <1>0. Move
    BY DEF Move, Go
  <1>1. ASSUME r \in Booking, Goto(r, "failed"), at[r] \notin {"done", "failed"},
               UNCHANGED <<fiscalActive, status, target>>,
               tss' = tss \/ tss' = [tss EXCEPT ![r] = NextStage(tss[r])]
        PROVE  Ledger!Next
    <2>1. tss \in [Requests -> TssStage] /\ r \in Requests
      BY <1>1 DEF MoneyInv, MoneyType, Requests
    <2>2. /\ \A q \in Booking \ {r} : tss'[q] = tss[q]
          /\ tss[r] = "finished" => tss'[r] = "finished"
      <3>1. NextStage("finished") = "finished"
        BY DEF NextStage
      <3>. QED
        BY <1>1, <2>1, <3>1 DEF Requests
    <2>. QED
      BY <1>0, <1>1, <2>2, Refused DEF Ledger!Next
  <1>a. ASSUME r \notin Booking, NEW s, Goto(r, s), UNCHANGED fiscalActive,
               \A q \in Booking : status'[q] = status[q] /\ tss'[q] = tss[q] /\ target'[q] = target[q]
        PROVE  UNCHANGED Ledger!vars
    <2>1. \A q \in Booking : at'[q] = at[q]
      BY <1>a DEF Goto, MoneyInv, MoneyType, Actors, Requests
    <2>. QED
      BY <1>a, <2>1, Unseen DEF Booking
  <1>2. CASE Check(r)
    <2>1. r \in Refunds /\ r \in Booking /\ target[r] \in Booking
      BY <1>2 DEF Check, MoneyInv, StageInv, Booking
    <2>2. CASE status[target[r]] = "SUCCESS"
      BY <1>2, <2>1, <2>2, Claimed DEF Check, Ledger!Next
    <2>3. CASE status[target[r]] # "SUCCESS"
      BY <1>1, <1>2, <2>1, <2>3 DEF Check, sums
    <2>. QED
      BY <2>2, <2>3
  <1>3. CASE Sign(r)
    <2>1. CASE r \notin Booking
      <3>1. \A q \in Booking : tss'[q] = tss[q]
        BY <1>3, <2>1 DEF Sign, MoneyInv, MoneyType, Requests
      <3>. QED
        BY <1>3, <1>a, <2>1, <3>1 DEF Sign
    <2>2. CASE r \in Booking /\ at'[r] = "failed"
      <3>1. at \in [Actors -> Steps]
        BY DEF MoneyInv, MoneyType
      <3>2. Goto(r, "failed")
        BY <1>3, <2>2, <3>1 DEF Sign, Goto
      <3>. QED
        BY <1>1, <1>3, <2>2, <3>2 DEF Sign
    <2>3. CASE r \in Booking /\ at'[r] # "failed"
      BY <1>3, <2>3, Signed DEF Ledger!Next
    <2>. QED
      BY <2>1, <2>2, <2>3
  <1>4. CASE Sell(r)
    BY <1>4, Sold DEF Sell, Booking, Ledger!Next
  <1>5. CASE Return(r)
    BY <1>5, Returned DEF Return, Booking, Ledger!Next
  <1>6. CASE Finish(r)
    <2>1. CASE r \in Booking /\ Goto(r, "done")
      BY <1>6, <2>1, Confirmed DEF Finish, Ledger!Next
    <2>2. CASE r \notin Booking \/ Goto(r, "reprint")
      BY <1>6, <2>2, Unseen DEF Finish, Goto, sums, MoneyInv, MoneyType
    <2>. QED
      BY <1>6, <2>1, <2>2 DEF Finish
  <1>7. CASE Fail(r)
    <2>1. CASE r \in Booking
      BY <1>1, <1>7, <2>1 DEF Fail, sums, Awaits
    <2>2. CASE r \notin Booking
      BY <1>7, <2>2, Unseen DEF Fail, Goto, sums, MoneyInv, MoneyType
    <2>. QED
      BY <2>1, <2>2
  <1>8. CASE Row(r) \/ Onward(r)
    <2>1. PICK s \in Late \cup {"cache", "commit"} :
            /\ Goto(r, s) /\ (s = "commit" => at[r] = "insert") /\ (s # "commit" => at[r] \in Late)
      BY <1>8 DEF Row, Onward, Late
    <2>2. at' = [at EXCEPT ![r] = s] /\ at \in [Actors -> Steps] /\ UNCHANGED <<sums, target>>
      BY <1>8, <2>1 DEF Row, Onward, Goto, MoneyInv, MoneyType
    <2>. QED
      BY <2>1, <2>2, Unseen DEF sums, Late, Booking, Requests, Actors
  <1>9. CASE Adjust(r) \/ Close(r)
    <2>1. r \notin Booking
      BY <1>9 DEF Adjust, Close, Booking, Sellers
    <2>2. \A q \in Booking : status'[q] = status[q]
      BY <1>9, <2>1 DEF Adjust, Close, sums, MoneyInv, MoneyType, Requests
    <2>. QED
      BY <1>9, <1>a, <2>1, <2>2 DEF Adjust, Close, sums
  <1>10. CASE Look(r)
    <2>1. r \notin Booking
      BY <1>10 DEF Look, MoneyInv, StageInv, Booking, Sellers
    <2>2. \A q \in Booking : target'[q] = target[q]
      BY <1>10, <2>1 DEF Look, MoneyInv, MoneyType, Requests
    <2>. QED
      BY <1>10, <1>a, <2>1, <2>2 DEF Look, sums
  <1>. QED
    BY <1>2, <1>3, <1>4, <1>5, <1>6, <1>7, <1>8, <1>9, <1>10

\* processPayment, simulatePayment and refundPayment keep the promises of SaleLedger, for any
\* number of requests and whatever else is going on: nothing is booked that the TSS has not
\* signed, a sale goes from SUCCESS to REFUNDED and nowhere else, and what is confirmed is booked.
THEOREM PipelineKeepsLedger == Spec => ImplementsSaleLedger
  <1>1. MoneyInv /\ [Next]_vars => [Ledger!Next]_(Ledger!vars)
    <2>1. UNCHANGED money => UNCHANGED Ledger!vars
      BY DEF money, Ledger!vars, rowStatus, signed, taking, replied
    <2>. QED
      BY <2>1, NextMoves, BeginsInLedger, GoesInLedger DEF Move
  <1>. QED
    BY <1>1, LedgerInit, MoneyInit, MoneyKept, PTL DEF Spec, ImplementsSaleLedger, Ledger!Spec

-----------------------------------------------------------------------------
(* The books: what is in which closing.                                      *)

\* Of finitely many numbers one is the least, and one is the greatest.
LEMMA Least ==
  ASSUME NEW N \in Nat, NEW S \in SUBSET (0 .. N), S # {}
  PROVE  \E m \in S : \A k \in S : m <= k
  <1> DEFINE U == 0 .. N
             T == {0 .. n : n \in S}
             R == StrictSubsetOrdering(U)
  <1>1. IsWellFoundedOn(R, SUBSET U)
    <2>1. IsFiniteSet(U)
      BY FS_Interval
    <2> HIDE DEF U
    <2>2. FiniteSubsetsOf(U) = SUBSET U
      BY <2>1, FS_FiniteSubsetsOfFinite
    <2>3. IsWellFoundedOn(StrictSubsetOrdering(U), FiniteSubsetsOf(U))
      BY FS_StrictSubsetOrderingWellFounded
    <2>. QED
      BY <2>2, <2>3
  <1>2. T \subseteq SUBSET U /\ T # {}
    <2>1. \A n \in S : 0 .. n \subseteq 0 .. N
      OBVIOUS
    <2>. QED
      BY <2>1
  <1>3. \E x \in T : \A y \in T : ~ (<<y, x>> \in R)
    <2> HIDE DEF R, T, U
    <2> QED
      BY <1>1, <1>2, WFMin
  <1>4. PICK m \in S : \A k \in S : ~ (<<0 .. k, 0 .. m>> \in R)
    BY <1>3
  <1>5. ASSUME NEW k \in S, k < m PROVE FALSE
    <2>1. 0 .. k \subseteq 0 .. m /\ 0 .. k # 0 .. m
      <3>1. m \in 0 .. m /\ m \notin 0 .. k
        BY <1>5
      <3>2. QED
        BY <1>5, <3>1
    <2>2. <<0 .. k, 0 .. m>> \in R
      BY <2>1 DEF StrictSubsetOrdering
    <2>. QED
      BY <1>4, <2>2
  <1>. QED
    BY <1>5

LEMMA MinIs ==
  ASSUME NEW N \in Nat, NEW S \in SUBSET (0 .. N), S # {}
  PROVE  Min(S) \in S /\ \A k \in S : Min(S) <= k
  BY Least DEF Min

LEMMA MaxIs ==
  ASSUME NEW N \in Nat, NEW S \in SUBSET (0 .. N), S # {}
  PROVE  Max(S) \in S /\ \A k \in S : k <= Max(S)
  <1> DEFINE T == {N - k : k \in S}
  <1>1. T \in SUBSET (0 .. N) /\ T # {}
    <2>1. \A k \in S : N - k \in 0 .. N
      OBVIOUS
    <2>. QED
      BY <2>1
  <1>2. PICK m \in T : \A k \in T : m <= k
    BY <1>1, Least
  <1>3. PICK x \in S : m = N - x
    BY <1>2
  <1>4. \A k \in S : x >= k
    BY <1>2, <1>3
  <1>5. Max(S) \in S /\ \A k \in S : Max(S) >= k
    BY <1>4 DEF Max
  <1>. QED
    BY <1>5
Rows       == Booking \cup Adjustments
Written(r) == status[r] # "none"
books      == <<stamp, window, toSum, counted>>

\* What a step does to the books: nothing, but for rows that become visible and closings left alone;
\* or a row gets its time; or a closing goes on.
Quiet ==
  /\ UNCHANGED books /\ now' \in Clock /\ now <= now'
  /\ \A z \in Closings : at'[z] = at[z]
  /\ \A r \in Requests : at'[r] = "commit" => at[r] = "commit"
Stamps(r) ==
  /\ at[r] = "insert" /\ Goto(r, "commit")
  /\ stamp' = [stamp EXCEPT ![r] = now]
  /\ UNCHANGED <<now, status, window, toSum, counted>>
Opens(z) ==
  /\ Start(z, "from")
  /\ window' = [window EXCEPT ![z].to = now]
  /\ UNCHANGED <<now, status, stamp, toSum, counted>>
Resolves(z) == ResolveFromDate(z) /\ UNCHANGED <<now, status, stamp>>
Sums(z) == (\E what \in {"sales", "adjustments"} : SumUp(z, what)) /\ UNCHANGED <<now, status, stamp>>
Ends(z) ==
  /\ \/ at[z] = "store" /\ Goto(z, "done")
     \/ at[z] \in Awaits /\ Goto(z, "failed")
  /\ UNCHANGED <<now, status, books>>

BookStep ==
  \/ Quiet
  \/ \E r \in Requests : Stamps(r)
  \/ \E z \in Closings : Opens(z) \/ Resolves(z) \/ Sums(z) \/ Ends(z)

\* A closing is at its own awaits, a request at the others.
ClosingStage == {"idle", "from", "sum", "store", "done", "failed"}

BookType ==
  /\ now \in Clock /\ now >= 1
  /\ stamp \in [Requests -> Clock]
  /\ window \in [Closings -> Window]
  /\ toSum \in [Closings -> SUBSET {"sales", "adjustments"}]
  /\ counted \in [Closings -> SUBSET Rows]
  /\ \A z \in Closings : at[z] \in ClosingStage

\* Sales have the status of a sale, adjustments that of one.
KindInv ==
  /\ \A r \in Booking : status[r] \in SaleStatus \cup {"none"}
  /\ \A r \in Adjustments : status[r] \in {"none", "CASH_DEPOSIT", "CASH_WITHDRAWAL"}

\* Nothing is stamped, and no closing ends, later than now.
ClockInv ==
  /\ \A r \in Requests : stamp[r] <= now
  /\ \A r \in Rows : Written(r) \/ at[r] = "commit" => stamp[r] >= 1
  /\ \A z \in Closings : window[z].to <= now

\* A closing counts what is written and in its window.
InsideInv ==
  \A z \in Closings :
    /\ at[z] \in {"idle", "from"} => counted[z] = {}
    /\ \A r \in counted[z] : Written(r) /\ Within(z, r)

\* Of two Z closings one ends before the other begins to count, or they have met.
OrderInv ==
  \A y, z \in ZClosings :
    y # z /\ at[y] = "done" /\ at[z] \in {"sum", "store", "done"} =>
      \/ z \in met[y] /\ y \in met[z]
      \/ window[y].to <= window[z].from
      \/ window[z].to <= window[y].from

\* A row that becomes visible when a closing is stored has met it, or is not older than its end.
LateInv ==
  \A r \in Requests, z \in Closings :
    at[r] = "commit" /\ at[z] = "done" => r \in met[z] \/ stamp[r] >= window[z].to

\* What is in the window of a closing is counted, has met it, or will be found by a query it waits for.
QueryOf(r) == IF r \in Booking THEN "sales" ELSE "adjustments"
FoundInv ==
  \A z \in Closings :
    /\ at[z] = "store" => toSum[z] = {}
    /\ at[z] \in {"sum", "store"} =>
         \A r \in Rows : Written(r) /\ Within(z, r) =>
           r \in counted[z] \cup met[z] \/ QueryOf(r) \in toSum[z]

\* The row is in a stored closing, or there is one that explains why it is in none.
Traced(r) ==
  \E y \in StoredZ :
    \/ r \in counted[y] \cup met[y]
    \/ stamp[r] = window[y].to
    \/ window[y].first /\ stamp[r] <= window[y].from

\* A closing leaves out only what earlier ones have dealt with.
BeforeInv ==
  \A z \in ZClosings :
    at[z] \in {"sum", "store"} =>
      \A r \in Rows : Written(r) /\ stamp[r] <= window[z].from =>
        Traced(r) \/ r \in met[z] \/ window[z].first

TracedInv ==
  \A z \in StoredZ : \A r \in Rows : Written(r) /\ stamp[r] <= window[z].to => Traced(r)

BookInv ==
  /\ BookType /\ KindInv /\ ClockInv /\ InsideInv /\ OrderInv /\ LateInv /\ FoundInv
  /\ BeforeInv /\ TracedInv

LEMMA BookInit == Init => BookInv
  <1>. SUFFICES ASSUME Init PROVE BookInv
    OBVIOUS
  <1>. USE PipelineAssumption, ClosingAssumption DEF Requests, Booking, Actors, Rows
  <1>0. SaleInit /\ ClosingInit /\ now = 1
    BY DEF Init, DeskInit
  <1>1. /\ \A a \in Actors : at[a] = "idle"
        /\ \A r \in Requests : status[r] = "none" /\ stamp[r] = 0
        /\ \A z \in Closings : window[z].to = 0 /\ counted[z] = {}
    BY <1>0 DEF SaleInit, ClosingInit
  <1>2. BookType
    BY <1>0, <1>1, DeskAssumption DEF SaleInit, ClosingInit, BookType, Clock, Window, ClosingStage
  <1>. QED
    BY <1>0, <1>1, <1>2
    DEF BookInv, KindInv, ClockInv, Written, InsideInv, OrderInv, LateInv, FoundInv, BeforeInv,
        TracedInv, StoredZ, Stored

\* Requests and closings are different actors.
LEMMA Disjoint == Requests \cap Closings = {} /\ Rows \subseteq Requests /\ ZClosings \subseteq Closings
  BY PipelineAssumption, ClosingAssumption DEF Requests, Booking, Sellers, Rows

LEMMA RequestsBook ==
  ASSUME MoneyType, BookType, NEW r \in Requests,
         BeginRequest(r) \/ Work(r) \/ SendReceiptEmail(r) \/ RequestFails(r),
         UNCHANGED <<window, toSum, counted>>
  PROVE  Quiet \/ Stamps(r)
  <1>. USE Disjoint DEF MoneyType, BookType, Actors, deskVars, deskRest
  <1>1. CASE Insert(r)
    BY <1>1 DEF Insert, Stamps
  <1>2. CASE /\ UNCHANGED <<now, stamp>>
             /\ \E s \in Steps \ {"commit"} : Start(r, s) \/ Goto(r, s)
    BY <1>2 DEF Quiet, books, Start, Goto, Clock
  <1>. USE DEF Steps, Awaits
  <1>3. CASE BeginRequest(r)
    BY <1>2, <1>3 DEF BeginRequest, BeginPayment, BeginSimulation, BeginRefund, BeginAdjustment,
                      GetLatestSale, AfterChecks
  <1>4. CASE CheckOriginal(r) \/ CallTss(r) \/ CallLost(r)
    BY <1>2, <1>4 DEF CheckOriginal, CallTss, CallLost, AfterChecks
  <1>5. CASE CommitSale(r) \/ CommitRefund(r) \/ CommitAdjustment(r)
    BY <1>2, <1>5 DEF CommitSale, CommitRefund, CommitAdjustment
  <1>6. CASE PrintReceipt(r) \/ SendReceiptEmail(r) \/ FindPreorder(r) \/ SaleCompleted(r)
    BY <1>2, <1>6 DEF PrintReceipt, SendReceiptEmail, FindPreorder, SaleCompleted
  <1>7. CASE LinkPreorder(r) \/ ReadPreorder(r) \/ TransitionStatus(r)
    BY <1>2, <1>7 DEF LinkPreorder, ReadPreorder, TransitionStatus, LinkSale, CommitPickup
  <1>8. CASE CacheLatestSale(r) \/ PrintRefund(r) \/ RequestFails(r)
    BY <1>2, <1>8 DEF CacheLatestSale, PrintRefund, RequestFails
  <1>9. CASE LookUp(r)
    BY <1>2, <1>9 DEF LookUp
  <1>. QED
    BY <1>1, <1>3, <1>4, <1>5, <1>6, <1>7, <1>8, <1>9 DEF Work

LEMMA ClosingsBook ==
  ASSUME NEW z \in Closings, ClosingWork(z), UNCHANGED <<now, stamp, status>>
  PROVE  Resolves(z) \/ Sums(z) \/ Ends(z)
  BY DEF ClosingWork, Resolves, Sums, Ends, StoreClosing, ClosingFails, books

\* Whatever happens in the back office is a step of the books.
LEMMA NextBooks ==
  ASSUME MoneyType, BookType, [Next]_vars
  PROVE  BookStep
  <1>. USE DEF BookStep
  <1>1. CASE UNCHANGED <<saleVars, closingVars>> /\ now' \in Clock /\ now <= now'
    BY <1>1 DEF saleVars, closingVars, Quiet, books
  <1>2. CASE UNCHANGED vars
    <2>1. UNCHANGED <<saleVars, closingVars>> /\ now' = now
      BY <1>2 DEF vars, deskVars
    <2>. QED
      BY <1>1, <2>1 DEF BookType, Clock
  <1>3. CASE Tick /\ UNCHANGED <<saleVars, closingVars>>
    BY <1>1, <1>3, DeskAssumption DEF Tick, BookType, Clock
  <1>4. CASE UNCHANGED <<saleVars, closingVars, now>>
    BY <1>1, <1>4 DEF BookType, Clock
  <1>5. CASE Begins
    <2>1. CASE (\E r \in Requests \cap cast.actors : BeginRequest(r)) /\ UNCHANGED closingVars
      BY <2>1, RequestsBook DEF closingVars
    <2>2. CASE /\ \E z \in Closings \cap cast.actors : BeginClosing(z)
               /\ UNCHANGED <<deskVars, saleRest, drawer>>
      BY <2>2 DEF BeginClosing, Opens, deskVars, saleRest
    <2>3. CASE /\ \/ \E p \in Passes \cap cast.actors : BeginPass(p)
                  \/ Passes \cap cast.actors # {} /\ \E o \in Orders : WoltChanges(o)
               /\ UNCHANGED <<saleVars, closingVars>>
      BY <1>4, <2>3 DEF BeginPass, WoltChanges
    <2>. QED
      BY <1>5, <2>1, <2>2, <2>3 DEF Begins
  <1>6. CASE (\E p \in Passes : SyncOrders(p)) /\ UNCHANGED <<saleVars, closingVars>>
    BY <1>4, <1>6 DEF SyncOrders, Fetch, FetchFails, UpsertFromWolt, SaveCursor, PassFails
  <1>7. CASE SaleSteps /\ TrackDrawer
    BY <1>7, RequestsBook DEF SaleSteps, TrackDrawer
  <1>8. CASE LatestExpires /\ UNCHANGED closingVars
    BY <1>8 DEF LatestExpires, closingVars, deskVars, Quiet, books, BookType, Clock
  <1>9. CASE ClosingSteps
    BY <1>9, ClosingsBook DEF ClosingSteps, deskVars, saleRest
  <1>. QED
    BY <1>2, <1>3, <1>5, <1>6, <1>7, <1>8, <1>9 DEF Next

\* What lasts from one step to the next: meetings, rows with their times, closings that are stored;
\* and a row that becomes visible was being inserted.
Lasts ==
  /\ \A a \in Actors : met[a] \subseteq met'[a]
  /\ \A r \in Rows : Written(r) => Written(r)' /\ stamp'[r] = stamp[r]
  /\ \A r \in Rows : Written(r)' /\ ~Written(r) => at[r] = "commit" /\ stamp'[r] = stamp[r]
  /\ \A z \in Closings : at[z] = "done" =>
       at'[z] = "done" /\ window'[z] = window[z] /\ counted'[z] = counted[z]
  /\ now <= now'

\* Rows stay rows of their kind, and only a commit makes one.
OnlyCommits ==
  \A r \in Rows : /\ Written(r) => Written(r)'
                  /\ Written(r)' /\ ~Written(r) => at[r] = "commit"

LEMMA RowsKept ==
  ASSUME MoneyType, StageInv, TargetInv, KindInv, Move
  PROVE  KindInv' /\ OnlyCommits
  <1>. USE PipelineAssumption
       DEF MoneyType, KindInv, OnlyCommits, Written, Rows, SaleStatus, Requests, Booking, Sellers, Actors
  <1>1. CASE UNCHANGED status
    BY <1>1
  <1>2. ASSUME NEW r \in Actors, Sell(r) PROVE KindInv' /\ OnlyCommits
    BY <1>2 DEF Sell
  <1>3. ASSUME NEW r \in Actors, Return(r) PROVE KindInv' /\ OnlyCommits
    BY <1>3, ReturnsAnother DEF Return
  <1>4. ASSUME NEW r \in Actors, Adjust(r) PROVE KindInv' /\ OnlyCommits
    BY <1>4 DEF Adjust
  <1>. QED
    BY <1>1, <1>2, <1>3, <1>4
    DEF Move, money, sums, Begin, EnterSale, EnterPlain, EnterRefused, EnterRefund, EnterReader,
        EnterClosing, Go, Check, Sign, Row, Onward, Look, Finish, Fail, Close

LEMMA StepLasts ==
  ASSUME MoneyInv, BookInv, Move, BookStep
  PROVE  Lasts
  <1>. USE Disjoint DEF BookInv, BookType, MoneyInv, MoneyType, Actors, Clock
  <1>1. \A a \in Actors : met[a] \subseteq met'[a]
    BY MetGrows
  <1>2. \A r \in Rows : /\ Written(r) => Written(r)'
                        /\ Written(r)' /\ ~Written(r) => at[r] = "commit"
    BY RowsKept DEF OnlyCommits
  <1>3. CASE Quiet
    BY <1>1, <1>2, <1>3 DEF Quiet, books, Lasts
  <1>4. ASSUME NEW r \in Requests, Stamps(r) PROVE Lasts
    <2>1. r \in Rows => ~Written(r)
      BY <1>4 DEF Stamps, StageInv, Early, Written
    <2>. QED
      BY <1>1, <1>2, <1>4, <2>1 DEF Stamps, Goto, Lasts, Written
  <1>5. ASSUME NEW z \in Closings, Opens(z) \/ Resolves(z) \/ Sums(z) \/ Ends(z) PROVE Lasts
    <2>1. UNCHANGED <<now, status, stamp>> /\ at[z] # "done"
      BY <1>5 DEF Opens, Start, Resolves, ResolveFromDate, Sums, SumUp, Ends, books, Awaits
    <2>2. \A y \in Closings \ {z} :
            at'[y] = at[y] /\ window'[y] = window[y] /\ counted'[y] = counted[y]
      BY <1>5 DEF Opens, Start, Resolves, ResolveFromDate, Sums, SumUp, Ends, books, Goto
    <2>. QED
      BY <1>1, <2>1, <2>2 DEF Lasts, Written
  <1>. QED
    BY <1>3, <1>4, <1>5 DEF BookStep

\* What explains a row goes on explaining it.
LEMMA TracedLasts ==
  ASSUME BookType, Lasts, NEW r \in Rows, Written(r), Traced(r)
  PROVE  Traced(r)'
  <1>1. PICK y \in StoredZ :
          \/ r \in counted[y] \cup met[y]
          \/ stamp[r] = window[y].to
          \/ window[y].first /\ stamp[r] <= window[y].from
    BY DEF Traced
  <1>2. /\ y \in StoredZ' /\ window'[y] = window[y] /\ counted'[y] = counted[y]
        /\ met[y] \subseteq met'[y] /\ stamp'[r] = stamp[r]
    BY Disjoint DEF Lasts, StoredZ, Stored, Actors
  <1>. QED
    BY <1>1, <1>2 DEF Traced

\* A row that becomes visible has met every closing that counts.
LEMMA NewRowMet ==
  ASSUME MoneyInv, Lasts, NEW r \in Rows, Written(r)', ~Written(r),
         NEW z \in Closings, at[z] \in {"sum", "store"}
  PROVE  r \in met'[z]
  <1>1. r \in Busy /\ z \in Busy /\ r # z
    BY Disjoint DEF Lasts, Busy, Awaits, Actors
  <1>. QED
    BY <1>1 DEF MoneyInv, MetInv, Lasts, Busy

\* From when a closing counts: the end of a stored Z closing, and then of the last; or it is a first one.
LEMMA FromIs ==
  ASSUME BookType, ClockInv, NEW z \in Closings, Resolves(z)
  PROVE  /\ window' \in [Closings -> Window]
         /\ window'[z].to = window[z].to
         /\ \A y \in Closings \ {z} : window'[y] = window[y]
         /\ \A y \in StoredZ : window[y].to <= window'[z].from
         /\ \/ \E y \in StoredZ : window'[z].from = window[y].to
            \/ window'[z].first
  <1> DEFINE sold == {r \in Booking : Booked(r)}
             tos  == {window[y].to : y \in StoredZ}
             times == {stamp[r] : r \in sold}
             from == CASE StoredZ # {}              -> Max(tos)
                       [] StoredZ = {} /\ sold # {} -> Min(times)
                       [] OTHER                     -> DayStart[window[z].to]
  <1>0. window' = [window EXCEPT ![z].from = from, ![z].first = StoredZ = {}]
    BY DEF Resolves, ResolveFromDate
  <1>1. tos \in SUBSET (0 .. MaxNow) /\ times \in SUBSET (0 .. MaxNow)
    BY Disjoint DEF BookType, Window, Clock, StoredZ, Rows
  <1>2. CASE StoredZ # {}
    <2>1. from \in tos /\ \A k \in tos : k <= from
      <3>1. tos # {}
        BY <1>2
      <3>2. Max(tos) \in tos /\ \A k \in tos : k <= Max(tos)
        BY <1>1, <3>1, MaxIs, DeskAssumption
      <3>3. from = Max(tos)
        BY <1>2
      <3>. QED
        BY <3>2, <3>3
    <2>2. from \in Clock
      BY <1>1, <2>1 DEF Clock
    <2> HIDE DEF from
    <2>3. /\ window' \in [Closings -> Window] /\ window'[z].to = window[z].to
          /\ window'[z].from = from /\ \A y \in Closings \ {z} : window'[y] = window[y]
      BY <1>0, <2>2 DEF BookType, Window
    <2>. QED
      BY <2>1, <2>3
  <1>3. CASE StoredZ = {} /\ sold # {}
    <2>1. from \in Clock
      <3>1. times # {}
        BY <1>3
      <3>2. Min(times) \in times
        BY <1>1, <3>1, MinIs, DeskAssumption
      <3>3. from = Min(times)
        BY <1>3
      <3>. QED
        BY <1>1, <3>2, <3>3 DEF Clock
    <2> HIDE DEF from
    <2>2. /\ window' \in [Closings -> Window] /\ window'[z].to = window[z].to
          /\ window'[z].first /\ \A y \in Closings \ {z} : window'[y] = window[y]
      BY <1>0, <1>3, <2>1 DEF BookType, Window
    <2>. QED
      BY <1>3, <2>2
  <1>4. CASE StoredZ = {} /\ sold = {}
    <2>1. from = DayStart[window[z].to]
      BY <1>4
    <2>2. from \in Clock
      BY <2>1, ClosingAssumption DEF BookType, Window
    <2> HIDE DEF from
    <2>3. /\ window' \in [Closings -> Window] /\ window'[z].to = window[z].to
          /\ window'[z].first /\ \A y \in Closings \ {z} : window'[y] = window[y]
      BY <1>0, <1>4, <2>2 DEF BookType, Window
    <2>. QED
      BY <1>4, <2>3
  <1>. QED
    BY <1>2, <1>3, <1>4

Ctx == MoneyInv /\ BookInv /\ Lasts

LEMMA BookTypeKept ==
  ASSUME Ctx, BookStep
  PROVE  BookType'
  <1>. USE Disjoint DEF Ctx, BookInv, MoneyInv, MoneyType, Actors
  <1>1. CASE Quiet
    BY <1>1 DEF Quiet, BookType, books, Clock
  <1>2. ASSUME NEW r \in Requests, Stamps(r) PROVE BookType'
    BY <1>2 DEF Stamps, Goto, BookType
  <1>3. ASSUME NEW z \in Closings, Opens(z) PROVE BookType'
    BY <1>3 DEF Opens, Start, BookType, Window, ClosingStage
  <1>4. ASSUME NEW z \in Closings, Resolves(z) PROVE BookType'
    <2>1. window' \in [Closings -> Window]
      BY <1>4, FromIs
    <2>. QED
      BY <1>4, <2>1 DEF Resolves, ResolveFromDate, Goto, BookType, ClosingStage
  <1>5. ASSUME NEW z \in Closings, Sums(z) PROVE BookType'
    BY <1>5 DEF Sums, SumUp, Goto, BookType, ClosingStage, Rows
  <1>6. ASSUME NEW z \in Closings, Ends(z) PROVE BookType'
    BY <1>6 DEF Ends, Goto, BookType, ClosingStage, books
  <1>. QED
    BY <1>1, <1>2, <1>3, <1>4, <1>5, <1>6 DEF BookStep

LEMMA ClockKept ==
  ASSUME Ctx, BookStep, BookType'
  PROVE  ClockInv'
  <1>. USE Disjoint DEF Ctx, BookInv, MoneyInv, MoneyType, BookType, Actors, Clock, Window, ClockInv
  <1>1. CASE Quiet
    <2>1. \A r \in Rows : Written(r)' => Written(r) \/ at[r] = "commit"
      BY DEF Lasts
    <2>2. \A r \in Rows : r \in Requests
      BY DEF Rows
    <2>. QED
      BY <1>1, <2>1, <2>2 DEF Quiet, books
  <1>2. ASSUME NEW r \in Requests, Stamps(r) PROVE ClockInv'
    BY <1>2 DEF Stamps, Goto, Written
  <1>3. ASSUME NEW z \in Closings, Opens(z) PROVE ClockInv'
    BY <1>3 DEF Opens, Start, Written
  <1>4. ASSUME NEW z \in Closings, Resolves(z) PROVE ClockInv'
    <2>1. UNCHANGED <<now, status, stamp>> /\ at' = [at EXCEPT ![z] = "sum"]
      BY <1>4 DEF Resolves, ResolveFromDate, Goto
    <2>2. \A y \in Closings : window'[y].to = window[y].to
      BY <1>4, FromIs
    <2>. QED
      BY <2>1, <2>2 DEF Written
  <1>5. ASSUME NEW z \in Closings, Sums(z) PROVE ClockInv'
    BY <1>5 DEF Sums, SumUp, Goto, Written
  <1>6. ASSUME NEW z \in Closings, Ends(z) PROVE ClockInv'
    BY <1>6 DEF Ends, Goto, Written, books
  <1>. QED
    BY <1>1, <1>2, <1>3, <1>4, <1>5, <1>6 DEF BookStep

LEMMA InsideKept ==
  ASSUME Ctx, BookStep
  PROVE  InsideInv'
  <1>. USE Disjoint DEF Ctx, BookInv, MoneyInv, MoneyType, BookType, Actors, InsideInv, Within
  <1>0. \A z \in Closings : \A r \in counted[z] : Written(r)' /\ stamp'[r] = stamp[r]
    BY DEF Lasts
  <1>1. CASE Quiet
    BY <1>0, <1>1 DEF Quiet, books
  <1>2. ASSUME NEW r \in Requests, Stamps(r) PROVE InsideInv'
    BY <1>0, <1>2 DEF Stamps, Goto
  <1>3. ASSUME NEW z \in Closings, Opens(z) PROVE InsideInv'
    BY <1>0, <1>3 DEF Opens, Start
  <1>4. ASSUME NEW z \in Closings, Resolves(z) PROVE InsideInv'
    BY <1>0, <1>4, FromIs DEF Resolves, ResolveFromDate, Goto
  <1>5. ASSUME NEW z \in Closings, Sums(z) PROVE InsideInv'
    BY <1>0, <1>5 DEF Sums, SumUp, Goto, Written, SaleStatus
  <1>6. ASSUME NEW z \in Closings, Ends(z) PROVE InsideInv'
    BY <1>0, <1>6 DEF Ends, Goto, books, Awaits
  <1>. QED
    BY <1>1, <1>2, <1>3, <1>4, <1>5, <1>6 DEF BookStep

LEMMA OrderKept ==
  ASSUME Ctx, BookStep
  PROVE  OrderInv'
  <1>. USE Disjoint DEF Ctx, BookInv, MoneyInv, MoneyType, BookType, Actors, OrderInv
  <1>0. \A a \in Actors : met[a] \subseteq met'[a]
    BY DEF Lasts
  <1>1. CASE Quiet
    BY <1>0, <1>1 DEF Quiet, books
  <1>2. ASSUME NEW r \in Requests, Stamps(r) PROVE OrderInv'
    BY <1>2 DEF Stamps, Goto
  <1>3. ASSUME NEW z \in Closings, Opens(z) PROVE OrderInv'
    BY <1>0, <1>3 DEF Opens, Start
  <1>4. ASSUME NEW z \in Closings, Resolves(z) PROVE OrderInv'
    BY <1>4, FromIs DEF Resolves, ResolveFromDate, Goto, StoredZ, Stored
  <1>5. ASSUME NEW z \in Closings, Sums(z) PROVE OrderInv'
    BY <1>5 DEF Sums, SumUp, Goto
  <1>6. ASSUME NEW z \in Closings, Ends(z) PROVE OrderInv'
    BY <1>6 DEF Ends, Goto, books, MetInv, Busy, Awaits
  <1>. QED
    BY <1>1, <1>2, <1>3, <1>4, <1>5, <1>6 DEF BookStep

LEMMA LateKept ==
  ASSUME Ctx, BookStep
  PROVE  LateInv'
  <1>. USE Disjoint
       DEF Ctx, BookInv, MoneyInv, MoneyType, BookType, Actors, LateInv, Clock, Window
  <1>0. \A a \in Actors : met[a] \subseteq met'[a]
    BY DEF Lasts
  <1>1. CASE Quiet
    BY <1>0, <1>1 DEF Quiet, books
  <1>2. ASSUME NEW r \in Requests, Stamps(r) PROVE LateInv'
    BY <1>2 DEF Stamps, Goto, ClockInv
  <1>3. ASSUME NEW z \in Closings, Opens(z) PROVE LateInv'
    BY <1>0, <1>3 DEF Opens, Start
  <1>4. ASSUME NEW z \in Closings, Resolves(z) PROVE LateInv'
    BY <1>4, FromIs DEF Resolves, ResolveFromDate, Goto
  <1>5. ASSUME NEW z \in Closings, Sums(z) PROVE LateInv'
    BY <1>5 DEF Sums, SumUp, Goto
  <1>6. ASSUME NEW z \in Closings, Ends(z) PROVE LateInv'
    BY <1>6 DEF Ends, Goto, books, MetInv, Busy, Awaits
  <1>. QED
    BY <1>1, <1>2, <1>3, <1>4, <1>5, <1>6 DEF BookStep

LEMMA FoundKept ==
  ASSUME Ctx, BookStep
  PROVE  FoundInv'
  <1>. USE Disjoint
       DEF Ctx, BookInv, MoneyInv, MoneyType, BookType, Actors, FoundInv, Within
  <1>0. /\ \A a \in Actors : met[a] \subseteq met'[a]
        /\ \A r \in Rows : Written(r) => stamp'[r] = stamp[r]
    BY DEF Lasts
  <1>1. CASE Quiet
    BY <1>0, <1>1, NewRowMet DEF Quiet, books
  <1>2. ASSUME NEW r \in Requests, Stamps(r) PROVE FoundInv'
    BY <1>0, <1>2 DEF Stamps, Goto, Written
  <1>3. ASSUME NEW z \in Closings, Opens(z) PROVE FoundInv'
    BY <1>0, <1>3 DEF Opens, Start, Written
  <1>4. ASSUME NEW z \in Closings, Resolves(z) PROVE FoundInv'
    <2>1. UNCHANGED <<status, stamp, met, counted>>
      BY <1>4 DEF Resolves, ResolveFromDate, Goto
    <2>2. /\ toSum'[z] = {"sales", "adjustments"} /\ at'[z] = "sum"
          /\ \A y \in Closings \ {z} : UNCHANGED <<at[y], toSum[y], window[y]>>
      BY <1>4 DEF Resolves, ResolveFromDate, Goto
    <2>3. \A r \in Rows : QueryOf(r) \in toSum'[z]
      BY <2>2 DEF QueryOf
    <2>4. ASSUME NEW y \in Closings, y # z
          PROVE  /\ at'[y] = "store" => toSum'[y] = {}
                 /\ at'[y] \in {"sum", "store"} =>
                      \A r \in Rows : Written(r)' /\ Within(y, r)' =>
                        r \in counted'[y] \cup met'[y] \/ QueryOf(r) \in toSum'[y]
      BY <2>1, <2>2, <2>4 DEF Written
    <2>. QED
      BY <2>2, <2>3, <2>4 DEF QueryOf
  <1>5. ASSUME NEW z \in Closings, Sums(z) PROVE FoundInv'
    <2>1. PICK what \in {"sales", "adjustments"} : SumUp(z, what)
      BY <1>5 DEF Sums
    <2>2. UNCHANGED <<status, stamp, window, met>>
      BY <1>5, <2>1 DEF Sums, SumUp, Goto
    <2>3. ASSUME NEW r \in Rows, Written(r), Within(z, r), QueryOf(r) = what
          PROVE  r \in counted'[z]
      BY <2>1, <2>3 DEF SumUp, QueryOf, KindInv, Written, Rows
    <2>4. /\ counted[z] \subseteq counted'[z] /\ toSum'[z] = toSum[z] \ {what}
          /\ at'[z] = IF toSum[z] = {what} THEN "store" ELSE "sum"
          /\ at[z] = "sum"
          /\ \A y \in Closings \ {z} : UNCHANGED <<at[y], toSum[y], counted[y]>>
      BY <2>1 DEF SumUp, Goto
    <2>. QED
      BY <2>2, <2>3, <2>4 DEF Written
  <1>6. ASSUME NEW z \in Closings, Ends(z) PROVE FoundInv'
    BY <1>6 DEF Ends, Goto, books, Written
  <1>. QED
    BY <1>1, <1>2, <1>3, <1>4, <1>5, <1>6 DEF BookStep

LEMMA BeforeKept ==
  ASSUME Ctx, BookStep
  PROVE  BeforeInv'
  <1>. USE Disjoint DEF Ctx, BookInv, MoneyInv, MoneyType, BookType, Actors, BeforeInv
  <1>0. /\ \A a \in Actors : met[a] \subseteq met'[a]
        /\ \A r \in Rows : Written(r) => stamp'[r] = stamp[r] /\ (Traced(r) => Traced(r)')
    BY TracedLasts DEF Lasts
  <1>1. CASE Quiet
    BY <1>0, <1>1, NewRowMet DEF Quiet, books
  <1>2. ASSUME NEW r \in Requests, Stamps(r) PROVE BeforeInv'
    BY <1>0, <1>2 DEF Stamps, Goto, Written
  <1>3. ASSUME NEW z \in Closings, Opens(z) PROVE BeforeInv'
    BY <1>0, <1>3 DEF Opens, Start, Written
  <1>4. ASSUME NEW z \in Closings, Resolves(z) PROVE BeforeInv'
    <2>1. UNCHANGED <<status, stamp, met>> /\ \A y \in Closings \ {z} : at'[y] = at[y]
      BY <1>4 DEF Resolves, ResolveFromDate, Goto
    <2>2. ASSUME NEW r \in Rows, Written(r), stamp[r] <= window'[z].from
          PROVE  Traced(r) \/ window'[z].first
      BY <1>4, <2>2, FromIs DEF TracedInv, ClockInv, Clock
    <2>. QED
      BY <1>0, <1>4, <2>1, <2>2, FromIs DEF Written
  <1>5. ASSUME NEW z \in Closings, Sums(z) PROVE BeforeInv'
    BY <1>0, <1>5 DEF Sums, SumUp, Goto, Written
  <1>6. ASSUME NEW z \in Closings, Ends(z) PROVE BeforeInv'
    BY <1>0, <1>6 DEF Ends, Goto, books, Written
  <1>. QED
    BY <1>1, <1>2, <1>3, <1>4, <1>5, <1>6 DEF BookStep

LEMMA TracedKept ==
  ASSUME Ctx, BookStep
  PROVE  TracedInv'
  <1>. USE Disjoint DEF Ctx, BookInv, MoneyInv, MoneyType, BookType, Actors, Clock, Window, TracedInv
  <1>0. /\ \A a \in Actors : met[a] \subseteq met'[a]
        /\ \A r \in Rows : Written(r) => stamp'[r] = stamp[r] /\ (Traced(r) => Traced(r)')
    BY TracedLasts DEF Lasts
  <1>1. CASE Quiet
    <2>1. ASSUME NEW z \in StoredZ, NEW r \in Rows, Written(r)', ~Written(r),
                 stamp[r] <= window[z].to
          PROVE  Traced(r)'
      <3>1. at[r] = "commit" /\ at[z] = "done" /\ z \in Closings
        BY <2>1 DEF Lasts, StoredZ, Stored
      <3>2. r \in met[z] \/ stamp[r] = window[z].to
        <4>1. r \in Requests /\ stamp[r] \in Nat /\ window[z].to \in Nat
          BY <3>1 DEF Rows
        <4>2. r \in met[z] \/ stamp[r] >= window[z].to
          BY <3>1, <4>1 DEF LateInv
        <4>3. \A m, n \in Nat : m <= n /\ m >= n => m = n
          OBVIOUS
        <4>4. stamp[r] <= window[z].to
          BY <2>1
        <4>. HIDE DEF Ctx, BookInv, MoneyInv, MoneyType, BookType, Actors, TracedInv
        <4>. QED
          BY <4>1, <4>2, <4>3, <4>4
      <3>3. r \in met'[z] \/ stamp'[r] = window'[z].to
        BY <1>0, <1>1, <3>1, <3>2 DEF Quiet, books
      <3>4. z \in StoredZ'
        BY <1>1, <2>1 DEF Quiet, StoredZ, Stored
      <3>. QED
        BY <3>3, <3>4 DEF Traced
    <2>. QED
      BY <1>0, <1>1, <2>1 DEF Quiet, books, StoredZ, Stored
  <1>2. ASSUME UNCHANGED status, StoredZ' = StoredZ, \A z \in StoredZ : window'[z].to = window[z].to
        PROVE  TracedInv'
    BY <1>0, <1>2 DEF Written
  <1>3. ASSUME NEW r \in Requests, Stamps(r) PROVE TracedInv'
    BY <1>2, <1>3 DEF Stamps, Goto, StoredZ, Stored
  <1>4. ASSUME NEW z \in Closings, Opens(z) PROVE TracedInv'
    BY <1>2, <1>4 DEF Opens, Start, StoredZ, Stored
  <1>5. ASSUME NEW z \in Closings, Resolves(z) PROVE TracedInv'
    BY <1>2, <1>5, FromIs DEF Resolves, ResolveFromDate, Goto, StoredZ, Stored
  <1>6. ASSUME NEW z \in Closings, Sums(z) PROVE TracedInv'
    BY <1>2, <1>6 DEF Sums, SumUp, Goto, StoredZ, Stored
  <1>7. ASSUME NEW z \in Closings, Ends(z) PROVE TracedInv'
    <2>1. CASE StoredZ' = StoredZ
      BY <1>2, <1>7, <2>1 DEF Ends, books
    <2>2. CASE StoredZ' # StoredZ
      <3>1. at[z] = "store" /\ StoredZ' = StoredZ \cup {z} /\ z \in ZClosings
        BY <1>7, <2>2 DEF Ends, Goto, StoredZ, Stored, Awaits
      <3>2. UNCHANGED <<status, books>>
        BY <1>7 DEF Ends
      <3>3. ASSUME NEW r \in Rows, Written(r), stamp[r] <= window[z].to PROVE Traced(r)'
        <4>1. CASE Within(z, r)
          <5>1. r \in counted[z] \cup met[z]
            BY <3>1, <3>3, <4>1 DEF FoundInv
          <5>2. r \in counted'[z] \cup met'[z]
            BY <1>0, <3>2, <5>1 DEF books
          <5>. QED
            BY <3>1, <5>2 DEF Traced
        <4>2. CASE stamp[r] <= window[z].from
          <5>1. Traced(r) \/ r \in met[z] \/ window[z].first
            BY <3>1, <3>3, <4>2 DEF BeforeInv
          <5>2. CASE r \in met[z] \/ window[z].first
            BY <1>0, <3>1, <3>2, <4>2, <5>2 DEF books, Traced
          <5>. QED
            BY <1>0, <3>3, <5>1, <5>2
        <4>. QED
          BY <3>3, <4>1, <4>2 DEF Within, Rows
      <3>. QED
        BY <1>0, <3>1, <3>2, <3>3 DEF books, Written
    <2>. QED
      BY <2>1, <2>2
  <1>. QED
    BY <1>1, <1>3, <1>4, <1>5, <1>6, <1>7 DEF BookStep

LEMMA BookKept == MoneyInv /\ BookInv /\ [Next]_vars => BookInv'
  <1>. SUFFICES ASSUME MoneyInv, BookInv, [Next]_vars PROVE BookInv'
    OBVIOUS
  <1>1. Move /\ BookStep
    BY NextMoves, NextBooks DEF MoneyInv, BookInv
  <1>2. Ctx
    BY <1>1, StepLasts DEF Ctx
  <1>3. BookType' /\ KindInv'
    BY <1>1, <1>2, BookTypeKept, RowsKept DEF MoneyInv, BookInv
  <1>. QED
    BY <1>1, <1>2, <1>3, ClockKept, InsideKept, OrderKept, LateKept, FoundKept, BeforeKept,
       TracedKept DEF BookInv

\* Closings, for any sales, adjustments and closings: what was booked before the end of a stored Z
\* closing is in exactly one of them, but for what the milliseconds at the ends and requests that
\* overlapped explain.  A row that is in none was not there yet when the closing looked for it, and
\* then the two were under way together; and of two closings one counts from the end of the other.
THEOREM EverythingCountedOnce == Spec => []CountedOnce
  <1>1. BookInv => CountedOnce
    <2>1. SUFFICES ASSUME BookInv, NEW z \in StoredZ
                   PROVE  /\ \A y \in StoredZ :
                               y # z /\ counted[y] \cap counted[z] # {} => z \in met[y]
                          /\ \A r \in Rows : Written(r) /\ stamp[r] <= window[z].to => Traced(r)
      BY DEF CountedOnce, Rows, Written, Traced
    <2>2. ASSUME NEW y \in StoredZ, y # z, NEW r \in counted[y] \cap counted[z]
          PROVE  z \in met[y]
      <3>1. /\ z \in Closings /\ y \in Closings /\ at[z] = "done" /\ at[y] = "done"
            /\ z \in ZClosings /\ y \in ZClosings
        BY Disjoint DEF StoredZ, Stored
      <3>2. Within(y, r) /\ Within(z, r) /\ r \in Requests
        BY <2>1, <2>2, <3>1, Disjoint DEF BookInv, InsideInv, BookType
      <3>3. /\ stamp[r] \in Nat
            /\ window[y].from \in Nat /\ window[y].to \in Nat
            /\ window[z].from \in Nat /\ window[z].to \in Nat
        BY <2>1, <3>1, <3>2 DEF BookInv, BookType, Window, Clock
      <3>4. ~ (window[y].to <= window[z].from) /\ ~ (window[z].to <= window[y].from)
        BY <3>2, <3>3 DEF Within
      <3>. QED
        BY <2>1, <2>2, <3>1, <3>4 DEF BookInv, OrderInv
    <2>. QED
      BY <2>1, <2>2 DEF BookInv, TracedInv
  <1>2. Init => MoneyInv /\ BookInv
    BY MoneyInit, BookInit
  <1>3. (MoneyInv /\ BookInv) /\ [Next]_vars => (MoneyInv /\ BookInv)'
    BY MoneyKept, BookKept
  <1>. QED
    BY <1>1, <1>2, <1>3, PTL DEF Spec


-----------------------------------------------------------------------------
(* The cached latest sale.                                                   *)

Past == {"commit", "cache", "reprint"} \cup Late

\* Adjustments are not cached, and a reader has read only what it is about to cache or has cached.
RoleInv ==
  /\ \A a \in Adjustments : at[a] \in {"idle", "insert", "commit", "done", "failed"}
  /\ \A q \in Readers :
       /\ at[q] \in {"idle", "look", "cache", "reprint", "done", "failed"}
       /\ target[q] # NoSale => at[q] \in {"cache", "reprint", "done", "failed"}

\* Who has its time and is still under way has met every request with a later time.
OverlapInv ==
  \A l, r \in Booking : at[l] \in Past /\ stamp[r] > stamp[l] => l \in met[r]

\* A reader that is about to cache a sale has met the requests of all newer ones.
ReaderInv ==
  \A q \in Readers : at[q] = "cache" =>
    /\ target[q] \in Booking /\ Written(target[q])
    /\ \A r \in Booking : Written(r) /\ stamp[r] > stamp[target[q]] => q \in met[r]

\* A sale newer than the cached one is still to be cached, or there is a cause.
Stale(r) ==
  \/ at[r] = "failed"
  \/ latest \in met[r]
  \/ \E q \in Readers \cap met[r] : target[q] = latest
LatestInv ==
  latest # NoSale =>
    /\ latest \in Booking /\ Written(latest)
    /\ \A r \in Booking : Written(r) /\ stamp[r] > stamp[latest] =>
         at[r] \in Late \cup {"cache"} \/ Stale(r)

CacheInv == RoleInv /\ OverlapInv /\ ReaderInv /\ LatestInv

\* What a step does to the cache.
Caches(r) ==
  /\ r \in Requests /\ at[r] = "cache"
  /\ latest' = IF r \in Readers THEN target[r] ELSE r
  /\ UNCHANGED <<met, status, target, stamp>>
  /\ \A a \in Actors \ {r} : at'[a] = at[a]
  /\ at'[r] # "cache"
Looks(q) ==
  /\ q \in Readers /\ at[q] = "look"
  /\ \E r \in Newest : target' = [target EXCEPT ![q] = r]
  /\ UNCHANGED <<latest, met, status, stamp>>
  /\ \A a \in Actors \ {q} : at'[a] = at[a]
Keeps ==
  /\ latest' \in {latest, NoSale}
  /\ \A r \in Booking : at[r] = "cache" => at'[r] \in {"cache", "failed"}
  /\ \A q \in Readers : target'[q] = target[q] /\ (at'[q] = "cache" => at[q] = "cache")

LEMMA CacheInit == Init => CacheInv
  <1>. SUFFICES ASSUME SaleInit PROVE CacheInv
    BY DEF Init
  <1>. QED
    BY DEF SaleInit, CacheInv, RoleInv, OverlapInv, ReaderInv, LatestInv, Past, Late, Requests,
           Booking, Actors

LEMMA RequestsCache ==
  ASSUME MoneyInv, RoleInv, NEW r \in Requests,
         BeginRequest(r) \/ Work(r) \/ SendReceiptEmail(r) \/ RequestFails(r)
  PROVE  Keeps \/ Caches(r) \/ Looks(r)
  <1>. USE PipelineAssumption DEF MoneyInv, MoneyType, Actors, Requests, Booking, Sellers
  <1>1. CASE CacheLatestSale(r)
    BY <1>1 DEF CacheLatestSale, Goto, Caches
  <1>2. CASE LookUp(r)
    <2>1. r \in Readers
      BY <1>2 DEF LookUp, StageInv
    <2>2. CASE \E o \in Newest : target' = [target EXCEPT ![r] = o] /\ Goto(r, "cache")
      BY <1>2, <2>1, <2>2 DEF LookUp, Goto, Looks
    <2>3. CASE Goto(r, "failed") /\ UNCHANGED target
      BY <1>2, <2>1, <2>3 DEF LookUp, Goto, Keeps
    <2>. QED
      BY <1>2, <2>2, <2>3 DEF LookUp
  <1>3. CASE /\ at[r] # "cache" /\ UNCHANGED latest
             /\ \E s \in Steps : (Start(r, s) \/ Goto(r, s)) /\ (s = "cache" => r \notin Readers)
             /\ r \in Refunds \/ UNCHANGED target
             /\ \A q \in Readers : target'[q] = target[q]
    BY <1>3 DEF Keeps, Start, Goto
  <1>. USE DEF Steps, Awaits
  <1>4. CASE BeginRequest(r)
    BY <1>3, <1>4 DEF BeginRequest, BeginPayment, BeginSimulation, BeginRefund, BeginAdjustment,
                      GetLatestSale, AfterChecks, Start
  <1>5. CASE CheckOriginal(r) \/ CallTss(r) \/ CallLost(r) \/ Insert(r)
    BY <1>3, <1>5 DEF CheckOriginal, CallTss, CallLost, Insert, AfterChecks
  <1>6. CASE CommitSale(r) \/ CommitRefund(r) \/ CommitAdjustment(r)
    BY <1>3, <1>6 DEF CommitSale, CommitRefund, CommitAdjustment
  <1>7. CASE PrintReceipt(r) \/ SendReceiptEmail(r) \/ FindPreorder(r)
    BY <1>3, <1>7 DEF PrintReceipt, SendReceiptEmail, FindPreorder
  <1>8. CASE SaleCompleted(r) \/ LinkPreorder(r) \/ ReadPreorder(r) \/ TransitionStatus(r)
    <2>1. r \notin Readers
      BY <1>8 DEF SaleCompleted, LinkPreorder, ReadPreorder, TransitionStatus, RoleInv
    <2>. QED
      BY <1>3, <1>8, <2>1 DEF SaleCompleted, LinkPreorder, ReadPreorder, TransitionStatus
  <1>9. CASE PrintRefund(r)
    BY <1>3, <1>9 DEF PrintRefund
  <1>10. CASE RequestFails(r)
    BY <1>10 DEF RequestFails, Goto, Keeps
  <1>. QED
    BY <1>1, <1>2, <1>4, <1>5, <1>6, <1>7, <1>8, <1>9, <1>10 DEF Work

CacheStep == Keeps \/ \E r \in Requests : Caches(r) \/ Looks(r)

LEMMA NextCaches ==
  ASSUME MoneyInv, RoleInv, [Next]_vars
  PROVE  CacheStep
  <1>. USE Disjoint DEF CacheStep
  <1>1. CASE UNCHANGED saleVars
    BY <1>1 DEF saleVars, Keeps
  <1>2. CASE UNCHANGED <<saleRest, target, latest>> /\ \E z \in Closings : \E s \in Steps : Start(z, s) \/ Goto(z, s)
    BY <1>2 DEF Keeps, Start, Goto, MoneyInv, MoneyType, Actors, Requests, Rows
  <1>3. CASE Begins
    <2>1. CASE \E r \in Requests \cap cast.actors : BeginRequest(r)
      BY <2>1, RequestsCache
    <2>2. CASE (\E z \in Closings \cap cast.actors : BeginClosing(z)) /\ UNCHANGED saleRest
      BY <1>2, <2>2 DEF BeginClosing, saleRest, Steps, Awaits
    <2>. QED
      BY <1>1, <1>3, <2>1, <2>2 DEF Begins
  <1>4. CASE SaleSteps
    BY <1>4, RequestsCache DEF SaleSteps
  <1>5. CASE LatestExpires
    BY <1>5 DEF LatestExpires, Keeps
  <1>6. CASE ClosingSteps
    BY <1>2, <1>6 DEF ClosingSteps, ClosingWork, ResolveFromDate, SumUp, StoreClosing, ClosingFails,
                      saleRest, Steps, Awaits
  <1>. QED
    BY <1>1, <1>3, <1>4, <1>5, <1>6 DEF Next, vars

\* Requests that will cache their sale, or that have failed, come no other way.
LEMMA RolesKept ==
  ASSUME MoneyInv, RoleInv, Move, CacheStep
  PROVE  RoleInv'
  <1>. USE PipelineAssumption
       DEF MoneyInv, MoneyType, Actors, Requests, Booking, Sellers, RoleInv
  <1>1. CASE UNCHANGED money
    BY <1>1 DEF money
  <1>2. CASE Begin
    BY <1>2 DEF Begin, EnterSale, EnterPlain, EnterRefused, EnterRefund, EnterReader, EnterClosing,
                Start, sums
  <1>3. ASSUME NEW r \in Actors, Check(r) \/ Sign(r) \/ Row(r) PROVE RoleInv'
    BY <1>3 DEF Check, Sign, Row, Goto, sums, AfterChecks, StageInv
  <1>4. ASSUME NEW r \in Actors, Sell(r) \/ Return(r) \/ Adjust(r) PROVE RoleInv'
    BY <1>4 DEF Sell, Return, Adjust, Goto
  <1>5. ASSUME NEW r \in Actors, Onward(r) PROVE RoleInv'
    BY <1>5 DEF Onward, Goto, Late
  <1>6. ASSUME NEW r \in Actors, Look(r) PROVE RoleInv'
    BY <1>6 DEF Look, Goto, StageInv
  <1>7. ASSUME NEW r \in Actors, Finish(r) \/ Fail(r) \/ Close(r) PROVE RoleInv'
    BY <1>7 DEF Finish, Fail, Close, Goto, Awaits
  <1>. QED
    BY <1>1, <1>2, <1>3, <1>4, <1>5, <1>6, <1>7 DEF Move, Go

\* A request is past its insert only by its insert.
LEMMA PastBegins ==
  ASSUME MoneyInv, Move, NEW l \in Booking, at'[l] \in Past, at[l] \notin Past
  PROVE  at[l] = "insert" /\ at'[l] = "commit"
  <1>. USE PipelineAssumption
       DEF MoneyInv, MoneyType, Actors, Requests, Booking, Sellers, Past, Late
  <1>1. CASE UNCHANGED money
    BY <1>1 DEF money
  <1>2. CASE Begin
    BY <1>2 DEF Begin, EnterSale, EnterPlain, EnterRefused, EnterRefund, EnterReader, EnterClosing,
                Start
  <1>3. ASSUME NEW r \in Actors, Check(r) \/ Sign(r) \/ Row(r)
        PROVE  at[l] = "insert" /\ at'[l] = "commit"
    BY <1>3 DEF Check, Sign, Row, Goto, AfterChecks
  <1>4. ASSUME NEW r \in Actors, Look(r) PROVE FALSE
    BY <1>4 DEF Look, Goto, StageInv
  <1>5. ASSUME NEW r \in Actors,
               \/ Sell(r) \/ Return(r) \/ Adjust(r)
               \/ Onward(r) \/ Finish(r) \/ Fail(r) \/ Close(r)
        PROVE  FALSE
    BY <1>5 DEF Sell, Return, Adjust, Onward, Finish, Fail, Close, Goto, Steps
  <1>. QED
    BY <1>1, <1>2, <1>3, <1>4, <1>5 DEF Move, Go

\* Where a request goes that has committed or is yet to cache its sale.
LEMMA PendingGoes ==
  ASSUME MoneyInv, Move, NEW r \in Booking
  PROVE  /\ at[r] \in Late => at'[r] \in Late \cup {"cache", "failed"}
         /\ at[r] = "failed" => at'[r] = "failed"
         /\ at[r] = "commit" /\ status[r] = "none" /\ status'[r] # "none" =>
              at'[r] \in {"print", "cache"}
  <1>. USE PipelineAssumption
       DEF MoneyInv, MoneyType, Actors, Requests, Booking, Sellers, Late
  <1>1. CASE UNCHANGED money
    BY <1>1 DEF money
  <1>2. CASE Begin
    BY <1>2 DEF Begin, EnterSale, EnterPlain, EnterRefused, EnterRefund, EnterReader, EnterClosing,
                Start, sums
  <1>3. ASSUME NEW a \in Actors, Go, Sell(a) \/ Adjust(a) PROVE
          /\ at[r] \in Late => at'[r] \in Late \cup {"cache", "failed"}
          /\ at[r] = "failed" => at'[r] = "failed"
          /\ at[r] = "commit" /\ status[r] = "none" /\ status'[r] # "none" =>
              at'[r] \in {"print", "cache"}
    BY <1>3 DEF Sell, Adjust, Goto
  <1>4. ASSUME NEW a \in Actors, Return(a) PROVE
          /\ at[r] \in Late => at'[r] \in Late \cup {"cache", "failed"}
          /\ at[r] = "failed" => at'[r] = "failed"
          /\ at[r] = "commit" /\ status[r] = "none" /\ status'[r] # "none" =>
              at'[r] \in {"print", "cache"}
    <2>1. r # a => (status[r] = "none" => status'[r] = "none")
      BY <1>4, ReturnsAnother DEF Return, TargetInv, Taking
    <2>. QED
      BY <1>4, <2>1 DEF Return, Goto
  <1>5. ASSUME NEW a \in Actors,
               \/ Check(a) \/ Sign(a) \/ Row(a) \/ Onward(a) \/ Look(a) \/ Finish(a) \/ Fail(a)
               \/ Close(a) PROVE
          /\ at[r] \in Late => at'[r] \in Late \cup {"cache", "failed"}
          /\ at[r] = "failed" => at'[r] = "failed"
          /\ at[r] = "commit" /\ status[r] = "none" /\ status'[r] # "none" =>
              at'[r] \in {"print", "cache"}
    BY <1>5 DEF Check, Sign, Row, Onward, Look, Finish, Fail, Close, Goto, sums, Awaits
  <1>. QED
    BY <1>1, <1>2, <1>3, <1>4, <1>5 DEF Move, Go

LEMMA OverlapKept ==
  ASSUME Ctx, OverlapInv, Move, BookStep
  PROVE  OverlapInv'
  <1>. SUFFICES ASSUME NEW l \in Booking, NEW r \in Booking, at'[l] \in Past, stamp'[r] > stamp'[l]
                PROVE  l \in met'[r]
    BY DEF OverlapInv
  <1>1. /\ l \in Rows /\ r \in Rows /\ l \in Requests /\ r \in Requests
        /\ l \in Actors /\ r \in Actors /\ l \notin Closings /\ r \notin Closings
    BY Disjoint DEF Rows, Actors
  <1>2. /\ met[r] \subseteq met'[r]
        /\ stamp \in [Requests -> Clock] /\ now \in Clock
        /\ stamp[l] <= now /\ stamp[r] <= now
    BY <1>1 DEF Ctx, Lasts, BookInv, BookType, ClockInv
  <1>3. ASSUME NEW a \in Requests, Stamps(a) PROVE l \in met'[r]
    <2>1. CASE a = r
      <3>1. at[l] \in Past /\ l # r
        BY <1>1, <1>2, <1>3, <2>1 DEF Stamps, Goto, Ctx, MoneyInv, MoneyType, Clock
      <3>2. l \in met[r]
        BY <1>1, <1>3, <2>1, <3>1 DEF Stamps, Ctx, MoneyInv, MetInv, Busy, Awaits, Past, Late
      <3>. QED
        BY <1>2, <3>2
    <2>2. CASE a = l /\ a # r
      BY <1>1, <1>2, <1>3, <2>2 DEF Stamps, Clock
    <2>3. CASE a # l /\ a # r
      BY <1>1, <1>2, <1>3, <2>3 DEF Stamps, Goto, Ctx, MoneyInv, MoneyType, OverlapInv
    <2>. QED
      BY <2>1, <2>2, <2>3
  <1>4. ASSUME UNCHANGED stamp, at'[l] = "commit" => at[l] = "commit" PROVE l \in met'[r]
    <2>1. at[l] \in Past
      BY <1>4, PastBegins DEF Ctx, Past
    <2>. QED
      BY <1>2, <1>4, <2>1 DEF OverlapInv
  <1>5. CASE Quiet
    BY <1>1, <1>4, <1>5 DEF Quiet, books
  <1>6. ASSUME NEW z \in Closings, Opens(z) \/ Resolves(z) \/ Sums(z) \/ Ends(z) PROVE l \in met'[r]
    <2>1. UNCHANGED stamp /\ at'[l] = at[l]
      BY <1>1, <1>6 DEF Opens, Start, Resolves, ResolveFromDate, Sums, SumUp, Ends, Goto, books,
                        Ctx, MoneyInv, MoneyType
    <2>. QED
      BY <1>4, <2>1
  <1>. QED
    BY <1>3, <1>5, <1>6 DEF BookStep

\* A request that commits meanwhile has met the reader.
LEMMA ReadersKept ==
  ASSUME Ctx, CacheInv, CacheStep, Move
  PROVE  ReaderInv'
  <1>. SUFFICES ASSUME NEW q \in Readers, at'[q] = "cache"
                PROVE  /\ target'[q] \in Booking /\ Written(target[q])'
                       /\ \A r \in Booking :
                            Written(r)' /\ stamp'[r] > stamp'[target'[q]] => q \in met'[r]
    BY DEF ReaderInv
  <1>1. q \in Requests /\ q \in Actors
    BY DEF Requests, Actors
  <1>2. /\ \A r \in Booking : r \in Rows /\ r \in Actors /\ r # q /\ met[r] \subseteq met'[r]
        /\ \A r \in Booking : Written(r) => Written(r)' /\ stamp'[r] = stamp[r]
        /\ \A r \in Booking : Written(r)' /\ ~Written(r) => at[r] = "commit" /\ stamp'[r] = stamp[r]
    BY PipelineAssumption, Disjoint DEF Ctx, Lasts, Rows, Booking, Sellers, Requests, Actors
  <1>3. ASSUME at[q] = "cache", target'[q] = target[q]
        PROVE  /\ target'[q] \in Booking /\ Written(target[q])'
               /\ \A r \in Booking :
                    Written(r)' /\ stamp'[r] > stamp'[target'[q]] => q \in met'[r]
    <2>1. /\ target[q] \in Booking /\ Written(target[q])
          /\ \A r \in Booking : Written(r) /\ stamp[r] > stamp[target[q]] => q \in met[r]
      BY <1>3 DEF CacheInv, ReaderInv
    <2>2. ASSUME NEW r \in Booking, at[r] = "commit" PROVE q \in met[r]
      BY <1>1, <1>2, <1>3, <2>2 DEF Ctx, MoneyInv, MetInv, Busy, Awaits
    <2>. QED
      BY <1>2, <1>3, <2>1, <2>2
  <1>4. CASE Keeps
    BY <1>3, <1>4 DEF Keeps
  <1>5. ASSUME NEW r \in Requests, Caches(r) PROVE at[q] = "cache" /\ target'[q] = target[q]
    BY <1>1, <1>5 DEF Caches, Ctx, MoneyInv, MoneyType
  <1>6. ASSUME NEW p \in Readers, Looks(p), p # q PROVE at[q] = "cache" /\ target'[q] = target[q]
    BY <1>1, <1>6 DEF Looks, Ctx, MoneyInv, MoneyType
  <1>7. CASE Looks(q)
    <2>1. PICK l \in Newest : target' = [target EXCEPT ![q] = l]
      BY <1>7 DEF Looks
    <2>2. /\ target'[q] = l /\ l \in Booking /\ Booked(l)
          /\ \A r \in Booking : Booked(r) => stamp[r] <= stamp[l]
      BY <1>1, <2>1 DEF Newest, Ctx, MoneyInv, MoneyType
    <2>3. UNCHANGED <<status, stamp>> /\ stamp \in [Requests -> Clock]
      BY <1>7 DEF Looks, Ctx, BookInv, BookType
    <2>4. \A r \in Booking : Written(r) => Booked(r)
      BY DEF Ctx, BookInv, KindInv, Written, Booked, SaleStatus
    <2>5. \A r \in Booking : stamp[r] \in Nat
      BY <2>3 DEF Clock, Requests
    <2>7. Written(l)
      BY <2>2 DEF Written, Booked, SaleStatus
    <2>. QED
      BY <2>2, <2>3, <2>4, <2>5, <2>7 DEF Written
  <1>. QED
    BY <1>3, <1>4, <1>5, <1>6, <1>7 DEF CacheStep, Looks

LEMMA LatestKept ==
  ASSUME Ctx, CacheInv, CacheStep, Move
  PROVE  LatestInv'
  <1>. SUFFICES ASSUME latest' # NoSale
                PROVE  /\ latest' \in Booking /\ Written(latest)'
                       /\ \A r \in Booking : Written(r)' /\ stamp'[r] > stamp'[latest'] =>
                            at'[r] \in Late \cup {"cache"} \/ Stale(r)'
    BY DEF LatestInv
  <1>2. /\ \A r \in Booking : r \in Rows /\ r \in Actors /\ r \in Requests /\ met[r] \subseteq met'[r]
        /\ \A r \in Booking : Written(r) => Written(r)' /\ stamp'[r] = stamp[r]
        /\ \A r \in Booking : Written(r)' /\ ~Written(r) => at[r] = "commit" /\ stamp'[r] = stamp[r]
    BY Disjoint DEF Ctx, Lasts, Rows, Requests, Actors
  <1>3. \A r \in Booking : Written(r)' /\ ~Written(r) => at'[r] \in {"print", "cache"}
    BY <1>2, PendingGoes DEF Written, Ctx
  <1>4. ASSUME latest' = latest,
               \A q \in Readers : target[q] = latest => target'[q] = latest,
               \A r \in Booking : at[r] = "cache" => at'[r] \in {"cache", "failed"}
        PROVE  /\ latest' \in Booking /\ Written(latest)'
               /\ \A r \in Booking : Written(r)' /\ stamp'[r] > stamp'[latest'] =>
                    at'[r] \in Late \cup {"cache"} \/ Stale(r)'
    <2>1. /\ latest \in Booking /\ Written(latest)
          /\ \A r \in Booking : Written(r) /\ stamp[r] > stamp[latest] =>
               at[r] \in Late \cup {"cache"} \/ Stale(r)
      BY <1>4 DEF CacheInv, LatestInv
    <2>2. ASSUME NEW r \in Booking, Written(r), stamp[r] > stamp[latest]
          PROVE  at'[r] \in Late \cup {"cache"} \/ Stale(r)'
      <3>1. CASE at[r] \in Late \cup {"cache"}
        BY <1>4, <3>1, PendingGoes DEF Ctx, Stale
      <3>2. CASE at[r] = "failed"
        BY <3>2, PendingGoes DEF Ctx, Stale
      <3>3. CASE latest \in met[r] \/ \E q \in Readers \cap met[r] : target[q] = latest
        BY <1>2, <1>4, <3>3 DEF Stale
      <3>. QED
        BY <2>1, <2>2, <3>1, <3>2, <3>3 DEF Stale
    <2>. QED
      BY <1>2, <1>3, <1>4, <2>1, <2>2 DEF Late
  <1>5. CASE Keeps
    BY <1>4, <1>5 DEF Keeps
  <1>6. ASSUME NEW q \in Readers, Looks(q) PROVE LatestInv'
    <2>1. target[q] = NoSale /\ target \in [Requests -> Booking \cup {NoSale}] /\ latest' = latest
      BY <1>6 DEF Looks, CacheInv, RoleInv, Ctx, MoneyInv, MoneyType
    <2>2. \A p \in Readers : target[p] = latest => target'[p] = latest
      BY <1>6, <2>1 DEF Looks, Requests
    <2>3. \A r \in Booking : at'[r] = at[r]
      BY <1>2, <1>6, PipelineAssumption DEF Looks, Booking, Sellers
    <2>. QED
      BY <1>4, <2>1, <2>2, <2>3 DEF LatestInv
  <1>7. ASSUME NEW c \in Requests, Caches(c) PROVE LatestInv'
    <2>1. UNCHANGED <<met, status, target, stamp>>
      BY <1>7 DEF Caches
    <2>2. CASE c \in Readers
      <3>1. /\ latest' = target[c] /\ target[c] \in Booking /\ Written(target[c])
            /\ \A r \in Booking : Written(r) /\ stamp[r] > stamp[target[c]] => c \in met[r]
        BY <1>7, <2>2 DEF Caches, CacheInv, ReaderInv
      <3>. QED
        BY <2>1, <2>2, <3>1 DEF LatestInv, Written, Stale
    <2>3. CASE c \notin Readers
      <3>1. c \in Booking /\ latest' = c
        BY <1>7, <2>3 DEF Caches, CacheInv, RoleInv, Requests
      <3>2. Written(c)
        BY <1>7, <3>1 DEF Caches, Ctx, MoneyInv, StageInv, Written
      <3>3. \A r \in Booking : stamp[r] > stamp[c] => c \in met[r]
        BY <1>7, <3>1 DEF Caches, CacheInv, OverlapInv, Past
      <3>. QED
        BY <2>1, <3>1, <3>2, <3>3 DEF LatestInv, Written, Stale
    <2>. QED
      BY <2>2, <2>3
  <1>. QED
    BY <1>5, <1>6, <1>7 DEF CacheStep, LatestInv, Looks

LEMMA CacheKept == MoneyInv /\ BookInv /\ CacheInv /\ [Next]_vars => CacheInv'
  <1>. SUFFICES ASSUME MoneyInv, BookInv, CacheInv, [Next]_vars PROVE CacheInv'
    OBVIOUS
  <1>1. Move /\ BookStep /\ CacheStep
    BY NextMoves, NextBooks, NextCaches DEF MoneyInv, BookInv, CacheInv
  <1>2. Ctx
    BY <1>1, StepLasts DEF Ctx
  <1>. QED
    BY <1>1, <1>2, RolesKept, OverlapKept, ReadersKept, LatestKept DEF CacheInv, Ctx

\* The cached latest sale, for any requests and readers: when nobody is at work it is the newest one,
\* but for the listed causes.  A newer sale would have been cached after it, by a request that had
\* its time later and did not meet the older one's.
THEOREM LatestSaleExplained == Spec => []LatestSaleHasCause
  <1>1. MoneyInv /\ CacheInv => LatestSaleHasCause
    <2>1. SUFFICES ASSUME MoneyInv, CacheInv, latest # NoSale, Busy = {},
                          NEW r \in Booking, Booked(r), stamp[r] > stamp[latest]
                   PROVE  Stale(r)
      BY DEF LatestSaleHasCause, Stale
    <2>2. at[r] \notin Late \cup {"cache"}
      BY <2>1 DEF Busy, Awaits, Late, Requests, Actors
    <2>. QED
      BY <2>1, <2>2 DEF CacheInv, LatestInv, Written, Booked, SaleStatus
  <1>2. Init => MoneyInv /\ BookInv /\ CacheInv
    BY MoneyInit, BookInit, CacheInit
  <1>3. (MoneyInv /\ BookInv /\ CacheInv) /\ [Next]_vars => (MoneyInv /\ BookInv /\ CacheInv)'
    BY MoneyKept, BookKept, CacheKept
  <1>. QED
    BY <1>1, <1>2, <1>3, PTL DEF Spec

-----------------------------------------------------------------------------
(* The preorders.                                                            *)

OrderType ==
  /\ preorder \in [Orders -> Preorder]
  /\ papers \in [Orders -> SUBSET Paper]
  /\ seen \in [Payments -> Preorder]
  /\ wolt \in Answer
  /\ changedAt \in [Orders -> Clock]
  /\ cursor \in Clock
  /\ pass \in [Passes -> [at : PassSteps, since : Clock, answer : Answer]]

\* Only a payment goes on after its receipt, and with a preorder only if its order is known.
PayInv ==
  \A r \in Requests :
    /\ at[r] \in Late => r \in Payments
    /\ at[r] \in {"link", "read", "move"} \/ (at[r] = "event" /\ seen[r].status # "none") =>
         Reference[r] \in Orders

\* An order with a receipt is picked up or was reopened.  Two receipts are of two payments that have
\* met, and so has a payment that is about to write one and the payments that have written one.
Settled == {"cache", "reprint", "done", "failed"}
PaperInv ==
  \A o \in Orders :
    /\ papers[o] # {} => preorder[o].status = "PICKED_UP" \/ o \in reopened
    /\ \A d \in papers[o] : d.sale \in Payments /\ at[d.sale] \in Settled
    /\ \A d, e \in papers[o] : d # e => d.sale # e.sale /\ (e.sale \in met[d.sale] \/ o \in reopened)
    /\ \A b \in Payments :
         at[b] = "move" /\ Reference[b] = o /\ seen[b].status # "PICKED_UP" /\ o \notin reopened =>
           \A d \in papers[o] : d.sale \in met[b] /\ b \in met[d.sale]

\* The shop shows what Wolt says, or has handed the order over.
Shown(o) ==
  \/ preorder[o].status = MapWoltStatus(wolt[o])
  \/ preorder[o].status = "PICKED_UP" /\ papers[o] # {}

\* A pass between its fetch and its end holds the last change of an order, or has brought it, or had
\* not to ask for it.
Ready(p) ==
  /\ pass[p].since <= cursor
  /\ pass[p].at \in {"idle", "fetch"} => pass[p].answer = NoAnswer
Holds(p, o) ==
  /\ pass[p].answer[o] \in {Unlisted, wolt[o]}
  /\ wolt[o] # Unlisted =>
       changedAt[o] < pass[p].since \/ pass[p].answer[o] = wolt[o] \/ Shown(o)
Passed(o) == wolt[o] # Unlisted /\ cursor > changedAt[o] => Shown(o)
PassInv ==
  /\ cursor <= now /\ \A o \in Orders : changedAt[o] <= now
  /\ \A p \in Passes : Ready(p)
  /\ \A p \in InFlight : \A o \in Orders \ unseen : Holds(p, o)
  /\ \A o \in Orders \ unseen : Passed(o)

DeskInv == OrderType /\ PayInv /\ PaperInv /\ PassInv

\* What a step does to the preorders.
shop == <<wolt, changedAt, preorder, papers, cursor, pass, unseen, reopened>>
Aside ==
  /\ UNCHANGED <<shop, seen>> /\ now <= now' /\ now' \in Clock
  /\ \A r \in Requests :
       /\ at'[r] \in {"event", "link", "read", "move"} => at'[r] = at[r]
       /\ at'[r] \in Late => r \in Payments \/ at[r] \in Late
Synchronises ==
  /\ UNCHANGED <<at, met, seen, now, papers>>
  /\ \/ \E p \in Passes : BeginPass(p) \/ SyncOrders(p)
     \/ \E o \in Orders : WoltChanges(o)
DeskStep ==
  \/ Aside
  \/ Synchronises
  \/ \E r \in Requests : FindPreorder(r) \/ SaleCompleted(r) \/ LinkPreorder(r) \/ ReadPreorder(r)
                         \/ TransitionStatus(r)

LEMMA RequestsAside ==
  ASSUME MoneyInv, BookType, NEW r \in Requests,
         BeginRequest(r) \/ Work(r) \/ SendReceiptEmail(r) \/ RequestFails(r)
  PROVE  DeskStep
  <1>. USE PipelineAssumption, Disjoint
       DEF MoneyInv, MoneyType, Actors, Requests, Booking, Sellers, deskVars, shop, DeskStep
  <1>1. CASE /\ UNCHANGED <<deskVars, seen>>
             /\ \E s \in Steps : /\ Start(r, s) \/ Goto(r, s)
                                 /\ s \notin {"event", "link", "read", "move"} \/ s = at[r]
                                 /\ s \in Late => r \in Payments \/ at[r] \in Late
    <2>1. now' = now /\ now \in Clock /\ now <= now
      BY <1>1 DEF BookType, Clock
    <2>. QED
      BY <1>1, <2>1 DEF Aside, Start, Goto
  <1>2. CASE FindPreorder(r) \/ SaleCompleted(r) \/ LinkPreorder(r) \/ ReadPreorder(r)
             \/ TransitionStatus(r)
    BY <1>2
  <1>. USE DEF Steps, Awaits, Late
  <1>3. CASE BeginRequest(r)
    BY <1>1, <1>3 DEF BeginRequest, BeginPayment, BeginSimulation, BeginRefund, BeginAdjustment,
                      GetLatestSale, AfterChecks
  <1>4. CASE CheckOriginal(r) \/ CallTss(r) \/ CallLost(r) \/ Insert(r)
    BY <1>1, <1>4 DEF CheckOriginal, CallTss, CallLost, Insert, AfterChecks
  <1>5. CASE CommitSale(r) \/ CommitRefund(r) \/ CommitAdjustment(r)
    BY <1>1, <1>5 DEF CommitSale, CommitRefund, CommitAdjustment
  <1>6. CASE PrintReceipt(r) \/ SendReceiptEmail(r)
    BY <1>1, <1>6 DEF PrintReceipt, SendReceiptEmail
  <1>7. CASE LookUp(r)
    BY <1>1, <1>7 DEF LookUp
  <1>8. CASE CacheLatestSale(r) \/ PrintRefund(r) \/ RequestFails(r)
    BY <1>1, <1>8 DEF CacheLatestSale, PrintRefund, RequestFails
  <1>. QED
    BY <1>2, <1>3, <1>4, <1>5, <1>6, <1>7, <1>8 DEF Work

LEMMA NextDesk ==
  ASSUME MoneyInv, BookType, [Next]_vars
  PROVE  DeskStep
  <1>. USE Disjoint DEF DeskStep
  <1>1. CASE UNCHANGED <<shop, seen, at>> /\ now' \in Clock /\ now <= now'
    BY <1>1 DEF Aside, shop
  <1>2. CASE /\ UNCHANGED <<deskVars, seen>>
             /\ \E z \in Closings : \E s \in Steps : Start(z, s) \/ Goto(z, s)
    <2>1. \A r \in Requests : at'[r] = at[r]
      BY <1>2 DEF Start, Goto, MoneyInv, MoneyType, Actors
    <2>. QED
      BY <1>2, <2>1 DEF deskVars, shop, Aside, BookType, Clock
  <1>3. CASE UNCHANGED <<deskVars, seen, at>>
    BY <1>1, <1>3 DEF deskVars, shop, BookType, Clock
  <1>4. CASE Tick /\ UNCHANGED <<saleVars, closingVars>>
    BY <1>1, <1>4, DeskAssumption DEF Tick, saleVars, shop, BookType, Clock
  <1>5. CASE Begins
    <2>1. CASE \E r \in Requests \cap cast.actors : BeginRequest(r)
      BY <2>1, RequestsAside
    <2>2. CASE /\ \E z \in Closings \cap cast.actors : BeginClosing(z)
               /\ UNCHANGED <<deskVars, saleRest, drawer>>
      BY <1>2, <2>2 DEF BeginClosing, saleRest, Steps, Awaits
    <2>3. CASE /\ \/ \E p \in Passes \cap cast.actors : BeginPass(p)
                  \/ Passes \cap cast.actors # {} /\ \E o \in Orders : WoltChanges(o)
               /\ UNCHANGED <<saleVars, closingVars>>
      BY <2>3 DEF BeginPass, WoltChanges, saleVars, Synchronises
    <2>. QED
      BY <1>5, <2>1, <2>2, <2>3 DEF Begins
  <1>6. CASE (\E p \in Passes : SyncOrders(p)) /\ UNCHANGED <<saleVars, closingVars>>
    BY <1>6 DEF SyncOrders, Fetch, FetchFails, UpsertFromWolt, SaveCursor, PassFails, saleVars,
                Synchronises
  <1>7. CASE SaleSteps
    BY <1>7, RequestsAside DEF SaleSteps
  <1>8. CASE LatestExpires
    BY <1>3, <1>8 DEF LatestExpires
  <1>9. CASE ClosingSteps
    BY <1>2, <1>9 DEF ClosingSteps, ClosingWork, ResolveFromDate, SumUp, StoreClosing, ClosingFails,
                      saleRest, Steps, Awaits
  <1>10. CASE UNCHANGED vars
    BY <1>3, <1>10 DEF vars, saleVars
  <1>. QED
    BY <1>4, <1>5, <1>6, <1>7, <1>8, <1>9, <1>10 DEF Next

LEMMA ShopInit == Init => DeskInv
  <1>. SUFFICES ASSUME DeskInit, SaleInit PROVE DeskInv
    BY DEF Init
  <1>. USE DeskAssumption DEF DeskInit, Clock
  <1>1. OrderType
    BY DEF SaleInit, OrderType, Preorder, PreorderStatus, NoPreorder, Answer, RawStatus, NoAnswer,
           PassSteps
  <1>2. PayInv /\ PaperInv
    BY DEF SaleInit, PayInv, PaperInv, Late, Requests, Actors
  <1>3. /\ InFlight = {} /\ cursor \in {0, 1}
        /\ \A o \in Orders : wolt[o] # Unlisted => preorder[o].status = MapWoltStatus(wolt[o])
    BY DEF InFlight, MapWoltStatus
  <1>4. PassInv
    BY <1>3 DEF PassInv, Ready, Passed, Shown
  <1>. QED
    BY <1>1, <1>2, <1>4 DEF DeskInv

\* What Wolt says has a status at the shop.
LEMMA Mapped == \A s : MapWoltStatus(s) \in PreorderStatus
  BY DEF MapWoltStatus, PreorderStatus

LEMMA AskedIs ==
  ASSUME OrderType, NEW t
  PROVE  ChangedSince(t) \in Answer /\ NoAnswer \in Answer
  BY DEF OrderType, ChangedSince, NoAnswer, Answer

LEMMA OrderTypeKept ==
  ASSUME Ctx, DeskInv, DeskStep
  PROVE  OrderType'
  <1>. USE DEF Ctx, MoneyInv, MoneyType, BookInv, BookType, DeskInv, OrderType
  <1>1. CASE Aside
    BY <1>1 DEF Aside, shop
  <1>2. CASE Synchronises
    <2>1. ASSUME NEW p \in Passes, BeginPass(p) \/ PassFails(p) PROVE OrderType'
      BY <1>2, <2>1 DEF Synchronises, BeginPass, PassFails, PassSteps
    <2>2. ASSUME NEW p \in Passes, Fetch(p) \/ FetchFails(p) PROVE OrderType'
      BY <1>2, <2>2, AskedIs DEF Synchronises, Fetch, FetchFails, PassSteps
    <2>3. ASSUME NEW p \in Passes, SaveCursor(p) PROVE OrderType'
      BY <1>2, <2>3 DEF Synchronises, SaveCursor, PassSteps
    <2>4. ASSUME NEW p \in Passes, NEW o \in Orders, UpsertFromWolt(p, o) PROVE OrderType'
      <3>1. preorder' \in [Orders -> Preorder]
        BY <2>4, Mapped DEF UpsertFromWolt, Preorder
      <3>2. pass' \in [Passes -> [at : PassSteps, since : Clock, answer : Answer]]
        BY <2>4 DEF UpsertFromWolt, Answer
      <3>. QED
        BY <1>2, <2>4, <3>1, <3>2 DEF Synchronises, UpsertFromWolt
    <2>5. ASSUME NEW o \in Orders, WoltChanges(o) PROVE OrderType'
      BY <1>2, <2>5 DEF Synchronises, WoltChanges, Answer
    <2>. QED
      BY <1>2, <2>1, <2>2, <2>3, <2>4, <2>5 DEF Synchronises, SyncOrders
  <1>3. ASSUME NEW r \in Requests, FindPreorder(r) \/ ReadPreorder(r) PROVE OrderType'
    <2>1. r \in Payments /\ (at[r] = "read" => Reference[r] \in Orders)
      BY <1>3 DEF FindPreorder, ReadPreorder, PayInv, Late
    <2>2. NoPreorder \in Preorder
      BY DEF NoPreorder, Preorder
    <2>. QED
      BY <1>3, <2>1, <2>2 DEF FindPreorder, ReadPreorder, deskVars
  <1>4. ASSUME NEW r \in Requests, SaleCompleted(r) PROVE OrderType'
    BY <1>4 DEF SaleCompleted, deskVars
  <1>5. ASSUME NEW r \in Requests, LinkPreorder(r) \/ TransitionStatus(r) PROVE OrderType'
    <2>1. r \in Buyers /\ Reference[r] \in Orders
      BY <1>5, PipelineAssumption DEF LinkPreorder, TransitionStatus, PayInv, Late
    <2>2. UNCHANGED <<seen, wolt, changedAt, cursor, pass, now>>
      BY <1>5 DEF LinkPreorder, TransitionStatus, LinkSale, CommitPickup, deskRest
    <2>3. preorder' \in [Orders -> Preorder]
      <3>1. \A x \in Orders : preorder[x] \in Preorder
        OBVIOUS
      <3>2. CASE \E s \in Buyers \cup {NoSale} :
                   preorder' = [preorder EXCEPT ![Reference[r]].sale = s]
        BY <2>1, <3>2 DEF Preorder
      <3>3. CASE \E s \in Buyers \cup {NoSale} :
                   preorder' = [preorder EXCEPT ![Reference[r]] = [status |-> "PICKED_UP", sale |-> s]]
        BY <2>1, <3>3 DEF Preorder, PreorderStatus
      <3>4. preorder[Reference[r]].sale \in Buyers \cup {NoSale}
        BY <2>1, <3>1 DEF Preorder
      <3>. QED
        BY <1>5, <2>1, <3>2, <3>3, <3>4
        DEF LinkPreorder, TransitionStatus, LinkSale, CommitPickup
    <2>4. papers' \in [Orders -> SUBSET Paper]
      <3>1. CASE UNCHANGED papers
        BY <3>1
      <3>2. CASE papers' = [papers EXCEPT ![Reference[r]] = @ \cup {[no |-> now, sale |-> r]}]
        <4>1. [no |-> now, sale |-> r] \in Paper
          BY <2>1 DEF Paper
        <4>. QED
          BY <2>1, <3>2, <4>1
      <3>. QED
        BY <1>5, <3>1, <3>2 DEF LinkPreorder, TransitionStatus, LinkSale, CommitPickup
    <2>. QED
      BY <2>2, <2>3, <2>4
  <1>. QED
    BY <1>1, <1>2, <1>3, <1>4, <1>5 DEF DeskStep

LEMMA PayKept ==
  ASSUME Ctx, DeskInv, DeskStep
  PROVE  PayInv'
  <1>. USE PipelineAssumption
       DEF Ctx, MoneyInv, MoneyType, DeskInv, OrderType, PayInv, Late, Actors
  <1>1. CASE Aside
    BY <1>1 DEF Aside
  <1>2. CASE Synchronises
    BY <1>2 DEF Synchronises
  <1>3. ASSUME NEW r \in Requests, FindPreorder(r) PROVE PayInv'
    BY <1>3 DEF FindPreorder, Goto, NoPreorder
  <1>4. ASSUME NEW r \in Requests,
               SaleCompleted(r) \/ LinkPreorder(r) \/ ReadPreorder(r) \/ TransitionStatus(r)
        PROVE  PayInv'
    BY <1>4 DEF SaleCompleted, LinkPreorder, ReadPreorder, TransitionStatus, Goto
  <1>. QED
    BY <1>1, <1>2, <1>3, <1>4 DEF DeskStep

\* Who has settled does nothing more.
LEMMA SettledStays ==
  ASSUME MoneyInv, Move, NEW r \in Requests, at[r] \in Settled
  PROVE  at'[r] \in Settled
  <1>. USE PipelineAssumption DEF MoneyInv, MoneyType, Actors, Requests, Settled
  <1>1. CASE UNCHANGED money
    BY <1>1 DEF money
  <1>2. CASE Begin
    BY <1>2 DEF Begin, EnterSale, EnterPlain, EnterRefused, EnterRefund, EnterReader, EnterClosing,
                Start
  <1>3. ASSUME NEW a \in Actors,
               Check(a) \/ Sign(a) \/ Row(a) \/ Sell(a) \/ Return(a) \/ Adjust(a)
        PROVE  at'[r] \in Settled
    BY <1>3 DEF Check, Sign, Row, Sell, Return, Adjust, Goto
  <1>4. ASSUME NEW a \in Actors, Onward(a) \/ Look(a) \/ Finish(a) \/ Fail(a) \/ Close(a)
        PROVE  at'[r] \in Settled
    BY <1>4, Disjoint DEF Onward, Look, Finish, Fail, Close, Goto, Late
  <1>. QED
    BY <1>1, <1>2, <1>3, <1>4 DEF Move, Go

LEMMA PaperKept ==
  ASSUME Ctx, DeskInv, Move, DeskStep
  PROVE  PaperInv'
  <1>0. /\ \A a \in Actors : met[a] \subseteq met'[a]
        /\ \A r \in Payments : r \in Requests /\ r \in Actors
        /\ \A r \in Payments : at[r] \in Settled => at'[r] \in Settled
    BY SettledStays DEF Ctx, Lasts, Requests, Booking, Sellers, Actors
  \* Steps that write no receipt and read no preorder.
  <1>1. ASSUME UNCHANGED papers, reopened \subseteq reopened',
               \A o \in Orders : preorder[o].status = "PICKED_UP" =>
                 preorder'[o].status = "PICKED_UP" \/ o \in reopened',
               \A b \in Payments : at'[b] = "move" => at[b] = "move" /\ seen'[b] = seen[b]
        PROVE  PaperInv'
    <2>. SUFFICES ASSUME NEW o \in Orders
                  PROVE  /\ papers[o] # {} => preorder'[o].status = "PICKED_UP" \/ o \in reopened'
                         /\ \A d \in papers[o] : d.sale \in Payments /\ at'[d.sale] \in Settled
                         /\ \A d, e \in papers[o] : d # e =>
                              d.sale # e.sale /\ (e.sale \in met'[d.sale] \/ o \in reopened')
                         /\ \A b \in Payments :
                              /\ at'[b] = "move" /\ Reference[b] = o
                              /\ seen'[b].status # "PICKED_UP" /\ o \notin reopened'
                              => \A d \in papers[o] : d.sale \in met'[b] /\ b \in met'[d.sale]
      BY <1>1 DEF PaperInv
    <2>. QED
      BY <1>0, <1>1 DEF DeskInv, PaperInv
  <1>2. CASE Aside
    BY <1>0, <1>1, <1>2 DEF Aside, shop
  <1>3. CASE Synchronises
    <2>1. ASSUME NEW p \in Passes, NEW o \in Orders, UpsertFromWolt(p, o)
          PROVE  /\ reopened \subseteq reopened'
                 /\ \A q \in Orders : preorder[q].status = "PICKED_UP" =>
                      preorder'[q].status = "PICKED_UP" \/ q \in reopened'
      BY <2>1 DEF UpsertFromWolt, DeskInv, OrderType, Preorder
    <2>2. /\ reopened \subseteq reopened'
          /\ \A q \in Orders : preorder[q].status = "PICKED_UP" =>
               preorder'[q].status = "PICKED_UP" \/ q \in reopened'
      BY <1>3, <2>1 DEF Synchronises, BeginPass, SyncOrders, Fetch, FetchFails, SaveCursor, PassFails,
                        WoltChanges
    <2>. QED
      BY <1>1, <1>3, <2>2 DEF Synchronises
  <1>4. ASSUME NEW r \in Requests, FindPreorder(r) \/ SaleCompleted(r) PROVE PaperInv'
    <2>1. \A b \in Payments : at'[b] = "move" => at[b] = "move" /\ seen'[b] = seen[b]
      BY <1>0, <1>4 DEF FindPreorder, SaleCompleted, Goto, Ctx, MoneyInv, MoneyType, DeskInv, OrderType
    <2>. QED
      BY <1>1, <1>4, <2>1 DEF FindPreorder, SaleCompleted, deskVars
  <1>5. ASSUME NEW r \in Requests, LinkPreorder(r) PROVE PaperInv'
    <2>1. \A b \in Payments : at'[b] = "move" => at[b] = "move" /\ seen'[b] = seen[b]
      BY <1>0, <1>5 DEF LinkPreorder, Goto, Ctx, MoneyInv, MoneyType
    <2>2. \A o \in Orders : preorder'[o].status = preorder[o].status
      BY <1>5 DEF LinkPreorder, LinkSale, DeskInv, OrderType, Preorder
    <2>. QED
      BY <1>1, <1>5, <2>1, <2>2 DEF LinkPreorder, LinkSale, deskRest
  <1>6. ASSUME NEW r \in Requests, ReadPreorder(r) PROVE PaperInv'
    <2>1. /\ r \in Payments /\ Reference[r] \in Orders
          /\ seen'[r] = preorder[Reference[r]]
          /\ UNCHANGED <<papers, preorder, reopened>>
          /\ \A b \in Payments \ {r} : at'[b] = at[b] /\ seen'[b] = seen[b]
      BY <1>0, <1>6 DEF ReadPreorder, Goto, deskVars, Ctx, MoneyInv, MoneyType, DeskInv, OrderType,
                        PayInv, Late
    <2>2. papers[Reference[r]] # {} =>
            preorder[Reference[r]].status = "PICKED_UP" \/ Reference[r] \in reopened
      BY <2>1 DEF DeskInv, PaperInv
    <2>. QED
      BY <1>0, <2>1, <2>2 DEF DeskInv, PaperInv
  <1>7. ASSUME NEW r \in Requests, TransitionStatus(r) PROVE PaperInv'
    <2>1. /\ r \in Payments /\ Reference[r] \in Orders /\ at[r] = "move" /\ at'[r] = "cache"
          /\ UNCHANGED <<met, seen, reopened>>
          /\ \A b \in Payments \ {r} : at'[b] = at[b]
      BY <1>0, <1>7 DEF TransitionStatus, CommitPickup, deskRest, Goto, Ctx, MoneyInv, MoneyType,
                        DeskInv, PayInv, Late
    <2>2. CASE seen[r].status = "PICKED_UP"
      <3>1. \A o \in Orders : preorder'[o].status = preorder[o].status
        BY <1>7, <2>1, <2>2 DEF TransitionStatus, CommitPickup, DeskInv, OrderType, Preorder
      <3>. QED
        BY <1>1, <1>7, <2>1, <2>2, <3>1 DEF TransitionStatus, CommitPickup
    <2>3. CASE seen[r].status # "PICKED_UP"
      <3> DEFINE x == Reference[r]
                 n == [no |-> now, sale |-> r]
      <3>1. /\ papers' = [papers EXCEPT ![x] = @ \cup {n}]
            /\ preorder'[x].status = "PICKED_UP"
            /\ \A o \in Orders \ {x} : preorder'[o] = preorder[o]
        BY <1>7, <2>1, <2>3 DEF TransitionStatus, CommitPickup, DeskInv, OrderType, Preorder
      <3>2. \A b \in Payments : b # r /\ at[b] = "move" => b \in met[r] /\ r \in met[b]
        BY <1>0, <2>1 DEF Ctx, MoneyInv, MetInv, Busy, Awaits
      <3>3. ASSUME NEW d \in papers[x]
            PROVE  /\ d.sale # r /\ d.sale \in Payments /\ at[d.sale] \in Settled
                   /\ x \notin reopened => d.sale \in met[r] /\ r \in met[d.sale]
        BY <2>1, <2>3, <3>3 DEF DeskInv, PaperInv, Settled
      <3>4. \A o \in Orders \ {x} : papers'[o] = papers[o]
        BY <3>1 DEF DeskInv, OrderType
      <3>5. papers'[x] = papers[x] \cup {n} /\ n.sale = r
        BY <2>1, <3>1 DEF DeskInv, OrderType
      <3>6. /\ \A d \in papers'[x] : d.sale \in Payments /\ at'[d.sale] \in Settled
            /\ \A d, e \in papers'[x] : d # e =>
                 d.sale # e.sale /\ (e.sale \in met'[d.sale] \/ x \in reopened')
        BY <1>0, <2>1, <3>3, <3>5 DEF DeskInv, PaperInv, Settled
      <3>7. ASSUME NEW b \in Payments, at'[b] = "move", Reference[b] = x,
                   seen'[b].status # "PICKED_UP", x \notin reopened',
                   NEW d \in papers'[x]
            PROVE  d.sale \in met'[b] /\ b \in met'[d.sale]
        BY <2>1, <3>2, <3>5, <3>7 DEF DeskInv, PaperInv
      <3>8. ASSUME NEW o \in Orders, o # x
            PROVE  /\ papers'[o] # {} => preorder'[o].status = "PICKED_UP" \/ o \in reopened'
                   /\ \A d \in papers'[o] : d.sale \in Payments /\ at'[d.sale] \in Settled
                   /\ \A d, e \in papers'[o] : d # e =>
                        d.sale # e.sale /\ (e.sale \in met'[d.sale] \/ o \in reopened')
                   /\ \A b \in Payments :
                        /\ at'[b] = "move" /\ Reference[b] = o
                        /\ seen'[b].status # "PICKED_UP" /\ o \notin reopened'
                        => \A d \in papers'[o] : d.sale \in met'[b] /\ b \in met'[d.sale]
        BY <1>0, <2>1, <3>1, <3>4, <3>8 DEF DeskInv, PaperInv
      <3>. HIDE DEF n, x
      <3>. QED
        BY <3>1, <3>6, <3>7, <3>8 DEF PaperInv
    <2>. QED
      BY <2>2, <2>3
  <1>. QED
    BY <1>2, <1>3, <1>4, <1>5, <1>6, <1>7 DEF DeskStep

\* What the shop shows of an order does not change by itself.
LEMMA PassKept ==
  ASSUME Ctx, DeskInv, DeskStep
  PROVE  PassInv'
  <1>0. /\ now \in Nat /\ cursor \in Nat
        /\ \A o \in Orders : changedAt[o] \in Nat
        /\ \A p \in Passes : pass[p].since \in Nat
        /\ pass \in [Passes -> [at : PassSteps, since : Clock, answer : Answer]]
    BY DEF Ctx, BookInv, BookType, DeskInv, OrderType, Clock
  <1>1. PassInv
    BY DEF DeskInv
  \* Steps at the shop.
  <1>2. ASSUME UNCHANGED <<wolt, changedAt, cursor, pass, unseen>>, now <= now', now' \in Nat,
               \A o \in Orders : Shown(o) => Shown(o)'
        PROVE  PassInv'
    <2>1. InFlight' = InFlight /\ cursor' <= now' /\ \A o \in Orders : changedAt'[o] <= now'
      BY <1>0, <1>1, <1>2 DEF PassInv, InFlight
    <2>2. \A p \in Passes : Ready(p)'
      BY <1>1, <1>2 DEF PassInv, Ready
    <2>3. \A p \in InFlight : \A o \in Orders \ unseen : Holds(p, o)'
      BY <1>1, <1>2 DEF PassInv, Holds
    <2>4. \A o \in Orders \ unseen : Passed(o)'
      BY <1>1, <1>2 DEF PassInv, Passed
    <2>. QED
      BY <1>2, <2>1, <2>2, <2>3, <2>4 DEF PassInv
  <1>3. CASE Aside
    BY <1>0, <1>2, <1>3 DEF Aside, shop, Shown, Clock
  <1>4. ASSUME NEW r \in Requests, FindPreorder(r) \/ SaleCompleted(r) \/ ReadPreorder(r)
        PROVE  PassInv'
    BY <1>0, <1>2, <1>4 DEF FindPreorder, SaleCompleted, ReadPreorder, deskVars, Shown
  <1>5. ASSUME NEW r \in Requests, LinkPreorder(r) \/ TransitionStatus(r) PROVE PassInv'
    <2>1. UNCHANGED <<now, wolt, changedAt, cursor, pass, unseen>>
      BY <1>5 DEF LinkPreorder, TransitionStatus, LinkSale, CommitPickup, deskRest
    <2>2. preorder \in [Orders -> Preorder] /\ papers \in [Orders -> SUBSET Paper]
      BY DEF DeskInv, OrderType
    <2>3. CASE /\ UNCHANGED papers
               /\ \E s \in {r, preorder[Reference[r]].sale} :
                    preorder' = [preorder EXCEPT ![Reference[r]].sale = s]
      <3>1. \A o \in Orders : preorder'[o].status = preorder[o].status
        BY <2>2, <2>3 DEF Preorder
      <3>. QED
        BY <1>0, <1>2, <2>1, <2>3, <3>1 DEF Shown
    <2>4. CASE /\ papers' = [papers EXCEPT ![Reference[r]] = @ \cup {[no |-> now, sale |-> r]}]
               /\ \E s \in {r, preorder[Reference[r]].sale} :
                    preorder' = [preorder EXCEPT ![Reference[r]] = [status |-> "PICKED_UP", sale |-> s]]
      <3>1. ASSUME NEW o \in Orders, o # Reference[r]
            PROVE  preorder'[o] = preorder[o] /\ papers'[o] = papers[o]
        BY <2>2, <2>4, <3>1
      <3>2. ASSUME NEW o \in Orders, o = Reference[r]
            PROVE  preorder'[o].status = "PICKED_UP" /\ papers'[o] # {}
        <4>1. preorder'[o].status = "PICKED_UP"
          BY <2>2, <2>4, <3>2
        <4>2. papers'[o] = papers[o] \cup {[no |-> now, sale |-> r]}
          BY <2>2, <2>4, <3>2
        <4>. QED
          BY <4>1, <4>2
      <3>. QED
        BY <1>0, <1>2, <2>1, <3>1, <3>2 DEF Shown
    <2>. QED
      BY <1>5, <2>3, <2>4 DEF LinkPreorder, TransitionStatus, LinkSale, CommitPickup
  \* Wolt and the passes.
  <1>6. CASE Synchronises
    <2>0. now' = now /\ papers' = papers
      BY <1>6 DEF Synchronises
    <2>1. ASSUME NEW p \in Passes, BeginPass(p) \/ PassFails(p) PROVE PassInv'
      <3>1. /\ UNCHANGED <<wolt, changedAt, preorder, cursor, unseen>>
            /\ \A q \in Passes \ {p} : pass'[q] = pass[q]
            /\ pass'[p].answer = pass[p].answer /\ pass'[p].since \in {pass[p].since, cursor}
            /\ pass'[p].at \in {"idle", "fetch"} => pass[p].at = "idle"
            /\ pass'[p].at # "store"
        BY <1>0, <2>1 DEF BeginPass, PassFails
      <3>2. \A q \in Passes : Ready(q)'
        BY <1>0, <1>1, <3>1 DEF PassInv, Ready
      <3>3. ASSUME NEW q \in InFlight' PROVE q \in InFlight /\ pass'[q] = pass[q]
        BY <3>1, <3>3 DEF InFlight
      <3>4. \A q \in InFlight' : \A o \in Orders \ unseen : Holds(q, o)'
        BY <1>1, <2>0, <3>1, <3>3 DEF PassInv, Holds, Shown
      <3>5. \A o \in Orders \ unseen : Passed(o)'
        BY <1>1, <2>0, <3>1 DEF PassInv, Passed, Shown
      <3>. QED
        BY <1>1, <2>0, <3>1, <3>2, <3>4, <3>5 DEF PassInv
    <2>2. ASSUME NEW p \in Passes, Fetch(p) PROVE PassInv'
      <3>1. /\ UNCHANGED <<wolt, changedAt, preorder, cursor, unseen>>
            /\ \A q \in Passes \ {p} : pass'[q] = pass[q]
            /\ pass'[p].since = pass[p].since /\ pass'[p].at = "store"
            /\ \A o \in Orders : pass'[p].answer[o] =
                 IF changedAt[o] >= pass[p].since THEN wolt[o] ELSE Unlisted
        BY <1>0, <2>2 DEF Fetch, ChangedSince
      <3>2. \A q \in Passes : Ready(q)'
        BY <1>1, <3>1 DEF PassInv, Ready
      <3>3. \A o \in Orders : Holds(p, o)'
        BY <1>0, <3>1 DEF Holds
      <3>4. \A q \in InFlight' \ {p} : \A o \in Orders \ unseen : Holds(q, o)'
        BY <1>1, <2>0, <3>1 DEF PassInv, Holds, Shown, InFlight
      <3>5. \A o \in Orders \ unseen : Passed(o)'
        BY <1>1, <2>0, <3>1 DEF PassInv, Passed, Shown
      <3>. QED
        BY <1>1, <2>0, <3>1, <3>2, <3>3, <3>4, <3>5 DEF PassInv
    <2>3. ASSUME NEW p \in Passes, FetchFails(p) PROVE PassInv'
      <3>1. /\ UNCHANGED <<wolt, changedAt, preorder, cursor>>
            /\ \A q \in Passes \ {p} : pass'[q] = pass[q]
            /\ pass'[p].since = pass[p].since /\ pass'[p].at = "store"
            /\ pass'[p].answer = pass[p].answer /\ pass[p].at = "fetch"
            /\ unseen \subseteq unseen'
            /\ \A o \in Orders \ unseen' :
                 changedAt[o] >= pass[p].since => wolt[o] = Unlisted
        BY <1>0, <2>3 DEF FetchFails, ChangedSince
      <3>2. \A q \in Passes : Ready(q)'
        BY <1>1, <3>1 DEF PassInv, Ready
      <3>3. \A o \in Orders : pass'[p].answer[o] = Unlisted
        BY <1>1, <3>1 DEF PassInv, Ready, NoAnswer
      <3>4. \A o \in Orders \ unseen' : Holds(p, o)'
        BY <1>0, <3>1, <3>3 DEF Holds
      <3>5. \A q \in InFlight' \ {p} : \A o \in Orders \ unseen : Holds(q, o)'
        BY <1>1, <2>0, <3>1 DEF PassInv, Holds, Shown, InFlight
      <3>6. \A o \in Orders \ unseen : Passed(o)'
        BY <1>1, <2>0, <3>1 DEF PassInv, Passed, Shown
      <3>. QED
        BY <1>1, <2>0, <3>1, <3>2, <3>4, <3>5, <3>6 DEF PassInv
    <2>4. ASSUME NEW p \in Passes, SaveCursor(p) PROVE PassInv'
      <3>1. /\ UNCHANGED <<wolt, changedAt, preorder, unseen>> /\ cursor' = now
            /\ \A q \in Passes \ {p} : pass'[q] = pass[q]
            /\ pass'[p].since = pass[p].since /\ pass'[p].at = "done"
            /\ p \in InFlight
            /\ \A o \in Orders : pass[p].answer[o] = Unlisted
        BY <1>0, <2>4 DEF SaveCursor, InFlight, NoAnswer
      <3>2. \A q \in Passes : Ready(q)'
        BY <1>0, <1>1, <3>1 DEF PassInv, Ready
      <3>3. ASSUME NEW o \in Orders \ unseen, wolt[o] # Unlisted PROVE Shown(o)
        <4>1. Holds(p, o) /\ Passed(o) /\ Ready(p)
          BY <1>1, <3>1, <3>3 DEF PassInv, InFlight
        <4>2. changedAt[o] < pass[p].since \/ Shown(o)
          BY <3>1, <3>3, <4>1 DEF Holds
        <4>3. CASE changedAt[o] < pass[p].since
          BY <1>0, <3>3, <4>1, <4>3 DEF Passed, Ready
        <4>. QED
          BY <4>2, <4>3
      <3>4. \A q \in InFlight' : q \in InFlight /\ pass'[q] = pass[q]
        BY <3>1 DEF InFlight
      <3>5. \A q \in InFlight' : \A o \in Orders \ unseen : Holds(q, o)'
        BY <1>1, <2>0, <3>1, <3>4 DEF PassInv, Holds, Shown
      <3>6. \A o \in Orders \ unseen : Passed(o)'
        BY <2>0, <3>1, <3>3 DEF Passed, Shown
      <3>7. cursor' <= now'
        BY <1>0, <2>0, <3>1
      <3>. QED
        BY <1>1, <2>0, <3>1, <3>2, <3>5, <3>6, <3>7 DEF PassInv
    <2>5. ASSUME NEW p \in Passes, NEW x \in Orders, UpsertFromWolt(p, x) PROVE PassInv'
      <3>1. /\ UNCHANGED <<wolt, changedAt, cursor, unseen>>
            /\ \A q \in Passes \ {p} : pass'[q] = pass[q]
            /\ pass'[p].since = pass[p].since /\ pass'[p].at = "store"
            /\ \A o \in Orders \ {x} : pass'[p].answer[o] = pass[p].answer[o]
            /\ pass'[p].answer[x] = Unlisted /\ pass[p].answer[x] # Unlisted
            /\ p \in InFlight
        BY <1>0, <2>5 DEF UpsertFromWolt, InFlight, Answer
      <3>2. /\ \A o \in Orders \ {x} : preorder'[o] = preorder[o]
            /\ preorder'[x].status = MapWoltStatus(pass[p].answer[x])
        BY <2>5 DEF UpsertFromWolt, DeskInv, OrderType, Preorder
      <3>3. x \notin unseen => Shown(x)'
        BY <1>1, <3>1, <3>2 DEF PassInv, Holds, Shown
      <3>4. \A o \in Orders \ {x} : Shown(o) => Shown(o)'
        BY <2>0, <3>1, <3>2 DEF Shown
      <3>5. \A q \in Passes : Ready(q)'
        BY <1>1, <3>1 DEF PassInv, Ready
      <3>6. \A q \in InFlight' : q \in InFlight
        BY <3>1 DEF InFlight
      <3>7. ASSUME NEW q \in InFlight', NEW o \in Orders \ unseen PROVE Holds(q, o)'
        <4>1. Holds(q, o) /\ q \in Passes
          BY <1>1, <3>6, <3>7 DEF PassInv, InFlight
        <4>2. CASE o = x
          BY <3>1, <3>3, <3>7, <4>1, <4>2 DEF Holds
        <4>3. CASE o # x
          BY <3>1, <3>4, <3>7, <4>1, <4>3 DEF Holds
        <4>. QED
          BY <4>2, <4>3
      <3>8. \A o \in Orders \ unseen : Passed(o)'
        BY <1>1, <3>1, <3>3, <3>4 DEF PassInv, Passed
      <3>. QED
        BY <1>1, <2>0, <3>1, <3>5, <3>7, <3>8 DEF PassInv
    <2>6. ASSUME NEW x \in Orders, WoltChanges(x) PROVE PassInv'
      <3>1. /\ UNCHANGED <<preorder, cursor, pass>>
            /\ \A o \in Orders \ {x} : wolt'[o] = wolt[o] /\ changedAt'[o] = changedAt[o]
            /\ changedAt'[x] = now
            /\ \A o \in Orders \ {x} : o \in unseen' <=> o \in unseen
            /\ InFlight # {} => x \in unseen'
        BY <2>6 DEF WoltChanges, DeskInv, OrderType, Answer
      <3>2. InFlight' = InFlight
        BY <3>1 DEF InFlight
      <3>3. \A q \in Passes : Ready(q)'
        BY <1>1, <3>1 DEF PassInv, Ready
      <3>4. \A q \in InFlight : \A o \in Orders \ unseen' : Holds(q, o)'
        BY <1>1, <2>0, <3>1 DEF PassInv, Holds, Shown
      <3>5. \A o \in Orders \ unseen' : Passed(o)'
        BY <1>0, <1>1, <2>0, <3>1 DEF PassInv, Passed, Shown
      <3>6. \A o \in Orders : changedAt'[o] <= now'
        BY <1>0, <1>1, <2>0, <3>1 DEF PassInv
      <3>. QED
        BY <1>1, <2>0, <3>1, <3>2, <3>3, <3>4, <3>5, <3>6 DEF PassInv
    <2>. QED
      BY <1>6, <2>1, <2>2, <2>3, <2>4, <2>5, <2>6 DEF Synchronises, SyncOrders
  <1>. QED
    BY <1>3, <1>4, <1>5, <1>6 DEF DeskStep

LEMMA DeskKept == MoneyInv /\ BookInv /\ DeskInv /\ [Next]_vars => DeskInv'
  <1>. SUFFICES ASSUME MoneyInv, BookInv, DeskInv, [Next]_vars PROVE DeskInv'
    OBVIOUS
  <1>1. Move /\ BookStep /\ DeskStep
    BY NextMoves, NextBooks, NextDesk DEF MoneyInv, BookInv
  <1>2. Ctx
    BY <1>1, StepLasts DEF Ctx
  <1>. QED
    BY <1>1, <1>2, OrderTypeKept, PayKept, PaperKept, PassKept DEF DeskInv

\* Together.
LEMMA DeskAlways == Spec => [](MoneyInv /\ BookInv /\ DeskInv)
  <1>1. Init => MoneyInv /\ BookInv /\ DeskInv
    BY MoneyInit, BookInit, ShopInit
  <1>2. (MoneyInv /\ BookInv /\ DeskInv) /\ [Next]_vars => (MoneyInv /\ BookInv /\ DeskInv)'
    BY MoneyKept, BookKept, DeskKept
  <1>. QED
    BY <1>1, <1>2, PTL DEF Spec

\* Pickup receipts, for any orders, payments and passes: two for one preorder are of payments that
\* overlapped, unless Wolt took the order back after it was handed over.
THEOREM TwoPapersExplained == Spec => []TwoPapersHaveCause
  <1>1. DeskInv => TwoPapersHaveCause
    BY DEF DeskInv, PaperInv, TwoPapersHaveCause
  <1>. QED
    BY <1>1, DeskAlways, PTL

\* Wolt's changes, for any orders and passes: one that the cursor has passed is shown by the shop, or
\* the order is handed over, unless Wolt made it during a pass or the fetch failed.
THEOREM MissedOrdersExplained == Spec => []MissedOrderHasCause
  <1>1. DeskInv => MissedOrderHasCause
    BY DEF DeskInv, PassInv, Passed, Shown, MissedOrderHasCause
  <1>. QED
    BY <1>1, DeskAlways, PTL

-----------------------------------------------------------------------------
(* The cash of the closings, and the types of all variables.                 *)

written == {r \in Rows : Written(r)}
moved   == [r \in Rows |-> Movement(r)]
newRows == {r \in Rows : status[r] = "none" /\ status'[r] # "none"}
stored  == {z \in Closings : Stored(z)}

\* What has been written is finite, the drawer holds it all but for what was only simulated, and a
\* stored closing what it has counted.
DrawerInv ==
  /\ IsFiniteSet(written) /\ IsFiniteSet(stored)
  /\ \A r \in Adjustments : Written(r) => (status[r] = "CASH_WITHDRAWAL" <=> r \in Withdrawals)
  /\ drawer = SumOf(moved, written \ Simulations)
  /\ summary \in [Closings -> [totalGross : Int, cash : Int, count : Nat]]
  /\ \A z \in stored : summary[z].cash = SumOf(moved, counted[z])

\* What the other parts say nothing of.
RestType ==
  /\ changes \in 0 .. MaxWolt /\ unseen \subseteq Orders /\ reopened \subseteq Orders
  /\ no \in [Requests -> Clock] /\ completed \subseteq Payments
  /\ cast \in Casts

\* The sums of CashClosing, as sums of functions.
LEMMA TotalSum ==
  ASSUME NEW S, IsFiniteSet(S)
  PROVE  MapThenSumSet(Total, S) = SumOf([r \in S |-> Total(r)], S)
  <1>. DEFINE f == [r \in S |-> Total(r)]
              Eq(g) == g = [s \in SUBSET S |-> IF s = {} THEN 0 ELSE Total(Pick(s)) + g[s \ {Pick(s)}]]
              I == CHOOSE g : Eq(g)
  <1>1. \A g : Eq(g) <=> Adds(g, f, S)
    <2>1. \A s \in SUBSET S : s # {} => f[Pick(s)] = Total(Pick(s))
      BY DEF Pick
    <2>. QED
      BY <2>1 DEF Adds
  <1>2. MapThenSumSet(Total, S) = I[S]
    BY DEF MapThenSumSet, MapThenFoldSet, Pick
  <1>. HIDE DEF Eq, f
  <1>3. I[S] = SumOf(f, S)
    BY <1>1, FoldIsSum
  <1>. QED
    BY <1>2, <1>3 DEF f

LEMMA AdjustmentSum ==
  ASSUME NEW S, IsFiniteSet(S)
  PROVE  MapThenSumSet(Adjustment, S) = SumOf([r \in S |-> Adjustment(r)], S)
  <1>. DEFINE f == [r \in S |-> Adjustment(r)]
              Eq(g) == g = [s \in SUBSET S |-> IF s = {} THEN 0 ELSE Adjustment(Pick(s)) + g[s \ {Pick(s)}]]
              I == CHOOSE g : Eq(g)
  <1>1. \A g : Eq(g) <=> Adds(g, f, S)
    <2>1. \A s \in SUBSET S : s # {} => f[Pick(s)] = Adjustment(Pick(s))
      BY DEF Pick
    <2>. QED
      BY <2>1 DEF Adds
  <1>2. MapThenSumSet(Adjustment, S) = I[S]
    BY DEF MapThenSumSet, MapThenFoldSet, Pick
  <1>. HIDE DEF Eq, f
  <1>3. I[S] = SumOf(f, S)
    BY <1>1, FoldIsSum
  <1>. QED
    BY <1>2, <1>3 DEF f

LEMMA MovementSum ==
  ASSUME NEW S, IsFiniteSet(S)
  PROVE  MapThenSumSet(Movement, S) = SumOf([r \in S |-> Movement(r)], S)
  <1>. DEFINE f == [r \in S |-> Movement(r)]
              Eq(g) == g = [s \in SUBSET S |-> IF s = {} THEN 0 ELSE Movement(Pick(s)) + g[s \ {Pick(s)}]]
              I == CHOOSE g : Eq(g)
  <1>1. \A g : Eq(g) <=> Adds(g, f, S)
    <2>1. \A s \in SUBSET S : s # {} => f[Pick(s)] = Movement(Pick(s))
      BY DEF Pick
    <2>. QED
      BY <2>1 DEF Adds
  <1>2. MapThenSumSet(Movement, S) = I[S]
    BY DEF MapThenSumSet, MapThenFoldSet, Pick
  <1>. HIDE DEF Eq, f
  <1>3. I[S] = SumOf(f, S)
    BY <1>1, FoldIsSum
  <1>. QED
    BY <1>2, <1>3 DEF f

LEMMA CashSum ==
  ASSUME NEW S, IsFiniteSet(S)
  PROVE  LET Cash(z) == summary[z].cash IN MapThenSumSet(Cash, S) = SumOf([z \in S |-> summary[z].cash], S)
  <1>. DEFINE Cash(z) == summary[z].cash
              f == [z \in S |-> Cash(z)]
              Eq(g) == g = [s \in SUBSET S |-> IF s = {} THEN 0 ELSE Cash(Pick(s)) + g[s \ {Pick(s)}]]
              I == CHOOSE g : Eq(g)
  <1>1. \A g : Eq(g) <=> Adds(g, f, S)
    <2>1. \A s \in SUBSET S : s # {} => f[Pick(s)] = Cash(Pick(s))
      BY DEF Pick
    <2>. QED
      BY <2>1 DEF Adds
  <1>2. MapThenSumSet(Cash, S) = I[S]
    BY DEF MapThenSumSet, MapThenFoldSet, Pick
  <1>. HIDE DEF Eq, f
  <1>3. I[S] = SumOf(f, S)
    BY <1>1, FoldIsSum
  <1>. QED
    BY <1>2, <1>3 DEF f

LEMMA MovedIs ==
  /\ moved = [r \in Rows |-> Movement(r)]
  /\ \A r \in Rows : moved[r] = Movement(r) /\ moved[r] \in Int
  <1>1. \A r \in Rows : Amount[r] \in Nat
    BY PipelineAssumption DEF Rows
  <1>2. \A r \in Rows : Movement(r) \in Int
    BY <1>1 DEF Movement, Total
  <1>. QED
    BY <1>2 DEF moved

\* The cash of a summary is what its rows have moved.
LEMMA SummaryIs ==
  ASSUME DrawerInv, KindInv, NEW S \in SUBSET written
  PROVE  /\ BuildSummary(S) \in [totalGross : Int, cash : Int, count : Nat]
         /\ BuildSummary(S).cash = SumOf(moved, S)
  <1>. DEFINE sales == S \cap Booking
              cash  == {r \in sales : MethodOf(r) = "CASH"}
              other == sales \ cash
              paper == S \cap Adjustments
  <1>1. IsFiniteSet(S)
    BY FS_Subset DEF DrawerInv
  <1>2. IsFiniteSet(sales) /\ IsFiniteSet(cash) /\ IsFiniteSet(other) /\ IsFiniteSet(paper)
    BY <1>1, FS_Subset
  <1>3. /\ S = (cash \cup other) \cup paper /\ cash \cap other = {} /\ (cash \cup other) \cap paper = {}
        /\ cash \cup other = sales /\ S \subseteq Rows
    BY PipelineAssumption DEF written, Rows, Booking, Sellers
  <1>4. \A r \in cash : moved[r] = Total(r)
    BY <1>3, MovedIs, PipelineAssumption DEF Movement, Booking, Sellers
  <1>5. \A r \in other : moved[r] = 0
    BY <1>3, MovedIs, PipelineAssumption DEF Movement, Booking, Sellers
  <1>6. \A r \in paper : moved[r] = Adjustment(r)
    <2>. TAKE r \in paper
    <2>1. Amount[r] \in Nat /\ r \in Adjustments /\ r \in Rows /\ Written(r)
      BY PipelineAssumption DEF written, Rows
    <2>2. status[r] = "CASH_WITHDRAWAL" \/ status[r] = "CASH_DEPOSIT"
      BY <2>1 DEF KindInv, Written
    <2>3. status[r] = "CASH_WITHDRAWAL" <=> r \in Withdrawals
      BY <2>1 DEF DrawerInv
    <2>. QED
      BY <2>1, <2>2, <2>3, MovedIs DEF Adjustment, Movement
  <1>7. \A r \in sales : Total(r) \in Int
    BY PipelineAssumption DEF Total, Booking
  <1>8. \A r \in S : moved[r] \in Int
    BY <1>3, MovedIs
  <1>. DEFINE Totals(T) == MapThenSumSet(Total, T)
              Papers(T) == MapThenSumSet(Adjustment, T)
  <1>9. Totals(cash) = SumOf(moved, cash)
    <2>. HIDE DEF cash
    <2>1. Totals(cash) = SumOf([r \in cash |-> Total(r)], cash)
      BY <1>2, TotalSum
    <2>2. SumOf([r \in cash |-> Total(r)], cash) = SumOf(moved, cash)
      BY <1>2, <1>4, SumOfSame
    <2>. QED
      BY <2>1, <2>2
  <1>10. Papers(paper) = SumOf(moved, paper)
    <2>. HIDE DEF paper
    <2>1. Papers(paper) = SumOf([r \in paper |-> Adjustment(r)], paper)
      BY <1>2, AdjustmentSum
    <2>2. SumOf([r \in paper |-> Adjustment(r)], paper) = SumOf(moved, paper)
      BY <1>2, <1>6, SumOfSame
    <2>. QED
      BY <2>1, <2>2
  <1>11. Totals(sales) \in Int
    <2>. HIDE DEF sales
    <2>1. Totals(sales) = SumOf([r \in sales |-> Total(r)], sales)
      BY <1>2, TotalSum
    <2>2. SumOf([r \in sales |-> Total(r)], sales) \in Int
      BY <1>2, <1>7, SumOfType
    <2>. QED
      BY <2>1, <2>2
  <1>12. SumOf(moved, S) = SumOf(moved, cash) + SumOf(moved, paper)
         /\ SumOf(moved, cash) \in Int /\ SumOf(moved, paper) \in Int
    <2>1. (\A r \in cash : moved[r] \in Int) /\ (\A r \in other : moved[r] \in Int) /\ \A r \in paper : moved[r] \in Int
      BY <1>8
    <2>. HIDE DEF cash, other, paper, sales
    <2>2. SumOf(moved, cash) \in Int /\ SumOf(moved, paper) \in Int
      BY <1>2, <2>1, SumOfType
    <2>3. SumOf(moved, other) = 0
      BY <1>2, <1>5, SumOfZeros
    <2>4. SumOf(moved, cash \cup other) = SumOf(moved, cash) + SumOf(moved, other)
      BY <1>2, <1>3, <2>1, SumOfTwo
    <2>5. SumOf(moved, (cash \cup other) \cup paper) = SumOf(moved, cash \cup other) + SumOf(moved, paper)
      BY <1>2, <1>3, <2>1, SumOfTwo
    <2>. QED
      BY <1>3, <2>2, <2>3, <2>4, <2>5
  <1>13. Cardinality(sales) \in Nat
    BY <1>2, FS_CardinalityType
  <1>14. BuildSummary(S) = [totalGross |-> Totals(sales), cash |-> Totals(cash) + Papers(paper),
                            count |-> Cardinality(sales)]
    BY DEF BuildSummary
  <1>. HIDE DEF Totals, Papers, sales, cash, paper
  <1>. QED
    BY <1>9, <1>10, <1>11, <1>12, <1>13, <1>14

\* A step writes one row at most, and what a row has moved stays.
LEMMA RowsMove ==
  ASSUME MoneyInv, Move, OnlyCommits
  PROVE  /\ written' = written \cup newRows /\ written \cap newRows = {}
         /\ \E r : newRows \subseteq {r}
         /\ \A r \in written' : Movement(r)' = Movement(r)
  <1>. USE PipelineAssumption
       DEF MoneyInv, MoneyType, Actors, Requests, Booking, Sellers, Rows
  <1>1. written' = written \cup newRows /\ written \cap newRows = {}
    BY DEF OnlyCommits, written, newRows, Written
  <1>2. \E r : newRows \subseteq {r}
    <2>1. CASE UNCHANGED status
      BY <2>1 DEF newRows
    <2>2. ASSUME NEW r \in Actors, Sell(r) \/ Adjust(r) PROVE newRows \subseteq {r}
      BY <2>2 DEF Sell, Adjust, newRows
    <2>3. ASSUME NEW r \in Actors, Return(r) PROVE newRows \subseteq {r}
      <3>1. target[r] \in Booking /\ status[target[r]] \in {"SUCCESS", "REFUNDED"}
        BY <2>3 DEF Return, TargetInv, Taking
      <3>. QED
        BY <2>3, <3>1 DEF Return, newRows
    <2>. QED
      BY <2>1, <2>2, <2>3
      DEF Move, money, sums, Begin, EnterSale, EnterPlain, EnterRefused, EnterRefund, EnterReader,
          EnterClosing, Go, Check, Sign, Row, Onward, Look, Finish, Fail, Close
  <1>3. ASSUME NEW r \in Rows, Written(r)' PROVE target'[r] = target[r]
    <2>1. CASE UNCHANGED target
      BY <2>1
    <2>2. ASSUME NEW q \in Actors, NEW o \in Booking, EnterRefund(q, o) PROVE target'[r] = target[r]
      <3>1. status[q] = "none" /\ q # r
        BY <1>3, <2>2 DEF EnterRefund, Start, StageInv, Early, sums, Written
      <3>. QED
        BY <2>2, <3>1 DEF EnterRefund
    <2>3. ASSUME NEW q \in Actors, Look(q) PROVE target'[r] = target[r]
      <3>1. q # r
        BY <1>3, <2>3 DEF Look, StageInv
      <3>. QED
        BY <2>3, <3>1 DEF Look
    <2>. QED
      BY <2>1, <2>2, <2>3
      DEF Move, money, sums, Begin, EnterSale, EnterPlain, EnterRefused, EnterReader, EnterClosing,
          Go, Check, Sign, Row, Sell, Return, Adjust, Onward, Finish, Fail, Close
  <1>. QED
    BY <1>1, <1>2, <1>3 DEF written, Movement, MethodOf, Total

\* What a step does to the drawer.
DrawerMoves ==
  \/ drawer' = drawer /\ newRows = {}
  \/ drawer' = drawer + MapThenSumSet(Movement, newRows \ Simulations)

LEMMA NextDrawer ==
  ASSUME MoneyInv, [Next]_vars
  PROVE  DrawerMoves
  <1>1. CASE UNCHANGED <<status, drawer>>
    BY <1>1 DEF DrawerMoves, newRows
  <1>2. CASE SaleSteps /\ TrackDrawer
    <2>1. newRows \ Simulations
            = {r \in (Booking \cup Adjustments) \ Simulations : status[r] = "none" /\ status'[r] # "none"}
      BY DEF newRows, Rows
    <2>. QED
      BY <1>2, <2>1 DEF TrackDrawer, DrawerMoves
  <1>3. CASE Begins
    <2>1. CASE (\E r \in Requests \cap cast.actors : BeginRequest(r)) /\ UNCHANGED closingVars
      BY <1>1, <2>1 DEF BeginRequest, BeginPayment, BeginSimulation, BeginRefund, BeginAdjustment,
                        GetLatestSale, closingVars
    <2>2. CASE UNCHANGED <<saleRest, drawer>>
      BY <1>1, <2>2 DEF saleRest
    <2>3. CASE UNCHANGED <<saleVars, closingVars>>
      BY <1>1, <2>3 DEF saleVars, closingVars
    <2>. QED
      BY <1>3, <2>1, <2>2, <2>3 DEF Begins
  <1>. QED
    BY <1>1, <1>2, <1>3 DEF Next, vars, saleVars, closingVars, ClosingSteps, saleRest, LatestExpires

\* A withdrawal is written as one.
LEMMA KindsKept ==
  ASSUME MoneyInv, KindInv, [Next]_vars
  PROVE  \A r \in Adjustments :
           /\ Written(r) => (status'[r] = status[r])
           /\ Written(r)' /\ ~Written(r) => (status'[r] = "CASH_WITHDRAWAL" <=> r \in Withdrawals)
  <1>. USE PipelineAssumption
       DEF MoneyInv, MoneyType, Actors, Requests, Booking, Sellers, Written
  <1>1. CASE UNCHANGED status
    BY <1>1
  <1>2. ASSUME NEW q \in Requests, CommitAdjustment(q) PROVE \A r \in Adjustments :
           /\ Written(r) => (status'[r] = status[r])
           /\ Written(r)' /\ ~Written(r) => (status'[r] = "CASH_WITHDRAWAL" <=> r \in Withdrawals)
    BY <1>2 DEF CommitAdjustment, StageInv, Early
  <1>3. ASSUME NEW q \in Requests, CommitSale(q) \/ CommitRefund(q) PROVE \A r \in Adjustments : status'[r] = status[r]
    <2>1. q \in Refunds /\ at[q] = "commit" => target[q] \in Booking
      BY DEF TargetInv, Taking
    <2>. QED
      BY <1>3, <2>1 DEF CommitSale, CommitRefund
  <1>4. ASSUME SaleSteps PROVE \A r \in Adjustments :
           /\ Written(r) => (status'[r] = status[r])
           /\ Written(r)' /\ ~Written(r) => (status'[r] = "CASH_WITHDRAWAL" <=> r \in Withdrawals)
    BY <1>1, <1>2, <1>3, <1>4
    DEF SaleSteps, Work, CheckOriginal, CallTss, CallLost, Insert, PrintReceipt, FindPreorder,
        SaleCompleted, LinkPreorder, ReadPreorder, TransitionStatus, LookUp, CacheLatestSale,
        PrintRefund, SendReceiptEmail, RequestFails
  <1>5. ASSUME Begins PROVE UNCHANGED status
    BY <1>5 DEF Begins, BeginRequest, BeginPayment, BeginSimulation, BeginRefund, BeginAdjustment,
                GetLatestSale, saleRest, saleVars
  <1>. QED
    BY <1>1, <1>4, <1>5 DEF Next, vars, saleVars, ClosingSteps, saleRest, LatestExpires

\* What a step does to the summaries.
SumsMove ==
  \/ /\ UNCHANGED summary
     /\ \A z \in Closings : at'[z] = "done" => at[z] = "done"
  \/ \E z \in Closings : StoreClosing(z)

LEMMA NextSummaries ==
  ASSUME MoneyInv, [Next]_vars
  PROVE  SumsMove
  <1>. USE Disjoint DEF MoneyInv, MoneyType, Actors, SumsMove
  <1>1. CASE UNCHANGED summary /\ \A z \in Closings : at'[z] = at[z]
    BY <1>1
  <1>2. CASE UNCHANGED summary /\ \E z \in Closings : \E s \in Steps \ {"done"} : Start(z, s) \/ Goto(z, s)
    BY <1>2 DEF Start, Goto
  <1>3. ASSUME NEW r \in Requests, BeginRequest(r) \/ Work(r) \/ SendReceiptEmail(r) \/ RequestFails(r)
        PROVE  \A z \in Closings : at'[z] = at[z]
    <2>1. \E s \in Steps : Start(r, s) \/ Goto(r, s)
      <3>. USE DEF Steps, Awaits
      <3>1. CASE BeginRequest(r)
        BY <3>1 DEF BeginRequest, BeginPayment, BeginSimulation, BeginRefund, BeginAdjustment,
                    GetLatestSale, AfterChecks
      <3>2. CASE CheckOriginal(r) \/ CallTss(r) \/ CallLost(r) \/ Insert(r)
        BY <3>2 DEF CheckOriginal, CallTss, CallLost, Insert, AfterChecks
      <3>3. CASE CommitSale(r) \/ CommitRefund(r) \/ CommitAdjustment(r)
        BY <3>3 DEF CommitSale, CommitRefund, CommitAdjustment
      <3>4. CASE PrintReceipt(r) \/ SendReceiptEmail(r) \/ FindPreorder(r) \/ SaleCompleted(r)
        BY <3>4 DEF PrintReceipt, SendReceiptEmail, FindPreorder, SaleCompleted
      <3>5. CASE LinkPreorder(r) \/ ReadPreorder(r) \/ TransitionStatus(r) \/ LookUp(r)
        BY <3>5 DEF LinkPreorder, ReadPreorder, TransitionStatus, LookUp
      <3>6. CASE CacheLatestSale(r) \/ PrintRefund(r) \/ RequestFails(r)
        BY <3>6 DEF CacheLatestSale, PrintRefund, RequestFails
      <3>. QED
        BY <1>3, <3>1, <3>2, <3>3, <3>4, <3>5, <3>6 DEF Work
    <2>. QED
      BY <2>1 DEF Start, Goto
  <1>4. CASE UNCHANGED <<saleVars, closingVars>>
    BY <1>1, <1>4 DEF saleVars, closingVars
  <1>5. CASE UNCHANGED vars
    BY <1>4, <1>5 DEF vars
  <1>6. CASE Begins
    <2>1. CASE (\E r \in Requests \cap cast.actors : BeginRequest(r)) /\ UNCHANGED closingVars
      BY <1>1, <1>3, <2>1 DEF closingVars
    <2>2. CASE \E z \in Closings \cap cast.actors : BeginClosing(z)
      BY <1>2, <2>2 DEF BeginClosing, Steps, Awaits
    <2>. QED
      BY <1>4, <1>6, <2>1, <2>2 DEF Begins
  <1>7. CASE SaleSteps /\ TrackDrawer
    BY <1>1, <1>3, <1>7 DEF SaleSteps, TrackDrawer
  <1>8. CASE LatestExpires /\ UNCHANGED closingVars
    BY <1>1, <1>8 DEF LatestExpires, closingVars
  <1>9. CASE ClosingSteps
    <2>1. ASSUME NEW z \in Closings, ResolveFromDate(z) \/ ClosingFails(z) \/ \E what \in {"sales", "adjustments"} : SumUp(z, what)
          PROVE  SumsMove
      BY <1>2, <2>1 DEF ResolveFromDate, ClosingFails, SumUp, Steps, Awaits
    <2>. QED
      BY <1>9, <2>1 DEF ClosingSteps, ClosingWork
  <1>. QED
    BY <1>4, <1>5, <1>6, <1>7, <1>8, <1>9 DEF Next

LEMMA DrawerInit == Init => DrawerInv /\ RestType
  <1>. SUFFICES ASSUME Init PROVE DrawerInv /\ RestType
    OBVIOUS
  <1>. USE Disjoint, PipelineAssumption DEF Requests, Booking, Actors, Rows
  <1>1. DeskInit /\ SaleInit /\ ClosingInit /\ cast \in Casts
    BY DEF Init
  <1>2. written = {} /\ stored = {}
    BY <1>1 DEF SaleInit, written, stored, Written, Stored
  <1>3. \A r \in Adjustments : ~Written(r)
    BY <1>1 DEF SaleInit, Written
  <1>4. drawer = SumOf(moved, written \ Simulations)
    <2>1. written \ Simulations = {}
      BY <1>2
    <2>. QED
      BY <1>1, <2>1, SumOfNone DEF ClosingInit
  <1>5. summary \in [Closings -> [totalGross : Int, cash : Int, count : Nat]]
    BY <1>1 DEF ClosingInit, NoSummary
  <1>6. IsFiniteSet(written) /\ IsFiniteSet(stored)
    BY <1>2, FS_EmptySet
  <1>7. DrawerInv
    BY <1>2, <1>3, <1>4, <1>5, <1>6 DEF DrawerInv
  <1>8. RestType
    BY <1>1, DeskAssumption DEF DeskInit, SaleInit, RestType, Clock
  <1>. QED
    BY <1>7, <1>8

\* What is in the drawer goes on being what has been written and was not simulated.
LEMMA CashKept ==
  ASSUME MoneyInv, KindInv, Move, OnlyCommits, DrawerMoves, DrawerInv
  PROVE  /\ IsFiniteSet(written') /\ drawer' = SumOf(moved', written' \ Simulations)
         /\ written \subseteq written' /\ \A r \in written : moved'[r] = moved[r]
  <1>1. /\ written' = written \cup newRows /\ written \cap newRows = {}
        /\ \E r : newRows \subseteq {r}
        /\ \A r \in written' : Movement(r)' = Movement(r)
    BY RowsMove
  <1>2. moved' = [r \in Rows |-> Movement(r)']
    BY DEF moved
  <1>3. /\ written \subseteq Rows /\ newRows \subseteq Rows /\ written' \subseteq Rows
    BY <1>1 DEF written, newRows
  <1>4. \A r \in Rows : moved[r] = Movement(r) /\ moved[r] \in Int
    BY MovedIs
  <1>5. \A r \in written' : moved'[r] = moved[r]
    BY <1>1, <1>2, <1>3, <1>4
  <1>6. IsFiniteSet(newRows)
    <2>1. PICK r : newRows \subseteq {r}
      BY <1>1
    <2>. QED
      BY <2>1, FS_Singleton, FS_Subset
  <1>7. IsFiniteSet(written')
    BY <1>1, <1>6, FS_Union DEF DrawerInv
  <1>. DEFINE old == written \ Simulations
              new == newRows \ Simulations
  <1>8. /\ IsFiniteSet(old) /\ IsFiniteSet(new) /\ old \cap new = {}
        /\ old \subseteq Rows /\ new \subseteq Rows
        /\ written' \ Simulations = old \cup new
    BY <1>1, <1>3, <1>6, FS_Subset DEF DrawerInv
  <1>9. SumOf(moved', written' \ Simulations) = SumOf(moved, written' \ Simulations)
    BY <1>5, <1>7, FS_Subset, SumOfSame
  <1>10. SumOf(moved, old \cup new) = SumOf(moved, old) + SumOf(moved, new)
    <2>1. \A r \in old \cup new : moved[r] \in Int
      BY <1>4, <1>8
    <2>. QED
      BY <1>8, <2>1, SumOfTwo
  <1>11. drawer = SumOf(moved, old) /\ SumOf(moved, old) \in Int
    <2>1. \A r \in old : moved[r] \in Int
      BY <1>4, <1>8
    <2>. QED
      BY <1>8, <2>1, SumOfType DEF DrawerInv
  <1>12. CASE drawer' = drawer /\ newRows = {}
    <2>1. old \cup new = old
      BY <1>12
    <2>. QED
      BY <1>1, <1>5, <1>7, <1>8, <1>9, <1>11, <1>12, <2>1
  <1>. DEFINE News(T) == MapThenSumSet(Movement, T)
  <1>13. CASE drawer' = drawer + News(new)
    <2>1. News(new) = SumOf([r \in new |-> Movement(r)], new)
      BY <1>8, MovementSum
    <2>2. SumOf([r \in new |-> Movement(r)], new) = SumOf(moved, new)
      BY <1>4, <1>8, SumOfSame
    <2>. HIDE DEF News, old, new
    <2>. QED
      BY <1>1, <1>5, <1>7, <1>8, <1>9, <1>10, <1>11, <1>13, <2>1, <2>2
  <1>. QED
    BY <1>12, <1>13 DEF DrawerMoves

\* A stored closing keeps what it has counted, and a new one stores that.
LEMMA SummariesKept ==
  ASSUME MoneyInv, BookInv, Lasts, SumsMove, DrawerInv,
         written \subseteq written', \A r \in written : moved'[r] = moved[r]
  PROVE  /\ IsFiniteSet(stored')
         /\ summary' \in [Closings -> [totalGross : Int, cash : Int, count : Nat]]
         /\ \A z \in stored' : summary'[z].cash = SumOf(moved', counted'[z])
  <1>1. \A z \in Closings : counted[z] \in SUBSET written
    BY DEF BookInv, BookType, InsideInv, written
  <1>2. \A z \in Closings : IsFiniteSet(counted[z])
    BY <1>1, FS_Subset DEF DrawerInv
  <1>3. \A z \in Closings : SumOf(moved', counted[z]) = SumOf(moved, counted[z])
    <2>. TAKE z \in Closings
    <2>1. \A r \in counted[z] : moved'[r] = moved[r]
      BY <1>1
    <2>. QED
      BY <1>2, <2>1, SumOfSame
  <1>4. \A z \in stored : at'[z] = "done" /\ counted'[z] = counted[z] /\ z \in Closings
    BY DEF Lasts, stored, Stored
  <1>5. stored' = {z \in Closings : at'[z] = "done"}
    BY DEF stored, Stored
  <1>6. CASE UNCHANGED summary /\ \A z \in Closings : at'[z] = "done" => at[z] = "done"
    <2>1. stored' \subseteq stored
      BY <1>5, <1>6 DEF stored, Stored
    <2>. QED
      BY <1>3, <1>4, <1>6, <2>1, FS_Subset DEF DrawerInv
  <1>7. ASSUME NEW z \in Closings, StoreClosing(z)
        PROVE  /\ IsFiniteSet(stored')
               /\ summary' \in [Closings -> [totalGross : Int, cash : Int, count : Nat]]
               /\ \A y \in stored' : summary'[y].cash = SumOf(moved', counted'[y])
    <2>1. /\ at[z] = "store" /\ summary' = [summary EXCEPT ![z] = BuildSummary(counted[z])]
          /\ \A y \in Closings : y # z => at'[y] = at[y]
          /\ counted' = counted
      BY <1>7 DEF StoreClosing, Goto, MoneyInv, MoneyType, Actors
    <2>2. /\ BuildSummary(counted[z]) \in [totalGross : Int, cash : Int, count : Nat]
          /\ BuildSummary(counted[z]).cash = SumOf(moved, counted[z])
      BY <1>1, SummaryIs DEF BookInv
    <2>3. stored' \subseteq stored \cup {z}
      BY <1>5, <2>1 DEF stored, Stored
    <2>4. IsFiniteSet(stored')
      BY <2>3, FS_Singleton, FS_Union, FS_Subset DEF DrawerInv
    <2>5. summary' \in [Closings -> [totalGross : Int, cash : Int, count : Nat]]
      BY <2>1, <2>2 DEF DrawerInv
    <2>6. summary'[z].cash = SumOf(moved', counted'[z])
      BY <1>3, <2>1, <2>2 DEF DrawerInv
    <2>7. ASSUME NEW y \in stored', y # z
          PROVE  summary'[y].cash = SumOf(moved', counted'[y])
      <3>1. y \in stored /\ y \in Closings
        BY <2>3, <2>7 DEF stored
      <3>2. summary'[y] = summary[y] /\ counted'[y] = counted[y]
        BY <2>1, <2>7, <3>1 DEF DrawerInv
      <3>3. summary[y].cash = SumOf(moved, counted[y])
        BY <3>1 DEF DrawerInv
      <3>. QED
        BY <1>3, <3>1, <3>2, <3>3
    <2>. QED
      BY <2>4, <2>5, <2>6, <2>7
  <1>. QED
    BY <1>6, <1>7 DEF SumsMove

LEMMA DrawerKept == MoneyInv /\ BookInv /\ DrawerInv /\ [Next]_vars => DrawerInv'
  <1>. SUFFICES ASSUME MoneyInv, BookInv, DrawerInv, [Next]_vars PROVE DrawerInv'
    OBVIOUS
  <1>1. Move /\ BookStep /\ DrawerMoves /\ SumsMove
    BY NextMoves, NextBooks, NextDrawer, NextSummaries DEF MoneyInv, BookInv
  <1>2. Lasts /\ OnlyCommits /\ KindInv
    BY <1>1, StepLasts, RowsKept DEF MoneyInv, BookInv
  <1>3. /\ IsFiniteSet(written') /\ drawer' = SumOf(moved', written' \ Simulations)
        /\ written \subseteq written' /\ \A r \in written : moved'[r] = moved[r]
    BY <1>1, <1>2, CashKept
  <1>4. /\ IsFiniteSet(stored')
        /\ summary' \in [Closings -> [totalGross : Int, cash : Int, count : Nat]]
        /\ \A z \in stored' : summary'[z].cash = SumOf(moved', counted'[z])
    BY <1>1, <1>2, <1>3, SummariesKept
  <1>5. \A r \in Adjustments : Written(r)' => (status'[r] = "CASH_WITHDRAWAL" <=> r \in Withdrawals)
    <2>1. \A r \in Adjustments :
           /\ Written(r) => (status'[r] = status[r])
           /\ Written(r)' /\ ~Written(r) => (status'[r] = "CASH_WITHDRAWAL" <=> r \in Withdrawals)
      BY <1>2, KindsKept
    <2>. QED
      BY <2>1 DEF DrawerInv
  <1>. QED
    BY <1>3, <1>4, <1>5 DEF DrawerInv

LEMMA RestKept ==
  ASSUME MoneyInv, BookInv, DeskInv, RestType, [Next]_vars
  PROVE  RestType'
  <1>0. now \in Clock
    BY DEF BookInv, BookType
  <1>1. UNCHANGED cast
    BY DEF Next, vars
  <1>. USE DEF RestType, deskVars, deskRest, saleVars, saleRest
  <1>2. CASE UNCHANGED <<changes, unseen, reopened, no, completed>>
    BY <1>1, <1>2
  <1>3. ASSUME NEW r \in Requests, BeginRequest(r) \/ Work(r) \/ SendReceiptEmail(r) \/ RequestFails(r)
        PROVE  RestType'
    <2>1. CASE UNCHANGED <<changes, unseen, reopened, completed>> /\ no' = [no EXCEPT ![r] = now]
      BY <1>0, <1>1, <2>1
    <2>2. CASE BeginRequest(r)
      BY <1>2, <2>1, <2>2 DEF BeginRequest, BeginPayment, BeginSimulation, BeginRefund,
                              BeginAdjustment, GetLatestSale
    <2>3. CASE CheckOriginal(r) \/ CallTss(r) \/ CallLost(r) \/ Insert(r)
      BY <1>2, <2>1, <2>3 DEF CheckOriginal, CallTss, CallLost, Insert
    <2>4. CASE CommitSale(r) \/ CommitRefund(r) \/ CommitAdjustment(r) \/ PrintReceipt(r) \/ SendReceiptEmail(r)
      BY <1>2, <2>4 DEF CommitSale, CommitRefund, CommitAdjustment, PrintReceipt, SendReceiptEmail
    <2>5. CASE FindPreorder(r) \/ LinkPreorder(r) \/ ReadPreorder(r) \/ TransitionStatus(r)
      BY <1>2, <2>5 DEF FindPreorder, LinkPreorder, ReadPreorder, TransitionStatus, LinkSale, CommitPickup
    <2>6. CASE LookUp(r) \/ CacheLatestSale(r) \/ PrintRefund(r) \/ RequestFails(r)
      BY <1>2, <2>6 DEF LookUp, CacheLatestSale, PrintRefund, RequestFails
    <2>7. CASE SaleCompleted(r)
      <3>1. r \in Payments
        BY <2>7 DEF SaleCompleted, DeskInv, PayInv, Late
      <3>. QED
        BY <1>1, <2>7, <3>1 DEF SaleCompleted
    <2>. QED
      BY <1>3, <2>2, <2>3, <2>4, <2>5, <2>6, <2>7 DEF Work
  <1>4. ASSUME NEW o \in Orders, WoltChanges(o) PROVE changes' \in 0 .. MaxWolt /\ unseen' \subseteq Orders
    BY <1>4, DeskAssumption DEF WoltChanges
  <1>5. ASSUME NEW p \in Passes, SyncOrders(p) PROVE unseen' \subseteq Orders /\ reopened' \subseteq Orders
    BY <1>5 DEF SyncOrders, Fetch, FetchFails, SaveCursor, PassFails, UpsertFromWolt
  <1>6. CASE Begins
    <2>1. CASE \E z \in Closings \cap cast.actors : BeginClosing(z) /\ UNCHANGED <<deskVars, saleRest>>
      BY <1>2, <2>1
    <2>2. CASE (\E p \in Passes \cap cast.actors : BeginPass(p)) /\ UNCHANGED saleVars
      BY <1>2, <2>2 DEF BeginPass
    <2>3. CASE (\E o \in Orders : WoltChanges(o)) /\ UNCHANGED saleVars
      BY <1>1, <1>4, <2>3 DEF WoltChanges
    <2>. QED
      BY <1>3, <1>6, <2>1, <2>2, <2>3 DEF Begins
  <1>7. CASE (\E p \in Passes : SyncOrders(p)) /\ UNCHANGED <<saleVars, closingVars, cast>>
    <2>1. changes' = changes /\ UNCHANGED <<no, completed>>
      BY <1>7 DEF SyncOrders, Fetch, FetchFails, SaveCursor, PassFails, UpsertFromWolt
    <2>. QED
      BY <1>1, <1>5, <1>7, <2>1
  <1>8. CASE SaleSteps
    BY <1>3, <1>8 DEF SaleSteps
  <1>9. CASE UNCHANGED vars \/ (Tick /\ UNCHANGED saleVars) \/ LatestExpires \/ ClosingSteps
    BY <1>2, <1>9 DEF vars, Tick, LatestExpires, ClosingSteps
  <1>. QED
    BY <1>6, <1>7, <1>8, <1>9 DEF Next

LEMMA CashAlways ==
  Spec => [](MoneyInv /\ BookInv /\ CacheInv /\ DeskInv /\ DrawerInv /\ RestType)
  <1>1. Init => MoneyInv /\ BookInv /\ CacheInv /\ DeskInv /\ DrawerInv /\ RestType
    BY MoneyInit, BookInit, CacheInit, ShopInit, DrawerInit
  <1>2. (MoneyInv /\ BookInv /\ CacheInv /\ DeskInv /\ DrawerInv /\ RestType) /\ [Next]_vars
          => (MoneyInv /\ BookInv /\ CacheInv /\ DeskInv /\ DrawerInv /\ RestType)'
    <2>. SUFFICES ASSUME MoneyInv, BookInv, CacheInv, DeskInv, DrawerInv, RestType, [Next]_vars
                  PROVE  (MoneyInv /\ BookInv /\ CacheInv /\ DeskInv /\ DrawerInv /\ RestType)'
      OBVIOUS
    <2>1. MoneyInv' /\ BookInv' /\ CacheInv' /\ DeskInv'
      BY MoneyKept, BookKept, CacheKept, DeskKept
    <2>2. DrawerInv' /\ RestType'
      BY DrawerKept, RestKept
    <2>. QED
      BY <2>1, <2>2
  <1>. QED
    BY <1>1, <1>2, PTL DEF Spec

\* The types of the back office, for any actors, orders and clock.  The drawer is a sum over all that
\* has been written, and that is finite, since a step writes one row.
THEOREM BackOfficeTypeCorrect == Spec => []TypeOK
  <1>1. MoneyInv /\ BookInv /\ CacheInv /\ DeskInv /\ DrawerInv /\ RestType => TypeOK
    <2>. SUFFICES ASSUME MoneyInv, BookInv, CacheInv, DeskInv, DrawerInv, RestType PROVE TypeOK
      OBVIOUS
    <2>1. DeskTypeOK
      BY DEF DeskTypeOK, DeskInv, OrderType, RestType, BookInv, BookType
    <2>2. drawer \in Int
      <3>1. \A r \in written \ Simulations : moved[r] \in Int
        BY MovedIs DEF written
      <3>2. IsFiniteSet(written \ Simulations)
        BY FS_Subset DEF DrawerInv
      <3>. QED
        BY <3>1, <3>2, SumOfType DEF DrawerInv
    <2>3. latest \in Booking \cup {NoSale}
      BY DEF CacheInv, LatestInv
    <2>4. summary \in [Closings -> [totalGross : Int, cash : Int, count : Nat]]
      BY DEF DrawerInv
    <2>. QED
      BY <2>1, <2>2, <2>3, <2>4
      DEF TypeOK, MoneyInv, MoneyType, BookInv, BookType, DeskInv, OrderType, RestType, Rows
  <1>. QED
    BY <1>1, CashAlways, PTL

\* The drawer, for any sales, refunds, adjustments and closings: if every row is in exactly one stored
\* Z closing, the cash of these closings is the cash that has gone into the drawer and the cash that
\* simulated payments pretend to have taken.  These two are the sum over all rows, a closing stores the
\* sum over those it has counted, and the closings divide the rows.
THEOREM DrawerMatched == Spec => []ClosingsMatchDrawer
  <1>1. BookInv /\ DrawerInv => ClosingsMatchDrawer
    <2>. DEFINE In(r) == {z \in StoredZ : r \in counted[z]}
                Cash(z) == summary[z].cash
                All == MapThenSumSet(Cash, StoredZ)
                Once == \A r \in Rows : status[r] # "none" => Cardinality(In(r)) = 1
    <2>. SUFFICES ASSUME BookInv, DrawerInv, Once PROVE All = drawer + Simulated
      BY DEF ClosingsMatchDrawer, Rows
    <2>2. StoredZ \subseteq stored /\ IsFiniteSet(StoredZ) /\ StoredZ \subseteq Closings
      BY Disjoint, FS_Subset DEF StoredZ, stored, DrawerInv
    <2>3. \A z \in StoredZ : counted[z] \subseteq written /\ IsFiniteSet(counted[z])
      BY <2>2, FS_Subset DEF BookInv, BookType, InsideInv, written, DrawerInv
    <2>4. \A r \in written : \E z : In(r) = {z}
      <3>. TAKE r \in written
      <3>1. Cardinality(In(r)) = 1
        BY DEF written, Written
      <3>2. IsFiniteSet(In(r))
        BY <2>2, FS_Subset
      <3>. QED
        BY <3>1, <3>2, FS_Singleton
    <2>5. \A y, z \in StoredZ : y # z => counted[y] \cap counted[z] = {}
      <3>. SUFFICES ASSUME NEW y \in StoredZ, NEW z \in StoredZ, y # z, NEW r \in counted[y] \cap counted[z]
                    PROVE  FALSE
        OBVIOUS
      <3>1. y \in In(r) /\ z \in In(r) /\ r \in written
        BY <2>3
      <3>. QED
        BY <2>4, <3>1
    <2>6. UNION {counted[z] : z \in StoredZ} = written
      <3>1. \A r \in written : \E z \in StoredZ : r \in counted[z]
        BY <2>4
      <3>. QED
        BY <2>3, <3>1
    <2>7. \A z \in StoredZ : \A r \in counted[z] : moved[r] \in Int
      BY <2>3, MovedIs DEF written
    <2>8. All = SumOf([z \in StoredZ |-> summary[z].cash], StoredZ)
      BY <2>2, CashSum
    <2>9. \A z \in StoredZ : summary[z].cash = SumOf(moved, counted[z])
      BY <2>2 DEF DrawerInv
    <2>10. SumOf([z \in StoredZ |-> summary[z].cash], StoredZ)
             = SumOf([z \in StoredZ |-> SumOf(moved, counted[z])], StoredZ)
      BY <2>2, <2>9, SumOfSame
    <2>11. SumOf([z \in StoredZ |-> SumOf(moved, counted[z])], StoredZ) = SumOf(moved, written)
      BY <2>2, <2>3, <2>5, <2>6, <2>7, SumOverParts
    <2>. DEFINE pretended == {r \in Simulations : status[r] # "none"}
                handed    == written \ Simulations
                Pretend(T) == MapThenSumSet(Movement, T)
    <2>12. /\ written = handed \cup pretended /\ handed \cap pretended = {}
           /\ IsFiniteSet(handed) /\ IsFiniteSet(pretended)
           /\ pretended \subseteq Rows
      <3>1. pretended = written \cap Simulations
        BY DEF written, Written, Rows, Booking, Sellers
      <3>. QED
        BY <3>1, FS_Subset DEF DrawerInv, written
    <2>13. Pretend(pretended) = SumOf([r \in pretended |-> Movement(r)], pretended)
      BY <2>12, MovementSum
    <2>14. SumOf([r \in pretended |-> Movement(r)], pretended) = SumOf(moved, pretended)
      BY <2>12, MovedIs, SumOfSame
    <2>15. SumOf(moved, handed \cup pretended) = SumOf(moved, handed) + SumOf(moved, pretended)
      <3>1. \A r \in handed \cup pretended : moved[r] \in Int
        BY <2>12, MovedIs DEF written
      <3>. QED
        BY <2>12, <3>1, SumOfTwo
    <2>16. drawer = SumOf(moved, handed) /\ Simulated = Pretend(pretended)
      BY DEF DrawerInv, Simulated
    <2>. HIDE DEF All, pretended, handed, Pretend
    <2>. QED
      BY <2>8, <2>10, <2>11, <2>12, <2>13, <2>14, <2>15, <2>16
  <1>. QED
    BY <1>1, CashAlways, PTL
=============================================================================
