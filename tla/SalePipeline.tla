---------------------------- MODULE SalePipeline ----------------------------
(***************************************************************************)
(* The requests that book money (pos.service.ts): payments, refunds,       *)
(* simulated payments, cash adjustments, and the reader of the latest      *)
(* sale.  A request is a sequence of awaits; each step here is one of      *)
(* them, other requests run in between, and each may fail.                 *)
(*                                                                         *)
(* A request is also the id of the row it writes.  What it is about comes  *)
(* from the constants; a crash of the server is every request failing.     *)
(***************************************************************************)
EXTENDS PreorderDesk, Integers

CONSTANTS
  Payments, Refunds, Simulations, Adjustments, Readers,
  Closings,    \* the actors of CashClosing
  Withdrawals, \* the adjustments that take cash out
  NoOrder,     \* the reference of a sale that names no known order
  Method,      \* CASH or CARD, of each payment and simulation
  Amount,      \* what the items come to, in cents
  Tendered,    \* the cash the customer hands over
  Reference,   \* the order a payment names
  Mailed       \* the payments that come with an e-mail address

Sellers  == Payments \cup Simulations
Booking  == Sellers \cup Refunds
Requests == Booking \cup Adjustments \cup Readers
Actors   == Requests \cup Closings

ASSUME PipelineAssumption ==
  /\ Payments = Buyers
  /\ Payments \cap (Simulations \cup Refunds \cup Adjustments \cup Readers \cup Closings) = {}
  /\ Simulations \cap (Refunds \cup Adjustments \cup Readers \cup Closings) = {}
  /\ Refunds \cap (Adjustments \cup Readers \cup Closings) = {}
  /\ Adjustments \cap (Readers \cup Closings) = {}
  /\ Readers \cap Closings = {}
  /\ NoSale \notin Actors
  /\ Withdrawals \subseteq Adjustments
  /\ NoOrder \notin Orders
  /\ Method \in [Sellers -> {"CASH", "CARD"}]
  /\ Amount \in [Booking \cup Adjustments -> Nat]
  /\ Tendered \in [Sellers -> Int]
  /\ Reference \in [Payments -> Orders \cup {NoOrder}]
  /\ Mailed \subseteq Payments

VARIABLES
  fiscalActive, \* there is a tenant, a TSS and a cash register
  at,           \* the await an actor is at
  met,          \* history: the actors it has overlapped with
  no,           \* the receipt number, R-<ms>
  stamp,        \* createdAt
  status,       \* the row's status, none while there is no row
  target,       \* the sale a refund is for; the row a reader has read
  tss,          \* the TSS transaction of a request
  seen,         \* the preorder as a payment has read it
  completed,    \* the sales with a SALE_COMPLETED event
  latest        \* Redis: pos:latest-sale

saleVars ==
  <<fiscalActive, at, met, no, stamp, status, target, tss, seen, completed, latest>>

SaleStatus == {"SUCCESS", "REFUND", "REFUNDED"}
RowStatus  == SaleStatus \cup {"none", "CASH_DEPOSIT", "CASH_WITHDRAWAL"}
TssStage   == {"none", "started", "updated", "finished"}
Awaits     == {"check", "sign", "insert", "commit", "print", "mail", "find", "event", "link",
               "read", "move", "look", "cache", "reprint", "from", "sum", "store"}
Steps      == Awaits \cup {"idle", "done", "failed"}

NoPreorder == [status |-> "none", sale |-> NoSale]

SaleInit ==
  /\ fiscalActive \in BOOLEAN
  /\ at = [a \in Actors |-> "idle"]
  /\ met = [a \in Actors |-> {}]
  /\ no = [r \in Requests |-> 0]
  /\ stamp = [r \in Requests |-> 0]
  /\ status = [r \in Requests |-> "none"]
  /\ target = [r \in Requests |-> NoSale]
  /\ tss = [r \in Requests |-> "none"]
  /\ seen = [r \in Payments |-> NoPreorder]
  /\ completed = {}
  /\ latest = NoSale

-----------------------------------------------------------------------------
Busy == {a \in Actors : at[a] \in Awaits}

\* An actor starts at step s and meets all that are under way.
Start(a, s) ==
  /\ at[a] = "idle"
  /\ at' = [at EXCEPT ![a] = s]
  /\ met' = [b \in Actors |-> IF b = a THEN met[a] \cup Busy
                              ELSE IF b \in Busy THEN met[b] \cup {a} ELSE met[b]]

Goto(r, s) == at' = [at EXCEPT ![r] = s] /\ UNCHANGED met

Booked(r) == status[r] \in SaleStatus

\* Total and method of a row: a refund takes them from its items and its sale.
Total(r) == IF r \in Refunds THEN -Amount[r] ELSE Amount[r]
MethodOf(r) == IF r \in Refunds THEN Method[target[r]] ELSE Method[r]

PaysEnough(r) == Method[r] = "CASH" => Tendered[r] >= Amount[r]
AfterChecks == IF fiscalActive THEN "sign" ELSE "insert"

\* A payment without enough cash is refused before anything happens.
BeginPayment(r) ==
  /\ Start(r, IF PaysEnough(r) THEN AfterChecks ELSE "failed")
  /\ no' = [no EXCEPT ![r] = now]
  /\ UNCHANGED <<deskVars, fiscalActive, stamp, status, target, tss, seen, completed, latest>>

BeginSimulation(r) ==
  /\ Start(r, IF PaysEnough(r) THEN "insert" ELSE "failed")
  /\ no' = [no EXCEPT ![r] = now]
  /\ UNCHANGED <<deskVars, fiscalActive, stamp, status, target, tss, seen, completed, latest>>

BeginRefund(r, o) ==
  /\ Start(r, "check")
  /\ target' = [target EXCEPT ![r] = o]
  /\ UNCHANGED <<deskVars, fiscalActive, no, stamp, status, tss, seen, completed, latest>>

\* Mutant: only refunds of refunds are turned down.
CheckOriginal_OnlyRefunds(r) ==
  /\ at[r] = "check"
  /\ Goto(r, IF status[target[r]] \in {"SUCCESS", "REFUNDED"} THEN AfterChecks ELSE "failed")
  /\ no' = [no EXCEPT ![r] = now]
  /\ UNCHANGED <<deskVars, fiscalActive, stamp, status, target, tss, seen, completed, latest>>

\* Only a sale that is neither refunded nor a refund goes on.
CheckOriginal(r) ==
  /\ at[r] = "check"
  /\ Goto(r, IF status[target[r]] = "SUCCESS" THEN AfterChecks ELSE "failed")
  /\ no' = [no EXCEPT ![r] = now]
  /\ UNCHANGED <<deskVars, fiscalActive, stamp, status, target, tss, seen, completed, latest>>

BeginAdjustment(r) ==
  /\ Start(r, IF Amount[r] > 0 THEN "insert" ELSE "failed")
  /\ UNCHANGED <<deskVars, fiscalActive, no, stamp, status, target, tss, seen, completed, latest>>

-----------------------------------------------------------------------------
(* Fiscalisation: start, update and finish a transaction at the TSS.  A call *)
(* asks for a token first if it has none that is valid for 5 s more; it is   *)
(* given up after 10 s, and then nobody ends the transaction at the TSS.     *)

NextStage(s) ==
  CASE s = "none" -> "started" [] s = "started" -> "updated" [] OTHER -> "finished"

\* Mutant: the transaction is started and updated, and the sale booked.
CallTss_Unfinished(r) ==
  /\ at[r] = "sign"
  /\ tss' = [tss EXCEPT ![r] = NextStage(tss[r])]
  /\ Goto(r, IF NextStage(tss[r]) = "updated" THEN "insert" ELSE "sign")
  /\ UNCHANGED <<deskVars, fiscalActive, no, stamp, status, target, seen, completed, latest>>

CallTss(r) ==
  /\ at[r] = "sign"
  /\ tss' = [tss EXCEPT ![r] = NextStage(tss[r])]
  /\ Goto(r, IF NextStage(tss[r]) = "finished" THEN "insert" ELSE "sign")
  /\ UNCHANGED <<deskVars, fiscalActive, no, stamp, status, target, seen, completed, latest>>

\* The TSS has done what it was asked for, the answer comes too late.
CallLost(r) ==
  /\ at[r] = "sign"
  /\ tss' = [tss EXCEPT ![r] = NextStage(tss[r])]
  /\ Goto(r, "failed")
  /\ UNCHANGED <<deskVars, fiscalActive, no, stamp, status, target, seen, completed, latest>>

-----------------------------------------------------------------------------
(* Booking.                                                                  *)

\* The row gets its time when the insert begins, and is seen when it commits.
Insert(r) ==
  /\ at[r] = "insert"
  /\ stamp' = [stamp EXCEPT ![r] = now]
  /\ Goto(r, "commit")
  /\ UNCHANGED <<deskVars, fiscalActive, no, status, target, tss, seen, completed, latest>>

ReceiptNoFree(r) == \A q \in Booking : Booked(q) => no[q] # no[r]

CommitSale(r) ==
  /\ r \in Sellers
  /\ at[r] = "commit"
  /\ ReceiptNoFree(r)
  /\ status' = [status EXCEPT ![r] = "SUCCESS"]
  /\ Goto(r, IF r \in Payments THEN "print" ELSE "cache")
  /\ UNCHANGED <<deskVars, fiscalActive, no, stamp, target, tss, seen, completed, latest>>

\* Mutant: a refund is not put into the cache of the latest sale.
CommitRefund_Uncached(r) ==
  /\ r \in Refunds
  /\ at[r] = "commit"
  /\ ReceiptNoFree(r)
  /\ status' = [status EXCEPT ![r] = "REFUND", ![target[r]] = "REFUNDED"]
  /\ Goto(r, "reprint")
  /\ UNCHANGED <<deskVars, fiscalActive, no, stamp, target, tss, seen, completed, latest>>

\* One transaction: the refund's row, and REFUNDED for the sale as it may be.
CommitRefund(r) ==
  /\ r \in Refunds
  /\ at[r] = "commit"
  /\ ReceiptNoFree(r)
  /\ status' = [status EXCEPT ![r] = "REFUND", ![target[r]] = "REFUNDED"]
  /\ Goto(r, "cache")
  /\ UNCHANGED <<deskVars, fiscalActive, no, stamp, target, tss, seen, completed, latest>>

CommitAdjustment(r) ==
  /\ r \in Adjustments
  /\ at[r] = "commit"
  /\ status' = [status EXCEPT ![r] =
                  IF r \in Withdrawals THEN "CASH_WITHDRAWAL" ELSE "CASH_DEPOSIT"]
  /\ Goto(r, "done")
  /\ UNCHANGED <<deskVars, fiscalActive, no, stamp, target, tss, seen, completed, latest>>

-----------------------------------------------------------------------------
(* What a payment does after its row is written.                             *)

PrintReceipt(r) ==
  /\ at[r] = "print"
  /\ Goto(r, IF r \in Mailed THEN "mail" ELSE "find")
  /\ UNCHANGED <<deskVars, fiscalActive, no, stamp, status, target, tss, seen, completed, latest>>

\* The mail server may never answer; the cached cart is removed afterwards.
SendReceiptEmail(r) ==
  /\ at[r] = "mail"
  /\ Goto(r, "find")
  /\ UNCHANGED <<deskVars, fiscalActive, no, stamp, status, target, tss, seen, completed, latest>>

FindPreorder(r) ==
  /\ at[r] = "find"
  /\ seen' = [seen EXCEPT ![r] = IF Reference[r] \in Orders THEN preorder[Reference[r]]
                                 ELSE NoPreorder]
  /\ Goto(r, "event")
  /\ UNCHANGED <<deskVars, fiscalActive, no, stamp, status, target, tss, completed, latest>>

SaleCompleted(r) ==
  /\ at[r] = "event"
  /\ completed' = completed \cup {r}
  /\ Goto(r, IF seen[r].status = "none" THEN "cache" ELSE "link")
  /\ UNCHANGED <<deskVars, fiscalActive, no, stamp, status, target, tss, seen, latest>>

LinkPreorder(r) ==
  /\ at[r] = "link"
  /\ LinkSale(Reference[r], r)
  /\ Goto(r, "read")
  /\ UNCHANGED <<fiscalActive, no, stamp, status, target, tss, seen, completed, latest>>

ReadPreorder(r) ==
  /\ at[r] = "read"
  /\ seen' = [seen EXCEPT ![r] = preorder[Reference[r]]]
  /\ Goto(r, "move")
  /\ UNCHANGED <<deskVars, fiscalActive, no, stamp, status, target, tss, completed, latest>>

TransitionStatus(r) ==
  /\ at[r] = "move"
  /\ CommitPickup(Reference[r], r, seen[r])
  /\ Goto(r, "cache")
  /\ UNCHANGED <<fiscalActive, no, stamp, status, target, tss, seen, completed, latest>>

-----------------------------------------------------------------------------
(* The latest sale: a hit is returned as it is, a miss reads the newest row. *)

GetLatestSale(q) ==
  /\ Start(q, IF latest # NoSale THEN "done" ELSE "look")
  /\ UNCHANGED <<deskVars, fiscalActive, no, stamp, status, target, tss, seen, completed, latest>>

Newest == {r \in Booking : Booked(r) /\ \A q \in Booking : Booked(q) => stamp[q] <= stamp[r]}

LookUp(q) ==
  /\ at[q] = "look"
  /\ \/ \E r \in Newest : target' = [target EXCEPT ![q] = r] /\ Goto(q, "cache")
     \/ Newest = {} /\ Goto(q, "failed") /\ UNCHANGED target
  /\ UNCHANGED <<deskVars, fiscalActive, no, stamp, status, tss, seen, completed, latest>>

CacheLatestSale(r) ==
  /\ at[r] = "cache"
  /\ latest' = IF r \in Readers THEN target[r] ELSE r
  /\ Goto(r, IF r \in Refunds THEN "reprint" ELSE "done")
  /\ UNCHANGED <<deskVars, fiscalActive, no, stamp, status, target, tss, seen, completed>>

PrintRefund(r) ==
  /\ at[r] = "reprint"
  /\ Goto(r, "done")
  /\ UNCHANGED <<deskVars, fiscalActive, no, stamp, status, target, tss, seen, completed, latest>>

LatestExpires ==
  /\ latest # NoSale
  /\ latest' = NoSale
  /\ UNCHANGED <<deskVars, fiscalActive, at, met, no, stamp, status, target, tss, seen, completed>>

\* Mutant: the insert is tried again until the receipt number is free.
RequestFails_Retries(r) ==
  /\ at[r] \in Awaits \ {"commit"}
  /\ Goto(r, "failed")
  /\ UNCHANGED <<deskVars, fiscalActive, no, stamp, status, target, tss, seen, completed, latest>>

\* Any await may reject: the caller gets an error, what is written stays.
RequestFails(r) ==
  /\ at[r] \in Awaits
  /\ Goto(r, "failed")
  /\ UNCHANGED <<deskVars, fiscalActive, no, stamp, status, target, tss, seen, completed, latest>>

-----------------------------------------------------------------------------
BeginRequest(r) ==
  \/ r \in Payments /\ BeginPayment(r)
  \/ r \in Simulations /\ BeginSimulation(r)
  \/ r \in Refunds /\ \E o \in Booking : BeginRefund(r, o)
  \/ r \in Adjustments /\ BeginAdjustment(r)
  \/ r \in Readers /\ GetLatestSale(r)

Work(r) ==
  \/ CheckOriginal(r) \/ CallTss(r) \/ CallLost(r) \/ Insert(r)
  \/ CommitSale(r) \/ CommitRefund(r) \/ CommitAdjustment(r)
  \/ PrintReceipt(r) \/ FindPreorder(r) \/ SaleCompleted(r)
  \/ LinkPreorder(r) \/ ReadPreorder(r) \/ TransitionStatus(r)
  \/ LookUp(r) \/ CacheLatestSale(r) \/ PrintRefund(r)

\* Everything but the mail server answers or fails in the end.
Advance(r) == at[r] # "mail" /\ (Work(r) \/ RequestFails(r))

SaleSteps == \E r \in Requests : Work(r) \/ SendReceiptEmail(r) \/ RequestFails(r)
=============================================================================
