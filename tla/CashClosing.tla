---------------------------- MODULE CashClosing ----------------------------
(***************************************************************************)
(* X and Z closings (cash-closing.service.ts).  A closing takes the time,  *)
(* finds out where the last Z closing ended, sums the sales and the cash   *)
(* adjustments since then and stores itself.  Nothing keeps two closings,  *)
(* or a closing and a sale, from running at once.                          *)
(***************************************************************************)
EXTENDS SalePipeline, FiniteSetsExt

CONSTANTS
  ZClosings, \* the others are X closings
  DayStart   \* the last midnight before a time of the clock

ASSUME ClosingAssumption ==
  /\ ZClosings \subseteq Closings
  /\ DayStart \in [Clock -> Clock]
  /\ \A time \in Clock : DayStart[time] <= time

VARIABLES
  window, \* from and to of each closing, and whether no Z was stored before it
  toSum,  \* the queries a closing still waits for
  counted, \* the rows a closing has read
  summary, \* the totals a closing has stored
  drawer   \* history: the cash that has gone into the drawer

closingVars == <<window, toSum, counted, summary, drawer>>

Window == [from : Clock, to : Clock, first : BOOLEAN]
NoSummary == [totalGross |-> 0, cash |-> 0, count |-> 0]

ClosingInit ==
  /\ window = [z \in Closings |-> [from |-> 0, to |-> 0, first |-> FALSE]]
  /\ toSum = [z \in Closings |-> {}]
  /\ counted = [z \in Closings |-> {}]
  /\ summary = [z \in Closings |-> NoSummary]
  /\ drawer = 0

Stored(z) == at[z] = "done"
StoredZ == {z \in ZClosings : Stored(z)}

BeginClosing(z) ==
  /\ Start(z, "from")
  /\ window' = [window EXCEPT ![z].to = now]
  /\ UNCHANGED <<toSum, counted, summary>>

\* Mutant: an X closing counts as the start of the next Z.
ResolveFromDate_AnyClosing(z) ==
  LET sold == {r \in Booking : Booked(r)}
      last == {y \in Closings : Stored(y)} IN
  /\ at[z] = "from"
  /\ window' = [window EXCEPT
       ![z].from =
         CASE last # {}               -> Max({window[y].to : y \in last})
           [] last = {} /\ sold # {} -> Min({stamp[r] : r \in sold})
           [] OTHER                   -> DayStart[window[z].to],
       ![z].first = last = {}]
  /\ Goto(z, "sum")
  /\ toSum' = [toSum EXCEPT ![z] = {"sales", "adjustments"}]
  /\ UNCHANGED <<counted, summary>>

\* The end of the latest Z, else the first sale of all, else the start of the closing's own day.
ResolveFromDate(z) ==
  LET sold == {r \in Booking : Booked(r)} IN
  /\ at[z] = "from"
  /\ window' = [window EXCEPT
       ![z].from =
         CASE StoredZ # {}              -> Max({window[y].to : y \in StoredZ})
           [] StoredZ = {} /\ sold # {} -> Min({stamp[r] : r \in sold})
           [] OTHER                     -> DayStart[window[z].to],
       ![z].first = StoredZ = {}]
  /\ Goto(z, "sum")
  /\ toSum' = [toSum EXCEPT ![z] = {"sales", "adjustments"}]
  /\ UNCHANGED <<counted, summary>>

Within(z, r) == window[z].from < stamp[r] /\ stamp[r] <= window[z].to

\* The two queries run at once.
SumUp(z, what) ==
  /\ at[z] = "sum"
  /\ what \in toSum[z]
  /\ counted' = [counted EXCEPT ![z] = @ \cup
       {r \in Booking \cup Adjustments :
          /\ status[r] \in IF what = "sales" THEN SaleStatus
                           ELSE {"CASH_DEPOSIT", "CASH_WITHDRAWAL"}
          /\ Within(z, r)}]
  /\ toSum' = [toSum EXCEPT ![z] = @ \ {what}]
  /\ Goto(z, IF toSum[z] = {what} THEN "store" ELSE "sum")
  /\ UNCHANGED <<window, summary>>

\* Mutant: withdrawals are added.
Adjustment_Unsigned(r) == IF Amount[r] <= 0 THEN 0 ELSE Amount[r]

\* Deposits less withdrawals; anything but a positive amount counts as nothing.
Adjustment(r) ==
  IF Amount[r] <= 0 THEN 0 ELSE IF status[r] = "CASH_DEPOSIT" THEN Amount[r] ELSE -Amount[r]

\* The bucket CASH is the cash sales and refunds plus the net of the adjustments.
BuildSummary(S) ==
  LET sales == S \cap Booking
      cash  == {r \in sales : MethodOf(r) = "CASH"}
  IN  [totalGross |-> MapThenSumSet(Total, sales),
       cash       |-> MapThenSumSet(Total, cash) + MapThenSumSet(Adjustment, S \cap Adjustments),
       count      |-> Cardinality(sales)]

StoreClosing(z) ==
  /\ at[z] = "store"
  /\ summary' = [summary EXCEPT ![z] = BuildSummary(counted[z])]
  /\ Goto(z, "done")
  /\ UNCHANGED <<window, toSum, counted>>

ClosingFails(z) ==
  /\ at[z] \in Awaits
  /\ Goto(z, "failed")
  /\ UNCHANGED <<window, toSum, counted, summary>>

ClosingWork(z) ==
  \/ ResolveFromDate(z) \/ StoreClosing(z) \/ ClosingFails(z)
  \/ \E what \in {"sales", "adjustments"} : SumUp(z, what)

saleRest == <<fiscalActive, no, stamp, status, target, tss, seen, completed, latest>>

ClosingSteps ==
  /\ \E z \in Closings : ClosingWork(z)
  /\ UNCHANGED <<deskVars, saleRest, drawer>>

\* What a row says that it does to the cash in the drawer.
Movement(r) ==
  IF r \in Adjustments THEN IF r \in Withdrawals THEN -Amount[r] ELSE Amount[r]
  ELSE IF MethodOf(r) = "CASH" THEN Total(r) ELSE 0

\* History: cash changes hands with a row that appears, but not with a simulated payment.
TrackDrawer ==
  /\ UNCHANGED <<window, toSum, counted, summary>>
  /\ drawer' = drawer + MapThenSumSet(Movement,
       {r \in (Booking \cup Adjustments) \ Simulations : status[r] = "none" /\ status'[r] # "none"})
=============================================================================
