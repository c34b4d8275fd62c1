---------------------------- MODULE PreorderDesk ----------------------------
(***************************************************************************)
(* Preorders between three writers: Wolt, whose changed orders a pass      *)
(* fetches every minute and stores (wolt.service.ts); the sale that pays   *)
(* for a preorder and hands it over (preorders.service.ts); and other      *)
(* passes, since a pass does not wait for the one before it.               *)
(*                                                                         *)
(* A pass may stop at any await: runOrderSync only logs the error.  The    *)
(* Wolt order row and the status history are written and never read, and   *)
(* the READY branch of transitionStatus has no caller: they are left out.  *)
(***************************************************************************)
EXTENDS Naturals, FiniteSets

CONSTANTS
  Orders,   \* what Wolt's customers order
  Buyers,   \* the requests that may become the sale of a preorder
  Passes,   \* runs of the order synchronisation
  NoSale,
  MaxNow,   \* bound: the clock stops here
  MaxWolt   \* bound: how often Wolt changes its orders

ASSUME DeskAssumption ==
  /\ NoSale \notin Buyers
  /\ MaxNow \in Nat \ {0}
  /\ MaxWolt \in Nat

VARIABLES
  now,       \* the clock of server and database, in ms
  wolt,      \* the state of each order at Wolt
  changedAt, \* when Wolt last changed it
  changes,   \* how many changes Wolt has made
  preorder,  \* the row of each order at the shop
  papers,    \* its pickup receipts, each written with a PREORDER_PICKED_UP event
  cursor,    \* Redis: since when the next pass asks, 0 for "from the start"
  pass,      \* the passes
  unseen,    \* history: orders whose last change a pass missed or overlapped
  reopened   \* history: orders that Wolt took back from PICKED_UP

deskVars ==
  <<now, wolt, changedAt, changes, preorder, papers, cursor, pass, unseen, reopened>>

Clock == 0 .. MaxNow

RawStatus == {"received", "ready", "delivered"}
Unlisted == "unlisted"
PreorderStatus == {"ORDERED", "READY", "PICKED_UP"}

\* Mutant: the row takes the word Wolt uses.
MapWoltStatus_Raw(s) == s

\* What the switch does not know, a rejected order too, counts as ORDERED.
MapWoltStatus(s) ==
  CASE s = "ready"     -> "READY"
    [] s = "delivered" -> "PICKED_UP"
    [] OTHER           -> "ORDERED"

Preorder == [status : PreorderStatus \cup {"none"}, sale : Buyers \cup {NoSale}]
Paper    == [no : Clock, sale : Buyers]
Answer   == [Orders -> RawStatus \cup {Unlisted}]
NoAnswer == [o \in Orders |-> Unlisted]
PassSteps == {"idle", "fetch", "store", "done", "failed"}

\* Some orders have been imported by a pass that has just ended.
DeskInit ==
  /\ now = 1
  /\ \E known \in SUBSET Orders :
       /\ wolt = [o \in Orders |-> IF o \in known THEN "received" ELSE Unlisted]
       /\ preorder = [o \in Orders |->
            [status |-> IF o \in known THEN "ORDERED" ELSE "none", sale |-> NoSale]]
       /\ cursor = IF known = {} THEN 0 ELSE 1
  /\ changedAt = [o \in Orders |-> 0]
  /\ changes = 0
  /\ papers = [o \in Orders |-> {}]
  /\ pass = [p \in Passes |-> [at |-> "idle", since |-> 0, answer |-> NoAnswer]]
  /\ unseen = {}
  /\ reopened = {}

Tick ==
  /\ now < MaxNow
  /\ now' = now + 1
  /\ UNCHANGED <<wolt, changedAt, changes, preorder, papers, cursor, pass, unseen, reopened>>

-----------------------------------------------------------------------------
(* Wolt.                                                                     *)

\* Passes between their fetch and their end.
InFlight == {p \in Passes : pass[p].at = "store"}

WoltChanges(o) ==
  /\ changes < MaxWolt
  /\ changes' = changes + 1
  /\ \E s \in RawStatus \ {wolt[o]} : wolt' = [wolt EXCEPT ![o] = s]
  /\ changedAt' = [changedAt EXCEPT ![o] = now]
  /\ unseen' = IF InFlight # {} THEN unseen \cup {o} ELSE unseen \ {o}
  /\ UNCHANGED <<now, preorder, papers, cursor, pass, reopened>>

\* What Wolt answers when asked for the orders changed since a time.
ChangedSince(t) ==
  [o \in Orders |-> IF changedAt[o] >= t THEN wolt[o] ELSE Unlisted]

-----------------------------------------------------------------------------
(* A pass.                                                                   *)

BeginPass(p) ==
  /\ pass[p].at = "idle"
  /\ pass' = [pass EXCEPT ![p].at = "fetch", ![p].since = cursor]
  /\ UNCHANGED <<now, wolt, changedAt, changes, preorder, papers, cursor, unseen, reopened>>

Fetch(p) ==
  /\ pass[p].at = "fetch"
  /\ pass' = [pass EXCEPT ![p].at = "store", ![p].answer = ChangedSince(pass[p].since)]
  /\ UNCHANGED <<now, wolt, changedAt, changes, preorder, papers, cursor, unseen, reopened>>

\* An error of the call is answered with an empty list, as if nothing were new.
FetchFails(p) ==
  /\ pass[p].at = "fetch"
  /\ pass' = [pass EXCEPT ![p].at = "store"]
  /\ unseen' = unseen \cup {o \in Orders : ChangedSince(pass[p].since)[o] # Unlisted}
  /\ UNCHANGED <<now, wolt, changedAt, changes, preorder, papers, cursor, reopened>>

UpsertFromWolt(p, o) ==
  LET status == MapWoltStatus(pass[p].answer[o]) IN
  /\ pass[p].at = "store"
  /\ pass[p].answer[o] # Unlisted
  /\ preorder' = [preorder EXCEPT ![o].status = status]
  /\ reopened' = IF preorder[o].status = "PICKED_UP" /\ status # "PICKED_UP"
                   THEN reopened \cup {o} ELSE reopened
  /\ pass' = [pass EXCEPT ![p].answer[o] = Unlisted]
  /\ UNCHANGED <<now, wolt, changedAt, changes, papers, cursor, unseen>>

\* The next pass asks from the end of this one, not from its fetch.
SaveCursor(p) ==
  /\ pass[p].at = "store"
  /\ pass[p].answer = NoAnswer
  /\ cursor' = now
  /\ pass' = [pass EXCEPT ![p].at = "done"]
  /\ UNCHANGED <<now, wolt, changedAt, changes, preorder, papers, unseen, reopened>>

\* Mutant: the cursor is saved by a pass that stops, as in a finally block.
PassFails_SavesCursor(p) ==
  /\ pass[p].at \in {"fetch", "store"}
  /\ cursor' = now
  /\ pass' = [pass EXCEPT ![p].at = "failed"]
  /\ UNCHANGED <<now, wolt, changedAt, changes, preorder, papers, unseen, reopened>>

PassFails(p) ==
  /\ pass[p].at \in {"fetch", "store"}
  /\ pass' = [pass EXCEPT ![p].at = "failed"]
  /\ UNCHANGED <<now, wolt, changedAt, changes, preorder, papers, cursor, unseen, reopened>>

-----------------------------------------------------------------------------
(* The steps of a sale that pays for a preorder: transitionStatus reads the  *)
(* row and commits later what it decided on.                                 *)

deskRest == <<now, wolt, changedAt, changes, cursor, pass, unseen, reopened>>

Exists(o) == preorder[o].status # "none"

LinkSale(o, b) ==
  /\ preorder' = [preorder EXCEPT ![o].sale = b]
  /\ UNCHANGED <<deskRest, papers>>

NumberFree == \A o \in Orders : \A d \in papers[o] : d.no # now

\* Mutant: the receipt is written although the order is picked up already.
CommitPickup_Unchecked(o, b, seen) ==
  /\ NumberFree
  /\ preorder' = [preorder EXCEPT ![o] = [status |-> "PICKED_UP", sale |-> b]]
  /\ papers' = [papers EXCEPT ![o] = @ \cup {[no |-> now, sale |-> b]}]
  /\ UNCHANGED deskRest

\* The commit of transitionStatus(o, PICKED_UP) by b, which has read the row seen.
CommitPickup(o, b, seen) ==
  /\ IF seen.status = "PICKED_UP"
       THEN /\ preorder' = [preorder EXCEPT ![o].sale = IF seen.sale = b THEN @ ELSE b]
            /\ UNCHANGED papers
       ELSE /\ NumberFree
            /\ preorder' = [preorder EXCEPT ![o] =
                 [status |-> "PICKED_UP", sale |-> IF seen.sale = b THEN @.sale ELSE b]]
            /\ papers' = [papers EXCEPT ![o] = @ \cup {[no |-> now, sale |-> b]}]
  /\ UNCHANGED deskRest

-----------------------------------------------------------------------------
SyncOrders(p) ==
  \/ Fetch(p) \/ FetchFails(p) \/ SaveCursor(p) \/ PassFails(p)
  \/ \E o \in Orders : UpsertFromWolt(p, o)

-----------------------------------------------------------------------------
DeskTypeOK ==
  /\ now \in Clock
  /\ wolt \in Answer
  /\ changedAt \in [Orders -> Clock]
  /\ changes \in 0 .. MaxWolt
  /\ preorder \in [Orders -> Preorder]
  /\ papers \in [Orders -> SUBSET Paper]
  /\ cursor \in Clock
  /\ pass \in [Passes -> [at : PassSteps, since : Clock, answer : Answer]]
  /\ unseen \subseteq Orders
  /\ reopened \subseteq Orders

(* Once the cursor has passed the last change of an order, so that no pass   *)
(* asks for it again, the shop shows that change or has handed the order     *)
(* over, but for two causes: Wolt made the change between the fetch and the  *)
(* end of a pass, or a fetch that would have listed it failed and was taken  *)
(* for "nothing new".                                                        *)
MissedOrderHasCause ==
  \A o \in Orders :
    /\ wolt[o] # Unlisted
    /\ cursor > changedAt[o]
    /\ o \notin unseen
    => \/ preorder[o].status = MapWoltStatus(wolt[o])
       \/ preorder[o].status = "PICKED_UP" /\ papers[o] # {}

=============================================================================
