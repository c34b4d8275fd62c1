----------------------------- MODULE BackOffice -----------------------------
(***************************************************************************)
(* The back office at work: preorders, sales and closings over one         *)
(* database and one clock.                                                 *)
(*                                                                         *)
(* Bound: a behaviour has one of Casts, the actors that take part and what *)
(* there is at the start.  Every await is a step of its own, so what       *)
(* matters is who overlaps with whom: a cast holds the two or three actors *)
(* that can disturb each other.                                            *)
(***************************************************************************)
EXTENDS CashClosing

CONSTANT Casts

ASSUME CastAssumption ==
  Casts \subseteq [actors : SUBSET (Actors \cup Passes), fiscal : BOOLEAN, known : SUBSET Orders]

VARIABLE cast

vars == <<deskVars, saleVars, closingVars, cast>>

Init ==
  /\ DeskInit /\ SaleInit /\ ClosingInit
  /\ cast \in Casts
  /\ fiscalActive = cast.fiscal
  /\ \A o \in Orders : Exists(o) <=> o \in cast.known

\* Actors outside the cast never begin and are not refunded; without a pass Wolt is not heard, nor is
\* the expiry of the latest sale without its reader.
Begins ==
  \/ /\ \E r \in Requests \cap cast.actors : BeginRequest(r)
     /\ \A r \in Refunds : target'[r] \in cast.actors \cup {NoSale}
     /\ UNCHANGED closingVars
  \/ /\ \E z \in Closings \cap cast.actors : BeginClosing(z)
     /\ UNCHANGED <<deskVars, saleRest, drawer>>
  \/ /\ \/ \E p \in Passes \cap cast.actors : BeginPass(p)
        \/ Passes \cap cast.actors # {} /\ \E o \in Orders : WoltChanges(o)
     /\ UNCHANGED <<saleVars, closingVars>>

Next ==
  \/ Tick /\ UNCHANGED <<saleVars, closingVars, cast>>
  \/ Begins /\ UNCHANGED cast
  \/ (\E p \in Passes : SyncOrders(p)) /\ UNCHANGED <<saleVars, closingVars, cast>>
  \/ SaleSteps /\ TrackDrawer /\ UNCHANGED cast
  \/ Readers \cap cast.actors # {} /\ LatestExpires /\ UNCHANGED <<closingVars, cast>>
  \/ ClosingSteps /\ UNCHANGED cast

\* Every await of a request but the one for the mail server ends.  A request has
\* finitely many, so it is enough that the requests together are not held up.
Fairness == WF_vars((\E r \in Requests : Advance(r)) /\ TrackDrawer /\ UNCHANGED cast)

Spec == Init /\ [][Next]_vars /\ Fairness

-----------------------------------------------------------------------------
rowStatus == [r \in Booking |-> status[r]]
signed    == {r \in Booking : tss[r] = "finished"}
taking    == [r \in Booking |->
                IF r \in Refunds /\ at[r] \in {"sign", "insert", "commit"} THEN target[r] ELSE NoSale]
replied   == [r \in Booking |-> CASE at[r] = "done"   -> "confirmed"
                                   [] at[r] = "failed" -> "refused"
                                   [] OTHER            -> "open"]

Ledger == INSTANCE SaleLedger WITH
  Entries <- Booking, Returns <- Refunds, Unsigned <- Simulations, None <- NoSale,
  signing <- fiscalActive, entry <- rowStatus, proof <- signed, claim <- taking, reply <- replied

(* The sale pipeline keeps the promises of SaleLedger: nothing is booked     *)
(* that the TSS has not signed, a sale goes from SUCCESS to REFUNDED and     *)
(* nowhere else, and processPayment and refundPayment confirm what they have *)
(* booked.                                                                   *)
ImplementsSaleLedger == Ledger!Spec

-----------------------------------------------------------------------------
(* Every variable keeps to its type.                                         *)
TypeOK ==
  /\ DeskTypeOK
  /\ fiscalActive \in BOOLEAN
  /\ at \in [Actors -> Steps]
  /\ met \in [Actors -> SUBSET Actors]
  /\ no \in [Requests -> Clock]
  /\ stamp \in [Requests -> Clock]
  /\ status \in [Requests -> RowStatus]
  /\ target \in [Requests -> Booking \cup {NoSale}]
  /\ tss \in [Requests -> TssStage]
  /\ seen \in [Payments -> Preorder]
  /\ completed \subseteq Payments
  /\ latest \in Booking \cup {NoSale}
  /\ window \in [Closings -> Window]
  /\ toSum \in [Closings -> SUBSET {"sales", "adjustments"}]
  /\ counted \in [Closings -> SUBSET (Booking \cup Adjustments)]
  /\ summary \in [Closings -> [totalGross : Int, cash : Int, count : Nat]]
  /\ drawer \in Int
  /\ cast \in Casts

(* A sale is refunded twice only by refunds that overlapped: refundPayment   *)
(* checks the status of the sale, awaits the TSS and then writes REFUNDED    *)
(* without checking again.                                                   *)
RefundedTwiceOverlapped ==
  \A r, q \in Refunds :
    r # q /\ Booked(r) /\ Booked(q) /\ target[r] = target[q] => q \in met[r]

(* A preorder has one pickup receipt, unless two payments for it overlapped  *)
(* (transitionStatus reads the status and commits later) or Wolt took the    *)
(* order back after it was handed over.                                      *)
TwoPapersHaveCause ==
  \A o \in Orders : \A d, e \in papers[o] :
    d # e => (d.sale # e.sale /\ e.sale \in met[d.sale]) \/ o \in reopened

(* A sale or a cash adjustment is in one Z closing and no other.  It is in   *)
(* two only if the two overlapped: each reads the end of the last stored     *)
(* one.  It is in none, though stamped before the end of a stored one, only  *)
(* if its request overlapped with a closing, which then did not see it, if   *)
(* it came in the very millisecond at which a closing ended, or not later    *)
(* than a first closing begins to count: strictly after the first sale, or,  *)
(* while nothing is sold, after midnight, so that a deposit of an earlier    *)
(* day is in no Z closing at all (resolveFromDate).                          *)
CountedOnce ==
  \A z \in StoredZ :
    /\ \A y \in StoredZ : y # z /\ counted[y] \cap counted[z] # {} => z \in met[y]
    /\ \A r \in Booking \cup Adjustments :
         status[r] # "none" /\ stamp[r] <= window[z].to =>
           \E y \in StoredZ :
             \/ r \in counted[y] \cup met[y]
             \/ stamp[r] = window[y].to
             \/ window[y].first /\ stamp[r] <= window[y].from

\* What the simulated payments say was paid in cash.
Simulated == MapThenSumSet(Movement, {r \in Simulations : status[r] # "none"})

(* If every row is in exactly one Z closing, the cash of the closings is the *)
(* cash in the drawer and the cash that simulated payments pretend to have   *)
(* taken: buildSummary signs refunds, deposits and withdrawals as the drawer *)
(* does, but takes a simulation for a sale.  The code here is at odds with   *)
(* its documentation: simulate works "without actual fiscalization or        *)
(* persistence" (pos.controller.ts:85-87), and yet stores a row with status  *)
(* SUCCESS, which the closings find.                                         *)
ClosingsMatchDrawer ==
  (\A r \in Booking \cup Adjustments :
     status[r] # "none" => Cardinality({z \in StoredZ : r \in counted[z]}) = 1)
  => LET Cash(z) == summary[z].cash IN MapThenSumSet(Cash, StoredZ) = drawer + Simulated

(* The cached latest sale is the newest one, unless the newer request failed *)
(* before it got there, or overlapped with the older one, or with a reader   *)
(* who cached the older one.                                                 *)
LatestSaleHasCause ==
  (latest # NoSale /\ Busy = {}) =>
    \A r \in Booking : Booked(r) /\ stamp[r] > stamp[latest] =>
      \/ at[r] = "failed"
      \/ latest \in met[r]
      \/ \E q \in Readers \cap met[r] : target[q] = latest

(* Every request is answered: again and again nobody waits, but for payments *)
(* with an e-mail address, which may wait for the mail server for ever.      *)
RequestsEnd == []<>(\A r \in Requests : r \in Busy => at[r] = "mail")
=============================================================================
