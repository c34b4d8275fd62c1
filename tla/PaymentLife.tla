---------------------------- MODULE PaymentLife ----------------------------
(***************************************************************************)
(* What the payment queue promises the operator about each press of the    *)
(* pay button: the payment is paid, refused, or queued until it is settled *)
(* or somebody drops it, and what has ended never begins again.  Behind a  *)
(* settled payment there is a sale; behind a refused one there is none,    *)
(* and nowhere a second one, except where an answer was lost.              *)
(*                                                                         *)
(* It does not promise that a queued payment survives a start of the page, *)
(* nor that one is sold once when two runs send it at the same time.       *)
(***************************************************************************)
EXTENDS Naturals

CONSTANT Payments

VARIABLES
  life,   \* where each payment is
  sold,   \* the sales booked for it
  doubt,  \* the payments that may have been sold unknown to the page
  dropped \* the payments the operator or a start of the page has dropped

vars == <<life, sold, doubt, dropped>>

Stages == {"new", "open", "paid", "refused", "queued", "left"}

Init ==
  /\ life = [p \in Payments |-> "new"]
  /\ sold = [p \in Payments |-> 0]
  /\ doubt = {} /\ dropped = {}

Move(p, from, to) == life[p] = from /\ life' = [life EXCEPT ![p] = to]

Press(p) == Move(p, "new", "open") /\ UNCHANGED <<sold, doubt, dropped>>

\* The server books a sale, at any time: requests outlive those who sent them.
Sell(p) ==
  /\ life[p] # "new"
  /\ sold[p] > 0 \/ life[p] = "refused" => p \in doubt
  /\ sold' = [sold EXCEPT ![p] = @ + 1]
  /\ UNCHANGED <<life, doubt, dropped>>

\* An answer is lost, or two runs hold the payment at once.
Doubt(unsure) ==
  /\ \A p \in unsure : life[p] \in {"open", "queued", "left"}
  /\ doubt' = doubt \cup unsure
  /\ UNCHANGED <<life, sold, dropped>>

Pay(p) == sold[p] > 0 /\ Move(p, "open", "paid") /\ UNCHANGED <<sold, doubt, dropped>>

Refuse(p) ==
  /\ Move(p, "open", "refused")
  /\ doubt' \in {doubt, doubt \cup {p}}
  /\ sold[p] > 0 => p \in doubt'
  /\ UNCHANGED <<sold, dropped>>

Queue(p) == Move(p, "open", "queued") /\ UNCHANGED <<sold, doubt, dropped>>

Settle(p) == sold[p] > 0 /\ Move(p, "queued", "left") /\ UNCHANGED <<sold, doubt, dropped>>

\* The operator removes one payment, a start of the page all that have not ended; it
\* counts one as dropped, too, whose record has just left the queue.
Drop(lost) ==
  /\ \A p \in lost : life[p] \in {"open", "queued", "left"}
  /\ life' = [p \in Payments |-> IF p \in lost THEN "left" ELSE life[p]]
  /\ dropped' = dropped \cup lost
  /\ UNCHANGED <<sold, doubt>>

Next ==
  \/ \E p \in Payments : Press(p) \/ Sell(p) \/ Pay(p) \/ Refuse(p) \/ Queue(p) \/ Settle(p)
  \/ \E some \in SUBSET Payments : Doubt(some) \/ Drop(some)

Spec == Init /\ [][Next]_vars
=============================================================================
