----------------------------- MODULE SaleLedger -----------------------------
(***************************************************************************)
(* What the sale pipeline promises its callers: a sale is booked once, not *)
(* before the TSS has signed it, and never changes but from SUCCESS to     *)
(* REFUNDED; a refund is booked for a sale that was not refunded when the  *)
(* refund began; and what is confirmed has been booked.                    *)
(*                                                                         *)
(* It does not promise that a refused request has booked nothing, nor that *)
(* two refunds that run at once do not both book.                          *)
(***************************************************************************)
CONSTANTS Entries, Returns, Unsigned, None

VARIABLES
  signing, \* entries need a signature
  entry,   \* the status of each entry
  proof,   \* the entries the TSS has signed
  claim,   \* the sale a return is about to take back
  reply    \* what the caller has been told

vars == <<signing, entry, proof, claim, reply>>

Init ==
  /\ signing \in BOOLEAN
  /\ entry = [e \in Entries |-> "none"]
  /\ proof = {}
  /\ claim = [e \in Entries |-> None]
  /\ reply = [e \in Entries |-> "open"]

Proven(e) == signing /\ e \notin Unsigned => e \in proof

Sign(e) ==
  /\ proof' = proof \cup {e}
  /\ UNCHANGED <<signing, entry, claim, reply>>

Sell(e) ==
  /\ e \notin Returns
  /\ entry[e] = "none"
  /\ Proven(e)
  /\ entry' = [entry EXCEPT ![e] = "SUCCESS"]
  /\ UNCHANGED <<signing, proof, claim, reply>>

Claim(e, o) ==
  /\ entry[o] = "SUCCESS"
  /\ claim[e] = None
  /\ claim' = [claim EXCEPT ![e] = o]
  /\ UNCHANGED <<signing, entry, proof, reply>>

Refund(e) ==
  /\ e \in Returns
  /\ claim[e] # None
  /\ entry[e] = "none"
  /\ entry[claim[e]] \in {"SUCCESS", "REFUNDED"}
  /\ Proven(e)
  /\ entry' = [entry EXCEPT ![e] = "REFUND", ![claim[e]] = "REFUNDED"]
  /\ claim' = [claim EXCEPT ![e] = None]
  /\ UNCHANGED <<signing, proof, reply>>

Confirm(e) ==
  /\ reply[e] = "open"
  /\ entry[e] # "none"
  /\ reply' = [reply EXCEPT ![e] = "confirmed"]
  /\ UNCHANGED <<signing, entry, proof, claim>>

\* The last call of the TSS may have signed the entry that is refused.
Refuse(e) ==
  /\ reply[e] = "open"
  /\ reply' = [reply EXCEPT ![e] = "refused"]
  /\ claim' = [claim EXCEPT ![e] = None]
  /\ proof' \in {proof, proof \cup {e}}
  /\ UNCHANGED <<signing, entry>>

Next ==
  \E e \in Entries :
    \/ Sign(e) \/ Sell(e) \/ Refund(e) \/ Confirm(e) \/ Refuse(e)
    \/ \E o \in Entries : Claim(e, o)

Spec == Init /\ [][Next]_vars
=============================================================================
