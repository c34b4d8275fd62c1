--------------------------- MODULE MCPaymentQueue ---------------------------
(* Model checking of PaymentQueue on small sets of model values. *)
EXTENDS PaymentQueue, TLC

Symmetry == Permutations(Scans) \cup Permutations(Payments)
            \cup Permutations(Runs)
=============================================================================
