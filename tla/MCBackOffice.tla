---------------------------- MODULE MCBackOffice ----------------------------
(* The instance of BackOffice for TLC.  It has no symmetry: the run checks    *)
(* liveness, and what a request is about differs from request to request.     *)
EXTENDS BackOffice

CONSTANTS o1, p1, p2, s1, r1, r2, d1, w1, q1, x1, z1, z2, f1, f2

MCOrders      == {o1}
MCPayments    == {p1, p2}
MCRefunds     == {r1, r2}
MCSimulations == {s1}
MCAdjustments == {d1, w1}
MCWithdrawals == {w1}
MCReaders     == {q1}
MCClosings    == {x1, z1, z2}
MCZClosings   == {z1, z2}
MCPasses      == {f1, f2}

\* p1 pays in cash and gets its receipt by e-mail; p2 pays by card.  Both name
\* the order.
MCMethod    == [r \in {p1, p2, s1} |-> IF r = p2 THEN "CARD" ELSE "CASH"]
MCAmount    == [r \in {p1, p2, s1, r1, r2, d1, w1} |->
                  CASE r = p1 -> 5 [] r = p2 -> 7 [] r = s1 -> 4 [] r = r1 -> 5
                    [] r = r2 -> 2 [] r = d1 -> 3 [] r = w1 -> 1]
MCTendered  == [r \in {p1, p2, s1} |-> 6]
MCReference == [r \in {p1, p2} |-> o1]
MCMailed    == {p1}

\* There is a midnight between the first two times of the clock and the last two.
MCDayStart  == [time \in 0..3 |-> IF time < 2 THEN 0 ELSE 2]

Cast(A, f, K) == [actors |-> A, fiscal |-> f, known |-> K]

\* Who is there: two payments of one order with and without a pass, refunds of
\* one sale, closings with what they count, readers of the latest sale, passes.
MCCasts ==
  {Cast({p1, p2}, TRUE, {o1}), Cast({p1}, FALSE, {}),
   Cast({p2, f1}, FALSE, {o1}), Cast({p2, f1}, FALSE, {}), Cast({f1, f2}, FALSE, {}),
   Cast({s1, r1, r2}, TRUE, {}), Cast({p2, r1}, TRUE, {}),
   Cast({s1, r1, q1}, FALSE, {}),
   Cast({p1, z1}, FALSE, {}), Cast({s1, r1, z1}, FALSE, {}),
   Cast({d1, w1, z1}, FALSE, {}), Cast({d1, x1, z1}, FALSE, {}), Cast({d1, z1, z2}, FALSE, {})}
=============================================================================
