-------------------------- MODULE MCAdministration --------------------------
(* The instance of Administration for TLC.  It has no symmetry: what a       *)
(* request is about differs from request to request.                         *)
EXTENDS Administration

CONSTANTS
  d1, d2, d3, d4, p1, p2, c1, c2, c3, q1, q2, q3, i1, u1, a1, a2, e1, e2, v1, l1,
  k1, k2, t1, t2, t3, n3, o1, o2, m1, m2, m3, r1, s2,
  x1, x2, y1, y2, w1, g1, g2, h1, h2, b1, b2, f1, key1, key2

MCDeliveries == {d1, d2, d3, d4}
MCPlanners   == {p1, p2}
MCClosers    == {c1, c2, c3}
MCRepricers  == {q1, q2, q3}
MCTimely     == {q1, q2}
MCImporters  == {i1}
MCUpdaters   == {u1}
MCInstallers == {n3}
MCOpeners    == {o1, o2}
MCMovers     == {m1, m2, m3}
MCRemovers   == {r1}
MCScrappers  == {s2}
MCRoleMakers == {w1}
MCGranters   == {g1, g2}
MCUserMakers == {h1, h2}
MCSwitchers  == {b1, b2}
MCAssigners  == {f1}
MCRequests   ==
  {d1, d2, d3, d4, p1, p2, c1, c2, c3, q1, q2, q3, i1, u1, n3, o1, o2, m1, m2, m3, r1, s2,
   w1, g1, g2, h1, h2, b1, b2, f1}

MCSkus    == {a1, a2}
MCEans    == {e1, e2}
MCVendors == {v1}
MCLots    == {l1}
MCEan     == [a \in {a1, a2} |-> IF a = a1 THEN NoEan ELSE e1]

Raw(s, e, n) == [sku |-> s, ean |-> e, price |-> 9, qty |-> n, lot |-> l1]

\* d2 brings more of the article of d1 and, with a2 as it is written, its EAN; d3 is the document
\* of d1 with a line more, which has no article number; d4 has a line that cannot be read.
MCPayload ==
  [r \in MCDeliveries |->
     CASE r = d1 -> <<Raw(a1, Absent, 5)>>
       [] r = d2 -> <<Raw(a1, a2, 4)>>
       [] r = d3 -> <<Raw(a1, Absent, 5), Raw(Absent, a2, 2)>>
       [] OTHER  -> <<Raw(a1, Absent, 5), Raw(a2, Absent, Absent)>>]

\* The import finds a product by its EAN.
MCCatalog ==
  [r \in {i1} |-> <<[sku |-> a2, ean |-> e1, price |-> 9], [sku |-> a1, ean |-> Absent, price |-> 9]>>]
MCVendor == [r \in MCDeliveries \cup {i1, u1} |-> IF r \in {d3, u1} THEN Absent ELSE v1]
MCEdit   == [r \in {u1} |-> [sku |-> a2, ean |-> Absent, price |-> 8]]

\* q3 is recorded before its time.
MCOffer ==
  [q \in MCRepricers |-> [id |-> a1, price |-> CASE q = q1 -> 7 [] q = q2 -> 6 [] OTHER -> 5]]

\* A sheet planned without an expectation, and one with it and a line for another article.
MCPlan ==
  [p \in {p1, p2} |->
     IF p = p1 THEN <<[id |-> a1, lot |-> l1, expected |-> Absent]>>
               ELSE <<[id |-> a1, lot |-> l1, expected |-> 5]>>]
MCSheet == [c \in {c1, c2, c3} |-> IF c = c1 THEN p1 ELSE p2]
Counted(s, b, k, n) == [id |-> s, lot |-> b, item |-> k, counted |-> n]
MCCount ==
  [c \in {c1, c2, c3} |->
     CASE c = c1 -> <<Counted(a1, l1, 1, 3)>>
       [] c = c2 -> <<Counted(a1, l1, 0, 4)>>
       [] OTHER  -> <<Counted(a1, l1, 0, 3), Counted(a1, Absent, 0, 1)>>]

MCRegisters == {k1, k2}
MCDevices   == {t1, t2, t3}
MCRoles     == {x1, x2}
MCUsers     == {y1, y2}
MCKeys      == {key1, key2}
MCAbout ==
  [r \in {n3, o1, o2, m1, m2, m3, r1, s2} |->
     CASE r = n3 -> t3 [] r = s2 -> t2 [] r \in {o1, m1, r1, m3} -> k1 [] OTHER -> k2]
MCDevice ==
  [r \in {o1, o2, m1, m2, m3} |->
     CASE r = o1 -> t3 [] r = o2 -> t2 [] r \in {m1, m3} -> NoDevice [] OTHER -> t1]
MCFlag == [r \in {o1, o2, m1, m2, m3} |-> CASE r = o1 -> "unsaid" [] r = m3 -> "no" [] OTHER -> "yes"]
MCSubject ==
  [r \in {w1, g1, g2, h1, h2, b1, b2, f1} |->
     CASE r = w1 -> x2 [] r \in {g1, g2} -> x1 [] r = h2 -> y2 [] OTHER -> y1]
MCWanted ==
  [r \in {w1, g1, g2, h1, h2, b1, b2, f1} |->
     CASE r \in {w1, g1} -> {key1} [] r = g2 -> {key1, key2} [] r = b1 -> FALSE
       [] r = f1 -> x1 [] OTHER -> TRUE]

Cast(R, K) == [requests |-> R, known |-> K]

MCCasts ==
  {Cast({d1, d2, d4}, {}), Cast({d3, i1}, {d1}), Cast({d2, u1}, {d1}),
   Cast({p2, c2, c3}, {d1}), Cast({p1, c1, d2}, {d1}), Cast({c2, p2, d3}, {d1}),
   Cast({q1, q2, u1}, {d1}), Cast({q1, i1}, {d1}), Cast({q1, d2}, {d1}),
   Cast({q1, q2, q3}, {d1}),
   Cast({m1, m2}, {k1, k2}), Cast({o2, m1, r1}, {k1}), Cast({o2, m3, s2}, {k1}),
   Cast({n3, o2, o1}, {}),
   Cast({g1, g2}, {x1}), Cast({w1, g2, f1}, {x1, y1}), Cast({b1, b2, f1}, {x1, y1}),
   Cast({h1, h2, b1}, {})}
=============================================================================
