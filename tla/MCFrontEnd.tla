----------------------------- MODULE MCFrontEnd -----------------------------
(***************************************************************************)
(* Two tenants, a few rows on every page, and a cast for each question:    *)
(* which scene is played and how much of it there may be.                  *)
(***************************************************************************)
EXTENDS FrontEnd

CONSTANTS a, b, c, la, lb, s, t

MCHome    == [i \in {a, b, c, la, lb} |-> IF i \in {a, b, la} THEN s ELSE t]
MCFirstOf == [x \in {s, t} |-> IF x = s THEN a ELSE c]
MCEntry   == [x \in {s, t} |-> IF x = s THEN la ELSE lb]
MCPart    == [i \in {a, b, c, la, lb} |-> IF i = b THEN "register" ELSE "tss"]

\* What the environment of the link may do.
Bounds(reports, errs, events, breaks, restarts, reconnects, unmounts) ==
  [report |-> reports, error |-> errs, event |-> events, break |-> breaks, restart |-> restarts,
   reconnect |-> reconnects, unmount |-> unmounts]

Budgets ==
  {Bounds(2, 1, 0, 1, 0, 1, 0), Bounds(0, 2, 0, 1, 1, 1, 0), Bounds(0, 0, 2, 1, 1, 0, 1),
   Bounds(0, 0, 1, 0, 1, 1, 1), Bounds(0, 0, 2, 0, 0, 2, 0), Bounds(1, 0, 0, 1, 0, 1, 1)}

\* A line both parsers read, and one that lacks what each of them asks for.
MCPasted ==
  {[ean |-> "good", sku |-> TRUE, named |-> TRUE, amount |-> "good"],
   [ean |-> "good", sku |-> FALSE, named |-> FALSE, amount |-> "bad"]}

\* A deposit and a preorder of the till's tenant, and a deposit of another.
MCNoteOf == [n \in {"deposit", "cake", "rent"} |-> IF n = "rent" THEN t ELSE s]

\* One table with two dishes on one check, one with two checks.
Orders == {<< <<Line("wine", 2), Line("soup", 1)>> >>, << <<Line("wine", 1)>>, <<Line("soup", 3)>> >>}

Quiet(who) ==
  /\ who = "link"    \/ LinkInit(Bounds(0, 0, 0, 0, 0, 0, 0))
  /\ who = "pages"   \/ AdminInit("users", s)
  /\ FormsInit
  /\ who = "control" \/ ControlInit([x \in Tenants |-> {}], 0)
  /\ who = "till"    \/ BoardInit(0, s)
  /\ who = "order"   \/ TrackingInit([x \in Field |-> FALSE], FALSE, 0)
  /\ who = "tables"  \/ DeskInit("t1", << <<Line("wine", 2), Line("soup", 1)>> >>, 0)

Init ==
  \/ scene = "link" /\ Quiet("link") /\ \E bound \in Budgets : LinkInit(bound)
  \/ scene = "pages" /\ Quiet("pages") /\ \E p \in Pages : AdminInit(p, s)
  \/ scene \in {"receipt", "catalog", "counts"} /\ Quiet("forms")
  \/ scene = "control" /\ Quiet("control")
     /\ ControlInit([x \in Tenants |-> IF x = s THEN Modules ELSE {}], 3)
  \/ scene = "cart" /\ Quiet("till") /\ BoardInit(3, s)
  \/ scene = "board" /\ Quiet("till") /\ \E preset \in {Nothing, s} : BoardInit(0, preset)
  \/ scene = "tables" /\ Quiet("tables") /\ \E plan \in Orders : DeskInit("t1", plan, 3)
  \/ scene = "order" /\ Quiet("order")
     /\ \E force \in BOOLEAN : TrackingInit([x \in Field |-> x # "slot"], force, 4)

Spec == Init /\ [][Next]_vars /\ WF_vars(Progress)
=============================================================================
