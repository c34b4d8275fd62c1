------------------------------ MODULE TableDesk ------------------------------
(***************************************************************************)
(* Tables with their checks and courses (pos.service.ts), and the copies   *)
(* the tills keep of them (posStore.ts, PosDashboard.tsx).                 *)
(*                                                                         *)
(* A till works on its copy, shows the outcome at once and sends all       *)
(* checks, or the whole course plan, of the table.  No till listens to     *)
(* what the server broadcasts of tables.  Quantities are whole (the server *)
(* takes fractions too, which a split rounds); labels, prices and the      *)
(* closing of a table, for which the till has no button, are left out.     *)
(***************************************************************************)
EXTENDS Naturals, Sequences, FiniteSets, SequencesExt

CONSTANTS Tills, Tables, Articles, Courses

VARIABLES
  tabs,    \* the tables of the server, each with its checks and the courses served
  copies,  \* the tables each till has
  sent,    \* the updates and openings on their way to the server
  fetches, \* the lists of tables on their way to each till
  turns,   \* bound: what the waiters still do
  ordered, \* history: how much of each article was on a table at first
  served,  \* history: the courses whose serving the server has confirmed
  behind   \* history: a plan was sent from a copy that lacked what the server or another update had

deskVars == <<tabs, copies, sent, fetches, turns, ordered, served, behind>>

Line(a, n)  == [id |-> a, quantity |-> n]
CheckLine   == [id : Articles, quantity : Nat]
Checks      == Seq(Seq(CheckLine))
Table(c, p) == [checks |-> c, plan |-> p]
Known       == DOMAIN tabs
With(list, t, table) == [y \in DOMAIN list \cup {t} |-> IF y = t THEN table ELSE list[y]]

At(checks, p) == checks[p[1]][p[2]]
Places(checks) == UNION {{<<i, j>> : j \in DOMAIN checks[i]} : i \in DOMAIN checks}

\* How much of an article is on the checks.
Total(checks, a) ==
  MapThenSumSet(LAMBDA p : IF At(checks, p).id = a THEN At(checks, p).quantity ELSE 0, Places(checks))
Totals(checks) == [a \in Articles |-> Total(checks, a)]

\* Every line has something on it.
Filled(checks) == \A i \in DOMAIN checks : \A j \in DOMAIN checks[i] : checks[i][j].quantity > 0

\* A table with something on it, which every till has loaded.
DeskInit(table, checks, bound) ==
  /\ tabs = [t \in {table} |-> Table(checks, {})]
  /\ copies = [k \in Tills |-> tabs]
  /\ sent = {} /\ fetches = {}
  /\ turns = bound
  /\ ordered = [t \in {table} |-> Totals(checks)]
  /\ served = [t \in Tables |-> {}] /\ behind = [t \in Tables |-> FALSE]

-----------------------------------------------------------------------------
(* What the till makes of the checks.                                        *)

CanSplit(checks) ==
  /\ checks # <<>> /\ Head(checks) # <<>>
  /\ ~(Len(Head(checks)) = 1 /\ Head(checks)[1].quantity = 1)

\* Mutant: what moves to the new check stays on the first one too.
Split_Copies(checks) ==
  LET last == Last(Head(checks)) IN
  <<Head(checks), <<Line(last.id, (last.quantity + 1) \div 2)>>>> \o Tail(checks)

\* splitChecksForTable: half of the last line of the first check, rounded up, gets a check of its
\* own, right after the first.  No other line is ever empty, so normalizeCheckItems drops none.
Split(checks) ==
  LET lines == Head(checks)
      last  == Last(lines)
      moved == (last.quantity + 1) \div 2
      stays == last.quantity - moved
      first == IF stays = 0 THEN Front(lines) ELSE [lines EXCEPT ![Len(lines)] = Line(last.id, stays)]
  IN  <<first, <<Line(last.id, moved)>>>> \o Tail(checks)

\* The order in which the lines of all checks are gone through.
Earlier(p, q) == p[1] < q[1] \/ (p[1] = q[1] /\ p[2] < q[2])

\* mergeChecksForTable: one check, with a line for each article in the order they come first.
Merge(checks) ==
  LET firsts == {p \in Places(checks) :
                   \A q \in Places(checks) : Earlier(q, p) => At(checks, q).id # At(checks, p).id}
      nth(n) == CHOOSE p \in firsts : Cardinality({q \in firsts : Earlier(q, p)}) = n - 1
  IN  <<[n \in 1..Cardinality(firsts) |->
          LET article == At(checks, nth(n)).id IN Line(article, Total(checks, article))]>>

-----------------------------------------------------------------------------
Update(k, t, table, part) == [till |-> k, table |-> t, part |-> part, as |-> table]

\* The copy of the till changes, and what changed is on its way.
Touch(k, t, table, part) ==
  /\ turns > 0 /\ turns' = turns - 1
  /\ copies' = [copies EXCEPT ![k][t] = table]
  /\ sent' = sent \cup {Update(k, t, table, part)}

SplitCheck(k, t) ==
  /\ CanSplit(copies[k][t].checks)
  /\ Touch(k, t, [copies[k][t] EXCEPT !.checks = Split(@)], "checks")
  /\ UNCHANGED <<tabs, fetches, ordered, served, behind>>

MergeChecks(k, t) ==
  /\ Len(copies[k][t].checks) > 1
  /\ Touch(k, t, [copies[k][t] EXCEPT !.checks = Merge(@)], "checks")
  /\ UNCHANGED <<tabs, fetches, ordered, served, behind>>

MarkCourseServed(k, t, c) ==
  /\ c \notin copies[k][t].plan
  /\ Touch(k, t, [copies[k][t] EXCEPT !.plan = @ \cup {c}], "plan")
  /\ behind' = [behind EXCEPT ![t] =
       @ \/ ~(tabs[t].plan \subseteq copies[k][t].plan)
         \/ \E u \in sent : u.table = t /\ u.part = "plan"]
  /\ UNCHANGED <<tabs, fetches, ordered, served>>

\* handleCreateTable: a new table has one check and nothing on it.
CreateTable(k, t) ==
  /\ t \notin Known /\ \A u \in sent : u.table # t
  /\ turns > 0 /\ turns' = turns - 1
  /\ sent' = sent \cup {Update(k, t, Table(<< <<>> >>, {}), "all")}
  /\ UNCHANGED <<tabs, copies, fetches, ordered, served, behind>>

\* openTable, and the till adds the table to its list when it hears of it.
OpenTable(u) ==
  /\ u.part = "all"
  /\ tabs' = With(tabs, u.table, u.as)
  /\ copies' = [copies EXCEPT ![u.till] = With(@, u.table, u.as)]
  /\ ordered' = With(ordered, u.table, Totals(u.as.checks))
  /\ sent' = sent \ {u}
  /\ UNCHANGED <<fetches, turns, served, behind>>

\* updateTable: what the update names is replaced.
Updated(u) ==
  IF u.part = "plan" THEN [tabs EXCEPT ![u.table].plan = u.as.plan]
                     ELSE [tabs EXCEPT ![u.table].checks = u.as.checks]

UpdateTable(u) ==
  /\ u.part # "all"
  /\ tabs' = Updated(u)
  /\ served' = IF u.part = "plan" THEN [served EXCEPT ![u.table] = @ \cup u.as.plan] ELSE served
  /\ sent' = sent \ {u}
  /\ UNCHANGED <<copies, fetches, turns, ordered, behind>>

\* An update or its answer is lost, and the till loads the tables again; an opening that fails only
\* leaves a note.
UpdateFails(u) ==
  /\ sent' = sent \ {u}
  /\ tabs' \in {tabs} \cup IF u.part = "all" THEN {} ELSE {Updated(u)}
  /\ fetches' = IF u.part = "all" THEN fetches ELSE fetches \cup {[till |-> u.till, gave |-> tabs']}
  /\ UNCHANGED <<copies, turns, ordered, served, behind>>

\* The button, or a till that has no tables: what the server has, as it had it when it was asked.
LoadTables(k) ==
  /\ turns > 0 /\ turns' = turns - 1
  /\ fetches' = fetches \cup {[till |-> k, gave |-> tabs]}
  /\ UNCHANGED <<tabs, copies, sent, ordered, served, behind>>

TablesArrive(f) ==
  /\ fetches' = fetches \ {f}
  /\ copies' \in {copies, [copies EXCEPT ![f.till] = f.gave]}  \* a request that failed changes nothing
  /\ UNCHANGED <<tabs, sent, turns, ordered, served, behind>>

DeskNext ==
  \/ \E k \in Tills : \/ \E t \in DOMAIN copies[k] :
                          \/ SplitCheck(k, t) \/ MergeChecks(k, t)
                          \/ \E c \in Courses : MarkCourseServed(k, t, c)
                      \/ \E t \in Tables : CreateTable(k, t)
                      \/ LoadTables(k)
  \/ \E u \in sent : OpenTable(u) \/ UpdateTable(u) \/ UpdateFails(u)
  \/ \E f \in fetches : TablesArrive(f)

-----------------------------------------------------------------------------
ATable == [checks : Checks, plan : SUBSET Courses]

DeskTypeOK ==
  /\ Known \subseteq Tables /\ DOMAIN ordered = Known
  /\ \A t \in Known : tabs[t] \in ATable
  /\ \A k \in Tills : DOMAIN copies[k] \subseteq Known /\ \A t \in DOMAIN copies[k] : copies[k][t] \in ATable
  /\ \A u \in sent : u.till \in Tills /\ u.table \in Tables /\ u.as \in ATable
  /\ \A f \in fetches : f.till \in Tills /\ DOMAIN f.gave \subseteq Known
  /\ served \in [Tables -> SUBSET Courses] /\ behind \in [Tables -> BOOLEAN] /\ turns \in Nat

\* splitChecksForTable and mergeChecksForTable: however tills that work on their own copies overtake
\* each other, a table keeps what was ordered, at the server and in every till, and no line is empty.
ItemsKept ==
  \A copy \in {tabs} \cup {copies[k] : k \in Tills} : \A t \in DOMAIN copy :
    Totals(copy[t].checks) = ordered[t] /\ Filled(copy[t].checks)

\* markCourseServed: a course whose serving was confirmed stays served, unless a plan was sent from
\* a copy that lacked what the server or an update under way had.
ServedStaysServed == \A t \in Known : behind[t] \/ served[t] \subseteq tabs[t].plan
=============================================================================
