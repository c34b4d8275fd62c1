----------------------------- MODULE AdminPages -----------------------------
(***************************************************************************)
(* The pages that show and edit what the server has of a tenant: users,    *)
(* roles, audit log, registers and TSS (routes/admin), products            *)
(* (routes/inventory).  One page is open at a time; leaving it drops its   *)
(* state, and answers that arrive later are ignored.                       *)
(*                                                                         *)
(* A row is an item with the number of changes it has had, 0 while it does *)
(* not exist.  The handlers of the server are one step here, search and    *)
(* filters show everything, and messages are left out.                     *)
(*                                                                         *)
(* Bound: MaxCalls requests in a behaviour.                                *)
(***************************************************************************)
EXTENDS TenantBase

CONSTANTS
  Items,
  Home,      \* the tenant an item belongs to
  FirstOf,   \* the item of each tenant that is there from the start
  Entry,     \* the audit log of a tenant, as an item of it
  Part,      \* what the settings have an item for, a TSS or a register
  MaxCalls

Pages == {"users", "roles", "audit", "settings", "products"}

ASSUME PagesAssumption ==
  /\ Home \in [Items -> Tenants] /\ Part \in [Items -> {"tss", "register"}]
  /\ Entry \in [Tenants -> Items] /\ \A t \in Tenants : Home[Entry[t]] = t
  /\ FirstOf \in [Tenants -> Items]
  /\ Nothing \notin Items
  /\ MaxCalls \in Nat

VARIABLES
  db,      \* the rows of the server, by page
  scope,   \* the tenant the page is about
  page,    \* the page that is open
  visit,   \* how often a page was opened
  rows,    \* what it shows
  marker,  \* the item each control of the page is busy with
  editing, \* the item whose form is open
  calls,   \* the requests under way
  asked,   \* how many there have been
  mixed,   \* history: requests overlapped, or another form changed a row, since the last load
  failed   \* history: a request has failed since the last load

adminVars == <<db, scope, page, visit, rows, marker, editing, calls, asked, mixed, failed>>

Rows   == [Items -> Nat]
Kinds  == {"load", "add", "put", "drop", "aside"}
Controls == {"creating", "status", "assigning", "updating", "savingTss", "savingRegister",
             "importing", "savingProduct", "price", "none"}
NoRows == [i \in Items |-> 0]
Logs   == {Entry[t] : t \in Tenants}
Call   == [no : Nat, visit : Nat, page : Pages, kind : Kinds, scope : Tenants, item : Items \cup {Nothing},
           hold : Controls, served : BOOLEAN, gave : Rows, dropped : BOOLEAN]

\* What a load answers: the settings get every tenant, the other pages the rows of theirs.
Answered(p, t) == [i \in Items |-> IF p = "settings" \/ Home[i] = t THEN db[p][i] ELSE 0]

-----------------------------------------------------------------------------
(* Requests.  What the page does with the others when it makes one: a load   *)
(* of the products cancels the load before it, the other pages cancel none.  *)

NewCall(v, p, t, kind, item, hold) ==
  [no |-> asked + 1, visit |-> v, page |-> p, kind |-> kind, scope |-> t, item |-> item, hold |-> hold,
   served |-> FALSE, gave |-> NoRows, dropped |-> FALSE]

Cancelled(C, p) ==
  {IF p = "products" /\ c.kind = "load" THEN [c EXCEPT !.dropped = TRUE] ELSE c : c \in C}

Awaited(C) == {c \in C : c.visit = visit /\ ~c.dropped}

\* Another load of page p for tenant t, with the calls C still under way.
AskLoad(C, v, p, t, hold) ==
  LET others == Cancelled(C, p) IN
  /\ asked' = asked + 1
  /\ calls' = others \cup {NewCall(v, p, t, "load", Nothing, hold)}
  /\ mixed' = \E c \in others : ~c.dropped /\ (c.visit = v \/ c.kind # "load")
  /\ failed' = FALSE

AskChange(kind, i, hold) ==
  /\ asked < MaxCalls
  /\ asked' = asked + 1
  /\ calls' = calls \cup {NewCall(visit, page, scope, kind, i, hold)}
  /\ marker' = IF hold = "none" THEN marker ELSE [marker EXCEPT ![hold] = i]
  /\ mixed' = (mixed \/ kind = "aside"
               \/ \E c \in Awaited(calls) : c.kind = "load" \/ c.item = i)
  /\ UNCHANGED <<db, scope, page, visit, rows, editing, failed>>

Load(v, p, t) == asked < MaxCalls /\ AskLoad(calls, v, p, t, "none")

Free(control) == marker[control] = Nothing
Absent(i) == i \notin Logs /\ Home[i] = scope /\ db[page][i] = 0
             /\ \A c \in calls : c.kind = "add" => c.item # i

-----------------------------------------------------------------------------
(* Users, roles and the audit log share the tenant of the access pages.      *)

AccessPages == {"users", "roles", "audit"}

\* A page opens and loads; a tab of the access pages keeps the tenant.
OpenPage(p) ==
  /\ page \in AccessPages /\ p \in AccessPages \ {page}
  /\ page' = p /\ visit' = visit + 1
  /\ rows' = NoRows /\ marker' = [h \in Controls |-> Nothing] /\ editing' = Nothing
  /\ Load(visit + 1, p, scope)
  /\ UNCHANGED <<db, scope>>

\* handleTenantSubmit: the effect of the page loads again; what it shows stays until then.
SetTenant(t) ==
  /\ t # scope
  /\ scope' = t
  /\ editing' = Nothing
  /\ Load(visit, page, t)
  /\ UNCHANGED <<db, page, visit, rows, marker>>

\* The forms and rows of the pages; a button of a row is disabled while the row is the one under work.
UserForm(i)        == page = "users" /\ Free("creating") /\ Absent(i)
UserRow(i, button) == page = "users" /\ rows[i] # 0 /\ marker[button] # i
RoleForm(i)        == page = "roles" /\ Free("creating") /\ Absent(i)
RoleRow(i)         == page = "roles" /\ rows[i] # 0 /\ marker["updating"] # i

CreateUser(i)        == UserForm(i) /\ AskChange("add", i, "creating")
ToggleStatus(i)      == UserRow(i, "status") /\ AskChange("put", i, "status")
AssignRole(i)        == UserRow(i, "assigning") /\ AskChange("put", i, "assigning")
CreateRole(i)        == RoleForm(i) /\ AskChange("add", i, "creating")
UpdatePermissions(i) == RoleRow(i) /\ AskChange("put", i, "updating")

SetLimit ==
  /\ page = "audit"
  /\ Load(visit, page, scope)
  /\ UNCHANGED <<db, scope, page, visit, rows, marker, editing>>

-----------------------------------------------------------------------------
(* Registers and TSS: what is saved or deleted is followed by a load, and    *)
(* every load closes the forms.                                              *)

Saving(i) == IF Part[i] = "tss" THEN "savingTss" ELSE "savingRegister"

TssForm(i)      == page = "settings" /\ Part[i] = "tss" /\ Free("savingTss")
RegisterForm(i) == page = "settings" /\ Part[i] = "register" /\ Free("savingRegister")
ProfileRow(i)   == page = "settings" /\ rows[i] # 0 /\ Home[i] = scope
ProductRow(i)   == page = "products" /\ rows[i] # 0

RefreshProfiles ==
  /\ page = "settings"
  /\ Load(visit, page, scope)
  /\ UNCHANGED <<db, scope, page, visit, rows, marker, editing>>

StartEdit(i) ==
  /\ ProfileRow(i) \/ ProductRow(i)
  /\ editing # i /\ editing' = i
  /\ UNCHANGED <<db, scope, page, visit, rows, marker, calls, asked, mixed, failed>>

SubmitProfile(i) ==
  /\ TssForm(i) \/ RegisterForm(i)
  /\ \/ editing = i /\ AskChange("put", i, Saving(i))
     \/ editing = Nothing /\ Absent(i) /\ AskChange("add", i, Saving(i))

DeleteProfile(i) == ProfileRow(i) /\ AskChange("drop", i, "none")

-----------------------------------------------------------------------------
(* The inventory page: the products, and beside them forms that change a     *)
(* product without the list learning of it.                                  *)

SearchProducts ==
  /\ page = "products"
  /\ Load(visit, page, scope)
  /\ UNCHANGED <<db, scope, page, visit, rows, marker, editing>>

ImportProducts(i) ==
  page = "products" /\ Free("importing") /\ Absent(i) /\ AskChange("add", i, "importing")

ProductForm(i)   == page = "products" /\ editing = i /\ Free("savingProduct")
UpdateProduct(i) == ProductForm(i) /\ AskChange("put", i, "savingProduct")

PriceForm(i) ==
  page = "products" /\ db["products"][i] # 0 /\ Home[i] = scope /\ Free("price")
RecordPriceChange(i) == PriceForm(i) /\ AskChange("aside", i, "price")

-----------------------------------------------------------------------------
(* The server, and its answers.                                              *)

\* A change goes by the item's id; all pages but the settings name the tenant too, and the server
\* turns down an item of another one.
TurnedDown(c) ==
  \/ c.page # "settings" /\ Home[c.item] # c.scope
  \/ c.kind \in {"put", "aside"} /\ db[c.page][c.item] = 0

Changed(c) == IF c.kind = "drop" THEN 0 ELSE db[c.page][c.item] + 1

Release(c) == marker' = IF c.visit = visit THEN [marker EXCEPT ![c.hold] = Nothing] ELSE marker

Reply(c, answer) == calls' = (calls \ {c}) \cup {[c EXCEPT !.served = TRUE, !.gave = answer]}

ServeLoad(c) ==
  /\ c.kind = "load" /\ ~c.served
  /\ Reply(c, Answered(c.page, c.scope))
  /\ UNCHANGED <<db, scope, page, visit, rows, marker, editing, asked, mixed, failed>>

\* Changes to users and roles leave an entry in the audit log.
ServeChange(c) ==
  LET done == [db EXCEPT ![c.page][c.item] = Changed(c)] IN
  /\ c.kind # "load" /\ ~c.served /\ ~TurnedDown(c)
  /\ Reply(c, [NoRows EXCEPT ![c.item] = Changed(c)])
  /\ db' = IF c.page \in AccessPages THEN [done EXCEPT !["audit"][Entry[c.scope]] = @ + 1] ELSE done
  /\ UNCHANGED <<scope, page, visit, rows, marker, editing, asked, mixed, failed>>

TurnDown(c) ==
  /\ c.kind # "load" /\ ~c.served /\ TurnedDown(c)
  /\ calls' = calls \ {c}
  /\ Release(c)
  /\ UNCHANGED <<db, scope, page, visit, rows, editing, asked, mixed, failed>>

\* What the page shows after an answer: a load replaces the rows, a new row is added, a changed one
\* replaces its former self where the page has it.
RowsAfter(c) ==
  CASE c.kind = "load" -> c.gave
    [] c.kind = "add"  -> [rows EXCEPT ![c.item] = c.gave[c.item]]
    [] c.kind = "put" /\ rows[c.item] # 0 -> [rows EXCEPT ![c.item] = c.gave[c.item]]
    [] OTHER -> rows

\* Mutant: the settings are not loaded again after a change.
Followed_Imports(c) == c.kind # "load" /\ c.hold = "importing"

\* A change that is followed by a load: every one of the settings, which waits for it, and an
\* import of products.
Followed(c) == c.kind # "load" /\ (page = "settings" \/ c.hold = "importing")

EditingAfter(c) ==
  CASE page = "settings" -> Nothing
    [] c.hold = "savingProduct" -> c.item
    [] OTHER -> editing

Answer(c) ==
  /\ c.served /\ c \in Awaited(calls)
  /\ IF Followed(c)
       THEN /\ AskLoad(calls \ {c}, visit, page, scope, IF page = "settings" THEN c.hold ELSE "none")
            /\ marker' = IF page = "settings" THEN marker ELSE [marker EXCEPT ![c.hold] = Nothing]
            /\ UNCHANGED <<rows, editing>>
       ELSE /\ calls' = calls \ {c}
            /\ rows' = RowsAfter(c)
            /\ editing' = EditingAfter(c)
            /\ Release(c)
            /\ UNCHANGED <<asked, mixed, failed>>
  /\ UNCHANGED <<db, scope, page, visit>>

\* An answer nobody waits for: its page was left, or its load cancelled.
Ignore(c) ==
  /\ c.served /\ c \notin Awaited(calls)
  /\ calls' = calls \ {c}
  /\ UNCHANGED <<db, scope, page, visit, rows, marker, editing, asked, mixed, failed>>

\* A request fails, before or after the server has worked on it.
Lose(c) ==
  /\ calls' = calls \ {c}
  /\ Release(c)
  /\ failed' = (failed \/ c \in Awaited(calls))
  /\ UNCHANGED <<db, scope, page, visit, rows, editing, asked, mixed>>

-----------------------------------------------------------------------------
(* A behaviour starts with a page opened for a tenant, whose rows are there. *)

AdminInit(p, t) ==
  /\ db = [q \in Pages |-> [i \in Items |-> IF q # "audit" /\ i = FirstOf[Home[i]] THEN 1 ELSE 0]]
  /\ scope = t /\ page = p /\ visit = 1
  /\ rows = NoRows /\ marker = [h \in Controls |-> Nothing] /\ editing = Nothing
  /\ asked = 1 /\ calls = {[NewCall(1, p, t, "load", Nothing, "none") EXCEPT !.no = 1]}
  /\ mixed = FALSE /\ failed = FALSE

PagesNext ==
  \/ \E p \in Pages : OpenPage(p)
  \/ \E t \in Tenants : SetTenant(t)
  \/ SetLimit \/ RefreshProfiles \/ SearchProducts
  \/ \E i \in Items :
       \/ CreateUser(i) \/ ToggleStatus(i) \/ AssignRole(i)
       \/ CreateRole(i) \/ UpdatePermissions(i)
       \/ StartEdit(i) \/ SubmitProfile(i) \/ DeleteProfile(i)
       \/ ImportProducts(i) \/ UpdateProduct(i) \/ RecordPriceChange(i)
  \/ \E c \in calls :
       ServeLoad(c) \/ ServeChange(c) \/ TurnDown(c) \/ Answer(c) \/ Ignore(c) \/ Lose(c)

-----------------------------------------------------------------------------
AdminTypeOK ==
  /\ db \in [Pages -> Rows] /\ rows \in Rows
  /\ scope \in Tenants /\ page \in Pages /\ visit \in Nat /\ asked \in Nat
  /\ marker \in [Controls -> Items \cup {Nothing}] /\ editing \in Items \cup {Nothing}
  /\ calls \subseteq Call
  /\ mixed \in BOOLEAN /\ failed \in BOOLEAN

\* The pages under routes/admin and ProductManagement: once its requests are answered, a page shows
\* the rows the server has for its tenant, unless since the last load that ran alone a load has
\* overlapped with another request, two changes of one row have, a request has failed, or a form
\* beside the list has changed a row.
PageShowsServer ==
  Awaited(calls) = {} /\ ~mixed /\ ~failed => rows = Answered(page, scope)
=============================================================================
