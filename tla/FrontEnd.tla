------------------------------ MODULE FrontEnd ------------------------------
(***************************************************************************)
(* The pages of the browser, each with the server behind it.  They share   *)
(* no state with one another, so a behaviour plays one scene and leaves    *)
(* the others as they are.                                                 *)
(***************************************************************************)
EXTENDS RealtimeLink, AdminPages, InventoryForms, ControlCenter, TillBoard, TableDesk, OrderTracking

VARIABLE scene

vars == <<scene, linkVars, adminVars, formVars, controlVars, boardVars, deskVars, trackingVars>>

Scenes == {"link", "pages", "receipt", "catalog", "counts", "control", "cart", "board", "tables", "order"}

Next ==
  /\ UNCHANGED scene
  /\ \/ scene = "link" /\ LinkNext
       /\ UNCHANGED <<adminVars, formVars, controlVars, boardVars, deskVars, trackingVars>>
     \/ scene = "pages" /\ PagesNext
       /\ UNCHANGED <<linkVars, formVars, controlVars, boardVars, deskVars, trackingVars>>
     \/ /\ \/ scene = "receipt" /\ ReceiptNext
           \/ scene = "catalog" /\ CatalogNext
           \/ scene = "counts" /\ CountNext
       /\ UNCHANGED <<linkVars, adminVars, controlVars, boardVars, deskVars, trackingVars>>
     \/ scene = "control" /\ ControlNext
       /\ UNCHANGED <<linkVars, adminVars, formVars, boardVars, deskVars, trackingVars>>
     \/ /\ \/ scene = "cart" /\ CartNext
           \/ scene = "board" /\ NoteNext
           \/ scene \in {"cart", "board"} /\ InitializeNext
       /\ UNCHANGED <<linkVars, adminVars, formVars, controlVars, deskVars, trackingVars>>
     \/ scene = "tables" /\ DeskNext
       /\ UNCHANGED <<linkVars, adminVars, formVars, controlVars, boardVars, trackingVars>>
     \/ scene = "order" /\ TrackingNext
       /\ UNCHANGED <<linkVars, adminVars, formVars, controlVars, boardVars, deskVars>>

\* The browser and the gateway do what they have begun: sockets open, deliver, close and are tried
\* again.  Nothing makes the operator, the network or the server act.
Progress ==
  /\ scene = "link" /\ LinkStep
  /\ UNCHANGED <<scene, adminVars, formVars, controlVars, boardVars, deskVars, trackingVars>>

\* One scene, with as much to happen and as much to start from as there may be.
FrontInit ==
  /\ scene \in Scenes
  /\ \E bounds \in [Acts -> Nat] : LinkInit(bounds)
  /\ \E p \in Pages, t \in Tenants : AdminInit(p, t)
  /\ FormsInit
  /\ \E first \in [Tenants -> AModule], bound \in Nat : ControlInit(first, bound)
  /\ \E edits \in Nat, preset \in Tenants \cup {Nothing} : BoardInit(edits, preset)
  /\ \E table \in Tables, checks \in Checks, bound \in Nat :
       Filled(checks) /\ DeskInit(table, checks, bound)
  /\ \E first \in Prefs, force \in BOOLEAN, bound \in Nat : TrackingInit(first, force, bound)

FrontSpec == FrontInit /\ [][Next]_vars

-----------------------------------------------------------------------------
\* Every variable of every page keeps its type.
TypeOK ==
  /\ scene \in Scenes
  /\ LinkTypeOK /\ AdminTypeOK /\ FormsTypeOK /\ ControlTypeOK /\ BoardTypeOK /\ DeskTypeOK
  /\ TrackingTypeOK

\* The pages that list what the server has, and the forms that send something to it.
PagesHaveCause == PageShowsServer /\ FormsHaveCause

\* The till: its cart, the notes of its tenant, and the tables it shares with other tills.
TillHasCause == CartKept /\ BoardKept /\ ItemsKept /\ ServedStaysServed
=============================================================================
