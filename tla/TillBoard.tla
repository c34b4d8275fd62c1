------------------------------ MODULE TillBoard ------------------------------
(***************************************************************************)
(* What the cashier works with besides payments (posStore.ts): the cart,   *)
(* which the server's cache keeps over a reload, and the preorders and     *)
(* cash events, which are loaded once and then follow the events of the    *)
(* link.  The cart is written to the browser's storage too, but nothing    *)
(* ever comes back from there: loadCart returns the request for it.        *)
(*                                                                         *)
(* A note is a cash event or a preorder; a preorder leaves the board when  *)
(* it is picked up.  The lists are those of the till's tenant, the events  *)
(* those of all tenants.  The browser writes carts in the order they were  *)
(* made; requests to the server overtake each other.  Prices, totals and   *)
(* the offline flag are left out.                                          *)
(***************************************************************************)
EXTENDS TenantBase, Sequences

CONSTANTS
  Products,
  Unlisted,  \* a scanned code that is no product: it goes into the cart as it is
  Notes, Preorders,
  NoteOf,    \* the tenant of a note
  NoCart

ASSUME BoardAssumption ==
  /\ Unlisted \notin Products /\ Preorders \subseteq Notes /\ NoteOf \in [Notes -> Tenants]
  /\ NoCart \notin [Products \cup {Unlisted} -> Nat]

VARIABLES
  tenant,  \* the tenant of the till, kept in the browser's storage
  phase,   \* how far initialize is: "off", "storage", "cart", "lists", "tables", "on"
  cart,    \* the cart the cashier sees
  cached,  \* the cart in the server's cache
  writes,  \* the carts still to be sent, once the browser has written them
  syncs,   \* the carts on their way to the server
  held,    \* what initialize has collected: the cart and the notes
  desk,    \* the notes of the shop: "none", "open" or "gone"
  board,   \* the notes the cashier sees
  news,    \* the events on their way to the till
  moves,   \* bound: edits of the cart still to come
  meant,   \* history: the cart as the cashier has left it
  doubt,   \* history: the cache may not have the cart that was sent last
  lost,    \* history: a cart was edited during initialize or not yet sent at a reload, or initialize
           \* has asked a cache that may not have it, or had no answer
  missed,  \* history: an event was missed or came during initialize, or the lists are of another
           \* tenant or failed to load
  mingled  \* history: an event of another tenant has arrived

boardVars == <<tenant, phase, cart, cached, writes, syncs, held, desk, board, news, moves, meant,
               doubt, lost, missed, mingled>>
cartVars == <<phase, cart, cached, writes, syncs, moves, meant, doubt, lost>>
noteVars == <<tenant, desk, board, news, missed, mingled>>

Cart  == [Products \cup {Unlisted} -> Nat]
Empty == [p \in Products \cup {Unlisted} |-> 0]

BoardInit(edits, preset) ==
  /\ tenant = preset
  /\ phase = "off" /\ cart = Empty /\ cached = NoCart
  /\ writes = <<>> /\ syncs = {} /\ held = [cart |-> Empty, notes |-> {}]
  /\ desk = [n \in Notes |-> "none"] /\ board = {} /\ news = <<>>
  /\ moves = edits /\ meant = Empty
  /\ doubt = FALSE /\ lost = FALSE /\ missed = FALSE /\ mingled = FALSE

-----------------------------------------------------------------------------
(* The cart.                                                                 *)

\* What each edit does, to the cart and to the one the cashier has in mind.  Before initialize has
\* ended the terminal has no name to send the cart under, and initialize overwrites the edit.
Edit(new, intended) ==
  /\ phase # "off" /\ moves > 0 /\ moves' = moves - 1
  /\ cart' = new /\ meant' = intended
  /\ writes' = IF phase = "on" THEN Append(writes, new) ELSE writes
  /\ lost' = (lost \/ phase # "on")
  /\ UNCHANGED <<phase, cached, syncs, doubt, held, noteVars>>

AddToCart(p) == Edit([cart EXCEPT ![p] = @ + 1], [meant EXCEPT ![p] = @ + 1])

RemoveFromCart(p) ==
  cart[p] > 0 /\ Edit([cart EXCEPT ![p] = @ - 1], [meant EXCEPT ![p] = IF @ > 0 THEN @ - 1 ELSE 0])

ClearCart == cart # Empty /\ Edit(Empty, Empty)

\* persistCart, after the storage: buildCartPayload refuses a code that is no product.
PostCart ==
  /\ writes # <<>> /\ writes' = Tail(writes)
  /\ LET sendable == Head(writes)[Unlisted] = 0 IN
       /\ syncs' = IF sendable THEN syncs \cup {Head(writes)} ELSE syncs
       /\ doubt' = (~sendable \/ syncs # {})
  /\ UNCHANGED <<phase, cart, cached, held, moves, meant, lost, noteVars>>

SyncCart(c) ==
  /\ cached' = c
  /\ syncs' = syncs \ {c}
  /\ UNCHANGED <<phase, cart, writes, held, moves, meant, doubt, lost, noteVars>>

\* The request or its answer is lost.
SyncFails(c) ==
  /\ syncs' = syncs \ {c}
  /\ cached' \in {cached, c}
  /\ doubt' = TRUE
  /\ UNCHANGED <<phase, cart, writes, held, moves, meant, lost, noteVars>>

\* The cache forgets a cart after CART_TTL_SECONDS.
CartExpires ==
  /\ cached # NoCart /\ cached' = NoCart
  /\ doubt' = (doubt \/ cached # Empty)
  /\ UNCHANGED <<phase, cart, writes, syncs, held, moves, meant, lost, noteVars>>

-----------------------------------------------------------------------------
(* initialize, await by await.                                               *)

Start ==
  /\ phase = "off" /\ phase' = "storage"
  /\ UNCHANGED <<cart, cached, writes, syncs, moves, meant, doubt, lost, held, noteVars>>

\* What loadCart returns has no items.
ReadStorage ==
  /\ phase = "storage" /\ phase' = "cart"
  /\ held' = [held EXCEPT !.cart = Empty]
  /\ UNCHANGED <<cart, cached, writes, syncs, moves, meant, doubt, lost, noteVars>>

\* The cart of the server, if it has one, is written to the storage but not sent back.
GetCart ==
  /\ phase = "cart" /\ phase' = "lists"
  /\ held' = [held EXCEPT !.cart = IF cached = NoCart THEN @ ELSE cached]
  /\ lost' = (lost \/ doubt \/ syncs # {})
  /\ UNCHANGED <<cart, cached, writes, syncs, moves, meant, doubt, noteVars>>

GetCartFails ==
  /\ phase = "cart" /\ phase' = "lists"
  /\ lost' = TRUE
  /\ UNCHANGED <<cart, cached, writes, syncs, moves, meant, doubt, held, noteVars>>

Open == {n \in Notes : desk[n] = "open" /\ NoteOf[n] = tenant}

\* Without a tenant nothing is asked for.
LoadLists ==
  /\ phase = "lists" /\ phase' = "tables"
  /\ held' = [held EXCEPT !.notes = Open]
  /\ UNCHANGED <<cart, cached, writes, syncs, moves, meant, doubt, lost, noteVars>>

\* A list that cannot be loaded is shown empty.
ListsFail ==
  /\ phase = "lists" /\ phase' = "tables"
  /\ held' = [held EXCEPT !.notes = {}]
  /\ missed' = TRUE
  /\ UNCHANGED <<cart, cached, writes, syncs, moves, meant, doubt, lost, tenant, desk, board, news,
                 mingled>>

\* After the latest sale and the tables, everything is set at once.
Initialized ==
  /\ phase = "tables" /\ phase' = "on"
  /\ cart' = held.cart /\ board' = held.notes
  /\ UNCHANGED <<cached, writes, syncs, moves, meant, doubt, lost, held, tenant, desk, news, missed, mingled>>

\* The page is loaded anew: what was not sent yet is gone.
Reload ==
  /\ phase # "off" /\ phase' = "off"
  /\ cart' = Empty /\ writes' = <<>> /\ board' = {} /\ news' = <<>>
  /\ missed' = FALSE /\ mingled' = FALSE
  /\ held' = [cart |-> Empty, notes |-> {}]
  /\ lost' = (lost \/ writes # <<>>)
  /\ UNCHANGED <<cached, syncs, moves, meant, doubt, tenant, desk>>

-----------------------------------------------------------------------------
(* The board.                                                                *)

\* A cash event or preorder appears, or a preorder is picked up; whoever listens is told.
Happens(n) ==
  /\ \/ desk[n] = "none" /\ desk' = [desk EXCEPT ![n] = "open"]
     \/ n \in Preorders /\ desk[n] = "open" /\ desk' = [desk EXCEPT ![n] = "gone"]
  /\ news' = IF phase = "off" THEN news ELSE Append(news, <<n, desk'[n]>>)
  /\ UNCHANGED <<cartVars, tenant, held, board, missed, mingled>>

\* submitCashAdjustment: a deposit or withdrawal is on the board with the answer, if it arrives, and
\* again with the event.
RecordCash(n) ==
  /\ phase # "off" /\ n \notin Preorders /\ desk[n] = "none" /\ NoteOf[n] = tenant
  /\ desk' = [desk EXCEPT ![n] = "open"]
  /\ board' \in {board, board \cup {n}}
  /\ news' = Append(news, <<n, "open">>)
  /\ UNCHANGED <<cartVars, tenant, held, missed, mingled>>

\* Mutant: a preorder that was picked up stays.
Hear_KeepsPickedUp ==
  /\ news # <<>> /\ news' = Tail(news)
  /\ board' = board \cup {Head(news)[1]}
  /\ missed' = (missed \/ phase = "tables")
  /\ mingled' = (mingled \/ NoteOf[Head(news)[1]] # tenant)
  /\ UNCHANGED <<cartVars, tenant, held, desk>>

\* updatePreorder, addCashEvent, applyRemoteSale: merged by id, without the preorders picked up.
Hear ==
  /\ news # <<>> /\ news' = Tail(news)
  /\ LET n == Head(news)[1] IN
       board' = IF Head(news)[2] = "open" THEN board \cup {n} ELSE board \ {n}
  /\ missed' = (missed \/ phase = "tables")
  /\ mingled' = (mingled \/ NoteOf[Head(news)[1]] # tenant)
  /\ UNCHANGED <<cartVars, tenant, held, desk>>

\* The link breaks with what is on its way, and nothing loads the lists again.
Miss ==
  /\ news # <<>> /\ news' = <<>>
  /\ missed' = TRUE
  /\ UNCHANGED <<cartVars, tenant, held, desk, board, mingled>>

\* handleTenantSelection, setTenantId: the tenant is kept, and the lists stay those they were.
SelectTillTenant(t) ==
  /\ phase # "off" /\ t # tenant /\ tenant' = t
  /\ missed' = (missed \/ phase \in {"tables", "on"})
  /\ UNCHANGED <<cartVars, held, desk, board, news, mingled>>

CartNext ==
  \/ \E p \in Products \cup {Unlisted} : AddToCart(p) \/ RemoveFromCart(p)
  \/ ClearCart \/ PostCart \/ CartExpires
  \/ \E c \in syncs : SyncCart(c) \/ SyncFails(c)

InitializeNext ==
  Start \/ ReadStorage \/ GetCart \/ GetCartFails \/ LoadLists \/ ListsFail \/ Initialized \/ Reload

NoteNext ==
  \/ \E n \in Notes : Happens(n) \/ RecordCash(n)
  \/ Hear \/ Miss
  \/ \E t \in Tenants : SelectTillTenant(t)

-----------------------------------------------------------------------------
BoardTypeOK ==
  /\ phase \in {"off", "storage", "cart", "lists", "tables", "on"}
  /\ cart \in Cart /\ meant \in Cart
  /\ cached \in Cart \cup {NoCart}
  /\ writes \in Seq(Cart) /\ syncs \subseteq Cart /\ moves \in Nat
  /\ held \in [cart : Cart, notes : SUBSET Notes]
  /\ desk \in [Notes -> {"none", "open", "gone"}] /\ board \subseteq Notes
  /\ news \in Seq(Notes \X {"open", "gone"})
  /\ doubt \in BOOLEAN /\ lost \in BOOLEAN /\ missed \in BOOLEAN
  /\ mingled \in BOOLEAN /\ tenant \in Tenants \cup {Nothing}

\* posStore persistCart and initialize: a till that has started shows the cart its cashier left,
\* also after the page was loaded anew, unless a cart was edited before initialize had ended, a
\* reload came before the last cart was sent, or the server's cache, the only copy that is read,
\* could not be asked or may not have had that cart: it was refused or its request lost, another
\* was under way with it, it was not answered yet, or it has expired.
CartKept == phase = "on" /\ ~lost => cart = meant

\* initialize, the listeners of PosDashboard and setTenantId: it shows the notes of its tenant that
\* are open, unless an event was missed or came during initialize, the lists have failed, or the
\* tenant has changed since; and those of no one else until an event of another tenant arrives.
BoardKept ==
  phase = "on" /\ news = <<>> /\ ~missed =>
    /\ tenant # Nothing => Open = {n \in board : NoteOf[n] = tenant}
    /\ mingled \/ \A n \in board : NoteOf[n] = tenant
=============================================================================
