---------------------------- MODULE PaymentQueue ----------------------------
(***************************************************************************)
(* One terminal of the POS front end (frontend/src/store/posStore.ts with  *)
(* frontend/src/store/offlineStorage.ts) taking payments over a network    *)
(* that loses answers, next to the backend's POST /pos/payments.           *)
(*                                                                         *)
(* JavaScript runs one thing at a time: an action is the code between two  *)
(* awaits.  What interleaves are the activations of processPayment, of     *)
(* syncQueuedPayments (interval timer, online event, diagnostics page) and *)
(* of retryQueuedPayment, and the readwrite transactions on IndexedDB's    *)
(* "payments" store, which the browser runs one by one in the order in     *)
(* which they were opened.                                                 *)
(***************************************************************************)
EXTENDS Naturals, Sequences, FiniteSets

CONSTANTS
  Scans,             \* units of goods put into the cart, each scanned once
  Payments,          \* presses of a pay button; also the id of the queue record
  Runs,              \* activations of syncQueuedPayments that may overlap
  NoPayment, NoRun,  \* "none" in Payments, in Runs
  DetectsDuplicates, \* TRUE: the server answers 409 to a payment it has sold
  FaultBudget,       \* bound on lost answers and error responses
  ReloadBudget,      \* bound on page reloads
  CartsInTransit     \* bound on the cart syncs under way at a time

ASSUME ConstantsAssumption ==
  /\ IsFiniteSet(Runs)
  /\ NoPayment \notin Payments
  /\ NoRun \notin Runs
  /\ DetectsDuplicates \in BOOLEAN
  /\ FaultBudget \in Nat
  /\ ReloadBudget \in Nat
  /\ CartsInTransit \in Nat

VARIABLES
  cart,          \* get().cart, as the set of scans in it
  scanned,       \* scans used so far
  paymentState,  \* get().paymentState
  initialized,   \* get().initialized
  mem,           \* get().queuedPayments: state of each record, or "none"
  store,         \* the same for IndexedDB's "payments" object store
  txq,           \* open readwrite transactions on that store, oldest first
  call,          \* the processPayment activation of each payment
  run,           \* the sync activations
  createdAt,     \* time stamp of each queue record
  clock,         \* source of the time stamps
  sales,         \* sales the server has committed for each payment
  orphans,       \* requests that may still reach the server, sender gone
  cached,        \* the server's copy of this terminal's cart; {}: none
  syncs,         \* carts on their way to the server; they may overtake
  named,         \* payments whose request names the terminal
  faults, reloads, \* budgets used
  discarded,     \* history: records the operator removed
  cutOff,        \* history: records and calls a start of the page dropped
  contended,     \* history: records two runs held at the same time
  ambiguous,     \* history: payments with an answer lost after it was sent
  raced,         \* history: payments started while another was in flight
  revived,       \* history: payments whose goods a start put back in the cart
  overtaken      \* history: payments whose goods were in a cart still under
                 \* way when the server cleared its copy for them

uiVars     == <<cart, scanned, paymentState, initialized>>
queueVars  == <<mem, store, txq>>
serverVars == <<sales, orphans>>
timeVars   == <<createdAt, clock>>
boundVars  == <<faults, reloads>>
histVars   == <<discarded, cutOff, contended, ambiguous, raced>>
cartVars   == <<cached, syncs, named, revived, overtaken>>
vars == <<uiVars, queueVars, call, run, timeVars, serverVars, boundVars,
          histVars, cartVars>>

-----------------------------------------------------------------------------
\* A pending record is "due", or "backoff" while its nextRetryAt lies ahead.
RecordStates == {"due", "backoff", "failed", "conflict"}
Pending      == {"due", "backoff"}
UiStates     == {"idle", "processing", "success", "error", "queued"}

CallStates == {"unused", "posting", "posted", "enqueueing", "patching",
               "accepted", "rejected", "parked", "gone"}
InFlight   == {"posting", "posted", "enqueueing"}

\* "posting": request sent; "posted": the server has committed the sale;
\* "persisting", "removing": after the 200; the last four wait for a patch.
RunStates == {"idle", "posting", "posted", "persisting", "removing",
              "marking", "backingOff", "stopping", "retrying"}

IdleRun == [pc |-> "idle", cur |-> NoPayment, todo |-> {}]

Transactions ==
  [op: {"add", "patch", "delete"}, id: Payments, by: Runs \cup {NoRun},
   state: RecordStates \cup {"keep"}]

Tx(op, p, r, s) == [op |-> op, id |-> p, by |-> r, state |-> s]

\* Run r has p in its snapshot and has not yet finished with it.
Holds(r, p) == /\ run[r].pc \notin {"idle", "retrying"}
               /\ p = run[r].cur \/ p \in run[r].todo

DueIn(queue) == {p \in Payments : queue[p] = "due"}

\* Seeded fault: the patch replaces the record instead of being merged into it.
Patched_Replaces(old, s) == IF old = "none" THEN old ELSE s

\* patchQueuedPayment: a record that is gone stays gone.
Patched(old, s) == IF old = "none" \/ s = "keep" THEN old ELSE s

\* applyQueuedPaymentPatch up to its await: patch the copy in memory, open the
\* transaction that patches IndexedDB.
ApplyPatch(r, p, s) ==
  /\ mem' = [mem EXCEPT ![p] = Patched(@, s)]
  /\ txq' = Append(txq, Tx("patch", p, r, s))
  /\ UNCHANGED store

\* Seeded fault: the record is deleted from IndexedDB only.
RemoveInternal_StoreOnly(r, p) ==
  txq' = Append(txq, Tx("delete", p, r, "keep")) /\ UNCHANGED <<mem, store>>

\* removeQueuedPaymentInternal up to its await.
RemoveInternal(r, p) ==
  /\ mem' = [mem EXCEPT ![p] = "none"]
  /\ txq' = Append(txq, Tx("delete", p, r, "keep"))
  /\ UNCHANGED store

\* Seeded fault: a run that has come to its end never gives up its place.
Proceed_NeverEnds(r, rest) ==
  \/ rest = {} /\ UNCHANGED run
  \/ \E p \in rest :
       run' = [run EXCEPT ![r] =
                 [pc |-> "posting", cur |-> p, todo |-> rest \ {p}]]

\* The loop of a run goes on with the oldest payment of the rest, or ends.
Proceed(r, rest) ==
  \/ /\ rest = {}
     /\ run' = [run EXCEPT ![r] = IdleRun]
  \/ \E p \in rest :
       /\ \A q \in rest : createdAt[p] =< createdAt[q]
       /\ run' = [run EXCEPT ![r] =
                    [pc |-> "posting", cur |-> p, todo |-> rest \ {p}]]

\* syncQueuedPayments from its first line to its first POST: the queue is
\* sorted and filtered once, what the run posts later comes from this copy.
TakeSnapshot(r, due) ==
  /\ Proceed(r, due)
  /\ contended' = contended \cup
       {p \in due : \E o \in Runs \ {r} : Holds(o, p)}

\* persistCart: the cart is POSTed to the server, unless the terminalId, which
\* the end of initialize sets, or the network is missing.
SendCart(items) ==
  \/ UNCHANGED syncs
  \/ /\ initialized
     /\ Cardinality(syncs) < CartsInTransit
     /\ syncs' = syncs \cup {items}

\* clearCachedCart, the server's last step before it answers a payment: what
\* else happens between the two may as well happen before or after both.
DropCachedCart(p) ==
  IF p \in named
  THEN /\ cached' = {}
       /\ overtaken' = IF call[p].items \cap UNION syncs # {}
                       THEN overtaken \cup {p} ELSE overtaken
  ELSE UNCHANGED <<cached, overtaken>>

Fault == faults < FaultBudget /\ faults' = faults + 1 /\ UNCHANGED reloads

Init ==
  /\ cart = {} /\ scanned = {}
  /\ paymentState = "idle" /\ initialized = FALSE
  /\ mem = [p \in Payments |-> "none"]
  /\ store = [p \in Payments |-> "none"]
  /\ txq = <<>>
  /\ call = [p \in Payments |-> [pc |-> "unused", items |-> {}]]
  /\ run = [r \in Runs |-> IdleRun]
  /\ createdAt = [p \in Payments |-> 0] /\ clock = 0
  /\ sales = [p \in Payments |-> 0]
  /\ orphans = [p \in Payments |-> 0]
  /\ faults = 0 /\ reloads = 0
  /\ discarded = {} /\ cutOff = {} /\ contended = {}
  /\ ambiguous = {} /\ raced = {}
  /\ cached = {} /\ syncs = {} /\ named = {} /\ revived = {} /\ overtaken = {}

-----------------------------------------------------------------------------
(* The operator and the page *)

AddToCart(s) ==
  /\ s \in Scans \ scanned
  /\ cart' = cart \cup {s}
  /\ scanned' = scanned \cup {s}
  /\ paymentState' = IF paymentState = "success" THEN "idle" ELSE paymentState
  /\ SendCart(cart')
  /\ UNCHANGED <<initialized, queueVars, call, run, timeVars, serverVars,
                 boundVars, histVars, cached, named,
                 revived, overtaken>>

RemoveFromCart(s) ==
  /\ s \in cart
  /\ cart' = cart \ {s}
  /\ paymentState' = IF paymentState = "success" THEN "idle" ELSE paymentState
  /\ SendCart(cart')
  /\ UNCHANGED <<scanned, initialized, queueVars, call, run, timeVars,
                 serverVars, boundVars, histVars, cached, named,
                 revived, overtaken>>

ClearCart ==
  /\ cart' = {}
  /\ paymentState' = "idle"
  /\ SendCart({})
  /\ UNCHANGED <<scanned, initialized, queueVars, call, run, timeVars,
                 serverVars, boundVars, histVars, cached, named,
                 revived, overtaken>>

\* The button is disabled while paymentState is "processing" and for an empty
\* cart; processPayment itself has no guard against a second activation.
ProcessPayment(p) ==
  /\ call[p].pc = "unused"
  /\ cart # {}
  /\ paymentState # "processing"
  /\ call' = [call EXCEPT ![p] = [pc |-> "posting", items |-> cart]]
  /\ paymentState' = "processing"
  /\ LET flying == {q \in Payments : call[q].pc \in InFlight}
     IN  raced' = IF flying = {} THEN raced ELSE raced \cup flying \cup {p}
  /\ named' = IF initialized THEN named \cup {p} ELSE named
  /\ UNCHANGED <<cart, scanned, initialized, queueVars, run, timeVars,
                 serverVars, boundVars, discarded, cutOff, contended, ambiguous,
                 cached, syncs, revived, overtaken>>

\* A sale.completed event that is not the latest sale the terminal knows: one
\* of another terminal, or its own before the answer to the POST.
ApplyRemoteSale ==
  /\ paymentState' = "idle"
  /\ UNCHANGED <<cart, scanned, initialized, queueVars, call, run, timeVars,
                 serverVars, boundVars, histVars, cartVars>>

\* The interval, the online event, setOffline and the diagnostics page all
\* start a run, whether or not another is under way.
SyncQueuedPayments(r) ==
  /\ run[r].pc = "idle"
  /\ DueIn(mem) # {}
  /\ TakeSnapshot(r, DueIn(mem))
  /\ UNCHANGED <<uiVars, queueVars, call, timeVars, serverVars, boundVars,
                 discarded, cutOff, ambiguous, raced, cartVars>>

RetryQueuedPayment(r, p) ==
  /\ run[r].pc = "idle"
  /\ mem[p] # "none"
  /\ ApplyPatch(r, p, "due")
  /\ run' = [run EXCEPT ![r] = [pc |-> "retrying", cur |-> p, todo |-> {}]]
  /\ UNCHANGED <<uiVars, call, timeVars, serverVars, boundVars, histVars,
                 cartVars>>

RemoveQueuedPayment(p) ==
  /\ mem[p] # "none"
  /\ RemoveInternal(NoRun, p)
  /\ discarded' = discarded \cup {p}
  /\ UNCHANGED <<uiVars, call, run, timeVars, serverVars, boundVars,
                 cutOff, contended, ambiguous, raced, cartVars>>

\* listQueuedPayments hands the IDBRequest of getAll() to runTransaction, which
\* resolves with the request itself; calling map on it throws, and the catch
\* returns the empty list.
ListQueuedPayments == [p \in Payments |-> "none"]

\* The end of initialize: everything it loaded replaces the state of the page.
\* The cart is the server's copy, or none when that has expired or cannot be
\* fetched: the stored cart suffers from the slip of the stored queue.  (The GET
\* of that copy is merged with the end.)
Initialize ==
  /\ ~initialized
  /\ initialized' = TRUE
  /\ mem' = ListQueuedPayments
  /\ cart' \in {cached, {}}
  /\ cutOff' = cutOff \cup {p \in Payments : mem[p] # "none"}
  /\ revived' = revived \cup
       {p \in Payments : /\ call[p].pc # "rejected"
                         /\ call[p].items \cap cart' # {}}
  /\ UNCHANGED <<scanned, paymentState, store, txq, call, run, timeVars,
                 serverVars, boundVars, discarded, contended, ambiguous, raced,
                 cached, syncs, named, overtaken>>

\* The page is reloaded or the browser crashes: memory is gone, open
\* transactions are aborted, requests already sent may still be served.
Reload ==
  /\ reloads < ReloadBudget
  /\ reloads' = reloads + 1
  /\ cart' = {} /\ paymentState' = "idle" /\ initialized' = FALSE
  /\ mem' = [p \in Payments |-> "none"]
  /\ txq' = <<>>
  /\ call' = [p \in Payments |->
                IF call[p].pc \in InFlight \cup {"patching", "parked"}
                THEN [call[p] EXCEPT !.pc = "gone"] ELSE call[p]]
  /\ run' = [r \in Runs |-> IdleRun]
  /\ orphans' = [p \in Payments |->
                   orphans[p]
                   + (IF call[p].pc = "posting" THEN 1 ELSE 0)
                   + Cardinality({r \in Runs : run[r].pc = "posting"
                                               /\ run[r].cur = p})]
  /\ cutOff' = cutOff \cup
       {p \in Payments : mem[p] # "none"
                         \/ call[p].pc \in InFlight \cup {"patching"}}
  /\ UNCHANGED <<scanned, store, timeVars, sales, faults, discarded,
                 contended, ambiguous, raced, cartVars>>

\* The clock passes a record's nextRetryAt.  The shortest delay is five
\* seconds, far longer than a transaction that still carries the stamp.
BackoffElapses(p) ==
  LET Wake(queue) == [queue EXCEPT ![p] = IF @ = "backoff" THEN "due" ELSE @]
  IN  /\ "backoff" \in {mem[p], store[p]}
      /\ \A i \in DOMAIN txq : txq[i].id # p
      /\ mem' = Wake(mem)
      /\ store' = Wake(store)
      /\ UNCHANGED <<uiVars, txq, call, run, timeVars, serverVars, boundVars,
                     histVars, cartVars>>

-----------------------------------------------------------------------------
(* The server.  A request carries no key that names the payment, so the    *)
(* server of this repository cannot tell a repetition (DetectsDuplicates = *)
(* FALSE); the client also has a branch for one that can.                  *)

CanCommit(p) == DetectsDuplicates => sales[p] = 0

Commit(p) == sales' = [sales EXCEPT ![p] = @ + 1]

CommitCall(p) ==
  /\ call[p].pc = "posting"
  /\ CanCommit(p)
  /\ Commit(p)
  /\ call' = [call EXCEPT ![p].pc = "posted"]
  /\ UNCHANGED <<uiVars, queueVars, run, timeVars, orphans, boundVars,
                 histVars, cartVars>>

CommitRun(r) ==
  /\ run[r].pc = "posting"
  /\ CanCommit(run[r].cur)
  /\ Commit(run[r].cur)
  /\ run' = [run EXCEPT ![r].pc = "posted"]
  /\ UNCHANGED <<uiVars, queueVars, call, timeVars, orphans, boundVars,
                 histVars, cartVars>>

\* A request whose sender no longer waits for it is served after all.
CommitOrphan(p) ==
  /\ orphans[p] > 0
  /\ CanCommit(p)
  /\ orphans' = [orphans EXCEPT ![p] = @ - 1]
  /\ Commit(p)
  /\ UNCHANGED <<uiVars, queueVars, call, run, timeVars, boundVars, histVars,
                 cartVars>>

\* The request of a payment whose answer nobody reads clears the cart as well.
ClearCachedCart(p) ==
  /\ p \in named \cap (ambiguous \cup cutOff)
  /\ sales[p] > 0
  /\ DropCachedCart(p)
  /\ UNCHANGED <<uiVars, queueVars, call, run, timeVars, serverVars, boundVars,
                 histVars, syncs, named, revived>>

\* A cart arrives at the server, in whatever order, and replaces its copy.
SyncCart(items) ==
  /\ items \in syncs
  /\ cached' = items
  /\ syncs' = syncs \ {items}
  /\ UNCHANGED <<uiVars, queueVars, call, run, timeVars, serverVars, boundVars,
                 histVars, named, revived, overtaken>>

\* No answer comes back for p.  Unless the request never left the terminal, a
\* sale may stand, or still come to stand, behind the missing answer.
LoseAnswer(p, pc) ==
  \/ /\ pc = "posting"
     /\ UNCHANGED <<orphans, ambiguous>>
  \/ /\ pc = "posting"
     /\ orphans' = [orphans EXCEPT ![p] = @ + 1]
     /\ ambiguous' = ambiguous \cup {p}
  \/ /\ pc = "posted"
     /\ ambiguous' = ambiguous \cup {p}
     /\ UNCHANGED orphans

\* An error response: before the sale is written, or (printer, mailer, Redis)
\* after it.
ErrorResponse(p, pc) ==
  /\ pc \in {"posting", "posted"}
  /\ ambiguous' = IF pc = "posted" THEN ambiguous \cup {p} ELSE ambiguous

-----------------------------------------------------------------------------
(* processPayment after its POST *)

\* Seeded fault: the cart is not emptied after a sale.
PaymentAccepted_KeepsCart(p) ==
  /\ call[p].pc = "posted"
  /\ call' = [call EXCEPT ![p].pc = "accepted"]
  /\ paymentState' = "success"
  /\ DropCachedCart(p)
  /\ SendCart({})
  /\ UNCHANGED <<cart, scanned, initialized, queueVars, run, timeVars,
                 serverVars, boundVars, histVars, named, revived>>

PaymentAccepted(p) ==
  /\ call[p].pc = "posted"
  /\ call' = [call EXCEPT ![p].pc = "accepted"]
  /\ cart' = {}
  /\ paymentState' = "success"
  /\ DropCachedCart(p)
  /\ SendCart({})
  /\ UNCHANGED <<scanned, initialized, queueVars, run, timeVars, serverVars,
                 boundVars, histVars, named, revived>>

\* Any response with an error status, 409 included: the cart is kept.
PaymentRejected(p) ==
  /\ \/ Fault
     \/ /\ DetectsDuplicates /\ sales[p] > 0 /\ call[p].pc = "posting"
        /\ UNCHANGED boundVars
  /\ ErrorResponse(p, call[p].pc)
  /\ call' = [call EXCEPT ![p].pc = "rejected"]
  /\ paymentState' = "error"
  /\ UNCHANGED <<cart, scanned, initialized, queueVars, run, timeVars,
                 serverVars, discarded, cutOff, contended, raced, cartVars>>

\* enqueuePayment: the record is stamped and its "add" transaction opened.
PaymentUnanswered(p) ==
  /\ Fault
  /\ LoseAnswer(p, call[p].pc)
  /\ call' = [call EXCEPT ![p].pc = "enqueueing"]
  /\ clock' = clock + 1
  /\ createdAt' = [createdAt EXCEPT ![p] = clock + 1]
  /\ txq' = Append(txq, Tx("add", p, NoRun, "due"))
  /\ UNCHANGED <<uiVars, mem, store, run, sales, discarded, cutOff, contended,
                 raced, cartVars>>

\* The add commits: the record enters the queue in memory, the cart is emptied
\* and the patch that sets the record's message is opened.
EnqueuePayment(p) ==
  /\ txq # <<>>
  /\ Head(txq).op = "add" /\ Head(txq).id = p
  /\ store' = [store EXCEPT ![p] = "due"]
  /\ mem' = [mem EXCEPT ![p] = "due"]
  /\ txq' = Append(Tail(txq), Tx("patch", p, NoRun, "keep"))
  /\ call' = [call EXCEPT ![p].pc = "patching"]
  /\ cart' = {}
  /\ paymentState' = "queued"
  /\ UNCHANGED <<scanned, initialized, run, timeVars, serverVars, boundVars,
                 histVars, cartVars>>

-----------------------------------------------------------------------------
(* IndexedDB: the oldest transaction commits and its owner runs on *)

\* Seeded faults: the patch returns the record it read, not the one it wrote;
\* the patch puts a removed record back into the queue.
CommitPatch_ReturnsOld(p, s) ==
  /\ txq # <<>>
  /\ Head(txq).op = "patch" /\ Head(txq).id = p /\ Head(txq).state = s
  /\ store' = [store EXCEPT ![p] = Patched(@, s)]
  /\ mem' = [mem EXCEPT ![p] = Patched(@, store[p])]
  /\ txq' = Tail(txq)

CommitPatch_Upserts(p, s) ==
  /\ txq # <<>>
  /\ Head(txq).op = "patch" /\ Head(txq).id = p /\ Head(txq).state = s
  /\ store' = [store EXCEPT ![p] = Patched(@, s)]
  /\ mem' = [mem EXCEPT ![p] = store'[p]]
  /\ txq' = Tail(txq)

\* A patch commits: the record it wrote replaces the one in memory, also where
\* another activation has patched that one in the meantime.
CommitPatch(p, s) ==
  /\ txq # <<>>
  /\ Head(txq).op = "patch" /\ Head(txq).id = p /\ Head(txq).state = s
  /\ store' = [store EXCEPT ![p] = Patched(@, s)]
  /\ mem' = IF store'[p] = "none" THEN mem
            ELSE [mem EXCEPT ![p] = Patched(@, store'[p])]
  /\ txq' = Tail(txq)

CommitDelete(p) ==
  /\ txq # <<>>
  /\ Head(txq).op = "delete" /\ Head(txq).id = p
  /\ store' = [store EXCEPT ![p] = "none"]
  /\ txq' = Tail(txq)
  /\ UNCHANGED mem

\* The patch of processPayment commits.
ParkPayment(p) ==
  /\ CommitPatch(p, "keep")
  /\ call' = [call EXCEPT ![p].pc = "parked"]
  /\ SendCart({})
  /\ UNCHANGED <<uiVars, run, timeVars, serverVars, boundVars, histVars,
                 cached, named, revived, overtaken>>

\* The delete of removeQueuedPayment, the operator's, commits.
RemovalDone(p) ==
  /\ CommitDelete(p)
  /\ Head(txq).by = NoRun
  /\ UNCHANGED <<uiVars, call, run, timeVars, serverVars, boundVars,
                 histVars, cartVars>>

-----------------------------------------------------------------------------
(* syncQueuedPayments after its POST *)

\* 200: persistCart([]) saves the empty cart, here and on the server, first.
SyncAccepted(r) ==
  /\ run[r].pc = "posted"
  /\ run' = [run EXCEPT ![r].pc = "persisting"]
  /\ DropCachedCart(run[r].cur)
  /\ SendCart({})
  /\ UNCHANGED <<uiVars, queueVars, call, timeVars, serverVars, boundVars,
                 histVars, named, revived>>

SyncRemove(r) ==
  /\ run[r].pc = "persisting"
  /\ RemoveInternal(r, run[r].cur)
  /\ run' = [run EXCEPT ![r].pc = "removing"]
  /\ UNCHANGED <<uiVars, call, timeVars, serverVars, boundVars, histVars,
                 cartVars>>

\* Only now does the page show the sale; it empties whatever cart is open.
SyncSettled(r) ==
  /\ CommitDelete(run[r].cur)
  /\ Head(txq).by = r
  /\ Proceed(r, run[r].todo)
  /\ cart' = {}
  /\ paymentState' = "success"
  /\ UNCHANGED <<scanned, initialized, call, timeVars, serverVars, boundVars,
                 histVars, cartVars>>

\* An answer other than 200: the record is patched to s, the run waits in pc.
Mark(r, s, pc) ==
  /\ ApplyPatch(r, run[r].cur, s)
  /\ run' = [run EXCEPT ![r].pc = pc]
  /\ UNCHANGED <<uiVars, call, timeVars, sales, discarded, cutOff, contended,
                 raced, cartVars>>

\* 409
SyncConflict(r) ==
  /\ run[r].pc = "posting"
  /\ DetectsDuplicates /\ sales[run[r].cur] > 0
  /\ Mark(r, "conflict", "marking")
  /\ UNCHANGED <<orphans, boundVars, ambiguous>>

\* 5xx or 429
SyncServerError(r) ==
  /\ Fault
  /\ ErrorResponse(run[r].cur, run[r].pc)
  /\ Mark(r, "backoff", "backingOff")
  /\ UNCHANGED orphans

\* Seeded fault: a refused payment is dropped.
SyncRefused_Drops(r) ==
  /\ Fault
  /\ run[r].pc = "posting"
  /\ RemoveInternal(r, run[r].cur)
  /\ run' = [run EXCEPT ![r].pc = "removing"]
  /\ UNCHANGED <<uiVars, call, timeVars, serverVars, histVars, cartVars>>

\* Any other status: the request was refused before the sale was written.
SyncRefused(r) ==
  /\ Fault
  /\ run[r].pc = "posting"
  /\ Mark(r, "failed", "marking")
  /\ UNCHANGED <<orphans, ambiguous>>

SyncUnanswered(r) ==
  /\ Fault
  /\ LoseAnswer(run[r].cur, run[r].pc)
  /\ Mark(r, "backoff", "stopping")

\* The patch of a run commits: continue, or break after a missing answer.
SyncMarked(r) ==
  /\ CommitPatch(run[r].cur, Head(txq).state)
  /\ Head(txq).by = r
  /\ run[r].pc # "retrying"
  /\ IF run[r].pc = "stopping" THEN run' = [run EXCEPT ![r] = IdleRun]
                               ELSE Proceed(r, run[r].todo)
  /\ paymentState' = IF run[r].pc = "marking" THEN "error" ELSE "queued"
  /\ UNCHANGED <<cart, scanned, initialized, call, timeVars, serverVars,
                 boundVars, histVars, cartVars>>

\* The patch of retryQueuedPayment commits and, if the browser says it is
\* online, it calls syncQueuedPayments.
RetryMarked(r) ==
  /\ CommitPatch(run[r].cur, Head(txq).state)
  /\ Head(txq).by = r
  /\ run[r].pc = "retrying"
  /\ \/ TakeSnapshot(r, DueIn(mem'))
     \/ run' = [run EXCEPT ![r] = IdleRun] /\ UNCHANGED contended
  /\ UNCHANGED <<uiVars, call, timeVars, serverVars, boundVars, discarded,
                 cutOff, ambiguous, raced, cartVars>>

-----------------------------------------------------------------------------
\* What a run, a call and the browser do of their own accord.
RunStep(r) ==
  \/ CommitRun(r) \/ SyncAccepted(r) \/ SyncRemove(r) \/ SyncSettled(r)
  \/ SyncConflict(r) \/ SyncMarked(r) \/ RetryMarked(r)

CallStep(p) ==
  CommitCall(p) \/ PaymentAccepted(p) \/ EnqueuePayment(p) \/ ParkPayment(p)

\* What the network, the server and time may do to them.
Disturb ==
  \/ \E p \in Payments : \/ CommitOrphan(p) \/ PaymentRejected(p)
                         \/ PaymentUnanswered(p)
  \/ \E r \in Runs : SyncServerError(r) \/ SyncRefused(r) \/ SyncUnanswered(r)
  \/ Reload

Operate ==
  \/ \E s \in Scans : AddToCart(s) \/ RemoveFromCart(s)
  \/ ClearCart \/ ApplyRemoteSale
  \/ \E p \in Payments : ProcessPayment(p) \/ RemoveQueuedPayment(p)
  \/ \E r \in Runs, p \in Payments : RetryQueuedPayment(r, p)

Next ==
  \/ Operate \/ Disturb \/ Initialize
  \/ \E r \in Runs : SyncQueuedPayments(r) \/ RunStep(r)
  \/ \E p \in Payments : \/ CallStep(p) \/ RemovalDone(p) \/ BackoffElapses(p)
                        \/ ClearCachedCart(p)
  \/ \E items \in syncs : SyncCart(items)

Spec == Init /\ [][Next]_vars

\* The page's event loop and the server go on.  While the browser is online the
\* interval of 8 s starts a run whenever a record is due, also when the operator
\* keeps all of Runs busy with retries, hence SF.  Nothing is assumed of the
\* operator, of faults or of reloads.
Fairness ==
  /\ \A r \in Runs : WF_vars(RunStep(r))
  /\ \A p \in Payments : WF_vars(CallStep(p)) /\ WF_vars(RemovalDone(p))
  /\ \A p \in Payments : WF_vars(BackoffElapses(p))
  /\ SF_vars(\E r \in Runs : SyncQueuedPayments(r))

FairSpec == Spec /\ Fairness

-----------------------------------------------------------------------------
TypeOK ==
  /\ cart \subseteq Scans /\ scanned \subseteq Scans
  /\ paymentState \in UiStates /\ initialized \in BOOLEAN
  /\ mem \in [Payments -> RecordStates \cup {"none"}]
  /\ store \in [Payments -> RecordStates \cup {"none"}]
  /\ txq \in Seq(Transactions)
  /\ call \in [Payments -> [pc : CallStates, items : SUBSET Scans]]
  /\ run \in [Runs -> [pc : RunStates, cur : Payments \cup {NoPayment},
                       todo : SUBSET Payments]]
  /\ createdAt \in [Payments -> Nat] /\ clock \in Nat
  /\ sales \in [Payments -> Nat] /\ orphans \in [Payments -> Nat]
  /\ faults \in Nat /\ reloads \in Nat
  /\ discarded \subseteq Payments /\ cutOff \subseteq Payments
  /\ contended \subseteq Payments /\ ambiguous \subseteq Payments
  /\ raced \subseteq Payments
  /\ cached \subseteq Scans /\ syncs \subseteq SUBSET Scans
  /\ named \subseteq Payments /\ revived \subseteq Payments
  /\ overtaken \subseteq Payments

\* A payment the page shows as queued is in IndexedDB, so that it survives a
\* crash: the add commits before memory is changed, a delete is opened after.
QueueIsPersisted ==
  \A p \in Payments : mem[p] # "none" => store[p] # "none"

\* With no transaction open for a record the page and IndexedDB agree on its
\* state, however the patches of overlapping activations interleaved.
AgreementAtRest ==
  \A p \in Payments :
    /\ mem[p] # "none"
    /\ \A i \in DOMAIN txq : txq[i].id # p
    => store[p] = mem[p]

\* An offline payment leaves the queue only once its sale is committed, unless
\* the operator removes it or a start of the page drops the whole queue.
NoSilentLoss ==
  \A p \in Payments :
    /\ call[p].pc \in {"patching", "parked"}
    /\ mem[p] = "none"
    => sales[p] > 0 \/ p \in discarded \cup cutOff

\* One payment is sold at most once, unless an answer to it was lost after the
\* request had left, or two sync runs had it in their snapshots together.
DuplicateSaleHasCause ==
  \A p \in Payments : sales[p] > 1 => p \in ambiguous \cup contended

\* Goods that were in one cart are sold at most once by different payments,
\* unless an answer was lost, the second button press fell into the flight of
\* the first, which a run or a remote sale makes possible by resetting
\* paymentState, or a start of the page brought the first one's cart back.  It
\* does so only for a payment that a start cut off or the operator removed, or
\* with a cart that reached the server after the payment had cleared its copy.
CartPaidTwiceHasCause ==
  /\ \A p, q \in Payments :
       /\ p # q
       /\ call[p].items \cap call[q].items # {}
       /\ sales[p] > 0 /\ sales[q] > 0
       => {p, q} \cap (ambiguous \cup raced \cup revived) # {}
  /\ revived \subseteq overtaken \cup discarded \cup cutOff

\* The life of a payment as PaymentLife tells it.
Stage(p) ==
  CASE call[p].pc = "unused"    -> "new"
    [] call[p].pc \in InFlight  -> "open"
    [] call[p].pc = "accepted"  -> "paid"
    [] call[p].pc = "rejected"  -> "refused"
    [] OTHER -> IF mem[p] = "none" THEN "left" ELSE "queued"

Life == INSTANCE PaymentLife WITH
  life <- [p \in Payments |-> Stage(p)], sold <- sales,
  doubt <- ambiguous \cup contended, dropped <- discarded \cup cutOff

\* The terminal and the server keep the promises of PaymentLife: whatever runs,
\* patches, reloads and late requests cross each other, a payment that has ended
\* does not begin again, none is settled unsold, and a second sale or one behind
\* a refusal has a lost answer or an overlap of two runs for its cause.
ImplementsPaymentLife == Life!Spec

\* A payment that has left the queue never comes back to it, although patches
\* for it may still be under way.
NeverRequeued ==
  [][\A p \in Payments :
       call[p].pc \in {"parked", "gone"} /\ mem[p] = "none" => mem'[p] = "none"]_vars

\* Every queued payment is eventually sold, refused or removed once the network
\* stops failing: no run is left waiting, no record is skipped for ever.
QueueDrains ==
  \A p \in Payments : mem[p] \in Pending ~> mem[p] \notin Pending

\* At most one sale for each press of the pay button.
AtMostOneSale == \A p \in Payments : sales[p] =< 1

\* Every payment record in IndexedDB is in the page's queue once the page has
\* been initialised and nothing is being written.
StoredQueueIsLoaded ==
  initialized /\ txq = <<>> =>
    \A p \in Payments : store[p] # "none" => mem[p] # "none"
=============================================================================
