------------------------- MODULE PaymentQueueProofs -------------------------
(***************************************************************************)
(* Proofs about PaymentQueue, for any number of payments, sync runs,       *)
(* faults and reloads.  The first half is about the queue.  The second,    *)
(* which rests on its invariants, is about the sales: overlapping runs and *)
(* lost answers are the only causes of a second sale of one payment, lost  *)
(* answers and presses into a flight of goods paid for twice.  Together    *)
(* they show that the queue keeps the promises of PaymentLife.             *)
(***************************************************************************)
EXTENDS PaymentQueue, FiniteSetTheorems, TLAPS

-----------------------------------------------------------------------------
(* Lemmas about the FIFO of transactions and the small helpers *)

LEMMA AppendTx ==
  ASSUME NEW s \in Seq(Transactions), NEW t \in Transactions
  PROVE  /\ Append(s, t) \in Seq(Transactions)
         /\ \A i \in DOMAIN Append(s, t) :
              \/ i \in DOMAIN s /\ Append(s, t)[i] = s[i]
              \/ i = Len(s) + 1 /\ i \notin DOMAIN s /\ Append(s, t)[i] = t
  OBVIOUS

LEMMA TailTx ==
  ASSUME NEW s \in Seq(Transactions), s # <<>>
  PROVE  /\ Tail(s) \in Seq(Transactions)
         /\ Head(s) \in Transactions
         /\ 1 \in DOMAIN s /\ Head(s) = s[1]
         /\ \A i \in DOMAIN Tail(s) :
              i + 1 \in DOMAIN s /\ i + 1 # 1 /\ Tail(s)[i] = s[i + 1]
  OBVIOUS

LEMMA TxType ==
  ASSUME NEW p \in Payments, NEW r \in Runs \cup {NoRun},
         NEW op \in {"add", "patch", "delete"},
         NEW s \in RecordStates \cup {"keep"}
  PROVE  /\ Tx(op, p, r, s) \in Transactions
         /\ Tx(op, p, r, s).op = op /\ Tx(op, p, r, s).id = p
         /\ Tx(op, p, r, s).state = s /\ Tx(op, p, r, s).by = r
  BY DEF Tx, Transactions

LEMMA PatchedType ==
  ASSUME NEW old \in RecordStates \cup {"none"}, NEW s \in RecordStates \cup {"keep"}
  PROVE  /\ Patched(old, s) \in RecordStates \cup {"none"}
         /\ Patched(old, s) = "none" <=> old = "none"
  BY DEF Patched, RecordStates

-----------------------------------------------------------------------------
(* Type correctness *)

RunRecord == [pc : RunStates, cur : Payments \cup {NoPayment},
              todo : SUBSET Payments]

RunType == [Runs -> RunRecord]

PostingRun(p, rest) == [pc |-> "posting", cur |-> p, todo |-> rest \ {p}]

LEMMA IdleRunType == IdleRun \in RunRecord /\ IdleRun.pc = "idle"
  BY DEF IdleRun, RunRecord, RunStates

LEMMA PostingRunType ==
  ASSUME NEW rest \in SUBSET Payments, NEW p \in rest
  PROVE  /\ PostingRun(p, rest) \in RunRecord
         /\ PostingRun(p, rest).pc = "posting"
         /\ PostingRun(p, rest).cur = p
         /\ PostingRun(p, rest).todo = rest \ {p}
  BY DEF PostingRun, RunRecord, RunStates

\* What Proceed does, with the two records a run may be left in made opaque.
LEMMA ProceedCases ==
  ASSUME NEW r \in Runs, NEW rest \in SUBSET Payments, Proceed(r, rest)
  PROVE  \/ rest = {} /\ run' = [run EXCEPT ![r] = IdleRun]
         \/ \E p \in rest : run' = [run EXCEPT ![r] = PostingRun(p, rest)]
  BY DEF Proceed, PostingRun

LEMMA ProceedType ==
  ASSUME run \in RunType, NEW r \in Runs, NEW rest \in SUBSET Payments,
         Proceed(r, rest)
  PROVE  run' \in RunType
  <1>1. CASE run' = [run EXCEPT ![r] = IdleRun]
    BY <1>1, IdleRunType DEF RunType
  <1>2. CASE \E p \in rest : run' = [run EXCEPT ![r] = PostingRun(p, rest)]
    <2>1. PICK p \in rest : run' = [run EXCEPT ![r] = PostingRun(p, rest)]
      BY <1>2
    <2>2. PostingRun(p, rest) \in RunRecord
      BY PostingRunType
    <2>3. QED
      BY <2>1, <2>2 DEF RunType
  <1>3. QED
    BY <1>1, <1>2, ProceedCases

LEMMA ApplyPatchType ==
  ASSUME TypeOK, NEW p \in Payments, NEW r \in Runs, NEW s \in RecordStates,
         ApplyPatch(r, p, s)
  PROVE  /\ mem' \in [Payments -> RecordStates \cup {"none"}]
         /\ txq' \in Seq(Transactions)
  <1>1. Patched(mem[p], s) \in RecordStates \cup {"none"}
    BY PatchedType DEF TypeOK
  <1>2. Tx("patch", p, r, s) \in Transactions
    BY TxType
  <1>3. QED
    BY <1>1, <1>2, AppendTx DEF ApplyPatch, TypeOK

LEMMA RemoveInternalType ==
  ASSUME TypeOK, NEW p \in Payments, NEW r \in Runs \cup {NoRun},
         RemoveInternal(r, p)
  PROVE  /\ mem' \in [Payments -> RecordStates \cup {"none"}]
         /\ txq' \in Seq(Transactions)
  <1>1. Tx("delete", p, r, "keep") \in Transactions
    BY TxType
  <1>2. QED
    BY <1>1, AppendTx DEF RemoveInternal, TypeOK

LEMMA CommitPatchType ==
  ASSUME TypeOK, NEW p, NEW s, CommitPatch(p, s)
  PROVE  /\ p \in Payments
         /\ mem' \in [Payments -> RecordStates \cup {"none"}]
         /\ store' \in [Payments -> RecordStates \cup {"none"}]
         /\ txq' \in Seq(Transactions)
  <1>1. /\ Head(txq) \in Transactions
        /\ txq' \in Seq(Transactions)
    BY TailTx DEF CommitPatch, TypeOK
  <1>2. p \in Payments /\ s \in RecordStates \cup {"keep"}
    BY <1>1 DEF CommitPatch, Transactions
  <1>3. Patched(store[p], s) \in RecordStates \cup {"none"}
    BY <1>2, PatchedType DEF TypeOK
  <1>4. store' \in [Payments -> RecordStates \cup {"none"}]
    BY <1>3 DEF CommitPatch, TypeOK
  <1>5. ASSUME store'[p] # "none"
        PROVE  Patched(mem[p], store'[p]) \in RecordStates \cup {"none"}
    BY <1>2, <1>4, <1>5, PatchedType DEF TypeOK
  <1>6. mem' \in [Payments -> RecordStates \cup {"none"}]
    BY <1>5 DEF CommitPatch, TypeOK
  <1>7. QED
    BY <1>1, <1>2, <1>4, <1>6

LEMMA CommitDeleteType ==
  ASSUME TypeOK, NEW p, CommitDelete(p)
  PROVE  /\ store' \in [Payments -> RecordStates \cup {"none"}]
         /\ txq' \in Seq(Transactions)
  BY TailTx DEF CommitDelete, TypeOK

LEMMA MarkType ==
  ASSUME TypeOK, NEW r \in Runs, run[r].cur \in Payments,
         NEW s \in RecordStates, NEW pc \in RunStates, Mark(r, s, pc)
  PROVE  /\ mem' \in [Payments -> RecordStates \cup {"none"}]
         /\ txq' \in Seq(Transactions)
         /\ run' \in RunType
  <1>1. /\ mem' \in [Payments -> RecordStates \cup {"none"}]
        /\ txq' \in Seq(Transactions)
    BY ApplyPatchType DEF Mark
  <1>2. run' = [run EXCEPT ![r].pc = pc]
    BY DEF Mark
  <1>3. run \in RunType
    BY DEF TypeOK, RunType, RunRecord
  <1>4. run' \in RunType
    BY <1>2, <1>3 DEF RunType, RunRecord
  <1>5. QED
    BY <1>1, <1>4

\* A run that is under way works on a payment that is not in the rest of its
\* snapshot.
RunShape == \A r \in Runs : run[r].pc # "idle" => run[r].cur \in Payments \ run[r].todo

TypeInv == TypeOK /\ RunShape

LEMMA ProceedShape ==
  ASSUME TypeInv, NEW r \in Runs, NEW rest \in SUBSET Payments, Proceed(r, rest)
  PROVE  RunShape'
  <1>1. run \in RunType /\ RunShape
    BY DEF TypeInv, TypeOK, RunType, RunRecord
  <1>2. CASE run' = [run EXCEPT ![r] = IdleRun]
    BY <1>1, <1>2, IdleRunType DEF RunShape, RunType
  <1>3. CASE \E p \in rest : run' = [run EXCEPT ![r] = PostingRun(p, rest)]
    <2>1. PICK p \in rest : run' = [run EXCEPT ![r] = PostingRun(p, rest)]
      BY <1>3
    <2>2. p \in Payments /\ PostingRun(p, rest).cur = p
          /\ PostingRun(p, rest).todo = rest \ {p}
      BY PostingRunType
    <2>3. QED
      BY <1>1, <2>1, <2>2 DEF RunShape, RunType
  <1>4. QED
    BY <1>2, <1>3, ProceedCases

LEMMA TypeInvInit == Init => TypeInv
  <1> SUFFICES ASSUME Init PROVE TypeInv
    OBVIOUS
  <1>1. run = [r \in Runs |-> IdleRun]
    BY DEF Init
  <1>2. run \in RunType /\ RunShape
    BY <1>1, IdleRunType DEF RunType, RunShape
  <1>3. call \in [Payments -> [pc : CallStates, items : SUBSET Scans]]
    BY DEF Init, CallStates
  <1>4. mem \in [Payments -> RecordStates \cup {"none"}] /\ mem = store
    BY DEF Init
  <1>5. txq \in Seq(Transactions)
    BY DEF Init
  <1>6. /\ cart \subseteq Scans /\ scanned \subseteq Scans
        /\ paymentState \in UiStates /\ initialized \in BOOLEAN
    BY DEF Init, UiStates
  <1>7. /\ createdAt \in [Payments -> Nat] /\ clock \in Nat
        /\ sales \in [Payments -> Nat] /\ orphans \in [Payments -> Nat]
        /\ faults \in Nat /\ reloads \in Nat
        /\ discarded \subseteq Payments /\ cutOff \subseteq Payments
        /\ contended \subseteq Payments /\ ambiguous \subseteq Payments
        /\ raced \subseteq Payments
        /\ cached \subseteq Scans /\ syncs \subseteq SUBSET Scans
        /\ named \subseteq Payments /\ revived \subseteq Payments
        /\ overtaken \subseteq Payments
    BY DEF Init
  <1>8. QED
    BY <1>2, <1>3, <1>4, <1>5, <1>6, <1>7
    DEF TypeInv, TypeOK, RunType, RunRecord

QueueType == /\ mem \in [Payments -> RecordStates \cup {"none"}]
             /\ store \in [Payments -> RecordStates \cup {"none"}]
             /\ txq \in Seq(Transactions)

CallType == [Payments -> [pc : CallStates, items : SUBSET Scans]]

UiType == /\ cart \subseteq Scans /\ scanned \subseteq Scans
          /\ paymentState \in UiStates /\ initialized \in BOOLEAN

CountType == /\ createdAt \in [Payments -> Nat] /\ clock \in Nat
             /\ sales \in [Payments -> Nat] /\ orphans \in [Payments -> Nat]
             /\ faults \in Nat /\ reloads \in Nat

HistType == /\ discarded \subseteq Payments /\ cutOff \subseteq Payments
            /\ contended \subseteq Payments /\ ambiguous \subseteq Payments
            /\ raced \subseteq Payments

CacheType == /\ cached \subseteq Scans /\ syncs \subseteq SUBSET Scans
             /\ named \subseteq Payments /\ revived \subseteq Payments
             /\ overtaken \subseteq Payments

LEMMA TypeParts ==
  TypeInv <=> /\ UiType /\ QueueType /\ call \in CallType
              /\ run \in RunType /\ RunShape /\ CountType /\ HistType
              /\ CacheType
  BY DEF TypeInv, TypeOK, UiType, QueueType, CallType, RunType, RunRecord,
         CountType, HistType, CacheType

LEMMA TypePartsPrime ==
  ASSUME UiType', QueueType', (call \in CallType)', (run \in RunType)', RunShape',
         CountType', HistType', CacheType'
  PROVE  TypeInv'
  BY DEF TypeInv, TypeOK, UiType, QueueType, CallType, RunType, RunRecord,
         CountType, HistType, CacheType

\* Only the phase of one run, or of one call, changes.
LEMMA RunPcType ==
  ASSUME run \in RunType, RunShape, NEW r \in Runs, run[r].pc # "idle",
         NEW pc \in RunStates, run' = [run EXCEPT ![r].pc = pc]
  PROVE  /\ run' \in RunType /\ RunShape'
         /\ run'[r].pc = pc
         /\ \A o \in Runs : /\ run'[o].cur = run[o].cur
                            /\ run'[o].todo = run[o].todo
                            /\ o # r => run'[o].pc = run[o].pc
  BY DEF RunType, RunRecord, RunShape

LEMMA CallPcType ==
  ASSUME call \in CallType, NEW p \in Payments, NEW pc \in CallStates,
         call' = [call EXCEPT ![p].pc = pc]
  PROVE  /\ call' \in CallType
         /\ call'[p].pc = pc
         /\ \A q \in Payments : q # p => call'[q] = call[q]
  BY DEF CallType

\* Requests of runs for p that the server has not served yet.
Posting(p) == Cardinality({r \in Runs : run[r].pc = "posting" /\ run[r].cur = p})

\* The carts the server holds, or has still to get.
Copies == cached \cup UNION syncs

\* What a step may do to these copies: none is added, or the open cart is sent,
\* which lost goods or got a new one, and no call has moved.
CopiesKeep ==
  \/ Copies' \subseteq Copies
  \/ /\ initialized /\ initialized' /\ Copies' \subseteq Copies \cup cart'
     /\ cart' \subseteq cart \cup (scanned' \ scanned) /\ call' = call

LEMMA SendCartCopies ==
  ASSUME NEW items, SendCart(items), cached' \in {cached, {}}
  PROVE  Copies' \subseteq Copies \cup items
  BY DEF SendCart, Copies

LEMMA DropCachedCartKeeps ==
  ASSUME NEW p \in Payments, DropCachedCart(p)
  PROVE  /\ cached' \in {cached, {}}
         /\ overtaken \subseteq overtaken' /\ overtaken' \subseteq overtaken \cup {p}
  BY DEF DropCachedCart

LEMMA CacheTypeNext ==
  ASSUME UiType, CacheType, run \in RunType, RunShape, [Next]_vars
  PROVE  CacheType'
  <1>1. CASE UNCHANGED cartVars
    BY <1>1 DEF CacheType, cartVars
  <1>2. ASSUME NEW items \in SUBSET Scans, SendCart(items),
               UNCHANGED <<cached, named, revived, overtaken>>
        PROVE  CacheType'
    BY <1>2 DEF CacheType, SendCart
  <1>3. ASSUME NEW p \in Payments, DropCachedCart(p), SendCart({}),
               UNCHANGED <<named, revived>>
        PROVE  CacheType'
    <2>1. syncs' \subseteq syncs \cup {{}}
      BY <1>3 DEF SendCart
    <2>2. QED
      BY <1>3, <2>1, DropCachedCartKeeps DEF CacheType
  <1>4. ASSUME NEW s \in Scans, AddToCart(s) \/ RemoveFromCart(s) PROVE CacheType'
    <2>1. cart' \in SUBSET Scans
      BY <1>4 DEF AddToCart, RemoveFromCart, UiType
    <2>2. QED
      BY <1>2, <1>4, <2>1 DEF AddToCart, RemoveFromCart
  <1>5. CASE ClearCart
    BY <1>2, <1>5 DEF ClearCart
  <1>6. ASSUME NEW p \in Payments, ProcessPayment(p) PROVE CacheType'
    BY <1>6 DEF ProcessPayment, CacheType
  <1>7. CASE Initialize
    BY <1>7 DEF Initialize, CacheType
  <1>8. ASSUME NEW p \in Payments, ClearCachedCart(p) PROVE CacheType'
    BY <1>8, DropCachedCartKeeps DEF ClearCachedCart, CacheType
  <1>9. ASSUME NEW items \in syncs, SyncCart(items) PROVE CacheType'
    BY <1>9 DEF SyncCart, CacheType
  <1>10. ASSUME NEW p \in Payments, PaymentAccepted(p) PROVE CacheType'
    BY <1>3, <1>10 DEF PaymentAccepted
  <1>11. ASSUME NEW p \in Payments, ParkPayment(p) PROVE CacheType'
    BY <1>2, <1>11 DEF ParkPayment
  <1>12. ASSUME NEW r \in Runs, SyncAccepted(r) PROVE CacheType'
    <2>1. run[r].cur \in Payments
      BY <1>12 DEF SyncAccepted, RunShape
    <2>2. QED
      BY <1>3, <1>12, <2>1 DEF SyncAccepted
  <1>13. QED
    BY <1>1, <1>4, <1>5, <1>6, <1>7, <1>8, <1>9, <1>10, <1>11, <1>12
    DEF Next, Operate, Disturb, RunStep, CallStep, vars, ApplyRemoteSale,
        SyncQueuedPayments, RetryQueuedPayment, RemoveQueuedPayment, Reload,
        BackoffElapses, CommitCall, CommitRun, CommitOrphan, PaymentRejected,
        PaymentUnanswered, EnqueuePayment, RemovalDone, SyncRemove, SyncSettled,
        SyncConflict, SyncServerError, SyncRefused, SyncUnanswered, Mark,
        SyncMarked, RetryMarked, cartVars

LEMMA TypeInvNext == TypeInv /\ [Next]_vars => TypeInv'
  <1> SUFFICES ASSUME TypeInv, [Next]_vars PROVE TypeInv'
    OBVIOUS
  <1>0. /\ TypeOK /\ UiType /\ QueueType /\ call \in CallType
        /\ run \in RunType /\ RunShape /\ CountType /\ HistType /\ CacheType
    BY TypeParts DEF TypeInv
  <1>c. CacheType'
    BY <1>0, CacheTypeNext
  <1>1. ASSUME NEW s \in Scans, AddToCart(s) PROVE TypeInv'
    BY <1>0, <1>1, <1>c, TypePartsPrime
    DEF AddToCart, uiVars, queueVars, timeVars, serverVars, boundVars, histVars,
       UiType, QueueType, CountType, HistType, RunShape, UiStates
  <1>2. ASSUME NEW s \in Scans, RemoveFromCart(s) PROVE TypeInv'
    BY <1>0, <1>2, <1>c, TypePartsPrime
    DEF RemoveFromCart, uiVars, queueVars, timeVars, serverVars, boundVars,
       histVars, UiType, QueueType, CountType, HistType, RunShape, UiStates
  <1>3. ASSUME ClearCart PROVE TypeInv'
    BY <1>0, <1>3, <1>c, TypePartsPrime
    DEF ClearCart, uiVars, queueVars, timeVars, serverVars, boundVars, histVars,
       UiType, QueueType, CountType, HistType, RunShape, UiStates
  <1>4. ASSUME ApplyRemoteSale PROVE TypeInv'
    BY <1>0, <1>4, <1>c, TypePartsPrime
    DEF ApplyRemoteSale, uiVars, queueVars, timeVars, serverVars, boundVars,
       histVars, UiType, QueueType, CountType, HistType, RunShape, UiStates
  <1>5. ASSUME NEW p \in Payments, CommitOrphan(p) PROVE TypeInv'
    BY <1>0, <1>5, <1>c, TypePartsPrime
    DEF CommitOrphan, uiVars, queueVars, timeVars, serverVars, boundVars,
       histVars, UiType, QueueType, CountType, HistType, RunShape, Commit
  <1>6. ASSUME NEW p \in Payments, ProcessPayment(p) PROVE TypeInv'
    <2>1. QueueType'
      BY <1>0, <1>6 DEF ProcessPayment, queueVars, QueueType
    <2>2. (run \in RunType)' /\ RunShape'
      BY <1>0, <1>6 DEF ProcessPayment, RunShape
    <2>3. (call \in CallType)'
      BY <1>0, <1>6 DEF ProcessPayment, CallType, CallStates, UiType
    <2>4. UiType' /\ CountType' /\ HistType'
      BY <1>0, <1>6 DEF ProcessPayment, UiType, CountType, HistType,
             uiVars, timeVars, serverVars, boundVars, histVars, UiStates
    <2>5. QED
      BY <2>1, <2>2, <2>3, <2>4, <1>c, TypePartsPrime
  <1>7. ASSUME NEW r \in Runs, SyncQueuedPayments(r) PROVE TypeInv'
    <2>1. QueueType'
      BY <1>0, <1>7 DEF SyncQueuedPayments, queueVars, QueueType
    <2>2. (run \in RunType)' /\ RunShape'
      <3>1. Proceed(r, DueIn(mem)) /\ DueIn(mem) \in SUBSET Payments
        BY <1>7 DEF SyncQueuedPayments, TakeSnapshot, DueIn
      <3>2. QED
        BY <1>0, <3>1, ProceedType, ProceedShape
    <2>3. (call \in CallType)'
      BY <1>0, <1>7 DEF SyncQueuedPayments
    <2>4. UiType' /\ CountType' /\ HistType'
      BY <1>0, <1>7 DEF SyncQueuedPayments, UiType, CountType, HistType,
             uiVars, timeVars, serverVars, boundVars, histVars, TakeSnapshot, DueIn
    <2>5. QED
      BY <2>1, <2>2, <2>3, <2>4, <1>c, TypePartsPrime
  <1>8. ASSUME NEW r \in Runs, NEW p \in Payments, RetryQueuedPayment(r, p) PROVE TypeInv'
    <2>1. QueueType'
      BY <1>0, <1>8, ApplyPatchType DEF RetryQueuedPayment, QueueType,
         ApplyPatch, RecordStates
    <2>2. (run \in RunType)' /\ RunShape'
      BY <1>0, <1>8 DEF RetryQueuedPayment, RunType, RunRecord, RunShape, RunStates
    <2>3. (call \in CallType)'
      BY <1>0, <1>8 DEF RetryQueuedPayment
    <2>4. UiType' /\ CountType' /\ HistType'
      BY <1>0, <1>8 DEF RetryQueuedPayment, UiType, CountType, HistType,
             uiVars, timeVars, serverVars, boundVars, histVars
    <2>5. QED
      BY <2>1, <2>2, <2>3, <2>4, <1>c, TypePartsPrime
  <1>9. ASSUME NEW p \in Payments, RemoveQueuedPayment(p) PROVE TypeInv'
    <2>1. QueueType'
      BY <1>0, <1>9, RemoveInternalType DEF RemoveQueuedPayment, QueueType,
         RemoveInternal
    <2>2. (run \in RunType)' /\ RunShape'
      BY <1>0, <1>9 DEF RemoveQueuedPayment, RunShape
    <2>3. (call \in CallType)'
      BY <1>0, <1>9 DEF RemoveQueuedPayment
    <2>4. UiType' /\ CountType' /\ HistType'
      BY <1>0, <1>9 DEF RemoveQueuedPayment, UiType, CountType, HistType,
             uiVars, timeVars, serverVars, boundVars, histVars
    <2>5. QED
      BY <2>1, <2>2, <2>3, <2>4, <1>c, TypePartsPrime
  <1>10. ASSUME Initialize PROVE TypeInv'
    <2>1. QueueType'
      BY <1>0, <1>10 DEF Initialize, ListQueuedPayments, QueueType
    <2>2. (run \in RunType)' /\ RunShape'
      BY <1>0, <1>10 DEF Initialize, RunShape
    <2>3. (call \in CallType)'
      BY <1>0, <1>10 DEF Initialize
    <2>4. UiType' /\ CountType' /\ HistType'
      BY <1>0, <1>10 DEF Initialize, UiType, CountType, HistType, CacheType,
             uiVars, timeVars, serverVars, boundVars, histVars
    <2>5. QED
      BY <2>1, <2>2, <2>3, <2>4, <1>c, TypePartsPrime
  <1>11. ASSUME Reload PROVE TypeInv'
    <2>1. QueueType'
      BY <1>0, <1>11 DEF Reload, QueueType
    <2>2. (run \in RunType)' /\ RunShape'
      BY <1>0, <1>11, IdleRunType DEF Reload, RunType, RunShape
    <2>3. (call \in CallType)'
      BY <1>0, <1>11 DEF Reload, CallType, CallStates
    <2>4. UiType' /\ CountType' /\ HistType'
      <3>1. ASSUME NEW p \in Payments
            PROVE  Posting(p) \in Nat
        BY ConstantsAssumption, FS_Subset, FS_CardinalityType DEF Posting
      <3>2. orphans' = [p \in Payments |->
                          orphans[p] + (IF call[p].pc = "posting" THEN 1 ELSE 0)
                          + Posting(p)]
        BY <1>11 DEF Reload, Posting
      <3>3. orphans' \in [Payments -> Nat]
        <4>1. ASSUME NEW p \in Payments
              PROVE  orphans[p] + (IF call[p].pc = "posting" THEN 1 ELSE 0)
                     + Posting(p) \in Nat
          BY <1>0, <3>1 DEF CountType
        <4>2. QED
          BY <3>2, <4>1
      <3>4. /\ cart' = {} /\ paymentState' = "idle" /\ initialized' = FALSE
            /\ reloads' = reloads + 1 /\ cutOff' \subseteq cutOff \cup Payments
            /\ UNCHANGED <<scanned, createdAt, clock, sales, faults, discarded,
                           contended, ambiguous, raced>>
        <4>1. cutOff' = cutOff \cup
                {p \in Payments : mem[p] # "none"
                                  \/ call[p].pc \in InFlight \cup {"patching"}}
          BY <1>11 DEF Reload
        <4>2. QED
          BY <1>11, <4>1 DEF Reload, timeVars
      <3>5. UiType' /\ HistType'
        BY <1>0, <3>4 DEF UiType, UiStates, HistType
      <3>6. CountType'
        BY <1>0, <3>3, <3>4 DEF CountType
      <3>7. QED
        BY <3>5, <3>6
    <2>5. QED
      BY <2>1, <2>2, <2>3, <2>4, <1>c, TypePartsPrime
  <1>12. ASSUME NEW p \in Payments, BackoffElapses(p) PROVE TypeInv'
    <2>1. QueueType'
      BY <1>0, <1>12 DEF BackoffElapses, QueueType, RecordStates
    <2>2. (run \in RunType)' /\ RunShape'
      BY <1>0, <1>12 DEF BackoffElapses, RunShape
    <2>3. (call \in CallType)'
      BY <1>0, <1>12 DEF BackoffElapses
    <2>4. UiType' /\ CountType' /\ HistType'
      BY <1>0, <1>12 DEF BackoffElapses, UiType, CountType, HistType,
             uiVars, timeVars, serverVars, boundVars, histVars
    <2>5. QED
      BY <2>1, <2>2, <2>3, <2>4, <1>c, TypePartsPrime
  <1>13. ASSUME NEW p \in Payments, CommitCall(p) PROVE TypeInv'
    <2>1. QueueType'
      BY <1>0, <1>13 DEF CommitCall, queueVars, QueueType
    <2>2. (run \in RunType)' /\ RunShape'
      BY <1>0, <1>13 DEF CommitCall, RunShape
    <2>3. (call \in CallType)'
      BY <1>0, <1>13, CallPcType DEF CommitCall, CallStates
    <2>4. UiType' /\ CountType' /\ HistType'
      BY <1>0, <1>13 DEF CommitCall, UiType, CountType, HistType,
             uiVars, timeVars, serverVars, boundVars, histVars, Commit
    <2>5. QED
      BY <2>1, <2>2, <2>3, <2>4, <1>c, TypePartsPrime
  <1>14. ASSUME NEW r \in Runs, CommitRun(r) PROVE TypeInv'
    <2>1. QueueType'
      BY <1>0, <1>14 DEF CommitRun, queueVars, QueueType
    <2>2. (run \in RunType)' /\ RunShape'
      BY <1>0, <1>14, RunPcType DEF CommitRun, RunStates
    <2>3. (call \in CallType)'
      BY <1>0, <1>14 DEF CommitRun
    <2>4. UiType' /\ CountType' /\ HistType'
      BY <1>0, <1>14 DEF CommitRun, UiType, CountType, HistType,
             uiVars, timeVars, serverVars, boundVars, histVars, Commit, RunShape
    <2>5. QED
      BY <2>1, <2>2, <2>3, <2>4, <1>c, TypePartsPrime
  <1>15. ASSUME NEW p \in Payments, PaymentAccepted(p) PROVE TypeInv'
    <2>1. QueueType'
      BY <1>0, <1>15 DEF PaymentAccepted, queueVars, QueueType
    <2>2. (run \in RunType)' /\ RunShape'
      BY <1>0, <1>15 DEF PaymentAccepted, RunShape
    <2>3. (call \in CallType)'
      BY <1>0, <1>15, CallPcType DEF PaymentAccepted, CallStates
    <2>4. UiType' /\ CountType' /\ HistType'
      BY <1>0, <1>15 DEF PaymentAccepted, UiType, CountType, HistType,
             uiVars, timeVars, serverVars, boundVars, histVars, UiStates
    <2>5. QED
      BY <2>1, <2>2, <2>3, <2>4, <1>c, TypePartsPrime
  <1>16. ASSUME NEW p \in Payments, PaymentRejected(p) PROVE TypeInv'
    <2>1. QueueType'
      BY <1>0, <1>16 DEF PaymentRejected, queueVars, QueueType
    <2>2. (run \in RunType)' /\ RunShape'
      BY <1>0, <1>16 DEF PaymentRejected, RunShape
    <2>3. (call \in CallType)'
      BY <1>0, <1>16, CallPcType DEF PaymentRejected, CallStates
    <2>4. UiType' /\ CountType' /\ HistType'
      BY <1>0, <1>16 DEF PaymentRejected, UiType, CountType, HistType,
             uiVars, timeVars, serverVars, boundVars, histVars, UiStates, ErrorResponse, Fault
    <2>5. QED
      BY <2>1, <2>2, <2>3, <2>4, <1>c, TypePartsPrime
  <1>17. ASSUME NEW p \in Payments, PaymentUnanswered(p) PROVE TypeInv'
    <2>1. QueueType'
      <3>1. Tx("add", p, NoRun, "due") \in Transactions
        BY TxType DEF RecordStates
      <3>2. QED
        BY <1>0, <1>17, <3>1, AppendTx DEF PaymentUnanswered, QueueType
    <2>2. (run \in RunType)' /\ RunShape'
      BY <1>0, <1>17 DEF PaymentUnanswered, RunShape
    <2>3. (call \in CallType)'
      BY <1>0, <1>17, CallPcType DEF PaymentUnanswered, CallStates
    <2>a. UiType' /\ HistType'
      BY <1>0, <1>17 DEF PaymentUnanswered, UiType, HistType, uiVars, LoseAnswer
    <2>b. CountType'
      BY <1>0, <1>17 DEF PaymentUnanswered, CountType, LoseAnswer, Fault
    <2>4. UiType' /\ CountType' /\ HistType'
      BY <2>a, <2>b
    <2>5. QED
      BY <2>1, <2>2, <2>3, <2>4, <1>c, TypePartsPrime
  <1>18. ASSUME NEW p \in Payments, EnqueuePayment(p) PROVE TypeInv'
    <2>1. QueueType'
      <3>1. Tx("patch", p, NoRun, "keep") \in Transactions
        BY TxType
      <3>2. Tail(txq) \in Seq(Transactions)
        BY <1>0, <1>18, TailTx DEF EnqueuePayment, QueueType
      <3>3. QED
        BY <1>0, <1>18, <3>1, <3>2, AppendTx DEF EnqueuePayment, QueueType,
           RecordStates
    <2>2. (run \in RunType)' /\ RunShape'
      BY <1>0, <1>18 DEF EnqueuePayment, RunShape
    <2>3. (call \in CallType)'
      BY <1>0, <1>18, CallPcType DEF EnqueuePayment, CallStates
    <2>4. UiType' /\ CountType' /\ HistType'
      BY <1>0, <1>18 DEF EnqueuePayment, UiType, CountType, HistType,
             uiVars, timeVars, serverVars, boundVars, histVars, UiStates
    <2>5. QED
      BY <2>1, <2>2, <2>3, <2>4, <1>c, TypePartsPrime
  <1>19. ASSUME NEW p \in Payments, ParkPayment(p) PROVE TypeInv'
    <2>1. QueueType'
      BY <1>0, <1>19, CommitPatchType DEF ParkPayment, QueueType
    <2>2. (run \in RunType)' /\ RunShape'
      BY <1>0, <1>19 DEF ParkPayment, RunShape
    <2>3. (call \in CallType)'
      BY <1>0, <1>19, CallPcType DEF ParkPayment, CallStates
    <2>4. UiType' /\ CountType' /\ HistType'
      BY <1>0, <1>19 DEF ParkPayment, UiType, CountType, HistType,
             uiVars, timeVars, serverVars, boundVars, histVars
    <2>5. QED
      BY <2>1, <2>2, <2>3, <2>4, <1>c, TypePartsPrime
  <1>20. ASSUME NEW p \in Payments, RemovalDone(p) PROVE TypeInv'
    <2>1. QueueType'
      BY <1>0, <1>20, CommitDeleteType DEF RemovalDone, QueueType, CommitDelete
    <2>2. (run \in RunType)' /\ RunShape'
      BY <1>0, <1>20 DEF RemovalDone, RunShape
    <2>3. (call \in CallType)'
      BY <1>0, <1>20 DEF RemovalDone
    <2>4. UiType' /\ CountType' /\ HistType'
      BY <1>0, <1>20 DEF RemovalDone, UiType, CountType, HistType,
             uiVars, timeVars, serverVars, boundVars, histVars
    <2>5. QED
      BY <2>1, <2>2, <2>3, <2>4, <1>c, TypePartsPrime
  <1>21. ASSUME NEW r \in Runs, SyncAccepted(r) PROVE TypeInv'
    <2>1. QueueType'
      BY <1>0, <1>21 DEF SyncAccepted, queueVars, QueueType
    <2>2. (run \in RunType)' /\ RunShape'
      BY <1>0, <1>21, RunPcType DEF SyncAccepted, RunStates
    <2>3. (call \in CallType)'
      BY <1>0, <1>21 DEF SyncAccepted
    <2>4. UiType' /\ CountType' /\ HistType'
      BY <1>0, <1>21 DEF SyncAccepted, UiType, CountType, HistType,
             uiVars, timeVars, serverVars, boundVars, histVars
    <2>5. QED
      BY <2>1, <2>2, <2>3, <2>4, <1>c, TypePartsPrime
  <1>22. ASSUME NEW r \in Runs, SyncRemove(r) PROVE TypeInv'
    <2>1. QueueType'
      BY <1>0, <1>22, RemoveInternalType DEF SyncRemove, QueueType,
         RemoveInternal, RunShape
    <2>2. (run \in RunType)' /\ RunShape'
      BY <1>0, <1>22, RunPcType DEF SyncRemove, RunStates
    <2>3. (call \in CallType)'
      BY <1>0, <1>22 DEF SyncRemove
    <2>4. UiType' /\ CountType' /\ HistType'
      BY <1>0, <1>22 DEF SyncRemove, UiType, CountType, HistType,
             uiVars, timeVars, serverVars, boundVars, histVars
    <2>5. QED
      BY <2>1, <2>2, <2>3, <2>4, <1>c, TypePartsPrime
  <1>23. ASSUME NEW r \in Runs, SyncSettled(r) PROVE TypeInv'
    <2>1. QueueType'
      BY <1>0, <1>23, CommitDeleteType DEF SyncSettled, QueueType, CommitDelete
    <2>2. (run \in RunType)' /\ RunShape'
      <3>1. Proceed(r, run[r].todo) /\ run[r].todo \in SUBSET Payments
        BY <1>0, <1>23 DEF SyncSettled, RunType, RunRecord
      <3>2. QED
        BY <1>0, <3>1, ProceedType, ProceedShape
    <2>3. (call \in CallType)'
      BY <1>0, <1>23 DEF SyncSettled
    <2>4. UiType' /\ CountType' /\ HistType'
      BY <1>0, <1>23 DEF SyncSettled, UiType, CountType, HistType,
             uiVars, timeVars, serverVars, boundVars, histVars, UiStates
    <2>5. QED
      BY <2>1, <2>2, <2>3, <2>4, <1>c, TypePartsPrime
  <1>24. ASSUME NEW r \in Runs, SyncConflict(r) PROVE TypeInv'
    <2>1. QueueType'
      BY <1>0, <1>24, ApplyPatchType DEF SyncConflict, QueueType, ApplyPatch,
         Mark, RecordStates, RunShape
    <2>2. (run \in RunType)' /\ RunShape'
      BY <1>0, <1>24, RunPcType DEF SyncConflict, RunStates, Mark
    <2>3. (call \in CallType)'
      BY <1>0, <1>24 DEF SyncConflict, Mark
    <2>4. UiType' /\ CountType' /\ HistType'
      BY <1>0, <1>24 DEF SyncConflict, UiType, CountType, HistType,
             uiVars, timeVars, serverVars, boundVars, histVars, Mark
    <2>5. QED
      BY <2>1, <2>2, <2>3, <2>4, <1>c, TypePartsPrime
  <1>25. ASSUME NEW r \in Runs, SyncServerError(r) PROVE TypeInv'
    <2>1. QueueType'
      BY <1>0, <1>25, ApplyPatchType DEF SyncServerError, QueueType, ApplyPatch,
         Mark, RecordStates, RunShape, ErrorResponse
    <2>2. (run \in RunType)' /\ RunShape'
      BY <1>0, <1>25, RunPcType DEF SyncServerError, RunStates, Mark, ErrorResponse
    <2>3. (call \in CallType)'
      BY <1>0, <1>25 DEF SyncServerError, Mark
    <2>4. UiType' /\ CountType' /\ HistType'
      BY <1>0, <1>25 DEF SyncServerError, UiType, CountType, HistType,
             uiVars, timeVars, serverVars, boundVars, histVars, Mark, ErrorResponse, Fault, RunShape
    <2>5. QED
      BY <2>1, <2>2, <2>3, <2>4, <1>c, TypePartsPrime
  <1>26. ASSUME NEW r \in Runs, SyncRefused(r) PROVE TypeInv'
    <2>1. QueueType'
      BY <1>0, <1>26, ApplyPatchType DEF SyncRefused, QueueType, ApplyPatch,
         Mark, RecordStates, RunShape
    <2>2. (run \in RunType)' /\ RunShape'
      BY <1>0, <1>26, RunPcType DEF SyncRefused, RunStates, Mark
    <2>3. (call \in CallType)'
      BY <1>0, <1>26 DEF SyncRefused, Mark
    <2>4. UiType' /\ CountType' /\ HistType'
      BY <1>0, <1>26 DEF SyncRefused, UiType, CountType, HistType,
             uiVars, timeVars, serverVars, boundVars, histVars, Mark, Fault
    <2>5. QED
      BY <2>1, <2>2, <2>3, <2>4, <1>c, TypePartsPrime
  <1>27. ASSUME NEW r \in Runs, SyncUnanswered(r) PROVE TypeInv'
    <2>1. QueueType'
      BY <1>0, <1>27, ApplyPatchType DEF SyncUnanswered, QueueType, ApplyPatch,
         Mark, RecordStates, RunShape, LoseAnswer
    <2>2. (run \in RunType)' /\ RunShape'
      BY <1>0, <1>27, RunPcType DEF SyncUnanswered, RunStates, Mark, LoseAnswer
    <2>3. (call \in CallType)'
      BY <1>0, <1>27 DEF SyncUnanswered, Mark
    <2>4. UiType' /\ CountType' /\ HistType'
      BY <1>0, <1>27 DEF SyncUnanswered, UiType, CountType, HistType,
             uiVars, timeVars, serverVars, boundVars, histVars, Mark, LoseAnswer, Fault, RunShape
    <2>5. QED
      BY <2>1, <2>2, <2>3, <2>4, <1>c, TypePartsPrime
  <1>28. ASSUME NEW r \in Runs, SyncMarked(r) PROVE TypeInv'
    <2>1. QueueType'
      BY <1>0, <1>28, CommitPatchType DEF SyncMarked, QueueType
    <2>2. (run \in RunType)' /\ RunShape'
      <3>1. CASE run' = [run EXCEPT ![r] = IdleRun]
        BY <1>0, <3>1, IdleRunType DEF RunType, RunShape
      <3>2. CASE Proceed(r, run[r].todo)
        <4>1. run[r].todo \in SUBSET Payments
          BY <1>0 DEF RunType, RunRecord
        <4>2. QED
          BY <1>0, <3>2, <4>1, ProceedType, ProceedShape
      <3>3. QED
        BY <1>28, <3>1, <3>2 DEF SyncMarked
    <2>3. (call \in CallType)'
      BY <1>0, <1>28 DEF SyncMarked
    <2>4. UiType' /\ CountType' /\ HistType'
      BY <1>0, <1>28 DEF SyncMarked, UiType, CountType, HistType,
             uiVars, timeVars, serverVars, boundVars, histVars, UiStates
    <2>5. QED
      BY <2>1, <2>2, <2>3, <2>4, <1>c, TypePartsPrime
  <1>29. ASSUME NEW r \in Runs, RetryMarked(r) PROVE TypeInv'
    <2>1. QueueType'
      BY <1>0, <1>29, CommitPatchType DEF RetryMarked, QueueType
    <2>2. (run \in RunType)' /\ RunShape'
      <3>1. CASE run' = [run EXCEPT ![r] = IdleRun]
        BY <1>0, <3>1, IdleRunType DEF RunType, RunShape
      <3>2. CASE Proceed(r, DueIn(mem'))
        <4>1. DueIn(mem') \in SUBSET Payments
          BY DEF DueIn
        <4>2. QED
          BY <1>0, <3>2, <4>1, ProceedType, ProceedShape
      <3>3. QED
        BY <1>29, <3>1, <3>2 DEF RetryMarked, TakeSnapshot
    <2>3. (call \in CallType)'
      BY <1>0, <1>29 DEF RetryMarked
    <2>4. UiType' /\ CountType' /\ HistType'
      BY <1>0, <1>29 DEF RetryMarked, UiType, CountType, HistType,
             uiVars, timeVars, serverVars, boundVars, histVars, TakeSnapshot, DueIn
    <2>5. QED
      BY <2>1, <2>2, <2>3, <2>4, <1>c, TypePartsPrime
  <1>30. CASE UNCHANGED vars
    BY <1>0, <1>30, <1>c, TypePartsPrime
    DEF vars, uiVars, queueVars, timeVars, serverVars, boundVars, histVars,
       UiType, QueueType, CountType, HistType, RunShape
  <1>31. ASSUME NEW p \in Payments, ClearCachedCart(p) PROVE TypeInv'
    BY <1>0, <1>31, <1>c, TypePartsPrime
    DEF ClearCachedCart, uiVars, queueVars, timeVars, serverVars, boundVars,
       histVars, UiType, QueueType, CountType, HistType, RunShape
  <1>32. ASSUME NEW items \in syncs, SyncCart(items) PROVE TypeInv'
    BY <1>0, <1>32, <1>c, TypePartsPrime
    DEF SyncCart, uiVars, queueVars, timeVars, serverVars, boundVars,
       histVars, UiType, QueueType, CountType, HistType, RunShape
  <1>33. QED
    BY <1>31, <1>32, <1>1, <1>2, <1>3, <1>4, <1>5, <1>6, <1>7, <1>8, <1>9, <1>10, <1>11,
       <1>12, <1>13, <1>14, <1>15, <1>16, <1>17, <1>18, <1>19, <1>20, <1>21,
       <1>22, <1>23, <1>24, <1>25, <1>26, <1>27, <1>28, <1>29, <1>30
    DEF Next, Operate, Disturb, RunStep, CallStep

\* Every variable stays within its type: the records of the queue, the phases of
\* the activations and the transactions are always ones the code can produce.
THEOREM TypeCorrect == Spec => []TypeOK
  <1>1. TypeInv => TypeOK
    BY DEF TypeInv
  <1>2. QED
    BY <1>1, TypeInvInit, TypeInvNext, PTL DEF Spec
-----------------------------------------------------------------------------
(* The queue: what IndexedDB holds, and that nothing leaves it unsold *)

Queued == {"patching", "parked"}

\* A record in the page's queue, or in the snapshot of a run, has been enqueued.
QueuePhase == \A p \in Payments : mem[p] # "none" => call[p].pc \in Queued
HoldPhase  == \A r \in Runs, p \in Payments : Holds(r, p) => call[p].pc \in Queued

\* The transactions that a processPayment activation waits for.
CallOwned(t) == t.op = "add" \/ (t.op = "patch" /\ t.state = "keep")

TxOk(t) == /\ t.op = "add" => call[t.id].pc = "enqueueing"
           /\ t.op = "patch" /\ t.state = "keep" => call[t.id].pc = "patching"
           /\ t.op = "delete" => mem[t.id] = "none" /\ call[t.id].pc \in Queued

TxPhase == \A i \in DOMAIN txq : TxOk(txq[i])

OneTxPerCall ==
  \A i, j \in DOMAIN txq :
    i # j /\ CallOwned(txq[i]) /\ CallOwned(txq[j]) => txq[i].id # txq[j].id

\* Once a run has seen its sale committed, the sale is there.
Sold == {"posted", "persisting", "removing"}
SoldPhase == \A r \in Runs : run[r].pc \in Sold => sales[run[r].cur] > 0

\* A run that is not in its loop has no rest to go on with.
RestHeld == \A r \in Runs : run[r].pc \in {"idle", "retrying"} => run[r].todo = {}

TxInv    == TxPhase /\ OneTxPerCall
QueueInv == /\ QueuePhase /\ HoldPhase /\ TxInv /\ QueueIsPersisted
            /\ SoldPhase /\ RestHeld /\ NoSilentLoss

\* What all steps but those of EnqueuePayment, ParkPayment and Reload have in
\* common: enqueued calls stay as they are, no record enters the queue, and a
\* transaction is at most opened at the end or committed at the front.
CallsStay ==
  \A p \in Payments : call[p].pc \in {"enqueueing"} \cup Queued
                        => call'[p].pc = call[p].pc
MemShrinks == \A p \in Payments : mem[p] = "none" => mem'[p] = "none"
FreshTx(t) == CallOwned(t) => \A i \in DOMAIN txq :
                                CallOwned(txq[i]) => txq[i].id # t.id
TxStep == \/ txq' = txq
          \/ txq # <<>> /\ txq' = Tail(txq)
          \/ \E t \in Transactions : txq' = Append(txq, t) /\ TxOk(t)' /\ FreshTx(t)

LEMMA TxOkFrame ==
  ASSUME CallsStay, MemShrinks, NEW t \in Transactions, TxOk(t)
  PROVE  TxOk(t)'
  <1>1. t.id \in Payments
    BY DEF Transactions
  <1>2. QED
    BY <1>1 DEF CallsStay, MemShrinks, TxOk, Queued

LEMMA TxTail ==
  ASSUME QueueType, TxInv, txq # <<>>, NEW s, s = Tail(txq)
  PROVE  /\ \A i \in DOMAIN s : s[i] \in Transactions /\ TxOk(s[i])
         /\ \A i, j \in DOMAIN s :
              i # j /\ CallOwned(s[i]) /\ CallOwned(s[j]) => s[i].id # s[j].id
         /\ \A i \in DOMAIN s :
              CallOwned(Head(txq)) /\ CallOwned(s[i]) => s[i].id # Head(txq).id
  <1>1. /\ s \in Seq(Transactions) /\ 1 \in DOMAIN txq /\ Head(txq) = txq[1]
        /\ \A i \in DOMAIN s : i + 1 \in DOMAIN txq /\ i + 1 # 1 /\ s[i] = txq[i + 1]
    BY TailTx DEF QueueType
  <1>2. \A i, j \in DOMAIN s : i # j => i + 1 # j + 1
    BY <1>1
  <1>3. \A i \in DOMAIN s : s[i] \in Transactions
    BY <1>1
  <1>4. QED
    BY <1>1, <1>2, <1>3 DEF TxInv, TxPhase, OneTxPerCall

LEMMA TxFrame ==
  ASSUME QueueType, TxInv, CallsStay, MemShrinks, TxStep
  PROVE  TxInv'
  <1>1. CASE txq' = txq
    <2>1. \A i \in DOMAIN txq : txq[i] \in Transactions
      BY DEF QueueType
    <2>2. QED
      BY <1>1, <2>1, TxOkFrame DEF TxInv, TxPhase, OneTxPerCall
  <1>2. CASE txq # <<>> /\ txq' = Tail(txq)
    BY <1>2, TxTail, TxOkFrame DEF TxInv, TxPhase, OneTxPerCall
  <1>3. CASE \E t \in Transactions : txq' = Append(txq, t) /\ TxOk(t)' /\ FreshTx(t)
    <2>1. PICK t \in Transactions : txq' = Append(txq, t) /\ TxOk(t)' /\ FreshTx(t)
      BY <1>3
    <2>2. \A i \in DOMAIN txq' : \/ i \in DOMAIN txq /\ txq'[i] = txq[i]
                                 \/ i = Len(txq) + 1 /\ txq'[i] = t
      BY <2>1, AppendTx DEF QueueType
    <2>3. \A i \in DOMAIN txq, u \in Transactions : u = txq[i] => TxOk(u)'
      <3>1. \A i \in DOMAIN txq : TxOk(txq[i])
        BY DEF TxInv, TxPhase
      <3>2. \A u \in Transactions : TxOk(u) => TxOk(u)'
        BY TxOkFrame
      <3>3. QED
        BY <3>1, <3>2
    <2>4. TxPhase'
      <3>1. ASSUME NEW i \in DOMAIN txq' PROVE TxOk(txq[i])'
        <4>1. CASE i \in DOMAIN txq /\ txq'[i] = txq[i]
          <5>1. txq[i] \in Transactions
            BY <4>1 DEF QueueType
          <5>2. QED
            BY <4>1, <5>1, <2>3 DEF TxOk
        <4>2. CASE txq'[i] = t
          BY <4>2, <2>1 DEF TxOk
        <4>3. QED
          BY <2>2, <4>1, <4>2
      <3>2. QED
        BY <3>1 DEF TxPhase
    <2>5. OneTxPerCall'
      <3>1. \A i, j \in DOMAIN txq :
              i # j /\ CallOwned(txq[i]) /\ CallOwned(txq[j]) => txq[i].id # txq[j].id
        BY DEF TxInv, OneTxPerCall
      <3>2. \A i \in DOMAIN txq :
              CallOwned(t) /\ CallOwned(txq[i]) => txq[i].id # t.id
        BY <2>1 DEF FreshTx
      <3>3. ASSUME NEW i \in DOMAIN txq', NEW j \in DOMAIN txq', i # j,
                   CallOwned(txq'[i]), CallOwned(txq'[j])
            PROVE  txq'[i].id # txq'[j].id
        BY <2>2, <3>1, <3>2, <3>3
      <3>4. QED
        BY <3>3 DEF OneTxPerCall, CallOwned
    <2>6. QED
      BY <2>4, <2>5 DEF TxInv
  <1>4. QED
    BY <1>1, <1>2, <1>3 DEF TxStep

SalesGrow == /\ \A p \in Payments : sales'[p] >= sales[p]
             /\ discarded \subseteq discarded' /\ cutOff \subseteq cutOff'

\* Whoever comes to hold a payment took it from the queue.
HoldsFrom == \A r \in Runs, p \in Payments : Holds(r, p)' => Holds(r, p) \/ mem[p] # "none"

SoldFrom ==
  \A r \in Runs : run'[r].pc \in Sold =>
    \/ run[r].pc \in Sold /\ run'[r].cur = run[r].cur
    \/ sales'[run'[r].cur] > 0

NoLoss ==
  \A p \in Payments : mem[p] # "none" /\ mem'[p] = "none" =>
    sales'[p] > 0 \/ p \in discarded' \cup cutOff'

\* The queue's share of a step, the calls' and the runs'.
QueueSafe == MemShrinks /\ NoLoss /\ QueueIsPersisted' /\ TxStep
CallsSafe == /\ CallsStay
             /\ \A p \in Payments : call'[p].pc \in Queued => call[p].pc \in Queued
RunsSafe  == HoldsFrom /\ SoldFrom /\ RestHeld'
QueueStep == QueueSafe /\ CallsSafe /\ RunsSafe /\ SalesGrow

LEMMA QueueFrame ==
  ASSUME TypeInv, TypeInv', QueueInv, QueueStep
  PROVE  QueueInv'
  <1> USE DEF QueueStep, QueueSafe, CallsSafe, RunsSafe
  <1>0. /\ QueueType /\ RunShape /\ RunShape'
        /\ \A p \in Payments : sales[p] \in Nat /\ sales'[p] \in Nat
    BY TypeParts DEF TypeInv, TypeOK
  <1>1. QueuePhase'
    BY DEF QueueInv, QueuePhase, CallsStay, MemShrinks
  <1>2. HoldPhase'
    BY DEF QueueInv, QueuePhase, HoldPhase, CallsStay, HoldsFrom
  <1>3. TxInv'
    BY <1>0, TxFrame DEF QueueInv
  <1>4. SoldPhase'
    <2>1. ASSUME NEW r \in Runs, run'[r].pc \in Sold
          PROVE  sales'[run'[r].cur] > 0
      <3>1. CASE run[r].pc \in Sold /\ run'[r].cur = run[r].cur
        <4>1. run[r].cur \in Payments /\ sales[run[r].cur] > 0
          BY <1>0, <3>1 DEF QueueInv, SoldPhase, RunShape, Sold
        <4>2. QED
          BY <1>0, <3>1, <4>1 DEF SalesGrow
      <3>2. QED
        BY <2>1, <3>1 DEF SoldFrom
    <2>2. QED
      BY <2>1 DEF SoldPhase
  <1>5. NoSilentLoss'
    <2>1. ASSUME NEW p \in Payments, call'[p].pc \in Queued, mem'[p] = "none"
          PROVE  sales'[p] > 0 \/ p \in discarded' \cup cutOff'
      <3>1. CASE mem[p] = "none"
        <4>1. sales[p] > 0 \/ p \in discarded \cup cutOff
          BY <2>1, <3>1 DEF QueueInv, NoSilentLoss, Queued
        <4>2. QED
          BY <1>0, <4>1 DEF SalesGrow
      <3>2. QED
        BY <2>1, <3>1 DEF NoLoss
    <2>2. QED
      BY <2>1 DEF NoSilentLoss, Queued
  <1>6. QED
    BY <1>1, <1>2, <1>3, <1>4, <1>5 DEF QueueInv

LEMMA ApplyPatchQueue ==
  ASSUME TypeInv, QueueInv, NEW p \in Payments, NEW r \in Runs, NEW s \in RecordStates,
         ApplyPatch(r, p, s)
  PROVE  /\ MemShrinks /\ NoLoss /\ QueueIsPersisted' /\ TxStep
         /\ \A q \in Payments : mem'[q] = "none" <=> mem[q] = "none"
  <1>0. QueueType
    BY TypeParts
  <1>1. \A q \in Payments : mem'[q] = "none" <=> mem[q] = "none"
    BY <1>0, PatchedType DEF ApplyPatch, QueueType
  <1>2. /\ txq' = Append(txq, Tx("patch", p, r, s))
        /\ Tx("patch", p, r, s) \in Transactions
        /\ Tx("patch", p, r, s).op = "patch" /\ Tx("patch", p, r, s).state = s
    BY TxType DEF ApplyPatch
  <1>3. s # "keep"
    BY DEF RecordStates
  <1>4. TxOk(Tx("patch", p, r, s))' /\ FreshTx(Tx("patch", p, r, s))
    BY <1>2, <1>3 DEF TxOk, FreshTx, CallOwned
  <1>5. TxStep
    BY <1>2, <1>4 DEF TxStep
  <1>6. QED
    BY <1>1, <1>5 DEF ApplyPatch, MemShrinks, NoLoss, QueueInv, QueueIsPersisted

LEMMA RemoveInternalQueue ==
  ASSUME TypeInv, QueueInv, CallsStay, NEW p \in Payments, NEW r \in Runs \cup {NoRun},
         RemoveInternal(r, p), call[p].pc \in Queued
  PROVE  /\ MemShrinks /\ QueueIsPersisted' /\ TxStep
         /\ \A q \in Payments : q # p => mem'[q] = mem[q]
  <1>0. QueueType
    BY TypeParts
  <1>1. MemShrinks /\ mem'[p] = "none" /\ \A q \in Payments : q # p => mem'[q] = mem[q]
    BY <1>0 DEF RemoveInternal, QueueType, MemShrinks
  <1>2. /\ txq' = Append(txq, Tx("delete", p, r, "keep"))
        /\ Tx("delete", p, r, "keep") \in Transactions
        /\ Tx("delete", p, r, "keep").op = "delete" /\ Tx("delete", p, r, "keep").id = p
    BY TxType DEF RemoveInternal
  <1>3. TxOk(Tx("delete", p, r, "keep"))' /\ FreshTx(Tx("delete", p, r, "keep"))
    BY <1>1, <1>2 DEF TxOk, FreshTx, CallOwned, CallsStay
  <1>4. QED
    BY <1>1, <1>2, <1>3 DEF TxStep, RemoveInternal, QueueInv, QueueIsPersisted

LEMMA CommitPatchQueue ==
  ASSUME TypeInv, QueueInv, NEW p, NEW s, CommitPatch(p, s)
  PROVE  /\ MemShrinks /\ NoLoss /\ QueueIsPersisted' /\ TxStep
         /\ \A q \in Payments : mem'[q] = "none" <=> mem[q] = "none"
  <1>0. QueueType
    BY TypeParts
  <1>1. p \in Payments /\ s \in RecordStates \cup {"keep"}
    BY <1>0, TailTx DEF CommitPatch, QueueType, Transactions
  <1>2. /\ \A q \in Payments : store'[q] = "none" <=> store[q] = "none"
        /\ store'[p] \in RecordStates \cup {"none"}
    BY <1>0, <1>1, PatchedType DEF CommitPatch, QueueType
  <1>3. \A q \in Payments : mem'[q] = "none" <=> mem[q] = "none"
    BY <1>0, <1>1, <1>2, PatchedType DEF CommitPatch, QueueType
  <1>4. QED
    BY <1>2, <1>3
    DEF CommitPatch, MemShrinks, NoLoss, TxStep, QueueInv, QueueIsPersisted

LEMMA CommitDeleteQueue ==
  ASSUME TypeInv, QueueInv, NEW p, CommitDelete(p)
  PROVE  /\ MemShrinks /\ NoLoss /\ QueueIsPersisted' /\ TxStep
         /\ p \in Payments /\ mem' = mem /\ mem[p] = "none"
  <1>0. QueueType
    BY TypeParts
  <1>1. /\ Head(txq) \in Transactions /\ TxOk(Head(txq))
    BY <1>0, TailTx DEF CommitDelete, QueueType, QueueInv, TxInv, TxPhase
  <1>2. p \in Payments /\ mem[p] = "none"
    BY <1>1 DEF CommitDelete, TxOk, Transactions
  <1>3. QED
    BY <1>0, <1>2 DEF CommitDelete, MemShrinks, NoLoss, TxStep, QueueInv,
       QueueIsPersisted, QueueType

LEMMA ProceedHolds ==
  ASSUME TypeInv, NEW r \in Runs, NEW rest \in SUBSET Payments, Proceed(r, rest)
  PROVE  /\ \A o \in Runs : o # r => run'[o] = run[o]
         /\ \A p \in Payments : Holds(r, p)' <=> p \in rest
         /\ run'[r].pc \in {"idle", "posting"}
         /\ \A p \in rest : run'[r].pc = "posting"
  <1>0. run \in RunType
    BY TypeParts
  <1>1. CASE rest = {} /\ run' = [run EXCEPT ![r] = IdleRun]
    BY <1>0, <1>1, IdleRunType DEF RunType, Holds
  <1>2. CASE \E p \in rest : run' = [run EXCEPT ![r] = PostingRun(p, rest)]
    <2>1. PICK p \in rest : run' = [run EXCEPT ![r] = PostingRun(p, rest)]
      BY <1>2
    <2>2. r \in DOMAIN run /\ run'[r] = PostingRun(p, rest)
      BY <1>0, <2>1 DEF RunType
    <2>3. /\ run'[r].pc = "posting" /\ run'[r].cur = p /\ run'[r].todo = rest \ {p}
      BY <2>2, PostingRunType
    <2>4. \A o \in Runs : o # r => run'[o] = run[o]
      BY <1>0, <2>1 DEF RunType
    <2>5. QED
      BY <2>3, <2>4 DEF Holds
  <1>3. QED
    BY <1>1, <1>2, ProceedCases

LEMMA SameQueue ==
  ASSUME QueueInv, UNCHANGED queueVars
  PROVE  QueueSafe
  BY DEF queueVars, QueueSafe, MemShrinks, NoLoss, TxStep, QueueInv,
     QueueIsPersisted

LEMMA SameCalls ==
  ASSUME call' = call
  PROVE  CallsSafe
  BY DEF CallsSafe, CallsStay

LEMMA CallMoves ==
  ASSUME TypeInv, NEW p \in Payments, call[p].pc \notin {"enqueueing"} \cup Queued,
         \A q \in Payments : q # p => call'[q] = call[q],
         call'[p].pc \notin Queued
  PROVE  CallsSafe
  BY DEF CallsSafe, CallsStay

LEMMA SameRuns ==
  ASSUME QueueInv, run' = run
  PROVE  RunsSafe
  BY DEF RunsSafe, HoldsFrom, SoldFrom, Holds, QueueInv, RestHeld

LEMMA SameSales ==
  ASSUME TypeInv, sales' = sales, discarded \subseteq discarded', cutOff \subseteq cutOff'
  PROVE  SalesGrow
  BY TypeParts DEF CountType, SalesGrow

LEMMA CommitSales ==
  ASSUME TypeInv, NEW p \in Payments, Commit(p), UNCHANGED <<discarded, cutOff>>
  PROVE  SalesGrow /\ sales'[p] > 0
  BY TypeParts DEF CountType, SalesGrow, Commit

\* A run in its loop goes on to another phase of the same payment.
LEMMA RunMoves ==
  ASSUME TypeInv, QueueInv, NEW r \in Runs, NEW pc \in RunStates,
         run[r].pc \notin {"idle", "retrying"}, pc \notin {"idle", "retrying"},
         run' = [run EXCEPT ![r].pc = pc],
         pc \in Sold => run[r].pc \in Sold \/ sales'[run[r].cur] > 0
  PROVE  RunsSafe
  <1>1. /\ run'[r].pc = pc
        /\ \A o \in Runs : /\ run'[o].cur = run[o].cur
                           /\ run'[o].todo = run[o].todo
                           /\ o # r => run'[o].pc = run[o].pc
    BY TypeParts, RunPcType
  <1>2. HoldsFrom
    BY <1>1 DEF HoldsFrom, Holds
  <1>3. SoldFrom
    BY <1>1 DEF SoldFrom
  <1>4. RestHeld'
    BY <1>1 DEF QueueInv, RestHeld
  <1>5. QED
    BY <1>2, <1>3, <1>4 DEF RunsSafe

LEMMA ProceedMoves ==
  ASSUME TypeInv, QueueInv, NEW r \in Runs, NEW rest \in SUBSET Payments,
         Proceed(r, rest), \A p \in rest : Holds(r, p) \/ mem[p] # "none"
  PROVE  RunsSafe
  <1>1. /\ \A o \in Runs : o # r => run'[o] = run[o]
        /\ \A p \in Payments : Holds(r, p)' <=> p \in rest
        /\ run'[r].pc \in {"idle", "posting"}
    BY ProceedHolds
  <1>2. HoldsFrom
    <2>1. ASSUME NEW o \in Runs, NEW p \in Payments, Holds(o, p)'
          PROVE  Holds(o, p) \/ mem[p] # "none"
      <3>1. CASE o = r
        BY <1>1, <2>1, <3>1
      <3>2. CASE o # r
        BY <1>1, <2>1, <3>2 DEF Holds
      <3>3. QED
        BY <3>1, <3>2
    <2>2. QED
      BY <2>1 DEF HoldsFrom
  <1>3. SoldFrom
    BY <1>1 DEF SoldFrom, Sold
  <1>4. RestHeld'
    <2>1. run'[r].pc = "idle" => run'[r].todo = {}
      <3>1. run \in RunType
        BY TypeParts
      <3>2. CASE run' = [run EXCEPT ![r] = IdleRun]
        BY <3>1, <3>2 DEF RunType, IdleRun
      <3>3. CASE \E p \in rest : run' = [run EXCEPT ![r] = PostingRun(p, rest)]
        BY <3>1, <3>3, PostingRunType DEF RunType
      <3>4. QED
        BY <3>2, <3>3, ProceedCases
    <2>2. QED
      BY <1>1, <2>1 DEF QueueInv, RestHeld
  <1>5. QED
    BY <1>2, <1>3, <1>4 DEF RunsSafe

\* The run gives up; what it held stays where it is.
LEMMA IdleMoves ==
  ASSUME TypeInv, QueueInv, NEW r \in Runs, run' = [run EXCEPT ![r] = IdleRun]
  PROVE  RunsSafe
  <1>1. run \in RunType
    BY TypeParts
  <1>2. /\ run'[r].pc = "idle" /\ run'[r].todo = {}
        /\ \A o \in Runs : o # r => run'[o] = run[o]
    BY <1>1 DEF RunType, IdleRun
  <1>3. QED
    BY <1>2 DEF RunsSafe, HoldsFrom, SoldFrom, Holds, Sold, QueueInv, RestHeld

\* Every step is one of those the frame covers, or one of three others.
LEMMA QueueSteps ==
  ASSUME TypeInv, TypeInv', QueueInv, [Next]_vars
  PROVE  \/ QueueStep
         \/ \E p \in Payments : EnqueuePayment(p) \/ ParkPayment(p)
         \/ Reload
  <1> DEFINE Goal == \/ QueueStep
                     \/ \E p \in Payments : EnqueuePayment(p) \/ ParkPayment(p)
                     \/ Reload
  <1> SUFFICES Goal
    OBVIOUS
  <1>0. /\ QueueType /\ call \in CallType /\ run \in RunType /\ RunShape
        /\ CountType /\ HistType
    BY TypeParts
  <1>1. ASSUME NEW s \in Scans, AddToCart(s) PROVE Goal
    BY <1>0, <1>1, SameQueue, SameCalls, SameRuns, SameSales
    DEF QueueStep, AddToCart, vars, uiVars, timeVars, serverVars, boundVars,
       histVars
  <1>2. ASSUME NEW s \in Scans, RemoveFromCart(s) PROVE Goal
    BY <1>0, <1>2, SameQueue, SameCalls, SameRuns, SameSales
    DEF QueueStep, RemoveFromCart, vars, uiVars, timeVars, serverVars,
       boundVars, histVars
  <1>3. CASE ClearCart
    BY <1>0, <1>3, SameQueue, SameCalls, SameRuns, SameSales
    DEF QueueStep, ClearCart, vars, uiVars, timeVars, serverVars, boundVars,
       histVars
  <1>4. CASE ApplyRemoteSale
    BY <1>0, <1>4, SameQueue, SameCalls, SameRuns, SameSales
    DEF QueueStep, ApplyRemoteSale, vars, uiVars, timeVars, serverVars,
       boundVars, histVars
  <1>5. CASE UNCHANGED vars
    BY <1>0, <1>5, SameQueue, SameCalls, SameRuns, SameSales
    DEF QueueStep, vars, serverVars, histVars
  <1>6. ASSUME NEW p \in Payments, ProcessPayment(p) PROVE Goal
    <2>1. CallsSafe
      BY <1>0, <1>6, CallMoves DEF ProcessPayment, CallType, Queued
    <2>2. QED
      BY <1>6, <2>1, SameQueue, SameRuns, SameSales
      DEF QueueStep, ProcessPayment, queueVars, serverVars
  <1>7. ASSUME NEW p \in Payments, CommitOrphan(p) PROVE Goal
    BY <1>7, SameQueue, SameCalls, SameRuns, CommitSales
    DEF QueueStep, CommitOrphan, histVars
  <1>8. ASSUME NEW p \in Payments, CommitCall(p) PROVE Goal
    <2>1. CallsSafe
      BY <1>0, <1>8, CallMoves DEF CommitCall, CallType, Queued
    <2>2. QED
      BY <1>8, <2>1, SameQueue, SameRuns, CommitSales
      DEF QueueStep, CommitCall, histVars
  <1>9. ASSUME NEW p \in Payments, PaymentAccepted(p) PROVE Goal
    <2>1. CallsSafe
      <3>1. call[p].pc \in {"posting", "posted"}
        BY <1>9 DEF PaymentAccepted
      <3>2. QED
        BY <1>0, <1>9, <3>1, CallMoves DEF PaymentAccepted, CallType, Queued
    <2>2. QED
      BY <1>9, <2>1, SameQueue, SameRuns, SameSales
      DEF QueueStep, PaymentAccepted, serverVars, histVars, Fault
  <1>10. ASSUME NEW p \in Payments, PaymentRejected(p) PROVE Goal
    <2>1. CallsSafe
      <3>1. call[p].pc \in {"posting", "posted"}
        BY <1>10 DEF PaymentRejected, ErrorResponse
      <3>2. QED
        BY <1>0, <1>10, <3>1, CallMoves DEF PaymentRejected, CallType, Queued
    <2>2. QED
      BY <1>10, <2>1, SameQueue, SameRuns, SameSales
      DEF QueueStep, PaymentRejected, serverVars, histVars, Fault
  <1>11. ASSUME NEW p \in Payments, PaymentUnanswered(p) PROVE Goal
    <2>1. call[p].pc \in {"posting", "posted"} /\ call'[p].pc = "enqueueing"
      BY <1>0, <1>11 DEF PaymentUnanswered, LoseAnswer, CallType
    <2>2. CallsSafe
      BY <1>0, <1>11, <2>1, CallMoves DEF PaymentUnanswered, CallType, Queued
    <2>3. TxStep
      <3>1. /\ txq' = Append(txq, Tx("add", p, NoRun, "due"))
            /\ Tx("add", p, NoRun, "due") \in Transactions
            /\ Tx("add", p, NoRun, "due").op = "add"
            /\ Tx("add", p, NoRun, "due").id = p
        BY <1>11, TxType DEF PaymentUnanswered, RecordStates
      <3>2. TxOk(Tx("add", p, NoRun, "due"))'
        BY <2>1, <3>1 DEF TxOk
      <3>3. FreshTx(Tx("add", p, NoRun, "due"))
        <4>1. \A i \in DOMAIN txq : CallOwned(txq[i]) => txq[i].id # p
          BY <2>1 DEF QueueInv, TxInv, TxPhase, TxOk, CallOwned
        <4>2. QED
          BY <3>1, <4>1 DEF FreshTx
      <3>4. QED
        BY <3>1, <3>2, <3>3 DEF TxStep
    <2>4. QueueSafe
      BY <1>11, <2>3 DEF PaymentUnanswered, QueueSafe, MemShrinks, NoLoss, QueueInv,
         QueueIsPersisted
    <2>5. QED
      BY <1>11, <2>2, <2>4, SameRuns, SameSales DEF QueueStep, PaymentUnanswered
  <1>12. ASSUME NEW p \in Payments, EnqueuePayment(p) PROVE Goal
    BY <1>12
  <1>13. ASSUME NEW p \in Payments, ParkPayment(p) PROVE Goal
    BY <1>13
  <1>14. CASE Reload
    BY <1>14
  <1>15. ASSUME NEW p \in Payments, RemoveQueuedPayment(p) PROVE Goal
    <2>1. call[p].pc \in Queued /\ CallsSafe
      BY <1>15, SameCalls DEF RemoveQueuedPayment, QueueInv, QueuePhase
    <2>2. /\ MemShrinks /\ QueueIsPersisted' /\ TxStep
          /\ \A q \in Payments : q # p => mem'[q] = mem[q]
      BY <1>15, <2>1, RemoveInternalQueue DEF RemoveQueuedPayment, CallsSafe
    <2>3. NoLoss
      BY <1>15, <2>2 DEF NoLoss, RemoveQueuedPayment
    <2>4. QED
      BY <1>15, <2>1, <2>2, <2>3, SameRuns, SameSales
      DEF QueueStep, QueueSafe, RemoveQueuedPayment, serverVars
  <1>16. ASSUME NEW p \in Payments, RemovalDone(p) PROVE Goal
    BY <1>16, CommitDeleteQueue, SameCalls, SameRuns, SameSales
    DEF QueueStep, QueueSafe, RemovalDone, serverVars, histVars
  <1>17. ASSUME NEW p \in Payments, BackoffElapses(p) PROVE Goal
    <2>1. \A q \in Payments : /\ mem'[q] = "none" <=> mem[q] = "none"
                             /\ store'[q] = "none" <=> store[q] = "none"
      BY <1>0, <1>17 DEF BackoffElapses, QueueType
    <2>2. QueueSafe
      BY <1>17, <2>1 DEF BackoffElapses, QueueSafe, MemShrinks, NoLoss, TxStep,
         QueueInv,
         QueueIsPersisted
    <2>3. QED
      BY <1>17, <2>2, SameCalls, SameRuns, SameSales
      DEF QueueStep, BackoffElapses, serverVars, histVars
  <1>18. CASE Initialize
    <2>1. \A p \in Payments : mem'[p] = "none"
      BY <1>18 DEF Initialize, ListQueuedPayments
    <2>2. QueueSafe
      BY <1>18, <2>1 DEF Initialize, QueueSafe, MemShrinks, NoLoss, TxStep,
         QueueIsPersisted
    <2>3. QED
      BY <1>18, <2>2, SameCalls, SameRuns, SameSales
      DEF QueueStep, Initialize, serverVars
  <1>19. ASSUME NEW r \in Runs, SyncQueuedPayments(r) PROVE Goal
    <2>1. RunsSafe
      BY <1>19, ProceedMoves DEF SyncQueuedPayments, TakeSnapshot, DueIn
    <2>2. QED
      BY <1>19, <2>1, SameQueue, SameCalls, SameSales
      DEF QueueStep, SyncQueuedPayments, serverVars
  <1>20. ASSUME NEW r \in Runs, NEW p \in Payments, RetryQueuedPayment(r, p) PROVE Goal
    <2>1. QueueSafe
      BY <1>20, ApplyPatchQueue DEF RetryQueuedPayment, QueueSafe, RecordStates
    <2>2. /\ run'[r] = [pc |-> "retrying", cur |-> p, todo |-> {}]
          /\ \A o \in Runs : o # r => run'[o] = run[o]
      BY <1>0, <1>20 DEF RetryQueuedPayment, RunType
    <2>3. /\ run'[r].pc = "retrying" /\ run'[r].todo = {}
      BY <2>2
    <2>4. RunsSafe
      BY <2>2, <2>3 DEF RunsSafe, HoldsFrom, SoldFrom, Holds, Sold, QueueInv,
         RestHeld
    <2>5. QED
      BY <1>20, <2>1, <2>4, SameCalls, SameSales
      DEF QueueStep, RetryQueuedPayment, serverVars, histVars
  <1>21. ASSUME NEW r \in Runs, CommitRun(r) PROVE Goal
    <2>1. run[r].cur \in Payments
      BY <1>0, <1>21 DEF CommitRun, RunShape
    <2>2. SalesGrow /\ sales'[run[r].cur] > 0
      BY <1>21, <2>1, CommitSales DEF CommitRun, histVars
    <2>3. RunsSafe
      BY <1>21, <2>2, RunMoves DEF CommitRun, RunStates
    <2>4. QED
      BY <1>21, <2>2, <2>3, SameQueue, SameCalls DEF QueueStep, CommitRun
  <1>22. ASSUME NEW r \in Runs, SyncAccepted(r) PROVE Goal
    <2>1. RunsSafe
      BY <1>22, RunMoves DEF SyncAccepted, RunStates, Sold
    <2>2. QED
      BY <1>22, <2>1, SameQueue, SameCalls, SameSales
      DEF QueueStep, SyncAccepted, serverVars, histVars
  <1>23. ASSUME NEW r \in Runs, SyncRemove(r) PROVE Goal
    <2>1. /\ run[r].cur \in Payments /\ Holds(r, run[r].cur)
          /\ sales[run[r].cur] > 0
      BY <1>0, <1>23 DEF SyncRemove, RunShape, Holds, QueueInv, SoldPhase, Sold
    <2>2. call[run[r].cur].pc \in Queued /\ CallsSafe
      BY <1>23, <2>1, SameCalls DEF SyncRemove, QueueInv, HoldPhase
    <2>3. /\ MemShrinks /\ QueueIsPersisted' /\ TxStep
          /\ \A q \in Payments : q # run[r].cur => mem'[q] = mem[q]
      BY <1>23, <2>1, <2>2, RemoveInternalQueue DEF SyncRemove, CallsSafe
    <2>4. NoLoss
      BY <1>23, <2>1, <2>3 DEF NoLoss, SyncRemove, serverVars
    <2>5. RunsSafe
      BY <1>23, RunMoves DEF SyncRemove, RunStates, Sold
    <2>6. QED
      BY <1>23, <2>2, <2>3, <2>4, <2>5, SameSales
      DEF QueueStep, QueueSafe, SyncRemove, serverVars, histVars
  <1>24. ASSUME NEW r \in Runs, SyncSettled(r) PROVE Goal
    <2>1. /\ run[r].todo \in SUBSET Payments
          /\ \A p \in run[r].todo : Holds(r, p)
      BY <1>0 DEF RunType, RunRecord, QueueInv, RestHeld, Holds
    <2>2. RunsSafe
      BY <1>24, <2>1, ProceedMoves DEF SyncSettled
    <2>3. QED
      BY <1>24, <2>2, CommitDeleteQueue, SameCalls, SameSales
      DEF QueueStep, QueueSafe, SyncSettled, serverVars, histVars
  <1>25. ASSUME NEW r \in Runs, SyncConflict(r) PROVE Goal
    <2>1. run[r].pc \in {"posting", "posted"} /\ Mark(r, "conflict", "marking")
      BY <1>25 DEF SyncConflict
    <2>2. run[r].cur \in Payments
      BY <1>0, <2>1 DEF RunShape
    <2>3. QueueSafe
      BY <2>1, <2>2, ApplyPatchQueue DEF Mark, QueueSafe, RecordStates
    <2>4. RunsSafe
      BY <2>1, RunMoves DEF Mark, RunStates, Sold
    <2>5. QED
      BY <2>1, <2>3, <2>4, SameCalls, SameSales DEF QueueStep, Mark
  <1>26. ASSUME NEW r \in Runs, SyncServerError(r) PROVE Goal
    <2>1. run[r].pc \in {"posting", "posted"} /\ Mark(r, "backoff", "backingOff")
      BY <1>26 DEF SyncServerError, ErrorResponse
    <2>2. run[r].cur \in Payments
      BY <1>0, <2>1 DEF RunShape
    <2>3. QueueSafe
      BY <2>1, <2>2, ApplyPatchQueue DEF Mark, QueueSafe, RecordStates
    <2>4. RunsSafe
      BY <2>1, RunMoves DEF Mark, RunStates, Sold
    <2>5. QED
      BY <2>1, <2>3, <2>4, SameCalls, SameSales DEF QueueStep, Mark
  <1>27. ASSUME NEW r \in Runs, SyncRefused(r) PROVE Goal
    <2>1. run[r].pc \in {"posting", "posted"} /\ Mark(r, "failed", "marking")
      BY <1>27 DEF SyncRefused
    <2>2. run[r].cur \in Payments
      BY <1>0, <2>1 DEF RunShape
    <2>3. QueueSafe
      BY <2>1, <2>2, ApplyPatchQueue DEF Mark, QueueSafe, RecordStates
    <2>4. RunsSafe
      BY <2>1, RunMoves DEF Mark, RunStates, Sold
    <2>5. QED
      BY <2>1, <2>3, <2>4, SameCalls, SameSales DEF QueueStep, Mark
  <1>28. ASSUME NEW r \in Runs, SyncUnanswered(r) PROVE Goal
    <2>1. run[r].pc \in {"posting", "posted"} /\ Mark(r, "backoff", "stopping")
      BY <1>28 DEF SyncUnanswered, LoseAnswer
    <2>2. run[r].cur \in Payments
      BY <1>0, <2>1 DEF RunShape
    <2>3. QueueSafe
      BY <2>1, <2>2, ApplyPatchQueue DEF Mark, QueueSafe, RecordStates
    <2>4. RunsSafe
      BY <2>1, RunMoves DEF Mark, RunStates, Sold
    <2>5. QED
      BY <2>1, <2>3, <2>4, SameCalls, SameSales DEF QueueStep, Mark
  <1>29. ASSUME NEW r \in Runs, SyncMarked(r) PROVE Goal
    <2>1. /\ run[r].todo \in SUBSET Payments
          /\ \A p \in run[r].todo : Holds(r, p)
      BY <1>0 DEF RunType, RunRecord, QueueInv, RestHeld, Holds
    <2>2. RunsSafe
      <3>1. CASE run' = [run EXCEPT ![r] = IdleRun]
        BY <3>1, IdleMoves
      <3>2. CASE Proceed(r, run[r].todo)
        BY <2>1, <3>2, ProceedMoves
      <3>3. QED
        BY <1>29, <3>1, <3>2 DEF SyncMarked
    <2>3. QueueSafe
      BY <1>29, CommitPatchQueue DEF SyncMarked, QueueSafe
    <2>4. QED
      BY <1>29, <2>2, <2>3, SameCalls, SameSales
      DEF QueueStep, SyncMarked, serverVars, histVars
  <1>30. ASSUME NEW r \in Runs, RetryMarked(r) PROVE Goal
    <2>1. CommitPatch(run[r].cur, Head(txq).state)
      BY <1>30 DEF RetryMarked
    <2>2. QueueSafe /\ \A q \in Payments : mem'[q] = "none" <=> mem[q] = "none"
      BY <2>1, CommitPatchQueue DEF QueueSafe
    <2>3. RunsSafe
      <3>1. CASE run' = [run EXCEPT ![r] = IdleRun]
        BY <3>1, IdleMoves
      <3>2. CASE Proceed(r, DueIn(mem'))
        <4>1. /\ DueIn(mem') \in SUBSET Payments
              /\ \A p \in DueIn(mem') : mem[p] # "none"
          BY <2>2 DEF DueIn
        <4>2. QED
          BY <3>2, <4>1, ProceedMoves
      <3>3. QED
        BY <1>30, <3>1, <3>2 DEF RetryMarked, TakeSnapshot
    <2>4. QED
      BY <1>30, <2>2, <2>3, SameCalls, SameSales DEF QueueStep, RetryMarked,
         serverVars
  <1>31. ASSUME NEW p \in Payments, ClearCachedCart(p) PROVE Goal
    BY <1>0, <1>31, SameQueue, SameCalls, SameRuns, SameSales
    DEF QueueStep, ClearCachedCart, serverVars, histVars
  <1>32. ASSUME NEW items \in syncs, SyncCart(items) PROVE Goal
    BY <1>0, <1>32, SameQueue, SameCalls, SameRuns, SameSales
    DEF QueueStep, SyncCart, serverVars, histVars
  <1>33. QED
    BY <1>31, <1>32, <1>1, <1>2, <1>3, <1>4, <1>5, <1>6, <1>7, <1>8, <1>9, <1>10, <1>11,
       <1>12, <1>13, <1>14, <1>15, <1>16, <1>17, <1>18, <1>19, <1>20, <1>21,
       <1>22, <1>23, <1>24, <1>25, <1>26, <1>27, <1>28, <1>29, <1>30
    DEF Next, Operate, Disturb, RunStep, CallStep

LEMMA EnqueuePaymentQueue ==
  ASSUME TypeInv, TypeInv', QueueInv, NEW p \in Payments, EnqueuePayment(p)
  PROVE  QueueInv' /\ call[p].pc = "enqueueing"
  <1>0. QueueType /\ call \in CallType /\ TxInv
    BY TypeParts DEF QueueInv
  <1>1. call[p].pc = "enqueueing" /\ CallOwned(Head(txq)) /\ Head(txq).id = p
    BY <1>0, TailTx DEF EnqueuePayment, QueueType, TxInv, TxPhase, TxOk, CallOwned
  <1>2. /\ call'[p].pc = "patching" /\ \A q \in Payments : q # p => call'[q] = call[q]
        /\ mem'[p] = "due" /\ \A q \in Payments : q # p => mem'[q] = mem[q]
        /\ store'[p] = "due" /\ \A q \in Payments : q # p => store'[q] = store[q]
    BY <1>0 DEF EnqueuePayment, QueueType, CallType
  <1>3. run' = run /\ sales' = sales /\ discarded' = discarded /\ cutOff' = cutOff
    BY DEF EnqueuePayment, serverVars, histVars
  <1>4. QueuePhase' /\ HoldPhase'
    BY <1>2, <1>3 DEF QueueInv, QueuePhase, HoldPhase, Holds, Queued
  <1>5. TxInv'
    <2> DEFINE s == Tail(txq)
               t == Tx("patch", p, NoRun, "keep")
    <2>1. /\ \A i \in DOMAIN s : s[i] \in Transactions /\ TxOk(s[i])
          /\ \A i, j \in DOMAIN s :
               i # j /\ CallOwned(s[i]) /\ CallOwned(s[j]) => s[i].id # s[j].id
          /\ \A i \in DOMAIN s : CallOwned(s[i]) => s[i].id # p
      BY <1>0, <1>1, TxTail DEF EnqueuePayment
    <2>a. t \in Transactions /\ t.op = "patch" /\ t.id = p /\ t.state = "keep"
      BY TxType
    <2>2. /\ t \in Transactions /\ t.op = "patch" /\ t.id = p /\ t.state = "keep"
          /\ txq' = Append(s, t)
      BY <2>a DEF EnqueuePayment
    <2>3. s \in Seq(Transactions)
      BY <1>0, TailTx DEF EnqueuePayment, QueueType
    <2> HIDE DEF s, t
    <2>4. \A i \in DOMAIN txq' : \/ i \in DOMAIN s /\ txq'[i] = s[i]
                                 \/ i = Len(s) + 1 /\ txq'[i] = t
      BY <2>2, <2>3, AppendTx
    <2>5. \A u \in Transactions : TxOk(u) /\ (CallOwned(u) => u.id # p) => TxOk(u)'
      <3>1. ASSUME NEW u \in Transactions, TxOk(u), CallOwned(u) => u.id # p
            PROVE  TxOk(u)'
        <4>1. u.id \in Payments
          BY DEF Transactions
        <4>2. CASE u.id = p
          BY <1>1, <3>1, <4>2 DEF TxOk, CallOwned, Queued
        <4>3. CASE u.id # p
          BY <1>2, <3>1, <4>1, <4>3 DEF TxOk
        <4>4. QED
          BY <4>2, <4>3
      <3>2. QED
        BY <3>1
    <2>6. TxPhase'
      <3>1. ASSUME NEW i \in DOMAIN txq' PROVE TxOk(txq[i])'
        <4>1. CASE i \in DOMAIN s /\ txq'[i] = s[i]
          <5>1. s[i] \in Transactions /\ TxOk(s[i]) /\ (CallOwned(s[i]) => s[i].id # p)
            BY <2>1, <4>1
          <5>2. PICK u \in Transactions : u = s[i]
            BY <5>1
          <5>3. TxOk(u)'
            BY <2>5, <5>1, <5>2 DEF TxOk, CallOwned
          <5>4. QED
            BY <4>1, <5>2, <5>3 DEF TxOk
        <4>2. CASE txq'[i] = t
          BY <1>2, <2>2, <4>2 DEF TxOk
        <4>3. QED
          BY <2>4, <4>1, <4>2
      <3>2. QED
        BY <3>1 DEF TxPhase
    <2>7. OneTxPerCall'
      <3>1. ASSUME NEW i \in DOMAIN txq', NEW j \in DOMAIN txq', i # j,
                   CallOwned(txq'[i]), CallOwned(txq'[j])
            PROVE  txq'[i].id # txq'[j].id
        BY <2>1, <2>2, <2>4, <3>1
      <3>2. QED
        BY <3>1 DEF OneTxPerCall, CallOwned
    <2>8. QED
      BY <2>6, <2>7 DEF TxInv
  <1>6. QueueIsPersisted' /\ SoldPhase' /\ RestHeld' /\ NoSilentLoss'
    <2>1. QueueIsPersisted'
      BY <1>2 DEF QueueInv, QueueIsPersisted
    <2>2. SoldPhase' /\ RestHeld'
      BY <1>3 DEF QueueInv, SoldPhase, RestHeld
    <2>3. NoSilentLoss'
      BY <1>2, <1>3 DEF QueueInv, NoSilentLoss
    <2>4. QED
      BY <2>1, <2>2, <2>3
  <1>7. QED
    BY <1>1, <1>4, <1>5, <1>6 DEF QueueInv

LEMMA ParkPaymentQueue ==
  ASSUME TypeInv, TypeInv', QueueInv, NEW p \in Payments, ParkPayment(p)
  PROVE  QueueInv' /\ MemShrinks /\ call[p].pc = "patching"
  <1>0. QueueType /\ call \in CallType /\ TxInv
    BY TypeParts DEF QueueInv
  <1>1. call[p].pc = "patching" /\ CallOwned(Head(txq)) /\ Head(txq).id = p
    BY <1>0, TailTx
    DEF ParkPayment, CommitPatch, QueueType, TxInv, TxPhase, TxOk, CallOwned
  <1>2. /\ call'[p].pc = "parked" /\ \A q \in Payments : q # p => call'[q] = call[q]
        /\ run' = run /\ sales' = sales /\ discarded' = discarded /\ cutOff' = cutOff
    BY <1>0 DEF ParkPayment, CallType, serverVars, histVars
  <1>3. /\ MemShrinks /\ QueueIsPersisted'
        /\ \A q \in Payments : mem'[q] = "none" <=> mem[q] = "none"
    BY CommitPatchQueue DEF ParkPayment
  <1>4. QueuePhase' /\ HoldPhase'
    BY <1>2, <1>3 DEF QueueInv, QueuePhase, HoldPhase, Holds, Queued
  <1>5. TxInv'
    <2> DEFINE s == Tail(txq)
    <2>1. /\ \A i \in DOMAIN s : s[i] \in Transactions /\ TxOk(s[i])
          /\ \A i, j \in DOMAIN s :
               i # j /\ CallOwned(s[i]) /\ CallOwned(s[j]) => s[i].id # s[j].id
          /\ \A i \in DOMAIN s : CallOwned(s[i]) => s[i].id # p
      BY <1>0, <1>1, TxTail DEF ParkPayment, CommitPatch
    <2>2. txq' = s
      BY DEF ParkPayment, CommitPatch
    <2> HIDE DEF s
    <2>3. \A u \in Transactions : TxOk(u) /\ (CallOwned(u) => u.id # p) => TxOk(u)'
      <3>1. ASSUME NEW u \in Transactions, TxOk(u), CallOwned(u) => u.id # p
            PROVE  TxOk(u)'
        <4>1. u.id \in Payments
          BY DEF Transactions
        <4>2. CASE u.id = p
          BY <1>2, <1>3, <3>1, <4>1, <4>2 DEF TxOk, CallOwned, Queued
        <4>3. CASE u.id # p
          BY <1>2, <1>3, <3>1, <4>1, <4>3 DEF TxOk
        <4>4. QED
          BY <4>2, <4>3
      <3>2. QED
        BY <3>1
    <2>4. TxPhase'
      <3>1. ASSUME NEW i \in DOMAIN txq' PROVE TxOk(txq[i])'
        <4>1. s[i] \in Transactions /\ TxOk(s[i]) /\ (CallOwned(s[i]) => s[i].id # p)
          BY <2>1, <2>2, <3>1
        <4>2. PICK u \in Transactions : u = s[i]
          BY <4>1
        <4>3. TxOk(u)'
          BY <2>3, <4>1, <4>2 DEF TxOk, CallOwned
        <4>4. QED
          BY <2>2, <4>2, <4>3 DEF TxOk
      <3>2. QED
        BY <3>1 DEF TxPhase
    <2>5. QED
      BY <2>1, <2>2, <2>4 DEF TxInv, OneTxPerCall, CallOwned
  <1>6. SoldPhase' /\ RestHeld' /\ NoSilentLoss'
    <2>1. SoldPhase' /\ RestHeld'
      BY <1>2 DEF QueueInv, SoldPhase, RestHeld
    <2>2. NoSilentLoss'
      BY <1>1, <1>2, <1>3 DEF QueueInv, NoSilentLoss
    <2>3. QED
      BY <2>1, <2>2
  <1>7. QED
    BY <1>1, <1>3, <1>4, <1>5, <1>6 DEF QueueInv

LEMMA ReloadQueue ==
  ASSUME TypeInv, Reload
  PROVE  QueueInv' /\ MemShrinks
  <1>0. call \in CallType
    BY TypeParts
  <1>1. /\ mem' = [p \in Payments |-> "none"] /\ txq' = <<>>
        /\ run' = [r \in Runs |-> IdleRun]
        /\ call' = [p \in Payments |->
                     IF call[p].pc \in InFlight \cup {"patching", "parked"}
                     THEN [call[p] EXCEPT !.pc = "gone"] ELSE call[p]]
    BY DEF Reload
  <1>2. \A p \in Payments : call'[p].pc \notin Queued
    BY <1>0, <1>1 DEF CallType, Queued
  <1>3. \A r \in Runs : run'[r].pc = "idle" /\ run'[r].todo = {}
    BY <1>1 DEF IdleRun
  <1>4. QueuePhase' /\ HoldPhase' /\ SoldPhase' /\ RestHeld'
    BY <1>1, <1>3 DEF QueuePhase, HoldPhase, Holds, SoldPhase, Sold, RestHeld
  <1>5. TxInv'
    BY <1>1 DEF TxInv, TxPhase, OneTxPerCall
  <1>6. QueueIsPersisted' /\ NoSilentLoss'
    BY <1>1, <1>2 DEF QueueIsPersisted, NoSilentLoss, Queued
  <1>7. QED
    BY <1>1, <1>4, <1>5, <1>6 DEF QueueInv, MemShrinks

LEMMA QueueInvInit == Init => QueueInv
  <1> SUFFICES ASSUME Init PROVE QueueInv
    OBVIOUS
  <1>1. /\ mem = [p \in Payments |-> "none"] /\ txq = <<>>
        /\ run = [r \in Runs |-> IdleRun]
        /\ call = [p \in Payments |-> [pc |-> "unused", items |-> {}]]
    BY DEF Init
  <1>2. \A r \in Runs : run[r].pc = "idle" /\ run[r].todo = {}
    BY <1>1 DEF IdleRun
  <1>3. QueuePhase /\ HoldPhase /\ SoldPhase /\ RestHeld
    BY <1>1, <1>2 DEF QueuePhase, HoldPhase, Holds, SoldPhase, Sold, RestHeld
  <1>4. TxInv
    BY <1>1 DEF TxInv, TxPhase, OneTxPerCall
  <1>5. QueueIsPersisted /\ NoSilentLoss
    BY <1>1 DEF QueueIsPersisted, NoSilentLoss
  <1>6. QED
    BY <1>3, <1>4, <1>5 DEF QueueInv

LEMMA QueueInvNext == TypeInv /\ TypeInv' /\ QueueInv /\ [Next]_vars => QueueInv'
  BY QueueSteps, QueueFrame, EnqueuePaymentQueue, ParkPaymentQueue, ReloadQueue

\* A record can enter the queue only by the add of a payment that is waiting for it.
LEMMA RequeueStep ==
  ASSUME TypeInv, TypeInv', QueueInv, [Next]_vars
  PROVE  \A p \in Payments :
           call[p].pc \in {"parked", "gone"} /\ mem[p] = "none" => mem'[p] = "none"
  <1>1. CASE QueueStep
    BY <1>1 DEF QueueStep, QueueSafe, MemShrinks
  <1>2. ASSUME NEW q \in Payments, EnqueuePayment(q)
        PROVE  \A p \in Payments :
                 call[p].pc \in {"parked", "gone"} /\ mem[p] = "none" => mem'[p] = "none"
    <2>1. call[q].pc = "enqueueing"
      BY <1>2, EnqueuePaymentQueue
    <2>2. \A p \in Payments : p # q => mem'[p] = mem[p]
      BY <1>2, TypeParts DEF EnqueuePayment, QueueType
    <2>3. QED
      BY <2>1, <2>2
  <1>3. ASSUME NEW q \in Payments, ParkPayment(q) PROVE MemShrinks
    BY <1>3, ParkPaymentQueue
  <1>4. CASE Reload
    BY <1>4, ReloadQueue DEF MemShrinks
  <1>5. QED
    BY <1>1, <1>2, <1>3, <1>4, QueueSteps DEF MemShrinks

-----------------------------------------------------------------------------
(* Memory and IndexedDB agree on a record no transaction is open for *)

HasTx(p) == \E i \in DOMAIN txq : txq[i].id = p

\* A step leaves p as it is, or leaves it in a state in which they agree.
Quiet(p)   == mem'[p] = mem[p] /\ store'[p] = store[p] /\ (HasTx(p) => HasTx(p)')
Settles(p) == mem'[p] = "none" \/ HasTx(p)' \/ mem'[p] = store'[p]
Agrees     == \A p \in Payments : Quiet(p) \/ Settles(p)

LEMMA AgreesStep ==
  ASSUME AgreementAtRest, Agrees
  PROVE  AgreementAtRest'
  BY DEF AgreementAtRest, Agrees, Quiet, Settles, HasTx

LEMMA UnchangedAgrees ==
  ASSUME UNCHANGED queueVars
  PROVE  Agrees
  BY DEF Agrees, Quiet, HasTx, queueVars

LEMMA TailKeepsOthers ==
  ASSUME NEW s \in Seq(Transactions), s # <<>>, NEW i \in DOMAIN s, i # 1
  PROVE  i - 1 \in DOMAIN Tail(s) /\ Tail(s)[i - 1] = s[i]
  OBVIOUS

LEMMA AppendHasTx ==
  ASSUME NEW s \in Seq(Transactions), NEW t \in Transactions
  PROVE  /\ \A i \in DOMAIN s : i \in DOMAIN Append(s, t) /\ Append(s, t)[i] = s[i]
         /\ Len(s) + 1 \in DOMAIN Append(s, t) /\ Append(s, t)[Len(s) + 1] = t
  OBVIOUS

\* Opening a transaction for p disturbs nothing else.
LEMMA OpenedTx ==
  ASSUME QueueType, NEW t \in Transactions, txq' = Append(txq, t)
  PROVE  HasTx(t.id)' /\ \A q \in Payments : HasTx(q) => HasTx(q)'
  <1> DEFINE u == Append(txq, t)
  <1>1. /\ \A i \in DOMAIN txq : i \in DOMAIN u /\ u[i] = txq[i]
        /\ Len(txq) + 1 \in DOMAIN u /\ u[Len(txq) + 1] = t
    BY AppendHasTx DEF QueueType
  <1>2. txq' = u
    OBVIOUS
  <1> HIDE DEF u
  <1>3. QED
    BY <1>1, <1>2 DEF HasTx

\* The head commits: only its record loses a transaction.
LEMMA ClosedTx ==
  ASSUME QueueType, NEW p, txq # <<>>, Head(txq).id = p, txq' = Tail(txq)
  PROVE  \A q \in Payments : q # p /\ HasTx(q) => HasTx(q)'
  <1> SUFFICES ASSUME NEW q \in Payments, q # p, HasTx(q) PROVE HasTx(q)'
    OBVIOUS
  <1>1. PICK i \in DOMAIN txq : txq[i].id = q
    BY DEF HasTx
  <1>2. i # 1
    BY <1>1, TailTx DEF QueueType
  <1>3. i - 1 \in DOMAIN Tail(txq) /\ Tail(txq)[i - 1] = txq[i]
    BY <1>2, TailKeepsOthers DEF QueueType
  <1>4. QED
    BY <1>1, <1>3 DEF HasTx

LEMMA ApplyPatchAgrees ==
  ASSUME QueueType, NEW p \in Payments, NEW r \in Runs, NEW s \in RecordStates,
         ApplyPatch(r, p, s)
  PROVE  Agrees
  <1>1. /\ Tx("patch", p, r, s) \in Transactions
        /\ Tx("patch", p, r, s).id = p
    BY TxType
  <1>2. HasTx(p)' /\ \A q \in Payments : HasTx(q) => HasTx(q)'
    BY <1>1, OpenedTx DEF ApplyPatch
  <1>3. store' = store /\ \A q \in Payments : q # p => mem'[q] = mem[q]
    BY DEF ApplyPatch, QueueType
  <1>4. QED
    BY <1>2, <1>3 DEF Agrees, Quiet, Settles

LEMMA RemoveInternalAgrees ==
  ASSUME QueueType, NEW p \in Payments, NEW r \in Runs \cup {NoRun},
         RemoveInternal(r, p)
  PROVE  Agrees
  <1>1. /\ Tx("delete", p, r, "keep") \in Transactions
        /\ Tx("delete", p, r, "keep").id = p
    BY TxType
  <1>2. \A q \in Payments : HasTx(q) => HasTx(q)'
    BY <1>1, OpenedTx DEF RemoveInternal
  <1>3. /\ store' = store /\ mem'[p] = "none"
        /\ \A q \in Payments : q # p => mem'[q] = mem[q]
    BY DEF RemoveInternal, QueueType
  <1>4. QED
    BY <1>2, <1>3 DEF Agrees, Quiet, Settles

LEMMA CommitPatchAgrees ==
  ASSUME QueueType, QueueIsPersisted, NEW p, NEW s, CommitPatch(p, s)
  PROVE  Agrees
  <1>1. p \in Payments /\ s \in RecordStates \cup {"keep"}
    BY TailTx DEF CommitPatch, QueueType, Transactions
  <1>2. \A q \in Payments : q # p /\ HasTx(q) => HasTx(q)'
    BY ClosedTx DEF CommitPatch
  <1>3. /\ store'[p] = Patched(store[p], s)
        /\ \A q \in Payments : q # p => store'[q] = store[q] /\ mem'[q] = mem[q]
    BY <1>1 DEF CommitPatch, QueueType
  <1>4. /\ store'[p] \in RecordStates \cup {"none"}
        /\ store'[p] = "none" <=> store[p] = "none"
    BY <1>1, <1>3, PatchedType DEF QueueType
  <1>5. CASE store'[p] = "none"
    <2>1. mem'[p] = "none"
      BY <1>1, <1>4, <1>5 DEF CommitPatch, QueueIsPersisted
    <2>2. QED
      BY <1>2, <1>3, <2>1 DEF Agrees, Quiet, Settles
  <1>6. CASE store'[p] # "none"
    <2>1. mem'[p] = Patched(mem[p], store'[p])
      BY <1>1, <1>6 DEF CommitPatch, QueueType
    <2>2. mem'[p] = "none" \/ mem'[p] = store'[p]
      BY <1>4, <1>6, <2>1 DEF Patched, RecordStates
    <2>3. QED
      BY <1>2, <1>3, <2>2 DEF Agrees, Quiet, Settles
  <1>7. QED
    BY <1>5, <1>6

LEMMA CommitDeleteAgrees ==
  ASSUME TypeInv, QueueInv, NEW p, CommitDelete(p)
  PROVE  Agrees
  <1>0. QueueType
    BY TypeParts
  <1>1. Head(txq) \in Transactions /\ 1 \in DOMAIN txq /\ Head(txq) = txq[1]
    BY <1>0, TailTx DEF CommitDelete, QueueType
  <1>2. p \in Payments /\ mem[p] = "none"
    BY <1>1 DEF CommitDelete, Transactions, QueueInv, TxInv, TxPhase, TxOk
  <1>3. \A q \in Payments : q # p /\ HasTx(q) => HasTx(q)'
    BY <1>0, ClosedTx DEF CommitDelete
  <1>4. mem' = mem /\ \A q \in Payments : q # p => store'[q] = store[q]
    BY <1>0 DEF CommitDelete, QueueType
  <1>5. QED
    BY <1>2, <1>3, <1>4 DEF Agrees, Quiet, Settles

LEMMA EnqueuePaymentAgrees ==
  ASSUME QueueType, NEW p \in Payments, EnqueuePayment(p)
  PROVE  Agrees
  <1>1. /\ store'[p] = "due" /\ mem'[p] = "due"
        /\ \A q \in Payments : q # p => store'[q] = store[q] /\ mem'[q] = mem[q]
    BY DEF EnqueuePayment, QueueType
  <1>2. ASSUME NEW q \in Payments, q # p, HasTx(q) PROVE HasTx(q)'
    <2> DEFINE s == Tail(txq)
               t == Tx("patch", p, NoRun, "keep")
    <2>1. s \in Seq(Transactions) /\ t \in Transactions
      BY TailTx, TxType DEF EnqueuePayment, QueueType
    <2>2. PICK i \in DOMAIN txq : txq[i].id = q
      BY <1>2 DEF HasTx
    <2>3. i # 1
      BY <1>2, <2>2, TailTx DEF EnqueuePayment, QueueType
    <2>4. i - 1 \in DOMAIN s /\ s[i - 1] = txq[i]
      BY <2>3, TailKeepsOthers DEF EnqueuePayment, QueueType
    <2>5. i - 1 \in DOMAIN Append(s, t) /\ Append(s, t)[i - 1] = txq[i]
      BY <2>1, <2>4, AppendHasTx
    <2>6. txq' = Append(s, t)
      BY DEF EnqueuePayment
    <2>7. QED
      BY <2>2, <2>5, <2>6 DEF HasTx
  <1>3. QED
    BY <1>1, <1>2 DEF Agrees, Quiet, Settles

LEMMA AgreementNext ==
  ASSUME TypeInv, QueueInv, AgreementAtRest, [Next]_vars
  PROVE  Agrees
  <1>0. /\ QueueType /\ QueueIsPersisted /\ RunShape
    BY TypeParts DEF QueueInv
  <1>1. CASE UNCHANGED queueVars
    BY <1>1, UnchangedAgrees
  <1>2. ASSUME NEW p \in Payments, PaymentUnanswered(p) PROVE Agrees
    <2>1. /\ Tx("add", p, NoRun, "due") \in Transactions
          /\ txq' = Append(txq, Tx("add", p, NoRun, "due"))
      BY <1>2, TxType DEF PaymentUnanswered, RecordStates
    <2>2. QED
      BY <1>0, <1>2, <2>1, OpenedTx DEF PaymentUnanswered, Agrees, Quiet
  <1>3. ASSUME NEW p \in Payments, EnqueuePayment(p) \/ ParkPayment(p) PROVE Agrees
    BY <1>0, <1>3, EnqueuePaymentAgrees, CommitPatchAgrees DEF ParkPayment
  <1>4. ASSUME NEW p \in Payments, RemoveQueuedPayment(p) \/ RemovalDone(p)
        PROVE  Agrees
    BY <1>0, <1>4, RemoveInternalAgrees, CommitDeleteAgrees
    DEF RemoveQueuedPayment, RemovalDone
  <1>5. ASSUME NEW r \in Runs, NEW p \in Payments, RetryQueuedPayment(r, p)
        PROVE  Agrees
    BY <1>0, <1>5, ApplyPatchAgrees DEF RetryQueuedPayment, RecordStates
  <1>6. CASE Initialize \/ Reload
    BY <1>6 DEF Initialize, ListQueuedPayments, Reload, Agrees, Settles
  <1>7. ASSUME NEW p \in Payments, BackoffElapses(p) PROVE Agrees
    <2>1. \A q \in Payments : q # p => mem'[q] = mem[q] /\ store'[q] = store[q]
      BY <1>0, <1>7 DEF BackoffElapses, QueueType
    <2>2. txq' = txq /\ ~HasTx(p)
      BY <1>7 DEF BackoffElapses, HasTx
    <2>3. AgreementAtRest => mem[p] = "none" \/ mem[p] = store[p]
      BY <2>2 DEF AgreementAtRest, HasTx
    <2>4. QED
      BY <1>0, <1>7, <2>1, <2>2, <2>3
      DEF BackoffElapses, QueueType, Agrees, Quiet, Settles, HasTx
  <1>8. ASSUME NEW r \in Runs, run[r].cur \in Payments,
               NEW s \in {"conflict", "backoff", "failed"}, NEW pc, Mark(r, s, pc)
        PROVE  Agrees
    BY <1>0, <1>8, ApplyPatchAgrees DEF Mark, RecordStates
  <1>9. ASSUME NEW r \in Runs,
               \/ SyncConflict(r) \/ SyncServerError(r) \/ SyncRefused(r)
               \/ SyncUnanswered(r)
        PROVE  Agrees
    <2>1. run[r].cur \in Payments
      BY <1>0, <1>9 DEF RunShape, SyncConflict, SyncServerError, ErrorResponse,
         SyncRefused, SyncUnanswered, LoseAnswer
    <2>2. QED
      BY <1>8, <1>9, <2>1 DEF SyncConflict, SyncServerError, SyncRefused,
         SyncUnanswered
  <1>10. ASSUME NEW r \in Runs, SyncRemove(r) PROVE Agrees
    BY <1>0, <1>10, RemoveInternalAgrees DEF SyncRemove, RunShape
  <1>11. ASSUME NEW r \in Runs, SyncSettled(r) PROVE Agrees
    BY <1>11, CommitDeleteAgrees DEF SyncSettled
  <1>12. ASSUME NEW r \in Runs, SyncMarked(r) \/ RetryMarked(r) PROVE Agrees
    BY <1>0, <1>12, CommitPatchAgrees DEF SyncMarked, RetryMarked
  <1>13. QED
    BY <1>1, <1>2, <1>3, <1>4, <1>5, <1>6, <1>7, <1>9, <1>10, <1>11, <1>12
    DEF Next, Operate, Disturb, RunStep, CallStep, vars, queueVars,
        AddToCart, RemoveFromCart, ClearCart, ApplyRemoteSale, ProcessPayment,
        SyncQueuedPayments, CommitOrphan, PaymentRejected, CommitCall,
        PaymentAccepted, CommitRun, SyncAccepted, ClearCachedCart, SyncCart

-----------------------------------------------------------------------------
(* The invariants of the specification *)

LEMMA QueueInvariant == Spec => [](TypeInv /\ QueueInv)
  <1>1. Init => TypeInv /\ QueueInv
    BY TypeInvInit, QueueInvInit
  <1>2. (TypeInv /\ QueueInv) /\ [Next]_vars => (TypeInv /\ QueueInv)'
    BY TypeInvNext, QueueInvNext
  <1>3. QED
    BY <1>1, <1>2, PTL DEF Spec

\* A payment the page shows as queued is always in IndexedDB as well: with any
\* number of runs, retries and removals interleaved, the record in memory
\* appears after the add has committed and goes before the delete is opened.
THEOREM QueueAlwaysPersisted == Spec => []QueueIsPersisted
  <1>1. QueueInv => QueueIsPersisted
    BY DEF QueueInv
  <1>2. QED
    BY <1>1, QueueInvariant, PTL

\* An offline payment never leaves the queue unsold, unless the operator removes
\* it or a start of the page drops the whole queue: a run takes a record out
\* only after the answer that says its sale is committed.
THEOREM NothingLostSilently == Spec => []NoSilentLoss
  <1>1. QueueInv => NoSilentLoss
    BY DEF QueueInv
  <1>2. QED
    BY <1>1, QueueInvariant, PTL

\* However the patches, retries and removals of overlapping runs interleave, the
\* page and IndexedDB agree on a queued payment once its transactions are through.
THEOREM QueuesAgreeAtRest == Spec => []AgreementAtRest
  <1>1. Init => AgreementAtRest
    BY DEF Init, AgreementAtRest
  <1>2. /\ TypeInv /\ QueueInv /\ AgreementAtRest /\ [Next]_vars
        => AgreementAtRest'
    BY AgreementNext, AgreesStep
  <1>3. QED
    BY <1>1, <1>2, QueueInvariant, PTL DEF Spec

\* No patch that is still under way brings a payment back that has left the queue.
THEOREM LeavesTheQueueForGood == Spec => NeverRequeued
  <1> DEFINE Step == \A p \in Payments :
               call[p].pc \in {"parked", "gone"} /\ mem[p] = "none" => mem'[p] = "none"
  <1>1. (TypeInv /\ QueueInv) /\ (TypeInv /\ QueueInv)' /\ [Next]_vars => [Step]_vars
    BY RequeueStep
  <1>2. QED
    BY <1>1, QueueInvariant, PTL DEF Spec, NeverRequeued


-----------------------------------------------------------------------------
(* A run that waits for a transaction waits for exactly one, of its kind *)

Patching == {"marking", "backingOff", "stopping", "retrying"}
Awaiting == Patching \cup {"removing"}

OwnerOk(t, rn) ==
  t.by \in Runs => \/ t.op = "patch" /\ rn[t.by].pc \in Patching
                   \/ t.op = "delete" /\ rn[t.by].pc = "removing"

OwnerSeq(s, rn) ==
  /\ \A i \in DOMAIN s : OwnerOk(s[i], rn)
  /\ \A i, j \in DOMAIN s :
       i # j /\ s[i].by \in Runs /\ s[j].by \in Runs => s[i].by # s[j].by

OwnerInv == OwnerSeq(txq, run)

LEMMA OwnerKeeps ==
  ASSUME NEW s, NEW rn, NEW rn2, OwnerSeq(s, rn),
         \A r \in Runs : rn[r].pc \in Awaiting => rn2[r].pc = rn[r].pc
  PROVE  OwnerSeq(s, rn2)
  BY DEF OwnerSeq, OwnerOk, Awaiting

LEMMA OwnerTail ==
  ASSUME NEW s \in Seq(Transactions), s # <<>>, NEW rn, NEW rn2, OwnerSeq(s, rn),
         \A r \in Runs : r # Head(s).by => rn2[r].pc = rn[r].pc
  PROVE  OwnerSeq(Tail(s), rn2)
  <1> DEFINE u == Tail(s)
  <1>1. /\ 1 \in DOMAIN s /\ Head(s) = s[1]
        /\ \A i \in DOMAIN u : i + 1 \in DOMAIN s /\ i + 1 # 1 /\ u[i] = s[i + 1]
        /\ u \in Seq(Transactions)
    BY TailTx
  <1> HIDE DEF u
  <1>2. \A i, j \in DOMAIN u : i # j => i + 1 # j + 1
    BY <1>1
  <1>3. \A i \in DOMAIN u : u[i].by \in Runs /\ Head(s).by \in Runs => u[i].by # Head(s).by
    BY <1>1 DEF OwnerSeq
  <1>4. ASSUME NEW i \in DOMAIN u PROVE OwnerOk(u[i], rn2)
    <2>1. OwnerOk(u[i], rn)
      BY <1>1 DEF OwnerSeq
    <2>2. QED
      BY <1>3, <2>1 DEF OwnerOk
  <1>5. ASSUME NEW i \in DOMAIN u, NEW j \in DOMAIN u, i # j,
               u[i].by \in Runs, u[j].by \in Runs
        PROVE  u[i].by # u[j].by
    <2>1. \A k, l \in DOMAIN s :
            k # l /\ s[k].by \in Runs /\ s[l].by \in Runs => s[k].by # s[l].by
      BY DEF OwnerSeq
    <2>2. i + 1 \in DOMAIN s /\ j + 1 \in DOMAIN s /\ i + 1 # j + 1
          /\ u[i] = s[i + 1] /\ u[j] = s[j + 1]
      BY <1>1, <1>2, <1>5
    <2>3. QED
      BY <1>5, <2>1, <2>2
  <1>6. OwnerSeq(u, rn2)
    BY <1>4, <1>5 DEF OwnerSeq
  <1>7. QED
    BY <1>6 DEF u

LEMMA OwnerAppend ==
  ASSUME NEW s \in Seq(Transactions), NEW t \in Transactions, NEW rn, NEW rn2,
         OwnerSeq(s, rn), OwnerOk(t, rn2),
         t.by \in Runs => rn[t.by].pc \notin Awaiting,
         \A r \in Runs : r # t.by => rn2[r].pc = rn[r].pc
  PROVE  OwnerSeq(Append(s, t), rn2)
  <1> DEFINE u == Append(s, t)
  <1>1. \A i \in DOMAIN u : \/ i \in DOMAIN s /\ u[i] = s[i]
                            \/ i = Len(s) + 1 /\ u[i] = t
    BY AppendTx
  <1> HIDE DEF u
  <1>2. \A i \in DOMAIN s : s[i].by \in Runs => s[i].by # t.by
    BY DEF OwnerSeq, OwnerOk, Awaiting
  <1>3. ASSUME NEW i \in DOMAIN u PROVE OwnerOk(u[i], rn2)
    <2>1. CASE i \in DOMAIN s /\ u[i] = s[i]
      <3>1. OwnerOk(s[i], rn)
        BY <2>1 DEF OwnerSeq
      <3>2. QED
        BY <1>2, <2>1, <3>1 DEF OwnerOk
    <2>2. QED
      BY <1>1, <2>1
  <1>4. ASSUME NEW i \in DOMAIN u, NEW j \in DOMAIN u, i # j,
               u[i].by \in Runs, u[j].by \in Runs
        PROVE  u[i].by # u[j].by
    <2>1. \A k, l \in DOMAIN s :
            k # l /\ s[k].by \in Runs /\ s[l].by \in Runs => s[k].by # s[l].by
      BY DEF OwnerSeq
    <2>2. QED
      BY <1>1, <1>2, <1>4, <2>1
  <1>5. OwnerSeq(u, rn2)
    BY <1>3, <1>4 DEF OwnerSeq
  <1>6. QED
    BY <1>5 DEF u

\* The head of the FIFO commits; only its owner moves.
LEMMA OwnerCommits ==
  ASSUME TypeInv, OwnerInv, txq # <<>>, txq' = Tail(txq),
         \A o \in Runs : o # Head(txq).by => run'[o] = run[o]
  PROVE  OwnerInv'
  <1>1. txq \in Seq(Transactions)
    BY TypeParts DEF QueueType
  <1>2. OwnerSeq(Tail(txq), run')
    <2>1. \A r \in Runs : r # Head(txq).by => run'[r].pc = run[r].pc
      OBVIOUS
    <2>2. OwnerSeq(txq, run)
      BY DEF OwnerInv
    <2>3. QED
      BY <1>1, <2>1, <2>2, OwnerTail
  <1>3. QED
    BY <1>2 DEF OwnerInv

\* Run r opens a transaction of its kind and waits for it.
LEMMA OwnerOpens ==
  ASSUME TypeInv, OwnerInv, NEW r \in Runs, run[r].pc \notin Awaiting,
         NEW t \in Transactions, t.by = r, OwnerOk(t, run'), txq' = Append(txq, t),
         \A o \in Runs : o # r => run'[o].pc = run[o].pc
  PROVE  OwnerInv'
  <1>1. txq \in Seq(Transactions)
    BY TypeParts DEF QueueType
  <1>2. OwnerSeq(Append(txq, t), run')
    BY <1>1, OwnerAppend DEF OwnerInv
  <1>3. QED
    BY <1>2 DEF OwnerInv

\* A transaction of processPayment or of the operator is opened.
LEMMA OwnerOther ==
  ASSUME TypeInv, OwnerInv, NEW t \in Transactions, t.by = NoRun,
         txq' = Append(txq, t), run' = run
  PROVE  OwnerInv'
  <1>1. txq \in Seq(Transactions)
    BY TypeParts DEF QueueType
  <1>2. OwnerOk(t, run)
    BY ConstantsAssumption DEF OwnerOk
  <1>3. OwnerSeq(Append(txq, t), run)
    BY <1>1, <1>2, OwnerAppend, ConstantsAssumption DEF OwnerInv
  <1>4. QED
    BY <1>3 DEF OwnerInv

\* The FIFO stays; runs that wait go on waiting.
LEMMA OwnerSame ==
  ASSUME OwnerInv, txq' = txq,
         \A r \in Runs : run[r].pc \in Awaiting => run'[r].pc = run[r].pc
  PROVE  OwnerInv'
  BY OwnerKeeps DEF OwnerInv

LEMMA OwnerMarks ==
  ASSUME TypeInv, OwnerInv, NEW r \in Runs, run[r].pc \in {"posting", "posted"},
         NEW s \in RecordStates, NEW pc \in Patching, Mark(r, s, pc)
  PROVE  OwnerInv'
  <1>1. /\ run[r].cur \in Payments /\ run'[r].pc = pc
        /\ \A o \in Runs : o # r => run'[o].pc = run[o].pc
    BY TypeParts, RunPcType DEF Mark, RunStates, Patching, RunShape
  <1>2. /\ Tx("patch", run[r].cur, r, s) \in Transactions
        /\ Tx("patch", run[r].cur, r, s).by = r
        /\ Tx("patch", run[r].cur, r, s).op = "patch"
    BY <1>1, TxType
  <1>3. OwnerOk(Tx("patch", run[r].cur, r, s), run')
    BY <1>1, <1>2 DEF OwnerOk
  <1>4. QED
    BY <1>1, <1>2, <1>3, OwnerOpens DEF Mark, ApplyPatch, Awaiting, Patching

LEMMA OwnerInvInit == Init => OwnerInv
  BY DEF Init, OwnerInv, OwnerSeq

LEMMA OwnerInvNext ==
  ASSUME TypeInv, TypeInv', OwnerInv, [Next]_vars
  PROVE  OwnerInv'
  <1>0. QueueType /\ call \in CallType /\ run \in RunType /\ RunShape /\ RunShape'
    BY TypeParts DEF TypeInv
  <1>1. ASSUME NEW s \in Scans, AddToCart(s) PROVE OwnerInv'
    BY <1>1, OwnerSame DEF AddToCart, queueVars
  <1>2. ASSUME NEW s \in Scans, RemoveFromCart(s) PROVE OwnerInv'
    BY <1>2, OwnerSame DEF RemoveFromCart, queueVars
  <1>3. CASE ClearCart
    BY <1>3, OwnerSame DEF ClearCart, queueVars
  <1>4. CASE ApplyRemoteSale
    BY <1>4, OwnerSame DEF ApplyRemoteSale, queueVars
  <1>5. CASE Initialize
    BY <1>5, OwnerSame DEF Initialize, queueVars
  <1>6. CASE UNCHANGED vars
    BY <1>6, OwnerSame DEF vars, queueVars
  <1>7. ASSUME NEW p \in Payments, ProcessPayment(p) PROVE OwnerInv'
    BY <1>7, OwnerSame DEF ProcessPayment, queueVars
  <1>8. ASSUME NEW p \in Payments, CommitOrphan(p) PROVE OwnerInv'
    BY <1>8, OwnerSame DEF CommitOrphan, queueVars
  <1>9. ASSUME NEW p \in Payments, CommitCall(p) PROVE OwnerInv'
    BY <1>9, OwnerSame DEF CommitCall, queueVars
  <1>10. ASSUME NEW p \in Payments, PaymentAccepted(p) PROVE OwnerInv'
    BY <1>10, OwnerSame DEF PaymentAccepted, queueVars
  <1>11. ASSUME NEW p \in Payments, PaymentRejected(p) PROVE OwnerInv'
    BY <1>11, OwnerSame DEF PaymentRejected, queueVars
  <1>12. ASSUME NEW p \in Payments, BackoffElapses(p) PROVE OwnerInv'
    BY <1>12, OwnerSame DEF BackoffElapses, queueVars
  <1>13. ASSUME NEW p \in Payments, PaymentUnanswered(p) PROVE OwnerInv'
    <2>1. Tx("add", p, NoRun, "due") \in Transactions /\ Tx("add", p, NoRun, "due").by = NoRun
      BY TxType DEF RecordStates
    <2>2. QED
      BY <1>13, <2>1, OwnerOther DEF PaymentUnanswered
  <1>14. ASSUME NEW p \in Payments, EnqueuePayment(p) PROVE OwnerInv'
    <2>1. /\ Tail(txq) \in Seq(Transactions) /\ OwnerSeq(Tail(txq), run)
          /\ run' = run
      <3>1. \A r \in Runs : r # Head(txq).by => run[r].pc = run[r].pc
        OBVIOUS
      <3>2. QED
        BY <1>0, <1>14, <3>1, TailTx, OwnerTail DEF EnqueuePayment, QueueType,
           OwnerInv
    <2>2. /\ Tx("patch", p, NoRun, "keep") \in Transactions
          /\ Tx("patch", p, NoRun, "keep").by = NoRun
      BY TxType
    <2>3. OwnerSeq(Append(Tail(txq), Tx("patch", p, NoRun, "keep")), run)
      <3>1. OwnerOk(Tx("patch", p, NoRun, "keep"), run)
        BY <2>2, ConstantsAssumption DEF OwnerOk
      <3>2. \A r \in Runs : r # NoRun => run[r].pc = run[r].pc
        OBVIOUS
      <3>3. QED
        BY <2>1, <2>2, <3>1, <3>2, OwnerAppend, ConstantsAssumption
    <2>4. QED
      BY <1>14, <2>1, <2>3 DEF EnqueuePayment, OwnerInv
  <1>15. ASSUME NEW p \in Payments, ParkPayment(p) PROVE OwnerInv'
    BY <1>15, OwnerCommits DEF ParkPayment, CommitPatch
  <1>16. ASSUME NEW p \in Payments, RemovalDone(p) PROVE OwnerInv'
    BY <1>16, OwnerCommits DEF RemovalDone, CommitDelete
  <1>17. CASE Reload
    BY <1>17 DEF Reload, OwnerInv, OwnerSeq
  <1>18. ASSUME NEW p \in Payments, RemoveQueuedPayment(p) PROVE OwnerInv'
    <2>1. /\ Tx("delete", p, NoRun, "keep") \in Transactions
          /\ Tx("delete", p, NoRun, "keep").by = NoRun
      BY TxType
    <2>2. QED
      BY <1>18, <2>1, OwnerOther DEF RemoveQueuedPayment, RemoveInternal
  <1>19. ASSUME NEW r \in Runs, SyncQueuedPayments(r) PROVE OwnerInv'
    <2>1. \A o \in Runs : o # r => run'[o] = run[o]
      BY <1>19, ProceedHolds DEF SyncQueuedPayments, TakeSnapshot, DueIn
    <2>2. QED
      BY <1>19, <2>1, OwnerSame DEF SyncQueuedPayments, queueVars, Awaiting,
         Patching
  <1>20. ASSUME NEW r \in Runs, NEW p \in Payments, RetryQueuedPayment(r, p) PROVE OwnerInv'
    <2>1. /\ run'[r].pc = "retrying" /\ \A o \in Runs : o # r => run'[o] = run[o]
      BY <1>0, <1>20 DEF RetryQueuedPayment, RunType
    <2>2. /\ Tx("patch", p, r, "due") \in Transactions
          /\ Tx("patch", p, r, "due").by = r /\ Tx("patch", p, r, "due").op = "patch"
      BY TxType DEF RecordStates
    <2>3. OwnerOk(Tx("patch", p, r, "due"), run')
      BY <2>1, <2>2 DEF OwnerOk, Patching
    <2>4. \A o \in Runs : o # r => run'[o].pc = run[o].pc
      BY <2>1
    <2>5. QED
      BY <1>20, <2>2, <2>3, <2>4, OwnerOpens
      DEF RetryQueuedPayment, ApplyPatch, Awaiting, Patching
  <1>21. ASSUME NEW r \in Runs, CommitRun(r) PROVE OwnerInv'
    <2>1. \A o \in Runs : o # r => run'[o].pc = run[o].pc
      BY <1>0, <1>21, RunPcType DEF CommitRun, RunStates
    <2>2. QED
      BY <1>21, <2>1, OwnerSame DEF CommitRun, queueVars, Awaiting, Patching
  <1>22. ASSUME NEW r \in Runs, SyncAccepted(r) PROVE OwnerInv'
    <2>1. \A o \in Runs : o # r => run'[o].pc = run[o].pc
      BY <1>0, <1>22, RunPcType DEF SyncAccepted, RunStates
    <2>2. QED
      BY <1>22, <2>1, OwnerSame DEF SyncAccepted, queueVars, Awaiting, Patching
  <1>23. ASSUME NEW r \in Runs, SyncRemove(r) PROVE OwnerInv'
    <2>1. /\ run[r].cur \in Payments /\ run'[r].pc = "removing"
          /\ \A o \in Runs : o # r => run'[o].pc = run[o].pc
      BY <1>0, <1>23, RunPcType DEF SyncRemove, RunStates, RunShape
    <2>2. /\ Tx("delete", run[r].cur, r, "keep") \in Transactions
          /\ Tx("delete", run[r].cur, r, "keep").by = r
          /\ Tx("delete", run[r].cur, r, "keep").op = "delete"
      BY <2>1, TxType
    <2>3. OwnerOk(Tx("delete", run[r].cur, r, "keep"), run')
      BY <2>1, <2>2 DEF OwnerOk
    <2>4. QED
      BY <1>23, <2>1, <2>2, <2>3, OwnerOpens DEF SyncRemove, RemoveInternal,
         Awaiting, Patching
  <1>24. ASSUME NEW r \in Runs, SyncSettled(r) PROVE OwnerInv'
    <2>1. \A o \in Runs : o # r => run'[o] = run[o]
      BY <1>0, <1>24, ProceedHolds DEF SyncSettled, RunType, RunRecord
    <2>2. QED
      BY <1>24, <2>1, OwnerCommits DEF SyncSettled, CommitDelete
  <1>25. ASSUME NEW r \in Runs, SyncConflict(r) PROVE OwnerInv'
    <2>1. run[r].pc \in {"posting", "posted"} /\ Mark(r, "conflict", "marking")
      BY <1>25 DEF SyncConflict
    <2>2. QED
      BY <2>1, OwnerMarks DEF RecordStates, Patching
  <1>26. ASSUME NEW r \in Runs, SyncServerError(r) PROVE OwnerInv'
    <2>1. run[r].pc \in {"posting", "posted"} /\ Mark(r, "backoff", "backingOff")
      BY <1>26 DEF SyncServerError, ErrorResponse
    <2>2. QED
      BY <2>1, OwnerMarks DEF RecordStates, Patching
  <1>27. ASSUME NEW r \in Runs, SyncRefused(r) PROVE OwnerInv'
    <2>1. run[r].pc \in {"posting", "posted"} /\ Mark(r, "failed", "marking")
      BY <1>27 DEF SyncRefused
    <2>2. QED
      BY <2>1, OwnerMarks DEF RecordStates, Patching
  <1>28. ASSUME NEW r \in Runs, SyncUnanswered(r) PROVE OwnerInv'
    <2>1. run[r].pc \in {"posting", "posted"} /\ Mark(r, "backoff", "stopping")
      BY <1>28 DEF SyncUnanswered, LoseAnswer
    <2>2. QED
      BY <2>1, OwnerMarks DEF RecordStates, Patching
  <1>29. ASSUME NEW r \in Runs, SyncMarked(r) PROVE OwnerInv'
    <2>1. \A o \in Runs : o # r => run'[o] = run[o]
      <3>1. CASE run' = [run EXCEPT ![r] = IdleRun]
        BY <1>0, <3>1 DEF RunType
      <3>2. CASE Proceed(r, run[r].todo)
        BY <1>0, <3>2, ProceedHolds DEF RunType, RunRecord
      <3>3. QED
        BY <1>29, <3>1, <3>2 DEF SyncMarked
    <2>2. QED
      BY <1>29, <2>1, OwnerCommits DEF SyncMarked, CommitPatch
  <1>30. ASSUME NEW r \in Runs, RetryMarked(r) PROVE OwnerInv'
    <2>1. \A o \in Runs : o # r => run'[o] = run[o]
      <3>1. CASE run' = [run EXCEPT ![r] = IdleRun]
        BY <1>0, <3>1 DEF RunType
      <3>2. CASE Proceed(r, DueIn(mem'))
        <4>1. DueIn(mem') \in SUBSET Payments
          BY DEF DueIn
        <4>2. QED
          BY <3>2, <4>1, ProceedHolds
      <3>3. QED
        BY <1>30, <3>1, <3>2 DEF RetryMarked, TakeSnapshot
    <2>2. QED
      BY <1>30, <2>1, OwnerCommits DEF RetryMarked, CommitPatch
  <1>31. ASSUME NEW p \in Payments, ClearCachedCart(p) PROVE OwnerInv'
    BY <1>31, OwnerSame DEF ClearCachedCart, queueVars
  <1>32. ASSUME NEW items \in syncs, SyncCart(items) PROVE OwnerInv'
    BY <1>32, OwnerSame DEF SyncCart, queueVars
  <1>33. QED
    BY <1>31, <1>32, <1>1, <1>2, <1>3, <1>4, <1>5, <1>6, <1>7, <1>8, <1>9, <1>10, <1>11,
       <1>12, <1>13, <1>14, <1>15, <1>16, <1>17, <1>18, <1>19, <1>20, <1>21,
       <1>22, <1>23, <1>24, <1>25, <1>26, <1>27, <1>28, <1>29, <1>30
    DEF Next, Operate, Disturb, RunStep, CallStep

-----------------------------------------------------------------------------
(* One sale for each payment *)

\* The sales a payment has, or may still get from a request whose sender is gone.
Total(p)     == sales[p] + orphans[p]
Unsent       == {"unused", "posting", "enqueueing"}
OneHolder(p) == \A r, o \in Runs : Holds(r, p) /\ Holds(o, p) => r = o
WorksOn(r, p) == run[r].cur = p /\ run[r].pc \in Sold

\* Once p is sold, or as good as sold, no activation is left that would post it:
\* the call is over, the record is on its way out of the queue.
Settled(p) ==
  /\ call[p].pc \notin Unsent
  /\ mem[p] # "none" => \E r \in Runs : Holds(r, p)
  /\ \A r \in Runs : Holds(r, p) => WorksOn(r, p)

SellOnce(p) == OneHolder(p) /\ (Total(p) = 0 \/ (Total(p) = 1 /\ Settled(p)))

SaleInv == \A p \in Payments : p \notin ambiguous \cup contended => SellOnce(p)

\* Nobody comes to hold p, nobody lets go of it, nobody posts it.
SellQuiet(p) ==
  /\ Total(p)' = Total(p)
  /\ \A r \in Runs : Holds(r, p)' <=> Holds(r, p)
  /\ \A r \in Runs : Holds(r, p) /\ WorksOn(r, p) => WorksOn(r, p)'
  /\ mem'[p] # "none" => mem[p] # "none"
  /\ call[p].pc \notin Unsent => call'[p].pc \notin Unsent

LEMMA SellKeeps ==
  ASSUME NEW p \in Payments, SellOnce(p), SellQuiet(p)
  PROVE  SellOnce(p)'
  <1>1. OneHolder(p)'
    BY DEF SellOnce, SellQuiet, OneHolder
  <1>2. Settled(p) => Settled(p)'
    BY DEF Settled, SellQuiet
  <1>3. QED
    BY <1>1, <1>2 DEF SellOnce, SellQuiet

LEMMA SellNone ==
  ASSUME NEW p \in Payments, Total(p)' = 0, OneHolder(p)'
  PROVE  SellOnce(p)'
  BY DEF SellOnce

\* A step that leaves the runs, the sales and the orphans alone.
LEMMA SellCalm ==
  ASSUME NEW p \in Payments, SellOnce(p), run' = run, Total(p)' = Total(p),
         mem'[p] # "none" => mem[p] # "none",
         call[p].pc \notin Unsent => call'[p].pc \notin Unsent
  PROVE  SellOnce(p)'
  <1>1. SellQuiet(p)
    BY DEF SellQuiet, Holds, WorksOn
  <1>2. QED
    BY <1>1, SellKeeps

\* A run in its loop moves on to another phase with p unsold or not its own.
LEMMA SellPhase ==
  ASSUME TypeInv, NEW p \in Payments, SellOnce(p), NEW r \in Runs, NEW pc \in RunStates,
         run[r].pc \notin {"idle", "retrying"}, pc \notin {"idle", "retrying"},
         run' = [run EXCEPT ![r].pc = pc], call' = call, Total(p)' = Total(p),
         mem'[p] # "none" => mem[p] # "none",
         run[r].cur = p => run[r].pc \notin Sold \/ pc \in Sold
  PROVE  SellOnce(p)'
  <1>1. /\ run'[r].pc = pc
        /\ \A o \in Runs : /\ run'[o].cur = run[o].cur
                           /\ run'[o].todo = run[o].todo
                           /\ o # r => run'[o].pc = run[o].pc
    BY TypeParts, RunPcType
  <1>2. \A o \in Runs : Holds(o, p)' <=> Holds(o, p)
    BY <1>1 DEF Holds
  <1>3. \A o \in Runs : Holds(o, p) /\ WorksOn(o, p) => WorksOn(o, p)'
    BY <1>1 DEF WorksOn
  <1>4. SellQuiet(p)
    BY <1>2, <1>3 DEF SellQuiet
  <1>5. QED
    BY <1>4, SellKeeps

\* A posting run works on a payment that has not been sold.
LEMMA PostingUnsold ==
  ASSUME TypeInv, NEW r \in Runs, run[r].pc = "posting", SellOnce(run[r].cur)
  PROVE  Total(run[r].cur) = 0 /\ Holds(r, run[r].cur)
  BY TypeParts DEF SellOnce, Settled, WorksOn, Holds, Sold, RunShape

\* A run goes on with its rest: it lets go of at most the payment it works on.
LEMMA SellProceeds ==
  ASSUME TypeInv, QueueInv, NEW p \in Payments, SellOnce(p), NEW r \in Runs,
         Proceed(r, run[r].todo), call' = call, UNCHANGED serverVars,
         mem'[p] # "none" => mem[p] # "none",
         run[r].cur = p => run[r].pc \notin Sold \/ mem[p] = "none"
  PROVE  SellOnce(p)'
  <1>0. run \in RunType /\ RunShape /\ CountType
    BY TypeParts
  <1>1. run[r].todo \in SUBSET Payments
    BY <1>0 DEF RunType, RunRecord
  <1>2. /\ \A o \in Runs : o # r => run'[o] = run[o]
        /\ Holds(r, p)' <=> p \in run[r].todo
    BY <1>1, ProceedHolds
  <1>3. \A o \in Runs : o # r => (Holds(o, p)' <=> Holds(o, p))
    BY <1>2 DEF Holds
  <1>4. Total(p)' = Total(p)
    BY DEF Total, serverVars
  <1>5. p \in run[r].todo => Holds(r, p) /\ run[r].cur # p
    BY <1>0 DEF Holds, QueueInv, RestHeld, RunShape
  <1>6. OneHolder(p)'
    <2>1. \A o \in Runs : Holds(o, p)' => Holds(o, p)
      BY <1>2, <1>3, <1>5
    <2>2. QED
      BY <2>1 DEF SellOnce, OneHolder
  <1>7. CASE Total(p) = 0
    BY <1>4, <1>6, <1>7, SellNone
  <1>8. CASE Total(p) = 1 /\ Settled(p)
    <2>1. p \notin run[r].todo
      BY <1>5, <1>8 DEF Settled, WorksOn
    <2>2. \A o \in Runs : Holds(o, p)' => o # r /\ WorksOn(o, p)'
      BY <1>2, <1>3, <1>8, <2>1 DEF Settled, WorksOn
    <2>3. mem'[p] # "none" => \E o \in Runs : Holds(o, p)'
      <3>1. SUFFICES ASSUME mem'[p] # "none" PROVE \E o \in Runs : Holds(o, p)'
        OBVIOUS
      <3>2. PICK o \in Runs : Holds(o, p)
        BY <1>8, <3>1 DEF Settled
      <3>3. o # r
        BY <1>8, <3>1, <3>2 DEF Settled, WorksOn
      <3>4. QED
        BY <1>3, <3>2, <3>3
    <2>4. Settled(p)'
      BY <1>8, <2>2, <2>3 DEF Settled
    <2>5. QED
      BY <1>4, <1>6, <1>8, <2>4 DEF SellOnce
  <1>9. QED
    BY <1>7, <1>8 DEF SellOnce

\* A run takes what is due into its snapshot.
LEMMA SellSnapshot ==
  ASSUME TypeInv, QueueInv, NEW p \in Payments, SellOnce(p), NEW r \in Runs,
         NEW due \in SUBSET Payments, TakeSnapshot(r, due), p \notin contended',
         \A q \in due : mem[q] # "none", run[r].pc \in {"idle", "retrying"},
         call' = call, UNCHANGED serverVars, mem'[p] # "none" => mem[p] # "none"
  PROVE  SellOnce(p)'
  <1>1. /\ \A o \in Runs : o # r => run'[o] = run[o]
        /\ Holds(r, p)' <=> p \in due
    BY ProceedHolds DEF TakeSnapshot
  <1>2. \A o \in Runs : o # r => (Holds(o, p)' <=> Holds(o, p))
    BY <1>1 DEF Holds
  <1>3. Total(p)' = Total(p) /\ ~Holds(r, p)
    BY DEF Total, serverVars, Holds
  <1>4. CASE p \in due
    <2>1. \A o \in Runs : o # r => ~Holds(o, p)
      BY <1>4 DEF TakeSnapshot
    <2>2. OneHolder(p)'
      BY <1>2, <2>1 DEF OneHolder
    <2>3. ~Settled(p)
      BY <1>3, <1>4, <2>1 DEF Settled
    <2>4. QED
      BY <1>3, <2>2, <2>3, SellNone DEF SellOnce
  <1>5. CASE p \notin due
    <2>1. \A o \in Runs : Holds(o, p)' <=> Holds(o, p)
      BY <1>1, <1>2, <1>3, <1>5
    <2>2. \A o \in Runs : Holds(o, p) /\ WorksOn(o, p) => WorksOn(o, p)'
      BY <1>1, <1>3 DEF WorksOn
    <2>3. SellQuiet(p)
      BY <1>3, <2>1, <2>2 DEF SellQuiet
    <2>4. QED
      BY <2>3, SellKeeps
  <1>6. QED
    BY <1>4, <1>5

\* A run records that its payment was not sold.
LEMMA SellMarks ==
  ASSUME TypeInv, QueueInv, NEW p \in Payments, SellOnce(p), NEW r \in Runs,
         run[r].pc \in {"posting", "posted"}, NEW s \in RecordStates,
         NEW pc \in Patching \ {"retrying"}, Mark(r, s, pc), orphans'[p] = orphans[p],
         run[r].cur = p => run[r].pc = "posting"
  PROVE  SellOnce(p)'
  <1>1. /\ run' = [run EXCEPT ![r].pc = pc] /\ call' = call
        /\ Total(p)' = Total(p) /\ run[r].cur \in Payments
    BY TypeParts DEF Mark, Total, RunShape
  <1>2. mem'[p] # "none" => mem[p] # "none"
    BY <1>1, ApplyPatchQueue DEF Mark
  <1>3. /\ pc \in RunStates /\ pc \notin {"idle", "retrying"}
        /\ run[r].pc \notin {"idle", "retrying"}
        /\ run[r].cur = p => run[r].pc \notin Sold
    BY DEF RunStates, Patching, Sold
  <1>4. QED
    BY <1>1, <1>2, <1>3, SellPhase

\* A run gives up after a missing answer.
LEMMA SellStops ==
  ASSUME TypeInv, NEW p \in Payments, SellOnce(p), NEW r \in Runs,
         run' = [run EXCEPT ![r] = IdleRun], run[r].pc \notin Sold,
         call' = call, UNCHANGED serverVars, mem'[p] # "none" => mem[p] # "none"
  PROVE  SellOnce(p)'
  <1>0. run \in RunType
    BY TypeParts
  <1>1. run'[r].pc = "idle" /\ \A o \in Runs : o # r => run'[o] = run[o]
    BY <1>0 DEF RunType, IdleRun
  <1>2. ~Holds(r, p)' /\ \A o \in Runs : o # r => (Holds(o, p)' <=> Holds(o, p))
    BY <1>1 DEF Holds
  <1>3. OneHolder(p)' /\ Total(p)' = Total(p)
    BY <1>2 DEF SellOnce, OneHolder, Total, serverVars
  <1>4. CASE Total(p) = 0
    BY <1>3, <1>4, SellNone
  <1>5. CASE Total(p) = 1 /\ Settled(p)
    <2>1. ~Holds(r, p)
      BY <1>5 DEF Settled, WorksOn
    <2>2. \A o \in Runs : Holds(o, p)' <=> Holds(o, p)
      BY <1>2, <2>1
    <2>3. \A o \in Runs : Holds(o, p) /\ WorksOn(o, p) => WorksOn(o, p)'
      BY <1>1, <2>1 DEF WorksOn
    <2>4. SellQuiet(p)
      BY <1>3, <2>2, <2>3 DEF SellQuiet
    <2>5. QED
      BY <2>4, SellKeeps
  <1>6. QED
    BY <1>4, <1>5 DEF SellOnce

LEMMA SellReload ==
  ASSUME TypeInv, QueueInv, NEW p \in Payments, SellOnce(p), Reload
  PROVE  SellOnce(p)'
  <1>0. run \in RunType /\ CountType /\ call \in CallType
    BY TypeParts
  <1>1. /\ mem'[p] = "none" /\ sales' = sales
        /\ run' = [r \in Runs |-> IdleRun]
        /\ call' = [q \in Payments |->
                     IF call[q].pc \in InFlight \cup {"patching", "parked"}
                     THEN [call[q] EXCEPT !.pc = "gone"] ELSE call[q]]
        /\ orphans'[p] = orphans[p] + (IF call[p].pc = "posting" THEN 1 ELSE 0)
                                    + Posting(p)
    BY DEF Reload, Posting
  <1>2. \A r \in Runs : ~Holds(r, p)'
    BY <1>1 DEF Holds, IdleRun
  <1>3. OneHolder(p)'
    BY <1>2 DEF OneHolder
  <1>4. call[p].pc \notin {"unused", "posting"} \/ call[p].pc = "posting"
          => call'[p].pc \notin Unsent
    BY <1>0, <1>1 DEF CallType, Unsent, InFlight
  <1>5. call[p].pc \notin {"unused"} => Settled(p)'
    BY <1>1, <1>2, <1>4 DEF Settled
  <1>6. DEFINE P == {r \in Runs : run[r].pc = "posting" /\ run[r].cur = p}
  <1>7. \A r \in P : Holds(r, p)
    BY DEF Holds
  <1>8. CASE P = {}
    <2>1. Posting(p) = 0
      BY <1>8, FS_EmptySet DEF Posting
    <2>2. CASE call[p].pc = "posting"
      <3>1. Total(p) = 0
        BY <2>2 DEF SellOnce, Settled, Unsent
      <3>2. Total(p)' = 1
        BY <1>0, <1>1, <2>1, <2>2, <3>1 DEF Total, CountType
      <3>3. QED
        BY <1>3, <1>5, <2>2, <3>2 DEF SellOnce
    <2>3. CASE call[p].pc # "posting"
      <3>1. Total(p)' = Total(p)
        BY <1>0, <1>1, <2>1, <2>3 DEF Total, CountType
      <3>2. CASE Total(p) = 0
        BY <1>3, <3>1, <3>2, SellNone
      <3>3. CASE Total(p) = 1 /\ Settled(p)
        BY <1>3, <1>5, <3>1, <3>3 DEF SellOnce, Settled, Unsent
      <3>4. QED
        BY <3>2, <3>3 DEF SellOnce
    <2>4. QED
      BY <2>2, <2>3
  <1>9. CASE P # {}
    <2>1. PICK r \in P : TRUE
      BY <1>9
    <2>2. Holds(r, p) /\ ~WorksOn(r, p) /\ r \in Runs
      BY <1>7, <2>1 DEF WorksOn, Sold
    <2>3. P = {r}
      BY <1>7, <2>1, <2>2 DEF SellOnce, OneHolder
    <2>4. Posting(p) = 1
      BY <2>3, FS_Singleton DEF Posting
    <2>5. Total(p) = 0
      BY <2>2 DEF SellOnce, Settled
    <2>6. call[p].pc \in Queued
      BY <2>2 DEF QueueInv, HoldPhase
    <2>7. Total(p)' = 1
      BY <1>0, <1>1, <2>4, <2>5, <2>6 DEF Total, CountType, Queued
    <2>8. QED
      BY <1>3, <1>5, <2>6, <2>7 DEF SellOnce, Queued
  <1>10. QED
    BY <1>8, <1>9

LEMMA SaleInvNext ==
  ASSUME TypeInv, TypeInv', QueueInv, OwnerInv, SaleInv, [Next]_vars
  PROVE  SaleInv'
  <1> SUFFICES ASSUME NEW p \in Payments, p \notin ambiguous' \cup contended'
               PROVE  SellOnce(p)'
    BY DEF SaleInv
  <1>0. /\ QueueType /\ call \in CallType /\ run \in RunType /\ RunShape
        /\ CountType /\ HistType
    BY TypeParts
  <1>a. p \notin ambiguous \cup contended => SellOnce(p)
    BY DEF SaleInv
  <1>1. ASSUME NEW s \in Scans, AddToCart(s) PROVE SellOnce(p)'
    BY <1>a, <1>1, SellCalm DEF AddToCart, Total, queueVars, serverVars, histVars
  <1>2. ASSUME NEW s \in Scans, RemoveFromCart(s) PROVE SellOnce(p)'
    BY <1>a, <1>2, SellCalm DEF RemoveFromCart, Total, queueVars, serverVars,
       histVars
  <1>3. CASE ClearCart
    BY <1>a, <1>3, SellCalm DEF ClearCart, Total, queueVars, serverVars, histVars
  <1>4. CASE ApplyRemoteSale
    BY <1>a, <1>4, SellCalm DEF ApplyRemoteSale, Total, queueVars, serverVars,
       histVars
  <1>5. CASE UNCHANGED vars
    BY <1>a, <1>5, SellCalm DEF vars, Total, queueVars, serverVars, histVars
  <1>6. CASE Initialize
    <2>1. mem'[p] = "none"
      BY <1>6 DEF Initialize, ListQueuedPayments
    <2>2. QED
      BY <1>a, <1>6, <2>1, SellCalm DEF Initialize, Total, serverVars
  <1>7. ASSUME NEW q \in Payments, ProcessPayment(q) PROVE SellOnce(p)'
    <2>1. call[p].pc \notin Unsent => call'[p].pc \notin Unsent
      BY <1>0, <1>7 DEF ProcessPayment, CallType, Unsent
    <2>2. QED
      BY <1>a, <1>7, <2>1, SellCalm
      DEF ProcessPayment, Total, queueVars, serverVars, histVars
  <1>8. ASSUME NEW q \in Payments, PaymentAccepted(q) PROVE SellOnce(p)'
    <2>1. call[p].pc \notin Unsent => call'[p].pc \notin Unsent
      BY <1>0, <1>8 DEF PaymentAccepted, CallType, Unsent
    <2>2. QED
      BY <1>a, <1>8, <2>1, SellCalm
      DEF PaymentAccepted, Total, queueVars, serverVars, histVars
  <1>9. ASSUME NEW q \in Payments, PaymentRejected(q) PROVE SellOnce(p)'
    <2>1. call[p].pc \notin Unsent => call'[p].pc \notin Unsent
      BY <1>0, <1>9 DEF PaymentRejected, CallType, Unsent
    <2>2. QED
      BY <1>a, <1>9, <2>1, SellCalm
      DEF PaymentRejected, Total, queueVars, serverVars, histVars, ErrorResponse
  <1>10. ASSUME NEW q \in Payments, CommitOrphan(q) PROVE SellOnce(p)'
    <2>1. Total(p)' = Total(p)
      BY <1>0, <1>10 DEF CommitOrphan, Commit, Total, CountType
    <2>2. QED
      BY <1>a, <1>10, <2>1, SellCalm DEF CommitOrphan, queueVars, histVars
  <1>11. ASSUME NEW q \in Payments, CommitCall(q) PROVE SellOnce(p)'
    <2>0. SellOnce(p)
      BY <1>a, <1>11 DEF CommitCall, histVars
    <2>1. CASE q = p
      <3>1. /\ Total(p) = 0 /\ Total(p)' = 1 /\ call'[p].pc = "posted"
            /\ mem'[p] = mem[p] /\ run' = run
        BY <1>0, <2>0, <1>11, <2>1
        DEF CommitCall, Commit, Total, CountType, CallType, SellOnce, Settled,
           Unsent, queueVars
      <3>2. mem[p] = "none" /\ \A r \in Runs : ~Holds(r, p)
        BY <1>11, <2>1 DEF CommitCall, QueueInv, QueuePhase, HoldPhase, Queued
      <3>3. \A r \in Runs : ~Holds(r, p)'
        BY <3>1, <3>2 DEF Holds
      <3>4. QED
        BY <3>1, <3>2, <3>3 DEF SellOnce, OneHolder, Settled, Unsent
    <2>2. CASE q # p
      <3>1. Total(p)' = Total(p) /\ call'[p] = call[p]
        BY <1>0, <1>11, <2>2 DEF CommitCall, Commit, Total, CountType, CallType
      <3>2. QED
        BY <2>0, <1>11, <3>1, SellCalm DEF CommitCall, queueVars
    <2>3. QED
      BY <2>1, <2>2
  <1>12. ASSUME NEW q \in Payments, PaymentUnanswered(q) PROVE SellOnce(p)'
    <2>0. SellOnce(p)
      BY <1>a, <1>12 DEF PaymentUnanswered, LoseAnswer
    <2>1. CASE q = p
      <3>1. call[p].pc = "posting" /\ orphans' = orphans
        BY <1>12, <2>1 DEF PaymentUnanswered, LoseAnswer
      <3>2. Total(p) = 0 /\ OneHolder(p)
        BY <2>0, <3>1 DEF SellOnce, Settled, Unsent
      <3>3. Total(p)' = 0 /\ OneHolder(p)'
        BY <1>12, <3>1, <3>2 DEF PaymentUnanswered, Total, OneHolder, Holds
      <3>4. QED
        BY <3>3, SellNone
    <2>2. CASE q # p
      <3>1. Total(p)' = Total(p) /\ call'[p] = call[p]
        BY <1>0, <1>12, <2>2 DEF PaymentUnanswered, LoseAnswer, Total,
           CountType, CallType
      <3>2. QED
        BY <2>0, <1>12, <3>1, SellCalm DEF PaymentUnanswered
    <2>3. QED
      BY <2>1, <2>2
  <1>13. ASSUME NEW q \in Payments, EnqueuePayment(q) PROVE SellOnce(p)'
    <2>0. SellOnce(p)
      BY <1>a, <1>13 DEF EnqueuePayment, histVars
    <2>1. Total(p)' = Total(p) /\ run' = run
      BY <1>13 DEF EnqueuePayment, Total, serverVars
    <2>2. CASE q = p
      <3>1. call[p].pc = "enqueueing"
        BY <1>13, <2>2, EnqueuePaymentQueue
      <3>2. Total(p) = 0 /\ OneHolder(p)
        BY <2>0, <3>1 DEF SellOnce, Settled, Unsent
      <3>3. OneHolder(p)'
        BY <2>1, <3>2 DEF OneHolder, Holds
      <3>4. QED
        BY <2>1, <3>2, <3>3, SellNone
    <2>3. CASE q # p
      <3>1. mem'[p] = mem[p] /\ call'[p] = call[p]
        BY <1>0, <1>13, <2>3 DEF EnqueuePayment, QueueType, CallType
      <3>2. QED
        BY <2>0, <2>1, <3>1, SellCalm
    <2>4. QED
      BY <2>2, <2>3
  <1>14. ASSUME NEW q \in Payments, ParkPayment(q) PROVE SellOnce(p)'
    <2>1. mem'[p] # "none" => mem[p] # "none"
      BY <1>14, CommitPatchQueue DEF ParkPayment
    <2>2. call[p].pc \notin Unsent => call'[p].pc \notin Unsent
      BY <1>0, <1>14 DEF ParkPayment, CallType, Unsent
    <2>3. QED
      BY <1>a, <1>14, <2>1, <2>2, SellCalm DEF ParkPayment, Total, serverVars,
         histVars
  <1>15. ASSUME NEW q \in Payments, RemovalDone(q) PROVE SellOnce(p)'
    BY <1>a, <1>15, SellCalm
    DEF RemovalDone, CommitDelete, Total, serverVars, histVars
  <1>16. CASE Reload
    BY <1>a, <1>16, SellReload DEF Reload
  <1>17. ASSUME NEW q \in Payments, RemoveQueuedPayment(q) PROVE SellOnce(p)'
    <2>1. mem'[p] # "none" => mem[p] # "none"
      BY <1>0, <1>17 DEF RemoveQueuedPayment, RemoveInternal, QueueType
    <2>2. QED
      BY <1>a, <1>17, <2>1, SellCalm DEF RemoveQueuedPayment, Total, serverVars
  <1>18. ASSUME NEW q \in Payments, BackoffElapses(q) PROVE SellOnce(p)'
    <2>1. mem'[p] # "none" => mem[p] # "none"
      BY <1>0, <1>18 DEF BackoffElapses, QueueType
    <2>2. QED
      BY <1>a, <1>18, <2>1, SellCalm DEF BackoffElapses, Total, serverVars, histVars
  <1>19. ASSUME NEW r \in Runs, SyncQueuedPayments(r) PROVE SellOnce(p)'
    <2>1. SellOnce(p)
      BY <1>a, <1>19 DEF SyncQueuedPayments, TakeSnapshot
    <2>2. /\ DueIn(mem) \in SUBSET Payments /\ \A q \in DueIn(mem) : mem[q] # "none"
          /\ TakeSnapshot(r, DueIn(mem)) /\ run[r].pc = "idle"
          /\ call' = call /\ UNCHANGED serverVars /\ mem' = mem
      BY <1>19 DEF SyncQueuedPayments, DueIn, queueVars
    <2>3. QED
      BY <2>1, <2>2, SellSnapshot
  <1>20. ASSUME NEW r \in Runs, NEW q \in Payments, RetryQueuedPayment(r, q) PROVE SellOnce(p)'
    <2>0. SellOnce(p)
      BY <1>a, <1>20 DEF RetryQueuedPayment, histVars
    <2>1. /\ run'[r] = [pc |-> "retrying", cur |-> q, todo |-> {}]
          /\ \A o \in Runs : o # r => run'[o] = run[o]
      BY <1>0, <1>20 DEF RetryQueuedPayment, RunType
    <2>2. run'[r].pc = "retrying" /\ run[r].pc = "idle"
      BY <1>20, <2>1 DEF RetryQueuedPayment
    <2>3. \A o \in Runs : Holds(o, p)' <=> Holds(o, p)
      BY <2>1, <2>2 DEF Holds
    <2>4. \A o \in Runs : Holds(o, p) /\ WorksOn(o, p) => WorksOn(o, p)'
      BY <2>1, <2>2 DEF WorksOn, Holds
    <2>5. mem'[p] # "none" => mem[p] # "none"
      BY <1>20, ApplyPatchQueue DEF RetryQueuedPayment, RecordStates
    <2>6. SellQuiet(p)
      BY <1>20, <2>3, <2>4, <2>5 DEF SellQuiet, RetryQueuedPayment, Total,
         serverVars
    <2>7. QED
      BY <2>0, <2>6, SellKeeps
  <1>21. ASSUME NEW r \in Runs, CommitRun(r) PROVE SellOnce(p)'
    <2>0. SellOnce(p) /\ run[r].cur \in Payments
      BY <1>0, <1>a, <1>21 DEF CommitRun, histVars, RunShape
    <2>1. CASE run[r].cur = p
      <3>1. Total(p) = 0 /\ Holds(r, p)
        BY <2>0, <1>21, <2>1, PostingUnsold DEF CommitRun
      <3>2. Total(p)' = 1
        BY <1>0, <1>21, <2>1, <3>1 DEF CommitRun, Commit, Total, CountType
      <3>3. /\ run'[r].pc = "posted"
            /\ \A o \in Runs : /\ run'[o].cur = run[o].cur
                               /\ run'[o].todo = run[o].todo
                               /\ o # r => run'[o].pc = run[o].pc
        BY <1>0, <1>21, RunPcType DEF CommitRun, RunStates
      <3>4. run[r].pc = "posting"
        BY <1>21 DEF CommitRun
      <3>5. \A o \in Runs : Holds(o, p)' <=> Holds(o, p)
        BY <3>3, <3>4 DEF Holds
      <3>6. OneHolder(p)' /\ \A o \in Runs : Holds(o, p)' => o = r
        BY <2>0, <3>1, <3>5 DEF SellOnce, OneHolder
      <3>7. WorksOn(r, p)'
        BY <2>1, <3>3 DEF WorksOn, Sold
      <3>8. call'[p].pc \notin Unsent
        BY <1>21, <3>1 DEF CommitRun, QueueInv, HoldPhase, Queued, Unsent
      <3>9. Settled(p)'
        BY <3>1, <3>5, <3>6, <3>7, <3>8 DEF Settled
      <3>10. QED
        BY <3>2, <3>6, <3>9 DEF SellOnce
    <2>2. CASE run[r].cur # p
      <3>1. Total(p)' = Total(p)
        BY <1>0, <2>0, <1>21, <2>2 DEF CommitRun, Commit, Total, CountType
      <3>2. run[r].pc = "posting" /\ run' = [run EXCEPT ![r].pc = "posted"]
            /\ call' = call /\ mem' = mem
        BY <1>21 DEF CommitRun, queueVars
      <3>3. QED
        BY <2>0, <2>2, <3>1, <3>2, SellPhase DEF RunStates
    <2>3. QED
      BY <2>1, <2>2
  <1>22. ASSUME NEW r \in Runs, SyncAccepted(r) PROVE SellOnce(p)'
    <2>1. /\ run[r].pc = "posted" /\ run' = [run EXCEPT ![r].pc = "persisting"]
          /\ call' = call /\ mem' = mem /\ Total(p)' = Total(p) /\ SellOnce(p)
      BY <1>a, <1>22 DEF SyncAccepted, queueVars, serverVars, histVars, Total
    <2>2. QED
      BY <2>1, SellPhase DEF RunStates, Sold
  <1>23. ASSUME NEW r \in Runs, SyncRemove(r) PROVE SellOnce(p)'
    <2>1. /\ run[r].pc = "persisting" /\ run' = [run EXCEPT ![r].pc = "removing"]
          /\ call' = call /\ Total(p)' = Total(p) /\ SellOnce(p)
      BY <1>a, <1>23 DEF SyncRemove, serverVars, histVars, Total
    <2>2. mem'[p] # "none" => mem[p] # "none"
      BY <1>0, <1>23 DEF SyncRemove, RemoveInternal, QueueType
    <2>3. QED
      BY <2>1, <2>2, SellPhase DEF RunStates, Sold
  <1>24. ASSUME NEW r \in Runs, SyncSettled(r) PROVE SellOnce(p)'
    <2>1. /\ Proceed(r, run[r].todo) /\ call' = call /\ UNCHANGED serverVars
          /\ mem' = mem /\ SellOnce(p)
      BY <1>a, <1>24 DEF SyncSettled, CommitDelete, histVars
    <2>2. mem[run[r].cur] = "none"
      BY <1>24, CommitDeleteQueue DEF SyncSettled
    <2>3. QED
      BY <2>1, <2>2, SellProceeds
  <1>25. ASSUME NEW r \in Runs, SyncConflict(r) PROVE SellOnce(p)'
    <2>1. /\ run[r].pc = "posting" /\ Mark(r, "conflict", "marking")
          /\ sales[run[r].cur] > 0 /\ orphans' = orphans /\ SellOnce(p)
      BY <1>a, <1>25 DEF SyncConflict, Mark
    <2>2. run[r].cur # p
      <3>1. SUFFICES ASSUME run[r].cur = p PROVE FALSE
        OBVIOUS
      <3>2. Total(p) = 0
        BY <2>1, <3>1, PostingUnsold
      <3>3. QED
        BY <1>0, <2>1, <3>1, <3>2 DEF Total, CountType
    <2>3. QED
      BY <2>1, <2>2, SellMarks DEF RecordStates, Patching
  <1>26. ASSUME NEW r \in Runs, SyncServerError(r) PROVE SellOnce(p)'
    <2>1. /\ run[r].pc \in {"posting", "posted"} /\ Mark(r, "backoff", "backingOff")
          /\ orphans' = orphans /\ SellOnce(p)
          /\ run[r].cur = p => run[r].pc = "posting"
      BY <1>a, <1>26 DEF SyncServerError, Mark, ErrorResponse
    <2>2. QED
      BY <2>1, SellMarks DEF RecordStates, Patching
  <1>27. ASSUME NEW r \in Runs, SyncRefused(r) PROVE SellOnce(p)'
    <2>1. /\ run[r].pc \in {"posting", "posted"} /\ Mark(r, "failed", "marking")
          /\ orphans' = orphans /\ SellOnce(p)
          /\ run[r].cur = p => run[r].pc = "posting"
      BY <1>a, <1>27 DEF SyncRefused, Mark
    <2>2. QED
      BY <2>1, SellMarks DEF RecordStates, Patching
  <1>28. ASSUME NEW r \in Runs, SyncUnanswered(r) PROVE SellOnce(p)'
    <2>1. /\ run[r].pc \in {"posting", "posted"} /\ Mark(r, "backoff", "stopping")
          /\ SellOnce(p) /\ run[r].cur \in Payments
      BY <1>0, <1>a, <1>28 DEF SyncUnanswered, LoseAnswer, Mark, RunShape
    <2>2. run[r].cur = p => run[r].pc = "posting" /\ orphans' = orphans
      BY <1>28 DEF SyncUnanswered, LoseAnswer
    <2>3. orphans'[p] = orphans[p]
      BY <1>0, <1>28, <2>1, <2>2 DEF SyncUnanswered, LoseAnswer, CountType
    <2>4. QED
      BY <2>1, <2>2, <2>3, SellMarks DEF RecordStates, Patching
  <1>29. ASSUME NEW r \in Runs, SyncMarked(r) PROVE SellOnce(p)'
    <2>0. SellOnce(p)
      BY <1>a, <1>29 DEF SyncMarked, histVars
    <2>1. run[r].pc \in Patching /\ (mem'[p] # "none" => mem[p] # "none")
      <3>1. /\ txq # <<>> /\ Head(txq).op = "patch" /\ Head(txq).by = r
            /\ CommitPatch(run[r].cur, Head(txq).state)
        BY <1>29 DEF SyncMarked, CommitPatch
      <3>2. OwnerOk(Head(txq), run)
        BY <1>0, <3>1, TailTx DEF OwnerInv, OwnerSeq, QueueType
      <3>3. QED
        BY <3>1, <3>2, CommitPatchQueue DEF OwnerOk
    <2>2. run[r].pc \notin Sold
      BY <2>1 DEF Patching, Sold
    <2>3. call' = call /\ UNCHANGED serverVars
      BY <1>29 DEF SyncMarked
    <2>4. CASE Proceed(r, run[r].todo)
      BY <2>0, <2>1, <2>2, <2>3, <2>4, SellProceeds
    <2>5. CASE run' = [run EXCEPT ![r] = IdleRun]
      BY <2>0, <2>1, <2>2, <2>3, <2>5, SellStops
    <2>6. QED
      BY <1>29, <2>4, <2>5 DEF SyncMarked
  <1>30. ASSUME NEW r \in Runs, RetryMarked(r) PROVE SellOnce(p)'
    <2>1. /\ CommitPatch(run[r].cur, Head(txq).state) /\ run[r].pc = "retrying"
          /\ call' = call /\ UNCHANGED serverVars /\ ambiguous' = ambiguous
      BY <1>30 DEF RetryMarked
    <2>2. contended \subseteq contended' /\ SellOnce(p)
      BY <1>a, <1>30, <2>1 DEF RetryMarked, TakeSnapshot
    <2>3. \A q \in Payments : mem'[q] = "none" <=> mem[q] = "none"
      BY <2>1, CommitPatchQueue
    <2>4. CASE TakeSnapshot(r, DueIn(mem'))
      <3>1. DueIn(mem') \in SUBSET Payments /\ \A q \in DueIn(mem') : mem[q] # "none"
        BY <2>3 DEF DueIn
      <3>2. QED
        BY <2>1, <2>2, <2>3, <2>4, <3>1, SellSnapshot
    <2>5. CASE run' = [run EXCEPT ![r] = IdleRun]
      <3>1. run[r].pc \notin Sold
        BY <2>1 DEF Sold
      <3>2. QED
        BY <2>1, <2>2, <2>3, <2>5, <3>1, SellStops
    <2>6. QED
      BY <1>30, <2>4, <2>5 DEF RetryMarked
  <1>31. CASE \/ \E q \in Payments : ClearCachedCart(q)
               \/ \E items \in syncs : SyncCart(items)
    BY <1>a, <1>31, SellCalm
    DEF ClearCachedCart, SyncCart, Total, queueVars, serverVars, histVars
  <1>32. QED
    BY <1>31, <1>1, <1>2, <1>3, <1>4, <1>5, <1>6, <1>7, <1>8, <1>9, <1>10, <1>11,
       <1>12, <1>13, <1>14, <1>15, <1>16, <1>17, <1>18, <1>19, <1>20, <1>21,
       <1>22, <1>23, <1>24, <1>25, <1>26, <1>27, <1>28, <1>29, <1>30
    DEF Next, Operate, Disturb, RunStep, CallStep

LEMMA SaleInvInit == Init => SaleInv
  <1> SUFFICES ASSUME Init, NEW p \in Payments PROVE SellOnce(p)
    BY DEF SaleInv
  <1>1. Total(p) = 0
    BY DEF Init, Total
  <1>2. \A r \in Runs : ~Holds(r, p)
    BY DEF Init, Holds, IdleRun
  <1>3. QED
    BY <1>1, <1>2 DEF SellOnce, OneHolder

\* Overlapping runs and lost answers are the only ways to a second sale: with any
\* number of runs, retries, reloads and faults, a payment that was in no two
\* snapshots at once, and whose requests were answered or never left, is sold at
\* most once.
THEOREM DuplicatesHaveACause == Spec => []DuplicateSaleHasCause
  <1>1. Init => TypeInv /\ QueueInv /\ OwnerInv /\ SaleInv
    BY TypeInvInit, QueueInvInit, OwnerInvInit, SaleInvInit
  <1>2. (TypeInv /\ QueueInv /\ OwnerInv /\ SaleInv) /\ [Next]_vars
          => (TypeInv /\ QueueInv /\ OwnerInv /\ SaleInv)'
    BY TypeInvNext, QueueInvNext, OwnerInvNext, SaleInvNext
  <1>3. TypeInv /\ SaleInv => DuplicateSaleHasCause
    <2>1. SUFFICES ASSUME TypeInv, SaleInv, NEW p \in Payments, sales[p] > 1,
                          p \notin ambiguous \cup contended
                   PROVE  FALSE
      BY DEF DuplicateSaleHasCause
    <2>2. Total(p) \in {0, 1}
      BY <2>1 DEF SaleInv, SellOnce
    <2>3. sales[p] \in Nat /\ orphans[p] \in Nat
      BY <2>1, TypeParts DEF CountType
    <2>4. QED
      BY <2>1, <2>2, <2>3 DEF Total
  <1>4. QED
    BY <1>1, <1>2, <1>3, PTL DEF Spec

-----------------------------------------------------------------------------
(* Goods are paid for twice only by pressing the button into a flight, or      *)
(* after an answer was lost                                                    *)

\* The call is over, or is out of processPayment's first await, with the cart
\* it took emptied; Unserved: no sale is, or will be, behind it.
After    == {"accepted", "patching", "parked", "gone"}
Unserved == {"unused", "posting", "rejected"}

Suspect == ambiguous \cup raced \cup revived

CartScanned == /\ cart \subseteq scanned /\ Copies \subseteq scanned
               /\ \A p \in Payments : call[p].items \subseteq scanned

UnusedEmpty == \A p \in Payments : call[p].pc = "unused" => call[p].items = {}

CartCleared ==
  \A p \in Payments \ revived :
    call[p].pc \in After => call[p].items \cap cart = {}

RejectedUnsold ==
  \A p \in Payments :
    \/ call[p].pc \in {"unused", "posting"}
    \/ call[p].pc = "rejected" /\ p \notin ambiguous
    => sales[p] = 0 /\ orphans[p] = 0

\* Of two calls with goods in common one was rejected, which keeps the cart.
SharedRejected ==
  \A p, q \in Payments \ Suspect :
    p # q /\ call[p].items \cap call[q].items # {}
    => "rejected" \in {call[p].pc, call[q].pc}

CartInv == CartScanned /\ UnusedEmpty /\ CartCleared /\ RejectedUnsold /\ SharedRejected

\* What a step may do to the open cart, to a call and to the books behind it.
CartKeeps == /\ cart' \subseteq scanned' /\ scanned \subseteq scanned'
             /\ Initialize \/ cart' \subseteq cart \cup (scanned' \ scanned)
             /\ ambiguous \subseteq ambiguous' /\ raced \subseteq raced'
             /\ revived \subseteq revived'
             /\ initialized' = initialized \/ Initialize \/ Reload

MovesOn(p) ==
  /\ call[p].pc \in InFlight \cup {"patching", "parked"}
  /\ call'[p].items = call[p].items
  /\ \/ call'[p].pc \in {"posted", "enqueueing"}
     \/ call'[p].pc \in After /\ cart' = {}
     \/ call[p].pc = "patching" /\ call'[p].pc = "parked"
     \/ call'[p].pc = "rejected" /\ (call[p].pc = "posting" \/ p \in ambiguous')

Starts(p) ==
  /\ call[p].pc = "unused" /\ call'[p].pc = "posting" /\ call'[p].items = cart
  /\ UNCHANGED <<initialized, cart, cached, syncs>>
  /\ initialized => p \in named'
  /\ \A q \in Payments \ {p} :
       call'[q] = call[q] /\ (call[q].pc \in InFlight => q \in raced')

CallKeeps(p)  == call'[p] = call[p] \/ MovesOn(p) \/ Starts(p)

BooksKeep(p) == call[p].pc \in Unserved /\ call'[p].pc \in Unserved =>
  orphans[p] > 0 \/ (sales'[p] = sales[p] /\ orphans'[p] = orphans[p])

LEMMA CartKeepsNext ==
  ASSUME cart \subseteq scanned, Copies \subseteq scanned, [Next]_vars
  PROVE  CartKeeps
  <1>1. ASSUME NEW s \in Scans, AddToCart(s) \/ RemoveFromCart(s) PROVE CartKeeps
    BY <1>1 DEF AddToCart, RemoveFromCart, CartKeeps, histVars
  <1>2. CASE /\ UNCHANGED <<cart, scanned, revived, initialized>>
             /\ ambiguous \subseteq ambiguous' /\ raced \subseteq raced'
    BY <1>2 DEF CartKeeps
  <1>3. CASE /\ cart' = {} /\ scanned' = scanned
             /\ UNCHANGED <<ambiguous, raced, revived>>
             /\ initialized' = initialized \/ Reload
    BY <1>3 DEF CartKeeps
  <1>4. ASSUME NEW p \in Payments, ProcessPayment(p) \/ PaymentRejected(p)
                                   \/ PaymentUnanswered(p)
        PROVE  CartKeeps
    BY <1>2, <1>4 DEF ProcessPayment, PaymentRejected, ErrorResponse,
       PaymentUnanswered, LoseAnswer, uiVars, cartVars
  <1>5. ASSUME NEW r \in Runs, SyncConflict(r) \/ SyncServerError(r)
                               \/ SyncRefused(r) \/ SyncUnanswered(r)
        PROVE  CartKeeps
    BY <1>2, <1>5 DEF SyncConflict, SyncServerError, SyncRefused, SyncUnanswered,
       Mark, ErrorResponse, LoseAnswer, uiVars, cartVars
  <1>6. CASE Initialize
    BY <1>6 DEF Initialize, CartKeeps, Copies
  <1>7. QED
    BY <1>1, <1>2, <1>3, <1>4, <1>5, <1>6
    DEF Next, Operate, Disturb, RunStep, CallStep, vars, uiVars, histVars, cartVars,
        ClearCart, ApplyRemoteSale, SyncQueuedPayments, RetryQueuedPayment,
        RemoveQueuedPayment, Reload, BackoffElapses, CommitCall,
        CommitRun, CommitOrphan, PaymentAccepted, EnqueuePayment, ParkPayment,
        RemovalDone, SyncAccepted, SyncRemove, SyncSettled, SyncMarked, RetryMarked,
        ClearCachedCart, SyncCart

LEMMA CopiesKeepNext ==
  ASSUME TypeInv, [Next]_vars
  PROVE  CopiesKeep /\ overtaken \subseteq overtaken'
  <1> DEFINE Goal == CopiesKeep /\ overtaken \subseteq overtaken'
  <1> SUFFICES Goal
    OBVIOUS
  <1>0. RunShape
    BY TypeParts
  <1>1. CASE UNCHANGED <<cached, syncs, overtaken>>
    BY <1>1 DEF CopiesKeep, Copies
  <1>2. ASSUME SendCart({}), cached' \in {cached, {}}, overtaken \subseteq overtaken'
        PROVE  Goal
    BY <1>2, SendCartCopies DEF CopiesKeep
  <1>3. ASSUME NEW s \in Scans, AddToCart(s) \/ RemoveFromCart(s) PROVE Goal
    <2>1. SendCart(cart') /\ UNCHANGED <<cached, overtaken, call, initialized>>
      BY <1>3 DEF AddToCart, RemoveFromCart
    <2>2. cart' \subseteq cart \cup (scanned' \ scanned)
      BY <1>3 DEF AddToCart, RemoveFromCart
    <2>3. Copies' \subseteq Copies \cup cart'
      BY <2>1, SendCartCopies
    <2>4. initialized \/ Copies' = Copies
      BY <2>1 DEF SendCart, Copies
    <2>5. QED
      BY <2>1, <2>2, <2>3, <2>4 DEF CopiesKeep
  <1>4. ASSUME NEW p \in Payments, DropCachedCart(p), SendCart({}) PROVE Goal
    BY <1>2, <1>4, DropCachedCartKeeps
  <1>5. ASSUME NEW r \in Runs, SyncAccepted(r) PROVE Goal
    BY <1>0, <1>4, <1>5 DEF SyncAccepted, RunShape
  <1>6. ASSUME NEW p \in Payments, ClearCachedCart(p) PROVE Goal
    BY <1>6, DropCachedCartKeeps DEF ClearCachedCart, CopiesKeep, Copies
  <1>7. ASSUME NEW items \in syncs, SyncCart(items) PROVE Goal
    BY <1>7 DEF SyncCart, CopiesKeep, Copies
  <1>8. ASSUME NEW p \in Payments, PaymentAccepted(p) \/ ParkPayment(p) PROVE Goal
    BY <1>2, <1>4, <1>8 DEF PaymentAccepted, ParkPayment
  <1>9. CASE ClearCart
    BY <1>2, <1>9 DEF ClearCart
  <1>10. QED
    BY <1>1, <1>3, <1>5, <1>6, <1>7, <1>8, <1>9
    DEF Next, Operate, Disturb, RunStep, CallStep, vars, cartVars, ApplyRemoteSale,
        ProcessPayment, Initialize, SyncQueuedPayments, RetryQueuedPayment,
        RemoveQueuedPayment, Reload, BackoffElapses, CommitCall, CommitRun,
        CommitOrphan, PaymentRejected, PaymentUnanswered, EnqueuePayment,
        RemovalDone, SyncRemove, SyncSettled, SyncConflict, SyncServerError,
        SyncRefused, SyncUnanswered, Mark, SyncMarked, RetryMarked

LEMMA CallKeepsNext ==
  ASSUME TypeInv, TypeInv', QueueInv, [Next]_vars, NEW p \in Payments
  PROVE  CallKeeps(p)
  <1>0. call \in CallType
    BY TypeParts
  <1>1. CASE UNCHANGED call
    BY <1>1 DEF CallKeeps
  <1>2. ASSUME NEW q \in Payments, ProcessPayment(q) PROVE CallKeeps(p)
    <2>1. CASE p = q
      <3>1. call'[p] = [pc |-> "posting", items |-> cart]
        BY <1>0, <1>2, <2>1 DEF ProcessPayment, CallType
      <3>2. \A o \in Payments \ {p} :
              call'[o] = call[o] /\ (call[o].pc \in InFlight => o \in raced')
        BY <1>0, <1>2, <2>1 DEF ProcessPayment, CallType
      <3>3. QED
        BY <1>2, <2>1, <3>1, <3>2 DEF ProcessPayment, CallKeeps, Starts
    <2>2. CASE p # q
      BY <1>0, <1>2, <2>2 DEF ProcessPayment, CallKeeps, CallType
    <2>3. QED
      BY <2>1, <2>2
  <1>3. ASSUME NEW q \in Payments, NEW pc, call' = [call EXCEPT ![q].pc = pc],
               q = p => MovesOn(p)
        PROVE  CallKeeps(p)
    BY <1>0, <1>3 DEF CallKeeps, CallType
  <1>4. ASSUME NEW q \in Payments, NEW pc, call' = [call EXCEPT ![q].pc = pc]
        PROVE  call'[q].pc = pc /\ call'[q].items = call[q].items
    BY <1>0, <1>4 DEF CallType
  <1>5. ASSUME NEW q \in Payments, CommitCall(q) PROVE CallKeeps(p)
    BY <1>3, <1>4, <1>5 DEF CommitCall, MovesOn, InFlight
  <1>6. ASSUME NEW q \in Payments, PaymentAccepted(q) PROVE CallKeeps(p)
    BY <1>3, <1>4, <1>6 DEF PaymentAccepted, MovesOn, After, InFlight
  <1>7. ASSUME NEW q \in Payments, PaymentRejected(q) PROVE CallKeeps(p)
    BY <1>3, <1>4, <1>7 DEF PaymentRejected, ErrorResponse, MovesOn, InFlight
  <1>8. ASSUME NEW q \in Payments, PaymentUnanswered(q) PROVE CallKeeps(p)
    BY <1>3, <1>4, <1>8 DEF PaymentUnanswered, LoseAnswer, MovesOn, InFlight
  <1>9. ASSUME NEW q \in Payments, EnqueuePayment(q) PROVE CallKeeps(p)
    <2>1. call[q].pc = "enqueueing"
      BY <1>9, EnqueuePaymentQueue
    <2>2. cart' = {} /\ call' = [call EXCEPT ![q].pc = "patching"]
      BY <1>9 DEF EnqueuePayment
    <2>3. call'[q].pc = "patching" /\ call'[q].items = call[q].items
      BY <1>4, <2>2
    <2>4. q = p => MovesOn(p)
      BY <2>1, <2>2, <2>3 DEF MovesOn, After, InFlight
    <2>5. QED
      BY <1>3, <2>2, <2>4
  <1>10. ASSUME NEW q \in Payments, ParkPayment(q) PROVE CallKeeps(p)
    <2>1. call[q].pc = "patching"
      BY <1>10, ParkPaymentQueue
    <2>2. QED
      BY <1>3, <1>4, <1>10, <2>1 DEF ParkPayment, MovesOn
  <1>11. CASE Reload
    <2>1. CASE call[p].pc \in InFlight \cup {"patching", "parked"}
      <3>1. call'[p].pc = "gone" /\ call'[p].items = call[p].items
        BY <1>0, <1>11, <2>1 DEF Reload, CallType
      <3>2. QED
        BY <1>11, <2>1, <3>1 DEF Reload, CallKeeps, MovesOn, After, InFlight
    <2>2. CASE call[p].pc \notin InFlight \cup {"patching", "parked"}
      BY <1>11, <2>2 DEF Reload, CallKeeps
    <2>3. QED
      BY <2>1, <2>2
  <1>12. QED
    BY <1>1, <1>2, <1>5, <1>6, <1>7, <1>8, <1>9, <1>10, <1>11
    DEF Next, Operate, Disturb, RunStep, CallStep, vars, AddToCart,
        RemoveFromCart, ClearCart, ApplyRemoteSale, SyncQueuedPayments,
        RetryQueuedPayment, RemoveQueuedPayment, Initialize, BackoffElapses,
        CommitRun, CommitOrphan, RemovalDone, SyncAccepted, SyncRemove,
        SyncSettled, SyncConflict, SyncServerError, SyncRefused, SyncUnanswered,
        Mark, SyncMarked, RetryMarked, ClearCachedCart, SyncCart

LEMMA BooksKeepNext ==
  ASSUME TypeInv, QueueInv, [Next]_vars, NEW p \in Payments
  PROVE  BooksKeep(p)
  <1>0. call \in CallType /\ CountType /\ RunShape
    BY TypeParts
  <1>1. CASE UNCHANGED serverVars
    BY <1>1 DEF BooksKeep, serverVars
  <1>2. ASSUME NEW q \in Payments, CommitOrphan(q) PROVE BooksKeep(p)
    <2>1. p # q => sales'[p] = sales[p] /\ orphans'[p] = orphans[p]
      BY <1>0, <1>2 DEF CommitOrphan, Commit, CountType
    <2>2. orphans[q] > 0
      BY <1>2 DEF CommitOrphan
    <2>3. CASE p = q
      BY <2>2, <2>3 DEF BooksKeep
    <2>4. QED
      BY <2>1, <2>3 DEF BooksKeep
  <1>3. ASSUME NEW q \in Payments, CommitCall(q) PROVE BooksKeep(p)
    BY <1>0, <1>3 DEF CommitCall, Commit, BooksKeep, CountType, CallType, Unserved
  <1>4. ASSUME NEW q \in Payments, PaymentUnanswered(q) PROVE BooksKeep(p)
    BY <1>0, <1>4
    DEF PaymentUnanswered, LoseAnswer, BooksKeep, CountType, CallType, Unserved
  <1>5. ASSUME NEW r \in Runs, run[r].pc \notin {"idle", "retrying"}
        PROVE  /\ run[r].cur \in Payments
               /\ run[r].cur = p => call[p].pc \notin Unserved
    BY <1>0, <1>5 DEF RunShape, QueueInv, HoldPhase, Holds, Queued, Unserved
  <1>6. ASSUME NEW r \in Runs, CommitRun(r) PROVE BooksKeep(p)
    BY <1>0, <1>5, <1>6 DEF CommitRun, Commit, BooksKeep, CountType
  <1>7. ASSUME NEW r \in Runs, SyncUnanswered(r) PROVE BooksKeep(p)
    <2>1. run[r].pc \notin {"idle", "retrying"}
      BY <1>7 DEF SyncUnanswered, LoseAnswer
    <2>2. QED
      BY <1>0, <1>5, <1>7, <2>1
      DEF SyncUnanswered, LoseAnswer, Mark, BooksKeep, CountType
  <1>8. CASE Reload
    <2>1. SUFFICES ASSUME call[p].pc \in Unserved, call'[p].pc \in Unserved
                   PROVE  sales'[p] = sales[p] /\ orphans'[p] = orphans[p]
      BY DEF BooksKeep
    <2>2. call[p].pc # "posting"
      BY <1>0, <1>8, <2>1 DEF Reload, CallType, Unserved, InFlight
    <2>3. {r \in Runs : run[r].pc = "posting" /\ run[r].cur = p} = {}
      BY <1>5, <2>1
    <2>4. orphans'[p] = orphans[p] + 0 + 0
      BY <1>8, <2>2, <2>3, FS_EmptySet DEF Reload
    <2>5. QED
      BY <1>0, <1>8, <2>4 DEF Reload, CountType
  <1>9. QED
    BY <1>1, <1>2, <1>3, <1>4, <1>6, <1>7, <1>8
    DEF Next, Operate, Disturb, RunStep, CallStep, vars, serverVars, AddToCart,
        RemoveFromCart, ClearCart, ApplyRemoteSale, ProcessPayment,
        SyncQueuedPayments, RetryQueuedPayment, RemoveQueuedPayment, Initialize,
        BackoffElapses, PaymentAccepted, PaymentRejected, EnqueuePayment,
        ParkPayment, RemovalDone, SyncAccepted, SyncRemove, SyncSettled,
        SyncConflict, SyncServerError, SyncRefused, Mark, SyncMarked, RetryMarked,
        ClearCachedCart, SyncCart

LEMMA CartInvNext ==
  ASSUME TypeInv, TypeInv', QueueInv, CartInv, [Next]_vars
  PROVE  CartInv'
  <1>1. CartKeeps
    BY CartKeepsNext DEF CartInv, CartScanned
  <1>2. \A p \in Payments : CallKeeps(p) /\ BooksKeep(p)
    BY CallKeepsNext, BooksKeepNext
  <1>3. Suspect \subseteq Suspect'
    BY <1>1 DEF CartKeeps, Suspect
  <1>4. \A p \in Payments : call[p].pc \in CallStates
    BY TypeParts DEF CallType
  <1>5. CartScanned'
    <2>1. Copies' \subseteq scanned'
      BY <1>1, CopiesKeepNext DEF CartInv, CartScanned, CartKeeps, CopiesKeep
    <2>2. QED
      BY <1>1, <1>2, <2>1 DEF CartInv, CartScanned, CartKeeps, CallKeeps, MovesOn, Starts
  <1>6. UnusedEmpty'
    BY <1>2 DEF CartInv, UnusedEmpty, CallKeeps, MovesOn, Starts, After
  <1>7. CartCleared'
    <2>1. SUFFICES ASSUME NEW p \in Payments, p \notin revived', call'[p].pc \in After,
                          cart' # {}
                   PROVE  call'[p].items \cap cart' = {}
      BY DEF CartCleared
    <2>2. call'[p].items = call[p].items /\ call[p].pc \in After
      BY <1>2, <2>1 DEF CallKeeps, MovesOn, Starts, After
    <2>3. call[p].items \cap cart = {}
      BY <1>1, <2>1, <2>2 DEF CartKeeps, CartInv, CartCleared
    <2>4. call[p].items \subseteq scanned
      BY DEF CartInv, CartScanned
    <2>5. CASE Initialize
      BY <2>1, <2>2, <2>5 DEF Initialize, After
    <2>6. QED
      BY <1>1, <2>2, <2>3, <2>4, <2>5 DEF CartKeeps
  <1>8. RejectedUnsold'
    <2>1. SUFFICES ASSUME NEW p \in Payments,
                          \/ call'[p].pc \in {"unused", "posting"}
                          \/ call'[p].pc = "rejected" /\ p \notin ambiguous'
                   PROVE  sales'[p] = 0 /\ orphans'[p] = 0
      BY DEF RejectedUnsold
    <2>2. \/ call[p].pc \in {"unused", "posting"}
          \/ call[p].pc = "rejected" /\ p \notin ambiguous
      BY <1>1, <1>2, <2>1 DEF CartKeeps, CallKeeps, MovesOn, Starts, After
    <2>3. sales[p] = 0 /\ orphans[p] = 0
      BY <2>2 DEF CartInv, RejectedUnsold
    <2>4. QED
      BY <1>2, <2>1, <2>2, <2>3 DEF BooksKeep, Unserved
  <1>9. SharedRejected'
    <2>1. SUFFICES ASSUME NEW p \in Payments \ Suspect', NEW q \in Payments \ Suspect',
                          p # q, call'[p].items \cap call'[q].items # {}
                   PROVE  "rejected" \in {call'[p].pc, call'[q].pc}
      BY DEF SharedRejected
    <2>2. \A o \in Payments : call[o].pc = "rejected" => call'[o].pc = "rejected"
      BY <1>2 DEF CallKeeps, MovesOn, Starts, InFlight
    <2>3. ASSUME NEW a \in Payments \ Suspect', NEW b \in Payments \ Suspect',
                 a # b, Starts(a), call'[a].items \cap call'[b].items # {}
          PROVE  call'[b].pc = "rejected"
      <3>1. call[b].pc \notin InFlight
        BY <2>3 DEF Starts, Suspect
      <3>2. call'[a].items = cart
        BY <2>3 DEF Starts
      <3>3. call'[b] = call[b] /\ b \notin Suspect
        BY <1>3, <2>3 DEF Starts
      <3>4. call[b].items \cap cart # {} /\ call[b].items # {}
        BY <2>3, <3>2, <3>3
      <3>5. call[b].pc # "unused" /\ call[b].pc \notin After
        BY <3>3, <3>4 DEF CartInv, CartCleared, UnusedEmpty, Suspect
      <3>6. QED
        BY <1>4, <3>1, <3>3, <3>5 DEF CallStates, InFlight, After
    <2>4. CASE Starts(p) \/ Starts(q)
      BY <2>1, <2>3, <2>4
    <2>5. CASE ~Starts(p) /\ ~Starts(q)
      <3>1. call'[p].items = call[p].items /\ call'[q].items = call[q].items
        BY <1>2, <2>5 DEF CallKeeps, MovesOn
      <3>2. QED
        BY <1>3, <2>1, <2>2, <3>1 DEF CartInv, SharedRejected
    <2>6. QED
      BY <2>4, <2>5
  <1>10. QED
    BY <1>5, <1>6, <1>7, <1>8, <1>9 DEF CartInv

LEMMA CartInvInit == Init => CartInv
  BY DEF Init, CartInv, CartScanned, Copies, UnusedEmpty, CartCleared, RejectedUnsold,
     SharedRejected

-----------------------------------------------------------------------------
(* What a start of the page brings back: the goods of a payment that is over   *)
(* are in no copy of the cart, unless one of the named causes left them there  *)

Clean(p) == call[p].items \cap Copies = {}

Closing(r, p) == run[r].cur = p /\ run[r].pc \in {"persisting", "removing"}

\* The page has been told that p is sold.
Told(p) == \/ call[p].pc = "accepted"
              \/ /\ call[p].pc \in {"patching", "parked", "gone"}
                 /\ mem[p] = "none" \/ \E r \in Runs : Closing(r, p)

Forgotten == overtaken \cup discarded \cup cutOff

\* Before the end of initialize nothing of the open cart has been sent.
FreshCart == initialized \/ cart \cap Copies = {}

UnnamedClean ==
  \A p \in Payments \ named :
    Clean(p) /\ (initialized => call[p].items \cap cart = {})

NamedCalls ==
  \A p \in named : /\ call[p].pc # "unused"
                   /\ initialized \/ call[p].pc \in {"accepted", "rejected", "gone"}

ToldClean == \A p \in named \ Forgotten : Told(p) => Clean(p)

RevivedForgotten == revived \subseteq Forgotten

CacheInv == FreshCart /\ UnnamedClean /\ NamedCalls /\ ToldClean /\ RevivedForgotten

LEMMA CacheInvInit == Init => CacheInv
  <1>1. Init => \A p \in Payments : call[p].items = {}
    BY DEF Init
  <1>2. QED
    BY <1>1 DEF Init, CacheInv, FreshCart, UnnamedClean, NamedCalls, ToldClean,
       RevivedForgotten, Clean, Copies

LEMMA ForgottenGrows ==
  ASSUME TypeInv, [Next]_vars
  PROVE  /\ Forgotten \subseteq Forgotten'
         /\ revived' = revived \/ Initialize
         /\ \/ named' = named
            \/ \E p \in Payments : ProcessPayment(p) /\ initialized /\ named' = named \cup {p}
  <1>1. discarded \subseteq discarded' /\ cutOff \subseteq cutOff'
    BY DEF Next, Operate, Disturb, RunStep, CallStep, vars, histVars, AddToCart,
       RemoveFromCart, ClearCart, ApplyRemoteSale, ProcessPayment, Initialize,
       SyncQueuedPayments, RetryQueuedPayment, RemoveQueuedPayment, Reload,
       BackoffElapses, CommitCall, CommitRun, CommitOrphan, PaymentAccepted,
       PaymentRejected, PaymentUnanswered, EnqueuePayment, ParkPayment,
       RemovalDone, SyncAccepted, SyncRemove, SyncSettled, SyncConflict,
       SyncServerError, SyncRefused, SyncUnanswered, Mark, SyncMarked,
       RetryMarked, ClearCachedCart, SyncCart
  <1>2. revived' = revived \/ Initialize
    BY DEF Next, Operate, Disturb, RunStep, CallStep, vars, cartVars, AddToCart,
       RemoveFromCart, ClearCart, ApplyRemoteSale, ProcessPayment,
       SyncQueuedPayments, RetryQueuedPayment, RemoveQueuedPayment, Reload,
       BackoffElapses, CommitCall, CommitRun, CommitOrphan, PaymentAccepted,
       PaymentRejected, PaymentUnanswered, EnqueuePayment, ParkPayment,
       RemovalDone, SyncAccepted, SyncRemove, SyncSettled, SyncConflict,
       SyncServerError, SyncRefused, SyncUnanswered, Mark, SyncMarked,
       RetryMarked, ClearCachedCart, SyncCart
  <1>3. named' = named \/ \E p \in Payments : ProcessPayment(p)
    BY DEF Next, Operate, Disturb, RunStep, CallStep, vars, cartVars, AddToCart,
       RemoveFromCart, ClearCart, ApplyRemoteSale, Initialize,
       SyncQueuedPayments, RetryQueuedPayment, RemoveQueuedPayment, Reload,
       BackoffElapses, CommitCall, CommitRun, CommitOrphan, PaymentAccepted,
       PaymentRejected, PaymentUnanswered, EnqueuePayment, ParkPayment,
       RemovalDone, SyncAccepted, SyncRemove, SyncSettled, SyncConflict,
       SyncServerError, SyncRefused, SyncUnanswered, Mark, SyncMarked,
       RetryMarked, ClearCachedCart, SyncCart
  <1>4. ASSUME NEW p \in Payments, ProcessPayment(p)
        PROVE  named' = named \/ (initialized /\ named' = named \cup {p})
    BY <1>4 DEF ProcessPayment
  <1>5. QED
    BY <1>1, <1>2, <1>3, <1>4, CopiesKeepNext DEF Forgotten

\* A step that tells the page of no sale.
Unsettling(p) ==
  /\ \/ call'[p].pc = call[p].pc \/ call'[p].pc \notin After
     \/ {call[p].pc, call'[p].pc} \subseteq {"patching", "parked", "gone"}
  /\ mem'[p] = "none" => mem[p] = "none"
  /\ \A r \in Runs : Closing(r, p)' => Closing(r, p)

LEMMA UnsettlingKeeps ==
  ASSUME NEW p \in Payments, Unsettling(p), Told(p)'
  PROVE  Told(p)
  BY DEF Unsettling, Told, After

LEMMA DropCleans ==
  ASSUME NEW p \in named, DropCachedCart(p), SendCart({}), p \notin overtaken',
         call'[p].items = call[p].items
  PROVE  Clean(p)'
  <1>1. cached' = {} /\ call[p].items \cap UNION syncs = {}
    BY DEF DropCachedCart
  <1>2. syncs' \subseteq syncs \cup {{}}
    BY DEF SendCart
  <1>3. QED
    BY <1>1, <1>2 DEF Clean, Copies

LEMMA CallsUnsettle ==
  ASSUME TypeInv, TypeInv', QueueInv, NEW p \in Payments, NEW q \in Payments,
         \/ ProcessPayment(q) \/ CommitCall(q) \/ PaymentRejected(q)
         \/ PaymentUnanswered(q) \/ ParkPayment(q) \/ BackoffElapses(q)
         \/ (q # p /\ (PaymentAccepted(q) \/ EnqueuePayment(q) \/ RemoveQueuedPayment(q)))
  PROVE  Unsettling(p)
  <1>0. call \in CallType /\ QueueType
    BY TypeParts
  <1>1. ASSUME mem'[p] = "none" => mem[p] = "none", run' = run,
               \/ call'[p].pc = call[p].pc \/ call'[p].pc \notin After
               \/ {call[p].pc, call'[p].pc} \subseteq {"patching", "parked", "gone"}
        PROVE  Unsettling(p)
    BY <1>1 DEF Unsettling, Closing
  <1>2. CASE ProcessPayment(q)
    BY <1>0, <1>1, <1>2 DEF ProcessPayment, queueVars, CallType, After
  <1>3. CASE CommitCall(q)
    BY <1>0, <1>1, <1>3 DEF CommitCall, queueVars, CallType, After
  <1>4. CASE PaymentRejected(q)
    BY <1>0, <1>1, <1>4 DEF PaymentRejected, queueVars, CallType, After
  <1>5. CASE PaymentUnanswered(q)
    BY <1>0, <1>1, <1>5 DEF PaymentUnanswered, CallType, After
  <1>6. CASE ParkPayment(q)
    <2>1. call[q].pc = "patching"
      BY <1>6, ParkPaymentQueue
    <2>2. mem'[p] = "none" => mem[p] = "none"
      BY <1>6, CommitPatchQueue DEF ParkPayment
    <2>3. QED
      BY <1>0, <1>1, <1>6, <2>1, <2>2 DEF ParkPayment, CallType
  <1>7. CASE BackoffElapses(q)
    BY <1>0, <1>1, <1>7 DEF BackoffElapses, QueueType
  <1>8. CASE q # p /\ PaymentAccepted(q)
    BY <1>0, <1>1, <1>8 DEF PaymentAccepted, queueVars, CallType
  <1>9. CASE q # p /\ EnqueuePayment(q)
    BY <1>0, <1>1, <1>9 DEF EnqueuePayment, QueueType, CallType
  <1>10. CASE q # p /\ RemoveQueuedPayment(q)
    BY <1>0, <1>1, <1>10 DEF RemoveQueuedPayment, RemoveInternal, QueueType
  <1>11. QED
    BY <1>2, <1>3, <1>4, <1>5, <1>6, <1>7, <1>8, <1>9, <1>10

LEMMA RunsUnsettle ==
  ASSUME TypeInv, QueueInv, NEW p \in Payments, NEW r \in Runs,
         \/ SyncQueuedPayments(r) \/ CommitRun(r) \/ SyncSettled(r) \/ SyncConflict(r)
         \/ SyncServerError(r) \/ SyncRefused(r) \/ SyncUnanswered(r) \/ SyncMarked(r)
         \/ RetryMarked(r) \/ \E q \in Payments : RetryQueuedPayment(r, q)
         \/ (run[r].cur # p /\ (SyncAccepted(r) \/ SyncRemove(r)))
  PROVE  Unsettling(p)
  <1>0. run \in RunType /\ RunShape /\ QueueType
    BY TypeParts
  <1>1. ASSUME mem'[p] = "none" => mem[p] = "none", call' = call,
               \A o \in Runs : o # r => run'[o] = run[o],
               \/ run'[r].pc \notin {"persisting", "removing"}
               \/ run'[r].cur # p
        PROVE  Unsettling(p)
    BY <1>1 DEF Unsettling, Closing
  <1>2. ASSUME NEW pc, pc \notin {"persisting", "removing"},
               run' = [run EXCEPT ![r].pc = pc]
        PROVE  /\ \A o \in Runs : o # r => run'[o] = run[o]
               /\ run'[r].pc \notin {"persisting", "removing"}
    BY <1>0, <1>2 DEF RunType, RunRecord
  <1>3. ASSUME NEW rest \in SUBSET Payments, Proceed(r, rest)
        PROVE  /\ \A o \in Runs : o # r => run'[o] = run[o]
               /\ run'[r].pc \notin {"persisting", "removing"}
    BY <1>3, ProceedHolds
  <1>4. ASSUME run' = [run EXCEPT ![r] = IdleRun]
        PROVE  /\ \A o \in Runs : o # r => run'[o] = run[o]
               /\ run'[r].pc \notin {"persisting", "removing"}
    BY <1>0, <1>4, IdleRunType DEF RunType
  <1>5. run[r].todo \in SUBSET Payments
    BY <1>0 DEF RunType, RunRecord
  <1>6. CASE SyncQueuedPayments(r)
    <2>1. Proceed(r, DueIn(mem)) /\ DueIn(mem) \in SUBSET Payments
      BY <1>6 DEF SyncQueuedPayments, TakeSnapshot, DueIn
    <2>2. QED
      BY <1>1, <1>3, <1>6, <2>1 DEF SyncQueuedPayments, queueVars
  <1>7. CASE CommitRun(r)
    BY <1>1, <1>2, <1>7 DEF CommitRun, queueVars
  <1>8. CASE SyncSettled(r)
    BY <1>1, <1>3, <1>5, <1>8 DEF SyncSettled, CommitDelete
  <1>9. ASSUME NEW s \in {"conflict", "backoff", "failed"},
               NEW pc \in {"marking", "backingOff", "stopping"}, run[r].cur \in Payments,
               Mark(r, s, pc)
        PROVE  Unsettling(p)
    <2>1. mem'[p] = "none" => mem[p] = "none"
      BY <1>9, ApplyPatchQueue DEF Mark, RecordStates
    <2>2. run' = [run EXCEPT ![r].pc = pc] /\ pc \notin {"persisting", "removing"}
      BY <1>9 DEF Mark
    <2>3. QED
      BY <1>1, <1>2, <1>9, <2>1, <2>2 DEF Mark
  <1>10. CASE SyncConflict(r) \/ SyncServerError(r) \/ SyncRefused(r) \/ SyncUnanswered(r)
    <2>1. run[r].cur \in Payments
      BY <1>0, <1>10 DEF RunShape, SyncConflict, SyncServerError, ErrorResponse,
         SyncRefused, SyncUnanswered, LoseAnswer
    <2>2. QED
      BY <1>9, <1>10, <2>1 DEF SyncConflict, SyncServerError, SyncRefused, SyncUnanswered
  <1>11. CASE SyncMarked(r)
    <2>1. mem'[p] = "none" => mem[p] = "none"
      BY <1>11, CommitPatchQueue DEF SyncMarked
    <2>2. run' = [run EXCEPT ![r] = IdleRun] \/ Proceed(r, run[r].todo)
      BY <1>11 DEF SyncMarked
    <2>3. QED
      BY <1>1, <1>3, <1>4, <1>5, <1>11, <2>1, <2>2 DEF SyncMarked
  <1>12. CASE RetryMarked(r)
    <2>1. mem'[p] = "none" => mem[p] = "none"
      BY <1>12, CommitPatchQueue DEF RetryMarked
    <2>2. run' = [run EXCEPT ![r] = IdleRun] \/ Proceed(r, DueIn(mem'))
      BY <1>12 DEF RetryMarked, TakeSnapshot
    <2>3. DueIn(mem') \in SUBSET Payments
      BY DEF DueIn
    <2>4. QED
      BY <1>1, <1>3, <1>4, <1>12, <2>1, <2>2, <2>3 DEF RetryMarked
  <1>13. ASSUME NEW q \in Payments, RetryQueuedPayment(r, q) PROVE Unsettling(p)
    <2>1. mem'[p] = "none" => mem[p] = "none"
      BY <1>13, ApplyPatchQueue DEF RetryQueuedPayment, RecordStates
    <2>2. /\ \A o \in Runs : o # r => run'[o] = run[o]
          /\ run'[r].pc = "retrying"
      BY <1>0, <1>13 DEF RetryQueuedPayment, RunType
    <2>3. QED
      BY <1>1, <1>13, <2>1, <2>2 DEF RetryQueuedPayment
  <1>14. CASE run[r].cur # p /\ SyncAccepted(r)
    <2>1. /\ \A o \in Runs : o # r => run'[o] = run[o]
          /\ run'[r].cur = run[r].cur
      BY <1>0, <1>14 DEF SyncAccepted, RunType, RunRecord
    <2>2. QED
      BY <1>1, <1>14, <2>1 DEF SyncAccepted, queueVars
  <1>15. CASE run[r].cur # p /\ SyncRemove(r)
    <2>1. /\ \A o \in Runs : o # r => run'[o] = run[o]
          /\ run'[r].cur = run[r].cur
      BY <1>0, <1>15 DEF SyncRemove, RunType, RunRecord
    <2>2. mem'[p] = mem[p]
      BY <1>0, <1>15 DEF SyncRemove, RemoveInternal, QueueType
    <2>3. QED
      BY <1>1, <1>15, <2>1, <2>2 DEF SyncRemove
  <1>16. QED
    BY <1>6, <1>7, <1>8, <1>10, <1>11, <1>12, <1>13, <1>14, <1>15

\* The page is told of a sale only behind the server's clearing of its cart.
LEMMA SettlesNext ==
  ASSUME TypeInv, TypeInv', QueueInv, [Next]_vars, NEW p \in named, p \notin Forgotten',
         Told(p)', ~Told(p)
  PROVE  Clean(p)'
  <1>0. /\ call \in CallType /\ run \in RunType /\ RunShape /\ QueueType
        /\ p \in Payments
    BY TypeParts DEF CacheType
  <1>1. ~Unsettling(p)
    BY <1>0, UnsettlingKeeps
  <1>2. ~UNCHANGED <<call, mem, run>>
    BY <1>1 DEF Unsettling, Closing
  <1>3. \A q \in Payments \ {p} :
          ~PaymentAccepted(q) /\ ~EnqueuePayment(q) /\ ~RemoveQueuedPayment(q)
    BY <1>0, <1>1, CallsUnsettle
  <1>4. ASSUME PaymentAccepted(p) PROVE Clean(p)'
    <2>1. call'[p].items = call[p].items
      BY <1>0, <1>4 DEF PaymentAccepted, CallType
    <2>2. QED
      BY <1>4, <2>1, DropCleans DEF PaymentAccepted, Forgotten
  <1>5. ~EnqueuePayment(p)
    <2>1. SUFFICES ASSUME EnqueuePayment(p) PROVE FALSE
      OBVIOUS
    <2>2. call[p].pc = "enqueueing"
      BY <1>0, <2>1, TailTx DEF EnqueuePayment, QueueType, QueueInv, TxInv, TxPhase, TxOk
    <2>3. call'[p].pc = "patching" /\ mem'[p] # "none" /\ run' = run
      BY <1>0, <2>1 DEF EnqueuePayment, CallType, QueueType
    <2>4. PICK r \in Runs : Closing(r, p)'
      BY <2>3 DEF Told
    <2>5. Holds(r, p)
      BY <2>3, <2>4 DEF Closing, Holds
    <2>6. QED
      BY <1>0, <2>2, <2>5 DEF QueueInv, HoldPhase, Queued
  <1>6. ~RemoveQueuedPayment(p)
    BY DEF RemoveQueuedPayment, Forgotten
  <1>7. ~Initialize
    <2>1. SUFFICES ASSUME Initialize PROVE FALSE
      OBVIOUS
    <2>2. mem[p] = "none" /\ call' = call /\ run' = run
      BY <1>0, <2>1 DEF Initialize, Forgotten
    <2>3. QED
      BY <1>1, <2>2 DEF Unsettling, Closing
  <1>8. ~Reload
    <2>1. SUFFICES ASSUME Reload PROVE FALSE
      OBVIOUS
    <2>2. mem[p] = "none" /\ call[p].pc \notin InFlight \cup {"patching"}
      BY <1>0, <2>1 DEF Reload, Forgotten
    <2>3. \A r \in Runs : ~Closing(r, p)'
      BY <2>1 DEF Reload, Closing, IdleRun
    <2>4. call'[p].pc = call[p].pc \/ (call[p].pc = "parked" /\ call'[p].pc = "gone")
      BY <1>0, <2>1, <2>2 DEF Reload, CallType
    <2>5. QED
      BY <1>1, <2>2, <2>3, <2>4 DEF Unsettling
  <1>9. ASSUME NEW r \in Runs, SyncAccepted(r) PROVE Clean(p)'
    <2>1. run[r].cur = p
      BY <1>0, <1>1, <1>9, RunsUnsettle
    <2>2. QED
      BY <1>9, <2>1, DropCleans DEF SyncAccepted, Forgotten
  <1>10. ASSUME NEW r \in Runs, SyncRemove(r) PROVE FALSE
    <2>1. run[r].cur = p /\ Closing(r, p)
      BY <1>0, <1>1, <1>10, RunsUnsettle DEF SyncRemove, Closing
    <2>2. call[p].pc \in Queued
      BY <1>0, <2>1 DEF Closing, Holds, QueueInv, HoldPhase
    <2>3. QED
      BY <2>1, <2>2 DEF Told, Queued
  <1>11. \A q \in Payments : ~(\/ ProcessPayment(q) \/ CommitCall(q) \/ PaymentRejected(q)
                               \/ PaymentUnanswered(q) \/ ParkPayment(q)
                               \/ BackoffElapses(q))
    BY <1>0, <1>1, CallsUnsettle
  <1>12. \A r \in Runs :
           ~(\/ SyncQueuedPayments(r) \/ CommitRun(r) \/ SyncSettled(r) \/ SyncConflict(r)
             \/ SyncServerError(r) \/ SyncRefused(r) \/ SyncUnanswered(r) \/ SyncMarked(r)
             \/ RetryMarked(r) \/ \E q \in Payments : RetryQueuedPayment(r, q))
    BY <1>0, <1>1, RunsUnsettle
  <1>13. QED
    BY <1>2, <1>3, <1>4, <1>5, <1>6, <1>7, <1>8, <1>9, <1>10, <1>11, <1>12
    DEF Next, Operate, Disturb, RunStep, CallStep, vars, queueVars, AddToCart,
        RemoveFromCart, ClearCart, ApplyRemoteSale, CommitOrphan, RemovalDone,
        CommitDelete, ClearCachedCart, SyncCart

LEMMA CacheInvNext ==
  ASSUME TypeInv, TypeInv', QueueInv, CartInv, CacheInv, [Next]_vars
  PROVE  CacheInv'
  <1>0. call \in CallType /\ named \subseteq Payments
    BY TypeParts DEF CacheType
  <1>1. CartKeeps /\ CopiesKeep
    BY CartKeepsNext, CopiesKeepNext DEF CartInv, CartScanned
  <1>2. \A p \in Payments : CallKeeps(p)
    BY CallKeepsNext
  <1>3. /\ cart \subseteq scanned /\ Copies \subseteq scanned
        /\ \A p \in Payments : call[p].items \subseteq scanned
    BY DEF CartInv, CartScanned
  <1>4. Initialize => ~initialized /\ initialized' /\ cart' \subseteq Copies /\ call' = call
                      /\ Copies' = Copies
    BY DEF Initialize, Copies
  <1>5. Reload => cart' = {} /\ ~initialized'
    BY DEF Reload
  <1>6. \A p \in Payments : Starts(p) => Copies' = Copies
    BY DEF Starts, Copies
  <1>7. FreshCart'
    <2>1. SUFFICES ASSUME ~initialized', ~Reload PROVE cart' \cap Copies' = {}
      BY <1>5 DEF FreshCart
    <2>2. ~Initialize /\ ~initialized
      BY <1>1, <1>4, <2>1 DEF CartKeeps
    <2>3. QED
      BY <1>1, <1>3, <2>2 DEF CartKeeps, CopiesKeep, CacheInv, FreshCart
  <1>8. UnnamedClean'
    <2>1. SUFFICES ASSUME NEW p \in Payments, p \notin named'
                   PROVE  Clean(p)' /\ (initialized' => call'[p].items \cap cart' = {})
      BY DEF UnnamedClean
    <2>2. p \notin named /\ Clean(p) /\ (initialized => call[p].items \cap cart = {})
      BY <2>1, ForgottenGrows DEF CacheInv, UnnamedClean
    <2>3. CASE Starts(p)
      <3>1. ~initialized /\ ~initialized' /\ call'[p].items = cart /\ Copies' = Copies
        BY <1>6, <2>1, <2>3 DEF Starts
      <3>2. QED
        BY <3>1 DEF CacheInv, FreshCart, Clean
    <2>4. CASE ~Starts(p)
      <3>1. call'[p].items = call[p].items
        BY <1>2, <2>4 DEF CallKeeps, MovesOn
      <3>2. Clean(p)'
        BY <1>1, <1>3, <2>2, <3>1 DEF CopiesKeep, Clean
      <3>3. CASE Initialize
        BY <1>4, <2>2, <3>1, <3>2, <3>3 DEF Clean
      <3>4. CASE ~Initialize
        BY <1>1, <1>3, <1>5, <2>2, <3>1, <3>2, <3>4 DEF CartKeeps
      <3>5. QED
        BY <3>3, <3>4
    <2>5. QED
      BY <2>3, <2>4
  <1>9. NamedCalls'
    <2>1. SUFFICES ASSUME NEW p \in named'
                   PROVE  /\ call'[p].pc # "unused"
                          /\ initialized' \/ call'[p].pc \in {"accepted", "rejected", "gone"}
      BY DEF NamedCalls
    <2>2. CASE p \notin named
      <3>1. ProcessPayment(p) /\ initialized /\ p \in Payments
        BY <2>1, <2>2, ForgottenGrows
      <3>2. initialized' /\ call'[p].pc = "posting"
        BY <1>0, <3>1 DEF ProcessPayment, CallType
      <3>3. QED
        BY <3>2
    <2>3. CASE p \in named
      <3>1. p \in Payments /\ call[p].pc # "unused" /\ CallKeeps(p)
        BY <1>0, <1>2, <2>3 DEF CacheInv, NamedCalls
      <3>2. call'[p].pc # "unused"
        BY <3>1 DEF CallKeeps, MovesOn, Starts, After
      <3>3. CASE Reload
        BY <1>0, <3>1, <3>3 DEF Reload, CallType, CallStates, InFlight
      <3>4. CASE ~Reload /\ ~initialized'
        <4>1. ~initialized
          BY <1>1, <1>4, <3>4 DEF CartKeeps
        <4>2. call[p].pc \in {"accepted", "rejected", "gone"}
          BY <2>3, <4>1 DEF CacheInv, NamedCalls
        <4>3. call'[p] = call[p]
          BY <3>1, <4>2 DEF CallKeeps, MovesOn, Starts, InFlight
        <4>4. QED
          BY <3>2, <4>2, <4>3
      <3>5. QED
        BY <3>2, <3>3, <3>4
    <2>4. QED
      BY <2>2, <2>3
  <1>10. ToldClean'
    <2>1. SUFFICES ASSUME NEW p \in named', p \notin Forgotten', Told(p)'
                   PROVE  Clean(p)'
      BY DEF ToldClean
    <2>2. p \in Payments
      BY <2>1 DEF TypeInv, TypeOK
    <2>3. p \in named
      <3>1. SUFFICES ASSUME p \notin named PROVE FALSE
        OBVIOUS
      <3>2. ProcessPayment(p)
        BY <2>1, <3>1, ForgottenGrows
      <3>3. call'[p].pc = "posting"
        BY <1>0, <2>2, <3>2 DEF ProcessPayment, CallType
      <3>4. QED
        BY <2>1, <3>3 DEF Told
    <2>4. p \notin Forgotten
      BY <2>1, ForgottenGrows
    <2>5. CASE Told(p)
      <3>1. Clean(p) /\ call[p].items \cap cart = {} /\ call[p].pc \in After
        BY <2>2, <2>3, <2>4, <2>5
        DEF CacheInv, ToldClean, RevivedForgotten, CartInv, CartCleared, Told, After
      <3>2. call'[p].items = call[p].items
        BY <1>2, <2>2, <3>1 DEF CallKeeps, MovesOn, Starts, After
      <3>3. QED
        BY <1>1, <1>3, <2>2, <3>1, <3>2 DEF CopiesKeep, Clean
    <2>6. QED
      BY <2>1, <2>3, <2>5, SettlesNext
  <1>11. RevivedForgotten'
    <2>1. CASE revived' = revived
      BY <2>1, ForgottenGrows DEF CacheInv, RevivedForgotten
    <2>2. CASE Initialize
      <3>1. SUFFICES ASSUME NEW p \in Payments, call[p].pc # "rejected", p \notin Forgotten,
                            call[p].items \cap cart' # {}
                     PROVE  FALSE
        BY <2>2, ForgottenGrows DEF Initialize, CacheInv, RevivedForgotten
      <3>2. ~initialized /\ ~Clean(p)
        BY <1>4, <2>2, <3>1 DEF Clean
      <3>3. p \in named /\ call[p].pc \in {"accepted", "gone"}
        BY <3>1, <3>2 DEF CacheInv, UnnamedClean, NamedCalls
      <3>4. mem[p] = "none" \/ call[p].pc = "accepted"
        BY <3>3 DEF QueueInv, QueuePhase, Queued
      <3>5. QED
        BY <3>1, <3>2, <3>3, <3>4 DEF CacheInv, ToldClean, Told
    <2>3. QED
      BY <2>1, <2>2, ForgottenGrows
  <1>12. QED
    BY <1>7, <1>8, <1>9, <1>10, <1>11 DEF CacheInv

\* Goods of one cart are sold by at most one payment, for any number of
\* payments, runs, reloads and faults, unless an answer was lost, the second
\* press of the button fell into the flight of the first, or a start of the page
\* brought the cart back from the server: what is kept in the cart for another
\* press is kept by a rejection, and nothing was sold then.  A cart comes back
\* only for a payment cut off or removed from the queue, or because it reached
\* the server after the payment had cleared the server's copy.
THEOREM CartsPaidTwiceHaveACause == Spec => []CartPaidTwiceHasCause
  <1>1. Init => TypeInv /\ QueueInv /\ CartInv /\ CacheInv
    BY TypeInvInit, QueueInvInit, CartInvInit, CacheInvInit
  <1>2. (TypeInv /\ QueueInv /\ CartInv /\ CacheInv) /\ [Next]_vars
          => (TypeInv /\ QueueInv /\ CartInv /\ CacheInv)'
    BY TypeInvNext, QueueInvNext, CartInvNext, CacheInvNext
  <1>3. TypeInv /\ CartInv /\ CacheInv => CartPaidTwiceHasCause
    <2>1. SUFFICES ASSUME TypeInv, CartInv, CacheInv PROVE CartPaidTwiceHasCause
      OBVIOUS
    <2>2. ASSUME NEW p \in Payments, NEW q \in Payments, p # q,
                 call[p].items \cap call[q].items # {},
                 sales[p] > 0, sales[q] > 0,
                 {p, q} \cap (ambiguous \cup raced \cup revived) = {}
          PROVE  FALSE
      <3>1. /\ p \notin Suspect /\ p \notin ambiguous
            /\ q \notin Suspect /\ q \notin ambiguous
        BY <2>2 DEF Suspect
      <3>2. call[p].pc = "rejected" \/ call[q].pc = "rejected"
        BY <2>1, <2>2, <3>1 DEF CartInv, SharedRejected
      <3>3. sales[p] = 0 \/ sales[q] = 0
        BY <2>1, <3>1, <3>2 DEF CartInv, RejectedUnsold
      <3>4. QED
        BY <2>2, <3>3
    <2>3. revived \subseteq overtaken \cup discarded \cup cutOff
      BY <2>1 DEF CacheInv, RevivedForgotten, Forgotten
    <2>4. QED
      BY <2>2, <2>3 DEF CartPaidTwiceHasCause
  <1>4. QED
    BY <1>1, <1>2, <1>3, PTL DEF Spec

-----------------------------------------------------------------------------
(* The terminal and the server keep the promises of PaymentLife                *)

\* A call that has seen, or is about to see, its sale confirmed has one.
PaidSold == \A p \in Payments : call[p].pc \in {"posted", "accepted"} => sales[p] > 0

LifeInv == TypeInv /\ QueueInv /\ OwnerInv /\ SaleInv /\ CartInv /\ PaidSold

Doubted == ambiguous \cup contended
Dropped == discarded \cup cutOff

\* The steps that move a call; a reload ends it.
LEMMA CallsOnly ==
  ASSUME TypeInv, [Next]_vars, NEW p \in Payments, call'[p].pc \notin {call[p].pc, "gone"}
  PROVE  \E q \in Payments : \/ ProcessPayment(q) \/ CommitCall(q) \/ PaymentAccepted(q)
                             \/ PaymentRejected(q) \/ PaymentUnanswered(q)
                             \/ EnqueuePayment(q) \/ ParkPayment(q)
  <1>1. call' # call
    OBVIOUS
  <1>2. ~Reload
    BY TypeParts DEF Reload, CallType
  <1>3. QED
    BY <1>1, <1>2
    DEF Next, Operate, Disturb, RunStep, CallStep, vars, AddToCart,
        RemoveFromCart, ClearCart, ApplyRemoteSale, SyncQueuedPayments,
        RetryQueuedPayment, RemoveQueuedPayment, Initialize, BackoffElapses,
        CommitRun, CommitOrphan, RemovalDone, SyncAccepted, SyncRemove,
        SyncSettled, SyncConflict, SyncServerError, SyncRefused, SyncUnanswered,
        Mark, SyncMarked, RetryMarked, ClearCachedCart, SyncCart

LEMMA PaidSoldNext ==
  ASSUME TypeInv, TypeInv', QueueInv, PaidSold, [Next]_vars
  PROVE  PaidSold'
  <1>0. call \in CallType /\ CountType
    BY TypeParts
  <1>1. \A p \in Payments : sales'[p] >= sales[p]
    <2>1. \A p \in Payments : sales[p] >= sales[p]
      BY <1>0 DEF CountType
    <2>2. ASSUME NEW p \in Payments, EnqueuePayment(p) \/ ParkPayment(p) PROVE sales' = sales
      BY <2>2 DEF EnqueuePayment, ParkPayment, serverVars
    <2>3. QED
      BY <2>1, <2>2, QueueSteps DEF QueueStep, SalesGrow, Reload
  <1>2. ASSUME NEW p \in Payments, call'[p].pc \in {"posted", "accepted"},
               call[p].pc \notin {"posted", "accepted"}
        PROVE  CommitCall(p)
    <2>1. \E q \in Payments : \/ ProcessPayment(q) \/ CommitCall(q) \/ PaymentAccepted(q)
                              \/ PaymentRejected(q) \/ PaymentUnanswered(q)
                              \/ EnqueuePayment(q) \/ ParkPayment(q)
      BY <1>2, CallsOnly
    <2>2. PICK q \in Payments : \/ ProcessPayment(q) \/ CommitCall(q) \/ PaymentAccepted(q)
                               \/ PaymentRejected(q) \/ PaymentUnanswered(q)
                               \/ EnqueuePayment(q) \/ ParkPayment(q)
      BY <2>1
    <2>3. p # q => call'[p] = call[p]
      BY <1>0, <2>2 DEF ProcessPayment, CommitCall, PaymentAccepted, PaymentRejected,
         PaymentUnanswered, EnqueuePayment, ParkPayment, CallType
    <2>4. CommitCall(q) \/ PaymentAccepted(q) \/ call'[q].pc \notin {"posted", "accepted"}
      BY <1>0, <2>2 DEF ProcessPayment, PaymentRejected, PaymentUnanswered, EnqueuePayment,
         ParkPayment, CallType
    <2>5. QED
      BY <1>2, <2>3, <2>4 DEF PaymentAccepted
  <1>3. ASSUME NEW p \in Payments, CommitCall(p) PROVE sales'[p] > 0
    BY <1>0, <1>3 DEF CommitCall, Commit, CountType
  <1>4. QED
    <2>1. SUFFICES ASSUME NEW p \in Payments, call'[p].pc \in {"posted", "accepted"}
                   PROVE  sales'[p] > 0
      BY DEF PaidSold
    <2>2. sales[p] \in Nat /\ sales'[p] \in Nat
      BY TypeParts, <1>0 DEF CountType, TypeInv, TypeOK
    <2>3. QED
      BY <1>1, <1>2, <1>3, <2>1, <2>2 DEF PaidSold

LEMMA LifeInvariant == Spec => []LifeInv
  <1>1. Init => LifeInv
    BY TypeInvInit, QueueInvInit, OwnerInvInit, SaleInvInit, CartInvInit
    DEF LifeInv, PaidSold, Init
  <1>2. LifeInv /\ [Next]_vars => LifeInv'
    <2>1. SUFFICES ASSUME LifeInv, [Next]_vars PROVE LifeInv'
      OBVIOUS
    <2>2. TypeInv' /\ QueueInv' /\ OwnerInv' /\ SaleInv'
      BY <2>1, TypeInvNext, QueueInvNext, OwnerInvNext, SaleInvNext DEF LifeInv
    <2>3. CartInv' /\ PaidSold'
      BY <2>1, <2>2, CartInvNext, PaidSoldNext DEF LifeInv
    <2>4. QED
      BY <2>2, <2>3 DEF LifeInv
  <1>3. QED
    BY <1>1, <1>2, PTL DEF Spec

LEMMA StageCases ==
  ASSUME TypeInv, QueueInv, NEW p \in Payments
  PROVE  /\ Stage(p) = "new" <=> call[p].pc = "unused"
         /\ Stage(p) = "open" <=> call[p].pc \in InFlight
         /\ Stage(p) = "paid" <=> call[p].pc = "accepted"
         /\ Stage(p) = "refused" <=> call[p].pc = "rejected"
         /\ Stage(p) = "queued" <=> mem[p] # "none"
         /\ Stage(p) = "left" <=> call[p].pc \in Queued \cup {"gone"} /\ mem[p] = "none"
  <1>1. call[p].pc \in CallStates
    BY TypeParts DEF CallType
  <1>2. mem[p] # "none" => call[p].pc \in Queued
    BY DEF QueueInv, QueuePhase
  <1>3. QED
    BY <1>1, <1>2 DEF Stage, CallStates, InFlight, Queued

LEMMA StageStays ==
  ASSUME NEW p \in Payments, call'[p].pc = call[p].pc, mem'[p] = "none" <=> mem[p] = "none"
  PROVE  Stage(p)' = Stage(p)
  BY DEF Stage

\* A step that moves no payment may at most put some in doubt.
LEMMA LifeDoubts ==
  ASSUME LifeInv, \A p \in Payments : Stage(p)' = Stage(p),
         UNCHANGED <<sales, discarded, cutOff>>,
         NEW S \in SUBSET Payments, Doubted' = Doubted \cup S,
         \A p \in S : call[p].pc \in InFlight \cup Queued
  PROVE  Life!Next
  <1>1. \A p \in S : Stage(p) \in {"open", "queued", "left"}
    BY StageCases DEF LifeInv
  <1>2. [p \in Payments |-> Stage(p)]' = [p \in Payments |-> Stage(p)]
    OBVIOUS
  <1>3. Life!Doubt(S)
    BY <1>1, <1>2 DEF Life!Doubt, Doubted
  <1>4. QED
    BY <1>3 DEF Life!Next

\* Nothing that PaymentLife knows of changes.
LEMMA LifeRests ==
  ASSUME LifeInv, call' = call, \A p \in Payments : mem'[p] = "none" <=> mem[p] = "none",
         UNCHANGED <<sales, discarded, cutOff, ambiguous, contended>>
  PROVE  Life!Next
  <1>1. \A p \in Payments : Stage(p)' = Stage(p)
    BY StageStays
  <1>2. Doubted' = Doubted \cup {} /\ UNCHANGED <<sales, discarded, cutOff>>
    BY DEF Doubted
  <1>3. {} \in SUBSET Payments /\ \A p \in {} : call[p].pc \in InFlight \cup Queued
    OBVIOUS
  <1>4. QED
    BY <1>1, <1>2, <1>3, LifeDoubts

\* The server books a sale for a payment that has been started and is, but for a
\* doubt, neither sold nor refused.
LEMMA LifeSells ==
  ASSUME LifeInv, NEW p \in Payments, Commit(p), UNCHANGED <<mem, histVars>>,
         \A q \in Payments : Stage(q)' = Stage(q), call[p].pc # "unused",
         p \notin Doubted => sales[p] = 0 /\ call[p].pc # "rejected"
  PROVE  Life!Next
  <1>1. [q \in Payments |-> Stage(q)]' = [q \in Payments |-> Stage(q)]
    OBVIOUS
  <1>2. Stage(p) # "new" /\ (Stage(p) = "refused" <=> call[p].pc = "rejected")
    BY StageCases DEF LifeInv
  <1>3. Life!Sell(p)
    BY <1>1, <1>2 DEF Life!Sell, Commit, Doubted, histVars
  <1>4. QED
    BY <1>3 DEF Life!Next

\* The one payment that moves, as PaymentLife sees it.
LEMMA LifeMoves ==
  ASSUME NEW p \in Payments, NEW from, NEW to, Stage(p) = from, Stage(p)' = to,
         \A q \in Payments \ {p} : Stage(q)' = Stage(q)
  PROVE  Life!Move(p, from, to)
  BY DEF Life!Move

LEMMA LifeInit == Init => Life!Init
  <1>1. SUFFICES ASSUME Init PROVE Life!Init
    OBVIOUS
  <1>2. \A p \in Payments : Stage(p) = "new"
    <2>1. \A p \in Payments : call[p].pc = "unused"
      BY <1>1 DEF Init
    <2>2. QED
      BY <2>1 DEF Stage, InFlight
  <1>3. ambiguous \cup contended = {} /\ discarded \cup cutOff = {}
    BY <1>1 DEF Init
  <1>4. sales = [p \in Payments |-> 0]
    BY <1>1 DEF Init
  <1>5. QED
    BY <1>2, <1>3, <1>4 DEF Life!Init

\* processPayment, up to the record of an offline payment.
LEMMA CallsInLife ==
  ASSUME LifeInv, LifeInv', NEW p \in Payments,
         \/ ProcessPayment(p) \/ CommitCall(p) \/ PaymentAccepted(p) \/ PaymentRejected(p)
         \/ PaymentUnanswered(p) \/ EnqueuePayment(p) \/ ParkPayment(p)
  PROVE  Life!Next
  <1>0. /\ TypeInv /\ QueueInv /\ SaleInv /\ CartInv /\ call \in CallType /\ QueueType
        /\ TypeInv' /\ QueueInv'
    BY TypeParts DEF LifeInv
  <1>1. ASSUME NEW pc, call' = [call EXCEPT ![p].pc = pc]
        PROVE  call'[p].pc = pc /\ \A q \in Payments \ {p} : call'[q] = call[q]
    BY <1>0, <1>1 DEF CallType
  <1>2. ASSUME \A q \in Payments \ {p} : call'[q] = call[q],
               \A q \in Payments \ {p} : mem'[q] = mem[q]
        PROVE  \A q \in Payments \ {p} : Stage(q)' = Stage(q)
    BY <1>2, StageStays
  <1>3. CASE ProcessPayment(p)
    <2>1. call'[p].pc = "posting" /\ \A q \in Payments \ {p} : call'[q] = call[q]
      BY <1>0, <1>3 DEF ProcessPayment, CallType
    <2>2. Stage(p) = "new" /\ Stage(p)' = "open"
      BY <1>0, <1>3, <2>1 DEF ProcessPayment, Stage, InFlight
    <2>3. Life!Move(p, "new", "open")
      BY <1>2, <1>3, <2>1, <2>2, LifeMoves DEF ProcessPayment, queueVars
    <2>4. Life!Press(p)
      BY <1>3, <2>3 DEF Life!Press, ProcessPayment, serverVars
    <2>5. QED
      BY <2>4 DEF Life!Next
  <1>4. CASE CommitCall(p)
    <2>1. call'[p].pc = "posted" /\ \A q \in Payments \ {p} : Stage(q)' = Stage(q)
      BY <1>1, <1>2, <1>4 DEF CommitCall, queueVars
    <2>2. Stage(p)' = Stage(p)
      BY <1>4, <2>1 DEF CommitCall, Stage, InFlight
    <2>3. \A q \in Payments : Stage(q)' = Stage(q)
      BY <2>1, <2>2
    <2>4. sales[p] = 0
      BY <1>0, <1>4 DEF CommitCall, CartInv, RejectedUnsold
    <2>5. QED
      BY <1>4, <2>3, <2>4, LifeSells DEF CommitCall, queueVars
  <1>5. CASE PaymentAccepted(p)
    <2>1. /\ call'[p].pc = "accepted" /\ \A q \in Payments \ {p} : Stage(q)' = Stage(q)
      BY <1>1, <1>2, <1>5 DEF PaymentAccepted, queueVars
    <2>2. Stage(p) = "open" /\ Stage(p)' = "paid"
      BY <1>5, <2>1 DEF PaymentAccepted, Stage, InFlight
    <2>3. Life!Move(p, "open", "paid")
      BY <2>1, <2>2, LifeMoves
    <2>4. sales[p] > 0
      BY <1>5 DEF PaymentAccepted, LifeInv, PaidSold
    <2>5. Life!Pay(p)
      BY <1>5, <2>3, <2>4 DEF Life!Pay, PaymentAccepted, serverVars, histVars
    <2>6. QED
      BY <2>5 DEF Life!Next
  <1>6. CASE PaymentRejected(p)
    <2>1. call[p].pc \in {"posting", "posted"} /\ call'[p].pc = "rejected"
          /\ \A q \in Payments \ {p} : Stage(q)' = Stage(q)
      BY <1>1, <1>2, <1>6 DEF PaymentRejected, ErrorResponse, queueVars
    <2>2. Stage(p) = "open" /\ Stage(p)' = "refused"
      BY <2>1 DEF Stage, InFlight
    <2>3. Life!Move(p, "open", "refused")
      BY <2>1, <2>2, LifeMoves
    <2>4. Doubted' \in {Doubted, Doubted \cup {p}} /\ (call[p].pc = "posted" => p \in Doubted')
      BY <1>6 DEF PaymentRejected, ErrorResponse, Doubted
    <2>5. sales[p] > 0 => call[p].pc = "posted"
      BY <1>0, <2>1 DEF CartInv, RejectedUnsold
    <2>6. Life!Refuse(p)
      BY <1>6, <2>3, <2>4, <2>5 DEF Life!Refuse, PaymentRejected, serverVars, Doubted
    <2>7. QED
      BY <2>6 DEF Life!Next
  <1>7. CASE PaymentUnanswered(p)
    <2>1. /\ call[p].pc \in {"posting", "posted"} /\ call'[p].pc = "enqueueing"
          /\ \A q \in Payments \ {p} : Stage(q)' = Stage(q)
      BY <1>1, <1>2, <1>7 DEF PaymentUnanswered, LoseAnswer
    <2>2. Stage(p)' = Stage(p)
      BY <2>1 DEF Stage, InFlight
    <2>3. \A q \in Payments : Stage(q)' = Stage(q)
      BY <2>1, <2>2
    <2>4. Doubted' = Doubted \cup {} \/ Doubted' = Doubted \cup {p}
      BY <1>7 DEF PaymentUnanswered, LoseAnswer, Doubted
    <2>5. /\ {} \in SUBSET Payments /\ {p} \in SUBSET Payments
          /\ \A q \in {p} : call[q].pc \in InFlight \cup Queued
      BY <2>1 DEF InFlight
    <2>6. UNCHANGED <<sales, discarded, cutOff>>
      BY <1>7 DEF PaymentUnanswered
    <2>7. CASE Doubted' = Doubted \cup {}
      BY <2>3, <2>5, <2>6, <2>7, LifeDoubts
    <2>8. CASE Doubted' = Doubted \cup {p}
      BY <2>3, <2>5, <2>6, <2>8, LifeDoubts
    <2>9. QED
      BY <2>4, <2>7, <2>8
  <1>8. CASE EnqueuePayment(p)
    <2>1. call[p].pc = "enqueueing"
      BY <1>0, <1>8, EnqueuePaymentQueue
    <2>2. /\ call'[p].pc = "patching" /\ mem'[p] = "due"
          /\ \A q \in Payments \ {p} : call'[q] = call[q] /\ mem'[q] = mem[q]
      BY <1>0, <1>1, <1>8 DEF EnqueuePayment, QueueType
    <2>3. Stage(p) = "open" /\ Stage(p)' = "queued"
      BY <2>1, <2>2 DEF Stage, InFlight
    <2>4. Life!Move(p, "open", "queued")
      BY <1>2, <2>2, <2>3, LifeMoves
    <2>5. Life!Queue(p)
      BY <1>8, <2>4 DEF Life!Queue, EnqueuePayment, serverVars, histVars
    <2>6. QED
      BY <2>5 DEF Life!Next
  <1>9. CASE ParkPayment(p)
    <2>1. call[p].pc = "patching"
      BY <1>0, <1>9, ParkPaymentQueue
    <2>2. /\ call'[p].pc = "parked" /\ \A q \in Payments \ {p} : call'[q] = call[q]
          /\ \A q \in Payments : mem'[q] = "none" <=> mem[q] = "none"
      BY <1>0, <1>1, <1>9, CommitPatchQueue DEF ParkPayment
    <2>3. Stage(p)' = Stage(p)
      BY <2>1, <2>2 DEF Stage, InFlight
    <2>4. \A q \in Payments : Stage(q)' = Stage(q)
      BY <2>2, <2>3, StageStays
    <2>5. Doubted' = Doubted \cup {} /\ UNCHANGED <<sales, discarded, cutOff>>
      BY <1>9 DEF ParkPayment, serverVars, histVars, Doubted
    <2>6. {} \in SUBSET Payments /\ \A q \in {} : call[q].pc \in InFlight \cup Queued
      OBVIOUS
    <2>7. QED
      BY <2>4, <2>5, <2>6, LifeDoubts
  <1>10. QED
    BY <1>3, <1>4, <1>5, <1>6, <1>7, <1>8, <1>9

LEMMA HeldByLoop ==
  ASSUME LifeInv, NEW r \in Runs, run[r].pc \notin {"idle", "retrying"}
  PROVE  run[r].cur \in Payments /\ call[run[r].cur].pc \in Queued
  BY TypeParts DEF LifeInv, RunShape, QueueInv, HoldPhase, Holds

\* The server, on behalf of a run or of a sender that is gone.
LEMMA ServerInLife ==
  ASSUME LifeInv, (\E r \in Runs : CommitRun(r)) \/ (\E p \in Payments : CommitOrphan(p))
  PROVE  Life!Next
  <1>0. TypeInv /\ QueueInv /\ SaleInv /\ CartInv /\ CountType
    BY TypeParts DEF LifeInv
  <1>1. ASSUME NEW r \in Runs, CommitRun(r) PROVE Life!Next
    <2> DEFINE p == run[r].cur
    <2>1. p \in Payments /\ call[p].pc \in Queued
      BY <1>1, HeldByLoop DEF CommitRun
    <2>2. p \notin Doubted => Total(p) = 0
      BY <1>0, <1>1, <2>1, PostingUnsold DEF CommitRun, SaleInv, Doubted
    <2>3. p \notin Doubted => sales[p] = 0
      BY <1>0, <2>1, <2>2 DEF Total, CountType
    <2>4. \A q \in Payments : Stage(q)' = Stage(q)
      BY <1>1, StageStays DEF CommitRun, queueVars
    <2>5. Commit(p) /\ UNCHANGED <<mem, histVars>>
      BY <1>1 DEF CommitRun, queueVars
    <2>6. call[p].pc \notin {"unused", "rejected"}
      BY <2>1 DEF Queued
    <2> HIDE DEF p
    <2>7. QED
      BY <2>1, <2>3, <2>4, <2>5, <2>6, LifeSells
  <1>2. ASSUME NEW p \in Payments, CommitOrphan(p) PROVE Life!Next
    <2>1. orphans[p] > 0 /\ orphans[p] \in Nat /\ sales[p] \in Nat
      BY <1>0, <1>2 DEF CommitOrphan, CountType
    <2>2. call[p].pc # "unused" /\ (call[p].pc = "rejected" => p \in ambiguous)
      BY <1>0, <2>1 DEF CartInv, RejectedUnsold
    <2>3. p \notin Doubted => Total(p) \in {0, 1}
      BY <1>0 DEF SaleInv, SellOnce, Doubted
    <2>4. p \notin Doubted => sales[p] = 0
      BY <2>1, <2>3 DEF Total
    <2>5. \A q \in Payments : Stage(q)' = Stage(q)
      BY <1>2, StageStays DEF CommitOrphan, queueVars
    <2>6. Commit(p) /\ UNCHANGED <<mem, histVars>>
      BY <1>2 DEF CommitOrphan, queueVars
    <2>7. QED
      BY <2>2, <2>4, <2>5, <2>6, LifeSells DEF Doubted
  <1>3. QED
    BY <1>1, <1>2

\* A run answers for its payment, or takes its snapshot: the page may be in doubt.
LEMMA RunsInLife ==
  ASSUME LifeInv, NEW r \in Runs,
         \/ SyncQueuedPayments(r) \/ SyncAccepted(r) \/ SyncSettled(r) \/ SyncConflict(r)
         \/ SyncServerError(r) \/ SyncRefused(r) \/ SyncUnanswered(r) \/ SyncMarked(r)
         \/ RetryMarked(r) \/ \E p \in Payments : RetryQueuedPayment(r, p)
  PROVE  Life!Next
  <1>0. TypeInv /\ QueueInv /\ QueueType
    BY TypeParts DEF LifeInv
  <1>1. ASSUME NEW due \in SUBSET Payments, TakeSnapshot(r, due),
               \A p \in due : mem[p] # "none", call' = call,
               \A p \in Payments : mem'[p] = "none" <=> mem[p] = "none",
               UNCHANGED <<sales, discarded, cutOff, ambiguous>>
        PROVE  Life!Next
    <2> DEFINE S == {p \in due : \E o \in Runs \ {r} : Holds(o, p)}
    <2>1. \A p \in S : call[p].pc \in InFlight \cup Queued
      BY <1>0, <1>1 DEF QueueInv, QueuePhase
    <2>2. Doubted' = Doubted \cup S
      BY <1>1 DEF TakeSnapshot, Doubted
    <2>3. \A p \in Payments : Stage(p)' = Stage(p)
      BY <1>1, StageStays
    <2>4. S \in SUBSET Payments /\ UNCHANGED <<sales, discarded, cutOff>>
      BY <1>1
    <2> HIDE DEF S
    <2>5. QED
      BY <2>1, <2>2, <2>3, <2>4, LifeDoubts
  <1>2. DueIn(mem) \in SUBSET Payments /\ \A p \in DueIn(mem) : mem[p] # "none"
    BY DEF DueIn
  <1>3. CASE SyncQueuedPayments(r)
    BY <1>1, <1>2, <1>3 DEF SyncQueuedPayments, queueVars, serverVars
  <1>4. CASE SyncAccepted(r)
    BY <1>4, LifeRests DEF SyncAccepted, queueVars, serverVars, histVars
  <1>5. CASE SyncSettled(r)
    BY <1>5, LifeRests DEF SyncSettled, CommitDelete, serverVars, histVars
  <1>6. ASSUME NEW s \in RecordStates, NEW p \in Payments, ApplyPatch(r, p, s)
        PROVE  \A q \in Payments : mem'[q] = "none" <=> mem[q] = "none"
    BY <1>0, <1>6 DEF ApplyPatch, Patched, QueueType, RecordStates
  <1>7. ASSUME NEW s \in RecordStates, NEW pc, Mark(r, s, pc),
               run[r].pc \notin {"idle", "retrying"},
               ambiguous' \in {ambiguous, ambiguous \cup {run[r].cur}}
        PROVE  Life!Next
    <2> DEFINE p == run[r].cur
    <2>1. p \in Payments /\ call[p].pc \in Queued
      BY <1>7, HeldByLoop
    <2>2. \A q \in Payments : mem'[q] = "none" <=> mem[q] = "none"
      BY <1>6, <1>7, <2>1 DEF Mark
    <2>3. \A q \in Payments : Stage(q)' = Stage(q)
      BY <1>7, <2>2, StageStays DEF Mark
    <2>4. UNCHANGED <<sales, discarded, cutOff>>
      BY <1>7 DEF Mark
    <2>5. Doubted' = Doubted \cup {} \/ Doubted' = Doubted \cup {p}
      BY <1>7 DEF Mark, Doubted
    <2>6. /\ {} \in SUBSET Payments /\ {p} \in SUBSET Payments
          /\ \A q \in {p} : call[q].pc \in InFlight \cup Queued
      BY <2>1
    <2> HIDE DEF p
    <2>7. CASE Doubted' = Doubted \cup {}
      BY <2>3, <2>4, <2>6, <2>7, LifeDoubts
    <2>8. CASE Doubted' = Doubted \cup {p}
      BY <2>3, <2>4, <2>6, <2>8, LifeDoubts
    <2>9. QED
      BY <2>5, <2>7, <2>8
  <1>8. CASE SyncConflict(r)
    BY <1>7, <1>8 DEF SyncConflict, RecordStates
  <1>9. CASE SyncServerError(r)
    BY <1>7, <1>9 DEF SyncServerError, ErrorResponse, RecordStates
  <1>10. CASE SyncRefused(r)
    BY <1>7, <1>10 DEF SyncRefused, RecordStates
  <1>11. CASE SyncUnanswered(r)
    BY <1>7, <1>11 DEF SyncUnanswered, LoseAnswer, RecordStates
  <1>12. CASE SyncMarked(r)
    <2>1. \A q \in Payments : mem'[q] = "none" <=> mem[q] = "none"
      BY <1>0, <1>12, CommitPatchQueue DEF SyncMarked
    <2>2. QED
      BY <1>12, <2>1, LifeRests DEF SyncMarked, serverVars, histVars
  <1>13. CASE RetryMarked(r)
    <2>1. \A q \in Payments : mem'[q] = "none" <=> mem[q] = "none"
      BY <1>0, <1>13, CommitPatchQueue DEF RetryMarked
    <2>2. call' = call /\ UNCHANGED <<sales, discarded, cutOff, ambiguous>>
      BY <1>13 DEF RetryMarked, serverVars
    <2>3. DueIn(mem') \in SUBSET Payments /\ \A p \in DueIn(mem') : mem[p] # "none"
      BY <2>1 DEF DueIn
    <2>4. CASE TakeSnapshot(r, DueIn(mem'))
      BY <1>1, <2>1, <2>2, <2>3, <2>4
    <2>5. CASE contended' = contended
      BY <2>1, <2>2, <2>5, LifeRests
    <2>6. QED
      BY <1>13, <2>4, <2>5 DEF RetryMarked
  <1>14. ASSUME NEW p \in Payments, RetryQueuedPayment(r, p) PROVE Life!Next
    <2>1. \A q \in Payments : mem'[q] = "none" <=> mem[q] = "none"
      BY <1>6, <1>14 DEF RetryQueuedPayment, RecordStates
    <2>2. QED
      BY <1>14, <2>1, LifeRests DEF RetryQueuedPayment, serverVars, histVars
  <1>15. QED
    BY <1>3, <1>4, <1>5, <1>8, <1>9, <1>10, <1>11, <1>12, <1>13, <1>14

\* A run takes out what it has sold.
LEMMA SettledInLife ==
  ASSUME LifeInv, NEW r \in Runs, SyncRemove(r)
  PROVE  Life!Next
  <1>0. TypeInv /\ QueueInv /\ QueueType
    BY TypeParts DEF LifeInv
  <1>1. PICK p \in Payments : p = run[r].cur /\ call[p].pc \in Queued
    BY HeldByLoop DEF SyncRemove
  <1>2. sales[p] > 0
    BY <1>0, <1>1 DEF SyncRemove, QueueInv, SoldPhase, Sold
  <1>3. mem' = [mem EXCEPT ![p] = "none"] /\ call' = call
    BY <1>1 DEF SyncRemove, RemoveInternal
  <1>4. UNCHANGED <<sales, discarded, cutOff, ambiguous, contended>>
    BY DEF SyncRemove, serverVars, histVars
  <1>5. mem'[p] = "none" /\ \A q \in Payments \ {p} : mem'[q] = mem[q]
    BY <1>0, <1>1, <1>3 DEF QueueType
  <1>6. CASE mem[p] = "none"
    <2>1. \A q \in Payments : mem'[q] = "none" <=> mem[q] = "none"
      BY <1>5, <1>6
    <2>2. QED
      BY <1>3, <1>4, <2>1, LifeRests
  <1>7. CASE mem[p] # "none"
    <2>1. Stage(p) = "queued"
      BY <1>0, <1>1, <1>7, StageCases
    <2>2. Stage(p)' = "left"
      BY <1>1, <1>3, <1>5 DEF Stage, Queued, InFlight
    <2>3. \A q \in Payments \ {p} : Stage(q)' = Stage(q)
      BY <1>3, <1>5, StageStays
    <2>4. Life!Move(p, "queued", "left")
      BY <1>1, <2>1, <2>2, <2>3, LifeMoves
    <2>5. Life!Settle(p)
      BY <1>2, <1>4, <2>4 DEF Life!Settle
    <2>6. QED
      BY <1>1, <2>5 DEF Life!Next
  <1>8. QED
    BY <1>6, <1>7

\* Payments that have not ended are dropped, and the page is told of no others.
LEMMA LifeDrops ==
  ASSUME LifeInv, NEW lost \in SUBSET Payments,
         \A p \in lost : Stage(p) \in {"open", "queued", "left"} /\ Stage(p)' = "left",
         \A p \in Payments \ lost : Stage(p)' = Stage(p),
         Dropped' = Dropped \cup lost, UNCHANGED <<sales, ambiguous, contended>>
  PROVE  Life!Next
  <1>1. [p \in Payments |-> Stage(p)]'
          = [p \in Payments |-> IF p \in lost THEN "left" ELSE Stage(p)]
    OBVIOUS
  <1>2. Life!Drop(lost)
    BY <1>1 DEF Life!Drop, Dropped
  <1>3. QED
    BY <1>2 DEF Life!Next

LEMMA DropsInLife ==
  ASSUME LifeInv, \/ Initialize \/ Reload \/ \E p \in Payments : RemoveQueuedPayment(p)
  PROVE  Life!Next
  <1>0. TypeInv /\ QueueInv /\ QueueType /\ call \in CallType
    BY TypeParts DEF LifeInv
  <1>1. ASSUME NEW lost \in SUBSET Payments, call' = call,
               \A p \in lost : mem[p] # "none" /\ mem'[p] = "none",
               \A p \in Payments \ lost : mem'[p] = "none" <=> mem[p] = "none",
               Dropped' = Dropped \cup lost, UNCHANGED <<sales, ambiguous, contended>>
        PROVE  Life!Next
    <2>1. \A p \in lost : Stage(p) = "queued" /\ call[p].pc \in Queued
      BY <1>0, <1>1, StageCases DEF QueueInv, QueuePhase
    <2>2. \A p \in lost : Stage(p)' = "left"
      BY <1>1, <2>1 DEF Stage, Queued, InFlight
    <2>3. \A p \in Payments \ lost : Stage(p)' = Stage(p)
      BY <1>1, StageStays
    <2>4. QED
      BY <1>1, <2>1, <2>2, <2>3, LifeDrops
  <1>2. ASSUME NEW p \in Payments, RemoveQueuedPayment(p) PROVE Life!Next
    <2>1. /\ mem[p] # "none" /\ mem'[p] = "none"
          /\ \A q \in Payments \ {p} : mem'[q] = mem[q]
      BY <1>0, <1>2 DEF RemoveQueuedPayment, RemoveInternal, QueueType
    <2>2. call' = call /\ Dropped' = Dropped \cup {p} /\ UNCHANGED <<sales, ambiguous, contended>>
      BY <1>2 DEF RemoveQueuedPayment, Dropped, serverVars
    <2>3. QED
      BY <1>1, <2>1, <2>2
  <1>3. CASE Initialize
    <2> DEFINE lost == {p \in Payments : mem[p] # "none"}
    <2>1. /\ \A p \in lost : mem[p] # "none" /\ mem'[p] = "none"
          /\ \A p \in Payments \ lost : mem'[p] = "none" <=> mem[p] = "none"
      BY <1>3 DEF Initialize, ListQueuedPayments
    <2>2. /\ call' = call /\ Dropped' = Dropped \cup lost /\ lost \in SUBSET Payments
          /\ UNCHANGED <<sales, ambiguous, contended>>
      BY <1>3 DEF Initialize, Dropped, serverVars
    <2> HIDE DEF lost
    <2>3. QED
      BY <1>1, <2>1, <2>2
  <1>4. CASE Reload
    <2> DEFINE lost == {p \in Payments : mem[p] # "none"
                                         \/ call[p].pc \in InFlight \cup {"patching"}}
    <2>1. \A p \in lost : call[p].pc \in InFlight \cup Queued
      BY <1>0 DEF QueueInv, QueuePhase, Queued
    <2>2. \A p \in lost : Stage(p) \in {"open", "queued", "left"}
      BY <1>0, <2>1, StageCases
    <2>3. \A p \in Payments : call[p].pc \in InFlight \cup Queued => call'[p].pc = "gone"
      BY <1>0, <1>4 DEF Reload, CallType, Queued
    <2>4. \A p \in Payments : mem'[p] = "none"
      BY <1>4 DEF Reload
    <2>5. ASSUME NEW p \in Payments, call'[p].pc = "gone" PROVE Stage(p)' = "left"
      BY <2>4, <2>5 DEF Stage, InFlight
    <2>6. \A p \in lost : Stage(p)' = "left"
      BY <2>1, <2>3, <2>5
    <2>7. ASSUME NEW p \in Payments \ lost PROVE Stage(p)' = Stage(p)
      <3>1. mem[p] = "none" /\ call[p].pc \notin InFlight \cup {"patching"}
        BY <2>7
      <3>2. CASE call[p].pc = "parked"
        <4>1. Stage(p) = "left"
          BY <1>0, <3>1, <3>2, StageCases DEF Queued
        <4>2. QED
          BY <2>3, <2>5, <3>2, <4>1 DEF Queued
      <3>3. CASE call[p].pc # "parked"
        <4>1. call'[p].pc = call[p].pc
          BY <1>0, <1>4, <3>1, <3>3 DEF Reload, CallType
        <4>2. QED
          BY <2>4, <3>1, <4>1, StageStays
      <3>4. QED
        BY <3>2, <3>3
    <2>8. /\ Dropped' = Dropped \cup lost /\ lost \in SUBSET Payments
          /\ UNCHANGED <<sales, ambiguous, contended>>
      BY <1>4 DEF Reload, Dropped
    <2> HIDE DEF lost
    <2>9. QED
      BY <2>2, <2>6, <2>7, <2>8, LifeDrops
  <1>5. QED
    BY <1>2, <1>3, <1>4

\* The cart, the clock and the removals of records that are gone from the page.
LEMMA RestInLife ==
  ASSUME LifeInv,
         \/ \E s \in Scans : AddToCart(s) \/ RemoveFromCart(s)
         \/ ClearCart \/ ApplyRemoteSale
         \/ \E p \in Payments : RemovalDone(p) \/ BackoffElapses(p) \/ ClearCachedCart(p)
         \/ \E items \in syncs : SyncCart(items)
  PROVE  Life!Next
  <1>1. call' = call /\ UNCHANGED <<sales, discarded, cutOff, ambiguous, contended>>
    BY DEF AddToCart, RemoveFromCart, ClearCart, ApplyRemoteSale, RemovalDone, BackoffElapses,
       ClearCachedCart, SyncCart, serverVars, histVars
  <1>2. \A p \in Payments : mem'[p] = "none" <=> mem[p] = "none"
    <2>1. ASSUME NEW p \in Payments, BackoffElapses(p)
          PROVE  \A q \in Payments : mem'[q] = "none" <=> mem[q] = "none"
      BY <2>1, TypeParts DEF BackoffElapses, LifeInv, QueueType
    <2>2. QED
      BY <2>1 DEF AddToCart, RemoveFromCart, ClearCart, ApplyRemoteSale, RemovalDone,
         CommitDelete, ClearCachedCart, SyncCart, queueVars
  <1>3. QED
    BY <1>1, <1>2, LifeRests

\* Whatever payments, runs, retries, patches, reloads, lost answers and late requests
\* cross each other, the queue implements PaymentLife: no payment is settled unsold or
\* comes back, and a lost answer or an overlap is behind every second sale, and behind
\* every sale of a payment the cashier was told is refused.
THEOREM QueueKeepsItsPromises == Spec => ImplementsPaymentLife
  <1>1. LifeInv /\ LifeInv' /\ [Next]_vars => [Life!Next]_(Life!vars)
    <2>1. SUFFICES ASSUME LifeInv, LifeInv', [Next]_vars PROVE [Life!Next]_(Life!vars)
      OBVIOUS
    <2>2. CASE UNCHANGED vars
      BY <2>2 DEF vars, queueVars, serverVars, histVars, Life!vars, Stage
    <2>3. CASE Next
      BY <2>1, <2>3, CallsInLife, ServerInLife, RunsInLife, SettledInLife, DropsInLife, RestInLife
      DEF Next, Operate, Disturb, RunStep, CallStep
    <2>4. QED
      BY <2>1, <2>2, <2>3
  <1>2. QED
    BY <1>1, LifeInit, LifeInvariant, PTL DEF Spec, ImplementsPaymentLife, Life!Spec

=============================================================================
