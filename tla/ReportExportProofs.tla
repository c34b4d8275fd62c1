------------------------- MODULE ReportExportProofs -------------------------
(***************************************************************************)
(* Proofs about ReportExport for any number of reports, requests and       *)
(* passes: its types, one worker per report, announcements, and that it    *)
(* implements ReportJob.                                                   *)
(***************************************************************************)
EXTENDS ReportExport, FiniteSetTheorems, TLAPS

RequestType == [pc : {"idle", "creating", "reviving", "addressing"},
                report : Reports \cup {NoReport}, to : Asked]
PassType == [pc : {"idle", "claiming"} \cup Working,
             report : Reports \cup {NoReport}, rest : SUBSET Reports,
             to : Asked]

\* Who does something does it for a report.
Shape ==
  /\ \A c \in Requests : request[c].pc # "idle" => request[c].report \in Reports
  /\ \A p \in Passes : pass[p].pc # "idle" => pass[p].report \in Reports
  /\ \A p \in Passes : pass[p].pc = "mailing" => pass[p].to \in Addresses

TypeInv == TypeOK /\ Shape

-----------------------------------------------------------------------------
\* A pass that moves on works on nothing; the other passes stay as they are.
LEMMA MoveOnLeaves ==
  ASSUME TypeOK, NEW p \in Passes, NEW rows \in SUBSET Reports, MoveOn(p, rows)
  PROVE  /\ pass' \in [Passes -> PassType]
         /\ \A q \in Passes \ {p} : pass'[q] = pass[q]
         /\ pass'[p].pc \in {"idle", "claiming"}
         /\ pass'[p].pc # "idle" => pass'[p].report \in Reports
<1>1. CASE rows = {} /\ pass' = [pass EXCEPT ![p] = IdlePass]
  BY <1>1 DEF TypeOK, PassType, IdlePass, Asked
<1>2. ASSUME NEW r \in rows,
             pass' = [pass EXCEPT ![p] =
                        [pc |-> "claiming", report |-> r, rest |-> rows \ {r},
                         to |-> Nobody]]
      PROVE  /\ pass' \in [Passes -> PassType]
             /\ \A q \in Passes \ {p} : pass'[q] = pass[q]
             /\ pass'[p].pc \in {"idle", "claiming"}
             /\ pass'[p].pc # "idle" => pass'[p].report \in Reports
  BY <1>2 DEF TypeOK, PassType, Asked
<1>3. QED BY <1>1, <1>2 DEF MoveOn

LEMMA OldestReports == Oldest(Pending) \in SUBSET Reports
BY DEF Oldest, Pending

\* What a step of a pass leaves behind if only its own record changes.
LEMMA PassFrame ==
  ASSUME TypeInv, NEW p \in Passes, pass' \in [Passes -> PassType],
         \A q \in Passes \ {p} : pass'[q] = pass[q],
         pass'[p].pc # "idle" => pass'[p].report \in Reports,
         pass'[p].pc = "mailing" => pass'[p].to \in Addresses,
         status' \in [Reports -> Status \cup {"none"}],
         told' \in [Reports -> SUBSET Addresses],
         unsent' \subseteq Reports, abandoned' \subseteq Reports, faults' \in Nat,
         UNCHANGED <<address, created, request, requests, crossed, late>>
  PROVE  TypeInv'
BY DEF TypeInv, TypeOK, Shape, PassType

LEMMA CountIsNat ==
  ASSUME NEW S \in SUBSET Reports
  PROVE  Cardinality(S) \in Nat
BY FS_CardinalityType, FS_Subset, ExportAssumption

-----------------------------------------------------------------------------
LEMMA TypeInit == Init => TypeInv
BY ExportAssumption DEF Init, TypeInv, TypeOK, Shape, IdleRequest, IdlePass, Asked

\* A request that is answered or begun keeps types and shape.
LEMMA RequestFrame ==
  ASSUME TypeInv, NEW c \in Requests, NEW q \in RequestType,
         request' = [request EXCEPT ![c] = q],
         q.pc # "idle" => q.report \in Reports,
         status' \in [Reports -> Status \cup {"none"}],
         address' \in [Reports -> Asked],
         created' \in [Reports -> Nat],
         requests' \in Nat, crossed' \subseteq Reports, late' \subseteq Reports,
         UNCHANGED <<pass, told, faults, unsent, abandoned>>
  PROVE  TypeInv'
BY DEF TypeInv, TypeOK, Shape, RequestType

LEMMA BeginTypes ==
  ASSUME TypeInv, NEW c \in Requests, NEW r \in Reports, NEW a \in Asked,
         NEW pc \in {"creating", "reviving", "addressing"}, Begin(c, pc, r, a),
         crossed' \subseteq Reports,
         UNCHANGED <<status, address, created, pass, told, faults, late, unsent,
                     abandoned>>
  PROVE  TypeInv'
<1> DEFINE q == [pc |-> pc, report |-> r, to |-> a]
<1>1. q \in RequestType /\ q.report \in Reports
  BY DEF RequestType
<1>2. request' = [request EXCEPT ![c] = q] /\ requests' \in Nat
  BY DEF Begin, TypeInv, TypeOK
<1>3. /\ status' \in [Reports -> Status \cup {"none"}]
      /\ address' \in [Reports -> Asked] /\ created' \in [Reports -> Nat]
      /\ late' \subseteq Reports
  BY DEF TypeInv, TypeOK
<1> HIDE DEF q
<1>4. QED BY <1>1, <1>2, <1>3, RequestFrame

LEMMA RequestTypes ==
  ASSUME TypeInv, NEW c \in Requests, RequestStep(c)
  PROVE  TypeInv'
<1> USE DEF rowVars, boundVars, histVars
<1>1. IdleRequest \in RequestType /\ IdleRequest.pc = "idle"
  BY DEF IdleRequest, RequestType, Asked
<1>2. ASSUME NEW r \in Reports, NEW a \in Asked, Enqueue(c, r, a)
      PROVE  TypeInv'
  <2>1. RevivedAddress(r, a) \in Asked
    BY DEF RevivedAddress, TypeInv, TypeOK
  <2>2. \E pc \in {"creating", "reviving", "addressing"}, b \in Asked :
          Begin(c, pc, r, b)
    BY <1>2, <2>1 DEF Enqueue
  <2>3. crossed' \subseteq Reports
    BY <1>2 DEF Enqueue, TypeInv, TypeOK
  <2>4. QED
    BY <1>2, <2>2, <2>3, BeginTypes DEF Enqueue
<1>3. ASSUME NEW r \in Reports, ScheduleDailyExports(c, r)
      PROVE  TypeInv'
  BY <1>3, BeginTypes DEF ScheduleDailyExports, TypeInv, TypeOK, Asked
<1>4. CASE CreateExport(c)
  <2> DEFINE r == request[c].report
  <2>1. 1 + Cardinality({q \in Reports : status[q] # "none"}) \in Nat
    BY CountIsNat
  <2>2. request[c].to \in Asked
    BY DEF TypeInv, TypeOK
  <2>3. /\ status' \in [Reports -> Status \cup {"none"}]
        /\ address' \in [Reports -> Asked] /\ created' \in [Reports -> Nat]
    BY <1>4, <2>1, <2>2 DEF CreateExport, TypeInv, TypeOK, Status
  <2>4. QED
    BY <1>1, <1>4, <2>3, RequestFrame DEF CreateExport, Answered, TypeInv, TypeOK
<1>5. CASE ReviveExport(c)
  <2>1. /\ status' \in [Reports -> Status \cup {"none"}]
        /\ address' \in [Reports -> Asked]
    BY <1>5 DEF ReviveExport, TypeInv, TypeOK, Status
  <2>2. QED
    BY <1>1, <1>5, <2>1, RequestFrame DEF ReviveExport, Answered, TypeInv, TypeOK
<1>6. CASE SetAddress(c)
  <2>1. address' \in [Reports -> Asked] /\ late' \subseteq Reports
    BY <1>6 DEF SetAddress, TypeInv, TypeOK, Shape
  <2>2. QED
    BY <1>1, <1>6, <2>1, RequestFrame DEF SetAddress, Answered, TypeInv, TypeOK
<1>7. CASE RequestFails(c)
  BY <1>1, <1>7, RequestFrame DEF RequestFails, Answered, TypeInv, TypeOK
<1>8. QED BY <1>2, <1>3, <1>4, <1>5, <1>6, <1>7 DEF RequestStep

\* What a step of a pass does to the passes, by action.
PassEffect(p) == LET r == pass[p].report IN
  /\ pass' \in [Passes -> PassType]
  /\ \A q \in Passes \ {p} : pass'[q] = pass[q]
  /\ pass'[p].pc # "idle" => pass'[p].report \in Reports
  /\ pass'[p].pc \in Working => pass'[p].report = r /\ pass[p].pc # "idle"
  /\ Claim(p) /\ status[r] = "PENDING" => pass'[p].pc = "generating"
  /\ GenerateExport(p) /\ address[r] # Nobody
       => pass'[p].pc = "mailing" /\ pass'[p].to = address[r]
  /\ GenerationFails(p) \/ MailUnreachable(p) => pass'[p].pc = "failing"
  /\ \/ ProcessQueue(p)
     \/ Claim(p) /\ status[r] # "PENDING"
     \/ GenerateExport(p) /\ address[r] = Nobody
     \/ MailSent(p) \/ MailRefused(p) \/ MailHangs(p)
     \/ MarkFailed(p) \/ PassFails(p)
     => pass'[p].pc \notin Working
  /\ pass'[p].pc = "mailing" => GenerateExport(p) /\ address[r] # Nobody

LEMMA PassEffects ==
  ASSUME TypeInv, NEW p \in Passes,
         ProcessQueue(p) \/ PassStep(p) \/ PassFails(p)
  PROVE  PassEffect(p)
<1> DEFINE r == pass[p].report
<1> USE DEF Working
<1>1. pass \in [Passes -> PassType] /\ pass[p].rest \in SUBSET Reports
  BY DEF TypeInv, TypeOK, PassType
<1>2. pass[p].pc # "idle" => r \in Reports
  BY DEF TypeInv, Shape
<1>3. ASSUME NEW rows \in SUBSET Reports, MoveOn(p, rows)
      PROVE  /\ pass' \in [Passes -> PassType]
             /\ \A q \in Passes \ {p} : pass'[q] = pass[q]
             /\ pass'[p].pc \in {"idle", "claiming"}
             /\ pass'[p].pc # "idle" => pass'[p].report \in Reports
  BY <1>3, MoveOnLeaves DEF TypeInv
<1>4. CASE ProcessQueue(p)
  BY <1>3, <1>4, OldestReports
     DEF ProcessQueue, PassEffect, Claim, GenerateExport, GenerationFails,
         MailUnreachable
<1>5. CASE Claim(p)
  <2>1. CASE status[r] = "PENDING"
    <3>1. pass' = [pass EXCEPT ![p].pc = "generating"]
      BY <1>5, <2>1 DEF Claim
    <3>2. QED
      BY <1>1, <1>2, <1>5, <2>1, <3>1
         DEF PassEffect, PassType, Claim, ProcessQueue, GenerateExport,
             GenerationFails, MailSent, MailRefused, MailHangs, MailUnreachable,
             MarkFailed, PassFails, IdlePass
  <2>2. CASE status[r] # "PENDING"
    BY <1>1, <1>3, <1>5, <2>2
       DEF PassEffect, Claim, GenerateExport, GenerationFails, MailUnreachable
  <2>3. QED BY <2>1, <2>2
<1>6. CASE GenerateExport(p)
  <2>1. CASE address[r] = Nobody
    <3>1. MoveOn(p, pass[p].rest) /\ pass[p].pc = "generating"
      BY <1>6, <2>1 DEF GenerateExport
    <3>2. ~Claim(p) /\ ~MailUnreachable(p)
      BY <3>1 DEF Claim, MailUnreachable
    <3>3. ~GenerationFails(p)
      BY <1>1, <1>3, <3>1 DEF GenerationFails, PassType
    <3>4. QED
      BY <1>1, <1>3, <1>6, <2>1, <3>1, <3>2, <3>3 DEF PassEffect
  <2>2. CASE address[r] # Nobody
    <3>1. /\ pass' = [pass EXCEPT ![p].pc = "mailing", ![p].to = address[r]]
          /\ pass[p].pc = "generating"
      BY <1>6, <2>2 DEF GenerateExport
    <3>2. address[r] \in Asked
      BY <1>2, <3>1 DEF TypeInv, TypeOK
    <3>3. /\ pass' \in [Passes -> PassType]
          /\ \A q \in Passes \ {p} : pass'[q] = pass[q]
          /\ pass'[p].pc = "mailing" /\ pass'[p].to = address[r]
          /\ pass'[p].report = r
      BY <1>1, <3>1, <3>2 DEF PassType
    <3>4. ~GenerationFails(p)
      BY <1>1, <3>3 DEF GenerationFails, PassType
    <3>5. QED
      BY <1>2, <1>6, <2>2, <3>1, <3>3, <3>4
         DEF PassEffect, Claim, ProcessQueue, MailSent,
             MailRefused, MailHangs, MailUnreachable, MarkFailed, PassFails
  <2>3. QED BY <2>1, <2>2
<1>7. CASE GenerationFails(p) \/ MailUnreachable(p)
  <2>1. /\ pass' = [pass EXCEPT ![p].pc = "failing"]
        /\ pass[p].pc \in {"generating", "mailing"}
    BY <1>7 DEF GenerationFails, MailUnreachable
  <2>2. /\ pass' \in [Passes -> PassType]
        /\ \A q \in Passes \ {p} : pass'[q] = pass[q]
        /\ pass'[p].pc = "failing" /\ pass'[p].report = r
    BY <1>1, <2>1 DEF PassType
  <2>3. \A rows \in SUBSET Reports : ~MoveOn(p, rows)
    BY <1>3, <2>2
  <2>4. pass' # [pass EXCEPT ![p] = IdlePass]
    BY <1>1, <2>2 DEF IdlePass
  <2>5. ~GenerateExport(p) \/ address[r] # Nobody
    BY <1>1, <2>3 DEF GenerateExport
  <2>6. ~(GenerateExport(p) /\ address[r] # Nobody)
    BY <1>1, <2>2 DEF GenerateExport, PassType
  <2>7. QED
    BY <1>1, <1>2, <2>1, <2>2, <2>3, <2>4, <2>5, <2>6
       DEF PassEffect, Claim, ProcessQueue, MailSent, MailRefused, MailHangs,
           MarkFailed, PassFails
<1>8. CASE MailSent(p) \/ MailRefused(p) \/ MarkFailed(p)
  <2>1. MoveOn(p, pass[p].rest) /\ pass[p].pc \in {"mailing", "failing"}
    BY <1>8 DEF MailSent, MailRefused, MarkFailed
  <2>2. QED
    BY <1>1, <1>3, <2>1
       DEF PassEffect, Claim, GenerateExport, GenerationFails, MailUnreachable,
           PassType
<1>9. CASE MailHangs(p) \/ PassFails(p)
  <2>1. pass' = [pass EXCEPT ![p] = IdlePass] /\ pass[p].pc # "generating"
    BY <1>9 DEF MailHangs, PassFails
  <2>2. /\ pass' \in [Passes -> PassType]
        /\ \A q \in Passes \ {p} : pass'[q] = pass[q]
        /\ pass'[p].pc = "idle"
    BY <1>1, <2>1 DEF PassType, IdlePass, Asked
  <2>3. ~(Claim(p) /\ status[r] = "PENDING") /\ ~MailUnreachable(p)
    BY <1>1, <2>2 DEF Claim, MailUnreachable, PassType
  <2>4. QED
    BY <2>1, <2>2, <2>3 DEF PassEffect, GenerateExport, GenerationFails
<1>10. QED
  BY <1>4, <1>5, <1>6, <1>7, <1>8, <1>9 DEF PassStep

LEMMA PassTypes ==
  ASSUME TypeInv, NEW p \in Passes,
         ProcessQueue(p) \/ PassStep(p) \/ PassFails(p)
  PROVE  TypeInv'
<1> USE DEF rowVars, boundVars, histVars
<1> DEFINE r == pass[p].report
<1>1. PassEffect(p)
  BY PassEffects
<1>2. pass[p].pc # "idle" => r \in Reports
  BY DEF TypeInv, Shape
<1>3. /\ pass[p].pc = "mailing" => pass[p].to \in Addresses
      /\ r \in Reports /\ address[r] # Nobody => address[r] \in Addresses
  BY DEF TypeInv, TypeOK, Shape, Asked
<1>4. pass'[p].pc = "mailing" => pass'[p].to \in Addresses
  BY <1>1, <1>2, <1>3 DEF PassEffect, GenerateExport
<1>5. status' \in [Reports -> Status \cup {"none"}]
  BY DEF PassStep, ProcessQueue, Claim, GenerateExport, GenerationFails, MailSent,
         MailRefused, MailHangs, MailUnreachable, MarkFailed, PassFails, TypeInv,
         TypeOK, Status
<1>6. /\ told' \in [Reports -> SUBSET Addresses]
      /\ unsent' \subseteq Reports /\ abandoned' \subseteq Reports
      /\ faults' \in Nat
  BY <1>2, <1>3
     DEF PassStep, ProcessQueue, Claim, GenerateExport, GenerationFails, MailSent,
         MailRefused, MailHangs, MailUnreachable, MarkFailed, PassFails, TypeInv,
         TypeOK
<1>7. UNCHANGED <<address, created, request, requests, crossed, late>>
  BY DEF PassStep, ProcessQueue, Claim, GenerateExport, GenerationFails, MailSent,
         MailRefused, MailHangs, MailUnreachable, MarkFailed, PassFails
<1>8. QED
  BY <1>1, <1>4, <1>5, <1>6, <1>7, PassFrame DEF PassEffect

LEMMA CrashTypes == TypeInv /\ Crash => TypeInv'
BY DEF Crash, TypeInv, TypeOK, Shape, IdlePass, IdleRequest, Asked, rowVars

LEMMA TypeStep == TypeInv /\ [Next]_vars => TypeInv'
<1> SUFFICES ASSUME TypeInv, [Next]_vars
             PROVE  TypeInv'
  OBVIOUS
<1>1. CASE UNCHANGED vars
  BY <1>1 DEF vars, rowVars, boundVars, histVars, TypeInv, TypeOK, Shape
<1>2. CASE Next
  BY <1>2, RequestTypes, PassTypes, CrashTypes DEF Next
<1>3. QED BY <1>1, <1>2

\* Every variable keeps its type: requests and passes are always about a report,
\* and a mail always goes to an address.
THEOREM TypeCorrect == Spec => []TypeOK
<1>1. Spec => []TypeInv
  BY TypeInit, TypeStep, PTL DEF Spec
<1>2. TypeInv => TypeOK
  BY DEF TypeInv
<1>3. QED BY <1>1, <1>2, PTL

-----------------------------------------------------------------------------
(* One worker per report *)

\* The row of a report that no two requests were about to revive at once is as
\* its worker left it, and a request that revives it still finds it FAILED.
WorkOf(r) ==
  /\ \A p, q \in WorkersOf(r) : p = q
  /\ status[r] \notin {"PROCESSING", "READY"} => WorkersOf(r) = {}
  /\ \A p \in WorkersOf(r) :
       /\ pass[p].pc = "generating" => status[r] = "PROCESSING"
       /\ pass[p].pc = "mailing" => status[r] = "READY"
  /\ \A c \in Reviving(r) : status[r] = "FAILED"
  /\ \A c, d \in Reviving(r) : c = d

WorkInv == \A r \in Reports \ crossed : WorkOf(r)

LEMMA WorkFrame ==
  ASSUME NEW r, WorkOf(r), status'[r] = status[r],
         \A p \in Passes :
           pass'[p].report = r /\ pass'[p].pc \in Working
             => /\ pass[p].report = r /\ pass[p].pc \in Working
                /\ pass'[p].pc \in {pass[p].pc, "failing"},
         \A c \in Requests :
           request'[c].pc = "reviving" /\ request'[c].report = r
             => request[c].pc = "reviving" /\ request[c].report = r
  PROVE  WorkOf(r)'
BY DEF WorkOf, WorkersOf, Reviving, Working

\* A request that is begun or answered touches its own record only.
LEMMA RequestEffect ==
  ASSUME TypeInv, NEW c \in Requests, RequestStep(c)
  PROVE  /\ \A d \in Requests \ {c} : request'[d] = request[d]
         /\ \/ request'[c].pc = "idle"
            \/ \E r \in Reports, a \in Asked :
                 /\ Enqueue(c, r, a) /\ status[r] = "FAILED"
                 /\ request'[c].pc = "reviving" /\ request'[c].report = r
            \/ request'[c].pc \in {"creating", "addressing"}
<1> DEFINE Goal ==
      /\ \A d \in Requests \ {c} : request'[d] = request[d]
      /\ \/ request'[c].pc = "idle"
         \/ \E r \in Reports, a \in Asked :
              /\ Enqueue(c, r, a) /\ status[r] = "FAILED"
              /\ request'[c].pc = "reviving" /\ request'[c].report = r
         \/ request'[c].pc \in {"creating", "addressing"}
<1>1. ASSUME NEW pc, NEW r, NEW a, Begin(c, pc, r, a)
      PROVE  /\ \A d \in Requests \ {c} : request'[d] = request[d]
             /\ request'[c].pc = pc /\ request'[c].report = r
  BY <1>1 DEF Begin, TypeInv, TypeOK
<1>2. ASSUME NEW r \in Reports, NEW a \in Asked, Enqueue(c, r, a)
      PROVE  Goal
  <2>1. CASE status[r] = "FAILED"
    <3>1. Begin(c, "reviving", r, RevivedAddress(r, a))
      BY <1>2, <2>1 DEF Enqueue
    <3>2. QED
      BY <1>1, <1>2, <2>1, <3>1
  <2>2. CASE status[r] # "FAILED"
    <3>1. Begin(c, "creating", r, a) \/ Begin(c, "addressing", r, a)
      BY <1>2, <2>2 DEF Enqueue
    <3>2. QED
      BY <1>1, <3>1
  <2>3. QED BY <2>1, <2>2
<1>3. ASSUME NEW r \in Reports, ScheduleDailyExports(c, r)
      PROVE  Goal
  BY <1>1, <1>3 DEF ScheduleDailyExports
<1>4. CASE Answered(c)
  BY <1>4 DEF Answered, IdleRequest, TypeInv, TypeOK
<1>5. QED
  BY <1>2, <1>3, <1>4
     DEF RequestStep, CreateExport, ReviveExport, SetAddress, RequestFails

LEMMA WorkRequest ==
  ASSUME TypeInv, WorkInv, NEW c \in Requests, RequestStep(c)
  PROVE  WorkInv'
<1> USE DEF rowVars, boundVars, histVars
<1> SUFFICES ASSUME NEW r \in Reports, r \notin crossed'
             PROVE  WorkOf(r)'
  BY DEF WorkInv
<1>1. /\ \A d \in Requests \ {c} : request'[d] = request[d]
      /\ \/ request'[c].pc = "idle"
         \/ \E q \in Reports, a \in Asked :
              /\ Enqueue(c, q, a) /\ status[q] = "FAILED"
              /\ request'[c].pc = "reviving" /\ request'[c].report = q
         \/ request'[c].pc \in {"creating", "addressing"}
  BY RequestEffect
<1>2. crossed \subseteq crossed' /\ pass' = pass
  BY DEF RequestStep, Enqueue, ScheduleDailyExports, CreateExport, ReviveExport,
         SetAddress, RequestFails
<1>3. WorkOf(r)
  BY <1>2 DEF WorkInv
<1>4. ASSUME NEW a \in Asked, Enqueue(c, r, a), status[r] = "FAILED"
      PROVE  WorkOf(r)'
  <2>1. Reviving(r) = {} /\ status' = status
    BY <1>4 DEF Enqueue
  <2>2. Reviving(r)' \subseteq {c}
    BY <1>1, <2>1 DEF Reviving
  <2>3. QED
    BY <1>2, <1>3, <1>4, <2>1, <2>2 DEF WorkOf, WorkersOf
<1>5. CASE \A d \in Requests :
             request'[d].pc = "reviving" /\ request'[d].report = r
               => request[d].pc = "reviving" /\ request[d].report = r
  <2>1. CASE status'[r] = status[r]
    BY <1>2, <1>3, <1>5, <2>1, WorkFrame
  <2>2. CASE CreateExport(c) /\ request[c].report = r /\ status[r] = "none"
    <3>1. status'[r] = "PENDING"
      BY <2>2 DEF CreateExport, TypeInv, TypeOK
    <3>2. WorkersOf(r) = {} /\ Reviving(r) = {}
      BY <1>3, <2>2 DEF WorkOf
    <3>3. WorkersOf(r)' = {} /\ Reviving(r)' = {}
      BY <1>2, <1>5, <3>2 DEF WorkersOf, Reviving
    <3>4. QED BY <3>1, <3>3 DEF WorkOf
  <2>3. CASE ReviveExport(c) /\ request[c].report = r
    <3>1. status'[r] = "PENDING"
      BY <2>3 DEF ReviveExport, TypeInv, TypeOK
    <3>2. c \in Reviving(r)
      BY <2>3 DEF ReviveExport, Reviving
    <3>3. WorkersOf(r) = {} /\ Reviving(r) = {c}
      BY <1>3, <3>2 DEF WorkOf
    <3>4. request'[c].pc = "idle"
      BY <2>3 DEF ReviveExport, Answered, IdleRequest, TypeInv, TypeOK
    <3>5. WorkersOf(r)' = {} /\ Reviving(r)' = {}
      BY <1>1, <1>2, <3>3, <3>4 DEF WorkersOf, Reviving
    <3>6. QED BY <3>1, <3>5 DEF WorkOf
  <2>4. \/ status'[r] = status[r]
        \/ CreateExport(c) /\ request[c].report = r /\ status[r] = "none"
        \/ ReviveExport(c) /\ request[c].report = r
    BY DEF RequestStep, Enqueue, ScheduleDailyExports, CreateExport, ReviveExport,
           SetAddress, RequestFails, TypeInv, TypeOK
  <2>5. QED BY <2>1, <2>2, <2>3, <2>4
<1>6. QED BY <1>1, <1>4, <1>5

\* The workers of every report after a step of a pass.
LEMMA WorkersAfter ==
  ASSUME TypeInv, NEW p \in Passes, PassEffect(p), NEW r \in Reports
  PROVE  /\ pass[p].report # r => WorkersOf(r)' = WorkersOf(r)
         /\ pass[p].report = r /\ pass'[p].pc \in Working
              => WorkersOf(r)' = WorkersOf(r) \cup {p}
         /\ pass'[p].pc \notin Working => WorkersOf(r)' = WorkersOf(r) \ {p}
BY DEF PassEffect, WorkersOf

LEMMA WorkPass ==
  ASSUME TypeInv, WorkInv, NEW p \in Passes,
         ProcessQueue(p) \/ PassStep(p) \/ PassFails(p)
  PROVE  WorkInv'
<1> USE DEF rowVars, boundVars, histVars
<1>1. PassEffect(p)
  BY PassEffects
<1>2. request' = request /\ crossed' = crossed
  BY DEF PassStep, ProcessQueue, Claim, GenerateExport, GenerationFails, MailSent,
         MailRefused, MailHangs, MailUnreachable, MarkFailed, PassFails
<1> SUFFICES ASSUME NEW r \in Reports, r \notin crossed
             PROVE  WorkOf(r)'
  BY <1>2 DEF WorkInv
<1>3. WorkOf(r)
  BY DEF WorkInv
<1>4. CASE pass[p].report # r
  <2>1. status'[r] = status[r]
    BY <1>4
       DEF PassStep, ProcessQueue, Claim, GenerateExport, GenerationFails, MailSent,
           MailRefused, MailHangs, MailUnreachable, MarkFailed, PassFails, TypeInv,
           TypeOK
  <2>2. QED
    BY <1>1, <1>2, <1>3, <1>4, <2>1, WorkFrame DEF PassEffect
<1>5. CASE pass[p].report = r
  <2>1. CASE Claim(p) /\ status[r] = "PENDING"
    <3>1. WorkersOf(r) = {} /\ Reviving(r) = {}
      BY <1>3, <2>1 DEF WorkOf
    <3>2. status'[r] = "PROCESSING" /\ pass'[p].pc = "generating"
      BY <1>1, <1>5, <2>1 DEF Claim, PassEffect, TypeInv, TypeOK
    <3>3. WorkersOf(r)' = {p} /\ Reviving(r)' = {}
      BY <1>1, <1>2, <1>5, <3>1, <3>2, WorkersAfter DEF Working, Reviving
    <3>4. QED BY <3>2, <3>3 DEF WorkOf
  <2>2. CASE GenerateExport(p)
    <3>1. p \in WorkersOf(r)
      BY <1>5, <2>2 DEF GenerateExport, WorkersOf, Working
    <3>2. WorkersOf(r) = {p} /\ status[r] \in {"PROCESSING", "READY"}
      BY <1>3, <3>1 DEF WorkOf
    <3>3. Reviving(r) = {} /\ Reviving(r)' = {}
      BY <1>2, <1>3, <3>2 DEF WorkOf, Reviving
    <3>4. status'[r] = "READY"
      BY <1>5, <2>2 DEF GenerateExport, TypeInv, TypeOK
    <3>5. pass'[p].pc # "generating"
      BY <1>1, <1>5, <2>2 DEF PassEffect, Working
    <3>6. WorkersOf(r)' \subseteq {p}
      BY <1>1, <1>5, <3>2, WorkersAfter
    <3>7. QED BY <3>3, <3>4, <3>5, <3>6 DEF WorkOf
  <2>3. CASE MarkFailed(p)
    <3>1. p \in WorkersOf(r)
      BY <1>5, <2>3 DEF MarkFailed, WorkersOf, Working
    <3>2. WorkersOf(r) = {p} /\ status[r] \in {"PROCESSING", "READY"}
      BY <1>3, <3>1 DEF WorkOf
    <3>3. Reviving(r)' = {}
      BY <1>2, <1>3, <3>2 DEF WorkOf, Reviving
    <3>4. status'[r] = "FAILED"
      BY <1>5, <2>3 DEF MarkFailed, TypeInv, TypeOK
    <3>5. WorkersOf(r)' = {}
      BY <1>1, <2>3, <3>2, WorkersAfter DEF PassEffect
    <3>6. QED BY <3>3, <3>4, <3>5 DEF WorkOf
  <2>4. CASE GenerationFails(p) \/ MailUnreachable(p)
    <3>1. pass'[p].pc = "failing" /\ pass[p].pc \in Working /\ status' = status
      BY <1>1, <2>4 DEF PassEffect, GenerationFails, MailUnreachable, Working
    <3>2. QED
      BY <1>1, <1>2, <1>3, <1>5, <3>1, WorkFrame DEF PassEffect
  <2>5. CASE /\ pass'[p].pc \notin Working
             /\ status' = status
    BY <1>1, <1>2, <1>3, <2>5, WorkFrame DEF PassEffect
  <2>6. QED
    BY <1>1, <1>5, <2>1, <2>2, <2>3, <2>4, <2>5
       DEF PassEffect, PassStep, ProcessQueue, Claim, MailSent, MailRefused,
           MailHangs, PassFails
<1>6. QED BY <1>4, <1>5

LEMMA WorkCrash == TypeInv /\ WorkInv /\ Crash => WorkInv'
BY WorkFrame
   DEF Crash, WorkInv, IdlePass, IdleRequest, Working, rowVars

LEMMA WorkStep == TypeInv /\ WorkInv /\ [Next]_vars => WorkInv'
<1> SUFFICES ASSUME TypeInv, WorkInv, [Next]_vars
             PROVE  WorkInv'
  OBVIOUS
<1>1. CASE UNCHANGED vars
  BY <1>1 DEF vars, rowVars, histVars, WorkInv, WorkOf, WorkersOf, Reviving
<1>2. CASE Next
  BY <1>2, WorkRequest, WorkPass, WorkCrash DEF Next
<1>3. QED BY <1>1, <1>2

LEMMA WorkInit == Init => WorkInv
BY DEF Init, WorkInv, WorkOf, WorkersOf, Reviving, IdlePass, IdleRequest, Working

\* Passes that overlap never work on one report together, unless two requests
\* were about to revive it at once.
THEOREM OneWorker == Spec => []OneWorkerPerReport
<1>1. Spec => [](TypeInv /\ WorkInv)
  BY TypeInit, TypeStep, WorkInit, WorkStep, PTL DEF Spec
<1>2. WorkInv => OneWorkerPerReport
  BY DEF WorkInv, WorkOf, OneWorkerPerReport
<1>3. QED BY <1>1, <1>2, PTL

-----------------------------------------------------------------------------
(* Announcements *)

\* A report that is READY and not excepted has been announced to the address in
\* its row, or is about to be, or the attempt has failed and it is about to fail.
ToBeTold(r) ==
  \E p \in WorkersOf(r) :
    pass[p].pc = "failing" \/ (pass[p].pc = "mailing" /\ pass[p].to = address[r])

ToldOf(r) ==
  status[r] = "READY" /\ address[r] # Nobody
    => address[r] \in told[r] \/ ToBeTold(r)

ToldInv == \A r \in Reports \ (late \cup unsent \cup abandoned) : ToldOf(r)

LEMMA ToldRequest ==
  ASSUME TypeInv, ToldInv, NEW c \in Requests, RequestStep(c)
  PROVE  ToldInv'
<1> USE DEF rowVars, boundVars, histVars
<1>1. /\ pass' = pass /\ told' = told /\ late \subseteq late'
      /\ unsent' = unsent /\ abandoned' = abandoned
  BY DEF RequestStep, Enqueue, ScheduleDailyExports, CreateExport, ReviveExport,
         SetAddress, RequestFails
<1> SUFFICES ASSUME NEW r \in Reports, r \notin late' \cup unsent \cup abandoned
             PROVE  ToldOf(r)'
  BY <1>1 DEF ToldInv
<1>2. ToldOf(r)
  BY <1>1 DEF ToldInv
<1>3. \/ status'[r] # "READY"
      \/ status'[r] = status[r] /\ address'[r] = address[r]
  BY <1>1
     DEF RequestStep, Enqueue, ScheduleDailyExports, CreateExport, ReviveExport,
         SetAddress, RequestFails, TypeInv, TypeOK
<1>4. QED
  BY <1>1, <1>2, <1>3 DEF ToldOf, ToBeTold, WorkersOf

LEMMA ToldPass ==
  ASSUME TypeInv, ToldInv, NEW p \in Passes,
         ProcessQueue(p) \/ PassStep(p) \/ PassFails(p)
  PROVE  ToldInv'
<1> USE DEF rowVars, boundVars, histVars
<1>1. PassEffect(p)
  BY PassEffects
<1>2. /\ address' = address /\ late' = late
      /\ unsent \subseteq unsent' /\ abandoned \subseteq abandoned'
  BY DEF PassStep, ProcessQueue, Claim, GenerateExport, GenerationFails, MailSent,
         MailRefused, MailHangs, MailUnreachable, MarkFailed, PassFails
<1> SUFFICES ASSUME NEW r \in Reports, r \notin late \cup unsent' \cup abandoned'
             PROVE  ToldOf(r)'
  BY <1>2 DEF ToldInv
<1>3. ToldOf(r)
  BY <1>2 DEF ToldInv
<1>4. told[r] \subseteq told'[r]
  BY DEF PassStep, ProcessQueue, Claim, GenerateExport, GenerationFails, MailSent,
         MailRefused, MailHangs, MailUnreachable, MarkFailed, PassFails, TypeInv,
         TypeOK
<1>5. CASE pass[p].report # r
  <2>1. status'[r] = status[r]
    BY <1>5
       DEF PassStep, ProcessQueue, Claim, GenerateExport, GenerationFails, MailSent,
           MailRefused, MailHangs, MailUnreachable, MarkFailed, PassFails, TypeInv,
           TypeOK
  <2>2. ToBeTold(r) => ToBeTold(r)'
    BY <1>1, <1>2, <1>5 DEF ToBeTold, WorkersOf, PassEffect
  <2>3. QED BY <1>2, <1>3, <1>4, <2>1, <2>2 DEF ToldOf
<1>6. CASE pass[p].report = r
  <2>1. CASE GenerateExport(p)
    <3>1. CASE address[r] = Nobody
      BY <1>2, <3>1 DEF ToldOf
    <3>2. CASE address[r] # Nobody
      BY <1>1, <1>2, <1>6, <2>1, <3>2
         DEF PassEffect, ToldOf, ToBeTold, WorkersOf, Working
    <3>3. QED BY <3>1, <3>2
  <2>2. CASE Claim(p) \/ MarkFailed(p)
    <3>1. CASE Claim(p) /\ status[r] # "PENDING"
      <4>1. status' = status /\ pass[p].pc = "claiming"
        BY <1>6, <3>1 DEF Claim
      <4>2. ToBeTold(r) => ToBeTold(r)'
        BY <1>1, <1>2, <4>1 DEF ToBeTold, WorkersOf, PassEffect, Working
      <4>3. QED BY <1>2, <1>3, <1>4, <4>1, <4>2 DEF ToldOf
    <3>2. CASE ~(Claim(p) /\ status[r] # "PENDING")
      <4>1. status'[r] # "READY"
        BY <1>6, <2>2, <3>2 DEF Claim, MarkFailed, TypeInv, TypeOK
      <4>2. QED BY <4>1 DEF ToldOf
    <3>3. QED BY <3>1, <3>2
  <2>3. CASE ProcessQueue(p)
    <3>1. status' = status /\ pass[p].pc = "idle"
      BY <2>3 DEF ProcessQueue
    <3>2. ToBeTold(r) => ToBeTold(r)'
      BY <1>1, <1>2, <3>1 DEF ToBeTold, WorkersOf, PassEffect, Working
    <3>3. QED BY <1>2, <1>3, <1>4, <3>1, <3>2 DEF ToldOf
  <2>4. CASE GenerationFails(p) \/ MailUnreachable(p)
    <3>1. status' = status /\ pass'[p].pc = "failing" /\ pass'[p].report = r
      BY <1>1, <1>6, <2>4
         DEF GenerationFails, MailUnreachable, PassEffect, Working
    <3>2. p \in WorkersOf(r)'
      BY <3>1 DEF WorkersOf, Working
    <3>3. QED BY <3>1, <3>2 DEF ToldOf, ToBeTold
  <2>5. CASE MailSent(p)
    <3>1. status' = status /\ pass[p].to \in told'[r] /\ pass[p].pc = "mailing"
      BY <1>6, <2>5 DEF MailSent, TypeInv, TypeOK
    <3>2. ToBeTold(r) => ToBeTold(r)' \/ address[r] \in told'[r]
      BY <1>1, <1>2, <3>1 DEF ToBeTold, WorkersOf, PassEffect
    <3>3. QED BY <1>2, <1>3, <1>4, <3>1, <3>2 DEF ToldOf
  <2>6. CASE MailRefused(p) \/ MailHangs(p)
    <3>1. r \in unsent'
      BY <1>6, <2>6 DEF MailRefused, MailHangs
    <3>2. QED BY <3>1
  <2>7. CASE PassFails(p)
    <3>1. status' = status /\ pass[p].pc = "claiming"
      BY <1>6, <2>7 DEF PassFails
    <3>2. ToBeTold(r) => ToBeTold(r)'
      BY <1>1, <1>2, <3>1 DEF ToBeTold, WorkersOf, PassEffect, Working
    <3>3. QED BY <1>2, <1>3, <1>4, <3>1, <3>2 DEF ToldOf
  <2>8. QED
    BY <2>1, <2>2, <2>3, <2>4, <2>5, <2>6, <2>7 DEF PassStep
<1>7. QED BY <1>5, <1>6

LEMMA ToldCrash == TypeInv /\ ToldInv /\ Crash => ToldInv'
BY DEF Crash, ToldInv, ToldOf, ToBeTold, rowVars

LEMMA ToldStep == TypeInv /\ ToldInv /\ [Next]_vars => ToldInv'
<1> SUFFICES ASSUME TypeInv, ToldInv, [Next]_vars
             PROVE  ToldInv'
  OBVIOUS
<1>1. CASE UNCHANGED vars
  BY <1>1 DEF vars, rowVars, histVars, ToldInv, ToldOf, ToBeTold, WorkersOf
<1>2. CASE Next
  BY <1>2, ToldRequest, ToldPass, ToldCrash DEF Next
<1>3. QED BY <1>1, <1>2

LEMMA ToldInit == Init => ToldInv
BY DEF Init, ToldInv, ToldOf

\* A report that is READY and left alone has been announced to the address in its
\* row, also if that was set while the report was being generated.
THEOREM Announced == Spec => []ReadyIsAnnounced
<1>1. Spec => [](TypeInv /\ ToldInv)
  BY TypeInit, TypeStep, ToldInit, ToldStep, PTL DEF Spec
<1>2. ToldInv => ReadyIsAnnounced
  BY DEF ToldInv, ToldOf, ToBeTold, ReadyIsAnnounced
<1>3. QED BY <1>1, <1>2, PTL

-----------------------------------------------------------------------------
(* The queue implements ReportJob *)

LEMMA LifeIsState == \A s \in Status \cup {"none"} : Life(s) \in Job!State
BY DEF Life, Status, Job!State

\* A step that concerns one report changes that report's job only.
LEMMA JobChange ==
  ASSUME NEW r \in Reports, crossed' = crossed,
         \A q \in Reports \ {r} :
           status'[q] = status[q] /\ WorkersOf(q)' = WorkersOf(q)
  PROVE  Job!Change(r, jobState'[r], jobWorker'[r])
<1>1. jobState' = [jobState EXCEPT ![r] = jobState'[r]]
  BY DEF jobState
<1>2. jobWorker' = [jobWorker EXCEPT ![r] = jobWorker'[r]]
  BY DEF jobWorker, WorkersOf
<1>3. QED BY <1>1, <1>2 DEF Job!Change

LEMMA JobStutter ==
  ASSUME \A q \in Reports : status'[q] = status[q] /\ WorkersOf(q)' = WorkersOf(q),
         crossed' = crossed
  PROVE  UNCHANGED Job!vars
BY DEF Job!vars, jobState, jobWorker, WorkersOf

\* Of a report that two requests were about to revive nothing is asked.
LEMMA JobUnpromised ==
  ASSUME TypeInv', NEW r \in crossed, r \in Reports, crossed' = crossed,
         \A q \in Reports \ {r} :
           status'[q] = status[q] /\ WorkersOf(q)' = WorkersOf(q)
  PROVE  Job!Next
<1>1. Job!Change(r, jobState'[r], jobWorker'[r])
  BY JobChange
<1>2. jobState'[r] \in Job!State /\ jobWorker'[r] \in SUBSET Passes
  BY LifeIsState DEF TypeInv, TypeOK, WorkersOf, jobState, jobWorker
<1>3. Job!Unpromised(r)
  BY <1>1, <1>2 DEF Job!Unpromised
<1>4. QED BY <1>3 DEF Job!Next

LEMMA JobRequest ==
  ASSUME TypeInv, TypeInv', WorkInv, NEW c \in Requests, RequestStep(c)
  PROVE  Job!Next \/ UNCHANGED Job!vars
<1> USE DEF rowVars, boundVars, histVars
<1>1. \A q \in Reports : WorkersOf(q)' = WorkersOf(q)
  BY DEF WorkersOf, RequestStep, Enqueue, ScheduleDailyExports, CreateExport,
         ReviveExport, SetAddress, RequestFails
<1>2. ASSUME NEW r \in Reports, NEW a \in Asked, Enqueue(c, r, a)
      PROVE  Job!Next \/ UNCHANGED Job!vars
  <2>1. status' = status /\ (crossed' = crossed \/ crossed' = crossed \cup {r})
    BY <1>2 DEF Enqueue
  <2>2. CASE crossed' = crossed
    BY <1>1, <2>1, <2>2, JobStutter
  <2>3. CASE crossed' = crossed \cup {r}
    BY <1>1, <2>1, <2>3 DEF Job!Next, Job!Race, jobState, jobWorker, WorkersOf
  <2>4. QED BY <2>1, <2>2, <2>3
<1>3. ASSUME NEW r \in Reports, status[r] \in {"none", "FAILED"},
             r \notin crossed => WorkersOf(r) = {},
             status' = [status EXCEPT ![r] = "PENDING"], crossed' = crossed
      PROVE  Job!Next
  <2>1. /\ status'[r] = "PENDING"
        /\ \A q \in Reports \ {r} : status'[q] = status[q]
    BY <1>3 DEF TypeInv, TypeOK
  <2>2. CASE r \in crossed
    BY <1>1, <1>3, <2>1, <2>2, JobUnpromised
  <2>3. CASE r \notin crossed
    <3>1. jobState'[r] = "pending" /\ jobWorker'[r] = {}
      BY <1>1, <1>3, <2>1, <2>3 DEF jobState, jobWorker, WorkersOf, Life
    <3>2. Job!Change(r, "pending", {})
      BY <1>1, <1>3, <2>1, <3>1, JobChange
    <3>3. Job!Request(r)
      BY <1>3, <2>3, <3>2 DEF Job!Request, Life, jobState, jobWorker, WorkersOf
    <3>4. QED BY <3>3 DEF Job!Next
  <2>4. QED BY <2>2, <2>3
<1>4. CASE CreateExport(c)
  <2> DEFINE r == request[c].report
  <2>1. r \in Reports /\ crossed' = crossed
    BY <1>4 DEF CreateExport, TypeInv, Shape
  <2>2. CASE status[r] = "none"
    BY <1>3, <1>4, <2>1, <2>2 DEF CreateExport, WorkInv, WorkOf
  <2>3. CASE status[r] # "none"
    BY <1>1, <1>4, <2>1, <2>3, JobStutter DEF CreateExport
  <2>4. QED BY <2>2, <2>3
<1>5. CASE ReviveExport(c)
  <2> DEFINE r == request[c].report
  <2>1. r \in Reports /\ crossed' = crossed /\ c \in Reviving(r)
    BY <1>5 DEF ReviveExport, TypeInv, Shape, Reviving
  <2>2. CASE r \in crossed
    <3>1. \A q \in Reports \ {r} : status'[q] = status[q]
      BY <1>5 DEF ReviveExport, TypeInv, TypeOK
    <3>2. QED BY <1>1, <2>1, <2>2, <3>1, JobUnpromised
  <2>3. CASE r \notin crossed
    <3>1. status[r] = "FAILED" /\ WorkersOf(r) = {}
      BY <2>1, <2>3 DEF WorkInv, WorkOf
    <3>2. QED BY <1>3, <1>5, <2>1, <3>1 DEF ReviveExport
  <2>4. QED BY <2>2, <2>3
<1>6. CASE SetAddress(c) \/ RequestFails(c)
  BY <1>1, <1>6, JobStutter DEF SetAddress, RequestFails
<1>7. ASSUME NEW r \in Reports, ScheduleDailyExports(c, r)
      PROVE  UNCHANGED Job!vars
  BY <1>1, <1>7, JobStutter DEF ScheduleDailyExports
<1>8. QED BY <1>2, <1>4, <1>5, <1>6, <1>7 DEF RequestStep

LEMMA JobPass ==
  ASSUME TypeInv, TypeInv', WorkInv, NEW p \in Passes, NEW r, r = pass[p].report,
         ProcessQueue(p) \/ PassStep(p) \/ PassFails(p)
  PROVE  Job!Next \/ UNCHANGED Job!vars
<1> USE DEF rowVars, boundVars, histVars
<1>1. PassEffect(p)
  BY PassEffects
<1>2. crossed' = crossed
  BY DEF PassStep, ProcessQueue, Claim, GenerateExport, GenerationFails, MailSent,
         MailRefused, MailHangs, MailUnreachable, MarkFailed, PassFails
<1>3. \A q \in Reports \ {r} :
        status'[q] = status[q] /\ WorkersOf(q)' = WorkersOf(q)
  <2>1. \A q \in Reports \ {r} : status'[q] = status[q]
    BY DEF PassStep, ProcessQueue, Claim, GenerateExport, GenerationFails, MailSent,
           MailRefused, MailHangs, MailUnreachable, MarkFailed, PassFails, TypeInv,
           TypeOK
  <2>2. QED BY <1>1, <2>1, WorkersAfter
<1>4. CASE r \in crossed /\ r \in Reports
  BY <1>2, <1>3, <1>4, JobUnpromised
<1>5. CASE pass[p].pc \notin Working /\ pass'[p].pc \notin Working
  <2>1. status' = status
    BY <1>1, <1>5
       DEF PassStep, ProcessQueue, Claim, GenerateExport, GenerationFails, MailSent,
           MailRefused, MailHangs, MailUnreachable, MarkFailed, PassFails, Working,
           PassEffect
  <2>2. \A q \in Reports : WorkersOf(q)' = WorkersOf(q)
    BY <1>1, <1>5, WorkersAfter DEF WorkersOf
  <2>3. QED BY <1>2, <2>1, <2>2, JobStutter
<1>6. CASE r \notin crossed /\ pass[p].pc \in Working
  <2>1. r \in Reports /\ WorkOf(r)
    BY <1>6 DEF TypeInv, Shape, Working, WorkInv
  <2>2. WorkersOf(r) = {p} /\ status[r] \in {"PROCESSING", "READY"}
    <3>1. p \in WorkersOf(r)
      BY <1>6 DEF WorkersOf
    <3>2. QED BY <2>1, <3>1 DEF WorkOf
  <2>3. Job!Change(r, jobState'[r], jobWorker'[r])
    BY <1>2, <1>3, <2>1, JobChange
  <2>4. CASE GenerateExport(p)
    <3>1. status'[r] = "READY" /\ status[r] = "PROCESSING"
      <4>1. p \in WorkersOf(r) /\ pass[p].pc = "generating"
        BY <2>2, <2>4 DEF GenerateExport
      <4>2. QED
        BY <2>1, <2>4, <4>1 DEF GenerateExport, WorkOf, TypeInv, TypeOK
    <3>2. WorkersOf(r)' \in SUBSET {p}
      BY <1>1, <2>1, <2>2, WorkersAfter
    <3>3. /\ jobState[r] = "working" /\ jobWorker[r] = {p}
          /\ jobState'[r] = "ready" /\ jobWorker'[r] \in SUBSET {p}
      BY <2>1, <2>2, <3>1, <3>2 DEF Life, jobState, jobWorker, WorkersOf
    <3>4. Job!Complete(r, p)
      BY <2>3, <3>3 DEF Job!Complete
    <3>5. QED BY <2>1, <3>4 DEF Job!Next
  <2>5. CASE MarkFailed(p)
    <3>1. status'[r] = "FAILED" /\ WorkersOf(r)' = {}
      BY <1>1, <2>1, <2>2, <2>5, WorkersAfter
         DEF MarkFailed, PassEffect, TypeInv, TypeOK
    <3>2. /\ jobState[r] \in {"working", "ready"} /\ jobWorker[r] = {p}
          /\ jobState'[r] = "failed" /\ jobWorker'[r] = {}
      BY <2>1, <2>2, <3>1 DEF Life, jobState, jobWorker, WorkersOf
    <3>3. Job!Fail(r, p)
      BY <2>3, <3>2 DEF Job!Fail
    <3>4. QED BY <2>1, <3>3 DEF Job!Next
  <2>6. CASE GenerationFails(p) \/ MailUnreachable(p)
    <3>1. status' = status /\ WorkersOf(r)' = WorkersOf(r)
      BY <1>1, <2>1, <2>2, <2>6, WorkersAfter
         DEF GenerationFails, MailUnreachable, PassEffect, Working
    <3>2. QED BY <1>2, <1>3, <3>1, JobStutter
  <2>7. CASE MailSent(p) \/ MailRefused(p) \/ MailHangs(p) \/ PassFails(p)
    <3>1. status' = status /\ WorkersOf(r)' = {}
      BY <1>1, <2>1, <2>2, <2>7, WorkersAfter
         DEF MailSent, MailRefused, MailHangs, PassFails, PassEffect
    <3>2. jobWorker' = [q \in Reports |-> IF q \in {r} THEN {} ELSE jobWorker[q]]
      BY <1>3, <3>1 DEF jobWorker, WorkersOf
    <3>3. jobState' = jobState
      BY <3>1 DEF jobState
    <3>4. Job!Leave
      BY <1>2, <2>1, <3>2, <3>3 DEF Job!Leave
    <3>5. QED BY <3>4 DEF Job!Next
  <2>8. QED
    BY <1>6, <2>4, <2>5, <2>6, <2>7
       DEF PassStep, ProcessQueue, Claim, Working
<1>7. CASE r \notin crossed /\ pass[p].pc \notin Working /\ pass'[p].pc \in Working
  <2>1. Claim(p) /\ status[r] = "PENDING" /\ r \in Reports
    BY <1>1, <1>7
       DEF PassStep, ProcessQueue, Claim, GenerateExport, GenerationFails, MailSent,
           MailRefused, MailHangs, MailUnreachable, MarkFailed, PassFails, Working,
           PassEffect, TypeInv, Shape
  <2>2. WorkersOf(r) = {} /\ WorkersOf(r)' = {p}
    BY <1>1, <1>7, <2>1, WorkersAfter DEF WorkInv, WorkOf, PassEffect
  <2>3. status'[r] = "PROCESSING"
    BY <2>1 DEF Claim, TypeInv, TypeOK
  <2>4. jobState'[r] = "working" /\ jobWorker'[r] = {p}
    BY <2>1, <2>2, <2>3 DEF jobState, jobWorker, WorkersOf, Life
  <2>5. Job!Change(r, "working", {p})
    BY <1>2, <1>3, <2>1, <2>4, JobChange
  <2>6. Job!Begin(r, p)
    BY <2>1, <2>2, <2>5 DEF Job!Begin, Life, jobState, jobWorker, WorkersOf
  <2>7. QED BY <2>1, <2>6 DEF Job!Next
<1>8. pass[p].pc \in Working \/ pass'[p].pc \in Working => r \in Reports
  BY <1>1 DEF TypeInv, Shape, Working, PassEffect
<1>9. QED BY <1>4, <1>5, <1>6, <1>7, <1>8

LEMMA JobCrash == Crash => Job!Next
<1> SUFFICES ASSUME Crash PROVE Job!Next
  OBVIOUS
<1>1. \A q \in Reports : WorkersOf(q)' = {}
  BY DEF Crash, WorkersOf, IdlePass, Working
<1>2. jobWorker' =
        [q \in Reports |-> IF q \in Reports THEN {} ELSE jobWorker[q]]
  BY <1>1 DEF jobWorker, WorkersOf
<1>3. jobState' = jobState /\ crossed' = crossed
  BY DEF Crash, rowVars, jobState
<1>4. Job!Leave
  BY <1>2, <1>3 DEF Job!Leave
<1>5. QED BY <1>4 DEF Job!Next

\* For any number of reports, requests and passes the queue implements the life
\* of a report that ReportJob describes.
THEOREM Implements == Spec => ImplementsReportJob
<1>1. Init => Job!Init
  BY DEF Init, Job!Init, Life, WorkersOf, IdlePass, Working, jobState, jobWorker
<1>2. TypeInv /\ TypeInv' /\ WorkInv /\ [Next]_vars => [Job!Next]_(Job!vars)
  <2> SUFFICES ASSUME TypeInv, TypeInv', WorkInv, [Next]_vars
               PROVE  Job!Next \/ UNCHANGED Job!vars
    OBVIOUS
  <2>1. CASE UNCHANGED vars
    BY <2>1, JobStutter DEF vars, rowVars, histVars, WorkersOf
  <2>2. CASE Next
    BY <2>2, JobRequest, JobPass, JobCrash DEF Next
  <2>3. QED BY <2>1, <2>2
<1>3. Spec => [](TypeInv /\ WorkInv)
  BY TypeInit, TypeStep, WorkInit, WorkStep, PTL DEF Spec
<1>4. QED
  BY <1>1, <1>2, <1>3, PTL DEF Spec, ImplementsReportJob, Job!Spec
=============================================================================
