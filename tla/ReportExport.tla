---------------------------- MODULE ReportExport ----------------------------
(***************************************************************************)
(* Report exports: ReportExportService with the mails it sends.  A report  *)
(* is identified by its fingerprint, that is by type, format and filters.  *)
(*                                                                         *)
(* Requests find or create the row of a report.  Every minute a pass over  *)
(* the queue starts, whether or not an earlier one has ended, claims rows  *)
(* one by one and generates them.  An action is one Prisma call, or the    *)
(* mail, with the code up to the next await; no calls share a transaction. *)
(***************************************************************************)
EXTENDS Naturals, FiniteSets

CONSTANTS
  Reports,      \* fingerprints
  Daily,        \* those of the daily exports, which nobody else asks for
  Requests,     \* requests that may overlap
  Passes,       \* passes over the queue that may overlap
  Addresses,    \* where a report may be announced
  Nobody,       \* no address
  NoReport,     \* "none" in Reports
  Batch,        \* how many rows a pass takes, 3 in the code
  RequestBudget,\* bound on the requests
  FaultBudget   \* bound on crashes and failed Prisma calls

Status == {"PENDING", "PROCESSING", "READY", "FAILED"}

ASSUME ExportAssumption ==
  /\ IsFiniteSet(Reports) /\ Daily \subseteq Reports
  /\ NoReport \notin Reports /\ Nobody \notin Addresses
  /\ Batch \in Nat \ {0} /\ RequestBudget \in Nat /\ FaultBudget \in Nat

VARIABLES
  status,    \* reportExport.status, "none" before the row exists
  address,   \* reportExport.notificationEmail
  created,   \* the rows' order by createdAt
  request,   \* the requests between their look-up and their write
  pass,      \* the passes over the queue
  told,      \* addresses that have received the announcement of a report
  requests, faults, \* budgets used
  crossed,   \* history: reports two requests were about to revive at once
  late,      \* history: reports given an address when they were READY
  unsent,    \* history: reports with an announcement the mail server refused
  abandoned  \* history: reports whose worker died

rowVars   == <<status, address, created>>
boundVars == <<requests, faults>>
histVars  == <<crossed, late, unsent, abandoned>>
vars == <<rowVars, request, pass, told, boundVars, histVars>>

Asked == Addresses \cup {Nobody}

IdleRequest == [pc |-> "idle", report |-> NoReport, to |-> Nobody]
IdlePass    == [pc |-> "idle", report |-> NoReport, rest |-> {}, to |-> Nobody]

\* The passes that work on a report: it is theirs until they have announced it
\* or marked it as failed.
Working    == {"generating", "mailing", "failing"}
WorkersOf(r) == {p \in Passes : pass[p].report = r /\ pass[p].pc \in Working}

Pending == {r \in Reports : status[r] = "PENDING"}

Init ==
  /\ status = [r \in Reports |-> "none"]
  /\ address = [r \in Reports |-> Nobody]
  /\ created = [r \in Reports |-> 0]
  /\ request = [c \in Requests |-> IdleRequest]
  /\ pass = [p \in Passes |-> IdlePass]
  /\ told = [r \in Reports |-> {}]
  /\ requests = 0 /\ faults = 0
  /\ crossed = {} /\ late = {} /\ unsent = {} /\ abandoned = {}

-----------------------------------------------------------------------------
(* POST /reporting/exports and the daily schedule: ensureExport *)

Begin(c, pc, r, a) ==
  /\ request[c].pc = "idle"
  /\ requests < RequestBudget
  /\ requests' = requests + 1
  /\ request' = [request EXCEPT ![c] = [pc |-> pc, report |-> r, to |-> a]]

\* The address a revived row gets: the one of the request, or else the one the
\* row had when it was looked up.
RevivedAddress(r, a) == IF a = Nobody THEN address[r] ELSE a

Reviving(r) == {c \in Requests : /\ request[c].pc = "reviving"
                                 /\ request[c].report = r}

\* Seeded fault: a report that is taking long is started again as well.
Enqueue_Impatient(c, r, a) ==
  /\ r \notin Daily
  /\ \/ status[r] = "none" /\ Begin(c, "creating", r, a) /\ UNCHANGED crossed
     \/ /\ status[r] \in {"FAILED", "PROCESSING"}
        /\ Begin(c, "reviving", r, RevivedAddress(r, a))
        /\ crossed' = IF Reviving(r) = {} THEN crossed ELSE crossed \cup {r}
     \/ /\ status[r] \in {"PENDING", "READY"}
        /\ a \notin {Nobody, address[r]}
        /\ Begin(c, "addressing", r, a) /\ UNCHANGED crossed
  /\ UNCHANGED <<rowVars, pass, told, faults, late, unsent, abandoned>>

\* The row is looked up.  A request for a report that is not FAILED and brings
\* no new address is answered at once and changes nothing.
Enqueue(c, r, a) ==
  /\ r \notin Daily
  /\ \/ status[r] = "none" /\ Begin(c, "creating", r, a) /\ UNCHANGED crossed
     \/ /\ status[r] = "FAILED"
        /\ Begin(c, "reviving", r, RevivedAddress(r, a))
        /\ crossed' = IF Reviving(r) = {} THEN crossed ELSE crossed \cup {r}
     \/ /\ status[r] \in {"PENDING", "PROCESSING", "READY"}
        /\ a \notin {Nobody, address[r]}
        /\ Begin(c, "addressing", r, a) /\ UNCHANGED crossed
  /\ UNCHANGED <<rowVars, pass, told, faults, late, unsent, abandoned>>

\* The fingerprint of a daily export contains the time: it is always new.
ScheduleDailyExports(c, r) ==
  /\ r \in Daily /\ status[r] = "none"
  /\ \A d \in Requests : request[d].report # r
  /\ Begin(c, "creating", r, Nobody)
  /\ UNCHANGED <<rowVars, pass, told, faults, histVars>>

Answered(c) == request' = [request EXCEPT ![c] = IdleRequest]

\* The fingerprint is unique: the insert of a row that exists is refused.
CreateExport(c) == LET r == request[c].report IN
  /\ request[c].pc = "creating"
  /\ IF status[r] = "none"
       THEN /\ status' = [status EXCEPT ![r] = "PENDING"]
            /\ address' = [address EXCEPT ![r] = request[c].to]
            /\ created' = [created EXCEPT ![r] =
                 1 + Cardinality({q \in Reports : status[q] # "none"})]
       ELSE UNCHANGED rowVars
  /\ Answered(c)
  /\ UNCHANGED <<pass, told, boundVars, histVars>>

\* The update does not look at the status again.
ReviveExport(c) == LET r == request[c].report IN
  /\ request[c].pc = "reviving"
  /\ status' = [status EXCEPT ![r] = "PENDING"]
  /\ address' = [address EXCEPT ![r] = request[c].to]
  /\ Answered(c)
  /\ UNCHANGED <<created, pass, told, boundVars, histVars>>

SetAddress(c) == LET r == request[c].report IN
  /\ request[c].pc = "addressing"
  /\ address' = [address EXCEPT ![r] = request[c].to]
  /\ late' = IF status[r] = "READY" THEN late \cup {r} ELSE late
  /\ Answered(c)
  /\ UNCHANGED <<status, created, pass, told, boundVars, crossed, unsent,
                 abandoned>>

\* The write fails; the client gets an error.
RequestFails(c) ==
  /\ request[c].pc # "idle"
  /\ Answered(c)
  /\ UNCHANGED <<rowVars, pass, told, boundVars, histVars>>

-----------------------------------------------------------------------------
(* processPendingExports, started every minute *)

\* The next of the rows a pass has read, oldest first.
MoveOn(p, rows) ==
  \/ rows = {} /\ pass' = [pass EXCEPT ![p] = IdlePass]
  \/ \E r \in rows :
       /\ \A q \in rows : created[r] =< created[q]
       /\ pass' = [pass EXCEPT ![p] =
                     [pc |-> "claiming", report |-> r, rest |-> rows \ {r},
                      to |-> Nobody]]

Oldest(S) ==
  {r \in S : Cardinality({q \in S : created[q] < created[r]}) < Batch}

\* A pass that finds nothing changes nothing.
ProcessQueue(p) ==
  /\ pass[p].pc = "idle" /\ Pending # {}
  /\ MoveOn(p, Oldest(Pending))
  /\ UNCHANGED <<rowVars, request, told, boundVars, histVars>>

\* Seeded fault: an update by id, which takes the row in any state.
Claim_Unconditional(p) == LET r == pass[p].report IN
  /\ pass[p].pc = "claiming"
  /\ status' = [status EXCEPT ![r] = "PROCESSING"]
  /\ pass' = [pass EXCEPT ![p].pc = "generating"]
  /\ UNCHANGED <<address, created, request, told, boundVars, histVars>>

Claim(p) == LET r == pass[p].report IN
  /\ pass[p].pc = "claiming"
  /\ IF status[r] = "PENDING"
       THEN /\ status' = [status EXCEPT ![r] = "PROCESSING"]
            /\ pass' = [pass EXCEPT ![p].pc = "generating"]
       ELSE status' = status /\ MoveOn(p, pass[p].rest)
  /\ UNCHANGED <<address, created, request, told, boundVars, histVars>>

\* Seeded fault: a report is announced only once.
GenerateExport_Once(p) == LET r == pass[p].report IN
  /\ pass[p].pc = "generating"
  /\ status' = [status EXCEPT ![r] = "READY"]
  /\ IF address[r] = Nobody \/ told[r] # {}
       THEN MoveOn(p, pass[p].rest)
       ELSE pass' = [pass EXCEPT ![p].pc = "mailing", ![p].to = address[r]]
  /\ UNCHANGED <<address, created, request, told, boundVars, histVars>>

\* Seeded fault: a mail is sent without a look whether there is an address.
GenerateExport_Unchecked(p) == LET r == pass[p].report IN
  /\ pass[p].pc = "generating"
  /\ status' = [status EXCEPT ![r] = "READY"]
  /\ pass' = [pass EXCEPT ![p].pc = "mailing", ![p].to = address[r]]
  /\ UNCHANGED <<address, created, request, told, boundVars, histVars>>

\* The file is stored, whatever the row's status has become meanwhile; the row
\* the update returns tells whom to write to.
GenerateExport(p) == LET r == pass[p].report IN
  /\ pass[p].pc = "generating"
  /\ status' = [status EXCEPT ![r] = "READY"]
  /\ IF address[r] = Nobody
       THEN MoveOn(p, pass[p].rest)
       ELSE pass' = [pass EXCEPT ![p].pc = "mailing", ![p].to = address[r]]
  /\ UNCHANGED <<address, created, request, told, boundVars, histVars>>

\* Seeded fault: the exception is not caught.
GenerationFails_Uncaught(p) ==
  /\ pass[p].pc = "generating"
  /\ pass' = [pass EXCEPT ![p] = IdlePass]
  /\ UNCHANGED <<rowVars, request, told, boundVars, histVars>>

\* The data cannot be read, rendered or stored.
GenerationFails(p) ==
  /\ pass[p].pc = "generating"
  /\ pass' = [pass EXCEPT ![p].pc = "failing"]
  /\ UNCHANGED <<rowVars, request, told, boundVars, histVars>>

MailSent(p) == LET r == pass[p].report IN
  /\ pass[p].pc = "mailing"
  /\ told' = [told EXCEPT ![r] = @ \cup {pass[p].to}]
  /\ MoveOn(p, pass[p].rest)
  /\ UNCHANGED <<rowVars, request, boundVars, histVars>>

\* An error in the dialogue with the mail server is logged and no more.
MailRefused(p) ==
  /\ pass[p].pc = "mailing"
  /\ unsent' = unsent \cup {pass[p].report}
  /\ MoveOn(p, pass[p].rest)
  /\ UNCHANGED <<rowVars, request, told, boundVars, crossed, late, abandoned>>

\* A server that closes the connection without an answer is waited for without
\* end, and with it the rows the pass has not got to; another pass takes them.
MailHangs(p) ==
  /\ pass[p].pc = "mailing"
  /\ unsent' = unsent \cup {pass[p].report}
  /\ pass' = [pass EXCEPT ![p] = IdlePass]
  /\ UNCHANGED <<rowVars, request, told, boundVars, crossed, late, abandoned>>

\* No connection to the mail server: the export fails, though it is READY.
MailUnreachable(p) ==
  /\ pass[p].pc = "mailing"
  /\ pass' = [pass EXCEPT ![p].pc = "failing"]
  /\ UNCHANGED <<rowVars, request, told, boundVars, histVars>>

MarkFailed(p) == LET r == pass[p].report IN
  /\ pass[p].pc = "failing"
  /\ status' = [status EXCEPT ![r] = "FAILED"]
  /\ MoveOn(p, pass[p].rest)
  /\ UNCHANGED <<address, created, request, told, boundVars, histVars>>

-----------------------------------------------------------------------------
(* Faults *)

\* The claim or the mark fails: the exception ends the pass.
PassFails(p) ==
  /\ pass[p].pc \in {"claiming", "failing"}
  /\ faults < FaultBudget /\ faults' = faults + 1
  /\ abandoned' = IF pass[p].pc = "failing" THEN abandoned \cup {pass[p].report}
                  ELSE abandoned
  /\ pass' = [pass EXCEPT ![p] = IdlePass]
  /\ UNCHANGED <<rowVars, request, told, requests, crossed, late, unsent>>

\* The process ends and starts again: only the rows remain.
Crash ==
  /\ faults < FaultBudget /\ faults' = faults + 1
  /\ abandoned' = abandoned \cup {r \in Reports : WorkersOf(r) # {}}
  /\ pass' = [p \in Passes |-> IdlePass]
  /\ request' = [c \in Requests |-> IdleRequest]
  /\ UNCHANGED <<rowVars, told, requests, crossed, late, unsent>>

-----------------------------------------------------------------------------
RequestStep(c) ==
  \/ \E r \in Reports, a \in Asked : Enqueue(c, r, a)
  \/ \E r \in Reports : ScheduleDailyExports(c, r)
  \/ CreateExport(c) \/ ReviveExport(c) \/ SetAddress(c) \/ RequestFails(c)

\* What a pass does once it has started, without faults.
PassStep(p) ==
  \/ Claim(p) \/ GenerateExport(p) \/ GenerationFails(p)
  \/ MailSent(p) \/ MailRefused(p) \/ MailHangs(p) \/ MailUnreachable(p)
  \/ MarkFailed(p)

Next ==
  \/ \E c \in Requests : RequestStep(c)
  \/ \E p \in Passes : ProcessQueue(p) \/ PassStep(p) \/ PassFails(p)
  \/ Crash

Spec == Init /\ [][Next]_vars

\* The event loop and the database go on with every pass, and the cron job fires
\* for ever: passes may keep the places for them busy, but never for good.
FairSpec ==
  /\ Spec
  /\ \A p \in Passes : WF_vars(PassStep(p))
  /\ SF_vars(\E p \in Passes : ProcessQueue(p))

-----------------------------------------------------------------------------
TypeOK ==
  /\ status \in [Reports -> Status \cup {"none"}]
  /\ address \in [Reports -> Asked]
  /\ created \in [Reports -> Nat]
  /\ request \in [Requests ->
       [pc : {"idle", "creating", "reviving", "addressing"},
        report : Reports \cup {NoReport}, to : Asked]]
  /\ pass \in [Passes ->
       [pc : {"idle", "claiming"} \cup Working,
        report : Reports \cup {NoReport}, rest : SUBSET Reports, to : Asked]]
  /\ told \in [Reports -> SUBSET Addresses]
  /\ requests \in Nat /\ faults \in Nat
  /\ crossed \subseteq Reports /\ late \subseteq Reports
  /\ unsent \subseteq Reports /\ abandoned \subseteq Reports

\* One worker per report: of passes that overlap at most one works on a report,
\* unless two requests were about to revive it at once: the second takes it back
\* from the pass that has claimed it.
OneWorkerPerReport ==
  \A r \in Reports \ crossed :
    /\ \A p, q \in WorkersOf(r) : p = q
    /\ status[r] \notin {"PROCESSING", "READY"} => WorkersOf(r) = {}

\* An announcement follows the address: when a report is READY and nobody works
\* on it, the address in its row has received the mail, also if the address was
\* set while the report was being generated.  Excepted are reports given an
\* address too late, whose mail the server refused, or whose worker died.
ReadyIsAnnounced ==
  \A r \in Reports \ (late \cup unsent \cup abandoned) :
    status[r] = "READY" /\ WorkersOf(r) = {} /\ address[r] # Nobody
      => address[r] \in told[r]

\* A report that waits is eventually ready or failed, whatever other passes take
\* or leave behind, unless the one that works on it dies: nothing picks up a row
\* that is PROCESSING.
WaitingEnds ==
  \A r \in Reports :
    status[r] = "PENDING" ~> status[r] \in {"READY", "FAILED"} \/ r \in abandoned

Life(s) ==
  CASE s = "PENDING"    -> "pending"
    [] s = "PROCESSING" -> "working"
    [] s = "READY"      -> "ready"
    [] s = "FAILED"     -> "failed"
    [] OTHER            -> "none"

jobState  == [r \in Reports |-> Life(status[r])]
jobWorker == [r \in Reports |-> WorkersOf(r)]

Job == INSTANCE ReportJob WITH Workers <- Passes, state <- jobState,
                               worker <- jobWorker, raced <- crossed

\* The queue implements the life of a report in ReportJob: no lost insert, late
\* update or second pass takes a report back, starts it twice or fails it for a
\* pass that no longer works on it, but for reports in crossed.
ImplementsReportJob == Job!Spec
=============================================================================
