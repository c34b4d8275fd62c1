------------------------------ MODULE ReportJob ------------------------------
(***************************************************************************)
(* What the report export promises: a report is requested, worked on by    *)
(* one worker and ends ready or failed; only a failed one may be requested *)
(* again.  A ready report turns failed if its announcement cannot be sent. *)
(* Workers may die, so nothing is promised about what ends when.           *)
(*                                                                         *)
(* Nothing is promised any more for a report in raced: the code lets       *)
(* requests that overlap take such a report back while it is worked on.    *)
(***************************************************************************)
CONSTANTS Reports, Workers

VARIABLES
  state,  \* the life of each report
  worker, \* who works on it or still announces it
  raced   \* reports that overlapping requests have revived

vars == <<state, worker, raced>>

State == {"none", "pending", "working", "ready", "failed"}

Init ==
  /\ state = [r \in Reports |-> "none"]
  /\ worker = [r \in Reports |-> {}]
  /\ raced = {}

Change(r, s, W) ==
  /\ state' = [state EXCEPT ![r] = s]
  /\ worker' = [worker EXCEPT ![r] = W]
  /\ UNCHANGED raced

Request(r) ==
  /\ state[r] \in {"none", "failed"}
  /\ worker[r] = {}
  /\ Change(r, "pending", {})

Begin(r, w) ==
  /\ state[r] = "pending"
  /\ worker[r] = {}
  /\ Change(r, "working", {w})

\* The worker stays if there is somebody to tell.
Complete(r, w) ==
  /\ state[r] = "working"
  /\ worker[r] = {w}
  /\ \E W \in SUBSET {w} : Change(r, "ready", W)

Fail(r, w) ==
  /\ state[r] \in {"working", "ready"}
  /\ worker[r] = {w}
  /\ Change(r, "failed", {})

\* Workers that are done or die.
Leave ==
  /\ \E S \in SUBSET Reports :
       worker' = [r \in Reports |-> IF r \in S THEN {} ELSE worker[r]]
  /\ UNCHANGED <<state, raced>>

Race(r) ==
  /\ raced' = raced \cup {r}
  /\ UNCHANGED <<state, worker>>

Unpromised(r) ==
  /\ r \in raced
  /\ \E s \in State, W \in SUBSET Workers : Change(r, s, W)

Next ==
  \/ \E r \in Reports :
       \/ Request(r) \/ Race(r) \/ Unpromised(r)
       \/ \E w \in Workers : Begin(r, w) \/ Complete(r, w) \/ Fail(r, w)
  \/ Leave

Spec == Init /\ [][Next]_vars
=============================================================================
