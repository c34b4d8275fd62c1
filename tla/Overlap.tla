------------------------------ MODULE Overlap ------------------------------
(***************************************************************************)
(* Requests to a server that runs one step at a time: a handler is a       *)
(* sequence of awaits, and between two of them the other requests run.     *)
(* Most of what goes wrong needs two requests under way at once, so what   *)
(* each has met is kept as a history.  A request may fail at any await (the *)
(* database answers with an error, the server goes down): what it has      *)
(* written stays.                                                          *)
(***************************************************************************)

CONSTANT Requests

VARIABLES
  at,  \* the await each request is at
  met  \* history: the requests it has overlapped with

overlapVars == <<at, met>>

Still == {"idle", "done", "failed"}

OverlapInit ==
  /\ at = [r \in Requests |-> "idle"]
  /\ met = [r \in Requests |-> {}]

Busy == {r \in Requests : at[r] \notin Still}

\* A request starts at await s and meets all that are under way.
Start(r, s) ==
  /\ at[r] = "idle"
  /\ at' = [at EXCEPT ![r] = s]
  /\ met' = [q \in Requests |-> IF q = r THEN met[r] \cup Busy
                                ELSE IF q \in Busy THEN met[q] \cup {r} ELSE met[q]]

Goto(r, s) == at' = [at EXCEPT ![r] = s] /\ UNCHANGED met

Fail(r) == at[r] \notin Still /\ Goto(r, "failed")
=============================================================================
