--------------------------- MODULE AccessControl ---------------------------
(***************************************************************************)
(* Roles and users of a tenant and the audit log of their changes          *)
(* (access-control.service.ts).  The permissions of a role are deleted and *)
(* written anew in two writes, the log entry is a third.                   *)
(*                                                                         *)
(* Left out: the password, who granted what, and whose tenant a row is.    *)
(* The log is kept by its newest entry about each role and user.           *)
(***************************************************************************)
EXTENDS Overlap

CONSTANTS
  Keys, Roles, Users,
  RoleMakers,  \* createRole
  Granters,    \* updateRolePermissions
  UserMakers,  \* createUser
  Switchers,   \* updateUserStatus
  Assigners,   \* assignRole
  Subject,     \* the role or the user a request is about
  Wanted,      \* the keys a role is to have; whether a user is to be active; a role to assign
  Unknown      \* there is no such row, or no entry

Governors == RoleMakers \cup Granters
Hosts     == UserMakers \cup Switchers \cup Assigners
Admins    == Governors \cup Hosts

ASSUME AccessAssumption ==
  /\ Admins \subseteq Requests
  /\ RoleMakers \cap (Granters \cup Hosts) = {}
  /\ Granters \cap Hosts = {}
  /\ UserMakers \cap (Switchers \cup Assigners) = {}
  /\ Switchers \cap Assigners = {}
  /\ \A r \in Governors : Subject[r] \in Roles /\ Wanted[r] \subseteq Keys
  /\ \A r \in Hosts : Subject[r] \in Users
  /\ \A r \in UserMakers : Wanted[r] = TRUE
  /\ \A r \in Switchers : Wanted[r] \in BOOLEAN
  /\ \A r \in Assigners : Wanted[r] \in Roles
  /\ Roles \cap Users = {}
  /\ \A K \in SUBSET Keys : K # Unknown

VARIABLES
  permissions, \* the keys with a row of their own
  roles,       \* the roles there are
  grants,      \* the permissions of each role
  active,      \* whether a user is active, Unknown if there is no such user
  has,         \* the roles of each user
  missing,     \* the keys a request has not found
  entry,       \* the newest log entry about a role or a user
  changed      \* history: the requests that have changed something

accessVars == <<permissions, roles, grants, active, has, missing, entry, changed>>

AccessSteps == {"keys", "newKeys", "role", "clear", "grant", "user", "switch", "assign", "audit"}

\* Before the start there are the roles and users of known, with the log of their creation.
AccessInit(known) ==
  /\ roles = Roles \cap known
  /\ \E K \in SUBSET Keys :
       /\ permissions = IF roles = {} THEN {} ELSE K
       /\ grants = [x \in Roles |-> IF x \in known THEN K ELSE {}]
  /\ active = [u \in Users |-> IF u \in known THEN TRUE ELSE Unknown]
  /\ has = [u \in Users |-> {}]
  /\ missing = [r \in Governors |-> {}]
  /\ entry = [x \in Roles \cup Users |->
       IF x \notin known THEN Unknown ELSE IF x \in Roles THEN grants[x] ELSE TRUE]
  /\ changed = {}

-----------------------------------------------------------------------------
BeginGrant(r) ==
  /\ Start(r, IF r \in Granters /\ Subject[r] \notin roles THEN "failed" ELSE "keys")
  /\ UNCHANGED accessVars

\* ensurePermissions: find the rows of the keys, then create the others at once.
FindKeys(r) ==
  /\ at[r] = "keys"
  /\ missing' = [missing EXCEPT ![r] = Wanted[r] \ permissions]
  /\ Goto(r, IF Wanted[r] \ permissions # {} THEN "newKeys"
             ELSE IF r \in RoleMakers THEN "role" ELSE "clear")
  /\ UNCHANGED <<permissions, roles, grants, active, has, entry, changed>>

\* Mutant: the rows of the new keys are not kept.
CreateKeys_Unsaved(r) ==
  /\ at[r] = "newKeys"
  /\ Goto(r, IF missing[r] \cap permissions # {} THEN "failed"
             ELSE IF r \in RoleMakers THEN "role" ELSE "clear")
  /\ UNCHANGED accessVars

CreateKeys(r) ==
  /\ at[r] = "newKeys"
  /\ IF missing[r] \cap permissions = {}
       THEN /\ permissions' = permissions \cup missing[r]
            /\ Goto(r, IF r \in RoleMakers THEN "role" ELSE "clear")
       ELSE Goto(r, "failed") /\ UNCHANGED permissions
  /\ UNCHANGED <<roles, grants, active, has, missing, entry, changed>>

CreateRole(r) ==
  LET x == Subject[r] IN
  /\ at[r] = "role"
  /\ IF x \notin roles
       THEN /\ roles' = roles \cup {x}
            /\ grants' = [grants EXCEPT ![x] = Wanted[r]]
            /\ changed' = changed \cup {r}
            /\ Goto(r, "audit")
       ELSE Goto(r, "failed") /\ UNCHANGED <<roles, grants, changed>>
  /\ UNCHANGED <<permissions, active, has, missing, entry>>

\* Mutant: the old permissions stay.
ClearGrants_Keeps(r) ==
  /\ at[r] = "clear"
  /\ changed' = changed \cup {r}
  /\ Goto(r, "grant")
  /\ UNCHANGED <<permissions, roles, grants, active, has, missing, entry>>

ClearGrants(r) ==
  /\ at[r] = "clear"
  /\ grants' = [grants EXCEPT ![Subject[r]] = {}]
  /\ changed' = changed \cup {r}
  /\ Goto(r, "grant")
  /\ UNCHANGED <<permissions, roles, active, has, missing, entry>>

\* All of them or, if the role has one of them again, none.
WriteGrants(r) ==
  LET x == Subject[r] IN
  /\ at[r] = "grant"
  /\ IF Wanted[r] \cap grants[x] = {}
       THEN grants' = [grants EXCEPT ![x] = @ \cup Wanted[r]] /\ Goto(r, "audit")
       ELSE Goto(r, "failed") /\ UNCHANGED grants
  /\ UNCHANGED <<permissions, roles, active, has, missing, entry, changed>>

-----------------------------------------------------------------------------
BeginUserMaker(r) == Start(r, "user") /\ UNCHANGED accessVars

\* One user per e-mail address.
CreateUser(r) ==
  LET u == Subject[r] IN
  /\ at[r] = "user"
  /\ IF active[u] = Unknown
       THEN /\ active' = [active EXCEPT ![u] = TRUE]
            /\ changed' = changed \cup {r}
            /\ Goto(r, "audit")
       ELSE Goto(r, "failed") /\ UNCHANGED <<active, changed>>
  /\ UNCHANGED <<permissions, roles, grants, has, missing, entry>>

BeginSwitch(r) ==
  /\ Start(r, IF active[Subject[r]] = Unknown THEN "failed" ELSE "switch")
  /\ UNCHANGED accessVars

SwitchUser(r) ==
  /\ at[r] = "switch"
  /\ active' = [active EXCEPT ![Subject[r]] = Wanted[r]]
  /\ changed' = changed \cup {r}
  /\ Goto(r, "audit")
  /\ UNCHANGED <<permissions, roles, grants, has, missing, entry>>

BeginAssign(r) ==
  /\ Start(r, IF Wanted[r] \notin roles \/ active[Subject[r]] = Unknown THEN "failed" ELSE "assign")
  /\ UNCHANGED accessVars

AssignRole(r) ==
  /\ at[r] = "assign"
  /\ has' = [has EXCEPT ![Subject[r]] = @ \cup {Wanted[r]}]
  /\ Goto(r, "audit")
  /\ UNCHANGED <<permissions, roles, grants, active, missing, entry, changed>>

\* The entry states what the request asked for.
WriteAuditLog(r) ==
  /\ at[r] = "audit"
  /\ entry' = IF r \in Assigners THEN entry ELSE [entry EXCEPT ![Subject[r]] = Wanted[r]]
  /\ Goto(r, "done")
  /\ UNCHANGED <<permissions, roles, grants, active, has, missing, changed>>

-----------------------------------------------------------------------------
BeginAdmin(r) ==
  \/ r \in Governors  /\ BeginGrant(r)
  \/ r \in UserMakers /\ BeginUserMaker(r)
  \/ r \in Switchers  /\ BeginSwitch(r)
  \/ r \in Assigners  /\ BeginAssign(r)

AdminStep(r) ==
  \/ r \in Governors  /\ (FindKeys(r) \/ CreateKeys(r))
  \/ r \in RoleMakers /\ CreateRole(r)
  \/ r \in Granters   /\ (ClearGrants(r) \/ WriteGrants(r))
  \/ r \in UserMakers /\ CreateUser(r)
  \/ r \in Switchers  /\ SwitchUser(r)
  \/ r \in Assigners  /\ AssignRole(r)
  \/ r \in Admins     /\ WriteAuditLog(r)

-----------------------------------------------------------------------------
AccessTypeOK ==
  /\ permissions \subseteq Keys
  /\ roles \subseteq Roles
  /\ grants \in [Roles -> SUBSET permissions]
  /\ active \in [Users -> BOOLEAN \cup {Unknown}]
  /\ has \in [Users -> SUBSET roles]
  /\ missing \in [Governors -> SUBSET Keys]
  /\ \A x \in Roles : entry[x] \in {Unknown} \cup SUBSET Keys
  /\ \A u \in Users : entry[u] \in {Unknown} \cup BOOLEAN
  /\ changed \subseteq Admins

(* When no request about it is under way, a role has the permissions and a   *)
(* user the status that the newest entry of the audit log states, unless a   *)
(* request failed between its change and its entry, or two requests about it *)
(* overlapped: the entries may then be in another order than the changes,    *)
(* and the permissions of a role may be those of both.                       *)
AuditTellsAccess ==
  \A x \in Roles \cup Users :
    LET here == {r \in Admins \ Assigners : Subject[r] = x} IN
    here \cap Busy = {} =>
      \/ x \in Roles /\ grants[x] = (IF entry[x] = Unknown THEN {} ELSE entry[x])
      \/ x \in Users /\ active[x] = entry[x]
      \/ \E r \in here : at[r] = "failed" /\ r \in changed
      \/ \E r, q \in here : q \in met[r]
=============================================================================
