------------------------------ MODULE AdminUsers ------------------------------
(***************************************************************************)
(* AdminUsersService.update: an administrator changes the role or status   *)
(* of an account.  The transaction runs at READ COMMITTED: what it read of *)
(* the account may be stale when it writes, and the write names the row by *)
(* its id alone.                                                           *)
(***************************************************************************)
EXTENDS TokenDatabase, Requests, FiniteSets

CONSTANTS
  AccessCalls        \* PATCH /admin/users/{id} requests sent

VARIABLES
  accessRead         \* the role and status a request read of its user

AccessCall == [admin : Users, user : Users,
               role : Roles \cup {Keep}, status : Statuses \cup {Keep}]

AccessRead == [role : Roles, status : Statuses]

AccessCodes ==
  {"OK", "U400_USER_UPDATE_REQUIRED", "U403_SELF_ROLE_CHANGE_NOT_ALLOWED",
   "U403_SELF_BLOCK_NOT_ALLOWED"}

ASSUME AdminUsersAssumption ==
  /\ AccessCalls \subseteq AccessCall
  /\ NoCall \notin AccessCalls
  /\ Keep \notin Roles \cup Statuses

AdminUsersInit ==
  accessRead = [r \in Slots |-> [role |-> "STUDENT", status |-> "ACTIVE"]]

AdminUsersTypeOK == accessRead \in [Slots -> AccessRead]

\* The fields of an account whose value in the row read differs from the one
\* the request asks for.
ChangedFields(c, row) ==
  {f \in {"role", "status"} : c[f] # Keep /\ c[f] # row[f]}

\* AdminGuard let the caller in.
ReceiveAccess(r, c) ==
  /\ role[c.admin] = "ADMIN" /\ status[c.admin] = "ACTIVE"
  /\ \/ /\ c.role # Keep \/ c.status # Keep
        /\ Receive(r, c, "tx")
     \/ /\ c.role = Keep /\ c.status = Keep
        /\ ReceiveAndRespond(r, c, "U400_USER_UPDATE_REQUIRED")
  /\ UNCHANGED <<databaseVars, accessRead>>

\* Mutant: only the own role is protected.
RefusalOfDemotion(c, row) ==
  IF c.admin = c.user /\ "role" \in ChangedFields(c, row) /\ c.role = "STUDENT"
  THEN "U403_SELF_ROLE_CHANGE_NOT_ALLOWED"
  ELSE "none"

\* Administrators may neither demote nor block themselves.
AccessRefusal(c, row) ==
  IF c.admin # c.user THEN "none"
  ELSE IF "role" \in ChangedFields(c, row) /\ c.role = "STUDENT"
  THEN "U403_SELF_ROLE_CHANGE_NOT_ALLOWED"
  ELSE IF "status" \in ChangedFields(c, row) /\ c.status = "BLOCKED"
  THEN "U403_SELF_BLOCK_NOT_ALLOWED"
  ELSE "none"

ReadAccess(r) ==
  LET c   == call[r]
      row == [role |-> role[c.user], status |-> status[c.user]]
  IN  /\ pc[r] = "tx" /\ c \in AccessCalls
      /\ accessRead' = [accessRead EXCEPT ![r] = row]
      /\ \/ /\ ChangedFields(c, row) = {}
            /\ Respond(r, Answered("OK"))
         \/ /\ ChangedFields(c, row) # {} /\ AccessRefusal(c, row) # "none"
            /\ Respond(r, Answered(AccessRefusal(c, row)))
         \/ /\ ChangedFields(c, row) # {} /\ AccessRefusal(c, row) = "none"
            /\ Goto(r, "write")
      /\ UNCHANGED databaseVars

\* The update and one log row per field that differed from the row read.
WriteAccess(r) ==
  LET c == call[r]
      changed == ChangedFields(c, accessRead[r])
  IN  /\ pc[r] = "write" /\ c \in AccessCalls
      /\ role' = IF "role" \in changed
                 THEN [role EXCEPT ![c.user] = c.role] ELSE role
      /\ status' = IF "status" \in changed
                   THEN [status EXCEPT ![c.user] = c.status] ELSE status
      /\ adminActionLogs' =
           [adminActionLogs EXCEPT ![c.user] = @ + Cardinality(changed)]
      /\ Respond(r, Answered("OK"))
      /\ UNCHANGED <<ledgerVars, products, accessRead>>

AdminUsersNext ==
  \E r \in Slots :
    \/ \E c \in AccessCalls : ReceiveAccess(r, c)
    \/ ReadAccess(r)
    \/ WriteAccess(r)

adminUsersVars == <<databaseVars, requestVars, accessRead>>

AdminUsersSpecInit == DatabaseInit /\ RequestsInit /\ AdminUsersInit

AdminUsersSpec == AdminUsersSpecInit /\ [][AdminUsersNext]_adminUsersVars

-----------------------------------------------------------------------------
(* Properties *)

\* An administrator who asks to change the own account does not lose it by that
\* request, whatever another administrator changes between its read and its
\* write.
NobodyLocksThemselvesOut ==
  [][\A r \in Slots :
       pc[r] = "write" /\ pc'[r] = "done" /\ call[r].admin = call[r].user =>
         LET u == call[r].user
         IN  /\ role[u] = "ADMIN" => role'[u] = "ADMIN"
             /\ status[u] = "ACTIVE" => status'[u] = "ACTIVE"
    ]_adminUsersVars

\* What the comment in update promises: a request whose values equal the
\* account's current ones writes no administrators' log.
LogMeansChange ==
  [][\A u \in Users :
       adminActionLogs'[u] # adminActionLogs[u] =>
         role'[u] # role[u] \/ status'[u] # status[u]
    ]_adminUsersVars

=============================================================================
