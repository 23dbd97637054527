----------------------------- MODULE TokenEvents -----------------------------
(***************************************************************************)
(* TokenEventsService: administrators run token events and decide how many *)
(* tokens each member gets from one.  A grant is a row per (event, user)   *)
(* whose amount may be raised or lowered later; the user's balance follows *)
(* it by the difference, and each difference is a ledger entry.            *)
(*                                                                         *)
(* One saveGrants request sets the grants of many members in a single      *)
(* SERIALIZABLE transaction: either all of them or none.                   *)
(***************************************************************************)
EXTENDS TokenDatabase, Requests, FiniteSetsExt

CONSTANTS
  MaxGrant,          \* the largest amount of a grant (1000 in the code)
  Names,             \* names of events
  GrantReasons,      \* reasons written on grants
  EventCalls,        \* create, rename and delete requests sent
  GrantCalls         \* PUT /admin/token-events/{id}/grants requests sent

VARIABLES
  tokenEvents,       \* token_events
  tokenGrants        \* token_grants, per event and user

eventVars == <<tokenEvents, tokenGrants>>

TokenEvent == [name : Names, deleted : BOOLEAN]
TokenGrant == [amount : 0..MaxGrant, reason : GrantReasons]

EventCall == [op : {"create", "rename", "delete"}, event : Events, name : Names]
GrantCall == [event : Events,
              grants : UNION {[D -> TokenGrant] : D \in SUBSET Users \ {{}}}]

TokenEventCodes ==
  {"OK", "T404_TOKEN_EVENT_NOT_FOUND", "T409_TOKEN_EVENT_CONFLICT",
   "T409_TOKEN_GRANT_TARGET_INELIGIBLE", "T409_INSUFFICIENT_TOKEN_BALANCE",
   "T409_TOKEN_GRANT_SAVE_CONFLICT", "500"}

ASSUME TokenEventsAssumption ==
  /\ MaxGrant \in Nat
  /\ EventCalls \subseteq EventCall
  /\ GrantCalls \subseteq GrantCall
  /\ EventCalls \cap GrantCalls = {}
  /\ NoCall \notin EventCalls \cup GrantCalls
  /\ NoRow \notin TokenEvent
  /\ NoRow \notin TokenGrant

TokenEventsInit ==
  /\ tokenEvents = [e \in Events |-> NoRow]
  /\ tokenGrants = [e \in Events |-> [u \in Users |-> NoRow]]

TokenEventsTypeOK ==
  /\ tokenEvents \in [Events -> TokenEvent \cup {NoRow}]
  /\ tokenGrants \in [Events -> [Users -> TokenGrant \cup {NoRow}]]

\* Event e may be renamed, deleted and granted from.
IsKnown(e) == tokenEvents[e] # NoRow     \* mutant: deleted_at is not looked at
IsLive(e) == tokenEvents[e] # NoRow /\ ~tokenEvents[e].deleted

-----------------------------------------------------------------------------
(* Events *)

CreateEvent(r, c) ==
  /\ c.op = "create" /\ tokenEvents[c.event] = NoRow
  /\ tokenEvents' =
       [tokenEvents EXCEPT ![c.event] = [name |-> c.name, deleted |-> FALSE]]
  /\ LogAdminAction(c.event)
  /\ ReceiveAndRespond(r, c, "OK")
  /\ UNCHANGED <<userVars, ledgerVars, products, tokenGrants>>

ReceiveEventCall(r, c) ==
  /\ c.op \in {"rename", "delete"}
  /\ Receive(r, c, "tx")
  /\ UNCHANGED <<databaseVars, eventVars>>

\* There is no such event, or the request asks for the name it has.
AnswerEventCall(r) ==
  LET c == call[r]
  IN  /\ pc[r] = "tx" /\ c \in EventCalls
      /\ \/ /\ ~IsLive(c.event)
            /\ Respond(r, Answered("T404_TOKEN_EVENT_NOT_FOUND"))
         \/ /\ IsLive(c.event) /\ c.op = "rename"
            /\ tokenEvents[c.event].name = c.name
            /\ Respond(r, Answered("OK"))
      /\ UNCHANGED <<databaseVars, eventVars>>

RenameEvent(r) ==
  LET c == call[r]
  IN  /\ pc[r] = "tx" /\ c \in EventCalls /\ c.op = "rename"
      /\ IsLive(c.event) /\ tokenEvents[c.event].name # c.name
      /\ tokenEvents' = [tokenEvents EXCEPT ![c.event].name = c.name]
      /\ LogAdminAction(c.event)
      /\ Respond(r, Answered("OK"))
      /\ UNCHANGED <<userVars, ledgerVars, products, tokenGrants>>

\* Deleting an event hides it; the grants and the balances stay.
DeleteEvent(r) ==
  LET c == call[r]
  IN  /\ pc[r] = "tx" /\ c \in EventCalls /\ c.op = "delete"
      /\ IsLive(c.event)
      /\ tokenEvents' = [tokenEvents EXCEPT ![c.event].deleted = TRUE]
      /\ LogAdminAction(c.event)
      /\ Respond(r, Answered("OK"))
      /\ UNCHANGED <<userVars, ledgerVars, products, tokenGrants>>

-----------------------------------------------------------------------------
(* Grants *)

GrantedAmount(e, u) ==
  IF tokenGrants[e][u] = NoRow THEN 0 ELSE tokenGrants[e][u].amount

\* What request c adds to the balance of user u.
WholeAmount(c, u) == c.grants[u].amount     \* mutant: added on every save
DeltaAmount(c, u) == c.grants[u].amount - GrantedAmount(c.event, u)

\* The check that user u fails in request c, or "none".
GrantRefusal(c, u) ==
  IF DeltaAmount(c, u) > 0 /\ ~IsActiveStudent(u)
  THEN "T409_TOKEN_GRANT_TARGET_INELIGIBLE"
  ELSE IF DeltaAmount(c, u) < 0 /\ tokenBalance[u] + DeltaAmount(c, u) < 0
  THEN "T409_INSUFFICIENT_TOKEN_BALANCE"
  ELSE "none"

\* Mutant: a reduced amount is no change of the grant.
StatusIgnoringReductions(c, u) ==
  IF DeltaAmount(c, u) > 0
  THEN IF tokenGrants[c.event][u] = NoRow THEN "CREATED" ELSE "UPDATED"
  ELSE "UNCHANGED"

\* What request c does to the grant of user u.
PlanStatus(c, u) ==
  LET existing == tokenGrants[c.event][u]
  IN  IF existing = NoRow
      THEN IF c.grants[u].amount > 0 THEN "CREATED" ELSE "UNCHANGED"
      ELSE IF DeltaAmount(c, u) # 0 \/ existing.reason # c.grants[u].reason
      THEN "UPDATED" ELSE "UNCHANGED"

\* Mutant: every increase is recorded as a grant.
GrantLogBySign(c, u) ==
  [type   |-> IF DeltaAmount(c, u) > 0 THEN "EVENT_GRANT"
              ELSE "EVENT_ADJUSTMENT",
   source |-> c.event,
   before |-> tokenBalance[u],
   after  |-> tokenBalance[u] + DeltaAmount(c, u),
   delta  |-> DeltaAmount(c, u)]

GrantLog(c, u) ==
  [type   |-> IF PlanStatus(c, u) = "CREATED" THEN "EVENT_GRANT"
              ELSE "EVENT_ADJUSTMENT",
   source |-> c.event,
   before |-> tokenBalance[u],
   after  |-> tokenBalance[u] + DeltaAmount(c, u),
   delta  |-> DeltaAmount(c, u)]

\* The members whose balance request c moves.
Moved(c) == {u \in DOMAIN c.grants : DeltaAmount(c, u) # 0}

ReceiveGrants(r, c) ==
  /\ Receive(r, c, "tx")
  /\ UNCHANGED <<databaseVars, eventVars>>

\* The plan of one member at least is refused, and nothing is written.
RefuseGrants(r) ==
  LET c == call[r]
  IN  /\ pc[r] = "tx" /\ c \in GrantCalls
      /\ \/ /\ ~IsLive(c.event)
            /\ Respond(r, Answered("T404_TOKEN_EVENT_NOT_FOUND"))
         \/ /\ IsLive(c.event)
            /\ \E u \in DOMAIN c.grants :
                 /\ GrantRefusal(c, u) # "none"
                 /\ Respond(r, Answered(GrantRefusal(c, u)))
      /\ UNCHANGED <<databaseVars, eventVars>>

\* Every plan of request c was accepted.
GrantsAccepted(c) ==
  /\ IsLive(c.event)
  /\ \A u \in DOMAIN c.grants : GrantRefusal(c, u) = "none"

\* Some balance would leave the range of its column.
Overflows(c) ==
  \E u \in DOMAIN c.grants : tokenBalance[u] + DeltaAmount(c, u) > MaxInt

\* The database refuses the increment; saveGrants has no check of its own, and
\* the error reaches the client as an internal one.
OverflowGrants(r) ==
  /\ pc[r] = "tx" /\ call[r] \in GrantCalls
  /\ GrantsAccepted(call[r]) /\ Overflows(call[r])
  /\ Respond(r, Answered("500"))
  /\ UNCHANGED <<databaseVars, eventVars>>

SaveGrants(r) ==
  LET c == call[r]
      D == DOMAIN c.grants
      changed == {u \in D : PlanStatus(c, u) # "UNCHANGED"}
  IN  /\ pc[r] = "tx" /\ c \in GrantCalls
      /\ GrantsAccepted(c) /\ ~Overflows(c)
      /\ tokenGrants' =
           [tokenGrants EXCEPT ![c.event] =
              [u \in Users |-> IF u \in changed THEN c.grants[u] ELSE @[u]]]
      /\ tokenBalance' =
           [u \in Users |-> IF u \in Moved(c)
                            THEN tokenBalance[u] + DeltaAmount(c, u)
                            ELSE tokenBalance[u]]
      /\ tokenLogs' =
           [u \in Users |-> IF u \in Moved(c)
                            THEN Append(tokenLogs[u], GrantLog(c, u))
                            ELSE tokenLogs[u]]
      /\ \/ changed # {} /\ LogAdminAction(c.event)
         \/ changed = {} /\ UNCHANGED adminActionLogs
      /\ Respond(r, Answered("OK"))
      /\ UNCHANGED <<userVars, products, tokenEvents>>

-----------------------------------------------------------------------------

\* P2034, and for saveGrants also P2002 on the (event, user) pair.
TokenEventConflict(r) ==
  /\ \/ /\ call[r] \in GrantCalls
        /\ RetryAfterConflict(r, "T409_TOKEN_GRANT_SAVE_CONFLICT")
     \/ /\ call[r] \in EventCalls
        /\ RetryAfterConflict(r, "T409_TOKEN_EVENT_CONFLICT")
  /\ UNCHANGED <<databaseVars, eventVars>>

ReceiveTokenEventRequest(r) ==
  \/ \E c \in EventCalls : CreateEvent(r, c) \/ ReceiveEventCall(r, c)
  \/ \E c \in GrantCalls : ReceiveGrants(r, c)

ServeTokenEventRequest(r) ==
  \/ AnswerEventCall(r)
  \/ RenameEvent(r)
  \/ DeleteEvent(r)
  \/ RefuseGrants(r)
  \/ OverflowGrants(r)
  \/ SaveGrants(r)
  \/ TokenEventConflict(r)

TokenEventsNext ==
  \E r \in Slots : ReceiveTokenEventRequest(r) \/ ServeTokenEventRequest(r)

-----------------------------------------------------------------------------
(* Properties *)

\* The entries of event e in the ledger of user u, in order.
EventLogs(e, u) ==
  {i \in DOMAIN tokenLogs[u] : tokenLogs[u][i].source = e}

\* What an event granted to a member is what the ledger says the member got
\* from it, through every raise, reduction, retry and reset in between
\* (saveGrants).
GrantMatchesLedger ==
  \A e \in Events, u \in Users :
    GrantedAmount(e, u) =
      SumFunction([i \in EventLogs(e, u) |-> tokenLogs[u][i].delta])

\* The ledger tells the first grant of an event from its later adjustments,
\* also after the grant went down to zero and up again (saveGrants).
FirstEntryIsGrant ==
  \A e \in Events, u \in Users : \A i \in EventLogs(e, u) :
    (tokenLogs[u][i].type = "EVENT_GRANT")
      <=> (\A j \in EventLogs(e, u) : i <= j)

\* A batch of grants is saved for every member it names or for none: when it
\* is answered with success all members hold what it asked for, and when it
\* is answered with anything else no grant and no balance has moved
\* ("if one fails no write starts", saveGrants).
BatchAllOrNothing ==
  [][\A r \in Slots :
       call[r] \in GrantCalls /\ pc[r] # "done" /\ pc'[r] = "done" =>
         IF answer'[r].code = "OK"
         THEN \A u \in DOMAIN call[r].grants :
                GrantedAmount(call[r].event, u)' = call[r].grants[u].amount
         ELSE UNCHANGED <<tokenGrants, tokenBalance, tokenLogs>>
    ]_<<databaseVars, eventVars, requestVars>>

\* Nobody's grant from a deleted event changes any more, whichever request was
\* in flight when it was deleted (deleteTokenEvent, saveGrants).
DeletedEventsFrozen ==
  [][\A e \in Events :
       tokenEvents[e] # NoRow /\ tokenEvents[e].deleted =>
         tokenGrants'[e] = tokenGrants[e] /\ tokenEvents'[e] = tokenEvents[e]
    ]_<<databaseVars, eventVars, requestVars>>

=============================================================================
