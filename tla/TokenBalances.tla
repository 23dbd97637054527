---------------------------- MODULE TokenBalances ----------------------------
(***************************************************************************)
(* TokenBalancesService: an administrator takes the tokens of all students *)
(* back, in one SERIALIZABLE transaction, with a ledger entry for each.    *)
(***************************************************************************)
EXTENDS TokenDatabase, Requests

CONSTANTS
  ResetCalls         \* POST /admin/token-balances/reset requests sent

ResetCall == [confirmation : {"right", "wrong"}]

ResetCodes ==
  {"OK", "T400_INVALID_RESET_CONFIRMATION", "T409_TOKEN_BALANCE_RESET_CONFLICT"}

ASSUME TokenBalancesAssumption ==
  /\ ResetCalls \subseteq ResetCall
  /\ NoCall \notin ResetCalls

\* Mutant: students without tokens get an entry too.
ResetTargetsWithNothing == {u \in Users : role[u] = "STUDENT"}

\* Students with tokens, blocked ones included.
ResetTargets == {u \in Users : role[u] = "STUDENT" /\ tokenBalance[u] > 0}

ReceiveReset(r, c) ==
  /\ \/ c.confirmation = "right" /\ Receive(r, c, "tx")
     \/ /\ c.confirmation # "right"
        /\ ReceiveAndRespond(r, c, "T400_INVALID_RESET_CONFIRMATION")
  /\ UNCHANGED databaseVars

ResetNothing(r) ==
  /\ pc[r] = "tx" /\ call[r] \in ResetCalls
  /\ ResetTargets = {}
  /\ Respond(r, Answered("OK"))
  /\ UNCHANGED databaseVars

ResetLog(u) ==
  [type |-> "RESET", source |-> NoSource,
   before |-> tokenBalance[u], after |-> 0, delta |-> -tokenBalance[u]]

ResetTokenBalances(r) ==
  /\ pc[r] = "tx" /\ call[r] \in ResetCalls
  /\ ResetTargets # {}
  /\ tokenBalance' = [u \in Users |-> IF u \in ResetTargets THEN 0
                                      ELSE tokenBalance[u]]
  /\ tokenLogs' = [u \in Users |-> IF u \in ResetTargets
                                   THEN Append(tokenLogs[u], ResetLog(u))
                                   ELSE tokenLogs[u]]
  /\ LogAdminAction(NoSource)
  /\ Respond(r, Answered("OK"))
  /\ UNCHANGED <<userVars, products>>

ResetConflict(r) ==
  /\ call[r] \in ResetCalls
  /\ RetryAfterConflict(r, "T409_TOKEN_BALANCE_RESET_CONFLICT")
  /\ UNCHANGED databaseVars

TokenBalancesNext ==
  \E r \in Slots :
    \/ \E c \in ResetCalls : ReceiveReset(r, c)
    \/ ResetNothing(r)
    \/ ResetTokenBalances(r)
    \/ ResetConflict(r)

=============================================================================
