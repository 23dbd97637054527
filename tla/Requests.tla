------------------------------ MODULE Requests ------------------------------
(***************************************************************************)
(* HTTP requests in flight and the retry loop around a SERIALIZABLE        *)
(* transaction that the services share (runSerializableTransaction).       *)
(*                                                                         *)
(* A request occupies a slot.  It is received, runs its handler in one or  *)
(* more steps and is answered; a slot is used once.  A server that dies    *)
(* with a request in flight is a slot that takes no more steps, and a      *)
(* client whose answer got lost is a slot whose answer nobody reads: the   *)
(* client's retry is another slot with an equal call.                      *)
(***************************************************************************)
EXTENDS Integers

CONSTANTS
  Slots,           \* requests a behaviour may contain (a bound)
  MaxAttempts,     \* MAX_SERIALIZABLE_TRANSACTION_RETRIES
  NoCall,          \* what a slot holds before it is used
  Keep             \* an optional field of a request that is left out

VARIABLES
  pc,              \* where the handler of a slot is
  call,            \* the request a slot carries
  attempt,         \* which attempt of the transaction is running
  answer           \* what the client was told

requestVars == <<pc, call, attempt, answer>>

ASSUME RequestsAssumption == MaxAttempts \in Nat \ {0}

\* What a client may be told, with the codes its request can be answered with.
Answer(Codes) == [code : Codes, total : Nat, remaining : Nat]

Answered(code) == [code |-> code, total |-> 0, remaining |-> 0]
NoAnswer == Answered("none")

RequestsInit ==
  /\ pc = [r \in Slots |-> "idle"]
  /\ call = [r \in Slots |-> NoCall]
  /\ attempt = [r \in Slots |-> 1]
  /\ answer = [r \in Slots |-> NoAnswer]

RequestsTypeOK(Calls, Codes) ==
  /\ pc \in [Slots -> {"idle", "lookup", "tx", "write", "recover", "done"}]
  /\ call \in [Slots -> Calls \cup {NoCall}]
  /\ attempt \in [Slots -> 1..MaxAttempts]
  /\ answer \in [Slots -> Answer(Codes \cup {"none"})]

-----------------------------------------------------------------------------

\* Slot r receives call c, and its handler starts at label l.
Receive(r, c, l) ==
  /\ pc[r] = "idle"
  /\ pc' = [pc EXCEPT ![r] = l]
  /\ call' = [call EXCEPT ![r] = c]
  /\ UNCHANGED <<attempt, answer>>

\* Slot r receives call c and answers it in the same step: the handler refuses
\* it before it reads anything, or runs one statement.
ReceiveAndRespond(r, c, code) ==
  /\ pc[r] = "idle"
  /\ pc' = [pc EXCEPT ![r] = "done"]
  /\ call' = [call EXCEPT ![r] = c]
  /\ answer' = [answer EXCEPT ![r] = Answered(code)]
  /\ UNCHANGED attempt

\* The handler of slot r moves on to label l.
Goto(r, l) ==
  /\ pc' = [pc EXCEPT ![r] = l]
  /\ UNCHANGED <<call, attempt, answer>>

\* The handler of slot r returns or throws, which answers the client.
Respond(r, a) ==
  /\ pc' = [pc EXCEPT ![r] = "done"]
  /\ answer' = [answer EXCEPT ![r] = a]
  /\ UNCHANGED <<call, attempt>>

\* Mutant: the loop starts again when its attempts have failed.
RetryForever(r, giveUpCode) ==
  /\ pc[r] = "tx"
  /\ attempt' = [attempt EXCEPT ![r] = (@ % MaxAttempts) + 1]
  /\ UNCHANGED <<pc, call, answer>>

\* The database aborts the transaction of slot r with P2034.  The loop runs
\* it again until MaxAttempts attempts have failed, then it gives up.
RetryAfterConflict(r, giveUpCode) ==
  /\ pc[r] = "tx"
  /\ \/ /\ attempt[r] < MaxAttempts
        /\ attempt' = [attempt EXCEPT ![r] = @ + 1]
        /\ UNCHANGED <<pc, call, answer>>
     \/ /\ attempt[r] = MaxAttempts
        /\ Respond(r, Answered(giveUpCode))

=============================================================================
