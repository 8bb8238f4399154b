---------------------------- MODULE ActionEngine ----------------------------
(***************************************************************************)
(* The execution pipeline of runtime/action_engine.py for calls that       *)
(* arrive from outside (ActionEngine.execute), over any handler.           *)
(*                                                                         *)
(* A delivery of a call is one HTTP POST or one MCP tool call.  Its        *)
(* execution id is the request id, which the client may choose and reuse.  *)
(* The engine runs three database transactions one after the other:        *)
(*   1. insert the action_executions row with status "started";            *)
(*   2. run the handler, its audit rows and its child actions;             *)
(*   3. set the row to "succeeded", or to "failed" after an exception.     *)
(* Nothing ties them together, so a crash or a database error may separate *)
(* them, and a commit may succeed while its acknowledgement is lost.       *)
(***************************************************************************)
EXTENDS Naturals, FiniteSets

CONSTANTS
  Requests,       \* deliveries of an action call
  ExecIds,        \* the request ids a client may send
  Calls,          \* what may be asked for: records with (at least) a field id
  ErrorCodes,     \* codes of the ApplicationErrors a call may end with
  NonConforming,  \* deliveries whose handler returns what output_model refuses
  FaultKinds,     \* which faults happen: "crash", "db_error", "lost_ack"
  MaxFaults       \* at most this many of them

ASSUME CallsAssumption == \A c \in Calls : c.id \in ExecIds
ASSUME CodesAssumption ==
  /\ "ACTION_EXECUTION_FAILED" \in ErrorCodes
  /\ ErrorCodes \cap {"none", "ok", "lost", "INTERNAL_ERROR"} = {}
ASSUME FaultsAssumption == MaxFaults \in Nat

VARIABLES
  call,      \* the call each delivery carries
  pc,        \* where in _execute each delivery is
  exec,      \* the action_executions row of each request id
  effects,   \* deliveries whose handler transaction is committed
  raised,    \* the error code each handler ended with
  reply,     \* what the caller got
  faults     \* faults so far

engineVars == <<call, pc, exec, effects, raised, reply, faults>>

NoRow == [status |-> "absent", error |-> "none"]
Statuses == {"absent", "started", "succeeded", "failed"}
ExecutionRow == [status : Statuses, error : ErrorCodes \union {"none"}]

Id(r) == call[r].id
InFlight(r) == pc[r] \in {"running", "committed", "failing"}

EngineInit ==
  /\ call \in [Requests -> Calls]
  /\ pc = [r \in Requests |-> "new"]
  /\ exec = [i \in ExecIds |-> NoRow]
  /\ effects = {}
  /\ raised = [r \in Requests |-> "none"]
  /\ reply = [r \in Requests |-> "none"]
  /\ faults = 0

Fault(kind) ==
  /\ kind \in FaultKinds
  /\ faults < MaxFaults
  /\ faults' = faults + 1

Answer(r, answer) ==
  /\ pc' = [pc EXCEPT ![r] = "done"]
  /\ reply' = [reply EXCEPT ![r] = answer]

SetRow(r, row) == exec' = [exec EXCEPT ![Id(r)] = row]

-----------------------------------------------------------------------------
(* Before the ledger: the action is unknown, the actor is not authorized,  *)
(* no handler is registered or the parameters do not validate.  The error  *)
(* is raised before any row is written.                                    *)
Refuse(r, code) ==
  /\ pc[r] = "new"
  /\ Answer(r, code)
  /\ UNCHANGED <<call, exec, effects, raised, faults>>

(* Mutant of Start: the execution_id column has no unique index.           *)
StartWithoutUniqueIndex(r) ==
  /\ pc[r] = "new"
  /\ SetRow(r, [status |-> "started", error |-> "none"])
  /\ pc' = [pc EXCEPT ![r] = "running"]
  /\ UNCHANGED <<call, effects, raised, reply, faults>>

(* _create_started_execution, in a transaction of its own.                 *)
Start(r) ==
  /\ pc[r] = "new"
  /\ exec[Id(r)].status = "absent"
  /\ SetRow(r, [status |-> "started", error |-> "none"])
  /\ pc' = [pc EXCEPT ![r] = "running"]
  /\ UNCHANGED <<call, effects, raised, reply, faults>>

(* Mutant of StartDuplicate: the failed insert is recorded on the row.     *)
StartDuplicateMarksRow(r) ==
  /\ pc[r] = "new"
  /\ exec[Id(r)].status # "absent"
  /\ SetRow(r, [status |-> "failed", error |-> "ACTION_EXECUTION_FAILED"])
  /\ Answer(r, "INTERNAL_ERROR")
  /\ UNCHANGED <<call, effects, raised, faults>>

(* The unique index on execution_id refuses a second row for a request id. *)
(* The insert is outside every try block: the client gets a bare 500.      *)
StartDuplicate(r) ==
  /\ pc[r] = "new"
  /\ exec[Id(r)].status # "absent"
  /\ Answer(r, "INTERNAL_ERROR")
  /\ UNCHANGED <<call, exec, effects, raised, faults>>

(* The insert fails, or commits without the engine learning of it.         *)
StartFault(r) ==
  /\ pc[r] = "new"
  /\ exec[Id(r)].status = "absent"
  /\ \/ Fault("db_error") /\ UNCHANGED exec
     \/ Fault("lost_ack") /\ SetRow(r, [status |-> "started", error |-> "none"])
  /\ Answer(r, "INTERNAL_ERROR")
  /\ UNCHANGED <<call, effects, raised>>

-----------------------------------------------------------------------------
(* The handler's transaction.                                              *)
Raise(r, code) ==
  /\ pc' = [pc EXCEPT ![r] = "failing"]
  /\ raised' = [raised EXCEPT ![r] = code]
  /\ UNCHANGED <<call, exec, reply>>

(* session.begin() commits as the with block ends.                         *)
HandlerCommits(r) ==
  /\ pc[r] = "running"
  /\ effects' = effects \union {r}
  /\ pc' = [pc EXCEPT ![r] = "committed"]
  /\ UNCHANGED <<call, exec, raised, reply, faults>>

(* Mutant of HandlerRaises: the transaction is committed all the same.     *)
HandlerRaisesAndCommits(r, code) ==
  /\ pc[r] = "running"
  /\ Raise(r, code)
  /\ effects' = effects \union {r}
  /\ UNCHANGED faults

(* An exception leaves the with block and rolls the transaction back.      *)
HandlerRaises(r, code) ==
  /\ pc[r] = "running"
  /\ Raise(r, code)
  /\ UNCHANGED <<effects, faults>>

(* A database error inside the handler, or at its commit with the outcome  *)
(* unknown to the engine: either way the generic except clause runs.       *)
HandlerFault(r) ==
  /\ pc[r] = "running"
  /\ \/ Fault("db_error") /\ UNCHANGED effects
     \/ Fault("lost_ack") /\ effects' = effects \union {r}
  /\ Raise(r, "ACTION_EXECUTION_FAILED")

(* _validate_output raises after the handler's transaction has committed.  *)
OutputRefused(r) ==
  /\ pc[r] = "committed"
  /\ r \in NonConforming
  /\ Raise(r, "ACTION_EXECUTION_FAILED")
  /\ UNCHANGED <<effects, faults>>

-----------------------------------------------------------------------------
(* The third transaction.  _get_started_execution_for_update refuses a row *)
(* that is already final.                                                  *)
Finalizable(r) == exec[Id(r)].status = "started"

MarkSucceeded(r) ==
  /\ pc[r] = "committed"
  /\ r \notin NonConforming
  /\ Finalizable(r)
  /\ SetRow(r, [status |-> "succeeded", error |-> "none"])
  /\ Answer(r, "ok")
  /\ UNCHANGED <<call, effects, raised, faults>>

(* Mutant of MarkFailed: only an ApplicationError of the domain is caught. *)
MarkFailedIfDomainError(r) ==
  /\ pc[r] = "failing"
  /\ raised[r] # "ACTION_EXECUTION_FAILED"
  /\ Finalizable(r)
  /\ SetRow(r, [status |-> "failed", error |-> raised[r]])
  /\ Answer(r, raised[r])
  /\ UNCHANGED <<call, effects, raised, faults>>

MarkFailed(r) ==
  /\ pc[r] = "failing"
  /\ Finalizable(r)
  /\ SetRow(r, [status |-> "failed", error |-> raised[r]])
  /\ Answer(r, raised[r])
  /\ UNCHANGED <<call, effects, raised, faults>>

(* Mutant of MarkFault: the error is logged and the outcome returned.      *)
MarkFaultSwallowed(r) ==
  /\ pc[r] \in {"committed", "failing"}
  /\ pc[r] = "committed" => r \notin NonConforming
  /\ Finalizable(r)
  /\ Fault("db_error")
  /\ Answer(r, IF pc[r] = "committed" THEN "ok" ELSE raised[r])
  /\ UNCHANGED <<call, exec, effects, raised>>

(* An error of the third transaction is caught by nobody: the client gets  *)
(* a bare 500 and the row stays "started", or is final all the same.       *)
MarkFault(r) ==
  /\ pc[r] \in {"committed", "failing"}
  /\ pc[r] = "committed" => r \notin NonConforming
  /\ Finalizable(r)
  /\ \/ Fault("db_error") /\ UNCHANGED exec
     \/ /\ Fault("lost_ack")
        /\ SetRow(r, IF pc[r] = "committed"
                     THEN [status |-> "succeeded", error |-> "none"]
                     ELSE [status |-> "failed", error |-> raised[r]])
  /\ Answer(r, "INTERNAL_ERROR")
  /\ UNCHANGED <<call, effects, raised>>

(* The backend process dies: PostgreSQL rolls every open transaction back, *)
(* and no code ever looks for rows that were left "started".               *)
Crash ==
  /\ Fault("crash")
  /\ \E r \in Requests : InFlight(r)
  /\ pc' = [r \in Requests |-> IF InFlight(r) THEN "done" ELSE pc[r]]
  /\ reply' = [r \in Requests |-> IF InFlight(r) THEN "lost" ELSE reply[r]]
  /\ UNCHANGED <<call, exec, effects, raised>>

-----------------------------------------------------------------------------
(* What the engine does with any handler.                                  *)
Admission(r) ==
  \/ \E code \in ErrorCodes : Refuse(r, code)
  \/ Start(r)
  \/ StartDuplicate(r)

Handling(r) ==
  \/ HandlerCommits(r)
  \/ \E code \in ErrorCodes : HandlerRaises(r, code)

Finishing(r) ==
  \/ OutputRefused(r)
  \/ MarkSucceeded(r)
  \/ MarkFailed(r)

Faulting(r) == StartFault(r) \/ HandlerFault(r) \/ MarkFault(r)

EngineNext ==
  \/ \E r \in Requests :
       Admission(r) \/ Handling(r) \/ Finishing(r) \/ Faulting(r)
  \/ Crash

EngineSafety == EngineInit /\ [][EngineNext]_engineVars

(* A thread that runs a request goes on running it; a client may stay away *)
(* and faults need not happen.                                             *)
EngineFairness ==
  \A r \in Requests : WF_engineVars(Handling(r) \/ Finishing(r))

EngineSpec == EngineSafety /\ EngineFairness

-----------------------------------------------------------------------------
(* Every variable stays in its range.                                      *)
EngineTypeOK ==
  /\ call \in [Requests -> Calls]
  /\ pc \in [Requests -> {"new", "running", "committed", "failing", "done"}]
  /\ exec \in [ExecIds -> ExecutionRow]
  /\ effects \subseteq Requests
  /\ raised \in [Requests -> ErrorCodes \union {"none"}]
  /\ reply \in [Requests ->
                 ErrorCodes \union {"none", "ok", "lost", "INTERNAL_ERROR"}]
  /\ faults \in 0..MaxFaults

(* A request id never takes effect twice, however often the client sends   *)
(* it and wherever an earlier delivery of it stopped.                      *)
EffectsAtMostOncePerId ==
  \A r, s \in effects : Id(r) = Id(s) => r = s

(* The ledger says "succeeded" only of effects that are committed.         *)
SuccessIsBacked ==
  \A i \in ExecIds :
    exec[i].status = "succeeded" => \E r \in effects : Id(r) = i

(* The ledger says "failed" of committed effects only where the engine     *)
(* could not know better (a commit whose acknowledgement was lost) or      *)
(* where the handler broke its output contract, and never with an error of *)
(* the handler's own.                                                      *)
FailureIsClean ==
  \A r \in effects :
    exec[Id(r)].status = "failed" =>
      /\ exec[Id(r)].error = "ACTION_EXECUTION_FAILED"
      /\ r \in NonConforming \/ ("lost_ack" \in FaultKinds /\ faults > 0)

(* What the caller was told agrees with the ledger: a success with a row   *)
(* that succeeded, a handler's error with a row that failed with its code. *)
AnswerMatchesLedger ==
  \A r \in Requests :
    /\ reply[r] = "ok" => exec[Id(r)].status = "succeeded"
    /\ (raised[r] # "none" /\ reply[r] = raised[r]) =>
          exec[Id(r)] = [status |-> "failed", error |-> raised[r]]

(* Ledger, effects and answer tell one story, although each is written in  *)
(* a transaction of its own and any of the three may fail.                 *)
OutcomeIsTrue == SuccessIsBacked /\ FailureIsClean /\ AnswerMatchesLedger

(* A row that is open is being worked on; or a fault has struck, and then  *)
(* a caller of that id knows that it knows nothing: it got a bare 500 or a *)
(* broken connection.  No open row hides behind answered calls.            *)
LeftInDoubt(r) == faults > 0 /\ reply[r] \in {"INTERNAL_ERROR", "lost"}
OpenRowHasOwner ==
  \A i \in ExecIds :
    exec[i].status = "started" =>
      \E r \in Requests : Id(r) = i /\ (InFlight(r) \/ LeftInDoubt(r))

(* A row that is final stays as it is, whatever is delivered again later.  *)
FinalRowsStay ==
  [][\A i \in ExecIds :
       exec[i].status \in {"succeeded", "failed"} => exec'[i] = exec[i]]_engineVars

(* Every delivery that got a row is answered, or lost with the process.    *)
StartedIsAnswered ==
  \A r \in Requests : pc[r] = "running" ~> pc[r] = "done"

-----------------------------------------------------------------------------
Ledger == INSTANCE ExecutionLedger WITH
  DoubtAllowed <- NonConforming # {} \/ "lost_ack" \in FaultKinds,
  outcome <- [i \in ExecIds |-> exec[i].status],
  applied <- {Id(r) : r \in effects}

(* The engine implements the abstract ledger.                              *)
ImplementsLedger == Ledger!Spec
=============================================================================
