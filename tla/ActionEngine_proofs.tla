------------------------ MODULE ActionEngine_proofs -------------------------
(***************************************************************************)
(* Proofs about ActionEngine, for any number of deliveries, request ids    *)
(* and faults and for any handler.                                         *)
(*                                                                         *)
(* The properties rest on the ownership of execution rows: a delivery that *)
(* is in flight has the row of its id, which is still "started", for       *)
(* itself, and nothing else has ever taken effect under that id.  The      *)
(* unique index makes it so when the row is inserted; after a crash the id *)
(* stays taken, by a row that nobody owns.                                 *)
(***************************************************************************)
EXTENDS ActionEngine, TLAPS

(* What the control state of a delivery says of its other variables.       *)
Progress ==
  \A r \in Requests :
    /\ pc[r] = "new" => raised[r] = "none"
    /\ pc[r] \in {"running", "committed"} => raised[r] = "none"
    /\ pc[r] = "failing" => raised[r] \in ErrorCodes
    /\ pc[r] # "done" => reply[r] = "none"
    /\ pc[r] \in {"new", "running"} => r \notin effects
    /\ pc[r] = "committed" => r \in effects

(* An effect that a failure is about to be recorded of.                    *)
Doubt ==
  \A r \in Requests :
    pc[r] = "failing" /\ r \in effects =>
      /\ raised[r] = "ACTION_EXECUTION_FAILED"
      /\ r \in NonConforming \/ ("lost_ack" \in FaultKinds /\ faults > 0)

(* A delivery in flight has an open row, and has it for itself.            *)
Ownership ==
  /\ \A r \in Requests : InFlight(r) => exec[Id(r)].status = "started"
  /\ \A r, s \in Requests :
       InFlight(r) /\ (InFlight(s) \/ s \in effects) /\ Id(r) = Id(s) => r = s

(* Nothing takes effect without a row.                                     *)
EffectsHaveRow == \A r \in effects : exec[Id(r)].status # "absent"

EngineInv ==
  /\ EngineTypeOK
  /\ Progress
  /\ Doubt
  /\ Ownership
  /\ EffectsHaveRow
  /\ EffectsAtMostOncePerId
  /\ SuccessIsBacked
  /\ FailureIsClean
  /\ AnswerMatchesLedger
  /\ OpenRowHasOwner

-----------------------------------------------------------------------------
(* The id of a delivery is one of the ids.                                 *)
LEMMA IdType ==
  ASSUME EngineTypeOK, NEW r \in Requests
  PROVE  Id(r) \in ExecIds
BY CallsAssumption DEF EngineTypeOK, Id

(* A fault is one of those that happen, and counted within the bound.      *)
LEMMA FaultCounted ==
  ASSUME EngineTypeOK, NEW kind, Fault(kind)
  PROVE  /\ kind \in FaultKinds
         /\ faults' \in 0..MaxFaults
         /\ faults' > 0
BY FaultsAssumption DEF EngineTypeOK, Fault

(* The invariant holds before anything happens.                            *)
LEMMA InitInv == EngineInit => EngineInv
<1> SUFFICES ASSUME EngineInit PROVE EngineInv
  OBVIOUS
<1>1. EngineTypeOK
  BY FaultsAssumption
  DEF EngineInit, EngineTypeOK, NoRow, ExecutionRow, Statuses
<1>2. Progress /\ Doubt /\ Ownership
  BY DEF EngineInit, Progress, Doubt, Ownership, InFlight
<1>3. EffectsHaveRow /\ EffectsAtMostOncePerId /\ FailureIsClean
  BY DEF EngineInit, EffectsHaveRow, EffectsAtMostOncePerId, FailureIsClean
<1>4. SuccessIsBacked /\ OpenRowHasOwner
  BY DEF EngineInit, SuccessIsBacked, OpenRowHasOwner, NoRow
<1>5. AnswerMatchesLedger
  BY DEF EngineInit, AnswerMatchesLedger
<1> QED
  BY <1>1, <1>2, <1>3, <1>4, <1>5 DEF EngineInv

(* Each row keeps its owner in a step of delivery r: either r has no row   *)
(* yet and leaves the rows alone, or r answers for the row of its id.      *)
LEMMA OpenRowsStay ==
  ASSUME EngineTypeOK, Progress, OpenRowHasOwner, NEW r \in Requests,
         call' = call, faults > 0 => faults' > 0,
         \A s \in Requests : s # r => pc'[s] = pc[s] /\ reply'[s] = reply[s],
         \A i \in ExecIds : i # Id(r) => exec'[i] = exec[i],
         \/ pc[r] = "new" /\ exec' = exec
         \/ exec'[Id(r)].status = "started" => (InFlight(r) \/ LeftInDoubt(r))'
  PROVE  OpenRowHasOwner'
<1> SUFFICES ASSUME NEW i \in ExecIds, exec'[i].status = "started"
             PROVE  \E s \in Requests : Id(s) = i /\ (InFlight(s) \/ LeftInDoubt(s))'
  BY DEF OpenRowHasOwner, Id
<1>1. CASE exec'[i] = exec[i] /\ (i # Id(r) \/ pc[r] = "new")
  <2>1. PICK s \in Requests : Id(s) = i /\ (InFlight(s) \/ LeftInDoubt(s))
    BY <1>1 DEF OpenRowHasOwner
  <2>2. s # r
    BY <1>1, <2>1 DEF Progress, InFlight, LeftInDoubt
  <2> QED
    BY <2>1, <2>2 DEF InFlight, LeftInDoubt
<1>2. CASE i = Id(r) /\ (InFlight(r) \/ LeftInDoubt(r))'
  BY <1>2
<1> QED
  BY <1>1, <1>2

(* Deliveries that end before they have a row.                             *)
LEMMA RefuseInv ==
  ASSUME EngineInv, NEW r \in Requests, NEW code \in ErrorCodes,
         Refuse(r, code)
  PROVE  EngineInv'
<1> USE DEF EngineInv, Refuse, Answer
<1>1. EngineTypeOK'
  BY DEF EngineTypeOK
<1>2. Progress' /\ Doubt'
  BY DEF Progress, Doubt, EngineTypeOK
<1>3. Ownership'
  BY DEF Ownership, InFlight, Id, EngineTypeOK
<1>4. EffectsHaveRow' /\ EffectsAtMostOncePerId' /\ FailureIsClean' /\ SuccessIsBacked'
  BY DEF EffectsHaveRow, EffectsAtMostOncePerId, FailureIsClean, SuccessIsBacked, Id
<1>5. AnswerMatchesLedger'
  BY CodesAssumption DEF AnswerMatchesLedger, Progress, Id, EngineTypeOK
<1>6. OpenRowHasOwner'
  BY OpenRowsStay DEF EngineTypeOK
<1> QED
  BY <1>1, <1>2, <1>3, <1>4, <1>5, <1>6

LEMMA StartInv ==
  ASSUME EngineInv, NEW r \in Requests, Start(r)
  PROVE  EngineInv'
<1> USE DEF EngineInv, Start, SetRow
<1>0. Id(r) \in ExecIds
  BY IdType
<1>1. EngineTypeOK'
  BY <1>0 DEF EngineTypeOK, ExecutionRow, Statuses
<1>2. Progress' /\ Doubt'
  BY DEF Progress, Doubt, EngineTypeOK
<1>3. Ownership'
  BY <1>0 DEF Ownership, InFlight, Id, EngineTypeOK, EffectsHaveRow, ExecutionRow
<1>4. EffectsHaveRow' /\ EffectsAtMostOncePerId' /\ FailureIsClean' /\ SuccessIsBacked'
  BY <1>0
     DEF EffectsHaveRow, EffectsAtMostOncePerId, FailureIsClean, SuccessIsBacked, Id,
         EngineTypeOK, ExecutionRow
<1>5. AnswerMatchesLedger'
  BY <1>0 DEF AnswerMatchesLedger, Progress, Id, EngineTypeOK, ExecutionRow
<1>6. OpenRowHasOwner'
  BY <1>0, OpenRowsStay DEF EngineTypeOK, InFlight
<1> QED
  BY <1>1, <1>2, <1>3, <1>4, <1>5, <1>6

(* A repeated request id changes nothing but the answer.                   *)
LEMMA DuplicateInv ==
  ASSUME EngineInv, NEW r \in Requests, StartDuplicate(r)
  PROVE  EngineInv'
<1> USE DEF EngineInv, StartDuplicate, Answer
<1>0. Id(r) \in ExecIds
  BY IdType
<1>1. EngineTypeOK'
  BY <1>0, CodesAssumption DEF EngineTypeOK, ExecutionRow, Statuses
<1>2. Progress' /\ Doubt'
  BY CodesAssumption DEF Progress, Doubt, EngineTypeOK
<1>3. Ownership'
  BY <1>0 DEF Ownership, Progress, InFlight, Id, EngineTypeOK, ExecutionRow
<1>4. EffectsHaveRow' /\ EffectsAtMostOncePerId' /\ FailureIsClean' /\ SuccessIsBacked'
  BY <1>0
     DEF EffectsHaveRow, EffectsAtMostOncePerId, FailureIsClean, SuccessIsBacked, Progress,
         Doubt, Ownership, InFlight, Id, EngineTypeOK, ExecutionRow
<1>5. AnswerMatchesLedger'
  BY <1>0, CodesAssumption
     DEF AnswerMatchesLedger, Progress, Ownership, InFlight, Id, EngineTypeOK, ExecutionRow
<1>6. OpenRowHasOwner'
  BY <1>0, OpenRowsStay DEF EngineTypeOK, InFlight
<1> QED
  BY <1>1, <1>2, <1>3, <1>4, <1>5, <1>6


(* A row nobody will ever own: the fault that made it is counted.          *)
LEMMA StartFaultInv ==
  ASSUME EngineInv, NEW r \in Requests, StartFault(r)
  PROVE  EngineInv'
<1> USE DEF EngineInv, StartFault, Answer, SetRow
<1>0. Id(r) \in ExecIds
  BY IdType
<1>1. PICK kind : Fault(kind)
  BY DEF StartFault
<1>2. faults' \in 0..MaxFaults /\ faults' > 0
  BY <1>1, FaultCounted
<1>3. CASE Fault("db_error") /\ UNCHANGED exec
  <2>0. "db_error" \in FaultKinds
    BY <1>3 DEF Fault
  <2>1. EngineTypeOK'
    BY <1>0, <1>2, <1>3, CodesAssumption DEF EngineTypeOK, ExecutionRow, Statuses
  <2>2. Progress' /\ Doubt'
    BY <1>2, <1>3, <2>0, CodesAssumption DEF Progress, Doubt, EngineTypeOK
  <2>3. Ownership'
    BY <1>0, <1>3
       DEF Ownership, Progress, EffectsHaveRow, InFlight, Id, EngineTypeOK, ExecutionRow
  <2>4. EffectsHaveRow' /\ EffectsAtMostOncePerId' /\ SuccessIsBacked'
    BY <1>0, <1>3
       DEF EffectsHaveRow, EffectsAtMostOncePerId, SuccessIsBacked, Progress, Ownership,
           InFlight, Id, EngineTypeOK, ExecutionRow
  <2>5. FailureIsClean'
    BY <1>0, <1>2, <1>3, <2>0
       DEF FailureIsClean, Progress, Doubt, Ownership, InFlight, Id, EngineTypeOK,
           ExecutionRow
  <2>6. AnswerMatchesLedger'
    BY <1>0, <1>3, CodesAssumption
       DEF AnswerMatchesLedger, Progress, Ownership, InFlight, Id, EngineTypeOK,
           ExecutionRow
  <2>7. OpenRowHasOwner'
    BY <1>0, <1>2, <1>3, OpenRowsStay DEF EngineTypeOK, LeftInDoubt, InFlight
  <2> QED
    BY <2>1, <2>2, <2>3, <2>4, <2>5, <2>6, <2>7
<1>4. CASE Fault("lost_ack") /\ SetRow(r, [status |-> "started", error |-> "none"])
  <2>0. "lost_ack" \in FaultKinds
    BY <1>4 DEF Fault
  <2>1. EngineTypeOK'
    BY <1>0, <1>2, <1>4, CodesAssumption DEF EngineTypeOK, ExecutionRow, Statuses
  <2>2. Progress' /\ Doubt'
    BY <1>2, <1>4, <2>0, CodesAssumption DEF Progress, Doubt, EngineTypeOK
  <2>3. Ownership'
    BY <1>0, <1>4
       DEF Ownership, Progress, EffectsHaveRow, InFlight, Id, EngineTypeOK, ExecutionRow
  <2>4. EffectsHaveRow' /\ EffectsAtMostOncePerId' /\ SuccessIsBacked'
    BY <1>0, <1>4
       DEF EffectsHaveRow, EffectsAtMostOncePerId, SuccessIsBacked, Progress, Ownership,
           InFlight, Id, EngineTypeOK, ExecutionRow
  <2>5. FailureIsClean'
    BY <1>0, <1>2, <1>4, <2>0
       DEF FailureIsClean, Progress, Doubt, Ownership, InFlight, Id, EngineTypeOK,
           ExecutionRow
  <2>6. AnswerMatchesLedger'
    BY <1>0, <1>4, CodesAssumption
       DEF AnswerMatchesLedger, Progress, Ownership, InFlight, Id, EngineTypeOK,
           ExecutionRow
  <2>7. OpenRowHasOwner'
    BY <1>0, <1>2, <1>4, OpenRowsStay DEF EngineTypeOK, LeftInDoubt, InFlight
  <2> QED
    BY <2>1, <2>2, <2>3, <2>4, <2>5, <2>6, <2>7
<1> QED
  BY <1>3, <1>4 DEF StartFault


(* The handler takes effect under the id it owns.                          *)
LEMMA CommitInv ==
  ASSUME EngineInv, NEW r \in Requests, HandlerCommits(r)
  PROVE  EngineInv'
<1> USE DEF EngineInv, HandlerCommits
<1>0. Id(r) \in ExecIds
  BY IdType
<1>1. EngineTypeOK'
  BY <1>0, CodesAssumption DEF EngineTypeOK, ExecutionRow, Statuses
<1>2. Progress' /\ Doubt'
  BY CodesAssumption DEF Progress, Doubt, EngineTypeOK
<1>3. Ownership'
  BY <1>0 DEF Ownership, Progress, InFlight, Id, EngineTypeOK, ExecutionRow
<1>4. EffectsHaveRow' /\ EffectsAtMostOncePerId' /\ FailureIsClean' /\ SuccessIsBacked'
  BY <1>0
     DEF EffectsHaveRow, EffectsAtMostOncePerId, FailureIsClean, SuccessIsBacked, Progress,
         Doubt, Ownership, InFlight, Id, EngineTypeOK, ExecutionRow
<1>5. AnswerMatchesLedger'
  BY <1>0, CodesAssumption
     DEF AnswerMatchesLedger, Progress, Ownership, InFlight, Id, EngineTypeOK, ExecutionRow
<1>6. OpenRowHasOwner'
  BY <1>0, OpenRowsStay DEF EngineTypeOK, InFlight
<1> QED
  BY <1>1, <1>2, <1>3, <1>4, <1>5, <1>6


(* The handler fails, or seems to.                                         *)
LEMMA RaiseInv ==
  ASSUME EngineInv, NEW r \in Requests, NEW code \in ErrorCodes, HandlerRaises(r, code)
  PROVE  EngineInv'
<1> USE DEF EngineInv, HandlerRaises, Raise
<1>0. Id(r) \in ExecIds
  BY IdType
<1>1. EngineTypeOK'
  BY <1>0, CodesAssumption DEF EngineTypeOK, ExecutionRow, Statuses
<1>2. Progress' /\ Doubt'
  BY CodesAssumption DEF Progress, Doubt, EngineTypeOK
<1>3. Ownership'
  BY <1>0 DEF Ownership, Progress, InFlight, Id, EngineTypeOK, ExecutionRow
<1>4. EffectsHaveRow' /\ EffectsAtMostOncePerId' /\ FailureIsClean' /\ SuccessIsBacked'
  BY <1>0
     DEF EffectsHaveRow, EffectsAtMostOncePerId, FailureIsClean, SuccessIsBacked, Progress,
         Doubt, Ownership, InFlight, Id, EngineTypeOK, ExecutionRow
<1>5. AnswerMatchesLedger'
  BY <1>0, CodesAssumption
     DEF AnswerMatchesLedger, Progress, Ownership, InFlight, Id, EngineTypeOK, ExecutionRow
<1>6. OpenRowHasOwner'
  BY <1>0, OpenRowsStay DEF EngineTypeOK, InFlight
<1> QED
  BY <1>1, <1>2, <1>3, <1>4, <1>5, <1>6


(* ... by a fault, perhaps after it took effect.                           *)
LEMMA HandlerFaultInv ==
  ASSUME EngineInv, NEW r \in Requests, HandlerFault(r)
  PROVE  EngineInv'
<1> USE DEF EngineInv, HandlerFault, Raise
<1>0. Id(r) \in ExecIds
  BY IdType
<1>1. PICK kind : Fault(kind)
  BY DEF HandlerFault
<1>2. faults' \in 0..MaxFaults /\ faults' > 0
  BY <1>1, FaultCounted
<1>3. CASE Fault("db_error") /\ UNCHANGED effects
  <2>0. "db_error" \in FaultKinds
    BY <1>3 DEF Fault
  <2>1. EngineTypeOK'
    BY <1>0, <1>2, <1>3, CodesAssumption DEF EngineTypeOK, ExecutionRow, Statuses
  <2>2. Progress' /\ Doubt'
    BY <1>2, <1>3, <2>0, CodesAssumption DEF Progress, Doubt, EngineTypeOK
  <2>3. Ownership'
    BY <1>0, <1>3
       DEF Ownership, Progress, EffectsHaveRow, InFlight, Id, EngineTypeOK, ExecutionRow
  <2>4. EffectsHaveRow' /\ EffectsAtMostOncePerId' /\ SuccessIsBacked'
    BY <1>0, <1>3
       DEF EffectsHaveRow, EffectsAtMostOncePerId, SuccessIsBacked, Progress, Ownership,
           InFlight, Id, EngineTypeOK, ExecutionRow
  <2>5. FailureIsClean'
    BY <1>0, <1>2, <1>3, <2>0
       DEF FailureIsClean, Progress, Doubt, Ownership, InFlight, Id, EngineTypeOK,
           ExecutionRow
  <2>6. AnswerMatchesLedger'
    BY <1>0, <1>3, CodesAssumption
       DEF AnswerMatchesLedger, Progress, Ownership, InFlight, Id, EngineTypeOK,
           ExecutionRow
  <2>7. OpenRowHasOwner'
    BY <1>0, <1>2, <1>3, OpenRowsStay DEF EngineTypeOK, LeftInDoubt, InFlight
  <2> QED
    BY <2>1, <2>2, <2>3, <2>4, <2>5, <2>6, <2>7
<1>4. CASE Fault("lost_ack") /\ effects' = effects \union {r}
  <2>0. "lost_ack" \in FaultKinds
    BY <1>4 DEF Fault
  <2>1. EngineTypeOK'
    BY <1>0, <1>2, <1>4, CodesAssumption DEF EngineTypeOK, ExecutionRow, Statuses
  <2>2. Progress' /\ Doubt'
    BY <1>2, <1>4, <2>0, CodesAssumption DEF Progress, Doubt, EngineTypeOK
  <2>3. Ownership'
    BY <1>0, <1>4
       DEF Ownership, Progress, EffectsHaveRow, InFlight, Id, EngineTypeOK, ExecutionRow
  <2>4. EffectsHaveRow' /\ EffectsAtMostOncePerId' /\ SuccessIsBacked'
    BY <1>0, <1>4
       DEF EffectsHaveRow, EffectsAtMostOncePerId, SuccessIsBacked, Progress, Ownership,
           InFlight, Id, EngineTypeOK, ExecutionRow
  <2>5. FailureIsClean'
    BY <1>0, <1>2, <1>4, <2>0
       DEF FailureIsClean, Progress, Doubt, Ownership, InFlight, Id, EngineTypeOK,
           ExecutionRow
  <2>6. AnswerMatchesLedger'
    BY <1>0, <1>4, CodesAssumption
       DEF AnswerMatchesLedger, Progress, Ownership, InFlight, Id, EngineTypeOK,
           ExecutionRow
  <2>7. OpenRowHasOwner'
    BY <1>0, <1>2, <1>4, OpenRowsStay DEF EngineTypeOK, LeftInDoubt, InFlight
  <2> QED
    BY <2>1, <2>2, <2>3, <2>4, <2>5, <2>6, <2>7
<1> QED
  BY <1>3, <1>4 DEF HandlerFault


(* ... by what it returned.                                                *)
LEMMA OutputInv ==
  ASSUME EngineInv, NEW r \in Requests, OutputRefused(r)
  PROVE  EngineInv'
<1> USE DEF EngineInv, OutputRefused, Raise
<1>0. Id(r) \in ExecIds
  BY IdType
<1>1. EngineTypeOK'
  BY <1>0, CodesAssumption DEF EngineTypeOK, ExecutionRow, Statuses
<1>2. Progress' /\ Doubt'
  BY CodesAssumption DEF Progress, Doubt, EngineTypeOK
<1>3. Ownership'
  BY <1>0 DEF Ownership, Progress, InFlight, Id, EngineTypeOK, ExecutionRow
<1>4. EffectsHaveRow' /\ EffectsAtMostOncePerId' /\ FailureIsClean' /\ SuccessIsBacked'
  BY <1>0
     DEF EffectsHaveRow, EffectsAtMostOncePerId, FailureIsClean, SuccessIsBacked, Progress,
         Doubt, Ownership, InFlight, Id, EngineTypeOK, ExecutionRow
<1>5. AnswerMatchesLedger'
  BY <1>0, CodesAssumption
     DEF AnswerMatchesLedger, Progress, Ownership, InFlight, Id, EngineTypeOK, ExecutionRow
<1>6. OpenRowHasOwner'
  BY <1>0, OpenRowsStay DEF EngineTypeOK, InFlight
<1> QED
  BY <1>1, <1>2, <1>3, <1>4, <1>5, <1>6


(* The owner closes its row.                                               *)
LEMMA SucceedInv ==
  ASSUME EngineInv, NEW r \in Requests, MarkSucceeded(r)
  PROVE  EngineInv'
<1> USE DEF EngineInv, MarkSucceeded, Answer, SetRow, Finalizable
<1>0. Id(r) \in ExecIds
  BY IdType
<1>1. EngineTypeOK'
  BY <1>0, CodesAssumption DEF EngineTypeOK, ExecutionRow, Statuses
<1>2. Progress' /\ Doubt'
  BY CodesAssumption DEF Progress, Doubt, EngineTypeOK
<1>3. Ownership'
  BY <1>0 DEF Ownership, Progress, InFlight, Id, EngineTypeOK, ExecutionRow
<1>4. EffectsHaveRow' /\ EffectsAtMostOncePerId' /\ FailureIsClean' /\ SuccessIsBacked'
  BY <1>0
     DEF EffectsHaveRow, EffectsAtMostOncePerId, FailureIsClean, SuccessIsBacked, Progress,
         Doubt, Ownership, InFlight, Id, EngineTypeOK, ExecutionRow
<1>5. AnswerMatchesLedger'
  BY <1>0, CodesAssumption
     DEF AnswerMatchesLedger, Progress, Ownership, InFlight, Id, EngineTypeOK, ExecutionRow
<1>6. OpenRowHasOwner'
  BY <1>0, OpenRowsStay DEF EngineTypeOK, InFlight
<1> QED
  BY <1>1, <1>2, <1>3, <1>4, <1>5, <1>6


(* ... as failed, with the code the handler ended with.                    *)
LEMMA FailInv ==
  ASSUME EngineInv, NEW r \in Requests, MarkFailed(r)
  PROVE  EngineInv'
<1> USE DEF EngineInv, MarkFailed, Answer, SetRow, Finalizable
<1>0. Id(r) \in ExecIds
  BY IdType
<1>1. EngineTypeOK'
  BY <1>0, CodesAssumption DEF EngineTypeOK, ExecutionRow, Statuses
<1>2. Progress' /\ Doubt'
  BY CodesAssumption DEF Progress, Doubt, EngineTypeOK
<1>3. Ownership'
  BY <1>0 DEF Ownership, Progress, InFlight, Id, EngineTypeOK, ExecutionRow
<1>4. EffectsHaveRow' /\ EffectsAtMostOncePerId' /\ FailureIsClean' /\ SuccessIsBacked'
  BY <1>0
     DEF EffectsHaveRow, EffectsAtMostOncePerId, FailureIsClean, SuccessIsBacked, Progress,
         Doubt, Ownership, InFlight, Id, EngineTypeOK, ExecutionRow
<1>5. AnswerMatchesLedger'
  BY <1>0, CodesAssumption
     DEF AnswerMatchesLedger, Progress, Ownership, InFlight, Id, EngineTypeOK, ExecutionRow
<1>6. OpenRowHasOwner'
  BY <1>0, OpenRowsStay DEF EngineTypeOK, InFlight
<1> QED
  BY <1>1, <1>2, <1>3, <1>4, <1>5, <1>6


(* ... or leaves it, closed or open, without knowing which.                *)
LEMMA MarkFaultInv ==
  ASSUME EngineInv, NEW r \in Requests, MarkFault(r)
  PROVE  EngineInv'
<1> USE DEF EngineInv, MarkFault, Answer, SetRow, Finalizable
<1>0. Id(r) \in ExecIds
  BY IdType
<1>1. PICK kind : Fault(kind)
  BY DEF MarkFault
<1>2. faults' \in 0..MaxFaults /\ faults' > 0
  BY <1>1, FaultCounted
<1>3. CASE Fault("db_error") /\ UNCHANGED exec
  <2>0. "db_error" \in FaultKinds
    BY <1>3 DEF Fault
  <2>1. EngineTypeOK'
    BY <1>0, <1>2, <1>3, CodesAssumption DEF EngineTypeOK, ExecutionRow, Statuses
  <2>2. Progress' /\ Doubt'
    BY <1>2, <1>3, <2>0, CodesAssumption DEF Progress, Doubt, EngineTypeOK
  <2>3. Ownership'
    BY <1>0, <1>3
       DEF Ownership, Progress, EffectsHaveRow, InFlight, Id, EngineTypeOK, ExecutionRow
  <2>4. EffectsHaveRow' /\ EffectsAtMostOncePerId' /\ SuccessIsBacked'
    BY <1>0, <1>3
       DEF EffectsHaveRow, EffectsAtMostOncePerId, SuccessIsBacked, Progress, Ownership,
           InFlight, Id, EngineTypeOK, ExecutionRow
  <2>5. FailureIsClean'
    BY <1>0, <1>2, <1>3, <2>0
       DEF FailureIsClean, Progress, Doubt, Ownership, InFlight, Id, EngineTypeOK,
           ExecutionRow
  <2>6. AnswerMatchesLedger'
    BY <1>0, <1>3, CodesAssumption
       DEF AnswerMatchesLedger, Progress, Ownership, InFlight, Id, EngineTypeOK,
           ExecutionRow
  <2>7. OpenRowHasOwner'
    BY <1>0, <1>2, <1>3, OpenRowsStay DEF EngineTypeOK, LeftInDoubt, InFlight
  <2> QED
    BY <2>1, <2>2, <2>3, <2>4, <2>5, <2>6, <2>7
<1>4. CASE /\ Fault("lost_ack") /\ pc[r] = "committed"
            /\ SetRow(r, [status |-> "succeeded", error |-> "none"])
  <2>0. "lost_ack" \in FaultKinds
    BY <1>4 DEF Fault
  <2>1. EngineTypeOK'
    BY <1>0, <1>2, <1>4, CodesAssumption DEF EngineTypeOK, ExecutionRow, Statuses
  <2>2. Progress' /\ Doubt'
    BY <1>2, <1>4, <2>0, CodesAssumption DEF Progress, Doubt, EngineTypeOK
  <2>3. Ownership'
    BY <1>0, <1>4
       DEF Ownership, Progress, EffectsHaveRow, InFlight, Id, EngineTypeOK, ExecutionRow
  <2>4. EffectsHaveRow' /\ EffectsAtMostOncePerId' /\ SuccessIsBacked'
    BY <1>0, <1>4
       DEF EffectsHaveRow, EffectsAtMostOncePerId, SuccessIsBacked, Progress, Ownership,
           InFlight, Id, EngineTypeOK, ExecutionRow
  <2>5. FailureIsClean'
    BY <1>0, <1>2, <1>4, <2>0
       DEF FailureIsClean, Progress, Doubt, Ownership, InFlight, Id, EngineTypeOK,
           ExecutionRow
  <2>6. AnswerMatchesLedger'
    BY <1>0, <1>4, CodesAssumption
       DEF AnswerMatchesLedger, Progress, Ownership, InFlight, Id, EngineTypeOK,
           ExecutionRow
  <2>7. OpenRowHasOwner'
    BY <1>0, <1>2, <1>4, OpenRowsStay DEF EngineTypeOK, LeftInDoubt, InFlight
  <2> QED
    BY <2>1, <2>2, <2>3, <2>4, <2>5, <2>6, <2>7
<1>5. CASE /\ Fault("lost_ack") /\ pc[r] = "failing"
            /\ SetRow(r, [status |-> "failed", error |-> raised[r]])
  <2>0. "lost_ack" \in FaultKinds
    BY <1>5 DEF Fault
  <2>1. EngineTypeOK'
    BY <1>0, <1>2, <1>5, CodesAssumption DEF EngineTypeOK, ExecutionRow, Statuses
  <2>2. Progress' /\ Doubt'
    BY <1>2, <1>5, <2>0, CodesAssumption DEF Progress, Doubt, EngineTypeOK
  <2>3. Ownership'
    BY <1>0, <1>5
       DEF Ownership, Progress, EffectsHaveRow, InFlight, Id, EngineTypeOK, ExecutionRow
  <2>4. EffectsHaveRow' /\ EffectsAtMostOncePerId' /\ SuccessIsBacked'
    BY <1>0, <1>5
       DEF EffectsHaveRow, EffectsAtMostOncePerId, SuccessIsBacked, Progress, Ownership,
           InFlight, Id, EngineTypeOK, ExecutionRow
  <2>5. FailureIsClean'
    BY <1>0, <1>2, <1>5, <2>0
       DEF FailureIsClean, Progress, Doubt, Ownership, InFlight, Id, EngineTypeOK,
           ExecutionRow
  <2>6. AnswerMatchesLedger'
    BY <1>0, <1>5, CodesAssumption
       DEF AnswerMatchesLedger, Progress, Ownership, InFlight, Id, EngineTypeOK,
           ExecutionRow
  <2>7. OpenRowHasOwner'
    BY <1>0, <1>2, <1>5, OpenRowsStay DEF EngineTypeOK, LeftInDoubt, InFlight
  <2> QED
    BY <2>1, <2>2, <2>3, <2>4, <2>5, <2>6, <2>7
<1> QED
  BY <1>3, <1>4, <1>5 DEF MarkFault

(* A crash leaves rows without owners, and is counted.                     *)
LEMMA CrashInv ==
  ASSUME EngineInv, Crash
  PROVE  EngineInv'
<1> USE DEF EngineInv, Crash, Fault
<1>1. EngineTypeOK'
  BY FaultsAssumption DEF EngineTypeOK
<1>2. Progress' /\ Doubt'
  BY DEF Progress, Doubt, InFlight, EngineTypeOK
<1>3. Ownership'
  BY DEF Ownership, InFlight, Id, EngineTypeOK
<1>4. EffectsHaveRow' /\ EffectsAtMostOncePerId' /\ FailureIsClean' /\ SuccessIsBacked'
  BY FaultsAssumption
     DEF EffectsHaveRow, EffectsAtMostOncePerId, FailureIsClean, SuccessIsBacked, Id,
         EngineTypeOK
<1>5. AnswerMatchesLedger'
  BY CodesAssumption DEF AnswerMatchesLedger, InFlight, Id, EngineTypeOK
<1>6. OpenRowHasOwner'
  BY FaultsAssumption DEF OpenRowHasOwner, LeftInDoubt, InFlight, Id, EngineTypeOK
<1> QED
  BY <1>1, <1>2, <1>3, <1>4, <1>5, <1>6
(* Nothing happens.                                                        *)
LEMMA StutterInv ==
  ASSUME EngineInv, UNCHANGED engineVars
  PROVE  EngineInv'
<1> USE DEF EngineInv, engineVars
<1>1. EngineTypeOK'
  BY DEF EngineTypeOK
<1>2. Progress' /\ Doubt' /\ Ownership'
  BY DEF Progress, Doubt, Ownership, InFlight, Id
<1>3. EffectsHaveRow' /\ EffectsAtMostOncePerId' /\ FailureIsClean' /\ SuccessIsBacked'
  BY DEF EffectsHaveRow, EffectsAtMostOncePerId, FailureIsClean, SuccessIsBacked, Id
<1>4. AnswerMatchesLedger' /\ OpenRowHasOwner'
  BY DEF AnswerMatchesLedger, OpenRowHasOwner, LeftInDoubt, InFlight, Id
<1> QED
  BY <1>1, <1>2, <1>3, <1>4

LEMMA StepInv ==
  ASSUME EngineInv, [EngineNext]_engineVars
  PROVE  EngineInv'
<1>1. ASSUME NEW r \in Requests, Admission(r)
      PROVE  EngineInv'
  BY <1>1, RefuseInv, StartInv, DuplicateInv DEF Admission
<1>2. ASSUME NEW r \in Requests, Handling(r)
      PROVE  EngineInv'
  BY <1>2, CommitInv, RaiseInv DEF Handling
<1>3. ASSUME NEW r \in Requests, Finishing(r)
      PROVE  EngineInv'
  BY <1>3, OutputInv, SucceedInv, FailInv DEF Finishing
<1>4. ASSUME NEW r \in Requests, Faulting(r)
      PROVE  EngineInv'
  BY <1>4, StartFaultInv, HandlerFaultInv, MarkFaultInv DEF Faulting
<1> QED
  BY <1>1, <1>2, <1>3, <1>4, CrashInv, StutterInv DEF EngineNext

(* The inductive invariant of the engine (action_engine.py) holds        *)
(* throughout, for every handler.                                          *)
THEOREM EngineInvariant == EngineSafety => []EngineInv
  BY InitInv, StepInv, PTL DEF EngineSafety

-----------------------------------------------------------------------------
(* Every variable of the engine stays in its range.                        *)
THEOREM EngineTyped == EngineSafety => []EngineTypeOK
<1>1. EngineInv => EngineTypeOK
  BY DEF EngineInv
<1> QED
  BY <1>1, EngineInvariant, PTL

(* A request id takes effect at most once, through retries, crashes and    *)
(* lost acknowledgements.                                                  *)
THEOREM EffectsOnce == EngineSafety => []EffectsAtMostOncePerId
<1>1. EngineInv => EffectsAtMostOncePerId
  BY DEF EngineInv
<1> QED
  BY <1>1, EngineInvariant, PTL

(* What the ledger says is so: success of effects that are committed,      *)
(* failure of none but where a commit was in doubt or an output refused;   *)
(* and the caller is told what the ledger says.                            *)
THEOREM OutcomesAreTrue == EngineSafety => []OutcomeIsTrue
<1>1. EngineInv => OutcomeIsTrue
  BY DEF EngineInv, OutcomeIsTrue
<1> QED
  BY <1>1, EngineInvariant, PTL

(* A row that is open has a delivery at work on it, or a fault has struck  *)
(* and a caller got a bare 500 or a broken connection.                     *)
THEOREM OpenRowsAreOwned == EngineSafety => []OpenRowHasOwner
<1>1. EngineInv => OpenRowHasOwner
  BY DEF EngineInv
<1> QED
  BY <1>1, EngineInvariant, PTL

(* A step writes a row only to open it or to close it.                     *)
LEMMA StepKeepsFinalRows ==
  ASSUME EngineInv, [EngineNext]_engineVars, NEW i \in ExecIds,
         exec[i].status \in {"succeeded", "failed"}
  PROVE  exec'[i] = exec[i]
<1> USE DEF EngineInv
<1>1. CASE UNCHANGED exec
  BY <1>1
<1>2. ASSUME NEW r \in Requests, NEW row,
             exec[Id(r)].status \in {"absent", "started"}, SetRow(r, row)
      PROVE  exec'[i] = exec[i]
  BY <1>2 DEF SetRow, EngineTypeOK
<1>3. ASSUME NEW r \in Requests, Admission(r)
      PROVE  exec'[i] = exec[i]
  BY <1>1, <1>2, <1>3 DEF Admission, Refuse, Start, StartDuplicate
<1>4. ASSUME NEW r \in Requests, Handling(r)
      PROVE  exec'[i] = exec[i]
  BY <1>1, <1>4 DEF Handling, HandlerCommits, HandlerRaises, Raise
<1>5. ASSUME NEW r \in Requests, Finishing(r)
      PROVE  exec'[i] = exec[i]
  BY <1>1, <1>2, <1>5
     DEF Finishing, OutputRefused, Raise, MarkSucceeded, MarkFailed, Finalizable
<1>6. ASSUME NEW r \in Requests, Faulting(r)
      PROVE  exec'[i] = exec[i]
  BY <1>1, <1>2, <1>6 DEF Faulting, StartFault, HandlerFault, Raise, MarkFault, Finalizable
<1> QED
  BY <1>1, <1>3, <1>4, <1>5, <1>6 DEF EngineNext, Crash, engineVars

(* A row that is final stays as it is.                                     *)
THEOREM FinalRows == EngineSafety => FinalRowsStay
<1>1. EngineInv /\ [EngineNext]_engineVars
        => [\A i \in ExecIds :
              exec[i].status \in {"succeeded", "failed"} => exec'[i] = exec[i]]_engineVars
  BY StepKeepsFinalRows
<1> QED
  BY <1>1, EngineInvariant, PTL DEF EngineSafety, FinalRowsStay
-----------------------------------------------------------------------------
(* The engine implements the ledger.  Outcome and Applied are what the     *)
(* ledger sees of the engine's state; DoubtAllowed is what INSTANCE puts   *)
(* in its place.                                                           *)
Outcome == [i \in ExecIds |-> exec[i].status]
Applied == {Id(r) : r \in effects}
InDoubt == NonConforming # {} \/ "lost_ack" \in FaultKinds

LEMMA SameRows == ASSUME UNCHANGED exec PROVE Outcome' = Outcome
BY DEF Outcome

LEMMA SameEffects == ASSUME UNCHANGED <<call, effects>> PROVE Applied' = Applied
BY DEF Applied, Id

LEMMA RowWritten ==
  ASSUME EngineTypeOK, NEW r \in Requests, NEW row, SetRow(r, row)
  PROVE  Outcome' = [Outcome EXCEPT ![Id(r)] = row.status]
BY IdType DEF Outcome, SetRow, EngineTypeOK

LEMMA EffectAdded ==
  ASSUME NEW r \in Requests, UNCHANGED call, effects' = effects \union {r}
  PROVE  Applied' = Applied \union {Id(r)}
BY DEF Applied, Id

(* The four steps of the ledger, in the terms of the engine.               *)
LEMMA OpensIt ==
  ASSUME EngineInv, NEW r \in Requests, exec[Id(r)].status = "absent",
         SetRow(r, [status |-> "started", error |-> "none"]),
         UNCHANGED <<call, effects>>
  PROVE  Ledger!Next
<1>1. Outcome' = [Outcome EXCEPT ![Id(r)] = "started"] /\ Applied' = Applied
  BY RowWritten, SameEffects DEF EngineInv
<1>2. PICK i \in ExecIds : i = Id(r) /\ Outcome[i] = "absent"
  BY IdType DEF EngineInv, Outcome
<1>3. Ledger!Open(i)
  BY <1>1, <1>2 DEF Ledger!Open, Outcome, Applied
<1> QED
  BY <1>3 DEF Ledger!Next

LEMMA AppliesIt ==
  ASSUME EngineInv, NEW r \in Requests, pc[r] = "running",
         effects' = effects \union {r}, UNCHANGED <<call, exec>>
  PROVE  Ledger!Next
<1>1. Applied' = Applied \union {Id(r)} /\ Outcome' = Outcome
  BY EffectAdded, SameRows
<1>2. PICK i \in ExecIds : i = Id(r) /\ Outcome[i] = "started"
  BY IdType DEF EngineInv, Ownership, InFlight, Outcome
<1>3. Id(r) \notin Applied
  BY DEF EngineInv, EngineTypeOK, Ownership, Progress, InFlight, Applied
<1>4. Ledger!Apply(i)
  BY <1>1, <1>2, <1>3 DEF Ledger!Apply, Outcome, Applied
<1> QED
  BY <1>4 DEF Ledger!Next

LEMMA SucceedsIt ==
  ASSUME EngineInv, NEW r \in Requests, pc[r] = "committed",
         SetRow(r, [status |-> "succeeded", error |-> "none"]),
         UNCHANGED <<call, effects>>
  PROVE  Ledger!Next
<1>1. Outcome' = [Outcome EXCEPT ![Id(r)] = "succeeded"] /\ Applied' = Applied
  BY RowWritten, SameEffects DEF EngineInv
<1>2. PICK i \in ExecIds : i = Id(r) /\ Outcome[i] = "started"
  BY IdType DEF EngineInv, Ownership, InFlight, Outcome
<1>3. Id(r) \in Applied
  BY DEF EngineInv, Progress, Applied
<1>4. Ledger!Succeed(i)
  BY <1>1, <1>2, <1>3 DEF Ledger!Succeed, Outcome, Applied
<1> QED
  BY <1>4 DEF Ledger!Next

LEMMA FailsIt ==
  ASSUME EngineInv, NEW r \in Requests, pc[r] = "failing",
         SetRow(r, [status |-> "failed", error |-> raised[r]]),
         UNCHANGED <<call, effects>>
  PROVE  Ledger!Next
<1>1. Outcome' = [Outcome EXCEPT ![Id(r)] = "failed"] /\ Applied' = Applied
  BY RowWritten, SameEffects DEF EngineInv
<1>2. PICK i \in ExecIds : i = Id(r) /\ Outcome[i] = "started"
  BY IdType DEF EngineInv, Ownership, InFlight, Outcome
<1>3. Id(r) \in Applied => InDoubt
  <2> SUFFICES ASSUME NEW s \in effects, Id(s) = Id(r) PROVE InDoubt
    BY DEF Applied
  <2>1. s = r
    BY DEF EngineInv, EngineTypeOK, Ownership, InFlight
  <2> QED
    BY <2>1 DEF EngineInv, Doubt, InDoubt
<1>4. Ledger!Fail(i)
  BY <1>1, <1>2, <1>3 DEF Ledger!Fail, Outcome, Applied, InDoubt
<1> QED
  BY <1>4 DEF Ledger!Next

LEMMA Stutters ==
  ASSUME UNCHANGED <<call, exec, effects>>
  PROVE  UNCHANGED Ledger!ledgerVars
BY SameRows, SameEffects DEF Ledger!ledgerVars, Outcome, Applied

LEMMA StepRefines ==
  ASSUME EngineInv, [EngineNext]_engineVars
  PROVE  [Ledger!Next]_(Ledger!ledgerVars)
<1>1. CASE UNCHANGED <<call, exec, effects>>
  BY <1>1, Stutters
<1>2. ASSUME NEW r \in Requests, Admission(r)
      PROVE  [Ledger!Next]_(Ledger!ledgerVars)
  BY <1>1, <1>2, OpensIt DEF Admission, Refuse, Start, StartDuplicate
<1>3. ASSUME NEW r \in Requests, Handling(r)
      PROVE  [Ledger!Next]_(Ledger!ledgerVars)
  BY <1>1, <1>3, AppliesIt DEF Handling, HandlerCommits, HandlerRaises, Raise
<1>4. ASSUME NEW r \in Requests, Finishing(r)
      PROVE  [Ledger!Next]_(Ledger!ledgerVars)
  BY <1>1, <1>4, SucceedsIt, FailsIt
  DEF Finishing, OutputRefused, Raise, MarkSucceeded, MarkFailed
<1>5. ASSUME NEW r \in Requests, Faulting(r)
      PROVE  [Ledger!Next]_(Ledger!ledgerVars)
  <2>1. CASE StartFault(r)
    BY <1>1, <2>1, OpensIt DEF StartFault
  <2>2. CASE HandlerFault(r)
    BY <1>1, <2>2, AppliesIt DEF HandlerFault, Raise
  <2>3. CASE MarkFault(r)
    <3>1. CASE pc[r] = "committed"
      BY <1>1, <2>3, <3>1, SucceedsIt DEF MarkFault
    <3>2. CASE pc[r] = "failing"
      BY <1>1, <2>3, <3>2, FailsIt DEF MarkFault
    <3> QED
      BY <2>3, <3>1, <3>2 DEF MarkFault
  <2> QED
    BY <1>5, <2>1, <2>2, <2>3 DEF Faulting
<1> QED
  BY <1>1, <1>2, <1>3, <1>4, <1>5 DEF EngineNext, Crash, engineVars

(* Every behaviour of the engine is one of the ledger.                     *)
THEOREM EngineRefinesLedger == EngineSafety => ImplementsLedger
<1>1. EngineInit => Ledger!Init
  BY DEF EngineInit, Ledger!Init, NoRow
<1>2. EngineInv /\ [EngineNext]_engineVars => [Ledger!Next]_(Ledger!ledgerVars)
  BY StepRefines
<1> QED
  BY <1>1, <1>2, EngineInvariant, PTL DEF EngineSafety, ImplementsLedger, Ledger!Spec
=============================================================================
