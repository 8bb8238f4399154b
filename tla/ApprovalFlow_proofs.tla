------------------------ MODULE ApprovalFlow_proofs -------------------------
(***************************************************************************)
(* Proofs about ApprovalFlow, for any plans, transfers, stock, deliveries  *)
(* and faults.                                                             *)
(*                                                                         *)
(* The safety of an approval rests on what its transaction knows while it  *)
(* holds its locks: the plan it has locked still awaits approval, and the  *)
(* quantities it has read are still those of the table, because whoever    *)
(* changes a row holds its lock.                                           *)
(***************************************************************************)
EXTENDS ApprovalFlow, ActionEngine_proofs, FiniteSums

PastPlan == {"step", "dispatch", "source", "destination", "commit"}
PastStep == {"dispatch", "source", "destination", "commit"}

(* A handler is at a statement exactly while its transaction is open.      *)
RunningHandlers == \A r \in Requests : at[r] = "idle" <=> pc[r] # "running"

(* What a transaction knows of the rows it has locked, and holds locked.   *)
KnowsPlan(r) ==
  at[r] \in PastPlan =>
    /\ Target(r) \in Plans
    /\ plan[Target(r)] \in AwaitingApproval
    /\ lock[<<"plan", Target(r)>>] = r

KnowsStep(r) ==
  at[r] \in PastStep /\ Target(r) \in HasStep =>
    lock[<<"step", Target(r)>>] = r

(* It is about to commit a transfer.                                       *)
Transferred(r) == at[r] = "commit" /\ Reallocates(Target(r))

KnowsTransfer(r) ==
  (at[r] \in {"source", "destination"} \/ Transferred(r)) =>
    /\ Target(r) \in Frozen
    /\ TransferOf(r).from # TransferOf(r).to

KnowsSource(r) ==
  /\ at[r] = "destination" \/ Transferred(r)
  /\ TransferOf(r).from \in Positions
  => /\ lock[<<"stock", TransferOf(r).from>>] = r
     /\ read[r].source = stock[TransferOf(r).from]

KnowsDestination(r) ==
  Transferred(r) =>
    /\ RowsFound(r)
    /\ lock[<<"stock", TransferOf(r).to>>] = r
    /\ read[r].destination = stock[TransferOf(r).to]
    /\ Transferable(r)
    /\ Fits(r)

Knows(r) ==
  /\ KnowsPlan(r)
  /\ KnowsStep(r)
  /\ KnowsTransfer(r)
  /\ KnowsSource(r)
  /\ KnowsDestination(r)

LocksKnown == \A r \in Requests : Knows(r)

(* The plan of a delivery that took effect is approved.                    *)
EffectsApprove ==
  \A r \in effects : Target(r) \in Plans /\ plan[Target(r)] = "approved"

(* What holds of the committed rows.                                       *)
TablesInv ==
  /\ EffectsApprove
  /\ PlanApprovedOnce
  /\ HeldStockIsKept
  /\ ApprovalExecutesStep

FlowInv ==
  /\ EngineInv
  /\ FlowTypeOK
  /\ RunningHandlers
  /\ LocksBelongToOpenTransactions
  /\ LocksKnown
  /\ TablesInv


-----------------------------------------------------------------------------
(* The flow runs on the engine: every step of it is one of the engine, or  *)
(* leaves the engine's variables alone.                                    *)
LEMMA AbortOnEngine ==
  ASSUME NEW r \in Requests, NEW code \in FlowCodes, Abort(r, code)
  PROVE  Handling(r)
BY FlowCodesAssumption DEF Abort, Handling

LEMMA StepOnEngine ==
  ASSUME [Next]_vars
  PROVE  [EngineNext]_engineVars
<1>1. ASSUME NEW r \in Requests, Admit(r)
      PROVE  Admission(r)
  BY <1>1, FlowCodesAssumption
  DEF Admit, RefuseCall, StartApproval, RepeatedId, Admission, FlowCodes
<1>2. ASSUME NEW r \in Requests, Approve(r)
      PROVE  Handling(r) \/ UNCHANGED engineVars
  BY <1>2, AbortOnEngine
  DEF Approve, PlanNotFound, PlanNotAwaiting, LockPlan, LockStep, Advance, FlowCodes
<1>3. ASSUME NEW r \in Requests, Dispatch(r)
      PROVE  Handling(r) \/ UNCHANGED engineVars
  BY <1>3, AbortOnEngine
  DEF Dispatch, DispatchDenied, DispatchInvalid, SameWarehouse, StartChild, Advance, FlowCodes
<1>4. ASSUME NEW r \in Requests, Reallocate(r)
      PROVE  Handling(r) \/ UNCHANGED engineVars
  BY <1>4, AbortOnEngine
  DEF Reallocate, LockSource, StockRowNotFound, InsufficientStock, StockOverflow,
      LockDestination, Advance, FlowCodes
<1>5. ASSUME NEW r \in Requests, Handle(r) \/ DeadlockVictim(r)
      PROVE  Handling(r) \/ UNCHANGED engineVars
  <2>1. CASE Commit(r)
    BY <2>1 DEF Commit, Handling
  <2>2. CASE DeadlockVictim(r)
    BY <2>2, AbortOnEngine DEF DeadlockVictim, FlowCodes
  <2> QED
    BY <1>2, <1>3, <1>4, <1>5, <2>1, <2>2 DEF Handle
<1>6. ASSUME NEW r \in Requests, Finish(r) \/ FaultOf(r)
      PROVE  Finishing(r) \/ Faulting(r)
  BY <1>6 DEF Finish, FaultOf, StatementFault, CommitUnacknowledged, Faulting
<1>7. CASE Die
  BY <1>7 DEF Die, EngineNext
<1>8. CASE UNCHANGED vars
  BY <1>8 DEF vars
<1> QED
  BY <1>1, <1>5, <1>6, <1>7, <1>8 DEF Next, EngineNext

-----------------------------------------------------------------------------
(* Row locks.  A transaction only ever takes locks that are free and lets  *)
(* go of its own: whatever another one holds, it goes on holding.          *)
Keeps(s) == \A row \in Rows : lock[row] = s => lock'[row] = s

LEMMA LockedKeeps ==
  ASSUME FlowTypeOK, NEW r \in Requests, Granted(r), lock' = Locked(r),
         NEW s \in Requests
  PROVE  Keeps(s)
BY OwnerAssumption DEF Keeps, Locked, Granted, Needed, FlowTypeOK

LEMMA LockedTakes ==
  ASSUME FlowTypeOK, NEW r \in Requests, Granted(r), lock' = Locked(r)
  PROVE  /\ lock' \in [Rows -> Requests \union {NoOwner}]
         /\ \A row \in Needed(r) : lock'[row] = r
         /\ \A row \in Rows : lock'[row] \in {r, lock[row]}
BY DEF Locked, Granted, Needed, FlowTypeOK

LEMMA ReleasedKeeps ==
  ASSUME FlowTypeOK, NEW r \in Requests, lock' = Released(r),
         NEW s \in Requests, s # r
  PROVE  Keeps(s)
BY DEF Keeps, Released, FlowTypeOK

LEMMA ReleasedTakes ==
  ASSUME FlowTypeOK, NEW r \in Requests, lock' = Released(r)
  PROVE  /\ lock' \in [Rows -> Requests \union {NoOwner}]
         /\ \A row \in Rows : lock'[row] # r
         /\ \A row \in Rows : lock'[row] \in {NoOwner, lock[row]}
BY OwnerAssumption DEF Released, FlowTypeOK

LEMMA RowKinds ==
  /\ \A p \in Plans : <<"plan", p>> \in Rows
  /\ \A p \in HasStep : <<"step", p>> \in Rows
  /\ \A w \in Positions : <<"stock", w>> \in Rows
BY DEF Rows

(* What a transaction knows stays true as long as it stands still, keeps   *)
(* its locks and nobody writes the rows it has locked.                     *)
LEMMA StillKnows ==
  ASSUME FlowTypeOK, NEW s \in Requests, Knows(s), Keeps(s),
         UNCHANGED call, at'[s] = at[s], read'[s] = read[s],
         \A p \in Plans : lock[<<"plan", p>>] = s => plan'[p] = plan[p],
         \A w \in Positions : lock[<<"stock", w>>] = s => stock'[w] = stock[w]
  PROVE  Knows(s)'
<1> USE RowKinds DEF Knows, Keeps, Target, TransferOf, Transferred, Reallocates
<1>1. KnowsPlan(s)'
  BY DEF KnowsPlan
<1>2. KnowsStep(s)'
  BY DEF KnowsStep, PastStep
<1>3. KnowsTransfer(s)'
  BY DEF KnowsTransfer
<1>4. KnowsSource(s)'
  BY DEF KnowsSource
<1>5. KnowsDestination(s)'
  BY DEF KnowsDestination, RowsFound, Transferable, Fits
<1> QED
  BY <1>1, <1>2, <1>3, <1>4, <1>5

(* A transaction that has not locked anything yet knows nothing.           *)
LEMMA KnowsNothing ==
  ASSUME NEW r, at[r] \in {"idle", "plan"}
  PROVE  Knows(r)
BY DEF Knows, KnowsPlan, KnowsStep, KnowsTransfer, KnowsSource, KnowsDestination,
       PastPlan, PastStep, Transferred
-----------------------------------------------------------------------------
(* Steps that write no table.                                              *)
LEMMA TablesStay ==
  ASSUME TablesInv, UNCHANGED <<call, effects, plan, step, stock>>
  PROVE  TablesInv'
BY DEF TablesInv, EffectsApprove, PlanApprovedOnce, HeldStockIsKept,
       ApprovalExecutesStep, Target, Reallocates

LEMMA EngineTyping == ASSUME EngineInv PROVE EngineTypeOK
BY DEF EngineInv

(* The engine moves a delivery whose transaction is not open.              *)
LEMMA QuietInv ==
  ASSUME FlowInv, EngineInv', NEW r \in Requests, NEW c,
         pc[r] # "running", c # "running", pc' = [pc EXCEPT ![r] = c],
         UNCHANGED <<call, effects>>, UNCHANGED flowVars
  PROVE  FlowInv'
<1> USE DEF FlowInv, flowVars, tableVars
<1>1. FlowTypeOK'
  BY EngineTyping DEF FlowTypeOK, EngineInv
<1>2. RunningHandlers'
  BY DEF RunningHandlers, FlowTypeOK, EngineTypeOK
<1>3. LocksBelongToOpenTransactions'
  BY DEF LocksBelongToOpenTransactions, FlowTypeOK, EngineTypeOK
<1>4. LocksKnown'
  BY StillKnows DEF LocksKnown, Keeps
<1>5. TablesInv'
  BY TablesStay
<1> QED
  BY <1>1, <1>2, <1>3, <1>4, <1>5

(* A transaction opens.                                                    *)
LEMMA OpenInv ==
  ASSUME FlowInv, EngineInv', NEW r \in Requests,
         pc' = [pc EXCEPT ![r] = "running"], at' = [at EXCEPT ![r] = "plan"],
         UNCHANGED <<call, effects, tableVars, lock, read>>
  PROVE  FlowInv'
<1> USE DEF FlowInv, tableVars
<1>1. FlowTypeOK'
  BY DEF FlowTypeOK, EngineInv
<1>2. RunningHandlers'
  BY DEF RunningHandlers, FlowTypeOK, EngineTypeOK
<1>3. LocksBelongToOpenTransactions'
  BY DEF LocksBelongToOpenTransactions, FlowTypeOK, EngineTypeOK
<1>4. LocksKnown'
  <2> SUFFICES ASSUME NEW s \in Requests PROVE Knows(s)'
    BY DEF LocksKnown
  <2>1. CASE s = r
    <3>1. at'[s] = "plan"
      BY <2>1 DEF FlowTypeOK
    <3> QED
      BY <3>1 DEF Knows, KnowsPlan, KnowsStep, KnowsTransfer, KnowsSource,
                  KnowsDestination, PastPlan, PastStep, Transferred
  <2>2. CASE s # r
    BY <2>2, StillKnows DEF LocksKnown, Keeps, FlowTypeOK
  <2> QED
    BY <2>1, <2>2
<1>5. TablesInv'
  BY TablesStay
<1> QED
  BY <1>1, <1>2, <1>3, <1>4, <1>5

(* A transaction rolls back.                                               *)
LEMMA RollbackInv ==
  ASSUME FlowInv, EngineInv', NEW r \in Requests,
         pc' = [pc EXCEPT ![r] = "failing"], EndTransaction(r),
         UNCHANGED <<call, effects, tableVars>>
  PROVE  FlowInv'
<1> USE DEF FlowInv, EndTransaction, tableVars
<1>1. FlowTypeOK'
  BY ReleasedTakes, StockAssumption DEF FlowTypeOK, EngineInv, NothingRead
<1>2. RunningHandlers'
  BY DEF RunningHandlers, FlowTypeOK, EngineTypeOK
<1>3. LocksBelongToOpenTransactions'
  BY ReleasedTakes DEF LocksBelongToOpenTransactions, FlowTypeOK, EngineTypeOK
<1>4. LocksKnown'
  <2> SUFFICES ASSUME NEW s \in Requests PROVE Knows(s)'
    BY DEF LocksKnown
  <2>1. CASE s = r
    <3>1. at'[s] = "idle"
      BY <2>1 DEF FlowTypeOK
    <3> QED
      BY <3>1 DEF Knows, KnowsPlan, KnowsStep, KnowsTransfer, KnowsSource,
                  KnowsDestination, PastPlan, PastStep, Transferred
  <2>2. CASE s # r
    BY <2>2, StillKnows, ReleasedKeeps DEF LocksKnown, FlowTypeOK
  <2> QED
    BY <2>1, <2>2
<1>5. TablesInv'
  BY TablesStay
<1> QED
  BY <1>1, <1>2, <1>3, <1>4, <1>5

(* A handler gets its locks and goes on to its next statement.             *)
LEMMA AdvanceInv ==
  ASSUME FlowInv, EngineInv', NEW r \in Requests, NEW next \in PastPlan,
         at[r] # "idle", Granted(r), Advance(r, next),
         read' \in [Requests -> [source : 0..MaxStock, destination : 0..MaxStock]],
         \A s \in Requests : s # r => read'[s] = read[s],
         Knows(r)'
  PROVE  FlowInv'
<1> USE DEF FlowInv, Advance, tableVars, engineVars
<1>1. FlowTypeOK'
  BY LockedTakes DEF FlowTypeOK, EngineInv, PastPlan
<1>2. RunningHandlers'
  BY DEF RunningHandlers, FlowTypeOK, PastPlan
<1>3. LocksBelongToOpenTransactions'
  BY LockedTakes DEF LocksBelongToOpenTransactions, RunningHandlers, FlowTypeOK
<1>4. LocksKnown'
  <2> SUFFICES ASSUME NEW s \in Requests, s # r PROVE Knows(s)'
    BY DEF LocksKnown
  <2> QED
    BY StillKnows, LockedKeeps DEF LocksKnown, FlowTypeOK
<1>5. TablesInv'
  BY TablesStay
<1> QED
  BY <1>1, <1>2, <1>3, <1>4, <1>5
-----------------------------------------------------------------------------
(* The steps of the two handlers.  What a step locks it knows from then on.*)
LEMMA LockPlanInv ==
  ASSUME FlowInv, EngineInv', NEW r \in Requests, LockPlan(r)
  PROVE  FlowInv'
<1> USE DEF LockPlan, Advance
<1>1. at'[r] = "step" /\ UNCHANGED <<call, plan>>
  BY DEF FlowInv, FlowTypeOK, engineVars, tableVars
<1>2. lock'[<<"plan", Target(r)>>] = r
  BY LockedTakes, RowKinds DEF FlowInv, Needed
<1>3. Knows(r)'
  BY <1>1, <1>2
  DEF Knows, KnowsPlan, KnowsStep, KnowsTransfer, KnowsSource, KnowsDestination,
      PastStep, Transferred, Target
<1> QED
  BY <1>3, AdvanceInv DEF PastPlan, FlowInv, FlowTypeOK

LEMMA LockStepInv ==
  ASSUME FlowInv, EngineInv', NEW r \in Requests, LockStep(r)
  PROVE  FlowInv'
<1> USE DEF LockStep, Advance
<1> DEFINE next == IF Reallocates(Target(r)) THEN "dispatch" ELSE "commit"
<1>1. at'[r] = next /\ UNCHANGED <<call, plan>>
  BY DEF FlowInv, FlowTypeOK, engineVars, tableVars
<1>2. KnowsPlan(r)'
  BY <1>1, LockedKeeps, RowKinds
  DEF FlowInv, LocksKnown, Knows, KnowsPlan, Keeps, PastPlan, Target
<1>3. KnowsStep(r)'
  BY <1>1, LockedTakes, RowKinds DEF FlowInv, KnowsStep, Needed, Target
<1>4. KnowsTransfer(r)' /\ KnowsSource(r)' /\ KnowsDestination(r)'
  BY <1>1
  DEF KnowsTransfer, KnowsSource, KnowsDestination, Transferred, Target, Reallocates
<1>5. Knows(r)'
  BY <1>2, <1>3, <1>4 DEF Knows
<1> QED
  BY <1>5, AdvanceInv DEF PastPlan, FlowInv, FlowTypeOK

LEMMA StartChildInv ==
  ASSUME FlowInv, EngineInv', NEW r \in Requests, StartChild(r)
  PROVE  FlowInv'
<1> USE DEF StartChild, Advance
<1>1. at'[r] = "source" /\ UNCHANGED <<call, plan>>
  BY DEF FlowInv, FlowTypeOK, engineVars, tableVars
<1>2. Granted(r)
  BY DEF Granted, Needed
<1>3. KnowsPlan(r)' /\ KnowsStep(r)'
  BY <1>1, <1>2, LockedKeeps, RowKinds
  DEF FlowInv, LocksKnown, Knows, KnowsPlan, KnowsStep, Keeps, PastPlan, PastStep, Target
<1>4. KnowsTransfer(r)' /\ KnowsSource(r)' /\ KnowsDestination(r)'
  BY <1>1
  DEF KnowsTransfer, KnowsSource, KnowsDestination, Transferred, Target, TransferOf,
      ChildInputValid
<1>5. Knows(r)'
  BY <1>3, <1>4 DEF Knows
<1> QED
  BY <1>2, <1>5, AdvanceInv DEF PastPlan, FlowInv, FlowTypeOK

LEMMA LockSourceInv ==
  ASSUME FlowInv, EngineInv', NEW r \in Requests, LockSource(r)
  PROVE  FlowInv'
<1> USE DEF LockSource, Advance
<1>1. at'[r] = "destination" /\ UNCHANGED <<call, plan, stock>>
  BY DEF FlowInv, FlowTypeOK, engineVars, tableVars
<1>2. read' \in [Requests -> [source : 0..MaxStock, destination : 0..MaxStock]]
  BY DEF FlowInv, FlowTypeOK
<1>3. KnowsPlan(r)' /\ KnowsStep(r)'
  BY <1>1, LockedKeeps, RowKinds
  DEF FlowInv, LocksKnown, Knows, KnowsPlan, KnowsStep, Keeps, PastPlan, PastStep, Target
<1>4. KnowsTransfer(r)'
  BY <1>1 DEF FlowInv, LocksKnown, Knows, KnowsTransfer, Transferred, Target, TransferOf
<1>5. KnowsSource(r)'
  <2> SUFFICES ASSUME TransferOf(r).from \in Positions
               PROVE  /\ lock'[<<"stock", TransferOf(r).from>>] = r
                      /\ read'[r].source = stock[TransferOf(r).from]
    BY <1>1 DEF KnowsSource, Target, TransferOf
  <2>1. lock'[<<"stock", TransferOf(r).from>>] = r
    BY LockedTakes, RowKinds DEF FlowInv, Needed
  <2>2. read'[r].source = stock[TransferOf(r).from]
    BY DEF FlowInv, FlowTypeOK
  <2> QED
    BY <2>1, <2>2
<1>6. KnowsDestination(r)'
  BY <1>1 DEF KnowsDestination, Transferred
<1>7. Knows(r)'
  BY <1>3, <1>4, <1>5, <1>6 DEF Knows
<1>8. \A s \in Requests : s # r => read'[s] = read[s]
  BY DEF FlowInv, FlowTypeOK
<1> QED
  BY <1>2, <1>7, <1>8, AdvanceInv DEF PastPlan

LEMMA LockDestinationInv ==
  ASSUME FlowInv, EngineInv', NEW r \in Requests, LockDestination(r)
  PROVE  FlowInv'
<1> USE DEF LockDestination, AtDestination, Advance
<1>1. at'[r] = "commit" /\ UNCHANGED <<call, plan, stock>>
  BY DEF FlowInv, FlowTypeOK, engineVars, tableVars
<1>2. read' \in [Requests -> [source : 0..MaxStock, destination : 0..MaxStock]]
  BY DEF FlowInv, FlowTypeOK, RowsFound
<1>3. KnowsPlan(r)' /\ KnowsStep(r)'
  BY <1>1, LockedKeeps, RowKinds
  DEF FlowInv, LocksKnown, Knows, KnowsPlan, KnowsStep, Keeps, PastPlan, PastStep, Target
<1>4. KnowsTransfer(r)'
  BY <1>1 DEF FlowInv, LocksKnown, Knows, KnowsTransfer, Target, TransferOf
<1>5. read'[r].source = read[r].source /\ read'[r].destination = stock[TransferOf(r).to]
  BY DEF FlowInv, FlowTypeOK
<1>6. KnowsSource(r)'
  BY <1>1, <1>5, LockedKeeps, RowKinds
  DEF FlowInv, LocksKnown, Knows, KnowsSource, Keeps, Target, TransferOf
<1>7. lock'[<<"stock", TransferOf(r).to>>] = r
  BY LockedTakes, RowKinds DEF FlowInv, Needed, RowsFound
<1>8. KnowsDestination(r)'
  BY <1>1, <1>5, <1>7
  DEF KnowsDestination, RowsFound, Transferable, Fits, Target, TransferOf
<1>9. Knows(r)'
  BY <1>3, <1>4, <1>6, <1>8 DEF Knows
<1>10. \A s \in Requests : s # r => read'[s] = read[s]
  BY DEF FlowInv, FlowTypeOK
<1> QED
  BY <1>2, <1>9, <1>10, AdvanceInv DEF PastPlan

LEMMA DieInv ==
  ASSUME FlowInv, EngineInv', Die
  PROVE  FlowInv'
<1> USE DEF FlowInv, Die, tableVars
<1>1. FlowTypeOK'
  BY StockAssumption DEF FlowTypeOK, EngineInv, NothingRead
<1>2. RunningHandlers'
  BY DEF RunningHandlers, Crash, InFlight, EngineInv, EngineTypeOK
<1>3. LocksBelongToOpenTransactions'
  BY DEF LocksBelongToOpenTransactions
<1>4. LocksKnown'
  BY DEF LocksKnown, Knows, KnowsPlan, KnowsStep, KnowsTransfer, KnowsSource,
         KnowsDestination, PastPlan, PastStep, Transferred
<1>5. TablesInv'
  BY TablesStay DEF Crash
<1> QED
  BY <1>1, <1>2, <1>3, <1>4, <1>5
-----------------------------------------------------------------------------
(* The commit of an approval.  The plan still awaited it and the stock is  *)
(* still what the handler has read, so what it writes is right.            *)
LEMMA CommitWrites ==
  ASSUME FlowInv, NEW r \in Requests, at[r] = "commit"
  PROVE  /\ Target(r) \in Plans
         /\ plan[Target(r)] \in AwaitingApproval
         /\ \A s \in Requests : s # r => lock[<<"plan", Target(r)>>] # s
         /\ Reallocates(Target(r)) =>
              /\ Target(r) \in Frozen
              /\ TransferOf(r).from \in Positions
              /\ TransferOf(r).to \in Positions
              /\ TransferOf(r).from # TransferOf(r).to
              /\ lock[<<"stock", TransferOf(r).from>>] = r
              /\ lock[<<"stock", TransferOf(r).to>>] = r
              /\ read[r].source = stock[TransferOf(r).from]
              /\ read[r].destination = stock[TransferOf(r).to]
              /\ NewSource(r) \in Held[TransferOf(r).from]..MaxStock
              /\ NewDestination(r) \in stock[TransferOf(r).to]..2*MaxStock
              /\ Stored(NewDestination(r)) <= MaxStock
<1>1. Knows(r)
  BY DEF FlowInv, LocksKnown
<1>2. /\ Target(r) \in Plans
      /\ plan[Target(r)] \in AwaitingApproval
      /\ lock[<<"plan", Target(r)>>] = r
  BY <1>1 DEF Knows, KnowsPlan, PastPlan
<1>3. ASSUME Reallocates(Target(r))
      PROVE  /\ Target(r) \in Frozen
             /\ TransferOf(r).from \in Positions
             /\ TransferOf(r).to \in Positions
             /\ TransferOf(r).from # TransferOf(r).to
             /\ lock[<<"stock", TransferOf(r).from>>] = r
             /\ lock[<<"stock", TransferOf(r).to>>] = r
             /\ read[r].source = stock[TransferOf(r).from]
             /\ read[r].destination = stock[TransferOf(r).to]
             /\ Transferable(r)
             /\ Fits(r)
  BY <1>1, <1>3
  DEF Knows, KnowsTransfer, KnowsSource, KnowsDestination, Transferred, RowsFound
<1>4. ASSUME Reallocates(Target(r))
      PROVE  /\ NewSource(r) \in Held[TransferOf(r).from]..MaxStock
             /\ NewDestination(r) \in stock[TransferOf(r).to]..2*MaxStock
             /\ Stored(NewDestination(r)) <= MaxStock
  <2>1. TransferOf(r).quantity \in Nat
    BY <1>3, <1>4, TransferAssumption DEF TransferOf
  <2>2. /\ stock[TransferOf(r).from] \in 0..MaxStock
        /\ stock[TransferOf(r).to] \in 0..MaxStock
        /\ Held[TransferOf(r).from] \in 0..MaxStock
        /\ MaxStock \in Nat
    BY <1>3, <1>4, StockAssumption DEF FlowInv, FlowTypeOK
  <2> QED
    BY <1>3, <1>4, <2>1, <2>2 DEF Transferable, Fits, NewSource, NewDestination
<1> QED
  BY <1>2, <1>3, <1>4

(* It writes each position it changes with a quantity that keeps what is   *)
(* held, and leaves the others alone.                                      *)
LEMMA CommitStock ==
  ASSUME FlowInv, NEW r \in Requests, at[r] = "commit", ApplyChild(r)
  PROVE  /\ stock' \in [Positions -> 0..MaxStock]
         /\ HeldStockIsKept'
         /\ \A w \in Positions : lock[<<"stock", w>>] # r => stock'[w] = stock[w]
<1>1. CASE ~Reallocates(Target(r))
  BY <1>1 DEF ApplyChild, FlowInv, FlowTypeOK, TablesInv, HeldStockIsKept
<1>2. CASE Reallocates(Target(r))
  <2> DEFINE from == TransferOf(r).from
             to == TransferOf(r).to
  <2>1. /\ from \in Positions
        /\ to \in Positions
        /\ from # to
        /\ lock[<<"stock", from>>] = r
        /\ lock[<<"stock", to>>] = r
        /\ NewSource(r) \in Held[from]..MaxStock
        /\ NewDestination(r) \in stock[to]..2*MaxStock
        /\ Stored(NewDestination(r)) <= MaxStock
    BY <1>2, CommitWrites
  <2>2. stock \in [Positions -> 0..MaxStock]
    BY DEF FlowInv, FlowTypeOK
  <2>3. /\ NewSource(r) \in 0..MaxStock
        /\ NewDestination(r) \in 0..2*MaxStock
        /\ Held[from] <= NewSource(r)
        /\ stock[to] <= NewDestination(r)
    BY <2>1, <2>2, StockAssumption
  <2>4. /\ Stored(NewSource(r)) \in 0..MaxStock
        /\ Stored(NewDestination(r)) \in 0..MaxStock
    <3>1. /\ Stored(NewSource(r)) \in Nat
          /\ Stored(NewSource(r)) <= Stored(MaxStock)
          /\ Stored(NewDestination(r)) \in Nat
      BY <2>3, StockAssumption, StoredAssumption
    <3> QED
      BY <2>1, <3>1, StockAssumption, StoredAssumption
  <2>5. /\ stock' \in [Positions -> 0..MaxStock]
        /\ stock'[from] = Stored(NewSource(r))
        /\ stock'[to] = Stored(NewDestination(r))
        /\ \A w \in Positions \ {from, to} : stock'[w] = stock[w]
    BY <1>2, <2>1, <2>2, <2>4 DEF ApplyChild, StockAfter
  <2>6. ASSUME NEW w \in Positions
        PROVE  stock'[w] >= Held[w] \/ stock'[w] >= FirstStock[w]
    <3>1. /\ Held[w] \in 0..MaxStock
          /\ FirstStock[w] \in 0..MaxStock
          /\ stock[w] >= Held[w] \/ stock[w] >= FirstStock[w]
          /\ Stored(Held[w]) = Held[w]
          /\ Stored(FirstStock[w]) = FirstStock[w]
      BY StockAssumption, StoredAssumption DEF FlowInv, TablesInv, HeldStockIsKept
    <3>2. CASE w = from
      <4>1. Stored(Held[from]) <= Stored(NewSource(r))
        BY <2>3, <3>1, <3>2, StockAssumption, StoredAssumption
      <4> QED
        BY <2>4, <2>5, <3>1, <3>2, <4>1
    <3>3. CASE w = to /\ stock[w] >= Held[w]
      <4>0. Held[to] <= NewDestination(r)
        BY <2>2, <2>3, <3>1, <3>3
      <4>1. Stored(Held[to]) <= Stored(NewDestination(r))
        BY <2>3, <3>1, <3>3, <4>0, StockAssumption, StoredAssumption
      <4> QED
        BY <2>4, <2>5, <3>1, <3>3, <4>1
    <3>4. CASE w = to /\ stock[w] >= FirstStock[w]
      <4>0. FirstStock[to] <= NewDestination(r)
        BY <2>2, <2>3, <3>1, <3>4
      <4>1. Stored(FirstStock[to]) <= Stored(NewDestination(r))
        BY <2>3, <3>1, <3>4, <4>0, StockAssumption, StoredAssumption
      <4> QED
        BY <2>4, <2>5, <3>1, <3>4, <4>1
    <3>5. CASE w \notin {from, to}
      BY <2>5, <3>1, <3>5
    <3> QED
      BY <3>1, <3>2, <3>3, <3>4, <3>5
  <2> HIDE DEF from, to
  <2> QED
    BY <2>1, <2>5, <2>6 DEF HeldStockIsKept
<1> QED
  BY <1>1, <1>2

LEMMA EffectInv ==
  ASSUME FlowInv, EngineInv', NEW r \in Requests, at[r] = "commit",
         NEW c, c # "running", pc' = [pc EXCEPT ![r] = c],
         effects' = effects \union {r}, UNCHANGED call, ApplyApproval(r)
  PROVE  FlowInv'
<1> USE DEF FlowInv, ApplyApproval, EndTransaction
<1>0. Id(r) \in ExecIds /\ Target(r) \in Plans /\ plan[Target(r)] \in AwaitingApproval
  BY IdType, EngineTyping, CommitWrites
<1>1. FlowTypeOK'
  <2>1. stock' \in [Positions -> 0..MaxStock]
    BY CommitStock
  <2>2. step' \in [HasStep -> {"pending", "executed"}]
    BY DEF FlowTypeOK, ApplyChild
  <2>3. childRow' \in [ExecIds -> {"absent", "succeeded"}]
    BY DEF FlowTypeOK, ApplyChild
  <2>4. stockAudit' \subseteq
          [by : Requests, position : Positions, before : Nat, after : Nat]
    <3>1. CASE Reallocates(Target(r))
      <4>1. /\ TransferOf(r).from \in Positions
            /\ TransferOf(r).to \in Positions
            /\ read[r].source \in Nat
            /\ read[r].destination \in Nat
            /\ NewSource(r) \in Nat
            /\ NewDestination(r) \in Nat
        <5>1. /\ TransferOf(r).from \in Positions
              /\ TransferOf(r).to \in Positions
              /\ NewSource(r) \in Held[TransferOf(r).from]..MaxStock
              /\ NewDestination(r) \in stock[TransferOf(r).to]..2*MaxStock
          BY <3>1, CommitWrites
        <5>2. /\ Held[TransferOf(r).from] \in Nat
              /\ stock[TransferOf(r).to] \in Nat
          BY <5>1, StockAssumption DEF FlowTypeOK
        <5>3. read[r] \in [source : 0..MaxStock, destination : 0..MaxStock]
          BY DEF FlowTypeOK
        <5> QED
          BY <5>1, <5>2, <5>3, StockAssumption
      <4> QED
        BY <3>1, <4>1 DEF FlowTypeOK, ApplyChild, StockAuditOf, StockAuditRow
    <3>2. CASE ~Reallocates(Target(r))
      BY <3>2 DEF FlowTypeOK, ApplyChild
    <3> QED
      BY <3>1, <3>2
  <2>5. plan' \in [Plans -> PlanStatuses]
    BY <1>0 DEF FlowTypeOK, PlanStatuses
  <2>6. planAudit' \subseteq [by : Requests, plan : Plans, before : PlanStatuses]
    BY <1>0 DEF FlowTypeOK
  <2>7. /\ at' \in [Requests -> {"idle", "plan", "step", "dispatch", "source",
                                  "destination", "commit"}]
        /\ lock' \in [Rows -> Requests \union {NoOwner}]
        /\ read' \in [Requests -> [source : 0..MaxStock, destination : 0..MaxStock]]
    BY ReleasedTakes, StockAssumption DEF FlowTypeOK, NothingRead
  <2> QED
    BY <2>1, <2>2, <2>3, <2>4, <2>5, <2>6, <2>7 DEF FlowTypeOK, EngineInv
<1>2. RunningHandlers'
  BY DEF RunningHandlers, FlowTypeOK, EngineTypeOK
<1>3. LocksBelongToOpenTransactions'
  BY ReleasedTakes DEF LocksBelongToOpenTransactions, FlowTypeOK, EngineTypeOK
<1>4. LocksKnown'
  <2> SUFFICES ASSUME NEW s \in Requests PROVE Knows(s)'
    BY DEF LocksKnown
  <2>1. CASE s = r
    <3>1. at'[s] = "idle"
      BY <2>1 DEF FlowTypeOK
    <3> QED
      BY <3>1 DEF Knows, KnowsPlan, KnowsStep, KnowsTransfer, KnowsSource,
                  KnowsDestination, PastPlan, PastStep, Transferred
  <2>2. CASE s # r
    <3>1. \A p \in Plans : lock[<<"plan", p>>] = s => plan'[p] = plan[p]
      <4>1. lock[<<"plan", Target(r)>>] # s
        BY <2>2, CommitWrites
      <4> QED
        BY <4>1 DEF FlowTypeOK
    <3>2. \A w \in Positions : lock[<<"stock", w>>] = s => stock'[w] = stock[w]
      BY <2>2, CommitStock
    <3>3. at'[s] = at[s] /\ read'[s] = read[s]
      BY <2>2 DEF FlowTypeOK
    <3>4. Knows(s) /\ Keeps(s)
      BY <2>2, ReleasedKeeps DEF LocksKnown
    <3> QED
      BY <3>1, <3>2, <3>3, <3>4, StillKnows
  <2> QED
    BY <2>1, <2>2
<1>5. TablesInv'
  <2>1. \A p \in Plans : plan'[p] = IF p = Target(r) THEN "approved" ELSE plan[p]
    BY DEF FlowTypeOK
  <2>2. EffectsApprove'
    BY <1>0, <2>1 DEF TablesInv, EffectsApprove, Target
  <2>3. PlanApprovedOnce'
    <3>1. \A s \in effects : Target(s) # Target(r)
      BY <1>0 DEF TablesInv, EffectsApprove, AwaitingApproval
    <3> QED
      BY <3>1 DEF TablesInv, PlanApprovedOnce, Target
  <2>4. HeldStockIsKept'
    BY CommitStock
  <2>5. \A p \in HasStep : step'[p] = "executed" <=> plan'[p] = "approved"
    <3>1. \A p \in HasStep : p # Target(r) => step'[p] = step[p]
      BY DEF ApplyChild, FlowTypeOK
    <3>2. Target(r) \in HasStep => step'[Target(r)] = "executed"
      BY DEF ApplyChild, FlowTypeOK, Reallocates
    <3> QED
      BY <2>1, <3>1, <3>2, PlansAssumption DEF TablesInv, ApprovalExecutesStep
  <2>6. \A p \in Plans : Reallocates(p) /\ plan'[p] = "approved" => p \in Frozen
    <3>1. Reallocates(Target(r)) => Target(r) \in Frozen
      BY CommitWrites
    <3> QED
      BY <2>1, <3>1 DEF TablesInv, ApprovalExecutesStep
  <2> QED
    BY <2>2, <2>3, <2>4, <2>5, <2>6 DEF TablesInv, ApprovalExecutesStep, Reallocates
<1> QED
  BY <1>1, <1>2, <1>3, <1>4, <1>5
-----------------------------------------------------------------------------
LEMMA FlowInitInv == FlowInit => FlowInv
<1> SUFFICES ASSUME FlowInit PROVE FlowInv
  OBVIOUS
<1> USE DEF FlowInit
<1>1. EngineInv
  BY InitInv
<1>2. FlowTypeOK
  BY <1>1, EngineTyping, StockAssumption, PlansAssumption
  DEF FlowTypeOK, PlanStatuses, NothingRead
<1>3. RunningHandlers
  BY DEF RunningHandlers, EngineInit
<1>4. LocksBelongToOpenTransactions
  BY DEF LocksBelongToOpenTransactions
<1>5. LocksKnown
  BY KnowsNothing DEF LocksKnown
<1>6. TablesInv
  <2>1. EffectsApprove /\ PlanApprovedOnce
    BY DEF EffectsApprove, PlanApprovedOnce, EngineInit
  <2>2. HeldStockIsKept
    BY StockAssumption DEF HeldStockIsKept
  <2>3. ApprovalExecutesStep
    BY PlansAssumption DEF ApprovalExecutesStep
  <2> QED
    BY <2>1, <2>2, <2>3 DEF TablesInv
<1> QED
  BY <1>1, <1>2, <1>3, <1>4, <1>5, <1>6 DEF FlowInv

LEMMA AbortInv ==
  ASSUME FlowInv, EngineInv', NEW r \in Requests, NEW code, Abort(r, code)
  PROVE  FlowInv'
BY RollbackInv DEF Abort, HandlerRaises, Raise

LEMMA FlowStepInv ==
  ASSUME FlowInv, [Next]_vars
  PROVE  FlowInv'
<1>0. EngineInv'
  BY StepOnEngine, StepInv DEF FlowInv
<1>1. ASSUME NEW r \in Requests, Admit(r)
      PROVE  FlowInv'
  <2>1. CASE RefuseCall(r)
    BY <1>0, <2>1, QuietInv DEF RefuseCall, Refuse, Answer
  <2>2. CASE StartApproval(r)
    BY <1>0, <2>2, OpenInv DEF StartApproval, Start
  <2>3. CASE RepeatedId(r)
    BY <1>0, <2>3, QuietInv DEF RepeatedId, StartDuplicate, Answer
  <2> QED
    BY <1>1, <2>1, <2>2, <2>3 DEF Admit
<1>2. ASSUME NEW r \in Requests, Approve(r)
      PROVE  FlowInv'
  BY <1>0, <1>2, AbortInv, LockPlanInv, LockStepInv
  DEF Approve, PlanNotFound, PlanNotAwaiting
<1>3. ASSUME NEW r \in Requests, Dispatch(r)
      PROVE  FlowInv'
  BY <1>0, <1>3, AbortInv, StartChildInv
  DEF Dispatch, DispatchDenied, DispatchInvalid, SameWarehouse
<1>4. ASSUME NEW r \in Requests, Reallocate(r)
      PROVE  FlowInv'
  BY <1>0, <1>4, AbortInv, LockSourceInv, LockDestinationInv
  DEF Reallocate, StockRowNotFound, InsufficientStock, StockOverflow
<1>5. ASSUME NEW r \in Requests, Commit(r)
      PROVE  FlowInv'
  BY <1>0, <1>5, EffectInv DEF Commit, HandlerCommits
<1>6. ASSUME NEW r \in Requests, Finish(r)
      PROVE  FlowInv'
  BY <1>0, <1>6, QuietInv
  DEF Finish, Finishing, OutputRefused, MarkSucceeded, MarkFailed, Raise, Answer
<1>7. ASSUME NEW r \in Requests, DeadlockVictim(r)
      PROVE  FlowInv'
  BY <1>0, <1>7, AbortInv DEF DeadlockVictim
<1>8. ASSUME NEW r \in Requests, FaultOf(r)
      PROVE  FlowInv'
  <2>1. CASE StartFault(r) /\ UNCHANGED flowVars
    BY <1>0, <2>1, QuietInv DEF StartFault, Answer
  <2>2. CASE MarkFault(r) /\ UNCHANGED flowVars
    BY <1>0, <2>2, QuietInv DEF MarkFault, Answer
  <2>3. CASE StatementFault(r)
    BY <1>0, <2>3, RollbackInv DEF StatementFault, HandlerFault, Raise
  <2>4. CASE CommitUnacknowledged(r)
    <3>1. effects' = effects \union {r}
      BY <2>4 DEF CommitUnacknowledged, HandlerFault
    <3> QED
      BY <1>0, <2>4, <3>1, EffectInv DEF CommitUnacknowledged, HandlerFault, Raise
  <2> QED
    BY <1>8, <2>1, <2>2, <2>3, <2>4 DEF FaultOf
<1>9. CASE Die
  BY <1>0, <1>9, DieInv
<1>10. CASE UNCHANGED vars
  BY <1>0, <1>10, StillKnows, TablesStay
  DEF vars, flowVars, tableVars, engineVars, FlowInv, FlowTypeOK, EngineInv,
      RunningHandlers, LocksBelongToOpenTransactions, LocksKnown, Keeps
<1> QED
  BY <1>1, <1>2, <1>3, <1>4, <1>5, <1>6, <1>7, <1>8, <1>9, <1>10 DEF Next, Handle

(* The inductive invariant: the engine's, and beside it what transactions  *)
(* know of the rows they hold and what the committed rows say.             *)
THEOREM FlowInvariant == Safety => []FlowInv
<1>1. FlowInit => FlowInv
  BY FlowInitInv
<1>2. FlowInv /\ [Next]_vars => FlowInv'
  BY FlowStepInv
<1> QED
  BY <1>1, <1>2, PTL DEF Safety

(* Every variable of the approval flow stays in its range: in particular   *)
(* no quantity goes below zero or beyond what its column can hold.         *)
THEOREM FlowTyped == Safety => []FlowTypeOK
<1>1. FlowInv => FlowTypeOK
  BY DEF FlowInv
<1> QED
  BY <1>1, FlowInvariant, PTL

(* No exception, commit or crash leaves a row lock behind.                 *)
THEOREM LocksAreReleased == Safety => []LocksBelongToOpenTransactions
<1>1. FlowInv => LocksBelongToOpenTransactions
  BY DEF FlowInv
<1> QED
  BY <1>1, FlowInvariant, PTL

(* Of all the deliveries that ever approve a plan, one takes effect.       *)
THEOREM ApprovedOnce == Safety => []PlanApprovedOnce
<1>1. FlowInv => PlanApprovedOnce
  BY DEF FlowInv, TablesInv
<1> QED
  BY <1>1, FlowInvariant, PTL

(* No transfer digs into reserved and safety stock, whatever competes.     *)
THEOREM StockIsHeld == Safety => []HeldStockIsKept
<1>1. FlowInv => HeldStockIsKept
  BY DEF FlowInv, TablesInv
<1> QED
  BY <1>1, FlowInvariant, PTL

(* A plan is approved exactly when its reallocate_inventory step, if it    *)
(* has one, is executed, and only if there was a transfer to execute.      *)
THEOREM StepsExecuted == Safety => []ApprovalExecutesStep
<1>1. FlowInv => ApprovalExecutesStep
  BY DEF FlowInv, TablesInv
<1> QED
  BY <1>1, FlowInvariant, PTL
-----------------------------------------------------------------------------
(* The trail of an approval.  Committed rows change in one kind of step.   *)
Takes(r) ==
  /\ at[r] = "commit"
  /\ effects' = effects \union {r}
  /\ UNCHANGED call
  /\ ApplyApproval(r)

LEMMA RowsChangeByEffect ==
  ASSUME [Next]_vars
  PROVE  \/ UNCHANGED <<call, effects, tableVars>>
         \/ \E r \in Requests : Takes(r)
<1> USE DEF tableVars, flowVars
<1>1. ASSUME NEW r \in Requests, NEW code, Abort(r, code)
      PROVE  UNCHANGED <<call, effects, tableVars>>
  BY <1>1 DEF Abort, HandlerRaises, Raise
<1>2. ASSUME NEW r \in Requests, Admit(r)
      PROVE  UNCHANGED <<call, effects, tableVars>>
  BY <1>2 DEF Admit, RefuseCall, Refuse, StartApproval, Start, RepeatedId, StartDuplicate
<1>3. ASSUME NEW r \in Requests, Approve(r) \/ Dispatch(r) \/ Reallocate(r)
      PROVE  UNCHANGED <<call, effects, tableVars>>
  BY <1>1, <1>3
  DEF Approve, PlanNotFound, PlanNotAwaiting, LockPlan, LockStep, Dispatch, DispatchDenied,
      DispatchInvalid, SameWarehouse, StartChild, Reallocate, LockSource, StockRowNotFound,
      InsufficientStock, StockOverflow, LockDestination, Advance, engineVars
<1>4. ASSUME NEW r \in Requests, Commit(r)
      PROVE  Takes(r)
  BY <1>4 DEF Commit, HandlerCommits, Takes
<1>5. ASSUME NEW r \in Requests, Finish(r)
      PROVE  UNCHANGED <<call, effects, tableVars>>
  BY <1>5 DEF Finish, Finishing, OutputRefused, MarkSucceeded, MarkFailed, Raise
<1>6. ASSUME NEW r \in Requests, DeadlockVictim(r)
      PROVE  UNCHANGED <<call, effects, tableVars>>
  BY <1>1, <1>6 DEF DeadlockVictim
<1>7. ASSUME NEW r \in Requests, FaultOf(r)
      PROVE  Takes(r) \/ UNCHANGED <<call, effects, tableVars>>
  BY <1>7 DEF FaultOf, StartFault, MarkFault, StatementFault, CommitUnacknowledged,
              HandlerFault, Raise, Takes
<1>8. CASE Die
  BY <1>8 DEF Die, Crash
<1>9. CASE UNCHANGED vars
  BY <1>9 DEF vars, engineVars
<1> QED
  BY <1>2, <1>3, <1>4, <1>5, <1>6, <1>7, <1>8, <1>9 DEF Next, Handle

(* Which audit rows there are, and whose.                                  *)
ApprovalsAudited ==
  /\ \A a \in planAudit : a.by \in effects /\ a.plan = Target(a.by)
  /\ \A r \in effects : \E a \in planAudit : a.by = r

TransfersAudited ==
  /\ \A a \in stockAudit : a.by \in effects /\ Reallocates(Target(a.by))
  /\ \A r \in effects :
       Reallocates(Target(r)) =>
         /\ childRow[Id(r)] = "succeeded"
         /\ \E a, b \in stockAudit : a # b /\ {c \in stockAudit : c.by = r} = {a, b}

TrailInv == ApprovalsAudited /\ TransfersAudited

(* It is new, and if it reallocates its two changes are new to the trail.  *)
LEMMA TakesOnce ==
  ASSUME FlowInv, NEW r \in Requests, Takes(r)
  PROVE  r \notin effects
BY CommitWrites DEF Takes, FlowInv, TablesInv, EffectsApprove, AwaitingApproval

LEMMA EffectTrail ==
  ASSUME FlowInv, TrailInv, NEW r \in Requests, Takes(r)
  PROVE  TrailInv'
<1> USE DEF Takes, ApplyApproval
<1>1. r \notin effects /\ effects \subseteq Requests
  BY TakesOnce, EngineTyping DEF FlowInv, EngineTypeOK
<1>2. ApprovalsAudited'
  <2> DEFINE a == [by |-> r, plan |-> Target(r), before |-> plan[Target(r)]]
  <2>1. a.by = r /\ a.plan = Target(r) /\ planAudit' = planAudit \union {a}
    OBVIOUS
  <2>2. \A c \in planAudit : c.by \in effects /\ c.plan = Target(c.by)
    BY DEF TrailInv, ApprovalsAudited
  <2>3. \A s \in effects : \E c \in planAudit : c.by = s
    BY DEF TrailInv, ApprovalsAudited
  <2>4. effects' = effects \union {r} /\ call' = call
    OBVIOUS
  <2> HIDE DEF a, Takes, ApplyApproval
  <2> QED
    BY <2>1, <2>2, <2>3, <2>4 DEF ApprovalsAudited, Target
<1>3. TransfersAudited'
  <2>1. CASE ~Reallocates(Target(r))
    BY <2>1 DEF ApplyChild, TrailInv, TransfersAudited, Target, Reallocates, Id
  <2>2. CASE Reallocates(Target(r))
    <3> DEFINE a == [by |-> r, position |-> TransferOf(r).from,
                     before |-> read[r].source, after |-> NewSource(r)]
               b == [by |-> r, position |-> TransferOf(r).to,
                     before |-> read[r].destination, after |-> NewDestination(r)]
    <3>1. a # b /\ a.by = r /\ b.by = r
      BY <2>2, CommitWrites
    <3>2. stockAudit' = stockAudit \union {a, b}
      BY <2>2 DEF ApplyChild, StockAuditOf, StockAuditRow
    <3>3. /\ childRow' = [childRow EXCEPT ![Id(r)] = "succeeded"]
          /\ DOMAIN childRow = ExecIds
          /\ Id(r) \in ExecIds
      BY <2>2, IdType, EngineTyping DEF ApplyChild, FlowInv, FlowTypeOK
    <3> HIDE DEF a, b
    <3>4. \A c \in stockAudit : c.by \in effects /\ Reallocates(Target(c.by))
      BY DEF TrailInv, TransfersAudited
    <3>5. ASSUME NEW c \in stockAudit'
          PROVE  c.by \in effects' /\ Reallocates(Target(c.by))
      BY <2>2, <3>1, <3>2, <3>4
    <3>6. /\ a \in stockAudit'
          /\ b \in stockAudit'
          /\ {c \in stockAudit' : c.by = r} = {a, b}
      BY <1>1, <3>1, <3>2, <3>4
    <3>7. ASSUME NEW s \in effects, Reallocates(Target(s))
          PROVE  /\ childRow'[Id(s)] = "succeeded"
                 /\ \E c, d \in stockAudit' : c # d /\ {e \in stockAudit' : e.by = s} = {c, d}
      <4>1. /\ childRow[Id(s)] = "succeeded"
            /\ \E c, d \in stockAudit : c # d /\ {e \in stockAudit : e.by = s} = {c, d}
        BY <3>7 DEF TrailInv, TransfersAudited
      <4>2. {e \in stockAudit' : e.by = s} = {e \in stockAudit : e.by = s}
        BY <1>1, <3>1, <3>2
      <4>3. Id(s) \in ExecIds
        BY <1>1, IdType, EngineTyping DEF FlowInv
      <4>4. stockAudit \subseteq stockAudit'
        BY <3>2
      <4> QED
        BY <3>3, <4>1, <4>2, <4>3, <4>4
    <3> QED
      BY <3>1, <3>3, <3>5, <3>6, <3>7 DEF TransfersAudited, Target, Reallocates, Id
  <2> QED
    BY <2>1, <2>2
<1> QED
  BY <1>2, <1>3 DEF TrailInv

LEMMA TrailStepInv ==
  ASSUME FlowInv, TrailInv, [Next]_vars
  PROVE  TrailInv'
<1>1. CASE UNCHANGED <<call, effects, tableVars>>
  BY <1>1
  DEF TrailInv, ApprovalsAudited, TransfersAudited, tableVars, Target, Reallocates, Id
<1> QED
  BY <1>1, RowsChangeByEffect, EffectTrail

LEMMA PairHasTwo ==
  ASSUME NEW a, NEW b, a # b
  PROVE  Cardinality({a, b}) = 2
<1>1. {a, b} = {a} \union {b}
  OBVIOUS
<1>2. IsFiniteSet({a}) /\ Cardinality({a}) = 1
  BY FS_Singleton
<1> QED
  BY <1>1, <1>2, FS_AddElement

(* No delivery takes effect without its plan's approval being audited      *)
(* under it, and its child row and both changes of stock being there; and  *)
(* no such row is there of a delivery that did not.                        *)
THEOREM TrailComplete == Safety => []TrailIsComplete
<1>1. FlowInit => TrailInv
  BY DEF FlowInit, EngineInit, TrailInv, ApprovalsAudited, TransfersAudited
<1>2. FlowInv /\ TrailInv /\ [Next]_vars => TrailInv'
  BY TrailStepInv
<1>3. FlowInv /\ TrailInv => TrailIsComplete
  <2> SUFFICES ASSUME FlowInv, TrailInv, NEW r \in Requests
               PROVE  /\ r \in effects <=> \E a \in planAudit : a.by = r /\ a.plan = Target(r)
                      /\ LET moved == r \in effects /\ Reallocates(Target(r))
                         IN /\ moved => childRow[Id(r)] = "succeeded"
                            /\ Cardinality({a \in stockAudit : a.by = r}) = IF moved THEN 2 ELSE 0
    BY DEF TrailIsComplete
  <2>1. r \in effects <=> \E a \in planAudit : a.by = r /\ a.plan = Target(r)
    BY DEF TrailInv, ApprovalsAudited
  <2>2. CASE r \in effects /\ Reallocates(Target(r))
    <3>1. childRow[Id(r)] = "succeeded"
      BY <2>2 DEF TrailInv, TransfersAudited
    <3>2. PICK a, b \in stockAudit : a # b /\ {c \in stockAudit : c.by = r} = {a, b}
      BY <2>2 DEF TrailInv, TransfersAudited
    <3>3. Cardinality({c \in stockAudit : c.by = r}) = 2
      BY <3>2, PairHasTwo
    <3> QED
      BY <2>1, <2>2, <3>1, <3>3
  <2>3. CASE ~(r \in effects /\ Reallocates(Target(r)))
    <3>1. {a \in stockAudit : a.by = r} = {}
      BY <2>3 DEF TrailInv, TransfersAudited
    <3> QED
      BY <2>1, <2>3, <3>1, FS_EmptySet
  <2> QED
    BY <2>2, <2>3
<1> QED
  BY <1>1, <1>2, <1>3, FlowInvariant, PTL DEF Safety
-----------------------------------------------------------------------------
(* The stock accounts, where the column rounds no quantity that a transfer *)
(* leads to: one transferred quantity off a whole quantity is whole.       *)
Whole(n) == Stored(n) = n

WholeQuantities ==
  \A p \in Frozen : \A m, n \in 0..2*MaxStock :
    Whole(m) /\ (n = m + Transfer[p].quantity \/ m = n + Transfer[p].quantity)
      => Whole(n)

AccountInv ==
  /\ IsFiniteSet(stockAudit)
  /\ IsFiniteSet(Executed)
  /\ \A w \in Positions : Whole(stock[w])
  /\ StockIsAccountedFor
  /\ IsFiniteSet(Positions) => StockConserved

(* A commit with a transfer takes its quantity from one position to the    *)
(* other: it read what the two hold, and nobody has changed it since.      *)
LEMMA TransferMoves ==
  ASSUME WholeQuantities, FlowInv, AccountInv, NEW r \in Requests, Takes(r),
         Reallocates(Target(r))
  PROVE  LET from == TransferOf(r).from
             to == TransferOf(r).to
             quantity == TransferOf(r).quantity
         IN /\ from \in Positions /\ to \in Positions /\ from # to
            /\ quantity \in Nat
            /\ stock \in [Positions -> Nat]
            /\ NewSource(r) = stock[from] - quantity
            /\ NewDestination(r) = stock[to] + quantity
            /\ NewSource(r) \in Nat /\ NewDestination(r) \in Nat
            /\ Whole(NewSource(r)) /\ Whole(NewDestination(r))
            /\ stock' = [stock EXCEPT ![from] = stock[from] - quantity,
                                      ![to] = stock[to] + quantity]
            /\ stockAudit' = stockAudit \union
                 {[by |-> r, position |-> from,
                   before |-> stock[from], after |-> stock[from] - quantity],
                  [by |-> r, position |-> to,
                   before |-> stock[to], after |-> stock[to] + quantity]}
<1> DEFINE from == TransferOf(r).from
           to == TransferOf(r).to
           quantity == TransferOf(r).quantity
<1>1. /\ Target(r) \in Frozen
      /\ from \in Positions /\ to \in Positions /\ from # to
      /\ read[r].source = stock[from]
      /\ read[r].destination = stock[to]
      /\ NewSource(r) \in Held[from]..MaxStock
      /\ NewDestination(r) \in stock[to]..2*MaxStock
  BY CommitWrites DEF Takes
<1>2. /\ quantity \in Nat /\ MaxStock \in Nat /\ Held[from] \in Nat
      /\ stock \in [Positions -> 0..MaxStock]
      /\ stock[from] \in 0..MaxStock /\ stock[to] \in 0..MaxStock
  BY <1>1, TransferAssumption, StockAssumption DEF FlowInv, FlowTypeOK, TransferOf
<1>3. /\ NewSource(r) = stock[from] - quantity
      /\ NewDestination(r) = stock[to] + quantity
  BY <1>1 DEF NewSource, NewDestination
<1>4. /\ NewSource(r) \in 0..2*MaxStock /\ NewDestination(r) \in 0..2*MaxStock
      /\ stock[from] \in 0..2*MaxStock /\ stock[to] \in 0..2*MaxStock
      /\ stock[from] = NewSource(r) + quantity
  BY <1>1, <1>2, <1>3
<1>5. Whole(stock[from]) /\ Whole(stock[to])
  BY <1>1 DEF AccountInv
<1>6. Whole(NewSource(r)) /\ Whole(NewDestination(r))
  BY <1>1, <1>3, <1>4, <1>5 DEF WholeQuantities, TransferOf
<1>7. stock' = [stock EXCEPT ![from] = stock[from] - quantity, ![to] = stock[to] + quantity]
  BY <1>3, <1>6 DEF Takes, ApplyApproval, ApplyChild, StockAfter, Whole
<1>8. stockAudit' = stockAudit \union StockAuditOf(r)
  BY DEF Takes, ApplyApproval, ApplyChild
<1>9. stock \in [Positions -> Nat] /\ NewSource(r) \in Nat /\ NewDestination(r) \in Nat
  BY <1>2, <1>4
<1> QED
  BY <1>1, <1>2, <1>3, <1>6, <1>7, <1>8, <1>9 DEF StockAuditOf, StockAuditRow

(* The quantities of one more step.                                        *)
LEMMA QuantitiesAdd ==
  ASSUME NEW S \in SUBSET Frozen, IsFiniteSet(S), NEW p \in Frozen, p \notin S
  PROVE  /\ Quantities(S) \in Int
         /\ Quantities(S \union {p}) = Quantities(S) + Transfer[p].quantity
<1> DEFINE f == [x \in Frozen |-> Transfer[x].quantity]
<1>1. \A x \in S \union {p} : f[x] \in Int
  BY TransferAssumption
<1>2. f[p] = Transfer[p].quantity
  OBVIOUS
<1> HIDE DEF f
<1>3. /\ SumFunctionOnSet(f, S) \in Int
      /\ SumFunctionOnSet(f, S \union {p}) = SumFunctionOnSet(f, S) + f[p]
  BY <1>1, SumAdds, SumIsInt
<1> QED
  BY <1>2, <1>3 DEF Quantities, f

(* The executed step of the delivery was not executed before; each of the  *)
(* two ends of its transfer has the quantity on its side of the account.   *)
LEMMA StepsAccount ==
  ASSUME FlowInv, AccountInv, NEW r \in Requests, Takes(r), Reallocates(Target(r))
  PROVE  /\ IsFiniteSet(Executed')
         /\ \A w :
              /\ Incoming(w) \in Int /\ Outgoing(w) \in Int
              /\ Incoming(w)' = IF TransferOf(r).to = w
                                THEN Incoming(w) + TransferOf(r).quantity ELSE Incoming(w)
              /\ Outgoing(w)' = IF TransferOf(r).from = w
                                THEN Outgoing(w) + TransferOf(r).quantity ELSE Outgoing(w)
<1> DEFINE p == Target(r)
<1>1. p \in Frozen /\ plan[p] \in AwaitingApproval /\ p \in Plans /\ p \in HasStep
  BY CommitWrites, PlansAssumption DEF Takes
<1>2. step[p] # "executed"
  BY <1>1 DEF FlowInv, TablesInv, ApprovalExecutesStep, AwaitingApproval
<1>3. step' = [step EXCEPT ![p] = "executed"] /\ DOMAIN step = HasStep
  BY DEF Takes, ApplyApproval, ApplyChild, FlowInv, FlowTypeOK
<1> HIDE DEF p
<1>4. p \notin Executed /\ Executed' = Executed \union {p}
  BY <1>1, <1>2, <1>3, PlansAssumption DEF Executed
<1>5. IsFiniteSet(Executed) /\ IsFiniteSet(Executed')
  BY <1>4, FS_AddElement DEF AccountInv
<1>6. ASSUME NEW w
      PROVE  /\ Incoming(w) \in Int
             /\ Incoming(w)' = IF Transfer[p].to = w
                               THEN Incoming(w) + Transfer[p].quantity ELSE Incoming(w)
  <2> DEFINE S == {x \in Executed : Transfer[x].to = w}
  <2>1. S \in SUBSET Frozen /\ p \notin S /\ IsFiniteSet(S)
    BY <1>4, <1>5, FS_Subset DEF Executed
  <2>2. S' = IF Transfer[p].to = w THEN S \union {p} ELSE S
    BY <1>4
  <2> HIDE DEF S
  <2> QED
    BY <1>1, <2>1, <2>2, QuantitiesAdd DEF Incoming, S, Quantities
<1>7. ASSUME NEW w
      PROVE  /\ Outgoing(w) \in Int
             /\ Outgoing(w)' = IF Transfer[p].from = w
                               THEN Outgoing(w) + Transfer[p].quantity ELSE Outgoing(w)
  <2> DEFINE S == {x \in Executed : Transfer[x].from = w}
  <2>1. S \in SUBSET Frozen /\ p \notin S /\ IsFiniteSet(S)
    BY <1>4, <1>5, FS_Subset DEF Executed
  <2>2. S' = IF Transfer[p].from = w THEN S \union {p} ELSE S
    BY <1>4
  <2> HIDE DEF S
  <2> QED
    BY <1>1, <2>1, <2>2, QuantitiesAdd DEF Outgoing, S, Quantities
<1> QED
  BY <1>5, <1>6, <1>7 DEF p, TransferOf

(* The audit trail of a position with two new rows, of which at most one   *)
(* is about it.                                                            *)
LEMMA TrailAccounts ==
  ASSUME FlowTypeOK, IsFiniteSet(stockAudit), NEW a, NEW b,
         a \notin stockAudit, b \notin stockAudit, a.position # b.position,
         a.before \in Nat, a.after \in Nat, b.before \in Nat, b.after \in Nat,
         stockAudit' = stockAudit \union {a, b}, NEW w
  PROVE  /\ IsFiniteSet(stockAudit')
         /\ Before(w) \in Int /\ After(w) \in Int
         /\ w \notin {a.position, b.position} =>
              Before(w)' = Before(w) /\ After(w)' = After(w)
         /\ \A c \in {a, b} :
              c.position = w => /\ Before(w)' = Before(w) + c.before
                                /\ After(w)' = After(w) + c.after
<1> DEFINE T == Trail(w)
           f == [x \in stockAudit |-> x.before]
           g == [x \in stockAudit' |-> x.before]
           h == [x \in stockAudit |-> x.after]
           k == [x \in stockAudit' |-> x.after]
<1>1. IsFiniteSet(stockAudit')
  <2>1. stockAudit' = (stockAudit \union {a}) \union {b}
    OBVIOUS
  <2>2. IsFiniteSet(stockAudit \union {a})
    BY FS_AddElement
  <2> QED
    BY <2>1, <2>2, FS_AddElement
<1>2. /\ IsFiniteSet(T)
      /\ \A x \in T : f[x] \in Int /\ g[x] = f[x] /\ h[x] \in Int /\ k[x] = h[x]
  <2>1. \A x \in stockAudit : x.before \in Int /\ x.after \in Int
    BY DEF FlowTypeOK
  <2> QED
    BY <2>1, FS_Subset DEF Trail
<1>3. /\ Before(w) = SumFunctionOnSet(f, T) /\ Before(w)' = SumFunctionOnSet(g, T')
      /\ After(w) = SumFunctionOnSet(h, T) /\ After(w)' = SumFunctionOnSet(k, T')
  BY DEF Before, After
<1>4. ASSUME NEW c \in {a, b}
      PROVE  c \notin T /\ g[c] \in Int /\ g[c] = c.before /\ k[c] \in Int /\ k[c] = c.after
  BY DEF Trail
<1>5. ASSUME NEW c \in {a, b}, c.position = w
      PROVE  T' = T \union {c}
  BY <1>5 DEF Trail
<1>6. w \notin {a.position, b.position} => T' = T
  BY DEF Trail
<1> HIDE DEF T, f, g, h, k
<1>7. Before(w) \in Int /\ After(w) \in Int
  BY <1>2, <1>3, SumIsInt
<1>8. w \notin {a.position, b.position} => Before(w)' = Before(w) /\ After(w)' = After(w)
  BY <1>2, <1>3, <1>6, SumsAgree
<1>9. ASSUME NEW c \in {a, b}, c.position = w
      PROVE  Before(w)' = Before(w) + c.before /\ After(w)' = After(w) + c.after
  <2>1. T' = T \union {c} /\ c \notin T /\ g[c] \in Int /\ k[c] \in Int
    BY <1>4, <1>5, <1>9
  <2>2. SumFunctionOnSet(g, T') = SumFunctionOnSet(f, T) + g[c]
    BY <1>2, <2>1, SumGrows
  <2>3. SumFunctionOnSet(k, T') = SumFunctionOnSet(h, T) + k[c]
    BY <1>2, <2>1, SumGrows
  <2> QED
    BY <1>3, <1>4, <2>2, <2>3
<1> QED
  BY <1>1, <1>7, <1>8, <1>9

LEMMA EffectAccounts ==
  ASSUME WholeQuantities, FlowInv, TrailInv, AccountInv,
         NEW r \in Requests, Takes(r), Reallocates(Target(r))
  PROVE  AccountInv'
<1> DEFINE from == TransferOf(r).from
           to == TransferOf(r).to
           q == TransferOf(r).quantity
           a == [by |-> r, position |-> from,
                 before |-> stock[from], after |-> stock[from] - q]
           b == [by |-> r, position |-> to,
                 before |-> stock[to], after |-> stock[to] + q]
<1>1. /\ from \in Positions /\ to \in Positions /\ from # to
      /\ q \in Nat
      /\ stock \in [Positions -> Nat]
      /\ stock[from] - q \in Nat /\ stock[to] + q \in Nat
      /\ Whole(stock[from] - q) /\ Whole(stock[to] + q)
      /\ stock' = [stock EXCEPT ![from] = stock[from] - q, ![to] = stock[to] + q]
      /\ stockAudit' = stockAudit \union {a, b}
  BY TransferMoves
<1>2. /\ a.position = from /\ a.before = stock[from] /\ a.after = stock[from] - q
      /\ b.position = to /\ b.before = stock[to] /\ b.after = stock[to] + q
      /\ a \notin stockAudit /\ b \notin stockAudit
  BY TakesOnce DEF TrailInv, TransfersAudited
<1>3. /\ IsFiniteSet(Executed')
      /\ \A w :
           /\ Incoming(w) \in Int /\ Outgoing(w) \in Int
           /\ Incoming(w)' = IF to = w THEN Incoming(w) + q ELSE Incoming(w)
           /\ Outgoing(w)' = IF from = w THEN Outgoing(w) + q ELSE Outgoing(w)
  BY StepsAccount
<1> HIDE DEF from, to, q, a, b
<1>4. stock[from] \in Nat /\ stock[to] \in Nat
  BY <1>1
<1>5. ASSUME NEW w
      PROVE  /\ IsFiniteSet(stockAudit')
             /\ Before(w) \in Int /\ After(w) \in Int
             /\ w \notin {from, to} => Before(w)' = Before(w) /\ After(w)' = After(w)
             /\ w = from => /\ Before(w)' = Before(w) + stock[from]
                            /\ After(w)' = After(w) + (stock[from] - q)
             /\ w = to => /\ Before(w)' = Before(w) + stock[to]
                          /\ After(w)' = After(w) + (stock[to] + q)
  <2>1. /\ FlowTypeOK /\ IsFiniteSet(stockAudit)
        /\ a.position # b.position
        /\ a.before \in Nat /\ a.after \in Nat /\ b.before \in Nat /\ b.after \in Nat
    BY <1>1, <1>2, <1>4 DEF FlowInv, AccountInv
  <2>2. /\ IsFiniteSet(stockAudit')
        /\ Before(w) \in Int /\ After(w) \in Int
        /\ w \notin {a.position, b.position} =>
             Before(w)' = Before(w) /\ After(w)' = After(w)
        /\ \A c \in {a, b} :
             c.position = w => /\ Before(w)' = Before(w) + c.before
                               /\ After(w)' = After(w) + c.after
    BY <1>1, <1>2, <2>1, TrailAccounts
  <2> QED
    BY <1>2, <2>2
<1>6. \A w \in Positions : Whole(stock[w])'
  BY <1>1 DEF AccountInv, Whole
<1>7. ASSUME NEW w \in Positions
      PROVE  /\ stock'[w] + Outgoing(w)' = FirstStock[w] + Incoming(w)'
             /\ stock'[w] + Before(w)' = FirstStock[w] + After(w)'
  <2>0. stock[w] \in Nat /\ FirstStock[w] \in Nat
    <3>1. stock[w] \in Nat
      BY <1>1
    <3>2. FirstStock[w] \in 0..MaxStock
      BY StockAssumption
    <3> QED
      BY <3>1, <3>2
  <2>1. /\ stock[w] + Outgoing(w) = FirstStock[w] + Incoming(w)
        /\ stock[w] + Before(w) = FirstStock[w] + After(w)
    BY DEF AccountInv, StockIsAccountedFor
  <2> DEFINE in == Incoming(w)
             out == Outgoing(w)
             bef == Before(w)
             aft == After(w)
  <2>2. in \in Int /\ out \in Int /\ bef \in Int /\ aft \in Int
    BY <1>3, <1>5
  <2>3. CASE w = from
    <3>1. /\ stock'[w] = stock[w] - q
          /\ in' = in /\ out' = out + q
          /\ bef' = bef + stock[w] /\ aft' = aft + (stock[w] - q)
      BY <1>1, <1>3, <1>5, <2>3
    <3> HIDE DEF in, out, bef, aft
    <3> QED
      BY <1>1, <2>0, <2>1, <2>2, <3>1 DEF in, out, bef, aft
  <2>4. CASE w = to
    <3>1. /\ stock'[w] = stock[w] + q
          /\ in' = in + q /\ out' = out
          /\ bef' = bef + stock[w] /\ aft' = aft + (stock[w] + q)
      BY <1>1, <1>3, <1>5, <2>4
    <3> QED
      BY <1>1, <2>0, <2>1, <2>2, <3>1
  <2>5. CASE w \notin {from, to}
    BY <1>1, <1>3, <1>5, <2>1, <2>5
  <2> QED
    BY <2>3, <2>4, <2>5
<1>8. ASSUME IsFiniteSet(Positions)
      PROVE  StockConserved'
  <2>1. \A x \in Positions : stock[x] \in Int
    BY <1>1
  <2>2. /\ stock'[from] = stock[from] - q /\ stock'[to] = stock[to] + q
        /\ \A x \in Positions \ {from, to} : stock'[x] = stock[x]
        /\ q \in Int
    BY <1>1
  <2>3. SumFunctionOnSet(stock', Positions) = SumFunctionOnSet(stock, Positions)
    BY <1>1, <1>8, <2>1, <2>2, SumMoves
  <2> QED
    BY <1>8, <2>3 DEF AccountInv, StockConserved
<1> QED
  BY <1>3, <1>5, <1>6, <1>7, <1>8 DEF AccountInv, StockIsAccountedFor

LEMMA AccountStepInv ==
  ASSUME WholeQuantities, FlowInv, TrailInv, AccountInv, [Next]_vars
  PROVE  AccountInv'
<1> USE DEF AccountInv, StockIsAccountedFor, StockConserved, Incoming, Outgoing,
            Executed, Before, After, Trail, Whole
<1>1. CASE UNCHANGED <<call, effects, tableVars>>
  BY <1>1 DEF tableVars
<1>2. ASSUME NEW r \in Requests, Takes(r), ~Reallocates(Target(r))
      PROVE  AccountInv'
  <2>1. UNCHANGED <<step, stock, stockAudit>>
    BY <1>2 DEF Takes, ApplyApproval, ApplyChild
  <2> QED
    BY <2>1
<1> QED
  BY <1>1, <1>2, RowsChangeByEffect, EffectAccounts

LEMMA AccountInitInv == FlowInit => AccountInv
<1> SUFFICES ASSUME FlowInit PROVE AccountInv
  OBVIOUS
<1>1. stockAudit = {} /\ Executed = {} /\ stock = FirstStock
  BY PlansAssumption DEF FlowInit, Executed
<1>2. \A w : /\ Trail(w) = {}
             /\ {p \in Executed : Transfer[p].to = w} = {}
             /\ {p \in Executed : Transfer[p].from = w} = {}
  BY <1>1 DEF Trail
<1>3. \A w : Incoming(w) = 0 /\ Outgoing(w) = 0 /\ Before(w) = 0 /\ After(w) = 0
  BY <1>2, SumOfNone DEF Incoming, Outgoing, Before, After, Quantities
<1>4. \A w \in Positions : stock[w] \in Nat /\ FirstStock[w] \in Nat /\ Whole(stock[w])
  BY <1>1, StockAssumption, StoredAssumption DEF Whole
<1> QED
  BY <1>1, <1>3, <1>4, FS_EmptySet DEF AccountInv, StockIsAccountedFor, StockConserved

LEMMA AccountInvariant == ASSUME WholeQuantities PROVE Safety => []AccountInv
<1>1. FlowInit => AccountInv /\ TrailInv
  BY AccountInitInv
  DEF FlowInit, EngineInit, TrailInv, ApprovalsAudited, TransfersAudited
<1>2. FlowInv /\ TrailInv /\ [Next]_vars => TrailInv'
  BY TrailStepInv
<1>3. FlowInv /\ TrailInv /\ AccountInv /\ [Next]_vars => AccountInv'
  BY AccountStepInv
<1> QED
  BY <1>1, <1>2, <1>3, FlowInvariant, PTL DEF Safety

(* As long as the column rounds nothing that is transferred, no transfer   *)
(* is lost, repeated or half done, whatever competes and fails, and the    *)
(* audit trail leads from what every position held to what it holds.       *)
THEOREM StockAccounted == ASSUME WholeQuantities PROVE Safety => []StockIsAccountedFor
<1>1. AccountInv => StockIsAccountedFor
  BY DEF AccountInv
<1> QED
  BY <1>1, AccountInvariant, PTL

(* And the approvals together make and lose no stock: what the run of      *)
(* StockConserved finds is the rounding, and nothing but the rounding.     *)
THEOREM StockStays ==
  ASSUME WholeQuantities, IsFiniteSet(Positions)
  PROVE  Safety => []StockConserved
<1>1. AccountInv => StockConserved
  BY DEF AccountInv
<1> QED
  BY <1>1, AccountInvariant, PTL
=============================================================================
