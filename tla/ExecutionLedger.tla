--------------------------- MODULE ExecutionLedger ---------------------------
(***************************************************************************)
(* What the action engine promises about the execution ids its callers     *)
(* choose: an id is opened at most once, its business effects are applied  *)
(* at most once and only while it is open, and it is closed at most once,  *)
(* as a success only over applied effects.  ActionEngine implements this.  *)
(***************************************************************************)

CONSTANTS
  ExecIds,      \* execution ids
  DoubtAllowed  \* may an id be closed as failed although its effects applied?

VARIABLES
  outcome,      \* ExecIds -> {"absent", "started", "succeeded", "failed"}
  applied       \* the ids whose business effects are committed

ledgerVars == <<outcome, applied>>

Init ==
  /\ outcome = [i \in ExecIds |-> "absent"]
  /\ applied = {}

Open(i) ==
  /\ outcome[i] = "absent"
  /\ outcome' = [outcome EXCEPT ![i] = "started"]
  /\ UNCHANGED applied

Apply(i) ==
  /\ outcome[i] = "started"
  /\ i \notin applied
  /\ applied' = applied \union {i}
  /\ UNCHANGED outcome

Succeed(i) ==
  /\ outcome[i] = "started"
  /\ i \in applied
  /\ outcome' = [outcome EXCEPT ![i] = "succeeded"]
  /\ UNCHANGED applied

Fail(i) ==
  /\ outcome[i] = "started"
  /\ i \in applied => DoubtAllowed
  /\ outcome' = [outcome EXCEPT ![i] = "failed"]
  /\ UNCHANGED applied

Next == \E i \in ExecIds : Open(i) \/ Apply(i) \/ Succeed(i) \/ Fail(i)

Spec == Init /\ [][Next]_ledgerVars
==============================================================================
