---------------------------- MODULE MCAssistantRun ----------------------------
(***************************************************************************)
(* One run of the assistant, whatever its message asks for, with a model   *)
(* that calls more tools than it may, several of them at a time.           *)
(***************************************************************************)
EXTENDS AssistantRun, TLC

CONSTANTS r1, e1

One == {r1}
Events == {e1}
Messages ==
  [draft : BOOLEAN, humanOnly : BOOLEAN, provider : BOOLEAN, limit : {1, 2}]
DraftRequests == [draft : {TRUE}, humanOnly : {FALSE}, provider : {TRUE}, limit : {1}]
==============================================================================
