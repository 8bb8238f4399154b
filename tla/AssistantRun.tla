----------------------------- MODULE AssistantRun -----------------------------
(***************************************************************************)
(* Runs of the in-app assistant: stream_chat of assistant/service.py, the  *)
(* runner between it and the agent SDK (assistant/runner.py), the route    *)
(* that hands its events to the client and the tools the model calls.      *)
(*                                                                         *)
(* Python's generators make one line of control of service and route: it   *)
(* waits for the next event, or sends one, or has ended.  The SDK is       *)
(* external: a background task that fills a queue with events.  The tools  *)
(* are plain functions: a tool runs without the event loop in between.     *)
(***************************************************************************)
EXTENDS Integers, Sequences, FiniteSets, SequencesExt, Authorization

CONSTANTS
  Runs,           \* requests to /assistant/chat
  Asks,           \* what a run may start from, see below
  RiskEvents,     \* events a plan can be generated for
  MaxCalls,       \* bound: tool calls the model makes in a run
  MaxDeltas       \* bound: pieces of text the model says in a run

(* The message asks for a draft plan; it asks for what only people may do; *)
(* the provider is configured; ai_max_tool_calls.                          *)
ASSUME AskAssumption ==
  Asks \subseteq [draft : BOOLEAN, humanOnly : BOOLEAN, provider : BOOLEAN,
                  limit : Nat \ {0}]

NoRun == "no run"
Elsewhere == "elsewhere"    \* a person's request, another client of the tools
ASSUME NoRunAssumption == {NoRun, Elsewhere} \intersect Runs = {}

VARIABLES
  run,    \* each run: service, route and SDK, as below
  plan    \* who drafted the active plan of each risk event

vars == <<run, plan>>

(* The actor of every tool call of every run (_build_run_context).         *)
AiActor == [type |-> "ai_agent", roles |-> {"AIAgent"}, source |-> "ai_workflow"]

Terminal == {"run.completed", "run.failed"}
Said(kind) == [kind |-> kind]
Failed(code) == [kind |-> "run.failed", code |-> code]

(* Every tool but generateMitigationPlan only reads: one stands for all.   *)
Tools == {"read", "generateMitigationPlan"}

(* Mutant of Offered: whatever the message says, every tool is offered.    *)
OfferedAlways(r) == Tools

(* _resolve_allowed_tool_names, _build_mcp_tools                           *)
Offered(r) == IF run[r].ask.draft THEN Tools ELSE Tools \ {"generateMitigationPlan"}

Start(ask) ==
  [ask    |-> ask,
   stage  |-> "asked",    \* what service and route do next, or "sending"
   hand   |-> Said(""),   \* the event being sent
   after  |-> "asked",    \* what comes once it is sent
   sent   |-> <<>>,       \* events handed to the client
   client |-> TRUE,       \* the client is connected
   timer  |-> FALSE,      \* asyncio.timeout is armed
   cut    |-> FALSE,      \* the timer hit the task while it was sending
   calls  |-> 0,          \* tool_calls
   told   |-> {},         \* created_objects_by_key
   due    |-> <<>>,       \* events that the runner has mapped and not yielded
   sdk    |-> "none",     \* none, running, finished, failed or cancelled
   queue  |-> <<>>,       \* events of the SDK
   flight |-> {},         \* <<call, tool>> called and not run yet
   made   |-> 0,          \* calls so far
   spoken |-> 0]

Init ==
  /\ \E ask \in [Runs -> Asks] : run = [r \in Runs |-> Start(ask[r])]
  /\ plan = [e \in RiskEvents |-> NoRun]

Stage(r, stage) == run[r].stage = stage

Yield(state, event, after) ==
  [state EXCEPT !.stage = "sending", !.hand = event, !.after = after]

Become(r, state) == run' = [run EXCEPT ![r] = state] /\ UNCHANGED plan

Completed(r) ==
  [kind |-> "run.completed", created |-> run[r].told, calls |-> run[r].calls]

-----------------------------------------------------------------------------
(* The service.                                                            *)

(* The AI actor and the tools are settled before the first event.          *)
Open(r) ==
  /\ Stage(r, "asked")
  /\ Become(r, Yield(run[r], Said("run.started"),
                     IF run[r].ask.humanOnly THEN "refuse" ELSE "enter"))

RefuseHumanOnly(r) ==
  /\ Stage(r, "refuse")
  /\ Become(r, Yield(run[r], Said("message.delta"), "refused"))

CompleteRefused(r) ==
  /\ Stage(r, "refused")
  /\ Become(r, Yield(run[r], Completed(r), "ended"))

Launched(r) ==
  IF run[r].ask.provider THEN [run[r] EXCEPT !.stage = "waiting", !.sdk = "running"]
  ELSE [run[r] EXCEPT !.stage = "waiting", !.due = <<Failed("ASSISTANT_PROVIDER_ERROR")>>]

(* Mutant of Enter: the run has no time limit.                             *)
EnterUnlimited(r) == Stage(r, "enter") /\ Become(r, Launched(r))

Enter(r) == Stage(r, "enter") /\ Become(r, [Launched(r) EXCEPT !.timer = TRUE])

(* _map_stream_event: the output of a tool becomes its completion and, one *)
(* by one, the evidence it names.                                          *)
Mapped(event) ==
  IF event.kind # "tool.completed" THEN <<event>>
  ELSE <<[event EXCEPT !.evidence = FALSE]>>
         \o (IF event.evidence
             THEN <<[kind |-> "evidence.added", call |-> event.call]>> ELSE <<>>)

MapOutput(r) ==
  /\ Stage(r, "waiting")
  /\ run[r].due = <<>>
  /\ run[r].queue # <<>>
  /\ Become(r, [run[r] EXCEPT !.due = Mapped(Head(run[r].queue)), !.queue = Tail(@)])

(* Mutant of Received: the run goes on after the limit is reported.        *)
ReceivedOn(state, event) ==
  CASE event.kind = "tool.started" /\ state.calls >= state.ask.limit ->
         Yield([state EXCEPT !.calls = @ + 1], Failed("ASSISTANT_TOOL_LIMIT_EXCEEDED"), "waiting")
    [] event.kind = "tool.started" /\ state.calls < state.ask.limit ->
         Yield([state EXCEPT !.calls = @ + 1], event, "waiting")
    [] OTHER -> Yield(state, event, "waiting")

Received(state, event) ==
  CASE event.kind = "tool.started" /\ state.calls >= state.ask.limit ->
         Yield([state EXCEPT !.calls = @ + 1], Failed("ASSISTANT_TOOL_LIMIT_EXCEEDED"), "ended")
    [] event.kind = "tool.started" /\ state.calls < state.ask.limit ->
         Yield([state EXCEPT !.calls = @ + 1], event, "waiting")
    [] event.kind = "tool.completed" ->
         Yield([state EXCEPT !.told = @ \union event.created], event, "waiting")
    [] event.kind = "run.failed" -> Yield(state, event, "ended")
    [] OTHER -> Yield(state, event, "waiting")

Receive(r) ==
  /\ Stage(r, "waiting")
  /\ run[r].due # <<>>
  /\ Become(r, Received([run[r] EXCEPT !.due = Tail(@)], Head(run[r].due)))

(* Mutant of Complete: events still in the queue are dropped.              *)
CompleteEarly(r) ==
  /\ Stage(r, "waiting")
  /\ run[r].due = <<>>
  /\ run[r].sdk = "finished"
  /\ Become(r, Yield([run[r] EXCEPT !.timer = FALSE], Completed(r), "ended"))

Complete(r) ==
  /\ Stage(r, "waiting")
  /\ run[r].due = <<>> /\ run[r].queue = <<>>
  /\ run[r].sdk = "finished"
  /\ Become(r, Yield([run[r] EXCEPT !.timer = FALSE], Completed(r), "ended"))

(* Mutant of Fail: the exception ends the stream.                          *)
FailSilently(r) ==
  /\ Stage(r, "waiting")
  /\ run[r].due = <<>>
  /\ run[r].sdk = "failed"
  /\ Become(r, [run[r] EXCEPT !.timer = FALSE, !.stage = "ended"])

(* The SDK raises, whether or not events are left.                         *)
Fail(r) ==
  /\ Stage(r, "waiting")
  /\ run[r].due = <<>>
  /\ run[r].sdk = "failed"
  /\ Become(r, Yield([run[r] EXCEPT !.timer = FALSE], Failed("ASSISTANT_RUN_FAILED"), "ended"))

Cancelled(state) ==
  IF state.sdk = "running" THEN [state EXCEPT !.sdk = "cancelled"] ELSE state

(* Mutant of Timeout: the runner does not cancel the SDK's run.            *)
TimeoutOnly(r) ==
  /\ Stage(r, "waiting")
  /\ run[r].timer
  /\ Become(r, Yield([run[r] EXCEPT !.timer = FALSE], Failed("ASSISTANT_TIMEOUT"), "ended"))

(* The timer cancels the task where it waits: the runner cancels the SDK's *)
(* run, the service answers.                                               *)
Timeout(r) ==
  /\ Stage(r, "waiting")
  /\ run[r].timer
  /\ Become(r, Yield(Cancelled([run[r] EXCEPT !.timer = FALSE]),
                     Failed("ASSISTANT_TIMEOUT"), "ended"))

(* The timer cancels the task where it sends, which is outside the service:*)
(* the response breaks off and no one cancels the SDK's run.               *)
CutOff(r) ==
  /\ Stage(r, "sending")
  /\ run[r].timer
  /\ Become(r, [run[r] EXCEPT !.stage = "ended", !.timer = FALSE, !.cut = TRUE])

-----------------------------------------------------------------------------
(* The route and the client.                                               *)
Deliver(r) ==
  /\ Stage(r, "sending")
  /\ Become(r, [run[r] EXCEPT !.stage = run[r].after, !.sent = Append(@, run[r].hand),
                              !.timer = @ /\ run[r].after # "ended"])

ClientLeaves(r) ==
  /\ ~Stage(r, "ended")
  /\ run[r].client
  /\ Become(r, [run[r] EXCEPT !.client = FALSE])

(* request.is_disconnected(): the stream is closed, the SDK's run is not.  *)
Abandon(r) ==
  /\ Stage(r, "sending")
  /\ ~run[r].client
  /\ Become(r, [run[r] EXCEPT !.stage = "ended", !.timer = FALSE])

(* The web server cancels the response of a client that left.              *)
CancelWaiting(r) ==
  /\ Stage(r, "waiting")
  /\ ~run[r].client
  /\ Become(r, Cancelled([run[r] EXCEPT !.stage = "ended", !.timer = FALSE]))

-----------------------------------------------------------------------------
(* The SDK and the model behind it.                                        *)
Working(r) == run[r].sdk = "running"
Announce(r, event) == [run[r] EXCEPT !.queue = Append(@, event)]

Speak(r) ==
  /\ Working(r)
  /\ run[r].spoken < MaxDeltas
  /\ Become(r, [Announce(r, Said("message.delta")) EXCEPT !.spoken = @ + 1])

CallTool(r, tool) ==
  /\ Working(r)
  /\ run[r].made < MaxCalls
  /\ tool \in Offered(r)
  /\ LET n == run[r].made + 1
     IN Become(r, [Announce(r, [kind |-> "tool.started", call |-> n])
                   EXCEPT !.made = n, !.flight = @ \union {<<n, tool>>}])

Output(c, created, evidence) ==
  [kind |-> "tool.completed", call |-> c[1], created |-> created, evidence |-> evidence]

Returned(r, c, created, evidence) ==
  [Announce(r, Output(c, created, evidence)) EXCEPT !.flight = @ \ {c}]

(* A tool that reads, or whose error the SDK reports to the model.         *)
ReadTool(r, c) ==
  /\ Working(r)
  /\ c \in run[r].flight
  /\ \E evidence \in BOOLEAN :
       /\ evidence => c[2] = "read"
       /\ Become(r, Returned(r, c, {}, evidence))

(* generateMitigationPlan through the action engine, under a fresh request *)
(* id; an event has one active plan.                                       *)
GenerateTool(r, c, e) ==
  /\ Working(r)
  /\ c \in run[r].flight
  /\ c[2] = "generateMitigationPlan"
  /\ Permitted(AiActor, c[2], External)
  /\ plan[e] = NoRun
  /\ plan' = [plan EXCEPT ![e] = r]
  /\ run' = [run EXCEPT ![r] = Returned(r, c, {e}, FALSE)]

GenerateElsewhere(e) ==
  /\ plan[e] = NoRun
  /\ plan' = [plan EXCEPT ![e] = Elsewhere]
  /\ UNCHANGED run

Finish(r) ==
  /\ Working(r)
  /\ run[r].flight = {}
  /\ Become(r, [run[r] EXCEPT !.sdk = "finished"])

(* The provider fails, a tool's error ends the run, or its turns are used. *)
Break(r) == Working(r) /\ Become(r, [run[r] EXCEPT !.sdk = "failed"])

-----------------------------------------------------------------------------
Service(r) ==
  \/ Open(r) \/ RefuseHumanOnly(r) \/ CompleteRefused(r) \/ Enter(r)
  \/ MapOutput(r) \/ Receive(r) \/ Complete(r) \/ Fail(r) \/ Deliver(r)

Timer(r) == Timeout(r) \/ CutOff(r)

Departure(r) == ClientLeaves(r) \/ Abandon(r) \/ CancelWaiting(r)

Agent(r) ==
  \/ Speak(r) \/ Finish(r) \/ Break(r)
  \/ \E tool \in Tools : CallTool(r, tool)
  \/ \E c \in run[r].flight : ReadTool(r, c)
  \/ \E c \in run[r].flight, e \in RiskEvents : GenerateTool(r, c, e)

Next ==
  \/ \E r \in Runs : Service(r) \/ Timer(r) \/ Departure(r) \/ Agent(r)
  \/ \E e \in RiskEvents : GenerateElsewhere(e)

(* The event loop serves every run; a timer that stays armed goes off. The *)
(* model, the SDK and the client owe nothing.                              *)
Spec == Init /\ [][Next]_vars /\ \A r \in Runs : WF_vars(Service(r)) /\ WF_vars(Timer(r))

-----------------------------------------------------------------------------
Kinds(r, kind) == {i \in DOMAIN run[r].sent : run[r].sent[i].kind = kind}
Plans(r) == {e \in RiskEvents : plan[e] = r}

(* The client never sees more calls start than the limit, although the SDK *)
(* runs ahead of what is sent and calls several tools at once.             *)
WithinToolLimit == \A r \in Runs : Cardinality(Kinds(r, "tool.started")) <= run[r].ask.limit

(* What a client sees starts with run.started, has at most one outcome,    *)
(* nothing after it, no result of a tool before the tool's start and no    *)
(* more calls than the limit.                                              *)
StreamInOrder ==
  /\ WithinToolLimit
  /\ \A r \in Runs :
       LET sent == run[r].sent
       IN /\ sent # <<>> => sent[1].kind = "run.started"
          /\ \A i \in 1..(Len(sent) - 1) : sent[i].kind \notin Terminal
          /\ \A i \in Kinds(r, "tool.completed") \union Kinds(r, "evidence.added") :
               \E j \in Kinds(r, "tool.started") : j < i /\ sent[j].call = sent[i].call

(* A completed run tells of every plan it made and of nothing else, and    *)
(* counts the calls the client saw start: a plan is unreported only where  *)
(* the run failed, broke off or was left.                                  *)
CompletionTellsAll ==
  \A r \in Runs : \A i \in Kinds(r, "run.completed") :
    /\ run[r].sent[i].created = Plans(r)
    /\ run[r].sent[i].calls = Cardinality(Kinds(r, "tool.started"))

(* A draft is made only for a message that asks for one, and never where   *)
(* the message asks for what is left to people.                            *)
DraftsOnlyOnRequest == \A r \in Runs : Plans(r) # {} => run[r].ask.draft /\ ~run[r].ask.humanOnly

(* A stream without an outcome is one the client left or the timer cut.    *)
SilenceHasACause ==
  \A r \in Runs :
    Stage(r, "ended") =>
      \/ run[r].sent # <<>> /\ Last(run[r].sent).kind \in Terminal
      \/ ~run[r].client
      \/ run[r].cut

(* Once a run is given up for its time, it makes no plan any more.         *)
TimedOut(r) == run[r].hand = Failed("ASSISTANT_TIMEOUT")
TimeoutIsFinal ==
  [][\A r \in Runs : TimedOut(r) => Plans(r)' = Plans(r)]_vars

(* A run whose stream has ended at its tool limit makes no plan any more,  *)
(* if it is stopped safely as the design document wants it.  The service   *)
(* reports the limit and returns; the SDK's run behind it goes on.         *)
StoppedAtLimit(r) ==
  Stage(r, "ended") /\ run[r].hand = Failed("ASSISTANT_TOOL_LIMIT_EXCEEDED")
LimitIsFinal ==
  [][\A r \in Runs : StoppedAtLimit(r) => Plans(r)' = Plans(r)]_vars

(* A run that has begun ends, even if the model, the SDK and the client    *)
(* never do anything.                                                      *)
EveryRunEnds == \A r \in Runs : Stage(r, "enter") ~> Stage(r, "ended")
==============================================================================
