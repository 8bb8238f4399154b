-------------------------- MODULE AssistantRun_proofs --------------------------
(***************************************************************************)
(* What holds of every number of runs, messages, limits and risk events:   *)
(* plans are drafted on request only, the client sees no more calls than   *)
(* the limit, a stream without an outcome has a cause, a run given up for  *)
(* its time drafts nothing more, what is sent is in order, and a completed *)
(* run tells of every plan it made.                                        *)
(*                                                                         *)
(* The invariants speak of one run at a time: no run reads another's state,*)
(* and the plans are only ever added to.  RunInv carries the first four    *)
(* results.  StoryInv carries the last two: it follows an event from the   *)
(* SDK's queue through the runner and the service to the client, since     *)
(* what the client has is in order only if all that is on its way is.      *)
(***************************************************************************)
EXTENDS AssistantRun, FiniteSetTheorems, SequenceTheorems, TLAPS

RunFields ==
  {"ask", "stage", "hand", "after", "sent", "client", "timer", "cut", "calls", "told",
   "due", "sdk", "queue", "flight", "made", "spoken"}

Started == [kind : {"tool.started"}, call : Nat]
FromSdk ==
  {Said("message.delta")} \union Started
    \union [kind : {"tool.completed"}, call : Nat, created : SUBSET RiskEvents, evidence : BOOLEAN]
FromRunner ==
  FromSdk \union [kind : {"evidence.added"}, call : Nat]
    \union {Failed("ASSISTANT_PROVIDER_ERROR")}
Outcomes ==
  {Failed("ASSISTANT_PROVIDER_ERROR"), Failed("ASSISTANT_TOOL_LIMIT_EXCEEDED"),
   Failed("ASSISTANT_RUN_FAILED"), Failed("ASSISTANT_TIMEOUT")}
    \union [kind : {"run.completed"}, created : SUBSET RiskEvents, calls : Nat]
Handed == FromRunner \union Outcomes \union {Said(""), Said("run.started")}

Typed(s) ==
  /\ DOMAIN s = RunFields
  /\ s.ask \in Asks
  /\ s.hand \in Handed
  /\ s.sent \in Seq(Handed)
  /\ s.due \in Seq(FromRunner)
  /\ s.queue \in Seq(FromSdk)
  /\ s.flight \subseteq Nat \X Tools
  /\ s.calls \in Nat /\ s.made \in Nat
  /\ s.told \subseteq RiskEvents
  /\ s.after # "sending"

(* Only a message that people need not handle reaches the model, and only  *)
(* one that asks for a draft has the tool that makes it.                   *)
Offering(s) ==
  /\ s.sdk = "running" => ~s.ask.humanOnly
  /\ s.stage = "enter" \/ (s.stage = "sending" /\ s.after = "enter") => ~s.ask.humanOnly
  /\ \A c \in s.flight : c[2] = "generateMitigationPlan" => s.ask.draft

(* A stream that ends has an outcome to show, or a cause.                  *)
Concluding(s) ==
  /\ s.stage = "sending" /\ s.after = "ended" => s.hand.kind \in Terminal
  /\ s.stage = "ended" =>
       \/ s.sent # <<>> /\ Last(s.sent).kind \in Terminal
       \/ ~s.client
       \/ s.cut

(* After the timeout has been answered nothing is received and nothing runs*)
GivenUp(s) ==
  s.hand = Failed("ASSISTANT_TIMEOUT") =>
    /\ s.sdk # "running"
    /\ s.stage = "ended" \/ (s.stage = "sending" /\ s.after = "ended")

(* The starts that the client has seen, with the one being sent.           *)
StartsSeen(s) == {i \in DOMAIN s.sent : s.sent[i].kind = "tool.started"}
StartsComing(s) == IF s.stage = "sending" /\ s.hand.kind = "tool.started" THEN 1 ELSE 0

Counting(s) ==
  /\ IsFiniteSet(StartsSeen(s))
  /\ Cardinality(StartsSeen(s)) + StartsComing(s) <= s.calls
  /\ Cardinality(StartsSeen(s)) + StartsComing(s) <= s.ask.limit

Good(s) == Typed(s) /\ Offering(s) /\ Concluding(s) /\ GivenUp(s) /\ Counting(s)

Drafted == \A e \in RiskEvents : plan[e] \in Runs =>
             run[plan[e]].ask.draft /\ ~run[plan[e]].ask.humanOnly

RunInv ==
  /\ DOMAIN run = Runs
  /\ DOMAIN plan = RiskEvents
  /\ \A r \in Runs : Good(run[r])
  /\ Drafted

-----------------------------------------------------------------------------
LEMMA StartIsGood ==
  ASSUME NEW ask \in Asks
  PROVE  Good(Start(ask))
<1>1. Typed(Start(ask))
  BY DEF Start, Typed, RunFields, Handed
<1>2. Offering(Start(ask)) /\ Concluding(Start(ask)) /\ GivenUp(Start(ask))
  BY DEF Start, Offering, Concluding, GivenUp, Said, Failed
<1>3. Counting(Start(ask))
  <2>1. StartsSeen(Start(ask)) = {} /\ StartsComing(Start(ask)) = 0
    BY DEF StartsSeen, StartsComing, Start
  <2>2. ask.limit \in Nat \ {0} /\ Start(ask).ask = ask /\ Start(ask).calls = 0
    BY AskAssumption DEF Start
  <2> QED
    BY <2>1, <2>2, FS_EmptySet DEF Counting
<1> QED
  BY <1>1, <1>2, <1>3 DEF Good

LEMMA RunInitially == Init => RunInv
<1> SUFFICES ASSUME Init PROVE RunInv
  OBVIOUS
<1> PICK ask \in [Runs -> Asks] : run = [r \in Runs |-> Start(ask[r])]
  BY DEF Init
<1>1. \A r \in Runs : Good(run[r])
  BY StartIsGood
<1>2. Drafted
  BY NoRunAssumption DEF Init, Drafted
<1> QED
  BY <1>1, <1>2 DEF Init, RunInv

-----------------------------------------------------------------------------
(* A state that differs from a good one only in what is not sent.          *)
LEMMA SameStream ==
  ASSUME NEW s, NEW t, Good(s), Typed(t),
         t.ask = s.ask, t.stage = s.stage, t.hand = s.hand, t.after = s.after,
         t.sent = s.sent, t.calls = s.calls, t.cut = s.cut, s.client \/ ~t.client
  PROVE  Concluding(t) /\ Counting(t)
<1>1. Concluding(t)
  BY DEF Good, Concluding
<1>2. Counting(t)
  BY DEF Good, Counting, StartsSeen, StartsComing
<1> QED
  BY <1>1, <1>2

(* What the service hands over: any event, then on or to an end.           *)
LEMMA YieldIsGood ==
  ASSUME NEW s, Good(s), s.stage # "sending", s.stage # "ended",
         NEW event \in Handed, NEW after, after # "sending",
         after = "enter" => ~s.ask.humanOnly,
         after = "ended" => event.kind \in Terminal,
         event # Failed("ASSISTANT_TIMEOUT"),
         event.kind # "tool.started"
  PROVE  Good(Yield(s, event, after))
<1> DEFINE t == Yield(s, event, after)
<1>1. /\ DOMAIN t = RunFields
      /\ t.stage = "sending" /\ t.hand = event /\ t.after = after
      /\ t.ask = s.ask /\ t.sent = s.sent /\ t.due = s.due /\ t.queue = s.queue
      /\ t.flight = s.flight /\ t.calls = s.calls /\ t.made = s.made /\ t.sdk = s.sdk
      /\ t.told = s.told
  BY DEF Good, Typed, RunFields, Yield
<1> HIDE DEF t
<1>2. Typed(t) /\ Offering(t) /\ Concluding(t) /\ GivenUp(t)
  BY <1>1 DEF Good, Typed, Offering, Concluding, GivenUp
<1>3. Counting(t)
  BY <1>1 DEF Good, Counting, StartsSeen, StartsComing
<1> QED
  BY <1>2, <1>3 DEF Good, t

(* What only the SDK, the runner's queue and the timer see.                *)
LEMMA QuietIsGood ==
  ASSUME NEW s, NEW t, Good(s), Typed(t), Offering(t),
         t.ask = s.ask, t.stage = s.stage, t.hand = s.hand, t.after = s.after,
         t.sent = s.sent, t.calls = s.calls, t.cut = s.cut, s.client \/ ~t.client,
         t.sdk = "running" => s.sdk = "running"
  PROVE  Good(t)
<1>1. Concluding(t) /\ Counting(t)
  BY SameStream
<1>2. GivenUp(t)
  BY DEF Good, GivenUp
<1> QED
  BY <1>1, <1>2 DEF Good

LEMMA TimerOffIsGood ==
  ASSUME NEW s, Good(s)
  PROVE  Good([s EXCEPT !.timer = FALSE])
<1> DEFINE t == [s EXCEPT !.timer = FALSE]
<1>1. /\ DOMAIN t = RunFields
      /\ \A f \in RunFields \ {"timer"} : t[f] = s[f]
  BY DEF Good, Typed, RunFields
<1>2. /\ t.stage = s.stage /\ t.hand = s.hand /\ t.after = s.after /\ t.ask = s.ask
      /\ t.sent = s.sent /\ t.due = s.due /\ t.queue = s.queue /\ t.flight = s.flight
      /\ t.calls = s.calls /\ t.made = s.made /\ t.sdk = s.sdk /\ t.told = s.told
      /\ t.cut = s.cut /\ t.client = s.client
  BY DEF Good, Typed, RunFields
<1> HIDE DEF t
<1>3. Typed(t) /\ Offering(t)
  BY <1>1, <1>2 DEF Good, Typed, Offering
<1> QED
  BY <1>2, <1>3, QuietIsGood DEF t

-----------------------------------------------------------------------------
(* A step of one run that ends in a good state of it.                      *)
LEMMA OneRunKeeps ==
  ASSUME RunInv, NEW r \in Runs, NEW t, Good(t), t.ask = run[r].ask,
         run' = [run EXCEPT ![r] = t], UNCHANGED plan
  PROVE  RunInv'
<1>1. \A q \in Runs : run'[q] = IF q = r THEN t ELSE run[q]
  BY DEF RunInv
<1>2. \A q \in Runs : Good(run'[q]) /\ run'[q].ask = run[q].ask
  BY <1>1 DEF RunInv
<1>3. Drafted'
  BY <1>2 DEF RunInv, Drafted
<1> QED
  BY <1>2, <1>3 DEF RunInv

LEMMA YieldKeeps ==
  ASSUME RunInv, NEW r \in Runs, NEW s, Good(s), s.ask = run[r].ask,
         s.stage # "sending", s.stage # "ended",
         NEW event \in Handed, NEW after, after # "sending",
         after = "enter" => ~s.ask.humanOnly,
         after = "ended" => event.kind \in Terminal,
         event # Failed("ASSISTANT_TIMEOUT"),
         event.kind # "tool.started",
         Become(r, Yield(s, event, after))
  PROVE  RunInv'
<1>1. Good(Yield(s, event, after))
  BY YieldIsGood
<1>2. Yield(s, event, after).ask = s.ask
  BY DEF Good, Typed, RunFields, Yield
<1> QED
  BY <1>1, <1>2, OneRunKeeps DEF Become

LEMMA CompletedIsHanded ==
  ASSUME RunInv, NEW r \in Runs
  PROVE  /\ Completed(r) \in Handed
         /\ Completed(r).kind = "run.completed"
         /\ Completed(r) # Failed("ASSISTANT_TIMEOUT")
<1>1. run[r].told \in SUBSET RiskEvents /\ run[r].calls \in Nat
  BY DEF RunInv, Good, Typed
<1>2. /\ Completed(r).kind = "run.completed"
      /\ Failed("ASSISTANT_TIMEOUT").kind = "run.failed"
  BY DEF Completed, Failed
<1>3. Completed(r) \in Handed
  BY <1>1 DEF Completed, Handed, Outcomes
<1> QED
  BY <1>2, <1>3

LEMMA OpeningKeeps ==
  ASSUME RunInv, NEW r \in Runs, Open(r) \/ RefuseHumanOnly(r) \/ CompleteRefused(r)
  PROVE  RunInv'
<1>1. Good(run[r])
  BY DEF RunInv
<1>2. /\ Said("run.started") \in Handed /\ Said("run.started").kind = "run.started"
      /\ Said("message.delta") \in Handed /\ Said("message.delta").kind = "message.delta"
      /\ Failed("ASSISTANT_TIMEOUT").kind = "run.failed"
  BY DEF Handed, FromRunner, FromSdk, Said, Failed
<1>3. CASE Open(r)
  BY <1>1, <1>2, <1>3, YieldKeeps DEF Open, Stage
<1>4. CASE RefuseHumanOnly(r)
  BY <1>1, <1>2, <1>4, YieldKeeps DEF RefuseHumanOnly, Stage
<1>5. CASE CompleteRefused(r)
  BY <1>1, <1>5, CompletedIsHanded, YieldKeeps DEF CompleteRefused, Stage, Terminal
<1> QED
  BY <1>3, <1>4, <1>5

LEMMA ClosingKeeps ==
  ASSUME RunInv, NEW r \in Runs, Complete(r) \/ Fail(r)
  PROVE  RunInv'
<1> DEFINE s == [run[r] EXCEPT !.timer = FALSE]
<1>1. Good(s)
  BY TimerOffIsGood DEF RunInv
<1>2. s.ask = run[r].ask /\ s.stage = run[r].stage
  BY DEF RunInv, Good, Typed, RunFields
<1> HIDE DEF s
<1>3. /\ Failed("ASSISTANT_RUN_FAILED") \in Handed
      /\ Failed("ASSISTANT_RUN_FAILED").kind = "run.failed"
      /\ Failed("ASSISTANT_RUN_FAILED") # Failed("ASSISTANT_TIMEOUT")
  BY DEF Handed, Outcomes, Failed
<1>4. CASE Complete(r)
  <2>1. Become(r, Yield(s, Completed(r), "ended")) /\ s.stage = "waiting"
    BY <1>2, <1>4 DEF Complete, Stage, s
  <2> QED
    BY <1>1, <1>2, <2>1, CompletedIsHanded, YieldKeeps DEF Terminal
<1>5. CASE Fail(r)
  <2>1. Become(r, Yield(s, Failed("ASSISTANT_RUN_FAILED"), "ended")) /\ s.stage = "waiting"
    BY <1>2, <1>5 DEF Fail, Stage, s
  <2> QED
    BY <1>1, <1>2, <1>3, <2>1, YieldKeeps DEF Terminal
<1> QED
  BY <1>4, <1>5

-----------------------------------------------------------------------------
LEMMA EnterKeeps ==
  ASSUME RunInv, NEW r \in Runs, Enter(r)
  PROVE  RunInv'
<1> DEFINE s == run[r]
           t == [Launched(r) EXCEPT !.timer = TRUE]
<1>1. Good(s) /\ s.stage = "enter" /\ ~s.ask.humanOnly
  BY DEF RunInv, Enter, Stage, Good, Offering
<1>2. /\ DOMAIN t = RunFields
      /\ t.ask = s.ask /\ t.stage = "waiting" /\ t.hand = s.hand /\ t.sent = s.sent
      /\ t.after = s.after
      /\ t.calls = s.calls /\ t.flight = s.flight /\ t.queue = s.queue /\ t.made = s.made
      /\ t.told = s.told
      /\ t.due = s.due \/ t.due = <<Failed("ASSISTANT_PROVIDER_ERROR")>>
  BY <1>1 DEF Good, Typed, RunFields, Launched
<1> HIDE DEF t
<1>3. t.due \in Seq(FromRunner)
  <2>1. Failed("ASSISTANT_PROVIDER_ERROR") \in FromRunner
    BY DEF FromRunner
  <2>2. <<Failed("ASSISTANT_PROVIDER_ERROR")>> \in Seq(FromRunner)
    BY <2>1
  <2> QED
    BY <1>1, <1>2, <2>2 DEF Good, Typed
<1>4. Typed(t)
  BY <1>1, <1>2, <1>3 DEF Good, Typed
<1>5. Offering(t) /\ Concluding(t)
  BY <1>1, <1>2 DEF Good, Offering, Concluding
<1>6. GivenUp(t)
  BY <1>1, <1>2 DEF Good, GivenUp
<1>7. Counting(t)
  BY <1>1, <1>2 DEF Good, Counting, StartsSeen, StartsComing
<1>8. run' = [run EXCEPT ![r] = t] /\ UNCHANGED plan
  BY DEF Enter, Become, t
<1> QED
  BY <1>2, <1>4, <1>5, <1>6, <1>7, <1>8, OneRunKeeps DEF Good

LEMMA MapOutputKeeps ==
  ASSUME RunInv, NEW r \in Runs, MapOutput(r)
  PROVE  RunInv'
<1> DEFINE s == run[r]
           t == [s EXCEPT !.due = Mapped(Head(s.queue)), !.queue = Tail(@)]
<1>1. Good(s) /\ s.queue # <<>>
  BY DEF RunInv, MapOutput
<1>2. Head(s.queue) \in FromSdk /\ Tail(s.queue) \in Seq(FromSdk)
  BY <1>1 DEF Good, Typed
<1>3. Mapped(Head(s.queue)) \in Seq(FromRunner)
  <2> DEFINE e == Head(s.queue)
  <2>1. CASE e.kind # "tool.completed"
    BY <1>2, <2>1 DEF Mapped, FromRunner
  <2>2. CASE e.kind = "tool.completed"
    <3>1. e \in [kind : {"tool.completed"}, call : Nat, created : SUBSET RiskEvents,
                 evidence : BOOLEAN]
      BY <1>2, <2>2 DEF FromSdk, Started, Said
    <3>2. [e EXCEPT !.evidence = FALSE] \in FromRunner
      BY <3>1 DEF FromRunner, FromSdk
    <3>3. [kind |-> "evidence.added", call |-> e.call] \in FromRunner
      BY <3>1 DEF FromRunner
    <3> HIDE DEF e
    <3> QED
      BY <2>2, <3>2, <3>3 DEF Mapped, e
  <2> QED
    BY <2>1, <2>2
<1>4. /\ DOMAIN t = RunFields
      /\ t.stage = s.stage /\ t.hand = s.hand /\ t.after = s.after /\ t.ask = s.ask
      /\ t.sent = s.sent /\ t.flight = s.flight /\ t.calls = s.calls /\ t.made = s.made
      /\ t.sdk = s.sdk /\ t.told = s.told /\ t.cut = s.cut /\ t.client = s.client
      /\ t.due = Mapped(Head(s.queue)) /\ t.queue = Tail(s.queue)
  BY <1>1 DEF Good, Typed, RunFields
<1>5. run' = [run EXCEPT ![r] = t] /\ UNCHANGED plan
  BY DEF MapOutput, Become
<1> HIDE DEF t
<1>6. Typed(t) /\ Offering(t)
  BY <1>1, <1>2, <1>3, <1>4 DEF Good, Typed, Offering
<1>7. Good(t)
  BY <1>1, <1>4, <1>6, QuietIsGood
<1> QED
  BY <1>4, <1>5, <1>7, OneRunKeeps

-----------------------------------------------------------------------------
(* What the service keeps of an event before it hands it on.               *)
LEMMA KeptIsGood ==
  ASSUME NEW s, Good(s), NEW created \in SUBSET RiskEvents
  PROVE  /\ Good([s EXCEPT !.calls = @ + 1])
         /\ Good([s EXCEPT !.told = @ \union created])
<1>1. ASSUME NEW t, DOMAIN t = RunFields, t.calls \in {s.calls, s.calls + 1},
             t.told \subseteq RiskEvents,
             \A f \in RunFields \ {"calls", "told"} : t[f] = s[f]
      PROVE  Good(t)
  <2>1. /\ t.stage = s.stage /\ t.hand = s.hand /\ t.after = s.after /\ t.ask = s.ask
        /\ t.sent = s.sent /\ t.due = s.due /\ t.queue = s.queue /\ t.flight = s.flight
        /\ t.made = s.made /\ t.sdk = s.sdk /\ t.cut = s.cut /\ t.client = s.client
    BY <1>1 DEF RunFields
  <2>2. Typed(t) /\ Offering(t) /\ Concluding(t) /\ GivenUp(t)
    BY <1>1, <2>1 DEF Good, Typed, Offering, Concluding, GivenUp
  <2>3. Counting(t)
    <3>1. StartsSeen(t) = StartsSeen(s) /\ StartsComing(t) = StartsComing(s)
      BY <2>1 DEF StartsSeen, StartsComing
    <3>2. IsFiniteSet(StartsSeen(s)) /\ s.calls \in Nat
      BY DEF Good, Counting, Typed
    <3>3. Cardinality(StartsSeen(s)) \in Nat /\ StartsComing(s) \in {0, 1}
      BY <3>2, FS_CardinalityType DEF StartsComing
    <3> QED
      BY <1>1, <2>1, <3>1, <3>2, <3>3 DEF Good, Counting
  <2> QED
    BY <2>2, <2>3 DEF Good
<1>2. Good([s EXCEPT !.calls = @ + 1])
  BY <1>1 DEF Good, Typed, RunFields
<1>3. Good([s EXCEPT !.told = @ \union created])
  BY <1>1 DEF Good, Typed, RunFields
<1> QED
  BY <1>2, <1>3

LEMMA TakenIsGood ==
  ASSUME NEW s, Good(s), s.due # <<>>
  PROVE  /\ Good([s EXCEPT !.due = Tail(@)])
         /\ Head(s.due) \in FromRunner
<1> DEFINE t == [s EXCEPT !.due = Tail(@)]
<1>1. Head(s.due) \in FromRunner /\ Tail(s.due) \in Seq(FromRunner)
  BY DEF Good, Typed
<1>2. /\ DOMAIN t = RunFields /\ t.due = Tail(s.due)
      /\ t.stage = s.stage /\ t.hand = s.hand /\ t.after = s.after /\ t.ask = s.ask
      /\ t.sent = s.sent /\ t.queue = s.queue /\ t.flight = s.flight
      /\ t.calls = s.calls /\ t.made = s.made /\ t.sdk = s.sdk /\ t.told = s.told
      /\ t.cut = s.cut /\ t.client = s.client
  BY DEF Good, Typed, RunFields
<1> HIDE DEF t
<1>3. Typed(t) /\ Offering(t)
  BY <1>1, <1>2 DEF Good, Typed, Offering
<1>4. Good(t)
  BY <1>2, <1>3, QuietIsGood
<1> QED
  BY <1>1, <1>4 DEF t

(* The start of a call within the limit: one more counted, one more seen.  *)
LEMMA StartYieldIsGood ==
  ASSUME NEW s, Good(s), s.stage = "waiting", s.calls < s.ask.limit,
         NEW event \in Started
  PROVE  Good(Yield([s EXCEPT !.calls = @ + 1], event, "waiting"))
<1> DEFINE t == Yield([s EXCEPT !.calls = @ + 1], event, "waiting")
<1>1. /\ DOMAIN t = RunFields
      /\ t.stage = "sending" /\ t.hand = event /\ t.after = "waiting"
      /\ t.ask = s.ask /\ t.sent = s.sent /\ t.due = s.due /\ t.queue = s.queue
      /\ t.flight = s.flight /\ t.calls = s.calls + 1 /\ t.made = s.made /\ t.sdk = s.sdk
      /\ t.told = s.told
  BY DEF Good, Typed, RunFields, Yield
<1> HIDE DEF t
<1>2. event \in Handed /\ event.kind = "tool.started" /\ Failed("ASSISTANT_TIMEOUT").kind = "run.failed"
  BY DEF Handed, FromRunner, FromSdk, Started, Failed
<1>3. Typed(t)
  BY <1>1, <1>2 DEF Good, Typed
<1>4. Offering(t)
  BY <1>1 DEF Good, Offering
<1>5. Concluding(t) /\ GivenUp(t)
  BY <1>1, <1>2 DEF Concluding, GivenUp
<1>6. Counting(t)
  <2>1. StartsSeen(t) = StartsSeen(s) /\ StartsComing(t) = 1 /\ StartsComing(s) = 0
    BY <1>1, <1>2 DEF StartsSeen, StartsComing
  <2>2. IsFiniteSet(StartsSeen(s)) /\ s.calls \in Nat /\ s.ask.limit \in Nat
    BY AskAssumption DEF Good, Counting, Typed
  <2>3. Cardinality(StartsSeen(s)) \in Nat
    BY <2>2, FS_CardinalityType
  <2>4. Cardinality(StartsSeen(s)) <= s.calls
    BY <2>1, <2>3 DEF Good, Counting
  <2> QED
    BY <1>1, <2>1, <2>2, <2>3, <2>4 DEF Counting
<1> QED
  BY <1>3, <1>4, <1>5, <1>6 DEF Good, t

LEMMA ReceiveKeeps ==
  ASSUME RunInv, NEW r \in Runs, Receive(r)
  PROVE  RunInv'
<1> DEFINE s == [run[r] EXCEPT !.due = Tail(@)]
           event == Head(run[r].due)
<1>1. Good(s) /\ event \in FromRunner
  BY TakenIsGood DEF RunInv, Receive
<1>2. s.ask = run[r].ask /\ s.stage = "waiting"
  BY DEF RunInv, Receive, Stage, Good, Typed, RunFields
<1>3. Become(r, Received(s, event))
  BY DEF Receive
<1> HIDE DEF s, event
<1>4. event \in Handed /\ event # Failed("ASSISTANT_TIMEOUT")
  <2>1. Failed("ASSISTANT_PROVIDER_ERROR") # Failed("ASSISTANT_TIMEOUT")
    BY DEF Failed
  <2>2. Failed("ASSISTANT_TIMEOUT").kind = "run.failed"
    BY DEF Failed
  <2>3. event.kind # "run.failed" \/ event = Failed("ASSISTANT_PROVIDER_ERROR")
    BY <1>1 DEF FromRunner, FromSdk, Started, Said
  <2>4. event # Failed("ASSISTANT_TIMEOUT")
    BY <2>1, <2>2, <2>3
  <2>5. event \in Handed
    BY <1>1 DEF Handed
  <2> QED
    BY <2>4, <2>5
<1>5. s.calls \in Nat /\ s.ask.limit \in Nat
  BY <1>1, AskAssumption DEF Good, Typed
<1>6. CASE event.kind = "tool.started" /\ s.calls >= s.ask.limit
  <2> DEFINE t == [s EXCEPT !.calls = @ + 1]
             last == Failed("ASSISTANT_TOOL_LIMIT_EXCEEDED")
  <2>1. Good(t) /\ t.ask = s.ask /\ t.stage = s.stage
    BY <1>1, KeptIsGood DEF Good, Typed, RunFields
  <2>2. last \in Handed /\ last.kind = "run.failed" /\ last # Failed("ASSISTANT_TIMEOUT")
    BY DEF Handed, Outcomes, Failed
  <2>3. Become(r, Yield(t, last, "ended"))
    BY <1>3, <1>5, <1>6 DEF Received
  <2> HIDE DEF t, last
  <2> QED
    BY <1>2, <2>1, <2>2, <2>3, YieldKeeps DEF Terminal
<1>7. CASE event.kind = "tool.started" /\ s.calls < s.ask.limit
  <2>1. event \in Started
    BY <1>1, <1>7 DEF FromRunner, FromSdk, Said, Failed
  <2>2. Good(Yield([s EXCEPT !.calls = @ + 1], event, "waiting"))
    BY <1>1, <1>2, <1>7, <2>1, StartYieldIsGood
  <2>3. Yield([s EXCEPT !.calls = @ + 1], event, "waiting").ask = s.ask
    BY <1>1 DEF Good, Typed, RunFields, Yield
  <2>4. Become(r, Yield([s EXCEPT !.calls = @ + 1], event, "waiting"))
    BY <1>3, <1>5, <1>7 DEF Received
  <2> QED
    BY <1>2, <2>2, <2>3, <2>4, OneRunKeeps DEF Become
<1>8. CASE event.kind = "tool.completed"
  <2> DEFINE t == [s EXCEPT !.told = @ \union event.created]
  <2>1. event.created \in SUBSET RiskEvents
    BY <1>1, <1>8 DEF FromRunner, FromSdk, Started, Said, Failed
  <2>2. Good(t) /\ t.ask = s.ask /\ t.stage = s.stage
    BY <1>1, <2>1, KeptIsGood DEF Good, Typed, RunFields
  <2>3. Become(r, Yield(t, event, "waiting"))
    BY <1>3, <1>8 DEF Received
  <2> HIDE DEF t
  <2> QED
    BY <1>2, <1>4, <1>8, <2>2, <2>3, YieldKeeps
<1>9. CASE event.kind = "run.failed"
  <2>1. Become(r, Yield(s, event, "ended"))
    BY <1>3, <1>9 DEF Received
  <2> QED
    BY <1>1, <1>2, <1>4, <1>9, <2>1, YieldKeeps DEF Terminal
<1>10. CASE event.kind \notin {"tool.started", "tool.completed", "run.failed"}
  <2>1. Become(r, Yield(s, event, "waiting"))
    BY <1>3, <1>10 DEF Received
  <2> QED
    BY <1>1, <1>2, <1>4, <1>10, <2>1, YieldKeeps
<1> QED
  BY <1>5, <1>6, <1>7, <1>8, <1>9, <1>10

-----------------------------------------------------------------------------
(* The timer: the answer is final because the SDK's run is cancelled.      *)
LEMMA CancelledFields ==
  ASSUME NEW s, Good(s)
  PROVE  /\ \A f \in RunFields \ {"sdk"} : Cancelled(s)[f] = s[f]
         /\ DOMAIN Cancelled(s) = RunFields
         /\ Cancelled(s).sdk # "running"
  BY DEF Cancelled, Good, Typed, RunFields

LEMMA CancelledIsGood ==
  ASSUME NEW s, Good(s)
  PROVE  Good(Cancelled(s))
<1> DEFINE t == Cancelled(s)
<1>1. /\ DOMAIN t = RunFields /\ t.sdk # "running"
      /\ t.stage = s.stage /\ t.hand = s.hand /\ t.after = s.after /\ t.ask = s.ask
      /\ t.sent = s.sent /\ t.due = s.due /\ t.queue = s.queue /\ t.flight = s.flight
      /\ t.calls = s.calls /\ t.made = s.made /\ t.told = s.told
      /\ t.cut = s.cut /\ t.client = s.client
  BY CancelledFields DEF RunFields
<1> HIDE DEF t
<1>2. Typed(t) /\ Offering(t)
  BY <1>1 DEF Good, Typed, Offering
<1> QED
  BY <1>1, <1>2, QuietIsGood DEF t

LEMMA TimeoutKeeps ==
  ASSUME RunInv, NEW r \in Runs, Timeout(r)
  PROVE  RunInv'
<1> DEFINE s == Cancelled([run[r] EXCEPT !.timer = FALSE])
           last == Failed("ASSISTANT_TIMEOUT")
           t == Yield(s, last, "ended")
<1>1. Good(s) /\ s.sdk # "running"
  BY TimerOffIsGood, CancelledIsGood, CancelledFields DEF RunInv
<1>2. s.ask = run[r].ask /\ s.stage = "waiting"
  BY DEF RunInv, Timeout, Stage, Good, Typed, RunFields, Cancelled
<1>3. last \in Handed /\ last.kind = "run.failed"
  BY DEF Handed, Outcomes, Failed
<1>4. run' = [run EXCEPT ![r] = t] /\ UNCHANGED plan
  BY DEF Timeout, Become
<1> HIDE DEF s
<1>5. /\ DOMAIN t = RunFields
      /\ t.stage = "sending" /\ t.hand = last /\ t.after = "ended"
      /\ t.ask = s.ask /\ t.sent = s.sent /\ t.due = s.due /\ t.queue = s.queue
      /\ t.flight = s.flight /\ t.calls = s.calls /\ t.made = s.made /\ t.sdk = s.sdk
      /\ t.told = s.told
  BY <1>1 DEF Good, Typed, RunFields, Yield
<1> HIDE DEF t
<1>6. Typed(t) /\ Offering(t) /\ Concluding(t) /\ GivenUp(t)
  BY <1>1, <1>3, <1>5 DEF Good, Typed, Offering, Concluding, GivenUp, Terminal
<1>7. Counting(t)
  BY <1>1, <1>2, <1>3, <1>5 DEF Good, Counting, StartsSeen, StartsComing
<1> QED
  BY <1>2, <1>4, <1>5, <1>6, <1>7, OneRunKeeps DEF Good

LEMMA CutOffKeeps ==
  ASSUME RunInv, NEW r \in Runs, CutOff(r) \/ Abandon(r)
  PROVE  RunInv'
<1> DEFINE s == run[r]
           t == run'[r]
<1>1. Good(s) /\ s.stage = "sending"
  BY DEF RunInv, CutOff, Abandon, Stage
<1>2. /\ DOMAIN t = RunFields
      /\ t.stage = "ended" /\ t.hand = s.hand /\ t.after = s.after /\ t.ask = s.ask
      /\ t.sent = s.sent /\ t.due = s.due /\ t.queue = s.queue /\ t.flight = s.flight
      /\ t.calls = s.calls /\ t.made = s.made /\ t.sdk = s.sdk /\ t.told = s.told
      /\ t.cut \/ ~t.client
  <2>1. CASE CutOff(r)
    BY <1>1, <2>1 DEF CutOff, Become, RunInv, Good, Typed, RunFields
  <2>2. CASE Abandon(r)
    BY <1>1, <2>2 DEF Abandon, Become, RunInv, Good, Typed, RunFields
  <2> QED
    BY <2>1, <2>2
<1>3. run' = [run EXCEPT ![r] = t] /\ UNCHANGED plan
  BY DEF CutOff, Abandon, Become, RunInv
<1> HIDE DEF t
<1>4. Typed(t) /\ Offering(t) /\ Concluding(t) /\ GivenUp(t)
  BY <1>1, <1>2 DEF Good, Typed, Offering, Concluding, GivenUp
<1>5. Counting(t)
  <2>1. StartsSeen(t) = StartsSeen(s) /\ StartsComing(t) = 0 /\ StartsComing(s) \in {0, 1}
    BY <1>2 DEF StartsSeen, StartsComing
  <2>2. Cardinality(StartsSeen(s)) \in Nat /\ s.calls \in Nat /\ s.ask.limit \in Nat
    BY <1>1, FS_CardinalityType, AskAssumption DEF Good, Counting, Typed
  <2> QED
    BY <1>1, <1>2, <2>1, <2>2 DEF Good, Counting
<1> QED
  BY <1>2, <1>3, <1>4, <1>5, OneRunKeeps DEF Good

-----------------------------------------------------------------------------
(* What is delivered is seen: a start that was coming has come.            *)
LEMMA Appended ==
  ASSUME NEW S, NEW sent \in Seq(S), NEW event \in S
  PROVE  LET next == Append(sent, event)
         IN /\ DOMAIN next = 1..(Len(sent) + 1) /\ DOMAIN sent = 1..Len(sent)
            /\ Len(sent) \in Nat /\ next \in Seq(S)
            /\ next[Len(sent) + 1] = event /\ Len(next) = Len(sent) + 1
            /\ \A i \in 1..Len(sent) : next[i] = sent[i]
  OBVIOUS

LEMMA StartsAfterAppend ==
  ASSUME NEW s, NEW t, s.sent \in Seq(Handed), s.hand \in Handed,
         t.sent = Append(s.sent, s.hand), IsFiniteSet(StartsSeen(s))
  PROVE  /\ IsFiniteSet(StartsSeen(t))
         /\ Cardinality(StartsSeen(t)) =
              IF s.hand.kind = "tool.started" THEN Cardinality(StartsSeen(s)) + 1
              ELSE Cardinality(StartsSeen(s))
<1> DEFINE n == Len(s.sent)
<1>1. /\ DOMAIN t.sent = 1..(n + 1) /\ DOMAIN s.sent = 1..n /\ n \in Nat
      /\ t.sent[n + 1] = s.hand
      /\ \A i \in 1..n : t.sent[i] = s.sent[i]
  BY Appended
<1> HIDE DEF n
<1>2. CASE s.hand.kind = "tool.started"
  <2>1. StartsSeen(t) = StartsSeen(s) \union {n + 1} /\ n + 1 \notin StartsSeen(s)
    BY <1>1, <1>2 DEF StartsSeen
  <2>2. /\ IsFiniteSet(StartsSeen(s) \union {n + 1})
        /\ Cardinality(StartsSeen(s) \union {n + 1}) = Cardinality(StartsSeen(s)) + 1
    BY <2>1, FS_AddElement
  <2> QED
    BY <1>2, <2>1, <2>2
<1>3. CASE s.hand.kind # "tool.started"
  <2>1. StartsSeen(t) = StartsSeen(s)
    BY <1>1, <1>3 DEF StartsSeen
  <2> QED
    BY <1>3, <2>1
<1> QED
  BY <1>2, <1>3

LEMMA DeliverKeeps ==
  ASSUME RunInv, NEW r \in Runs, Deliver(r)
  PROVE  RunInv'
<1> DEFINE s == run[r]
           t == run'[r]
<1>1. Good(s) /\ s.stage = "sending"
  BY DEF RunInv, Deliver, Stage
<1>2. /\ DOMAIN t = RunFields
      /\ t.stage = s.after /\ t.hand = s.hand /\ t.after = s.after /\ t.ask = s.ask
      /\ t.sent = Append(s.sent, s.hand) /\ t.due = s.due /\ t.queue = s.queue
      /\ t.flight = s.flight /\ t.calls = s.calls /\ t.made = s.made /\ t.sdk = s.sdk
      /\ t.told = s.told
  BY <1>1 DEF Deliver, Become, RunInv, Good, Typed, RunFields
<1>3. run' = [run EXCEPT ![r] = t] /\ UNCHANGED plan
  BY DEF Deliver, Become, RunInv
<1> HIDE DEF t
<1>4. /\ s.sent \in Seq(Handed) /\ s.hand \in Handed
      /\ t.sent \in Seq(Handed) /\ t.sent # <<>> /\ Last(t.sent) = s.hand
  <2>1. s.sent \in Seq(Handed) /\ s.hand \in Handed
    BY <1>1 DEF Good, Typed
  <2>2. /\ t.sent \in Seq(Handed) /\ Len(t.sent) = Len(s.sent) + 1 /\ Len(s.sent) \in Nat
        /\ t.sent[Len(s.sent) + 1] = s.hand
    BY <1>2, <2>1, Appended
  <2> QED
    BY <2>1, <2>2 DEF Last
<1>5. Typed(t) /\ Offering(t)
  BY <1>1, <1>2, <1>4 DEF Good, Typed, Offering
<1>6. Concluding(t)
  <2>1. t.stage = "ended" => s.hand.kind \in Terminal
    BY <1>1, <1>2 DEF Good, Concluding
  <2>2. t.stage = "sending" => t.after # "ended"
    BY <1>2
  <2> QED
    BY <1>4, <2>1, <2>2 DEF Concluding
<1>7. GivenUp(t)
  BY <1>1, <1>2 DEF Good, GivenUp
<1>8. Counting(t)
  <2>1. IsFiniteSet(StartsSeen(s)) /\ s.calls \in Nat /\ s.ask.limit \in Nat
    BY <1>1, AskAssumption DEF Good, Counting, Typed
  <2>2. /\ IsFiniteSet(StartsSeen(t))
        /\ Cardinality(StartsSeen(t)) =
             IF s.hand.kind = "tool.started" THEN Cardinality(StartsSeen(s)) + 1
             ELSE Cardinality(StartsSeen(s))
    BY <1>2, <1>4, <2>1, StartsAfterAppend
  <2>3. StartsComing(t) = 0
    BY <1>1, <1>2 DEF StartsComing, Good, Typed
  <2>4. Cardinality(StartsSeen(s)) \in Nat
    BY <2>1, FS_CardinalityType
  <2>5. Cardinality(StartsSeen(t)) = Cardinality(StartsSeen(s)) + StartsComing(s)
    BY <1>1, <2>2, <2>4 DEF StartsComing
  <2> QED
    BY <1>1, <1>2, <2>1, <2>2, <2>3, <2>4, <2>5 DEF Good, Counting
<1> QED
  BY <1>2, <1>3, <1>5, <1>6, <1>7, <1>8, OneRunKeeps DEF Good

-----------------------------------------------------------------------------
LEMMA DepartureKeeps ==
  ASSUME RunInv, NEW r \in Runs, ClientLeaves(r) \/ CancelWaiting(r)
  PROVE  RunInv'
<1>1. Good(run[r])
  BY DEF RunInv
<1>2. CASE ClientLeaves(r)
  <2> DEFINE s == run[r]
             t == [s EXCEPT !.client = FALSE]
  <2>1. /\ DOMAIN t = RunFields /\ ~t.client
        /\ t.stage = s.stage /\ t.hand = s.hand /\ t.after = s.after /\ t.ask = s.ask
        /\ t.sent = s.sent /\ t.due = s.due /\ t.queue = s.queue /\ t.flight = s.flight
        /\ t.calls = s.calls /\ t.made = s.made /\ t.sdk = s.sdk /\ t.told = s.told
        /\ t.cut = s.cut
    BY <1>1 DEF Good, Typed, RunFields
  <2>2. run' = [run EXCEPT ![r] = t] /\ UNCHANGED plan
    BY <1>2 DEF ClientLeaves, Become
  <2> HIDE DEF t
  <2>3. Typed(t) /\ Offering(t)
    BY <1>1, <2>1 DEF Good, Typed, Offering
  <2> QED
    BY <1>1, <2>1, <2>2, <2>3, QuietIsGood, OneRunKeeps
<1>3. CASE CancelWaiting(r)
  <2> DEFINE s == [run[r] EXCEPT !.stage = "ended", !.timer = FALSE]
             t == Cancelled(s)
  <2>1. /\ DOMAIN s = RunFields /\ s.stage = "ended" /\ ~s.client /\ s.hand = run[r].hand
        /\ s.after = run[r].after /\ s.ask = run[r].ask /\ s.sent = run[r].sent
        /\ s.due = run[r].due /\ s.queue = run[r].queue /\ s.flight = run[r].flight
        /\ s.calls = run[r].calls /\ s.made = run[r].made /\ s.sdk = run[r].sdk
        /\ s.told = run[r].told
    BY <1>1, <1>3 DEF CancelWaiting, Good, Typed, RunFields
  <2>2. run[r].stage = "waiting"
    BY <1>3 DEF CancelWaiting, Stage
  <2>3. run' = [run EXCEPT ![r] = t] /\ UNCHANGED plan
    BY <1>3 DEF CancelWaiting, Become
  <2> HIDE DEF s
  <2>4. Typed(s) /\ Offering(s) /\ Concluding(s) /\ GivenUp(s)
    BY <1>1, <2>1, <2>2 DEF Good, Typed, Offering, Concluding, GivenUp
  <2>5. Counting(s)
    BY <1>1, <2>1, <2>2 DEF Good, Counting, StartsSeen, StartsComing
  <2>6. Good(t) /\ t.ask = run[r].ask
    BY <2>1, <2>4, <2>5, CancelledIsGood, CancelledFields DEF Good, RunFields
  <2> HIDE DEF t
  <2> QED
    BY <2>3, <2>6, OneRunKeeps
<1> QED
  BY <1>2, <1>3

-----------------------------------------------------------------------------
(* The SDK changes its own fields only, and calls what it is offered.      *)
LEMMA AgentIsQuiet ==
  ASSUME NEW s, NEW t, Good(s), s.sdk = "running", DOMAIN t = RunFields,
         \A f \in RunFields \ {"sdk", "queue", "flight", "made", "spoken"} : t[f] = s[f],
         t.queue \in Seq(FromSdk), t.made \in Nat, t.flight \subseteq Nat \X Tools,
         \A c \in t.flight : c[2] = "generateMitigationPlan" => s.ask.draft
  PROVE  Good(t) /\ t.ask = s.ask
<1>1. /\ t.stage = s.stage /\ t.hand = s.hand /\ t.after = s.after /\ t.ask = s.ask
      /\ t.sent = s.sent /\ t.due = s.due /\ t.calls = s.calls /\ t.told = s.told
      /\ t.cut = s.cut /\ t.client = s.client
  BY DEF RunFields
<1>2. Typed(t)
  BY <1>1 DEF Good, Typed
<1>3. Offering(t)
  BY <1>1 DEF Good, Offering
<1> QED
  BY <1>1, <1>2, <1>3, QuietIsGood

LEMMA Announced ==
  ASSUME RunInv, NEW r \in Runs, NEW event \in FromSdk
  PROVE  /\ DOMAIN Announce(r, event) = RunFields
         /\ Announce(r, event).queue \in Seq(FromSdk)
         /\ \A f \in RunFields \ {"queue"} : Announce(r, event)[f] = run[r][f]
<1>1. DOMAIN run[r] = RunFields /\ run[r].queue \in Seq(FromSdk)
  BY DEF RunInv, Good, Typed
<1>2. Append(run[r].queue, event) \in Seq(FromSdk)
  BY <1>1
<1> QED
  BY <1>1, <1>2 DEF Announce, RunFields

LEMMA ReturnedIsGood ==
  ASSUME RunInv, NEW r \in Runs, NEW c \in run[r].flight, Working(r),
         NEW created \in SUBSET RiskEvents, NEW evidence \in BOOLEAN
  PROVE  /\ Good(Returned(r, c, created, evidence))
         /\ Returned(r, c, created, evidence).ask = run[r].ask
<1> DEFINE event == Output(c, created, evidence)
           s == run[r]
           t == Returned(r, c, created, evidence)
<1>1. Good(s) /\ s.sdk = "running" /\ s.flight \subseteq Nat \X Tools
  BY DEF RunInv, Working, Good, Typed
<1>2. event \in FromSdk
  BY <1>1 DEF Output, FromSdk
<1>3. /\ DOMAIN t = RunFields /\ t.queue \in Seq(FromSdk) /\ t.flight = s.flight \ {c}
      /\ \A f \in RunFields \ {"queue", "flight"} : t[f] = s[f]
  BY <1>2, Announced DEF Returned, RunFields
<1>4. t.made = s.made /\ s.made \in Nat
  BY <1>1, <1>3 DEF RunFields, Good, Typed
<1> HIDE DEF t
<1>5. /\ t.flight \subseteq Nat \X Tools
      /\ \A d \in t.flight : d[2] = "generateMitigationPlan" => s.ask.draft
  BY <1>1, <1>3 DEF Good, Offering
<1>6. \A f \in RunFields \ {"sdk", "queue", "flight", "made", "spoken"} : t[f] = s[f]
  BY <1>3
<1>7. t.queue \in Seq(FromSdk) /\ t.made \in Nat /\ DOMAIN t = RunFields
  BY <1>3, <1>4
<1> HIDE DEF s
<1>8. Good(t) /\ t.ask = s.ask
  BY <1>1, <1>5, <1>6, <1>7, AgentIsQuiet
<1> QED
  BY <1>8 DEF t, s

LEMMA SpeakingKeeps ==
  ASSUME RunInv, NEW r \in Runs, Speak(r) \/ Finish(r) \/ Break(r)
  PROVE  RunInv'
<1> DEFINE s == run[r]
           t == run'[r]
<1>1. Good(s) /\ s.sdk = "running"
  BY DEF RunInv, Speak, Finish, Break, Working
<1>2. /\ s.queue \in Seq(FromSdk) /\ s.flight \subseteq Nat \X Tools /\ s.made \in Nat
      /\ DOMAIN s = RunFields
  BY <1>1 DEF Good, Typed
<1>3. /\ DOMAIN t = RunFields /\ t.queue \in Seq(FromSdk)
      /\ \A f \in RunFields \ {"queue", "sdk", "spoken"} : t[f] = s[f]
  <2>1. CASE Speak(r)
    <3>1. Said("message.delta") \in FromSdk
      BY DEF FromSdk
    <3> QED
      BY <2>1, <3>1, Announced DEF Speak, Become, RunInv, RunFields
  <2>2. CASE Finish(r) \/ Break(r)
    BY <1>2, <2>2 DEF Finish, Break, Become, RunInv, RunFields
  <2> QED
    BY <2>1, <2>2
<1>4. run' = [run EXCEPT ![r] = t] /\ UNCHANGED plan
  BY DEF Speak, Finish, Break, Become, RunInv
<1> HIDE DEF t
<1>5. t.flight = s.flight /\ t.made = s.made
  BY <1>3 DEF RunFields
<1>6. Good(t) /\ t.ask = s.ask
  BY <1>1, <1>2, <1>3, <1>5, AgentIsQuiet DEF Good, Offering
<1> QED
  BY <1>4, <1>6, OneRunKeeps

LEMMA CallToolKeeps ==
  ASSUME RunInv, NEW r \in Runs, NEW tool \in Tools, CallTool(r, tool)
  PROVE  RunInv'
<1> DEFINE s == run[r]
           n == s.made + 1
           event == [kind |-> "tool.started", call |-> n]
           t == [Announce(r, event) EXCEPT !.made = n, !.flight = @ \union {<<n, tool>>}]
<1>1. Good(s) /\ s.sdk = "running"
  BY DEF RunInv, CallTool, Working
<1>2. s.flight \subseteq Nat \X Tools /\ n \in Nat
  BY <1>1 DEF Good, Typed
<1>3. event \in FromSdk
  BY <1>2 DEF FromSdk, Started
<1>4. /\ DOMAIN t = RunFields /\ t.queue \in Seq(FromSdk) /\ t.made = n
      /\ t.flight = s.flight \union {<<n, tool>>}
      /\ \A f \in RunFields \ {"queue", "made", "flight"} : t[f] = s[f]
  BY <1>3, Announced DEF RunFields
<1>5. run' = [run EXCEPT ![r] = t] /\ UNCHANGED plan
  BY DEF CallTool, Become
<1>6. tool = "generateMitigationPlan" => s.ask.draft
  BY DEF CallTool, Offered
<1> HIDE DEF t
<1>7. \A c \in t.flight : c[2] = "generateMitigationPlan" => s.ask.draft
  BY <1>1, <1>4, <1>6 DEF Good, Offering
<1>8. Good(t) /\ t.ask = s.ask
  BY <1>1, <1>2, <1>4, <1>7, AgentIsQuiet
<1> QED
  BY <1>5, <1>8, OneRunKeeps

LEMMA ReadToolKeeps ==
  ASSUME RunInv, NEW r \in Runs, NEW c \in run[r].flight, ReadTool(r, c)
  PROVE  RunInv'
<1> PICK evidence \in BOOLEAN : Become(r, Returned(r, c, {}, evidence))
  BY DEF ReadTool
<1> QED
  BY ReturnedIsGood, OneRunKeeps DEF ReadTool, Become

LEMMA GenerateToolKeeps ==
  ASSUME RunInv, NEW r \in Runs, NEW c \in run[r].flight, NEW e \in RiskEvents,
         GenerateTool(r, c, e)
  PROVE  RunInv'
<1> DEFINE t == Returned(r, c, {e}, FALSE)
<1>1. Good(t) /\ t.ask = run[r].ask
  BY ReturnedIsGood DEF GenerateTool
<1>2. run[r].ask.draft /\ ~run[r].ask.humanOnly
  BY DEF GenerateTool, Working, RunInv, Good, Offering
<1>3. run' = [run EXCEPT ![r] = t] /\ plan' = [plan EXCEPT ![e] = r]
  BY DEF GenerateTool
<1> HIDE DEF t
<1>4. \A q \in Runs : Good(run'[q]) /\ run'[q].ask = run[q].ask
  BY <1>1, <1>3 DEF RunInv
<1>5. Drafted'
  BY <1>2, <1>3, <1>4 DEF RunInv, Drafted
<1> QED
  BY <1>3, <1>4, <1>5 DEF RunInv

-----------------------------------------------------------------------------
LEMMA ElsewhereKeeps ==
  ASSUME RunInv, NEW e \in RiskEvents, GenerateElsewhere(e)
  PROVE  RunInv'
<1>1. Drafted'
  BY NoRunAssumption DEF GenerateElsewhere, RunInv, Drafted
<1> QED
  BY <1>1 DEF GenerateElsewhere, RunInv

LEMMA RunStepKeeps == RunInv /\ [Next]_vars => RunInv'
<1> SUFFICES ASSUME RunInv, [Next]_vars PROVE RunInv'
  OBVIOUS
<1>1. ASSUME NEW r \in Runs, Service(r) PROVE RunInv'
  BY <1>1, OpeningKeeps, EnterKeeps, MapOutputKeeps, ReceiveKeeps, ClosingKeeps, DeliverKeeps
     DEF Service
<1>2. ASSUME NEW r \in Runs, Timer(r) \/ Departure(r) PROVE RunInv'
  BY <1>2, TimeoutKeeps, CutOffKeeps, DepartureKeeps DEF Timer, Departure
<1>3. ASSUME NEW r \in Runs, Agent(r) PROVE RunInv'
  BY <1>3, SpeakingKeeps, CallToolKeeps, ReadToolKeeps, GenerateToolKeeps DEF Agent
<1>4. CASE UNCHANGED vars
  BY <1>4 DEF vars, RunInv, Drafted
<1> QED
  BY <1>1, <1>2, <1>3, <1>4, ElsewhereKeeps DEF Next

(* The invariant of a run and of its stream (service.py, stream) holds     *)
(* throughout, for every run.                                              *)
THEOREM RunInvariance == Spec => []RunInv
<1> QED
  BY RunInitially, RunStepKeeps, PTL DEF Spec

(* A run drafts a plan only for a message that asks for one and for nothing*)
(* that is left to people, whatever the model behind it calls.             *)
THEOREM DraftsAreAskedFor == Spec => []DraftsOnlyOnRequest
<1>1. RunInv => DraftsOnlyOnRequest
  BY DEF RunInv, Drafted, DraftsOnlyOnRequest, Plans
<1> QED
  BY <1>1, RunInvariance, PTL

(* A stream that ended without an outcome was left or cut off.             *)
THEOREM SilenceIsExplained == Spec => []SilenceHasACause
<1>1. RunInv => SilenceHasACause
  BY DEF RunInv, Good, Concluding, SilenceHasACause, Stage
<1> QED
  BY <1>1, RunInvariance, PTL

(* For every limit and however far the SDK runs ahead of the stream, the   *)
(* client sees no more calls start than the limit.                         *)
THEOREM ToolLimitHolds == Spec => []WithinToolLimit
<1>1. RunInv => WithinToolLimit
  <2> SUFFICES ASSUME RunInv, NEW r \in Runs
               PROVE Cardinality(Kinds(r, "tool.started")) <= run[r].ask.limit
    BY DEF WithinToolLimit
  <2>1. Good(run[r]) /\ run[r].ask.limit \in Nat
    BY AskAssumption DEF RunInv, Good, Typed
  <2>2. Kinds(r, "tool.started") = StartsSeen(run[r])
    BY DEF Kinds, StartsSeen
  <2>3. Cardinality(StartsSeen(run[r])) \in Nat /\ StartsComing(run[r]) \in {0, 1}
    BY <2>1, FS_CardinalityType DEF Good, Counting, StartsComing
  <2> QED
    BY <2>1, <2>2, <2>3 DEF Good, Counting
<1> QED
  BY <1>1, RunInvariance, PTL

(* Once the service has answered that the run took too long, no tool of the*)
(* run makes a plan, although the tools run in the SDK's own task.         *)
THEOREM NothingAfterTimeout == Spec => TimeoutIsFinal
<1>1. RunInv /\ [Next]_vars =>
        [\A r \in Runs : TimedOut(r) => Plans(r)' = Plans(r)]_vars
  <2> SUFFICES ASSUME RunInv, [Next]_vars, NEW r \in Runs, TimedOut(r)
               PROVE Plans(r)' = Plans(r)
    OBVIOUS
  <2>1. CASE plan' = plan
    BY <2>1 DEF Plans
  <2>2. ASSUME NEW e \in RiskEvents, GenerateElsewhere(e) PROVE Plans(r)' = Plans(r)
    BY <2>2, NoRunAssumption DEF GenerateElsewhere, Plans, RunInv
  <2>3. ASSUME NEW q \in Runs, NEW c \in run[q].flight, NEW e \in RiskEvents,
               GenerateTool(q, c, e)
        PROVE Plans(r)' = Plans(r)
    <3>1. run[r].sdk # "running"
      BY DEF RunInv, Good, GivenUp, TimedOut
    <3>2. q # r
      BY <2>3, <3>1 DEF GenerateTool, Working
    <3> QED
      BY <2>3, <3>2, NoRunAssumption DEF GenerateTool, Plans, RunInv
  <2>4. CASE Next
    <3>1. ASSUME NEW q \in Runs, Service(q) \/ Timer(q) \/ Departure(q) PROVE plan' = plan
      BY <3>1 DEF Service, Timer, Departure, Become, Open, RefuseHumanOnly, CompleteRefused,
                  Enter, MapOutput, Receive, Complete, Fail, Deliver, Timeout, CutOff,
                  ClientLeaves, Abandon, CancelWaiting
    <3>2. ASSUME NEW q \in Runs, Agent(q) PROVE Plans(r)' = Plans(r)
      BY <2>1, <2>3, <3>2 DEF Agent, Become, Speak, Finish, Break, CallTool, ReadTool
    <3> QED
      BY <2>1, <2>2, <2>4, <3>1, <3>2 DEF Next
  <2> QED
    BY <2>1, <2>4 DEF vars
<1> QED
  BY <1>1, RunInvariance, PTL DEF Spec, TimeoutIsFinal

-----------------------------------------------------------------------------
(* The story that the events of a run tell: those the client has, the one  *)
(* it is being sent, those the runner has mapped and those in the queue.   *)
Starting(q) == {i \in DOMAIN q : q[i].kind = "tool.started"}
Starts(q) == {q[i].call : i \in Starting(q)}
StartOf(event) == IF event.kind = "tool.started" THEN {event.call} ELSE {}

IsResult(event) == event.kind \in {"tool.completed", "evidence.added"}
Answered(q, i) == \E j \in Starting(q) : j < i /\ q[j].call = q[i].call

(* The plans that events still to be received tell of.                     *)
NewsOf(event) == {e \in RiskEvents : event.kind = "tool.completed" /\ e \in event.created}
News(q) == {e \in RiskEvents : \E i \in DOMAIN q : e \in NewsOf(q[i])}

(* Before the SDK is called; and as long as there is more to tell.         *)
Early == {"asked", "enter", "refuse", "refused"}
Live(s) == s.stage # "ended" /\ (s.stage = "sending" => s.after # "ended")

(* The calls whose start the client has, or is being sent.                 *)
Shown(s) == Starts(s.sent) \union (IF s.stage = "sending" THEN StartOf(s.hand) ELSE {})

SentInOrder(s) ==
  /\ s.sent # <<>> => s.sent[1].kind = "run.started"
  /\ \A i \in DOMAIN s.sent :
       s.sent[i].kind \in Terminal => i = Len(s.sent) /\ s.stage = "ended"
  /\ \A i \in DOMAIN s.sent : IsResult(s.sent[i]) => Answered(s.sent, i)

HandInOrder(s) ==
  s.stage = "sending" =>
    /\ s.after # "asked"
    /\ s.sent = <<>> => s.hand.kind = "run.started"
    /\ s.hand.kind \in Terminal => s.after = "ended"
    /\ IsResult(s.hand) => s.hand.call \in Starts(s.sent)

Preparing(s) ==
  /\ s.stage \notin {"asked", "sending", "ended"} => s.sent # <<>>
  /\ s.stage = "asked" => s.sent = <<>>
  /\ s.stage \in Early \/ (s.stage = "sending" /\ s.after \in Early) =>
       s.sdk = "none" /\ s.due = <<>>
  /\ s.sdk = "none" => s.queue = <<>>

(* Nothing waits to be told of a call before the start of the call; and    *)
(* whatever the run has made is told already or waits to be told.          *)
PendingInOrder(s) ==
  Live(s) =>
    /\ \A i \in DOMAIN s.due : IsResult(s.due[i]) => s.due[i].call \in Shown(s)
    /\ Starting(s.due) # {} => Len(s.due) = 1
    /\ \A i \in DOMAIN s.queue :
         IsResult(s.queue[i]) =>
           s.queue[i].call \in Shown(s) \union Starts(s.due) \/ Answered(s.queue, i)
    /\ \A c \in s.flight : c[1] \in Shown(s) \union Starts(s.due) \union Starts(s.queue)

NothingUntold(s, made) ==
  Live(s) =>
    /\ made = s.told \union News(s.due) \union News(s.queue)
    /\ s.calls = Cardinality(StartsSeen(s)) + StartsComing(s)

(* An outcome that tells of the run tells all, and there is no more to come*)
Tells(s, event, made) ==
  event.kind = "run.completed" =>
    /\ s.sdk # "running"
    /\ event.created = made
    /\ event.calls = Cardinality(StartsSeen(s))

Completing(s, made) ==
  /\ s.stage = "sending" => Tells(s, s.hand, made)
  /\ \A i \in DOMAIN s.sent : Tells(s, s.sent[i], made)

Told(s, made) ==
  /\ SentInOrder(s)
  /\ HandInOrder(s)
  /\ Preparing(s)
  /\ PendingInOrder(s)
  /\ NothingUntold(s, made)
  /\ Completing(s, made)

StoryInv == \A r \in Runs : Told(run[r], Plans(r))

-----------------------------------------------------------------------------
(* One event more at the end of a sequence, or one less at its front.      *)
LEMMA StoryAppended ==
  ASSUME NEW S, NEW q \in Seq(S), NEW event
  PROVE  LET next == Append(q, event)
         IN /\ DOMAIN q = 1..Len(q) /\ Len(q) \in Nat
            /\ DOMAIN next = 1..(Len(q) + 1) /\ Len(next) = Len(q) + 1 /\ next # <<>>
            /\ next[Len(q) + 1] = event
            /\ \A i \in 1..Len(q) : next[i] = q[i]
            /\ Starts(next) = Starts(q) \union StartOf(event)
            /\ News(next) = News(q) \union NewsOf(event)
            /\ \A i \in 1..Len(q) : Answered(q, i) => Answered(next, i)
            /\ event.kind # "tool.started" /\ event.call \in Starts(q) => Answered(next, Len(q) + 1)
<1> DEFINE next == Append(q, event)
           n == Len(q)
<1>1. /\ DOMAIN q = 1..n /\ n \in Nat
      /\ DOMAIN next = 1..(n + 1) /\ Len(next) = n + 1 /\ next # <<>>
      /\ next[n + 1] = event
      /\ \A i \in 1..n : next[i] = q[i]
  OBVIOUS
<1> HIDE DEF next, n
<1>2. \A i \in 1..(n + 1) : i \in 1..n \/ i = n + 1
  BY <1>1
<1>3. Starting(next) = Starting(q) \union (IF event.kind = "tool.started" THEN {n + 1} ELSE {})
  BY <1>1, <1>2 DEF Starting
<1>4. Starts(next) = Starts(q) \union StartOf(event)
  <2>1. \A i \in Starting(q) : next[i] = q[i]
    BY <1>1 DEF Starting
  <2> QED
    BY <1>1, <1>3, <2>1 DEF Starts, StartOf
<1>5. News(next) = News(q) \union NewsOf(event)
  <2>1. \A e : e \in News(next) <=> \E i \in 1..(n + 1) : e \in NewsOf(next[i])
    BY <1>1 DEF News, NewsOf
  <2>2. \A e : e \in News(q) <=> \E i \in 1..n : e \in NewsOf(q[i])
    BY <1>1 DEF News, NewsOf
  <2>3. \A e : e \in News(next) <=> e \in News(q) \/ e \in NewsOf(event)
    BY <1>1, <1>2, <2>1, <2>2
  <2> QED
    BY <2>3
<1>6. \A i \in 1..n : Answered(q, i) => Answered(next, i)
  BY <1>1, <1>3 DEF Answered, Starting
<1>7. event.kind # "tool.started" /\ event.call \in Starts(q) => Answered(next, n + 1)
  BY <1>1, <1>3 DEF Answered, Starts, Starting
<1> QED
  BY <1>1, <1>4, <1>5, <1>6, <1>7 DEF next, n

LEMMA StoryTaken ==
  ASSUME NEW S, NEW q \in Seq(S), q # <<>>
  PROVE  LET rest == Tail(q)
             event == Head(q)
         IN /\ DOMAIN q = 1..Len(q) /\ Len(q) \in Nat \ {0}
            /\ DOMAIN rest = 1..(Len(q) - 1) /\ Len(rest) = Len(q) - 1
            /\ event = q[1]
            /\ \A i \in DOMAIN rest : i + 1 \in DOMAIN q /\ rest[i] = q[i + 1]
            /\ Starts(q) = Starts(rest) \union StartOf(event)
            /\ News(q) = News(rest) \union NewsOf(event)
            /\ \A i \in DOMAIN rest :
                 Answered(q, i + 1) => Answered(rest, i) \/ rest[i].call \in StartOf(event)
<1> DEFINE rest == Tail(q)
           event == Head(q)
           n == Len(q)
<1>1. /\ DOMAIN q = 1..n /\ n \in Nat \ {0}
      /\ DOMAIN rest = 1..(n - 1) /\ Len(rest) = n - 1
      /\ event = q[1]
      /\ \A i \in 1..(n - 1) : i + 1 \in 1..n /\ rest[i] = q[i + 1]
  OBVIOUS
<1> HIDE DEF rest, event, n
<1>2. \A i \in 1..n : i = 1 \/ (i - 1 \in 1..(n - 1) /\ q[i] = rest[i - 1])
  BY <1>1
<1>3. Starts(q) = Starts(rest) \union StartOf(event)
  <2>1. \A c : c \in Starts(q) <=> \E i \in 1..n : q[i].kind = "tool.started" /\ q[i].call = c
    BY <1>1 DEF Starts, Starting
  <2>2. \A c : c \in Starts(rest) <=>
                 \E i \in 1..(n - 1) : rest[i].kind = "tool.started" /\ rest[i].call = c
    BY <1>1 DEF Starts, Starting
  <2>3. \A c : c \in StartOf(event) <=> q[1].kind = "tool.started" /\ q[1].call = c
    BY <1>1 DEF StartOf
  <2>4. \A c : c \in Starts(rest) => c \in Starts(q)
    BY <1>1, <2>1, <2>2
  <2>5. \A c : c \in StartOf(event) => c \in Starts(q)
    BY <1>1, <2>1, <2>3
  <2>6. \A c : c \in Starts(q) => c \in Starts(rest) \/ c \in StartOf(event)
    BY <1>2, <2>1, <2>2, <2>3
  <2> QED
    BY <2>4, <2>5, <2>6
<1>4. News(q) = News(rest) \union NewsOf(event)
  <2>1. \A e : e \in News(q) <=> \E i \in 1..n : e \in NewsOf(q[i])
    BY <1>1 DEF News, NewsOf
  <2>2. \A e : e \in News(rest) <=> \E i \in 1..(n - 1) : e \in NewsOf(rest[i])
    BY <1>1 DEF News, NewsOf
  <2>3. \A e : e \in News(rest) \/ e \in NewsOf(event) => e \in News(q)
    BY <1>1, <2>1, <2>2
  <2>4. \A e : e \in News(q) => e \in News(rest) \/ e \in NewsOf(event)
    BY <1>1, <1>2, <2>1, <2>2
  <2> QED
    BY <2>3, <2>4
<1>5. ASSUME NEW i \in 1..(n - 1), Answered(q, i + 1)
      PROVE  Answered(rest, i) \/ rest[i].call \in StartOf(event)
  <2>1. PICK j \in 1..n : q[j].kind = "tool.started" /\ j < i + 1 /\ q[j].call = rest[i].call
    BY <1>1, <1>5 DEF Answered, Starting
  <2>2. CASE j = 1
    BY <1>1, <2>1, <2>2 DEF StartOf
  <2>3. CASE j # 1
    <3>1. j - 1 \in 1..(n - 1) /\ q[j] = rest[j - 1] /\ j - 1 < i
      BY <1>2, <2>1, <2>3
    <3> QED
      BY <1>1, <2>1, <3>1 DEF Answered, Starting
  <2> QED
    BY <2>2, <2>3
<1> QED
  BY <1>1, <1>3, <1>4, <1>5 DEF rest, event, n

LEMMA NothingInNothing ==
  Starts(<<>>) = {} /\ News(<<>>) = {} /\ Starting(<<>>) = {} /\ DOMAIN <<>> = {}
<1>1. DOMAIN <<>> = {}
  OBVIOUS
<1> QED
  BY <1>1 DEF Starts, News, Starting

-----------------------------------------------------------------------------
(* Steps of one run, by what they change of its story.  Where the SDK's    *)
(* run ends, nothing else does.                                            *)
SdkStops(s, t) == t.sdk = s.sdk \/ (s.sdk = "running" /\ t.sdk \notin {"running", "none"})

LEMMA StorySame ==
  ASSUME NEW s, NEW t, NEW made, Told(s, made),
         t.stage = s.stage, t.hand = s.hand, t.after = s.after, t.sent = s.sent,
         t.due = s.due, t.queue = s.queue, t.flight = s.flight, t.told = s.told,
         t.calls = s.calls, SdkStops(s, t)
  PROVE  Told(t, made)
<1> USE DEF Told, SdkStops
<1>1. SentInOrder(t) /\ HandInOrder(t)
  BY DEF SentInOrder, HandInOrder
<1>2. Preparing(t)
  BY DEF Preparing
<1>3. PendingInOrder(t)
  BY DEF PendingInOrder, Live, Shown
<1>4. NothingUntold(t, made)
  BY DEF NothingUntold, Live, StartsSeen, StartsComing
<1>5. Completing(t, made)
  BY DEF Completing, Tells, StartsSeen
<1> QED
  BY <1>1, <1>2, <1>3, <1>4, <1>5

LEMMA StoryBreaksOff ==
  ASSUME NEW s, NEW t, NEW made, Told(s, made), s.stage # "ended",
         t.stage = "ended", t.sent = s.sent, t.queue = s.queue, SdkStops(s, t)
  PROVE  Told(t, made)
<1> USE DEF Told, SdkStops
<1>1. SentInOrder(t) /\ HandInOrder(t)
  BY DEF SentInOrder, HandInOrder
<1>2. Preparing(t)
  BY DEF Preparing, Early
<1>3. PendingInOrder(t) /\ NothingUntold(t, made)
  BY DEF PendingInOrder, NothingUntold, Live
<1>4. Completing(t, made)
  BY DEF Completing, Tells, StartsSeen
<1> QED
  BY <1>1, <1>2, <1>3, <1>4

(* An outcome is the last thing the service hands over.                    *)
LEMMA StoryConcludes ==
  ASSUME NEW s, NEW t, NEW made, Told(s, made), s.stage \notin {"asked", "sending", "ended"},
         t.stage = "sending", t.after = "ended", t.hand.kind \in Terminal,
         Tells(t, t.hand, made),
         t.sent = s.sent, t.queue = s.queue, SdkStops(s, t)
  PROVE  Told(t, made)
<1> USE DEF Told, SdkStops
<1>1. SentInOrder(t) /\ HandInOrder(t)
  BY DEF SentInOrder, HandInOrder, Preparing, IsResult, Terminal
<1>2. Preparing(t)
  BY DEF Preparing, Early
<1>3. PendingInOrder(t) /\ NothingUntold(t, made)
  BY DEF PendingInOrder, NothingUntold, Live
<1>4. Completing(t, made)
  BY DEF Completing, Tells, StartsSeen
<1> QED
  BY <1>1, <1>2, <1>3, <1>4

(* The service says something of its own.                                  *)
LEMMA StoryOpens ==
  ASSUME NEW s, NEW t, NEW made, Told(s, made), s.stage \in Early,
         t.stage = "sending", t.after \in Early \ {"asked"},
         t.hand.kind \in {"run.started", "message.delta"},
         s.stage = "asked" => t.hand.kind = "run.started",
         t.sent = s.sent, t.due = s.due, t.queue = s.queue, t.flight = s.flight,
         t.told = s.told, t.calls = s.calls, t.sdk = s.sdk
  PROVE  Told(t, made)
<1> USE DEF Told
<1>1. SentInOrder(t) /\ HandInOrder(t)
  BY DEF SentInOrder, HandInOrder, Preparing, IsResult, Terminal, Early
<1>2. Preparing(t)
  BY DEF Preparing, Early
<1>3. PendingInOrder(t)
  <2>1. Shown(t) = Shown(s) /\ Live(s)
    BY DEF Shown, StartOf, Live, Early
  <2> QED
    BY <2>1 DEF PendingInOrder
<1>4. NothingUntold(t, made)
  BY DEF NothingUntold, Live, StartsSeen, StartsComing, Early
<1>5. Completing(t, made)
  BY DEF Completing, Tells, StartsSeen
<1> QED
  BY <1>1, <1>2, <1>3, <1>4, <1>5

LEMMA StoryEnters ==
  ASSUME NEW s, NEW t, NEW made, Told(s, made), s.stage = "enter", t.stage = "waiting",
         t.sent = s.sent, t.queue = s.queue, t.flight = s.flight,
         t.told = s.told, t.calls = s.calls,
         \/ t.due = s.due /\ t.sdk = "running"
         \/ t.due = <<Failed("ASSISTANT_PROVIDER_ERROR")>> /\ t.sdk = s.sdk
  PROVE  Told(t, made)
<1> USE DEF Told
<1>1. SentInOrder(t) /\ HandInOrder(t)
  BY DEF SentInOrder, HandInOrder
<1>2. Preparing(t)
  BY DEF Preparing, Early
<1>3. s.due = <<>> /\ s.queue = <<>> /\ Live(s) /\ Shown(t) = Shown(s)
  BY DEF Preparing, Early, Live, Shown
<1>4. /\ Starts(t.due) = {} /\ News(t.due) = {} /\ Starting(t.due) = {}
      /\ \A i \in DOMAIN t.due : ~IsResult(t.due[i])
  <2>1. CASE t.due = s.due
    BY <1>3, <2>1, NothingInNothing
  <2>2. CASE t.due = <<Failed("ASSISTANT_PROVIDER_ERROR")>>
    <3>1. DOMAIN t.due = {1} /\ t.due[1].kind = "run.failed"
      BY <2>2 DEF Failed
    <3> HIDE DEF Failed
    <3> QED
      BY <3>1 DEF Starts, News, NewsOf, Starting, IsResult
  <2> QED
    BY <2>1, <2>2
<1>5. PendingInOrder(t)
  BY <1>3, <1>4, NothingInNothing DEF PendingInOrder
<1>6. NothingUntold(t, made)
  BY <1>3, <1>4, NothingInNothing DEF NothingUntold, StartsSeen, StartsComing
<1>7. Completing(t, made)
  <2>1. \A i \in DOMAIN s.sent : s.sent[i].kind \notin Terminal
    BY DEF SentInOrder
  <2> QED
    BY <2>1 DEF Completing, Tells, Terminal
<1> QED
  BY <1>1, <1>2, <1>5, <1>6, <1>7

LEMMA OneOnly ==
  ASSUME NEW d
  PROVE  DOMAIN <<d>> = {1} /\ <<d>>[1] = d /\ Len(<<d>>) = 1
<1>1. Len(<<d>>) = 1 /\ <<d>>[1] = d /\ DOMAIN <<d>> = 1..1
  OBVIOUS
<1>2. 1..1 = {1}
  OBVIOUS
<1> QED
  BY <1>1, <1>2

LEMMA OneOrTwo ==
  ASSUME NEW d, NEW v, NEW q \in {<<d>> \o <<v>>, <<d>> \o <<>>}
  PROVE  (\A i \in DOMAIN q : q[i] \in {d, v}) /\ 1 \in DOMAIN q /\ q[1] = d
<1>1. /\ <<d>> \in Seq({d, v}) /\ <<v>> \in Seq({d, v}) /\ <<>> \in Seq({d, v})
      /\ Len(<<d>>) = 1 /\ Len(<<v>>) = 1 /\ Len(<<>>) = 0 /\ <<d>>[1] = d
  OBVIOUS
<1>2. ASSUME NEW rest \in Seq({d, v})
      PROVE  LET all == <<d>> \o rest
             IN /\ all \in Seq({d, v})
                /\ Len(all) = 1 + Len(rest)
                /\ all[1] = d
  <2>1. 1 \in 1..(Len(<<d>>) + Len(rest)) /\ Len(rest) \in Nat
    BY <1>1
  <2> QED
    BY <1>1, <2>1, ConcatProperties
<1>3. q \in Seq({d, v}) /\ Len(q) \in {1, 2} /\ q[1] = d
  <2>1. CASE q = <<d>> \o <<v>>
    BY <1>1, <1>2, <2>1
  <2>2. CASE q = <<d>> \o <<>>
    BY <1>1, <1>2, <2>2
  <2> QED
    BY <2>1, <2>2
<1>4. DOMAIN q = 1..Len(q) /\ \A i \in 1..Len(q) : q[i] \in {d, v}
  BY <1>3
<1> QED
  BY <1>3, <1>4

(* The runner maps the next event of the queue.                            *)
LEMMA StoryMaps ==
  ASSUME NEW s, NEW t, NEW made, Told(s, made), s.stage = "waiting", t.stage = "waiting",
         s.due = <<>>, s.queue \in Seq(FromSdk), s.queue # <<>>,
         t.due = Mapped(Head(s.queue)), t.queue = Tail(s.queue),
         t.sent = s.sent, t.flight = s.flight, t.told = s.told, t.calls = s.calls,
         t.sdk = s.sdk
  PROVE  Told(t, made)
<1> USE DEF Told
<1> DEFINE e == Head(s.queue)
<1>1. SentInOrder(t) /\ HandInOrder(t) /\ Live(s) /\ Live(t) /\ Shown(t) = Shown(s)
  BY DEF SentInOrder, HandInOrder, Live, Shown
<1>2. e \in FromSdk
  OBVIOUS
<1>3. /\ Starts(s.queue) = Starts(t.queue) \union StartOf(e)
      /\ News(s.queue) = News(t.queue) \union NewsOf(e)
      /\ e = s.queue[1] /\ 1 \in DOMAIN s.queue
      /\ \A i \in DOMAIN t.queue : i + 1 \in DOMAIN s.queue /\ t.queue[i] = s.queue[i + 1]
      /\ \A i \in DOMAIN t.queue :
           Answered(s.queue, i + 1) => Answered(t.queue, i) \/ t.queue[i].call \in StartOf(e)
  BY StoryTaken
<1>4. /\ Starts(t.due) = StartOf(e) /\ News(t.due) = NewsOf(e)
      /\ Starting(t.due) # {} => Len(t.due) = 1
      /\ \A i \in DOMAIN t.due : IsResult(t.due[i]) => IsResult(e) /\ t.due[i].call = e.call
  <2>1. CASE e.kind # "tool.completed"
    <3>1. t.due = <<e>>
      BY <2>1 DEF Mapped
    <3>2. DOMAIN t.due = {1} /\ t.due[1] = e /\ Len(t.due) = 1
      BY <3>1, OneOnly
    <3> HIDE DEF e
    <3> QED
      BY <3>2 DEF Starts, Starting, StartOf, News, NewsOf
  <2>2. CASE e.kind = "tool.completed"
    <3> DEFINE d == [e EXCEPT !.evidence = FALSE]
               v == [kind |-> "evidence.added", call |-> e.call]
    <3>1. e \in [kind : {"tool.completed"}, call : Nat, created : SUBSET RiskEvents,
                 evidence : BOOLEAN]
      BY <1>2, <2>2 DEF FromSdk, Started, Said
    <3>2. d.kind = "tool.completed" /\ d.call = e.call /\ d.created = e.created
      BY <3>1
    <3>3. v.kind = "evidence.added" /\ v.call = e.call
      OBVIOUS
    <3>4. /\ \A i \in DOMAIN t.due : t.due[i] \in {d, v}
          /\ 1 \in DOMAIN t.due /\ t.due[1] = d
      <4>1. t.due = <<d>> \o (IF e.evidence THEN <<v>> ELSE <<>>)
        BY <2>2 DEF Mapped
      <4>2. t.due \in {<<d>> \o <<v>>, <<d>> \o <<>>}
        BY <4>1
      <4> HIDE DEF d, v
      <4>3. \A q \in {<<d>> \o <<v>>, <<d>> \o <<>>} :
              (\A i \in DOMAIN q : q[i] \in {d, v}) /\ 1 \in DOMAIN q /\ q[1] = d
        BY OneOrTwo, Zenon
      <4> QED
        BY <4>2, <4>3, Zenon
    <3> HIDE DEF d, v, e
    <3>5. Starting(t.due) = {} /\ Starts(t.due) = {} /\ StartOf(e) = {}
      BY <2>2, <3>2, <3>3, <3>4 DEF Starting, Starts, StartOf
    <3>6. News(t.due) = NewsOf(e)
      BY <2>2, <3>2, <3>3, <3>4 DEF News, NewsOf
    <3> QED
      BY <2>2, <3>2, <3>3, <3>4, <3>5, <3>6 DEF IsResult
  <2> QED
    BY <2>1, <2>2
<1> HIDE DEF e
<1>5. IsResult(e) => e.call \in Shown(s)
  <2>1. ~Answered(s.queue, 1)
    <3> SUFFICES ASSUME NEW j \in Starting(s.queue), j < 1 PROVE FALSE
      BY DEF Answered
    <3>1. j \in DOMAIN s.queue /\ DOMAIN s.queue = 1..Len(s.queue) /\ Len(s.queue) \in Nat
      BY DEF Starting
    <3> QED
      BY <3>1
  <2> QED
    BY <1>1, <1>3, <2>1, NothingInNothing DEF PendingInOrder
<1>6. Preparing(t)
  BY <1>3 DEF Preparing, Early
<1>7. PendingInOrder(t)
  <2>1. \A i \in DOMAIN t.due : IsResult(t.due[i]) => t.due[i].call \in Shown(t)
    BY <1>1, <1>4, <1>5
  <2>2. \A i \in DOMAIN t.queue :
          IsResult(t.queue[i]) =>
            t.queue[i].call \in Shown(t) \union Starts(t.due) \/ Answered(t.queue, i)
    BY <1>1, <1>3, <1>4, NothingInNothing DEF PendingInOrder
  <2>3. \A c \in t.flight : c[1] \in Shown(t) \union Starts(t.due) \union Starts(t.queue)
    BY <1>1, <1>3, <1>4, NothingInNothing DEF PendingInOrder
  <2> QED
    BY <1>4, <2>1, <2>2, <2>3 DEF PendingInOrder
<1>8. NothingUntold(t, made)
  BY <1>1, <1>3, <1>4, NothingInNothing DEF NothingUntold, StartsSeen, StartsComing
<1>9. Completing(t, made)
  BY DEF Completing, Tells, StartsSeen
<1> QED
  BY <1>1, <1>6, <1>7, <1>8, <1>9

(* The service hands on what the runner has mapped, and keeps account.     *)
LEMMA StoryReceives ==
  ASSUME NEW s, NEW t, NEW made, Told(s, made), Counting(s),
         s.stage = "waiting", s.due \in Seq(FromRunner), s.due # <<>>, s.calls \in Nat,
         t.stage = "sending", t.after = "waiting", t.hand = Head(s.due), t.due = Tail(s.due),
         t.hand.kind \notin Terminal, s.told \subseteq RiskEvents,
         t.sent = s.sent, t.queue = s.queue, t.flight = s.flight, t.sdk = s.sdk,
         t.told = s.told \union NewsOf(t.hand),
         t.calls = IF t.hand.kind = "tool.started" THEN s.calls + 1 ELSE s.calls
  PROVE  Told(t, made)
<1> USE DEF Told
<1> DEFINE e == Head(s.due)
<1>1. Live(s) /\ Live(t) /\ Shown(s) = Starts(s.sent) /\ Shown(t) = Starts(s.sent) \union StartOf(e)
  BY DEF Live, Shown
<1>2. /\ Starts(s.due) = Starts(t.due) \union StartOf(e)
      /\ News(s.due) = News(t.due) \union NewsOf(e)
      /\ Len(t.due) = Len(s.due) - 1 /\ Len(s.due) \in Nat
      /\ e = s.due[1] /\ 1 \in DOMAIN s.due
      /\ \A i \in DOMAIN t.due : i + 1 \in DOMAIN s.due /\ t.due[i] = s.due[i + 1]
      /\ DOMAIN t.due = 1..Len(t.due)
  BY StoryTaken
<1> HIDE DEF e
<1>3. t.hand = e
  BY DEF e
<1>4. Starting(t.due) = {}
  <2> SUFFICES ASSUME NEW i \in Starting(t.due) PROVE FALSE
    OBVIOUS
  <2>1. i \in DOMAIN t.due /\ i + 1 \in Starting(s.due)
    BY <1>2 DEF Starting
  <2>2. Len(t.due) = 0
    BY <1>1, <1>2, <2>1 DEF PendingInOrder
  <2> QED
    BY <1>2, <2>1, <2>2
<1>5. SentInOrder(t)
  BY DEF SentInOrder
<1>6. HandInOrder(t)
  <2>1. s.sent # <<>>
    BY DEF Preparing
  <2>2. IsResult(e) => e.call \in Starts(s.sent)
    BY <1>1, <1>2 DEF PendingInOrder
  <2> QED
    BY <1>3, <2>1, <2>2 DEF HandInOrder
<1>7. Preparing(t)
  BY DEF Preparing, Early
<1>8. PendingInOrder(t)
  <2>1. \A i \in DOMAIN t.due : IsResult(t.due[i]) => t.due[i].call \in Shown(t)
    BY <1>1, <1>2 DEF PendingInOrder
  <2>2. Shown(t) \union Starts(t.due) = Shown(s) \union Starts(s.due)
    BY <1>1, <1>2
  <2>3. \A i \in DOMAIN t.queue :
          IsResult(t.queue[i]) =>
            t.queue[i].call \in Shown(t) \union Starts(t.due) \/ Answered(t.queue, i)
    BY <1>1, <2>2 DEF PendingInOrder
  <2>4. \A c \in t.flight : c[1] \in Shown(t) \union Starts(t.due) \union Starts(t.queue)
    BY <1>1, <2>2 DEF PendingInOrder
  <2> QED
    BY <1>4, <2>1, <2>3, <2>4 DEF PendingInOrder
<1>9. NothingUntold(t, made)
  <2>1. made = t.told \union News(t.due) \union News(t.queue)
    BY <1>1, <1>2, <1>3 DEF NothingUntold
  <2>2. /\ StartsSeen(t) = StartsSeen(s) /\ StartsComing(s) = 0
        /\ StartsComing(t) = IF e.kind = "tool.started" THEN 1 ELSE 0
    BY <1>3 DEF StartsSeen, StartsComing
  <2>3. Cardinality(StartsSeen(s)) \in Nat
    BY FS_CardinalityType DEF Counting
  <2>4. s.calls = Cardinality(StartsSeen(s))
    BY <1>1, <2>2, <2>3 DEF NothingUntold
  <2>5. t.calls = Cardinality(StartsSeen(t)) + StartsComing(t)
    BY <1>3, <2>2, <2>3, <2>4
  <2> QED
    BY <2>1, <2>5 DEF NothingUntold
<1>10. Completing(t, made)
  BY DEF Completing, Tells, StartsSeen, Terminal
<1> QED
  BY <1>5, <1>6, <1>7, <1>8, <1>9, <1>10

(* The route sends it.                                                     *)
LEMMA StoryDelivers ==
  ASSUME NEW s, NEW t, NEW made, Told(s, made), Counting(s),
         s.stage = "sending", s.after # "sending", t.stage = s.after,
         s.sent \in Seq(Handed), s.hand \in Handed, t.sent = Append(s.sent, s.hand),
         t.due = s.due, t.queue = s.queue, t.flight = s.flight, t.sdk = s.sdk,
         t.told = s.told, t.calls = s.calls
  PROVE  Told(t, made)
<1> USE DEF Told
<1> DEFINE n == Len(s.sent)
<1>1. /\ DOMAIN s.sent = 1..n /\ n \in Nat
      /\ DOMAIN t.sent = 1..(n + 1) /\ Len(t.sent) = n + 1 /\ t.sent # <<>>
      /\ t.sent[n + 1] = s.hand
      /\ \A i \in 1..n : t.sent[i] = s.sent[i]
      /\ Starts(t.sent) = Starts(s.sent) \union StartOf(s.hand)
      /\ \A i \in 1..n : Answered(s.sent, i) => Answered(t.sent, i)
      /\ s.hand.kind # "tool.started" /\ s.hand.call \in Starts(s.sent) => Answered(t.sent, n + 1)
  BY StoryAppended
<1> HIDE DEF n
<1>2. \A i \in 1..(n + 1) : i \in 1..n \/ i = n + 1
  BY <1>1
<1>3. /\ Cardinality(StartsSeen(t)) =
           IF s.hand.kind = "tool.started" THEN Cardinality(StartsSeen(s)) + 1
           ELSE Cardinality(StartsSeen(s))
      /\ Cardinality(StartsSeen(s)) \in Nat
  BY StartsAfterAppend, FS_CardinalityType DEF Counting
<1>4. SentInOrder(t)
  <2>1. t.sent[1].kind = "run.started"
    <3>1. CASE s.sent = <<>>
      <4>1. n = 0
        BY <3>1 DEF n
      <4> QED
        BY <1>1, <3>1, <4>1 DEF HandInOrder
    <3>2. CASE s.sent # <<>>
      <4>1. 1 \in 1..n
        BY <1>1, <3>2 DEF n
      <4> QED
        BY <1>1, <3>2, <4>1 DEF SentInOrder
    <3> QED
      BY <3>1, <3>2
  <2>2. ASSUME NEW i \in 1..(n + 1), t.sent[i].kind \in Terminal
        PROVE  i = n + 1 /\ t.stage = "ended"
    <3>1. i \notin 1..n
      BY <1>1, <2>2 DEF SentInOrder
    <3>2. i = n + 1
      BY <1>2, <3>1
    <3> QED
      BY <1>1, <2>2, <3>2 DEF HandInOrder
  <2>3. ASSUME NEW i \in 1..(n + 1), IsResult(t.sent[i])
        PROVE  Answered(t.sent, i)
    <3>1. CASE i \in 1..n
      BY <1>1, <2>3, <3>1 DEF SentInOrder
    <3>2. CASE i = n + 1
      <4>1. IsResult(s.hand) /\ s.hand.kind # "tool.started"
        BY <1>1, <2>3, <3>2 DEF IsResult
      <4> QED
        BY <1>1, <3>2, <4>1 DEF HandInOrder
    <3> QED
      BY <1>2, <3>1, <3>2
  <2> QED
    BY <1>1, <2>1, <2>2, <2>3 DEF SentInOrder
<1>5. HandInOrder(t)
  BY DEF HandInOrder
<1>6. Preparing(t)
  BY <1>1 DEF Preparing, HandInOrder, Early
<1>7. Shown(t) = Shown(s) /\ (Live(t) => Live(s))
  BY <1>1 DEF Shown, Live
<1>8. PendingInOrder(t)
  BY <1>7 DEF PendingInOrder
<1>9. NothingUntold(t, made)
  <2>1. StartsComing(t) = 0 /\ StartsComing(s) = IF s.hand.kind = "tool.started" THEN 1 ELSE 0
    BY DEF StartsComing
  <2> QED
    BY <1>3, <1>7, <2>1 DEF NothingUntold
<1>10. Completing(t, made)
  <2>1. t.stage # "sending"
    OBVIOUS
  <2>2. \A i \in 1..n : t.sent[i].kind \notin Terminal
    BY <1>1 DEF SentInOrder
  <2>3. Tells(t, s.hand, made)
    BY <1>3 DEF Completing, Tells
  <2> QED
    BY <1>1, <1>2, <2>1, <2>2, <2>3 DEF Completing, Tells, Terminal
<1> QED
  BY <1>4, <1>5, <1>6, <1>8, <1>9, <1>10

(* The SDK reports: the start of a call, or what a call it has started gave*)
LEMMA StoryReports ==
  ASSUME NEW s, NEW t, NEW event, NEW made, Told(s, made),
         s.sdk = "running", t.sdk = "running", s.queue \in Seq(FromSdk),
         t.queue = Append(s.queue, event),
         IsResult(event) => \E c \in s.flight : c[1] = event.call,
         \A c \in t.flight : c \in s.flight \/ c[1] \in StartOf(event),
         t.stage = s.stage, t.hand = s.hand, t.after = s.after, t.sent = s.sent,
         t.due = s.due, t.told = s.told, t.calls = s.calls
  PROVE  Told(t, made \union NewsOf(event))
<1> USE DEF Told
<1> DEFINE n == Len(s.queue)
<1>1. /\ DOMAIN s.queue = 1..n /\ n \in Nat
      /\ DOMAIN t.queue = 1..(n + 1)
      /\ t.queue[n + 1] = event
      /\ \A i \in 1..n : t.queue[i] = s.queue[i]
      /\ Starts(t.queue) = Starts(s.queue) \union StartOf(event)
      /\ News(t.queue) = News(s.queue) \union NewsOf(event)
      /\ \A i \in 1..n : Answered(s.queue, i) => Answered(t.queue, i)
      /\ event.kind # "tool.started" /\ event.call \in Starts(s.queue) => Answered(t.queue, n + 1)
  BY StoryAppended
<1> HIDE DEF n
<1>2. SentInOrder(t) /\ HandInOrder(t)
  BY DEF SentInOrder, HandInOrder
<1>3. Preparing(t)
  BY DEF Preparing
<1>4. Shown(t) = Shown(s) /\ (Live(t) <=> Live(s))
  BY DEF Shown, Live
<1>5. PendingInOrder(t)
  <2> SUFFICES ASSUME Live(s) PROVE PendingInOrder(t)
    BY <1>4 DEF PendingInOrder
  <2>1. /\ \A i \in DOMAIN t.due : IsResult(t.due[i]) => t.due[i].call \in Shown(t)
        /\ Starting(t.due) # {} => Len(t.due) = 1
    BY <1>4 DEF PendingInOrder
  <2>2. ASSUME NEW i \in DOMAIN t.queue, IsResult(t.queue[i])
        PROVE  t.queue[i].call \in Shown(t) \union Starts(t.due) \/ Answered(t.queue, i)
    <3>1. CASE i \in 1..n
      BY <1>1, <1>4, <2>2, <3>1 DEF PendingInOrder
    <3>2. CASE i = n + 1
      <4>1. IsResult(event) /\ event.kind # "tool.started"
        BY <1>1, <2>2, <3>2 DEF IsResult
      <4>2. event.call \in Shown(s) \union Starts(s.due) \union Starts(s.queue)
        BY <4>1 DEF PendingInOrder
      <4> QED
        BY <1>1, <1>4, <3>2, <4>1, <4>2
    <3>3. i \in 1..n \/ i = n + 1
      BY <1>1
    <3> QED
      BY <3>1, <3>2, <3>3
  <2>3. \A c \in t.flight : c[1] \in Shown(t) \union Starts(t.due) \union Starts(t.queue)
    BY <1>1, <1>4 DEF PendingInOrder
  <2> QED
    BY <2>1, <2>2, <2>3 DEF PendingInOrder
<1>6. NothingUntold(t, made \union NewsOf(event))
  <2>1. StartsSeen(t) = StartsSeen(s) /\ StartsComing(t) = StartsComing(s)
    BY DEF StartsSeen, StartsComing
  <2> QED
    BY <1>1, <1>4, <2>1 DEF NothingUntold
<1>7. Completing(t, made \union NewsOf(event))
  BY DEF Completing, Tells
<1> QED
  BY <1>2, <1>3, <1>5, <1>6, <1>7

-----------------------------------------------------------------------------
(* A step of one run, with the plans that it and the others have after it. *)
LEMMA RunTells ==
  ASSUME RunInv, StoryInv, NEW r \in Runs, NEW t, run' = [run EXCEPT ![r] = t],
         NEW made, Told(t, made), Plans(r)' = made,
         \A q \in Runs \ {r} : Plans(q)' = Plans(q)
  PROVE  StoryInv'
<1>1. \A q \in Runs : run'[q] = IF q = r THEN t ELSE run[q]
  BY DEF RunInv
<1>2. \A q \in Runs : Told(run'[q], Plans(q)')
  BY <1>1 DEF StoryInv
<1>3. \A q \in Runs : Told(run[q], Plans(q))' <=> Told(run'[q], Plans(q)')
  BY DEF Told, SentInOrder, HandInOrder, Preparing, PendingInOrder, NothingUntold, Completing,
         Tells, Live, Shown, StartsSeen, StartsComing, Starts, Starting, StartOf, News, NewsOf,
         Answered, IsResult
<1> QED
  BY <1>2, <1>3 DEF StoryInv

LEMMA OneRunTells ==
  ASSUME RunInv, StoryInv, NEW r \in Runs, NEW t, run' = [run EXCEPT ![r] = t],
         UNCHANGED plan, Told(t, Plans(r))
  PROVE  StoryInv'
<1>1. \A q \in Runs : Plans(q)' = Plans(q)
  BY DEF Plans
<1> QED
  BY <1>1, RunTells

LEMMA OpeningTells ==
  ASSUME RunInv, StoryInv, NEW r \in Runs, Open(r) \/ RefuseHumanOnly(r)
  PROVE  StoryInv'
<1> DEFINE s == run[r]
           t == run'[r]
<1>1. Told(s, Plans(r)) /\ DOMAIN s = RunFields
  BY DEF StoryInv, RunInv, Good, Typed
<1>2. run' = [run EXCEPT ![r] = t] /\ UNCHANGED plan
  BY DEF Open, RefuseHumanOnly, Become, RunInv
<1>3. /\ s.stage \in Early /\ t.stage = "sending" /\ t.after \in Early \ {"asked"}
      /\ t.hand.kind \in {"run.started", "message.delta"}
      /\ s.stage = "asked" => t.hand.kind = "run.started"
      /\ t.sent = s.sent /\ t.due = s.due /\ t.queue = s.queue /\ t.flight = s.flight
      /\ t.told = s.told /\ t.calls = s.calls /\ t.sdk = s.sdk
  <2>1. CASE Open(r)
    BY <1>1, <2>1 DEF Open, Stage, Become, Yield, Said, RunFields, Early, RunInv
  <2>2. CASE RefuseHumanOnly(r)
    BY <1>1, <2>2 DEF RefuseHumanOnly, Stage, Become, Yield, Said, RunFields, Early, RunInv
  <2> QED
    BY <2>1, <2>2
<1> HIDE DEF s, t
<1>4. Told(t, Plans(r))
  BY <1>1, <1>3, StoryOpens
<1> QED
  BY <1>2, <1>4, OneRunTells

LEMMA EnterTells ==
  ASSUME RunInv, StoryInv, NEW r \in Runs, Enter(r)
  PROVE  StoryInv'
<1> DEFINE s == run[r]
           t == run'[r]
<1>1. Told(s, Plans(r)) /\ DOMAIN s = RunFields
  BY DEF StoryInv, RunInv, Good, Typed
<1>2. run' = [run EXCEPT ![r] = t] /\ UNCHANGED plan
  BY DEF Enter, Become, RunInv
<1>3. /\ s.stage = "enter" /\ t.stage = "waiting"
      /\ t.sent = s.sent /\ t.queue = s.queue /\ t.flight = s.flight
      /\ t.told = s.told /\ t.calls = s.calls
      /\ \/ t.due = s.due /\ t.sdk = "running"
         \/ t.due = <<Failed("ASSISTANT_PROVIDER_ERROR")>> /\ t.sdk = s.sdk
  BY <1>1 DEF Enter, Launched, Stage, Become, RunFields, RunInv
<1> HIDE DEF s, t
<1>4. Told(t, Plans(r))
  BY <1>1, <1>3, StoryEnters
<1> QED
  BY <1>2, <1>4, OneRunTells

LEMMA MapOutputTells ==
  ASSUME RunInv, StoryInv, NEW r \in Runs, MapOutput(r)
  PROVE  StoryInv'
<1> DEFINE s == run[r]
           t == run'[r]
<1>1. Told(s, Plans(r)) /\ DOMAIN s = RunFields /\ s.queue \in Seq(FromSdk)
  BY DEF StoryInv, RunInv, Good, Typed
<1>2. run' = [run EXCEPT ![r] = t] /\ UNCHANGED plan
  BY DEF MapOutput, Become, RunInv
<1>3. /\ s.stage = "waiting" /\ t.stage = "waiting" /\ s.due = <<>> /\ s.queue # <<>>
      /\ t.due = Mapped(Head(s.queue)) /\ t.queue = Tail(s.queue)
      /\ t.sent = s.sent /\ t.flight = s.flight /\ t.told = s.told /\ t.calls = s.calls
      /\ t.sdk = s.sdk
  BY <1>1 DEF MapOutput, Stage, Become, RunFields, RunInv
<1> HIDE DEF s, t
<1>4. Told(t, Plans(r))
  BY <1>1, <1>3, StoryMaps
<1> QED
  BY <1>2, <1>4, OneRunTells

LEMMA ReceiveTells ==
  ASSUME RunInv, StoryInv, NEW r \in Runs, Receive(r)
  PROVE  StoryInv'
<1> DEFINE s == run[r]
           u == [s EXCEPT !.due = Tail(@)]
           t == run'[r]
           e == Head(s.due)
<1>1. /\ Told(s, Plans(r)) /\ Counting(s) /\ DOMAIN s = RunFields
      /\ s.due \in Seq(FromRunner) /\ s.calls \in Nat /\ s.ask.limit \in Nat
      /\ s.told \subseteq RiskEvents
  BY AskAssumption DEF StoryInv, RunInv, Good, Typed
<1>2. run' = [run EXCEPT ![r] = t] /\ UNCHANGED plan
  BY DEF Receive, Become, RunInv
<1>3. s.stage = "waiting" /\ s.due # <<>> /\ t = Received(u, e)
  BY DEF Receive, Stage, Become, RunInv
<1>4. /\ DOMAIN u = RunFields /\ u.due = Tail(s.due)
      /\ u.stage = s.stage /\ u.sent = s.sent /\ u.queue = s.queue /\ u.flight = s.flight
      /\ u.told = s.told /\ u.calls = s.calls /\ u.ask = s.ask /\ u.sdk = s.sdk
  BY <1>1 DEF RunFields
<1>5. e \in FromRunner
  BY <1>1, <1>3
<1> HIDE DEF s, t, u, e
<1>6. CASE e.kind = "tool.started" /\ u.calls >= u.ask.limit
  <2>1. t = Yield([u EXCEPT !.calls = @ + 1], Failed("ASSISTANT_TOOL_LIMIT_EXCEEDED"), "ended")
    BY <1>1, <1>3, <1>4, <1>6 DEF Received
  <2>2. /\ t.stage = "sending" /\ t.after = "ended" /\ t.hand.kind = "run.failed"
        /\ t.sent = s.sent /\ t.queue = s.queue /\ t.sdk = s.sdk
    BY <1>4, <2>1 DEF Yield, Failed, RunFields
  <2>3. Told(t, Plans(r))
    BY <1>1, <1>3, <2>2, StoryConcludes DEF Tells, Terminal, SdkStops
  <2> QED
    BY <1>2, <2>3, OneRunTells
<1>7. CASE e.kind = "run.failed"
  <2>1. t = Yield(u, e, "ended")
    BY <1>3, <1>7 DEF Received
  <2>2. /\ t.stage = "sending" /\ t.after = "ended" /\ t.hand.kind = "run.failed"
        /\ t.sent = s.sent /\ t.queue = s.queue /\ t.sdk = s.sdk
    BY <1>4, <1>7, <2>1 DEF Yield, RunFields
  <2>3. Told(t, Plans(r))
    BY <1>1, <1>3, <2>2, StoryConcludes DEF Tells, Terminal, SdkStops
  <2> QED
    BY <1>2, <2>3, OneRunTells
<1>8. CASE ~(e.kind = "tool.started" /\ u.calls >= u.ask.limit) /\ e.kind # "run.failed"
  <2>1. e.kind \notin Terminal /\ (e.kind = "tool.completed" => NewsOf(e) = e.created)
    BY <1>5, <1>8 DEF FromRunner, FromSdk, Started, Said, Failed, Terminal, NewsOf
  <2>2. e.kind # "tool.completed" => NewsOf(e) = {}
    BY DEF NewsOf
  <2>3. \/ /\ e.kind = "tool.started"
           /\ t = Yield([u EXCEPT !.calls = @ + 1], e, "waiting")
        \/ /\ e.kind = "tool.completed"
           /\ t = Yield([u EXCEPT !.told = @ \union e.created], e, "waiting")
        \/ /\ e.kind \notin {"tool.started", "tool.completed"}
           /\ t = Yield(u, e, "waiting")
    BY <1>1, <1>3, <1>4, <1>8 DEF Received
  <2>4. /\ t.stage = "sending" /\ t.after = "waiting" /\ t.hand = e /\ t.due = Tail(s.due)
        /\ t.sent = s.sent /\ t.queue = s.queue /\ t.flight = s.flight /\ t.sdk = s.sdk
        /\ t.told = s.told \union NewsOf(e)
        /\ t.calls = IF e.kind = "tool.started" THEN s.calls + 1 ELSE s.calls
    <3>1. CASE e.kind = "tool.started" /\ t = Yield([u EXCEPT !.calls = @ + 1], e, "waiting")
      BY <1>4, <2>2, <3>1 DEF Yield, RunFields
    <3>2. CASE /\ e.kind = "tool.completed"
               /\ t = Yield([u EXCEPT !.told = @ \union e.created], e, "waiting")
      BY <1>4, <2>1, <3>2 DEF Yield, RunFields
    <3>3. CASE e.kind \notin {"tool.started", "tool.completed"} /\ t = Yield(u, e, "waiting")
      BY <1>4, <2>2, <3>3 DEF Yield, RunFields
    <3> QED
      BY <2>3, <3>1, <3>2, <3>3
  <2>5. Told(t, Plans(r))
    BY <1>1, <1>3, <2>1, <2>4, StoryReceives DEF e
  <2> QED
    BY <1>2, <2>5, OneRunTells
<1> QED
  BY <1>6, <1>7, <1>8

(* The ways to an outcome that the runner's events do not bring.           *)
LEMMA ConcludingTells ==
  ASSUME RunInv, StoryInv, NEW r \in Runs,
         CompleteRefused(r) \/ Complete(r) \/ Fail(r) \/ Timeout(r)
  PROVE  StoryInv'
<1> DEFINE s == run[r]
           t == run'[r]
<1>1. /\ Told(s, Plans(r)) /\ Counting(s) /\ DOMAIN s = RunFields
      /\ s.told \subseteq RiskEvents
  BY DEF StoryInv, RunInv, Good, Typed
<1>2. run' = [run EXCEPT ![r] = t] /\ UNCHANGED plan
  BY DEF CompleteRefused, Complete, Fail, Timeout, Become, RunInv
<1>3. /\ s.stage \in {"refused", "waiting"}
      /\ t.stage = "sending" /\ t.after = "ended"
      /\ t.sent = s.sent /\ t.queue = s.queue /\ SdkStops(s, t)
  <2>1. CASE CompleteRefused(r)
    BY <1>1, <2>1 DEF CompleteRefused, Stage, Become, Yield, RunFields, RunInv, SdkStops
  <2>2. CASE Complete(r) \/ Fail(r)
    BY <1>1, <2>2 DEF Complete, Fail, Stage, Become, Yield, RunFields, RunInv, SdkStops
  <2>3. CASE Timeout(r)
    BY <1>1, <2>3
    DEF Timeout, Cancelled, Stage, Become, Yield, RunFields, RunInv, SdkStops
  <2> QED
    BY <2>1, <2>2, <2>3
<1>4. CASE CompleteRefused(r) \/ Complete(r)
  <2>1. /\ t.hand = [kind |-> "run.completed", created |-> s.told, calls |-> s.calls]
        /\ t.sdk = s.sdk
    BY <1>1, <1>4 DEF CompleteRefused, Complete, Completed, Become, Yield, RunFields, RunInv
  <2>2. /\ s.due = <<>> /\ s.queue = <<>> /\ s.sdk # "running" /\ Live(s)
    BY <1>1, <1>4
    DEF CompleteRefused, Complete, Stage, Told, Preparing, Early, Live
  <2> HIDE DEF s, t
  <2>3. s.told = Plans(r)
    BY <1>1, <2>2, NothingInNothing DEF Told, NothingUntold
  <2>4. s.calls = Cardinality(StartsSeen(s))
    <3>1. StartsComing(s) = 0
      BY <1>3 DEF StartsComing
    <3>2. Cardinality(StartsSeen(s)) \in Nat
      BY <1>1, FS_CardinalityType DEF Counting
    <3> QED
      BY <1>1, <2>2, <3>1, <3>2 DEF Told, NothingUntold
  <2>5. StartsSeen(t) = StartsSeen(s)
    BY <1>3 DEF StartsSeen
  <2>6. t.hand.kind \in Terminal /\ Tells(t, t.hand, Plans(r))
    BY <2>1, <2>2, <2>3, <2>4, <2>5 DEF Terminal, Tells
  <2>7. Told(t, Plans(r))
    BY <1>1, <1>3, <2>6, StoryConcludes
  <2> QED
    BY <1>2, <2>7, OneRunTells
<1>5. CASE Fail(r) \/ Timeout(r)
  <2>1. t.hand.kind = "run.failed"
    <3>1. CASE Fail(r)
      BY <1>1, <3>1 DEF Fail, Become, Yield, Failed, RunFields, RunInv
    <3>2. CASE Timeout(r)
      <4> DEFINE u == Cancelled([s EXCEPT !.timer = FALSE])
      <4>1. DOMAIN u = RunFields
        BY <1>1 DEF Cancelled, RunFields
      <4>2. t = Yield(u, Failed("ASSISTANT_TIMEOUT"), "ended")
        BY <3>2 DEF Timeout, Become, RunInv
      <4> HIDE DEF u, t
      <4>3. t.hand = Failed("ASSISTANT_TIMEOUT")
        BY <4>1, <4>2 DEF Yield, RunFields
      <4> QED
        BY <4>3 DEF Failed
    <3> QED
      BY <1>5, <3>1, <3>2
  <2> HIDE DEF s, t
  <2>2. Told(t, Plans(r))
    BY <1>1, <1>3, <2>1, StoryConcludes DEF Terminal, Tells
  <2> QED
    BY <1>2, <2>2, OneRunTells
<1> QED
  BY <1>4, <1>5

LEMMA DeliverTells ==
  ASSUME RunInv, StoryInv, NEW r \in Runs, Deliver(r)
  PROVE  StoryInv'
<1> DEFINE s == run[r]
           t == run'[r]
<1>1. /\ Told(s, Plans(r)) /\ Counting(s) /\ DOMAIN s = RunFields
      /\ s.sent \in Seq(Handed) /\ s.hand \in Handed /\ s.after # "sending"
  BY DEF StoryInv, RunInv, Good, Typed
<1>2. run' = [run EXCEPT ![r] = t] /\ UNCHANGED plan
  BY DEF Deliver, Become, RunInv
<1>3. /\ s.stage = "sending" /\ t.stage = s.after /\ t.sent = Append(s.sent, s.hand)
      /\ t.due = s.due /\ t.queue = s.queue /\ t.flight = s.flight /\ t.sdk = s.sdk
      /\ t.told = s.told /\ t.calls = s.calls
  BY <1>1 DEF Deliver, Stage, Become, RunFields, RunInv
<1> HIDE DEF s, t
<1>4. Told(t, Plans(r))
  BY <1>1, <1>3, StoryDelivers
<1> QED
  BY <1>2, <1>4, OneRunTells

LEMMA BreakingOffTells ==
  ASSUME RunInv, StoryInv, NEW r \in Runs, CutOff(r) \/ Abandon(r) \/ CancelWaiting(r)
  PROVE  StoryInv'
<1> DEFINE s == run[r]
           t == run'[r]
<1>1. Told(s, Plans(r)) /\ DOMAIN s = RunFields
  BY DEF StoryInv, RunInv, Good, Typed
<1>2. run' = [run EXCEPT ![r] = t] /\ UNCHANGED plan
  BY DEF CutOff, Abandon, CancelWaiting, Become, RunInv
<1>3. /\ s.stage # "ended" /\ t.stage = "ended" /\ t.sent = s.sent /\ t.queue = s.queue
      /\ SdkStops(s, t)
  <2>1. CASE CutOff(r)
    BY <1>1, <2>1 DEF CutOff, Stage, Become, RunFields, RunInv, SdkStops
  <2>3. CASE Abandon(r)
    BY <1>1, <2>3 DEF Abandon, Stage, Become, RunFields, RunInv, SdkStops
  <2>2. CASE CancelWaiting(r)
    BY <1>1, <2>2 DEF CancelWaiting, Cancelled, Stage, Become, RunFields, RunInv, SdkStops
  <2> QED
    BY <2>1, <2>2, <2>3
<1> HIDE DEF s, t
<1>4. Told(t, Plans(r))
  BY <1>1, <1>3, StoryBreaksOff
<1> QED
  BY <1>2, <1>4, OneRunTells

LEMMA QuietTells ==
  ASSUME RunInv, StoryInv, NEW r \in Runs, ClientLeaves(r) \/ Finish(r) \/ Break(r)
  PROVE  StoryInv'
<1> DEFINE s == run[r]
           t == run'[r]
<1>1. Told(s, Plans(r)) /\ DOMAIN s = RunFields
  BY DEF StoryInv, RunInv, Good, Typed
<1>2. run' = [run EXCEPT ![r] = t] /\ UNCHANGED plan
  BY DEF ClientLeaves, Finish, Break, Become, RunInv
<1>3. /\ t.stage = s.stage /\ t.hand = s.hand /\ t.after = s.after /\ t.sent = s.sent
      /\ t.due = s.due /\ t.queue = s.queue /\ t.flight = s.flight /\ t.told = s.told
      /\ t.calls = s.calls /\ SdkStops(s, t)
  BY <1>1 DEF ClientLeaves, Finish, Break, Working, Become, RunFields, RunInv, SdkStops
<1> HIDE DEF s, t
<1>4. Told(t, Plans(r))
  BY <1>1, <1>3, StorySame
<1> QED
  BY <1>2, <1>4, OneRunTells

(* What the model does: it speaks, it calls, and its calls give something. *)
LEMMA SpeakTells ==
  ASSUME RunInv, StoryInv, NEW r \in Runs, Speak(r)
  PROVE  StoryInv'
<1> DEFINE s == run[r]
           t == run'[r]
           event == Said("message.delta")
<1>1. Told(s, Plans(r)) /\ DOMAIN s = RunFields /\ s.queue \in Seq(FromSdk)
  BY DEF StoryInv, RunInv, Good, Typed
<1>2. run' = [run EXCEPT ![r] = t] /\ UNCHANGED plan
  BY DEF Speak, Become, RunInv
<1>3. /\ s.sdk = "running" /\ t.sdk = "running" /\ t.queue = Append(s.queue, event)
      /\ t.stage = s.stage /\ t.hand = s.hand /\ t.after = s.after /\ t.sent = s.sent
      /\ t.due = s.due /\ t.told = s.told /\ t.calls = s.calls /\ t.flight = s.flight
  BY <1>1 DEF Speak, Announce, Working, Become, RunFields, RunInv
<1>4. ~IsResult(event) /\ NewsOf(event) = {}
  BY DEF Said, IsResult, NewsOf
<1> HIDE DEF s, t, event
<1>5. Told(t, Plans(r) \union NewsOf(event))
  BY <1>1, <1>3, <1>4, StoryReports
<1> QED
  BY <1>2, <1>4, <1>5, OneRunTells

LEMMA CallToolTells ==
  ASSUME RunInv, StoryInv, NEW r \in Runs, NEW tool \in Tools, CallTool(r, tool)
  PROVE  StoryInv'
<1> DEFINE s == run[r]
           t == run'[r]
           n == s.made + 1
           event == [kind |-> "tool.started", call |-> n]
<1>1. Told(s, Plans(r)) /\ DOMAIN s = RunFields /\ s.queue \in Seq(FromSdk)
  BY DEF StoryInv, RunInv, Good, Typed
<1>2. run' = [run EXCEPT ![r] = t] /\ UNCHANGED plan
  BY DEF CallTool, Become, RunInv
<1>3. /\ s.sdk = "running" /\ t.sdk = "running" /\ t.queue = Append(s.queue, event)
      /\ t.stage = s.stage /\ t.hand = s.hand /\ t.after = s.after /\ t.sent = s.sent
      /\ t.due = s.due /\ t.told = s.told /\ t.calls = s.calls
      /\ t.flight = s.flight \union {<<n, tool>>}
  BY <1>1 DEF CallTool, Announce, Working, Become, RunFields, RunInv
<1>4. ~IsResult(event) /\ NewsOf(event) = {} /\ StartOf(event) = {n}
  BY DEF IsResult, NewsOf, StartOf
<1> HIDE DEF s, t, n, event
<1>5. \A c \in t.flight : c \in s.flight \/ c[1] \in StartOf(event)
  BY <1>3, <1>4
<1>6. Told(t, Plans(r) \union NewsOf(event))
  BY <1>1, <1>3, <1>4, <1>5, StoryReports
<1> QED
  BY <1>2, <1>4, <1>6, OneRunTells

LEMMA ReturnedTells ==
  ASSUME RunInv, StoryInv, NEW r \in Runs, Working(r), NEW c \in run[r].flight,
         NEW created \in SUBSET RiskEvents, NEW evidence \in BOOLEAN
  PROVE  Told(Returned(r, c, created, evidence), Plans(r) \union created)
<1> DEFINE s == run[r]
           t == Returned(r, c, created, evidence)
           event == Output(c, created, evidence)
<1>1. Told(s, Plans(r)) /\ DOMAIN s = RunFields /\ s.queue \in Seq(FromSdk)
  BY DEF StoryInv, RunInv, Good, Typed
<1>2. /\ s.sdk = "running" /\ t.sdk = "running" /\ t.queue = Append(s.queue, event)
      /\ t.stage = s.stage /\ t.hand = s.hand /\ t.after = s.after /\ t.sent = s.sent
      /\ t.due = s.due /\ t.told = s.told /\ t.calls = s.calls /\ t.flight = s.flight \ {c}
  BY <1>1 DEF Returned, Announce, Working, RunFields
<1>3. event.call = c[1] /\ NewsOf(event) = created
  BY DEF Output, NewsOf
<1>4. c \in s.flight
  OBVIOUS
<1> HIDE DEF s, t, event
<1>5. Told(t, Plans(r) \union NewsOf(event))
  BY <1>1, <1>2, <1>3, <1>4, StoryReports
<1> QED
  BY <1>3, <1>5 DEF t

LEMMA ReadToolTells ==
  ASSUME RunInv, StoryInv, NEW r \in Runs, NEW c \in run[r].flight, ReadTool(r, c)
  PROVE  StoryInv'
<1> PICK evidence \in BOOLEAN : Become(r, Returned(r, c, {}, evidence))
  BY DEF ReadTool
<1>1. Told(Returned(r, c, {}, evidence), Plans(r) \union {})
  BY ReturnedTells DEF ReadTool
<1> QED
  BY <1>1, OneRunTells DEF Become

LEMMA GenerateToolTells ==
  ASSUME RunInv, StoryInv, NEW r \in Runs, NEW c \in run[r].flight, NEW e \in RiskEvents,
         GenerateTool(r, c, e)
  PROVE  StoryInv'
<1>1. Told(Returned(r, c, {e}, FALSE), Plans(r) \union {e})
  BY ReturnedTells DEF GenerateTool
<1>2. /\ run' = [run EXCEPT ![r] = Returned(r, c, {e}, FALSE)]
      /\ plan[e] = NoRun /\ plan' = [plan EXCEPT ![e] = r]
  BY DEF GenerateTool
<1>3. Plans(r)' = Plans(r) \union {e}
  BY <1>2 DEF Plans, RunInv
<1>4. \A q \in Runs \ {r} : Plans(q)' = Plans(q)
  BY <1>2, NoRunAssumption DEF Plans, RunInv
<1> QED
  BY <1>1, <1>2, <1>3, <1>4, RunTells

LEMMA PlansElsewhereTell ==
  ASSUME RunInv, StoryInv, NEW r \in Runs, UNCHANGED run, Plans(r)' = Plans(r)
  PROVE  Told(run[r], Plans(r))'
<1>1. Told(run[r], Plans(r)) <=> Told(run'[r], Plans(r)')
  OBVIOUS
<1>2. Told(run[r], Plans(r))' <=> Told(run'[r], Plans(r)')
  BY DEF Told, SentInOrder, HandInOrder, Preparing, PendingInOrder, NothingUntold, Completing,
         Tells, Live, Shown, StartsSeen, StartsComing, Starts, Starting, StartOf, News, NewsOf,
         Answered, IsResult
<1> QED
  BY <1>1, <1>2 DEF StoryInv

-----------------------------------------------------------------------------
LEMMA StoryBegins ==
  ASSUME NEW ask \in Asks
  PROVE  Told(Start(ask), {})
<1> DEFINE s == Start(ask)
<1>1. /\ s.stage = "asked" /\ s.sent = <<>> /\ s.due = <<>> /\ s.queue = <<>>
      /\ s.flight = {} /\ s.told = {} /\ s.calls = 0 /\ s.sdk = "none"
  BY DEF Start
<1> HIDE DEF s
<1>2. SentInOrder(s) /\ HandInOrder(s) /\ Preparing(s)
  BY <1>1, NothingInNothing DEF SentInOrder, HandInOrder, Preparing
<1>3. PendingInOrder(s)
  BY <1>1, NothingInNothing DEF PendingInOrder
<1>4. NothingUntold(s, {})
  <2>1. StartsSeen(s) = {} /\ StartsComing(s) = 0
    BY <1>1, NothingInNothing DEF StartsSeen, StartsComing
  <2> QED
    BY <1>1, <2>1, NothingInNothing, FS_EmptySet DEF NothingUntold
<1>5. Completing(s, {})
  BY <1>1, NothingInNothing DEF Completing
<1> QED
  BY <1>2, <1>3, <1>4, <1>5 DEF Told, s

LEMMA StoryInitially == Init => StoryInv
<1> SUFFICES ASSUME Init PROVE StoryInv
  OBVIOUS
<1> PICK ask \in [Runs -> Asks] : run = [r \in Runs |-> Start(ask[r])]
  BY DEF Init
<1>1. \A r \in Runs : Plans(r) = {}
  BY NoRunAssumption DEF Init, Plans
<1> QED
  BY <1>1, StoryBegins DEF StoryInv

LEMMA StoryStep == RunInv /\ StoryInv /\ [Next]_vars => StoryInv'
<1> SUFFICES ASSUME RunInv, StoryInv, [Next]_vars PROVE StoryInv'
  OBVIOUS
<1>1. ASSUME NEW r \in Runs, Service(r) PROVE StoryInv'
  BY <1>1, OpeningTells, EnterTells, MapOutputTells, ReceiveTells, ConcludingTells, DeliverTells
     DEF Service
<1>2. ASSUME NEW r \in Runs, Timer(r) \/ Departure(r) PROVE StoryInv'
  BY <1>2, ConcludingTells, BreakingOffTells, QuietTells DEF Timer, Departure
<1>3. ASSUME NEW r \in Runs, Agent(r) PROVE StoryInv'
  BY <1>3, SpeakTells, QuietTells, CallToolTells, ReadToolTells, GenerateToolTells DEF Agent
<1>4. ASSUME NEW e \in RiskEvents, GenerateElsewhere(e) PROVE StoryInv'
  <2>1. \A r \in Runs : Plans(r)' = Plans(r)
    BY <1>4, NoRunAssumption DEF GenerateElsewhere, Plans, RunInv
  <2> QED
    BY <1>4, <2>1, PlansElsewhereTell DEF StoryInv, GenerateElsewhere
<1>5. CASE UNCHANGED vars
  <2>1. \A r \in Runs : Plans(r)' = Plans(r)
    BY <1>5 DEF vars, Plans
  <2> QED
    BY <1>5, <2>1, PlansElsewhereTell DEF StoryInv, vars
<1> QED
  BY <1>1, <1>2, <1>3, <1>4, <1>5 DEF Next

LEMMA StoryInvariance == Spec => [](RunInv /\ StoryInv)
<1> QED
  BY RunInitially, RunStepKeeps, StoryInitially, StoryStep, PTL DEF Spec

(* For every number of runs and every interleaving with the SDK: what a    *)
(* client is sent starts with run.started, ends with its only outcome, and *)
(* shows no result of a tool before the start of the call.                 *)
THEOREM StreamsAreInOrder == Spec => []StreamInOrder
<1>1. ASSUME RunInv, StoryInv, NEW r \in Runs
      PROVE  LET sent == run[r].sent
             IN /\ sent # <<>> => sent[1].kind = "run.started"
                /\ \A i \in 1..(Len(sent) - 1) : sent[i].kind \notin Terminal
                /\ \A i \in Kinds(r, "tool.completed") \union Kinds(r, "evidence.added") :
                     \E j \in Kinds(r, "tool.started") : j < i /\ sent[j].call = sent[i].call
  <2> DEFINE sent == run[r].sent
  <2>1. /\ sent # <<>> => sent[1].kind = "run.started"
        /\ \A i \in DOMAIN sent : sent[i].kind \in Terminal => i = Len(sent)
        /\ \A i \in DOMAIN sent : IsResult(sent[i]) => Answered(sent, i)
    BY <1>1 DEF StoryInv, Told, SentInOrder
  <2>2. DOMAIN sent = 1..Len(sent) /\ Len(sent) \in Nat
    BY <1>1 DEF RunInv, Good, Typed
  <2>3. \A i \in 1..(Len(sent) - 1) : i \in DOMAIN sent /\ i # Len(sent)
    BY <2>2
  <2>4. Kinds(r, "tool.started") = Starting(sent)
    BY DEF Kinds, Starting
  <2>5. \A i \in Kinds(r, "tool.completed") \union Kinds(r, "evidence.added") :
          i \in DOMAIN sent /\ IsResult(sent[i])
    BY DEF Kinds, IsResult
  <2> QED
    BY <2>1, <2>3, <2>4, <2>5 DEF Answered
<1>2. RunInv /\ StoryInv /\ WithinToolLimit => StreamInOrder
  BY <1>1 DEF StreamInOrder
<1> QED
  BY <1>2, StoryInvariance, ToolLimitHolds, PTL

(* A completion tells of every plan the run has made, of nothing else, and *)
(* counts the calls the client has seen; nothing is made after it.         *)
THEOREM CompletionsTellAll == Spec => []CompletionTellsAll
<1>1. StoryInv => CompletionTellsAll
  <2> SUFFICES ASSUME StoryInv, NEW r \in Runs, NEW i \in Kinds(r, "run.completed")
               PROVE  /\ run[r].sent[i].created = Plans(r)
                      /\ run[r].sent[i].calls = Cardinality(Kinds(r, "tool.started"))
    BY DEF CompletionTellsAll
  <2>1. i \in DOMAIN run[r].sent /\ run[r].sent[i].kind = "run.completed"
    BY DEF Kinds
  <2>2. Tells(run[r], run[r].sent[i], Plans(r))
    BY <2>1 DEF StoryInv, Told, Completing
  <2>3. Kinds(r, "tool.started") = StartsSeen(run[r])
    BY DEF Kinds, StartsSeen
  <2> QED
    BY <2>1, <2>2, <2>3 DEF Tells
<1> QED
  BY <1>1, StoryInvariance, PTL
==============================================================================
