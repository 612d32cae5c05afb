------------------------------ MODULE ModelSwap -----------------------------
(***************************************************************************)
(* The swap controller (tools/serving/model_swap.py), which loads one model *)
(* at a time on the fleet, and the chat layer's warm queues (WarmGate), in  *)
(* which requests for a model that does not answer wait and which ask the   *)
(* controller for it.                                                       *)
(*                                                                         *)
(* The controller is one event loop: each action is what runs between two   *)
(* awaits.  A switch is a list of commands; a command that fails on a node  *)
(* leaves any part of its effect behind and ends the switch.                *)
(***************************************************************************)
EXTENDS Integers, Sequences, SequencesExt, FiniteSets

CONSTANTS
  ModelIds,    \* Swapper.models
  FleetNodes,  \* Swapper.nodes
  Chats,       \* requests of the chat layer
  WarmDepth,   \* WarmGate.depth
  SwapPlays    \* what may happen in a behaviour: records of the bounds and
               \*   choices below

(* A play: wants[r] is the model request r names; calls bounds the admin's  *)
(* force and deactivate calls; faults bounds failed commands and dead       *)
(* engines; ops are the admin's calls; roomy says that two models fit the   *)
(* memory of a node; burst says that requests may reach the controller      *)
(* between the creation of its task and the task's first step.              *)

ASSUME SwapAssumption ==
  /\ IsFiniteSet(ModelIds) /\ IsFiniteSet(FleetNodes)
  /\ WarmDepth \in Nat \ {0}

VARIABLES
  ctl,      \* Swapper: [active, wanted, state, force]
  tasks,    \* its live tasks, oldest first: [clear, target, plan]
  current,  \* self.task is the last of tasks (otherwise it is done)
  probing,  \* models whose activate call awaits ready()
  engines,  \* engines[m]: nodes on which m's engine runs
  apis,     \* models whose API process runs
  poller,   \* poller[m]: WarmGate.poller, "none" once done
  chat,     \* chat[r]: where request r stands
  last,     \* the model asked for last, by a call the controller accepted
  spent,    \* [calls, faults] used up
  play      \* the play of this behaviour

swapVars == <<ctl, tasks, current, probing, engines, apis, poller, chat, last, spent, play>>

NoModel == "no model"
ById == CHOOSE s \in [1 .. Cardinality(ModelIds) -> ModelIds] : IsInjective(s)

\* ready(): /health answers 200 and names every rank as connected.
Serving(m) == m \in apis /\ engines[m] = FleetNodes

-----------------------------------------------------------------------------
(* A switch as the list of its commands.                                   *)

\* stop_all, and stop for a single model: drain one after the other, then
\* stop every API, every engine and every hub service.
StopPlan(ms) == [i \in DOMAIN ms |-> <<"drain", {ms[i]}>>]
                  \o << <<"api stop", ToSet(ms)>>, <<"engine stop", ToSet(ms)>>,
                        <<"hub stop", ToSet(ms)>> >>


\* swap, once the target did not answer: stop the others, clear the target,
\* release KV pools, check the memory, start and measure.
SwapPlan(m) ==
  LET others == SelectSeq(ById, LAMBDA o : o # m)
  IN StopPlan(others) \o StopPlan(<<m>>)
       \o << <<"release", ToSet(others)>>, <<"memory", {m}>>,
             <<"engine start", {m}>>, <<"ranks", {m}>>, <<"warm", {m}>>,
             <<"hub start", {m}>>, <<"api start", {m}>>, <<"connect", {m}>>,
             <<"measure", {m}>> >>

\* clear: stop everything, release every KV pool, reclaim every cold arena.
ClearPlan == StopPlan(ById) \o << <<"release", ModelIds>>, <<"reclaim", ModelIds>> >>

\* Commands that cannot succeed: admit finds too little memory while another
\* model's engine runs, wait_for_ranks finds a dead rank, and the API does
\* not connect every rank.
ControlRefuses(op, ms) ==
  \E m \in ms :
    \/ /\ op = "memory" /\ ~play.roomy
       /\ \E o \in ModelIds \ {m} : engines[o] # {}
    \/ op = "ranks" /\ engines[m] # FleetNodes
    \/ op = "connect" /\ ~Serving(m)

\* drain ends: it is forced, the model does not answer, or the model has been
\* quiet for drain_quiet_seconds, in which a request that waits for it (the
\* poller looks every second) has been woken and has begun.
Drained(m) == ctl.force \/ ~Serving(m)
                \/ \A r \in DOMAIN play.wants :
                     play.wants[r] = m => chat[r] \in {"new", "ended"}

\* What a command that succeeds does to the engines and to the APIs.
EnginesAfter(op, ms) ==
  [m \in ModelIds |-> IF m \notin ms THEN engines[m]
                      ELSE CASE op = "engine stop" -> {}
                             [] op = "engine start" -> FleetNodes
                             [] OTHER -> engines[m]]
ApisAfter(op, ms) == CASE op = "api stop" -> apis \ ms
                       [] op = "api start" -> apis \union ms
                       [] OTHER -> apis

\* A command that fails has done any part of its work.
PartOf(op, ms, e, a) ==
  /\ \A m \in ModelIds : \/ e[m] = engines[m] \/ e[m] = EnginesAfter(op, ms)[m]
                         \/ /\ m \in ms /\ op = "engine start"
                            /\ engines[m] \subseteq e[m]
                         \/ m \in ms /\ op = "engine stop" /\ e[m] \subseteq engines[m]
  /\ a \in {apis, ApisAfter(op, ms)}

-----------------------------------------------------------------------------
(* The controller's tasks.                                                 *)

Job(clear, target, plan) == [clear |-> clear, target |-> target, plan |-> plan]
Fresh(clear) == Job(clear, NoModel, << <<"begin", {}>> >>)
Begun == \A i \in DOMAIN tasks : tasks[i].plan[1][1] # "begin"
Hears_ == play.burst \/ Begun

\* ensure_future: a new task becomes self.task.
NewJob(clear) == tasks' = Append(tasks, Fresh(clear)) /\ current' = TRUE

Replaced(i, j) == [tasks EXCEPT ![i] = j]

\* Task i ends.
Ends_(i) == /\ tasks' = RemoveAt(tasks, i)
            /\ current' = IF i = Len(tasks) THEN FALSE ELSE current


\* drive's loop: begin the next switch, or leave.
Drive(c, i) ==
  IF c.wanted # NoModel /\ c.wanted # c.active
  THEN /\ ctl' = [c EXCEPT !.state = "swapping"]
       /\ tasks' = Replaced(i, Job(FALSE, c.wanted, << <<"probe", {c.wanted}>> >>))
       /\ UNCHANGED current
  ELSE /\ ctl' = [c EXCEPT !.wanted = IF @ = c.active THEN NoModel ELSE @,
                           !.force = FALSE]
       /\ Ends_(i)

\* The first step of a task: drive, or clear up to its first await.
Begin(i) ==
  /\ tasks[i].plan[1][1] = "begin"
  /\ IF tasks[i].clear
     THEN /\ ctl' = [ctl EXCEPT !.state = "swapping", !.active = NoModel]
          /\ tasks' = Replaced(i, Job(TRUE, NoModel, ClearPlan))
          /\ UNCHANGED current
     ELSE Drive(ctl, i)
  /\ UNCHANGED <<probing, engines, apis, poller, chat, last, spent, play>>

\* swap: ready(target) decides whether anything has to be stopped.
Probe(i) ==
  LET m == tasks[i].target
  IN /\ tasks[i].plan[1][1] = "probe"
     /\ IF Serving(m)
        THEN Drive([ctl EXCEPT !.active = m, !.state = "idle", !.force = FALSE],
                   i)
        ELSE /\ ctl' = [ctl EXCEPT !.active = NoModel]
             /\ tasks' = Replaced(i, Job(FALSE, m, SwapPlan(m)))
             /\ UNCHANGED current
     /\ UNCHANGED <<probing, engines, apis, poller, chat, last, spent, play>>

\* The last command of swap or clear has succeeded.
Finishes(i) ==
  LET m == tasks[i].target
  IN IF tasks[i].clear
     THEN Drive([ctl EXCEPT !.state = "idle", !.force = FALSE], i)
     ELSE Drive([ctl EXCEPT !.active = m, !.state = "idle", !.force = FALSE], i)

\* One command of task i succeeds.
RunCommand(i) ==
  LET op == tasks[i].plan[1][1]
      ms == tasks[i].plan[1][2]
  IN /\ op \notin {"begin", "probe"} /\ ~ControlRefuses(op, ms)
     /\ op = "drain" => \A m \in ms : Drained(m)
     /\ engines' = EnginesAfter(op, ms)
     /\ apis' = ApisAfter(op, ms)
     /\ IF Len(tasks[i].plan) = 1
        THEN Finishes(i)
        ELSE /\ tasks' = Replaced(i, [tasks[i] EXCEPT !.plan = Tail(@)])
             /\ UNCHANGED <<ctl, current>>
     /\ UNCHANGED <<probing, poller, chat, last, spent, play>>

\* SwapError ends swap or clear; drive gives the target up unless another
\* model is wanted by now.
AfterFailure(i) ==
  LET c == [ctl EXCEPT !.state = "failed", !.force = FALSE]
  IN IF ~tasks[i].clear /\ ctl.wanted = tasks[i].target
     THEN /\ ctl' = [c EXCEPT !.wanted = NoModel]
          /\ Ends_(i)
     ELSE Drive(c, i)

\* One command of task i fails, for a fault of the fleet or because it must.
CommandFails(i) ==
  LET op == tasks[i].plan[1][1]
      ms == tasks[i].plan[1][2]
  IN /\ op \notin {"begin", "probe", "drain"}
     /\ IF ControlRefuses(op, ms) THEN UNCHANGED <<spent, engines, apis>>
        ELSE /\ spent.faults < play.faults
             /\ spent' = [spent EXCEPT !.faults = @ + 1]
             /\ engines' \in [ModelIds -> SUBSET FleetNodes]
             /\ apis' \in SUBSET ModelIds
             /\ PartOf(op, ms, engines', apis')
     /\ AfterFailure(i)
     /\ UNCHANGED <<probing, poller, chat, last, play>>

-----------------------------------------------------------------------------
(* The controller's calls.                                                 *)

\* The end of activate: the model is wanted, and a task drives it there.
Want(c, m) ==
  /\ ctl' = [c EXCEPT !.wanted = m]
  /\ last' = m
  /\ IF current THEN UNCHANGED <<tasks, current>> ELSE NewJob(FALSE)

\* POST /activate: asked for the active model, it first looks whether the
\* model really answers.
Activate(m) ==
  IF m = ctl.active /\ ctl.state # "swapping"
  THEN probing' = probing \union {m} /\ UNCHANGED <<ctl, tasks, current, last>>
  ELSE Want(ctl, m) /\ UNCHANGED probing

\* activate's ready() has answered.
Probed(m) ==
  /\ m \in probing /\ Hears_
  /\ probing' = probing \ {m}
  /\ IF Serving(m) THEN UNCHANGED <<ctl, tasks, current, last>>
     ELSE Want([ctl EXCEPT !.active = NoModel], m)
  /\ UNCHANGED <<engines, apis, poller, chat, spent, play>>

Calls(op) == /\ op \in play.ops /\ Hears_ /\ spent.calls < play.calls
             /\ spent' = [spent EXCEPT !.calls = @ + 1]

\* POST /force with a model (Load now).
Force(m) ==
  /\ Calls("force")
  /\ m # ctl.active \/ ctl.state = "swapping"
  /\ Want([ctl EXCEPT !.force = TRUE], m)
  /\ UNCHANGED <<probing, engines, apis, poller, chat, play>>

\* POST /force without a model (Switch now), while a switch waits or runs.
SwitchNow ==
  /\ Calls("switch")
  /\ ctl.state = "swapping" \/ ctl.wanted \notin {NoModel, ctl.active}
  /\ ctl' = [ctl EXCEPT !.force = TRUE]
  /\ IF current THEN UNCHANGED <<tasks, current>> ELSE NewJob(FALSE)
  /\ UNCHANGED <<probing, engines, apis, poller, chat, last, play>>

\* POST /deactivate; 409 while a switch runs.
Deactivate ==
  /\ Calls("deactivate")
  /\ ctl.state # "swapping"
  /\ ctl' = [ctl EXCEPT !.wanted = NoModel, !.state = "swapping"]
  /\ NewJob(TRUE)
  /\ last' = NoModel
  /\ UNCHANGED <<probing, engines, apis, poller, chat, play>>

\* A model's engine dies on a node.
EngineDies(m, n) ==
  /\ n \in engines[m] /\ spent.faults < play.faults
  /\ spent' = [spent EXCEPT !.faults = @ + 1]
  /\ engines' = [engines EXCEPT ![m] = @ \ {n}]
  /\ UNCHANGED <<ctl, tasks, current, probing, apis, poller, chat, last, play>>

\* startup: the first model that answers is the active one.
FirstServing(e, a) ==
  LET up == SelectSeq(ById, LAMBDA m : m \in a /\ e[m] = FleetNodes)
  IN IF up = <<>> THEN NoModel ELSE up[1]

Started(e, a) == [active |-> FirstServing(e, a), wanted |-> NoModel,
                  state |-> "idle", force |-> FALSE]

\* The controller is restarted, in the middle of a switch or not; calls that
\* wait for its answer fail.
RestartController ==
  /\ Calls("restart")
  /\ ctl' = Started(engines, apis)
  /\ tasks' = <<>> /\ current' = FALSE /\ probing' = {}
  /\ last' = ctl'.active
  /\ UNCHANGED <<engines, apis, poller, chat, play>>

-----------------------------------------------------------------------------
(* The chat layer: engine_stream and WarmGate.                              *)

InQueue(m) == {r \in Chats : chat[r] = "waiting" /\ play.wants[r] = m}

\* wait_ready: a request that finds no poller starts one.
PollerFor(m) == IF poller[m] = "none" THEN [poller EXCEPT ![m] = "asking"]
                ELSE poller

\* engine_stream tries the engine: it answers, or the request joins the
\* model's warm queue, or the queue is full (503).
Try(r) ==
  LET m == play.wants[r]
      full == Cardinality(InQueue(m)) >= WarmDepth
  IN /\ chat[r] \in {"new", "retry"}
     /\ chat' = [chat EXCEPT ![r] = IF Serving(m) \/ full THEN "ended"
                                    ELSE "waiting"]
     /\ poller' = IF Serving(m) \/ full THEN poller ELSE PollerFor(m)
     /\ UNCHANGED <<ctl, tasks, current, probing, engines, apis, last,
                    spent, play>>

\* wait_ready's timeout: 503 warm_queue_expired.
WaitExpires(r) ==
  /\ chat[r] = "waiting"
  /\ chat' = [chat EXCEPT ![r] = "ended"]
  /\ UNCHANGED <<ctl, tasks, current, probing, engines, apis, poller, last, spent, play>>

\* poll: the model is asked for once; then its health is polled.
PollerAsks(m) ==
  /\ poller[m] = "asking" /\ Hears_
  /\ Activate(m)
  /\ poller' = [poller EXCEPT ![m] = "polling"]
  /\ UNCHANGED <<engines, apis, chat, spent, play>>

\* The controller does not answer the call: it is reported, not repeated.
PollerAskFails(m) ==
  /\ poller[m] = "asking" /\ spent.faults < play.faults
  /\ spent' = [spent EXCEPT !.faults = @ + 1]
  /\ poller' = [poller EXCEPT ![m] = "polling"]
  /\ UNCHANGED <<ctl, tasks, current, probing, engines, apis, chat, last, play>>

\* Mutation: the event is set, but one request at a time hears of it.
WokenOne(m) == IF InQueue(m) = {} THEN {} ELSE {CHOOSE r \in InQueue(m) : TRUE}

\* event.set() wakes everyone who waits.
Woken(m) == InQueue(m)

\* poll: /health answers 200.
PollReady(m) ==
  /\ poller[m] = "polling" /\ Serving(m)
  /\ poller' = [poller EXCEPT ![m] = "none"]
  /\ chat' = [r \in Chats |-> IF r \in Woken(m) THEN "retry" ELSE chat[r]]
  /\ UNCHANGED <<ctl, tasks, current, probing, engines, apis, last,
                 spent, play>>

-----------------------------------------------------------------------------
SwapInit ==
  /\ play \in SwapPlays
  /\ engines \in {[m \in ModelIds |-> IF m = up THEN FleetNodes ELSE {}] :
                    up \in {ById[1], NoModel}}
  /\ apis = {m \in ModelIds : engines[m] # {}}
  /\ ctl = Started(engines, apis)
  /\ tasks = <<>> /\ current = FALSE /\ probing = {}
  /\ poller = [m \in ModelIds |-> "none"]
  /\ chat = [r \in Chats |-> IF r \in DOMAIN play.wants THEN "new" ELSE "ended"]
  /\ last = ctl.active
  /\ spent = [calls |-> 0, faults |-> 0]

JobStep == \E i \in DOMAIN tasks :
             Begin(i) \/ Probe(i) \/ RunCommand(i) \/ CommandFails(i)
CallStep == \/ \E m \in ModelIds : Probed(m) \/ Force(m)
            \/ SwitchNow \/ Deactivate \/ RestartController
GateStep == \E m \in ModelIds : PollerAsks(m) \/ PollerAskFails(m) \/ PollReady(m)
ChatStep == \E r \in Chats : Try(r) \/ WaitExpires(r)
SwapNext == \/ JobStep \/ CallStep \/ GateStep \/ ChatStep
            \/ \E m \in ModelIds, n \in FleetNodes : EngineDies(m, n)

SwapSpec == SwapInit /\ [][SwapNext]_swapVars

\* Every command has a timeout and every drain a limit, so a task that can
\* run does; the poller's call has a timeout, and it polls every second; a
\* request that has been woken tries the engine again.
SwapFairness ==
  /\ WF_swapVars(JobStep)
  /\ \A m \in ModelIds : /\ WF_swapVars(PollerAsks(m) \/ PollerAskFails(m))
                         /\ WF_swapVars(PollReady(m))
  /\ \A r \in Chats : WF_swapVars(chat[r] = "retry" /\ Try(r))
SwapFairSpec == SwapSpec /\ SwapFairness

-----------------------------------------------------------------------------


\* WarmGate.poll: a request that waits for a model hears when the model serves.
WokenWhenReady ==
  \A r \in Chats : chat[r] = "waiting" ~>
                     (chat[r] # "waiting" \/ ~Serving(play.wants[r]))

=============================================================================
