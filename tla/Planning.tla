------------------------------ MODULE Planning ------------------------------
(***************************************************************************)
(* The planning agent: a planner proposes a list of steps with              *)
(* dependencies, the proposal is checked and made into a plan, the runner    *)
(* executes it in cycles of scheduled steps, the evaluator judges the run    *)
(* and the loop asks for a replacement plan, a bounded number of times.      *)
(*                                                                         *)
(* The planner (a language model) and the tools are the environment: any     *)
(* proposal of at most MaxSteps steps may come, and any tool may succeed,    *)
(* fail or raise.  The parts are called one after another, so a variable pc  *)
(* says which one is at work.  Instead of the loop a caller may drive the    *)
(* lifecycle service by hand and then hand the plan to the runner; lifecycle *)
(* calls return a new plan or raise and leave the caller's plan alone.       *)
(***************************************************************************)
EXTENDS PlanGraph

CONSTANTS Request,   \* the requests: maximum_steps, allow_parallel, require_tool,
                     \* maximum_replans, maximum_cycles, maximum_selected,
                     \* allow_active (allow_new_steps_while_active)
          Registry,  \* tools in the tool registry
          Tools,     \* the request's available_tools
          NoTool,    \* tool_name is None
          MaxSteps,  \* bound on the steps a planner proposes
          Nothing    \* no plan, no proposal, no result yet

ASSUME PlanningAssumption ==
    /\ MaxSteps \in Nat \ {0}
    /\ NoTool \notin Tools
    /\ \A r \in Request : /\ {r.maximum_steps, r.maximum_cycles, r.maximum_selected} \subseteq Nat \ {0}
                          /\ r.maximum_replans \in Nat
                          /\ {r.allow_parallel, r.require_tool, r.allow_active} \subseteq BOOLEAN

VARIABLES driver,    \* who drives the plan: the loop or a caller of the services
          request,   \* the request of this run
          policy,    \* what the current attempt asks of the planner
          attempt,   \* attempt_number
          pc,        \* the part at work
          draft,     \* the planner's proposal
          plan,      \* the current plan
          selected,  \* steps the current cycle still has to execute
          cycle,     \* cycles of the current run
          run,       \* status of the finished run
          outcome    \* how the loop, or the caller's run, ended

vars == <<driver, request, policy, attempt, pc, draft, plan, selected, cycle, run, outcome>>

Proposal == UNION {[deps : [1 .. n -> SUBSET (1 .. n)], tool : [1 .. n -> Tools \union {NoTool}]] :
                       n \in 1 .. MaxSteps}

(* PlanStepDraft refuses a step that depends on itself.                     *)
Proposable == {d \in Proposal : \A i \in DOMAIN d.deps : i \notin d.deps[i]}

Terminal == {"completed", "failed", "cancelled"}
Satisfied == {"completed", "skipped"}
Active == {"ready", "in_progress"}

-----------------------------------------------------------------------------
(* PlanValidator.validate: the findings of severity error.                  *)
StepStatusValid(p, i) ==
    /\ p.step[i] = "ready" => \A j \in p.deps[i] : p.step[j] \in Satisfied
    /\ p.step[i] \in Active => \A j \in p.deps[i] : p.step[j] # "failed"

PlanStatusValid(p) ==
    /\ p.status \in Terminal => \A i \in DOMAIN p.step : p.step[i] \notin Active
    /\ p.status = "completed" => \A i \in DOMAIN p.step : p.step[i] \in Satisfied

ValidPlan(p) ==
    /\ TopologicalOrder(p.deps) # <<>>
    /\ \A i \in DOMAIN p.step : StepStatusValid(p, i)
    /\ PlanStatusValid(p)

(* PlannerOutputValidator.validate, whose checks PlanFactory.create repeats. *)
ProposalValid(d) ==
    /\ Len(d.deps) <= policy.maximum_steps
    /\ policy.require_tool => \A i \in DOMAIN d.tool : d.tool[i] # NoTool
    /\ TopologicalOrder(d.deps) # <<>>
    /\ ~policy.allow_parallel => ~HasParallelSteps(d.deps)

(* PlanFactory.create.                                                      *)
Materialized(d) ==
    [status |-> "draft", deps |-> d.deps, tool |-> d.tool,
     step |-> [i \in DOMAIN d.deps |-> IF d.deps[i] = {} THEN "ready" ELSE "pending"]]

-----------------------------------------------------------------------------
(* The lifecycle service: what each call does to a plan, when its own checks *)
(* pass.  Every call ends with a validation of the new plan.                 *)

MayStartPlan(p) == p.status \in {"draft", "ready"}
Started(p) == [p EXCEPT !.status = "in_progress"]

MayStartStep(p, i) == p.status = "in_progress" /\ p.step[i] = "ready"
StepStarted(p, i) == [p EXCEPT !.step[i] = "in_progress"]

(* A plausible slip: only steps listed after the first finished one.        *)
ActivatedForward(step, deps) ==
    [i \in DOMAIN step |->
        IF /\ step[i] = "pending"
           /\ \A j \in deps[i] : step[j] \in Satisfied /\ j < i
        THEN "ready" ELSE step[i]]

(* _activate_eligible_steps and _all_steps_finished.                        *)
Activated(step, deps) ==
    [i \in DOMAIN step |->
        IF step[i] = "pending" /\ \A j \in deps[i] : step[j] \in Satisfied THEN "ready" ELSE step[i]]

AllFinished(step) == \A i \in DOMAIN step : step[i] \in Satisfied

MayFinishStep(p, i) == p.status \notin Terminal /\ p.step[i] = "in_progress"

StepCompleted(p, i) ==
    LET step == Activated([p.step EXCEPT ![i] = "completed"], p.deps)
    IN  [p EXCEPT !.step = step,
                  !.status = IF AllFinished(step) THEN "completed" ELSE "in_progress"]

StepFailed(p, i) == [p EXCEPT !.step[i] = "failed", !.status = "failed"]

(* A plausible slip: a finished plan may still be edited.                   *)
MaySkipStepAnyPlan(p, i) == p.step[i] \in {"pending", "ready"}

MaySkipStep(p, i) == p.status \notin Terminal /\ p.step[i] \in {"pending", "ready"}

StepSkipped(p, i) ==
    LET step == Activated([p.step EXCEPT ![i] = "skipped"], p.deps)
    IN  [p EXCEPT !.step = step, !.status = IF AllFinished(step) THEN "completed" ELSE @]

MayCancelPlan(p) == p.status \notin Terminal
PlanCancelled(p) ==
    [p EXCEPT !.status = "cancelled",
              !.step = [i \in DOMAIN @ |-> IF @[i] \in Active \union {"pending"} THEN "skipped" ELSE @[i]]]

-----------------------------------------------------------------------------
Init ==
    /\ driver \in {"loop", "caller"}
    /\ request \in Request
    /\ policy = [maximum_steps |-> request.maximum_steps,
                 allow_parallel |-> request.allow_parallel,
                 require_tool |-> request.require_tool]
    /\ attempt = 1
    /\ pc = "planning"
    /\ draft = Nothing /\ plan = Nothing /\ run = Nothing /\ outcome = Nothing
    /\ selected = <<>>
    /\ cycle = 0

End(result) == pc' = "done" /\ outcome' = result /\ draft' = Nothing /\ selected' = <<>>

(* The planner client answers (external).                                   *)
Propose ==
    /\ pc = "planning"
    /\ draft' \in Proposable
    /\ pc' = "proposed"
    /\ UNCHANGED <<driver, request, policy, attempt, plan, selected, cycle, run, outcome>>

(* The planner client raises PlannerClientError.                            *)
PlannerFails ==
    /\ pc = "planning"
    /\ End("error")
    /\ UNCHANGED <<driver, request, policy, attempt, plan, cycle, run>>

(* The rest of create_plan, and start_plan, which the pipeline and the loop  *)
(* call at once.                                                             *)
CreatePlan ==
    /\ pc = "proposed"
    /\ ProposalValid(draft)
    /\ LET created == Materialized(draft)
       IN  plan' = IF driver = "loop" THEN Started(created) ELSE created
    /\ pc' = IF driver = "loop" THEN "running" ELSE "caller"
    /\ draft' = Nothing
    /\ UNCHANGED <<driver, request, policy, attempt, selected, cycle, run, outcome>>

RejectProposal ==
    /\ pc = "proposed"
    /\ ~ProposalValid(draft)
    /\ End("error")
    /\ UNCHANGED <<driver, request, policy, attempt, plan, cycle, run>>

-----------------------------------------------------------------------------
(* A caller's calls of the lifecycle service; one that raises changes        *)
(* nothing.                                                                  *)
Call(allowed, new) ==
    /\ pc = "caller"
    /\ allowed
    /\ ValidPlan(new)
    /\ plan' = new
    /\ UNCHANGED <<driver, request, policy, attempt, pc, draft, selected, cycle, run, outcome>>

CallStartPlan == pc = "caller" /\ Call(MayStartPlan(plan), Started(plan))

CallOnStep ==
    /\ pc = "caller"
    /\ \E i \in DOMAIN plan.step :
          \/ Call(MayStartStep(plan, i), StepStarted(plan, i))
          \/ Call(MayFinishStep(plan, i), StepCompleted(plan, i))
          \/ Call(MayFinishStep(plan, i), StepFailed(plan, i))
          \/ Call(MaySkipStep(plan, i), StepSkipped(plan, i))

CallCancelPlan == pc = "caller" /\ Call(MayCancelPlan(plan), PlanCancelled(plan))

(* The caller hands the plan to PlanRunner.run.                             *)
CallRun ==
    /\ pc = "caller"
    /\ pc' = "running"
    /\ UNCHANGED <<driver, request, policy, attempt, draft, plan, selected, cycle, run, outcome>>

-----------------------------------------------------------------------------
(* PlanScheduler.schedule; without allow_parallel_steps one step is selected. *)
Selection(p) ==
    IF \/ p.status # "in_progress"
       \/ ~ValidPlan(p)
       \/ ~request.allow_active /\ \E i \in DOMAIN p.step : p.step[i] = "in_progress"
    THEN <<>>
    ELSE LET ready[order \in Seq(DOMAIN p.step)] ==
                 Kept(order, {i \in DOMAIN p.step : p.step[i] = "ready"})
             first[list \in Seq(DOMAIN p.step)] ==
                 SubSeq(list, 1, IF Len(list) < request.maximum_selected THEN Len(list)
                                 ELSE request.maximum_selected)
         IN  first[ready[TopologicalOrder(p.deps)]]

EndRun(status) ==
    /\ run' = status
    /\ pc' = "evaluating"
    /\ UNCHANGED <<driver, request, policy, attempt, draft, plan, selected, cycle, outcome>>

(* _terminal_result.                                                        *)
RunEnds == pc = "running" /\ plan.status \in Terminal /\ EndRun(plan.status)

(* A plausible slip: the limit counts the cycle about to begin.              *)
RunHitsCycleLimitEarly ==
    /\ pc = "running"
    /\ plan.status \notin Terminal
    /\ cycle + 1 >= request.maximum_cycles
    /\ EndRun("cycle_limit_reached")

RunHitsCycleLimit ==
    /\ pc = "running"
    /\ plan.status \notin Terminal
    /\ cycle = request.maximum_cycles
    /\ EndRun("cycle_limit_reached")

MayCycle == pc = "running" /\ plan.status \notin Terminal /\ cycle < request.maximum_cycles

RunBlocked == MayCycle /\ Selection(plan) = <<>> /\ EndRun("blocked")

(* execute_next selects the steps of a cycle.                               *)
BeginCycle ==
    /\ MayCycle
    /\ Selection(plan) # <<>>
    /\ selected' = Selection(plan)
    /\ cycle' = cycle + 1
    /\ pc' = "executing"
    /\ UNCHANGED <<driver, request, policy, attempt, draft, plan, run, outcome>>

(* A lifecycle call of execute_next: the new plan, or PlanLifecycleError,    *)
(* which nothing on the way to the loop's caller catches.                    *)
Store(allowed, new, next) ==
    IF allowed /\ ValidPlan(new)
    THEN /\ plan' = new
         /\ pc' = next
         /\ selected' = IF next = "tool" THEN selected
                        ELSE IF new.status = "failed" THEN <<>> ELSE Tail(selected)
         /\ UNCHANGED <<driver, request, policy, attempt, draft, cycle, run, outcome>>
    ELSE /\ End("PlanLifecycleError")
         /\ UNCHANGED <<driver, request, policy, attempt, plan, cycle, run>>

ExecuteStep ==
    /\ pc = "executing"
    /\ selected # <<>>
    /\ LET i == Head(selected) IN Store(MayStartStep(plan, i), StepStarted(plan, i), "tool")

EndCycle ==
    /\ pc = "executing"
    /\ selected = <<>>
    /\ pc' = "running"
    /\ UNCHANGED <<driver, request, policy, attempt, draft, plan, selected, cycle, run, outcome>>

ToolOf(i) == plan.tool[i]

ToolSucceeds ==
    /\ pc = "tool"
    /\ ToolOf(Head(selected)) \in Registry
    /\ LET i == Head(selected) IN Store(MayFinishStep(plan, i), StepCompleted(plan, i), "executing")

(* The tool reports a failure or raises ToolExecutionError, the step names   *)
(* no tool, or one that is not registered.                                   *)
ToolFails ==
    /\ pc = "tool"
    /\ LET i == Head(selected) IN Store(MayFinishStep(plan, i), StepFailed(plan, i), "executing")

(* The tool raises anything else.                                           *)
ToolRaises ==
    /\ pc = "tool"
    /\ ToolOf(Head(selected)) \in Registry
    /\ End("error")
    /\ UNCHANGED <<driver, request, policy, attempt, plan, cycle, run>>

-----------------------------------------------------------------------------
(* PlanEvaluator.evaluate.                                                  *)
Decision ==
    LET failed == {i \in DOMAIN plan.step : plan.step[i] = "failed"}
    IN  CASE run = "completed" /\ ValidPlan(plan) /\ AllFinished(plan.step) -> "goal_achieved"
          [] run = "cancelled" -> "cancelled"
          [] ~ValidPlan(plan) -> "human_review_required"
          [] failed # {} \/ run \in {"cycle_limit_reached", "blocked"} -> "replan_required"
          [] plan.status = "failed" -> "terminal_failure"
          [] OTHER -> "continue"

(* The evaluation of a caller's run, or one the loop ends with.             *)
Finish ==
    /\ pc = "evaluating"
    /\ \/ driver = "caller" /\ End(Decision)
       \/ driver = "loop" /\ Decision \notin {"replan_required", "continue"} /\ End(Decision)
       \/ /\ driver = "loop" /\ Decision \in {"replan_required", "continue"}
          /\ Decision = "continue" \/ attempt > request.maximum_replans
          /\ End("replan_limit_reached")
    /\ UNCHANGED <<driver, request, policy, attempt, plan, cycle, run>>

(* _policy_request: the replacement may have as many steps as the plan it     *)
(* replaces, may be parallel and needs no tools, whatever the first request   *)
(* asked.                                                                     *)
ReplanPolicy ==
    [maximum_steps |-> Len(plan.deps), allow_parallel |-> TRUE, require_tool |-> FALSE]

(* A plausible slip: the attempt number is taken from the first attempt.     *)
ReplanUncounted ==
    /\ pc = "evaluating"
    /\ driver = "loop"
    /\ Decision = "replan_required"
    /\ attempt <= request.maximum_replans
    /\ policy' = ReplanPolicy
    /\ attempt' = 1
    /\ pc' = "planning"
    /\ plan' = Nothing /\ run' = Nothing /\ cycle' = 0
    /\ UNCHANGED <<driver, request, draft, selected, outcome>>

(* ReplanContextService.build takes the finished run, and a replacement is   *)
(* asked for.                                                                *)
Replan ==
    /\ pc = "evaluating"
    /\ driver = "loop"
    /\ Decision = "replan_required"
    /\ attempt <= request.maximum_replans
    /\ policy' = ReplanPolicy
    /\ attempt' = attempt + 1
    /\ pc' = "planning"
    /\ plan' = Nothing /\ run' = Nothing /\ cycle' = 0
    /\ UNCHANGED <<driver, request, draft, selected, outcome>>

-----------------------------------------------------------------------------
CallerNext == CallStartPlan \/ CallOnStep \/ CallCancelPlan \/ CallRun

AgentNext ==
    \/ Propose \/ PlannerFails \/ CreatePlan \/ RejectProposal
    \/ RunEnds \/ RunHitsCycleLimit \/ RunBlocked
    \/ BeginCycle \/ ExecuteStep \/ EndCycle
    \/ ToolSucceeds \/ ToolFails \/ ToolRaises
    \/ Finish \/ Replan

Next == CallerNext \/ AgentNext

(* Every part is a plain call that returns or raises, and the planner and    *)
(* the tools are taken to answer.  Nothing obliges a caller to make a call.  *)
Spec == Init /\ [][Next]_vars /\ WF_vars(AgentNext)

-----------------------------------------------------------------------------
(* The checks of a proposal agree with what they are for: a topological      *)
(* order is found exactly when no steps wait for each other, it names every  *)
(* step after its dependencies, and without a cycle _has_parallel_steps says *)
(* whether two steps can ever be ready together.                             *)
ProposalChecksExact ==
    pc = "proposed" =>
        LET order == TopologicalOrder(draft.deps)
        IN  /\ (order = <<>>) <=> Cyclic(draft.deps)
            /\ order # <<>> => /\ RunsInOrder(draft.deps, order)
                              /\ HasParallelSteps(draft.deps) <=> CanRunTogether(draft.deps)

(* No step is started, by the runner or by hand, before everything it        *)
(* depends on was completed or skipped, and none is left behind: in a plan    *)
(* under way a step whose dependencies are all finished is not pending        *)
(* (_activate_eligible_steps, start_step, skip_step).                         *)
DependenciesGuardSteps ==
    plan # Nothing =>
        \A i \in DOMAIN plan.step :
            LET finished == \A j \in plan.deps[i] : plan.step[j] \in {"completed", "skipped"}
            IN  /\ plan.step[i] \in {"ready", "in_progress", "completed", "failed"} => finished
                /\ plan.step[i] = "pending" => ~finished

(* A plan the loop runs with at least as many cycles as steps is finished by *)
(* its run: it never ends blocked or at the cycle limit, whatever order its   *)
(* steps are listed in and however many a cycle selects (PlanRunner.run).     *)
EnoughCyclesFinish ==
    /\ pc = "evaluating" /\ driver = "loop"
    /\ request.maximum_cycles >= Len(plan.deps)
    => run \in {"completed", "failed"}

(* What is finished stays: a completed, failed or skipped step keeps its      *)
(* status and a terminal plan never changes again; only a replacement plan    *)
(* starts over (_require_active_plan, skip_step, cancel_plan).                *)
FinishedStays ==
    [][plan # Nothing /\ plan' # Nothing =>
          /\ plan.status \in {"completed", "failed", "cancelled"} => plan' = plan
          /\ \A i \in DOMAIN plan.step :
                plan.step[i] \in {"completed", "failed", "skipped"} => plan'.step[i] = plan.step[i]]_vars

(* The loop ends, whatever the planner proposes and the tools do              *)
(* (PlanningAgentLoop.run: maximum_replans, maximum_cycles).                  *)
LoopEnds == driver = "loop" ~> pc = "done"

(* fail_step: "Fail an in-progress step and fail the plan."                   *)
FailedStepFailsPlan == [][ToolFails => plan'.status = "failed"]_vars
=============================================================================
