------------------------------ MODULE MCAgents ------------------------------
(* The agents of the application: the planning agent, the research team, the  *)
(* agents that exchange messages and the single research agent.  They share   *)
(* no state, so a behaviour shows one of the four and the others rest.        *)
EXTENDS MCPlanning, ResearchTeam, MessageBus, ResearchPipeline

CONSTANTS manager, reader, critic

VARIABLE part

agentVars == <<vars, teamVars, busVars, pipelineVars, part>>

(* Two pages of the same quality and a better one.                            *)
MCQuality == [u \in Url |-> IF u = "best" THEN 2 ELSE 1]
MCQueries == <<"focused", "official">>

PlanningRests ==
    /\ driver = "caller" /\ pc = "done" /\ request \in {r \in MCRequest : r.maximum_replans = 0}
    /\ policy = Nothing /\ draft = Nothing /\ plan = Nothing /\ run = Nothing /\ outcome = Nothing
    /\ attempt = 1 /\ selected = <<>> /\ cycle = 0

TeamRests ==
    stage = "done" /\ inputs = {} /\ rounds = <<>> /\ revisions = 0 /\ workflow = "resting"

BusRests == agents = <<>> /\ messages = <<>> /\ changes = 0

MCInit ==
    \/ part = "planning" /\ Init /\ TeamRests /\ BusRests /\ PipelineInit
    \/ part = "team" /\ PlanningRests /\ TeamInit /\ BusRests /\ PipelineInit
    \/ part = "bus" /\ PlanningRests /\ TeamRests /\ BusInit /\ PipelineInit
    \/ part = "pipeline" /\ PlanningRests /\ TeamRests /\ BusRests /\ PipelineInit

MCNext ==
    \/ part = "planning" /\ Next /\ UNCHANGED <<teamVars, busVars, pipelineVars, part>>
    \/ part = "team" /\ TeamNext /\ UNCHANGED <<vars, busVars, pipelineVars, part>>
    \/ part = "bus" /\ BusNext /\ UNCHANGED <<vars, teamVars, pipelineVars, part>>
    \/ part = "pipeline" /\ PipelineNext /\ UNCHANGED <<vars, teamVars, busVars, part>>

MCSpec == MCInit /\ [][MCNext]_agentVars /\ WF_vars(AgentNext)
=============================================================================
