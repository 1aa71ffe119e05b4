---------------------------- MODULE ResearchTeam ----------------------------
(***************************************************************************)
(* MultiAgentResearchOrchestrator and its ReviewRevisionLoop: four           *)
(* specialists work one after another, each on the output of the one         *)
(* before, then a report is written, reviewed and revised a bounded number    *)
(* of times.  The executors behind the agents are the environment: an agent   *)
(* returns a result (complete or partial), a failed result, or raises what    *)
(* execute does not catch.                                                    *)
(*                                                                         *)
(* An artifact is its type and the round it was made in; the agents' uuid     *)
(* reference ids make every artifact different.                               *)
(***************************************************************************)
EXTENDS Naturals, Sequences

CONSTANT MaximumRevisionRounds

ASSUME TeamAssumption == MaximumRevisionRounds \in Nat

VARIABLES stage,      \* the agent at work
          inputs,     \* artifacts in the current assignment
          rounds,     \* ReviewRevisionRound: what synthesis and review were given and returned
          revisions,  \* revision_rounds_used
          workflow    \* status of the workflow

teamVars == <<stage, inputs, rounds, revisions, workflow>>

TeamInit ==
    /\ stage = "search"
    /\ inputs = {}
    /\ rounds = <<>>
    /\ revisions = 0
    /\ workflow = "running"

TeamEnds(status) == stage' = "done" /\ workflow' = status /\ UNCHANGED <<inputs, revisions>>

Round == Len(rounds)

(* The agent at work returns a result with a primary output, and             *)
(* _assignment_from_output gives that output to the next agent.               *)
Delivers(agent, output, next) ==
    /\ stage = agent
    /\ inputs' = {<<output, 0>>}
    /\ stage' = next
    /\ UNCHANGED <<rounds, revisions, workflow>>

SearchDelivers == Delivers("search", "candidates", "source_reading")
ReaderDelivers == Delivers("source_reading", "documents", "evidence")
EvidenceDelivers == Delivers("evidence", "evidence_set", "claim")
ClaimsDelivered == Delivers("claim", "claims", "synthesis")

(* Its executor raises RuntimeError, or nothing it found was usable; the      *)
(* failed result ends the workflow.                                           *)
Fails(agent) ==
    /\ stage = agent
    /\ TeamEnds("stage_failed")
    /\ UNCHANGED rounds

SearchFails == Fails("search")
ReaderFails == Fails("source_reading")
EvidenceFails == Fails("evidence")
ClaimsFail == Fails("claim")

(* The synthesis agent returns a report; the round is stored with the review. *)
SynthesisDelivers ==
    /\ stage = "synthesis"
    /\ rounds' = Append(rounds, [given |-> inputs, report |-> <<"report", Round + 1>>,
                                 reviewed |-> {}, decision |-> "none"])
    /\ stage' = "review"
    /\ UNCHANGED <<inputs, revisions, workflow>>

SynthesisFails ==
    /\ stage = "synthesis"
    /\ rounds' = Append(rounds, [given |-> inputs, report |-> <<"none", Round + 1>>,
                                 reviewed |-> {}, decision |-> "none"])
    /\ TeamEnds("synthesis_failed")

(* _build_review_assignment.                                                *)
ReviewInputs == {rounds[Round].report}

Reviewed(decision) ==
    /\ stage = "review"
    /\ rounds' = [rounds EXCEPT ![Round].reviewed = ReviewInputs, ![Round].decision = decision]

ReviewFails == Reviewed("failed") /\ TeamEnds("review_failed")
Approve == Reviewed("approved") /\ TeamEnds("completed")
Reject == Reviewed("rejected") /\ TeamEnds("report_rejected")

RevisionLimit ==
    /\ Reviewed("revision_required")
    /\ revisions >= MaximumRevisionRounds
    /\ TeamEnds("revision_limit_reached")

(* A plausible slip: a revision is given the last report and review only.    *)
RevisionInputsLatest == {rounds[Round].report, <<"review", Round>>}

(* _build_revision_assignment and _merge_inputs.                            *)
RevisionInputs == inputs \union {rounds[Round].report, <<"review", Round>>}

Revise ==
    /\ Reviewed("revision_required")
    /\ revisions < MaximumRevisionRounds
    /\ revisions' = revisions + 1
    /\ inputs' = RevisionInputs
    /\ stage' = "synthesis"
    /\ UNCHANGED workflow

(* An agent refuses its assignment, its executor raises something that is    *)
(* not a RuntimeError, or the review names no known decision.                 *)
AgentRaises ==
    /\ stage # "done"
    /\ TeamEnds("raised")
    /\ UNCHANGED rounds

TeamNext ==
    \/ SearchDelivers \/ ReaderDelivers \/ EvidenceDelivers \/ ClaimsDelivered
    \/ SearchFails \/ ReaderFails \/ EvidenceFails \/ ClaimsFail
    \/ SynthesisDelivers \/ SynthesisFails
    \/ ReviewFails \/ Approve \/ Reject \/ RevisionLimit \/ Revise
    \/ AgentRaises

TeamSpec == TeamInit /\ [][TeamNext]_teamVars

-----------------------------------------------------------------------------
(* A workflow that completed returns the very report its last review          *)
(* approved, and whoever wrote that report had the claims and, of every        *)
(* round before, the report and the review that asked for the revision         *)
(* (ReviewRevisionLoop.run, _build_revision_assignment, _workflow_status).     *)
ApprovedReportIsGrounded ==
    workflow = "completed" =>
        LET final == rounds[Round]
        IN  /\ final.decision = "approved" /\ final.reviewed = {final.report}
            /\ <<"claims", 0>> \in final.given
            /\ \A k \in 1 .. Round - 1 :
                  /\ rounds[k].decision = "revision_required"
                  /\ {rounds[k].report, <<"review", k>>} \subseteq final.given
=============================================================================
