----------------------------- MODULE AgentProofs -----------------------------
(***************************************************************************)
(* What the agents of the application keep, for every number of steps,       *)
(* agents, messages and revision rounds: the planning agent, the research     *)
(* team, the message bus and the files of the research pipeline.  They share  *)
(* no state, so each has an inductive invariant of its own.                   *)
(***************************************************************************)
EXTENDS Planning, ResearchTeam, MessageBus, ResearchPipeline, ListFacts

-----------------------------------------------------------------------------
(* The research team                                                        *)

Artifact == {"candidates", "documents", "evidence_set", "claims", "report", "review", "none"} \X Nat

RevisionRound ==
    [given : SUBSET Artifact, report : Artifact, reviewed : SUBSET Artifact,
     decision : {"none", "failed", "approved", "rejected", "revision_required"}]

(* Every round before k asked for a revision, and its report and its review  *)
(* are in a set of artifacts, together with the claims.                       *)
Grounds(artifacts, k) ==
    /\ <<"claims", 0>> \in artifacts
    /\ \A j \in 1 .. k - 1 :
          /\ rounds[j].decision = "revision_required"
          /\ {rounds[j].report, <<"review", j>>} \subseteq artifacts

TeamTypes ==
    /\ rounds \in Seq(RevisionRound)
    /\ inputs \in SUBSET Artifact
    /\ stage \in {"search", "source_reading", "evidence", "claim", "synthesis", "review", "done"}

TeamInv ==
    /\ TeamTypes
    /\ stage \in {"search", "source_reading", "evidence", "claim"} => rounds = <<>>
    /\ stage = "synthesis" => Grounds(inputs, Round + 1)
    /\ stage = "review" => /\ Round > 0
                           /\ inputs = rounds[Round].given
                           /\ Grounds(inputs, Round)
    /\ stage # "done" => workflow = "running"
    /\ ApprovedReportIsGrounded

(* A specialist hands its output over; the claim agent's is what a report is  *)
(* written from (_assignment_from_output).                                    *)
LEMMA DeliveryKeepsInv ==
    ASSUME TeamInv, SearchDelivers \/ ReaderDelivers \/ EvidenceDelivers \/ ClaimsDelivered
    PROVE  TeamInv'
<1>1. TeamTypes'
    BY DEF TeamInv, TeamTypes, Delivers, SearchDelivers, ReaderDelivers, EvidenceDelivers,
           ClaimsDelivered, Artifact
<1>2. rounds = <<>> /\ rounds' = rounds /\ workflow = "running" /\ workflow' = "running" /\ stage # "done"
    BY DEF TeamInv, Delivers, SearchDelivers, ReaderDelivers, EvidenceDelivers, ClaimsDelivered
<1>3. stage' \in {"source_reading", "evidence", "claim"}
      \/ (stage' = "synthesis" /\ inputs' = {<<"claims", 0>>})
  <2>1. CASE ClaimsDelivered
      BY <2>1 DEF Delivers, ClaimsDelivered
  <2>2. CASE SearchDelivers \/ ReaderDelivers \/ EvidenceDelivers
      BY <2>2 DEF Delivers, SearchDelivers, ReaderDelivers, EvidenceDelivers
  <2> QED BY <2>1, <2>2
<1>4. stage' = "synthesis" => Grounds(inputs, Round + 1)'
    BY <1>2, <1>3 DEF Grounds, Round
<1> QED BY <1>1, <1>2, <1>3, <1>4 DEF TeamInv, ApprovedReportIsGrounded

(* A workflow that ends without approval has nothing to show (_failed).       *)
LEMMA EndingKeepsInv ==
    ASSUME TeamInv, NEW status, status # "completed", TeamEnds(status), UNCHANGED rounds
    PROVE  TeamInv'
    BY DEF TeamInv, TeamTypes, TeamEnds, ApprovedReportIsGrounded

(* A report is written from everything the current assignment names          *)
(* (ReviewRevisionLoop.run).                                                 *)
LEMMA SynthesisKeepsInv ==
    ASSUME TeamInv, SynthesisDelivers
    PROVE  TeamInv'
<1> PICK new : new = [given |-> inputs, report |-> <<"report", Round + 1>>,
                      reviewed |-> {}, decision |-> "none"]
    OBVIOUS
<1>1. rounds \in Seq(RevisionRound) /\ Round \in Nat /\ inputs \in SUBSET Artifact
    BY LenProperties DEF TeamInv, TeamTypes, Round
<1>2. new \in RevisionRound
    BY <1>1 DEF RevisionRound, Artifact
<1>3. rounds' = Append(rounds, new) /\ stage' = "review" /\ stage = "synthesis"
      /\ inputs' = inputs /\ workflow' = workflow
    BY DEF SynthesisDelivers
<1>4. /\ rounds' \in Seq(RevisionRound) /\ Round' = Round + 1
      /\ \A j \in 1 .. Round : rounds'[j] = rounds[j]
      /\ rounds'[Round + 1] = new
    BY <1>1, <1>2, <1>3, AppendProperties DEF Round
<1>5. Grounds(inputs, Round + 1)
    BY <1>3 DEF TeamInv
<1>6. Grounds(inputs, Round)'
  <2>1. <<"claims", 0>> \in inputs'
      BY <1>3, <1>5 DEF Grounds
  <2>2. ASSUME NEW j \in 1 .. Round' - 1
        PROVE  rounds'[j].decision = "revision_required"
               /\ {rounds'[j].report, <<"review", j>>} \subseteq inputs'
    <3>1. j \in 1 .. Round /\ j \in 1 .. (Round + 1) - 1
        BY <1>1, <1>4
    <3> QED BY <1>3, <1>4, <1>5, <3>1 DEF Grounds
  <2> QED BY <2>1, <2>2 DEF Grounds
<1>7. TeamTypes'
    BY <1>1, <1>3, <1>4 DEF TeamTypes
<1>8. Round' > 0 /\ inputs' = rounds'[Round'].given
  <2>1. new.given = inputs
      OBVIOUS
  <2>2. rounds'[Round'] = new
      BY <1>4
  <2>3. Round' > 0
      BY <1>1, <1>4
  <2> QED BY <1>3, <2>1, <2>2, <2>3
<1>9. workflow' = "running"
    BY <1>3 DEF TeamInv
<1> QED BY <1>3, <1>6, <1>7, <1>8, <1>9 DEF TeamInv, ApprovedReportIsGrounded

(* A synthesis that failed leaves a round without a report, and the workflow  *)
(* ends.                                                                     *)
LEMMA FailedSynthesisKeepsInv ==
    ASSUME TeamInv, SynthesisFails
    PROVE  TeamInv'
<1> PICK new : new = [given |-> inputs, report |-> <<"none", Round + 1>>,
                      reviewed |-> {}, decision |-> "none"]
    OBVIOUS
<1>1. rounds \in Seq(RevisionRound) /\ Round \in Nat /\ inputs \in SUBSET Artifact
    BY LenProperties DEF TeamInv, TeamTypes, Round
<1>2. new \in RevisionRound
    BY <1>1 DEF RevisionRound, Artifact
<1>3. rounds' = Append(rounds, new) /\ stage' = "done" /\ inputs' = inputs
      /\ workflow' = "synthesis_failed"
    BY DEF SynthesisFails, TeamEnds
<1>4. rounds' \in Seq(RevisionRound)
    BY <1>1, <1>2, <1>3, AppendProperties
<1> QED BY <1>1, <1>3, <1>4 DEF TeamInv, TeamTypes, ApprovedReportIsGrounded

(* What a review stores: the same rounds but for what the last one says was   *)
(* reviewed and decided (_build_review_assignment).                           *)
LEMMA ReviewChangesTheLast ==
    ASSUME TeamInv, NEW decision \in {"failed", "approved", "rejected", "revision_required"},
           Reviewed(decision)
    PROVE  /\ rounds' \in Seq(RevisionRound) /\ Round' = Round /\ Round \in Nat /\ Round > 0
           /\ \A j \in 1 .. Round : rounds'[j].report = rounds[j].report /\ rounds'[j].given = rounds[j].given
           /\ \A j \in 1 .. Round - 1 : rounds'[j] = rounds[j]
           /\ rounds'[Round].decision = decision
           /\ rounds'[Round].reviewed = {rounds[Round].report}
           /\ Grounds(inputs, Round) /\ inputs = rounds[Round].given
<1>1. rounds \in Seq(RevisionRound) /\ Round \in Nat /\ Round > 0 /\ Round = Len(rounds)
    BY LenProperties DEF TeamInv, TeamTypes, Round, Reviewed
<1>2. PICK n \in Nat : n = Round /\ n > 0
    BY <1>1
<1>3. rounds[n] \in RevisionRound
    BY <1>1, <1>2, ElementOfSeq
<1> PICK new : new = [rounds[n] EXCEPT !.reviewed = {rounds[n].report}, !.decision = decision]
    OBVIOUS
<1>4. new \in RevisionRound
    BY <1>3 DEF RevisionRound
<1>5. new.report = rounds[n].report /\ new.given = rounds[n].given
      /\ new.reviewed = {rounds[n].report} /\ new.decision = decision
    BY <1>3 DEF RevisionRound
<1>6. rounds' = [rounds EXCEPT ![n] = new]
  <2>1. rounds' = [rounds EXCEPT ![n].reviewed = {rounds[n].report}, ![n].decision = decision]
      BY <1>2 DEF Reviewed, ReviewInputs
  <2> QED BY <2>1, <1>1, <1>2, <1>3 DEF RevisionRound
<1>7. /\ rounds' \in Seq(RevisionRound) /\ Len(rounds') = Len(rounds)
      /\ rounds'[n] = new
      /\ \A j \in 1 .. n : j # n => rounds'[j] = rounds[j]
  <2>1. n \in 1 .. Len(rounds)
      BY <1>1, <1>2
  <2>2. rounds' \in Seq(RevisionRound) /\ Len(rounds') = Len(rounds)
      BY <1>1, <1>4, <1>6, <2>1, ExceptSeq
  <2>3. rounds'[n] = new
    <3>1. DOMAIN rounds = 1 .. Len(rounds)
        BY <1>1, LenProperties
    <3> QED BY <3>1, <2>1, <1>6
  <2>4. ASSUME NEW j \in 1 .. n, j # n PROVE rounds'[j] = rounds[j]
      BY <1>1, <1>2, <1>6, <2>1, <2>4
  <2> QED BY <2>2, <2>3, <2>4
<1>8. Grounds(inputs, Round) /\ inputs = rounds[Round].given
    BY DEF TeamInv, Reviewed
<1>9. Round' = n
    BY <1>1, <1>2, <1>7 DEF Round
<1>10. \A j \in 1 .. n - 1 : j \in 1 .. n /\ j # n
    BY <1>2
<1>11. \A j \in 1 .. n : rounds'[j].report = rounds[j].report /\ rounds'[j].given = rounds[j].given
    BY <1>5, <1>7
<1> QED BY <1>1, <1>2, <1>5, <1>7, <1>8, <1>9, <1>10, <1>11

(* A review that ends the workflow.  Only an approved report completes it     *)
(* (_workflow_status).                                                        *)
LEMMA VerdictKeepsInv ==
    ASSUME TeamInv, ReviewFails \/ Approve \/ Reject \/ RevisionLimit
    PROVE  TeamInv'
<1>1. PICK decision \in {"failed", "approved", "rejected", "revision_required"} :
         /\ Reviewed(decision) /\ stage' = "done" /\ inputs' = inputs
         /\ workflow' = "completed" => decision = "approved"
    BY DEF ReviewFails, Approve, Reject, RevisionLimit, TeamEnds
<1>2. TeamTypes'
    BY <1>1, ReviewChangesTheLast DEF TeamInv, TeamTypes
<1>3. ASSUME workflow' = "completed"
      PROVE  ApprovedReportIsGrounded'
  <2>1. Reviewed("approved")
      BY <1>1, <1>3
  <2>2. PICK n \in Nat : n = Round /\ n > 0 /\ Round' = n
      BY <2>1, ReviewChangesTheLast
  <2>3. rounds'[n].decision = "approved" /\ rounds'[n].reviewed = {rounds'[n].report}
      BY <2>1, <2>2, ReviewChangesTheLast
  <2>4. rounds'[n].given = inputs /\ <<"claims", 0>> \in inputs
      BY <2>1, <2>2, ReviewChangesTheLast DEF Grounds
  <2>5. ASSUME NEW k \in 1 .. n - 1
        PROVE  rounds'[k].decision = "revision_required"
               /\ {rounds'[k].report, <<"review", k>>} \subseteq inputs
      BY <2>1, <2>2, ReviewChangesTheLast DEF Grounds
  <2> QED BY <2>2, <2>3, <2>4, <2>5 DEF ApprovedReportIsGrounded
<1> QED BY <1>1, <1>2, <1>3 DEF TeamInv, ApprovedReportIsGrounded

(* A revision is given all that led to it: what the last writer had, the last *)
(* report and its review (_build_revision_assignment, _merge_inputs).         *)
LEMMA ReviseKeepsInv ==
    ASSUME TeamInv, Revise
    PROVE  TeamInv'
<1>1. Reviewed("revision_required") /\ stage' = "synthesis" /\ workflow' = workflow
      /\ inputs' = inputs \union {rounds[Round].report, <<"review", Round>>} /\ stage = "review"
    BY DEF Revise, RevisionInputs, Reviewed
<1>2. PICK n \in Nat : n = Round /\ n > 0 /\ Round' = n
    BY <1>1, ReviewChangesTheLast
<1>3. TeamTypes'
  <2>1. rounds[n] \in RevisionRound
      BY <1>2, ElementOfSeq, LenProperties DEF TeamInv, TeamTypes, Round
  <2>2. rounds[n].report \in Artifact /\ <<"review", n>> \in Artifact
      BY <2>1, <1>2 DEF RevisionRound, Artifact
  <2>3. inputs \in SUBSET Artifact
      BY DEF TeamInv, TeamTypes
  <2>4. inputs' \in SUBSET Artifact
      BY <1>1, <1>2, <2>2, <2>3
  <2> QED BY <1>1, <2>4, ReviewChangesTheLast DEF TeamTypes
<1>4. <<"claims", 0>> \in inputs'
    BY <1>1, ReviewChangesTheLast DEF Grounds
<1>5. ASSUME NEW j \in 1 .. n
      PROVE  rounds'[j].decision = "revision_required"
             /\ {rounds'[j].report, <<"review", j>>} \subseteq inputs'
  <2>1. CASE j = n
      BY <2>1, <1>1, <1>2, ReviewChangesTheLast
  <2>2. CASE j # n
    <3>1. j \in 1 .. n - 1
        BY <2>2, <1>2
    <3>2. rounds[j].decision = "revision_required" /\ {rounds[j].report, <<"review", j>>} \subseteq inputs
        BY <3>1, <1>1, <1>2, ReviewChangesTheLast DEF Grounds
    <3> QED BY <3>1, <3>2, <1>1, <1>2, ReviewChangesTheLast
  <2> QED BY <2>1, <2>2
<1>6. Grounds(inputs, Round + 1)'
  <2>1. (Round' + 1) - 1 = n
      BY <1>2
  <2> QED BY <2>1, <1>4, <1>5 DEF Grounds
<1>7. workflow' = "running"
    BY <1>1 DEF TeamInv
<1> QED BY <1>1, <1>3, <1>6, <1>7 DEF TeamInv, ApprovedReportIsGrounded

(* Whatever number of revisions the team is allowed, a completed workflow     *)
(* returns the report its last review approved, written from the claims and   *)
(* from every earlier report and review (ReviewRevisionLoop.run).             *)
THEOREM ReportsAreGrounded == TeamSpec => []ApprovedReportIsGrounded
<1>1. TeamInit => TeamInv
  <2> SUFFICES ASSUME TeamInit PROVE TeamInv
      OBVIOUS
  <2>1. rounds \in Seq(RevisionRound)
      BY EmptySeq DEF TeamInit
  <2> QED BY <2>1 DEF TeamInit, TeamInv, TeamTypes, ApprovedReportIsGrounded
<1>2. TeamInv /\ [TeamNext]_teamVars => TeamInv'
  <2> SUFFICES ASSUME TeamInv, [TeamNext]_teamVars PROVE TeamInv'
      OBVIOUS
  <2>1. CASE SearchDelivers \/ ReaderDelivers \/ EvidenceDelivers \/ ClaimsDelivered
      BY <2>1, DeliveryKeepsInv
  <2>2. CASE SearchFails \/ ReaderFails \/ EvidenceFails \/ ClaimsFail \/ AgentRaises
    <3>1. \E status \in {"stage_failed", "raised"} : TeamEnds(status) /\ UNCHANGED rounds
        BY <2>2 DEF SearchFails, ReaderFails, EvidenceFails, ClaimsFail, Fails, AgentRaises
    <3> QED BY <3>1, EndingKeepsInv
  <2>3. CASE SynthesisDelivers
      BY <2>3, SynthesisKeepsInv
  <2>4. CASE SynthesisFails
      BY <2>4, FailedSynthesisKeepsInv
  <2>5. CASE ReviewFails \/ Approve \/ Reject \/ RevisionLimit
      BY <2>5, VerdictKeepsInv
  <2>6. CASE Revise
      BY <2>6, ReviseKeepsInv
  <2>7. CASE UNCHANGED teamVars
      BY <2>7 DEF teamVars, TeamInv, TeamTypes, Grounds, Round, ApprovedReportIsGrounded
  <2> QED BY <2>1, <2>2, <2>3, <2>4, <2>5, <2>6, <2>7 DEF TeamNext
<1>3. TeamInv => ApprovedReportIsGrounded
    BY DEF TeamInv
<1> QED BY <1>1, <1>2, <1>3, PTL DEF TeamSpec

-----------------------------------------------------------------------------
(* The message bus                                                          *)

Message ==
    [sender : Agent, priority : Priority, intended : SUBSET Agent, raised : BOOLEAN,
     delivery : [Agent -> DeliveryOpen \union DeliveryClosed \union {"none"}]]

Served(message) == {a \in Agent : message.delivery[a] # "none"}

(* A message of which DeliveriesMatchPublish holds.                          *)
MatchesPublish(message) ==
    /\ Served(message) \subseteq message.intended
    /\ Served(message) # message.intended => message.raised

BusInv ==
    /\ agents \in Seq(Agent)
    /\ messages \in Seq(Message)
    /\ \A m \in 1 .. Len(messages) : MatchesPublish(messages[m])

(* The registered agents are agents (ResearchAgentRegistry).                 *)
LEMMA RegisteredAreAgents ==
    ASSUME agents \in Seq(Agent)
    PROVE  Registered \subseteq Agent
    BY ElementOfSeq DEF Registered

(* The registry changes and the bus keeps every delivery (register_agent,     *)
(* unregister_agent).                                                        *)
LEMMA RegistryKeepsInv ==
    ASSUME BusInv, RegisterAgent \/ UnregisterAgent
    PROVE  BusInv'
<1>1. messages' = messages
    BY DEF RegisterAgent, UnregisterAgent
<1>2. agents \in Seq(Agent)
    BY DEF BusInv
<1>3. agents' \in Seq(Agent)
  <2>1. CASE RegisterAgent
      BY <2>1, <1>2, AppendProperties DEF RegisterAgent
  <2>2. CASE UnregisterAgent
    <3>1. PICK a \in Registered : agents' = Kept(agents, Agent \ {a})
        BY <2>2 DEF UnregisterAgent
    <3> QED BY <1>2, <3>1, KeptFacts
  <2> QED BY <2>1, <2>2
<1> QED BY <1>1, <1>3 DEF BusInv

(* A publish stores a message whose deliveries match it, also when it raises  *)
(* on the way (publish, _create_delivery).                                    *)
LEMMA PublishKeepsInv ==
    ASSUME BusInv,
           NEW sender \in Agent, NEW to, to = Agent \/ to \in SUBSET Agent,
           NEW priority \in Priority, NEW n, Publish(sender, to, priority, n)
    PROVE  BusInv'
<1> PICK recipients : recipients = Recipients(sender, to)
    OBVIOUS
<1> PICK meant : meant = IF to = Agent THEN Agent \ {sender} ELSE to
    OBVIOUS
<1>1. agents \in Seq(Agent) /\ messages \in Seq(Message) /\ meant \in SUBSET Agent
    BY DEF BusInv
<1>2. recipients \in Seq(Agent) /\ {recipients[i] : i \in 1 .. Len(recipients)} = Registered \intersect meant
  <2>1. recipients = Kept(agents, meant)
      BY DEF Recipients
  <2>2. recipients \in Seq(Agent) /\ Members(recipients) = Members(agents) \intersect meant
      BY <1>1, <2>1, KeptFacts
  <2> QED BY <2>2 DEF Members, Registered
<1> PICK served : served = {recipients[i] : i \in 1 .. n}
    OBVIOUS
<1> PICK new : new =
       [sender |-> sender, priority |-> priority,
        intended |-> (to \intersect Registered) \ (IF to = Agent THEN {sender} ELSE {}),
        raised |-> n < Len(recipients),
        delivery |-> [a \in Agent |-> IF a \in served THEN "pending" ELSE "none"]]
    OBVIOUS
<1>3. n \in 0 .. Len(recipients) /\ Len(recipients) \in Nat /\ agents' = agents
      /\ messages' = Append(messages, new)
    BY <1>2, LenProperties DEF Publish
<1>4. new.intended = Registered \intersect meant
  <2>1. new.intended = (to \intersect Registered) \ (IF to = Agent THEN {sender} ELSE {})
      OBVIOUS
  <2>2. Registered \subseteq Agent
      BY <1>1, RegisteredAreAgents
  <2> QED BY <2>1, <2>2
<1>5. new \in Message
  <2>1. Registered \intersect meant \in SUBSET Agent
      BY <1>1
  <2>2. (n < Len(recipients)) \in BOOLEAN
      OBVIOUS
  <2>3. [a \in Agent |-> IF a \in served THEN "pending" ELSE "none"]
           \in [Agent -> DeliveryOpen \union DeliveryClosed \union {"none"}]
      BY DEF DeliveryOpen
  <2>4. new = [sender |-> sender, priority |-> priority, intended |-> Registered \intersect meant,
               raised |-> n < Len(recipients),
               delivery |-> [a \in Agent |-> IF a \in served THEN "pending" ELSE "none"]]
      BY <1>4
  <2> QED BY <2>1, <2>2, <2>3, <2>4 DEF Message
<1>6. Served(new) = served \intersect Agent
    BY DEF Served
<1>7. served \subseteq Registered \intersect meant
    BY <1>2, <1>3
<1>8. ASSUME Served(new) # new.intended PROVE new.raised
  <2>1. n # Len(recipients)
      BY <1>1, <1>2, <1>4, <1>6, <1>7, <1>8
  <2>2. n < Len(recipients)
      BY <2>1, <1>3
  <2> QED BY <2>2
<1>9. MatchesPublish(new)
    BY <1>4, <1>6, <1>7, <1>8 DEF MatchesPublish
<1>10. /\ messages' \in Seq(Message)
       /\ \A m \in 1 .. Len(messages') : messages'[m] = new \/ (m \in 1 .. Len(messages) /\ messages'[m] = messages[m])
  <2>1. /\ messages' \in Seq(Message) /\ Len(messages') = Len(messages) + 1
        /\ \A m \in 1 .. Len(messages) : messages'[m] = messages[m]
        /\ messages'[Len(messages) + 1] = new
      BY <1>1, <1>3, <1>5, AppendProperties
  <2>2. Len(messages) \in Nat
      BY <1>1, LenProperties
  <2> QED BY <2>1, <2>2
<1>11. ASSUME NEW m \in 1 .. Len(messages') PROVE MatchesPublish(messages'[m])
    BY <1>9, <1>10 DEF BusInv
<1> QED BY <1>1, <1>3, <1>10, <1>11 DEF BusInv

(* The life of a delivery never makes or loses one: receive, start_processing, *)
(* acknowledge, fail and cancel change deliveries that exist to states that    *)
(* still exist.                                                              *)
LEMMA DeliveriesKeepInv ==
    ASSUME BusInv, agents' = agents,
           messages' \in [1 .. Len(messages) -> Message],
           \A m \in 1 .. Len(messages) : /\ messages'[m].intended = messages[m].intended
                                         /\ messages'[m].raised = messages[m].raised
                                         /\ Served(messages'[m]) = Served(messages[m])
    PROVE  BusInv'
<1>1. messages \in Seq(Message) /\ Len(messages) \in Nat
    BY LenProperties DEF BusInv
<1>2. messages' \in Seq(Message) /\ Len(messages') = Len(messages)
    BY <1>1, LenProperties
<1>3. ASSUME NEW m \in 1 .. Len(messages') PROVE MatchesPublish(messages'[m])
    BY <1>2 DEF BusInv, MatchesPublish
<1> QED BY <1>2, <1>3 DEF BusInv

(* One delivery that exists changes to another state.                        *)
LEMMA OneDelivery ==
    ASSUME NEW message \in Message, NEW a \in Agent, message.delivery[a] # "none",
           NEW to \in DeliveryOpen \union DeliveryClosed
    PROVE  LET changed == [message EXCEPT !.delivery[a] = to]
           IN  /\ changed \in Message
               /\ changed.intended = message.intended /\ changed.raised = message.raised
               /\ Served(changed) = Served(message)
<1> PICK changed : changed = [message EXCEPT !.delivery[a] = to]
    OBVIOUS
<1>1. message.delivery \in [Agent -> DeliveryOpen \union DeliveryClosed \union {"none"}]
    BY DEF Message
<1>2. [message.delivery EXCEPT ![a] = to] \in [Agent -> DeliveryOpen \union DeliveryClosed \union {"none"}]
    BY <1>1
<1>3. changed \in Message /\ changed.delivery = [message.delivery EXCEPT ![a] = to]
      /\ changed.intended = message.intended /\ changed.raised = message.raised
    BY <1>2 DEF Message
<1>4. to # "none"
    BY DEF DeliveryOpen, DeliveryClosed
<1>5. Served(changed) = Served(message)
    BY <1>1, <1>3, <1>4 DEF Served
<1> QED BY <1>3, <1>5

(* receive hands out pending deliveries and keeps them (receive).            *)
LEMMA ReceiveKeepsInv ==
    ASSUME BusInv, Receive
    PROVE  BusInv'
<1>1. PICK a \in Registered, limit \in 1 .. MaxLimit :
         messages' = [m \in 1 .. Len(messages) |->
             IF m \in Taken(a, limit) THEN [messages[m] EXCEPT !.delivery[a] = "delivered"] ELSE messages[m]]
    BY DEF Receive
<1>2. a \in Agent /\ messages \in Seq(Message) /\ agents' = agents
    BY RegisteredAreAgents DEF BusInv, Receive
<1>3. ASSUME NEW m \in 1 .. Len(messages)
      PROVE  /\ messages'[m] \in Message
             /\ messages'[m].intended = messages[m].intended
             /\ messages'[m].raised = messages[m].raised
             /\ Served(messages'[m]) = Served(messages[m])
  <2>1. messages[m] \in Message
      BY <1>2, ElementOfSeq
  <2>2. CASE m \in Taken(a, limit)
    <3>1. messages[m].delivery[a] # "none"
        BY <2>2 DEF Taken, Pending
    <3>2. messages'[m] = [messages[m] EXCEPT !.delivery[a] = "delivered"]
        BY <1>1, <2>2
    <3>3. "delivered" \in DeliveryOpen \union DeliveryClosed
        BY DEF DeliveryOpen
    <3> QED BY <1>2, <2>1, <3>1, <3>2, <3>3, OneDelivery
  <2>3. CASE m \notin Taken(a, limit)
    <3>1. messages'[m] = messages[m]
        BY <1>1, <2>3
    <3> QED BY <2>1, <3>1
  <2> QED BY <2>2, <2>3
<1>4. messages' \in [1 .. Len(messages) -> Message]
    BY <1>1, <1>3
<1> QED BY <1>2, <1>3, <1>4, DeliveriesKeepInv

(* One delivery of one message changes (start_processing, acknowledge, fail,  *)
(* cancel).                                                                  *)
LEMMA ProcessKeepsInv ==
    ASSUME BusInv, agents' = agents, NEW k \in 1 .. Len(messages), NEW a \in Agent,
           NEW to \in DeliveryOpen \union DeliveryClosed, messages[k].delivery[a] # "none",
           messages' = [messages EXCEPT ![k].delivery[a] = to]
    PROVE  BusInv'
<1>1. messages \in Seq(Message) /\ messages \in [1 .. Len(messages) -> Message]
    BY LenProperties DEF BusInv
<1>2. ASSUME NEW m \in 1 .. Len(messages)
      PROVE  /\ messages'[m] \in Message
             /\ messages'[m].intended = messages[m].intended
             /\ messages'[m].raised = messages[m].raised
             /\ Served(messages'[m]) = Served(messages[m])
  <2>1. messages[m] \in Message
      BY <1>1
  <2>2. CASE m = k
    <3>1. messages'[m] = [messages[m] EXCEPT !.delivery[a] = to]
        BY <1>1, <2>2
    <3> QED BY <2>1, <2>2, <3>1, OneDelivery
  <2>3. CASE m # k
    <3>1. messages'[m] = messages[m]
        BY <1>1, <2>3
    <3> QED BY <2>1, <3>1
  <2> QED BY <2>2, <2>3
<1>3. messages' \in [1 .. Len(messages) -> Message]
    BY <1>1, <1>2
<1> QED BY <1>2, <1>3, DeliveriesKeepInv

(* Whoever comes and goes, a message that the bus keeps has exactly the       *)
(* deliveries it was meant to have, unless its publish raised (publish,       *)
(* _resolve_recipients, _create_delivery).                                    *)
THEOREM DeliveriesMatch == BusSpec => []DeliveriesMatchPublish
<1>1. BusInit => BusInv
  <2> SUFFICES ASSUME BusInit PROVE BusInv
      OBVIOUS
  <2> PICK first : first = Agent \ Specialist
      OBVIOUS
  <2>1. IsFiniteSet(first) /\ first \subseteq Agent
      BY BusAssumption, FS_Subset
  <2> PICK n : n = Cardinality(first)
      OBVIOUS
  <2>2. n \in Nat /\ ExistsBijection(1 .. n, first)
      BY <2>1, FS_CardinalityType
  <2>3. PICK f : f \in [1 .. n -> first] /\ IsInjective(f)
      BY <2>2 DEF ExistsBijection, Bijection, Injection, Surjection, IsInjective
  <2>4. SetToSeq(first) \in [1 .. n -> first]
    <3>1. SetToSeq(first) = CHOOSE g \in [1 .. n -> first] : IsInjective(g)
        BY DEF SetToSeq
    <3> QED BY <2>3, <3>1
  <2>5. agents \in Seq(Agent)
    <3>1. agents \in [1 .. n -> Agent]
        BY <2>1, <2>4 DEF BusInit
    <3>2. agents \in UNION {[1 .. k -> Agent] : k \in Nat}
        BY <2>2, <3>1
    <3> QED BY <3>2, SeqDef
  <2>6. messages \in Seq(Message) /\ Len(messages) = 0
      BY EmptySeq DEF BusInit
  <2> QED BY <2>5, <2>6 DEF BusInv
<1>2. BusInv /\ [BusNext]_busVars => BusInv'
  <2> SUFFICES ASSUME BusInv, [BusNext]_busVars PROVE BusInv'
      OBVIOUS
  <2>1. CASE RegisterAgent \/ UnregisterAgent
      BY <2>1, RegistryKeepsInv
  <2>2. CASE PublishMessage
    <3>1. PICK sender \in Agent, priority \in Priority, n \in 0 .. Cardinality(Agent),
               to \in {{a} : a \in Agent} \union {Agent} : Publish(sender, to, priority, n)
        BY <2>2 DEF PublishMessage
    <3>2. to = Agent \/ to \in SUBSET Agent
        OBVIOUS
    <3> QED BY <3>1, <3>2, PublishKeepsInv
  <2>3. CASE DispatchTask
    <3>1. PICK priority \in Priority, n \in 0 .. 1 : Publish(Manager, {Assignee}, priority, n)
        BY <2>3 DEF DispatchTask
    <3> PICK to : to = {Assignee}
        OBVIOUS
    <3>2. to = Agent \/ to \in SUBSET Agent
        BY <3>1, RegisteredAreAgents DEF Publish, BusInv
    <3> QED BY <3>1, <3>2, BusAssumption, PublishKeepsInv
  <2>4. CASE Receive
      BY <2>4, ReceiveKeepsInv
  <2>5. CASE StartProcessing \/ Acknowledge \/ FailDelivery \/ CancelDelivery
    <3>1. PICK k \in 1 .. Len(messages), a \in Agent, to \in DeliveryOpen \union DeliveryClosed :
             /\ agents' = agents /\ messages[k].delivery[a] # "none"
             /\ messages' = [messages EXCEPT ![k].delivery[a] = to]
        BY <2>5, RegisteredAreAgents
           DEF BusInv, StartProcessing, Acknowledge, FailDelivery, CancelDelivery, Process,
               DeliveryOpen, DeliveryClosed
    <3> QED BY <3>1, ProcessKeepsInv
  <2>6. CASE UNCHANGED busVars
      BY <2>6 DEF busVars, BusInv
  <2> QED BY <2>1, <2>2, <2>3, <2>4, <2>5, <2>6 DEF BusNext
<1>3. BusInv => DeliveriesMatchPublish
    BY DEF BusInv, MatchesPublish, Served, DeliveriesMatchPublish
<1> QED BY <1>1, <1>2, <1>3, PTL DEF BusSpec

-----------------------------------------------------------------------------
(* The dependency graph of a plan                                           *)

(* The filter lists the members of a set of steps, each once.                *)
LEMMA ListedFacts ==
    ASSUME NEW n \in Nat, NEW deps \in [1 .. n -> SUBSET (1 .. n)], NEW set \in SUBSET (1 .. n)
    PROVE  /\ Len(deps) = n /\ Steps(deps) = 1 .. n
           /\ Listed(deps, set) \in Seq(1 .. n)
           /\ Members(Listed(deps, set)) = set
           /\ Distinct(Listed(deps, set))
<1>1. Len(deps) = n /\ Steps(deps) = 1 .. n
  <2>1. deps \in Seq(SUBSET (1 .. n)) /\ DOMAIN deps = 1 .. n
    OBVIOUS
  <2> QED
    BY <2>1 DEF Steps
<1> PICK all : all = [i \in 1 .. n |-> i]
  OBVIOUS
<1>2. all \in Seq(1 .. n) /\ Len(all) = n /\ \A i \in 1 .. n : all[i] = i
  <2>1. all \in [1 .. n -> 1 .. n]
    OBVIOUS
  <2>2. all \in Seq(1 .. n)
    BY <2>1
  <2> QED
    BY <2>1, <2>2
<1>3. Members(all) = 1 .. n /\ Distinct(all)
  BY <1>2 DEF Members, Distinct
<1>4. Listed(deps, set) = Kept(all, set)
  BY <1>1 DEF Listed
<1>5. /\ Kept(all, set) \in Seq(1 .. n)
      /\ Members(Kept(all, set)) = Members(all) \intersect set
      /\ Distinct(all) => Distinct(Kept(all, set))
  BY <1>2, KeptFacts
<1> QED
  BY <1>1, <1>3, <1>4, <1>5

(* The queue of the topological order after k of its steps were taken: no step *)
(* is in it twice, it has exactly the steps whose dependencies were taken, and *)
(* each stands after everything it depends on.                                *)
FirstOf(queue, k) == {queue[j] : j \in {m \in 1 .. Len(queue) : m <= k}}

QueueAfter(deps, queue, k) ==
    /\ Distinct(queue)
    /\ Members(queue) = {i \in Steps(deps) : deps[i] \subseteq FirstOf(queue, k)}
    /\ \A j \in 1 .. Len(queue) : deps[queue[j]] \subseteq FirstOf(queue, j - 1)

(* Taking the next step from the queue keeps that (_topological_order).       *)
LEMMA TakingKeepsQueue ==
    ASSUME NEW n \in Nat, NEW deps \in [1 .. n -> SUBSET (1 .. n)],
           NEW queue \in Seq(1 .. n), NEW k \in 1 .. n,
           QueueAfter(deps, queue, k - 1), k <= Len(queue)
    PROVE  QueueAfter(deps, queue \o Listed(deps, NewlyReady(deps, queue, k)), k)
<1> PICK new : new = NewlyReady(deps, queue, k)
  OBVIOUS
<1>1. Len(deps) = n /\ Steps(deps) = 1 .. n
  BY ListedFacts
<1>2. new \in SUBSET (1 .. n)
  BY <1>1 DEF NewlyReady
<1> PICK added : added = Listed(deps, new)
  OBVIOUS
<1>3. added \in Seq(1 .. n) /\ Members(added) = new /\ Distinct(added)
  BY <1>2, ListedFacts
<1> PICK longer : longer = queue \o added
  OBVIOUS
<1> PICK len \in Nat : len = Len(queue)
  OBVIOUS
<1> PICK more \in Nat : more = Len(added)
  BY <1>3
<1>4. /\ longer \in Seq(1 .. n) /\ Len(longer) = len + more
      /\ \A j \in 1 .. len : longer[j] = queue[j]
      /\ \A j \in len + 1 .. len + more : longer[j] = added[j - len]
      /\ Members(longer) = Members(queue) \union new
      /\ Members(queue) \intersect new = {} => Distinct(longer)
  BY <1>3, JoinFacts DEF QueueAfter
<1>5. ASSUME NEW m \in Nat, m <= len PROVE FirstOf(longer, m) = {queue[j] : j \in 1 .. m}
  <2>1. \A j : j \in {i \in 1 .. len + more : i <= m} <=> j \in 1 .. m
    BY <1>5
  <2>2. {i \in 1 .. len + more : i <= m} = 1 .. m
    BY <2>1
  <2>3. \A j \in 1 .. m : longer[j] = queue[j]
    BY <1>4, <1>5
  <2>4. FirstOf(longer, m) = {longer[j] : j \in 1 .. m}
    BY <1>4, <2>2 DEF FirstOf
  <2> QED
    BY <2>3, <2>4
<1>6. ASSUME NEW m \in Nat, m <= len PROVE FirstOf(queue, m) = {queue[j] : j \in 1 .. m}
  <2>1. {i \in 1 .. len : i <= m} = 1 .. m
    BY <1>6
  <2> QED
    BY <2>1 DEF FirstOf
<1>7. k \in Nat /\ k - 1 \in Nat /\ k <= len /\ k \in 1 .. len
  OBVIOUS
<1>7a. k - 1 \in Nat /\ k - 1 <= len
  BY <1>7
<1> PICK taken : taken = FirstOf(queue, k - 1)
  OBVIOUS
<1>8. FirstOf(longer, k) = taken \union {queue[k]} /\ FirstOf(longer, k) = {queue[j] : j \in 1 .. k}
  <2>1. \A j : j \in 1 .. k <=> j \in 1 .. k - 1 \/ j = k
    BY <1>7
  <2>2. {queue[j] : j \in 1 .. k} = {queue[j] : j \in 1 .. k - 1} \union {queue[k]}
    BY <2>1
  <2>3. FirstOf(longer, k) = {queue[j] : j \in 1 .. k}
    BY <1>5, <1>7
  <2>4. taken = {queue[j] : j \in 1 .. k - 1}
    BY <1>6, <1>7a
  <2> QED
    BY <2>2, <2>3, <2>4
<1>9. queue[k] \notin taken
  <2> SUFFICES ASSUME queue[k] \in taken PROVE FALSE
    OBVIOUS
  <2>1. PICK j \in 1 .. k - 1 : queue[k] = queue[j]
    <3>1. taken = {queue[j] : j \in 1 .. k - 1}
      BY <1>6, <1>7a
    <3> QED
      BY <3>1
  <2>2. j \in 1 .. len /\ j # k
    BY <1>7
  <2> QED
    BY <1>7, <2>1, <2>2 DEF QueueAfter, Distinct
<1>10. Members(queue) = {i \in 1 .. n : deps[i] \subseteq taken}
  BY <1>1 DEF QueueAfter
<1>11. new = {i \in 1 .. n : queue[k] \in deps[i] /\ deps[i] \subseteq taken \union {queue[k]}}
  BY <1>1, <1>8 DEF NewlyReady
<1>12. Distinct(longer)
  BY <1>4, <1>9, <1>10, <1>11
<1>13. Members(longer) = {i \in 1 .. n : deps[i] \subseteq FirstOf(longer, k)}
  BY <1>4, <1>8, <1>10, <1>11
<1>14. ASSUME NEW j \in 1 .. Len(longer) PROVE deps[longer[j]] \subseteq FirstOf(longer, j - 1)
  <2>1. CASE j \in 1 .. len
    <3>1. j - 1 \in Nat /\ j - 1 <= len
      BY <2>1
    <3>2. FirstOf(longer, j - 1) = FirstOf(queue, j - 1) /\ longer[j] = queue[j]
      BY <1>4, <1>5, <1>6, <2>1, <3>1
    <3> QED
      BY <2>1, <3>2 DEF QueueAfter
  <2>2. CASE j \in len + 1 .. len + more
    <3>1. longer[j] \in new
      <4>1. longer[j] = added[j - len] /\ j - len \in 1 .. more
        BY <1>4, <2>2
      <4> QED
        BY <1>3, <4>1 DEF Members
    <3>2. deps[longer[j]] \subseteq FirstOf(longer, k)
      BY <1>8, <1>11, <3>1
    <3>3. FirstOf(longer, k) \subseteq FirstOf(longer, j - 1)
      <4>1. k <= j - 1
        BY <1>7, <2>2
      <4>2. \A m \in 1 .. Len(longer) : m <= k => m <= j - 1
        BY <1>4, <1>7, <2>2, <4>1
      <4> QED
        BY <4>2 DEF FirstOf
    <3> QED
      BY <3>2, <3>3
  <2> QED
    BY <1>4, <2>1, <2>2
<1> QED
  BY <1>1, <1>12, <1>13, <1>14 DEF QueueAfter

(* When every step was taken, the queue is the order wanted.                 *)
LEMMA WholeQueueRuns ==
    ASSUME NEW n \in Nat, NEW deps \in [1 .. n -> SUBSET (1 .. n)], NEW order \in Seq(1 .. n),
           QueueAfter(deps, order, n), Len(order) = n
    PROVE  RunsInOrder(deps, order)
<1>1. Len(deps) = n /\ Steps(deps) = 1 .. n
  BY ListedFacts
<1>2. IsFiniteSet(1 .. n) /\ Cardinality(1 .. n) = n
  BY FS_Interval
<1>3. Distinct(order)
  BY DEF QueueAfter
<1>4. Members(order) = 1 .. n
  BY <1>2, <1>3, DistinctFacts
<1>5. ASSUME NEW j \in 1 .. n
      PROVE  deps[order[j]] \subseteq {order[k] : k \in 1 .. j - 1}
  <2>1. {m \in 1 .. n : m <= j - 1} = 1 .. j - 1
    OBVIOUS
  <2> QED
    BY <2>1 DEF QueueAfter, FirstOf
<1> QED
  BY <1>1, <1>4, <1>5 DEF RunsInOrder, Members

(* When not every step could be taken, those that were not wait for each      *)
(* other.                                                                    *)
LEMMA ShortQueueWaits ==
    ASSUME NEW n \in Nat, NEW deps \in [1 .. n -> SUBSET (1 .. n)], NEW order \in Seq(1 .. n),
           QueueAfter(deps, order, n), Len(order) # n
    PROVE  Cyclic(deps)
<1>1. Len(deps) = n /\ Steps(deps) = 1 .. n
  BY ListedFacts
<1>2. IsFiniteSet(1 .. n) /\ Cardinality(1 .. n) = n
  BY FS_Interval
<1>3. Distinct(order)
  BY DEF QueueAfter
<1> PICK all : all = Members(order)
  OBVIOUS
<1>4. Len(order) <= n /\ Cardinality(all) = Len(order) /\ all \subseteq 1 .. n
  BY <1>2, <1>3, DistinctFacts
<1>5. FirstOf(order, n) = all
  <2>1. \A j \in 1 .. Len(order) : j <= n
    BY <1>4
  <2> QED
    BY <2>1 DEF FirstOf, Members
<1>6. all = {i \in 1 .. n : deps[i] \subseteq all}
  BY <1>1, <1>5 DEF QueueAfter
<1>7. (1 .. n) \ all # {}
  BY <1>2, <1>4
<1>8. ASSUME NEW i \in (1 .. n) \ all PROVE deps[i] \intersect ((1 .. n) \ all) # {}
  BY <1>6
<1> PICK S : S = (1 .. n) \ all
  OBVIOUS
<1>9. S \in SUBSET (1 .. n) /\ S # {} /\ \A i \in S : deps[i] \intersect S # {}
  BY <1>7, <1>8
<1> QED
  BY <1>1, <1>9 DEF Cyclic

(* Steps that can run one after another do not wait for each other.          *)
LEMMA OrderedIsAcyclic ==
    ASSUME NEW n \in Nat, NEW deps \in [1 .. n -> SUBSET (1 .. n)], NEW order \in Seq(1 .. n),
           RunsInOrder(deps, order), Cyclic(deps)
    PROVE  FALSE
<1>1. Len(deps) = n /\ Steps(deps) = 1 .. n
  BY ListedFacts
<1>2. PICK S \in SUBSET (1 .. n) : S # {} /\ \A i \in S : deps[i] \intersect S # {}
  BY <1>1 DEF Cyclic
<1>3. /\ Len(order) = n
      /\ {order[j] : j \in 1 .. n} = 1 .. n
      /\ \A j \in 1 .. n : deps[order[j]] \subseteq {order[k] : k \in 1 .. j - 1}
  BY <1>1 DEF RunsInOrder
<1> DEFINE P == {j \in 1 .. n : order[j] \in S}
<1>4. P \in SUBSET Nat /\ P # {}
  <2>1. PICK i \in S : i \in 1 .. n
    BY <1>2
  <2>2. PICK j \in 1 .. n : i = order[j]
    BY <1>3, <2>1
  <2>3. j \in P
    BY <2>2
  <2>4. P \in SUBSET Nat
    OBVIOUS
  <2> HIDE DEF P
  <2> QED
    BY <2>3, <2>4
<1>5. PICK m \in P : \A k \in P : m <= k
  <2> HIDE DEF P
  <2> QED
    BY <1>4, SmallestOf
<1>6. PICK x \in deps[order[m]] : x \in S
  BY <1>2
<1>7. PICK k \in 1 .. m - 1 : x = order[k]
  BY <1>3
<1>8. k \in P /\ k < m
  BY <1>6, <1>7
<1> QED
  BY <1>5, <1>8

(* _topological_order finds an order exactly when no steps wait for each      *)
(* other, and it names every step once, after all it depends on.             *)
LEMMA OrderIsExact ==
    ASSUME NEW n \in Nat \ {0}, NEW deps \in [1 .. n -> SUBSET (1 .. n)]
    PROVE  /\ TopologicalOrder(deps) = <<>> <=> Cyclic(deps)
           /\ TopologicalOrder(deps) # <<>> =>
                 /\ TopologicalOrder(deps) \in Seq(1 .. n)
                 /\ Distinct(TopologicalOrder(deps))
                 /\ RunsInOrder(deps, TopologicalOrder(deps))
<1>1. Len(deps) = n /\ Steps(deps) = 1 .. n
  BY ListedFacts
<1> DEFINE taken(k, queue) == IF k > Len(queue) THEN queue
                              ELSE queue \o Listed(deps, NewlyReady(deps, queue, k))
           take == [at \in (1 .. n) \X Seq(1 .. n) |-> taken(at[1], at[2])]
           first == Listed(deps, {i \in 1 .. n : deps[i] = {}})
<1> PICK V : V = Seq(1 .. n)
  OBVIOUS
<1>2. first \in V /\ QueueAfter(deps, first, 0)
  <2>1. /\ first \in Seq(1 .. n) /\ Distinct(first)
        /\ Members(first) = {i \in 1 .. n : deps[i] = {}}
    BY ListedFacts
  <2> HIDE DEF first
  <2>2. FirstOf(first, 0) = {}
    BY <2>1 DEF FirstOf
  <2>3. \A j \in 1 .. Len(first) : deps[first[j]] = {}
    BY <2>1 DEF Members
  <2> QED
    BY <1>1, <2>1, <2>2, <2>3 DEF QueueAfter
<1>3. \A k \in 1 .. n, queue \in V : take[<<k, queue>>] = taken(k, queue) /\ taken(k, queue) \in V
  <2> SUFFICES ASSUME NEW k \in 1 .. n, NEW queue \in V
               PROVE  take[<<k, queue>>] = taken(k, queue) /\ taken(k, queue) \in V
    OBVIOUS
  <2>1. take[<<k, queue>>] = taken(k, queue)
    <3> HIDE DEF taken
    <3> QED
      OBVIOUS
  <2>2. NewlyReady(deps, queue, k) \in SUBSET (1 .. n)
    BY <1>1 DEF NewlyReady
  <2>3. Listed(deps, NewlyReady(deps, queue, k)) \in Seq(1 .. n)
    BY <2>2, ListedFacts
  <2>4. queue \o Listed(deps, NewlyReady(deps, queue, k)) \in V
    BY <2>3, JoinFacts
  <2>5. taken(k, queue) \in V
    BY <2>4
  <2> QED
    BY <2>1, <2>5
<1> PICK order : order = Loop(first, take, n)
  OBVIOUS
<1>4. TopologicalOrder(deps) = IF Len(order) = n THEN order ELSE <<>>
  BY <1>1 DEF TopologicalOrder
<1> HIDE DEF first, take
<1>5. PICK f \in [0 .. n -> V] : order = f[n] /\ Iterates(f, first, take, n)
  BY <1>2, <1>3, LoopFacts
<1> DEFINE T == {k \in 0 .. n : QueueAfter(deps, f[k], k)}
<1>6. 0 \in T
  BY <1>2, <1>5 DEF Iterates
<1>7. ASSUME NEW m \in 0 .. n - 1, m \in T PROVE m + 1 \in T
  <2> PICK k \in 1 .. n : k = m + 1
    OBVIOUS
  <2>1. m \in 0 .. n /\ k - 1 = m /\ k \in 0 .. n
    OBVIOUS
  <2> PICK queue \in V : queue = f[m]
    BY <2>1
  <2>0. queue \in Seq(1 .. n) /\ Len(queue) \in Nat /\ k \in Nat
    OBVIOUS
  <2>2. f[k] = taken(k, queue) /\ QueueAfter(deps, queue, k - 1)
    BY <1>3, <1>5, <1>7, <2>1 DEF Iterates
  <2>3. CASE k <= Len(queue)
    <3>1. f[k] = queue \o Listed(deps, NewlyReady(deps, queue, k))
      <4>1. ~(k > Len(queue))
        BY <2>0, <2>3
      <4> QED
        BY <2>2, <4>1
    <3>2. QueueAfter(deps, queue \o Listed(deps, NewlyReady(deps, queue, k)), k)
      BY <2>0, <2>2, <2>3, TakingKeepsQueue
    <3> QED
      BY <2>1, <3>1, <3>2
  <2>4. CASE k > Len(queue)
    <3>1. f[k] = queue
      BY <2>2, <2>4
    <3>2. FirstOf(queue, k) = FirstOf(queue, k - 1)
      <4>1. \A j \in 1 .. Len(queue) : j <= k /\ j <= k - 1
        BY <2>4
      <4> QED
        BY <4>1 DEF FirstOf
    <3> QED
      BY <2>1, <2>2, <3>1, <3>2 DEF QueueAfter
  <2> QED
    BY <2>3, <2>4
<1>8. QueueAfter(deps, order, n) /\ order \in Seq(1 .. n)
  <2> HIDE DEF T
  <2>1. 0 .. n \subseteq T
    BY <1>6, <1>7, IntervalInduction
  <2>2. n \in T
    BY <2>1
  <2> QED
    BY <1>5, <2>2 DEF T
<1>9. CASE Len(order) = n
  <2>1. TopologicalOrder(deps) = order /\ order # <<>>
    BY <1>4, <1>9
  <2>2. RunsInOrder(deps, order)
    BY <1>8, <1>9, WholeQueueRuns
  <2>3. ~Cyclic(deps)
    BY <1>8, <2>2, OrderedIsAcyclic
  <2> QED
    BY <1>8, <2>1, <2>2, <2>3 DEF QueueAfter
<1>10. CASE Len(order) # n
  <2>1. TopologicalOrder(deps) = <<>>
    BY <1>4, <1>10
  <2>2. Cyclic(deps)
    BY <1>8, <1>10, ShortQueueWaits
  <2> QED
    BY <2>1, <2>2
<1> QED
  BY <1>9, <1>10

(* Without steps that wait for each other, every set of steps that is not      *)
(* empty has one that depends on none of them.                               *)
LEMMA AcyclicHasFree ==
    ASSUME NEW n \in Nat, NEW deps \in [1 .. n -> SUBSET (1 .. n)], ~Cyclic(deps),
           NEW S \in SUBSET (1 .. n), S # {}
    PROVE  \E i \in S : deps[i] \intersect S = {}
<1>1. Steps(deps) = 1 .. n
  BY ListedFacts
<1> QED
  BY <1>1 DEF Cyclic

(* So while steps remain, one of them depends on nothing that remains.        *)
LEMMA AcyclicHasReady ==
    ASSUME NEW n \in Nat, NEW deps \in [1 .. n -> SUBSET (1 .. n)], ~Cyclic(deps),
           NEW done, (1 .. n) \ done # {}
    PROVE  \E i \in (1 .. n) \ done : deps[i] \subseteq done
<1> PICK rest : rest = (1 .. n) \ done
  OBVIOUS
<1>1. rest \in SUBSET (1 .. n) /\ rest # {}
  OBVIOUS
<1>2. PICK i \in rest : deps[i] \intersect rest = {}
  BY <1>1, AcyclicHasFree
<1> QED
  BY <1>2

(* A set of steps that can have been finished: with every step all that it    *)
(* depends on.                                                               *)
Closed(deps, done) == \A i \in done : deps[i] \subseteq done

(* Completing the only ready step, again and again, passes no set of finished *)
(* steps from which two are ready (_has_parallel_steps).                     *)
LEMMA OnlyReadyIsForced ==
    ASSUME NEW n \in Nat, NEW deps \in [1 .. n -> SUBSET (1 .. n)], ~Cyclic(deps),
           NEW completed \in SUBSET (1 .. n), Closed(deps, completed),
           Cardinality(Ready(deps, completed)) = 1,
           NEW done \in SUBSET (1 .. n), Closed(deps, done), completed \subseteq done,
           NEW a \in (1 .. n) \ done, NEW b \in (1 .. n) \ done, a # b,
           deps[a] \union deps[b] \subseteq done
    PROVE  completed \union Ready(deps, completed) \subseteq done
<1>1. Steps(deps) = 1 .. n
  BY ListedFacts
<1>2. Ready(deps, completed) = {i \in (1 .. n) \ completed : deps[i] \subseteq completed}
  BY <1>1 DEF Ready
<1>3. IsFiniteSet(Ready(deps, completed))
  <2>1. Ready(deps, completed) \subseteq 1 .. n /\ IsFiniteSet(1 .. n)
    BY <1>2, FS_Interval
  <2> QED
    BY <2>1, FS_Subset
<1>4. PICK r : Ready(deps, completed) = {r}
  BY <1>3, FS_Singleton
<1>5. completed # done
  <2> SUFFICES ASSUME completed = done PROVE FALSE
    OBVIOUS
  <2>1. a \in {r} /\ b \in {r}
    BY <1>2, <1>4
  <2> QED
    BY <2>1
<1>6. PICK i \in done \ completed : deps[i] \intersect (done \ completed) = {}
  <2> PICK rest : rest = done \ completed
    OBVIOUS
  <2>1. rest \in SUBSET (1 .. n) /\ rest # {}
    BY <1>5
  <2> QED
    BY <2>1, AcyclicHasFree
<1>7. i \in Ready(deps, completed)
  BY <1>2, <1>6 DEF Closed
<1> QED
  BY <1>4, <1>7

(* What each round of _has_parallel_steps has completed.                     *)
Completes(deps, f, n) ==
    /\ f[0] = {}
    /\ \A k \in 1 .. n : f[k] = IF Cardinality(Ready(deps, f[k - 1])) = 1
                               THEN f[k - 1] \union Ready(deps, f[k - 1]) ELSE f[k - 1]

(* After as many rounds as there are steps, several steps are ready or none.  *)
LEMMA CompletionEnds ==
    ASSUME NEW n \in Nat, NEW deps \in [1 .. n -> SUBSET (1 .. n)],
           NEW f \in [0 .. n -> SUBSET (1 .. n)], Completes(deps, f, n)
    PROVE  Closed(deps, f[n]) /\ Cardinality(Ready(deps, f[n])) # 1
<1>1. Steps(deps) = 1 .. n
  BY ListedFacts
<1>2. IsFiniteSet(1 .. n) /\ Cardinality(1 .. n) = n
  BY FS_Interval
<1> DEFINE Fine(k) == /\ Closed(deps, f[k])
                      /\ Cardinality(f[k]) = k \/ Cardinality(Ready(deps, f[k])) # 1
           T == {k \in 0 .. n : Fine(k)}
<1>3. 0 \in T
  <2>1. f[0] = {} /\ Cardinality(f[0]) = 0
    BY FS_EmptySet DEF Completes
  <2>2. Closed(deps, f[0])
    BY <2>1 DEF Closed
  <2>3. 0 \in 0 .. n
    OBVIOUS
  <2> QED
    BY <2>1, <2>2, <2>3
<1>4. ASSUME NEW k \in 0 .. n - 1, k \in T PROVE k + 1 \in T
  <2>1. k + 1 \in 1 .. n /\ k + 1 \in 0 .. n /\ (k + 1) - 1 = k /\ k \in 0 .. n /\ k \in Nat
    OBVIOUS
  <2> PICK c \in SUBSET (1 .. n) : c = f[k]
    BY <2>1
  <2> PICK d : d = f[k + 1]
    OBVIOUS
  <2>2. d = IF Cardinality(Ready(deps, c)) = 1 THEN c \union Ready(deps, c) ELSE c
    BY <2>1 DEF Completes
  <2>3. Closed(deps, c) /\ (Cardinality(c) = k \/ Cardinality(Ready(deps, c)) # 1)
    BY <1>4
  <2>4. CASE Cardinality(Ready(deps, c)) # 1
    <3>1. d = c
      BY <2>2, <2>4
    <3> QED
      BY <2>1, <2>3, <2>4, <3>1
  <2>5. CASE Cardinality(Ready(deps, c)) = 1
    <3>1. Ready(deps, c) \subseteq 1 .. n /\ IsFiniteSet(Ready(deps, c)) /\ IsFiniteSet(c)
      BY <1>1, <1>2, FS_Subset DEF Ready
    <3>2. PICK r : Ready(deps, c) = {r}
      BY <2>5, <3>1, FS_Singleton
    <3>3. r \in (1 .. n) \ c /\ deps[r] \subseteq c
      BY <1>1, <3>2 DEF Ready
    <3>4. d = c \union {r} /\ Cardinality(c) = k
      BY <2>2, <2>3, <2>5, <3>2
    <3>5. Cardinality(c \union {r}) = k + 1
      BY <3>1, <3>3, <3>4, FS_AddElement
    <3>6. Closed(deps, c \union {r})
      BY <2>3, <3>3 DEF Closed
    <3> QED
      BY <2>1, <3>4, <3>5, <3>6
  <2> QED
    BY <2>4, <2>5
<1>5. Fine(n)
  <2> HIDE DEF T
  <2>1. 0 .. n \subseteq T
    BY <1>3, <1>4, IntervalInduction
  <2>2. n \in T
    BY <2>1
  <2> QED
    BY <2>2 DEF T
<1>6. ASSUME Cardinality(f[n]) = n PROVE Cardinality(Ready(deps, f[n])) # 1
  <2>1. f[n] = 1 .. n
    BY <1>2, <1>6, FS_Subset
  <2>2. Ready(deps, f[n]) = {}
    BY <1>1, <2>1 DEF Ready
  <2> QED
    BY <2>2, FS_EmptySet
<1> QED
  BY <1>5, <1>6

(* It never passes a set of finished steps from which two are ready.          *)
LEMMA CompletionStops ==
    ASSUME NEW n \in Nat, NEW deps \in [1 .. n -> SUBSET (1 .. n)], ~Cyclic(deps),
           NEW f \in [0 .. n -> SUBSET (1 .. n)], Completes(deps, f, n),
           NEW done \in SUBSET (1 .. n), Closed(deps, done),
           NEW a \in (1 .. n) \ done, NEW b \in (1 .. n) \ done, a # b,
           deps[a] \union deps[b] \subseteq done
    PROVE  f[n] \subseteq done
<1>1. Steps(deps) = 1 .. n
  BY ListedFacts
<1> DEFINE T == {k \in 0 .. n : Closed(deps, f[k]) /\ f[k] \subseteq done}
<1>2. 0 \in T
  <2>1. f[0] = {}
    BY DEF Completes
  <2> QED
    BY <2>1 DEF Closed
<1>3. ASSUME NEW k \in 0 .. n - 1, k \in T PROVE k + 1 \in T
  <2>1. k + 1 \in 1 .. n /\ k + 1 \in 0 .. n /\ (k + 1) - 1 = k /\ k \in 0 .. n
    OBVIOUS
  <2> PICK c \in SUBSET (1 .. n) : c = f[k]
    BY <2>1
  <2> PICK d : d = f[k + 1]
    OBVIOUS
  <2>2. d = IF Cardinality(Ready(deps, c)) = 1 THEN c \union Ready(deps, c) ELSE c
    BY <2>1 DEF Completes
  <2>3. Closed(deps, c) /\ c \subseteq done
    BY <1>3
  <2>4. CASE Cardinality(Ready(deps, c)) # 1
    BY <2>1, <2>2, <2>3, <2>4
  <2>5. CASE Cardinality(Ready(deps, c)) = 1
    <3>1. c \union Ready(deps, c) \subseteq done
      BY <2>3, <2>5, OnlyReadyIsForced
    <3>2. Closed(deps, c \union Ready(deps, c))
      BY <1>1, <2>3 DEF Closed, Ready
    <3> QED
      BY <2>1, <2>2, <2>5, <3>1, <3>2
  <2> QED
    BY <2>4, <2>5
<1> HIDE DEF T
<1>4. 0 .. n \subseteq T
  BY <1>2, <1>3, IntervalInduction
<1>5. n \in T
  BY <1>4
<1> QED
  BY <1>5 DEF T

(* Without a cycle, _has_parallel_steps says whether two steps can be ready    *)
(* together.                                                                 *)
LEMMA ParallelIsExact ==
    ASSUME NEW n \in Nat, NEW deps \in [1 .. n -> SUBSET (1 .. n)], ~Cyclic(deps)
    PROVE  HasParallelSteps(deps) <=> CanRunTogether(deps)
<1>1. Len(deps) = n /\ Steps(deps) = 1 .. n
  BY ListedFacts
<1> DEFINE completedWith(completed) == IF Cardinality(Ready(deps, completed)) = 1
                                       THEN completed \union Ready(deps, completed) ELSE completed
           complete == [at \in (1 .. n) \X SUBSET (1 .. n) |-> completedWith(at[2])]
<1>2. \A k \in 1 .. n, c \in SUBSET (1 .. n) :
         complete[<<k, c>>] = completedWith(c) /\ completedWith(c) \in SUBSET (1 .. n)
  <2>1. \A c \in SUBSET (1 .. n) : Ready(deps, c) \subseteq 1 .. n
    BY <1>1 DEF Ready
  <2> QED
    BY <2>1
<1> PICK final : final = Loop({}, complete, n)
  OBVIOUS
<1>3. HasParallelSteps(deps) <=> Cardinality(Ready(deps, final)) > 1
  BY <1>1 DEF HasParallelSteps
<1> HIDE DEF complete
<1> PICK V : V = SUBSET (1 .. n)
  OBVIOUS
<1>4. PICK f \in [0 .. n -> V] : final = f[n] /\ Iterates(f, {}, complete, n)
  <2>1. {} \in V /\ \A k \in 1 .. n, c \in V : complete[<<k, c>>] \in V
    <3> HIDE DEF completedWith
    <3> QED
      BY <1>2
  <2> QED
    BY <2>1, LoopFacts
<1>5. /\ f[0] = {}
      /\ \A k \in 1 .. n : f[k] = IF Cardinality(Ready(deps, f[k - 1])) = 1
                                   THEN f[k - 1] \union Ready(deps, f[k - 1]) ELSE f[k - 1]
  <2>1. \A k \in 1 .. n : k - 1 \in 0 .. n
    OBVIOUS
  <2>2. \A k \in 1 .. n : f[k - 1] \in V /\ f[k] = complete[<<k, f[k - 1]>>]
    BY <1>4, <2>1 DEF Iterates
  <2>3. f[0] = {}
    BY <1>4 DEF Iterates
  <2> QED
    BY <1>2, <2>2, <2>3
<1> HIDE DEF completedWith
<1>6. final \in SUBSET (1 .. n) /\ f \in [0 .. n -> SUBSET (1 .. n)] /\ Completes(deps, f, n)
  <2>1. Completes(deps, f, n)
    BY <1>5 DEF Completes
  <2> QED
    BY <1>4, <2>1
<1>7. Closed(deps, final) /\ Cardinality(Ready(deps, final)) # 1
  BY <1>4, <1>6, CompletionEnds
<1>8. /\ Ready(deps, final) = {i \in (1 .. n) \ final : deps[i] \subseteq final}
      /\ IsFiniteSet(Ready(deps, final))
  <2>1. Ready(deps, final) = {i \in (1 .. n) \ final : deps[i] \subseteq final}
    BY <1>1 DEF Ready
  <2>2. Ready(deps, final) \subseteq 1 .. n /\ IsFiniteSet(1 .. n)
    BY <2>1, FS_Interval
  <2> QED
    BY <2>1, <2>2, FS_Subset
<1>9. ASSUME HasParallelSteps(deps) PROVE CanRunTogether(deps)
  <2>1. PICK a, b \in Ready(deps, final) : a # b
    BY <1>3, <1>8, <1>9, SeveralMembers
  <2>2. /\ \A i \in final : deps[i] \subseteq final
        /\ a \in (1 .. n) \ final /\ b \in (1 .. n) \ final
        /\ deps[a] \union deps[b] \subseteq final
    BY <1>7, <1>8 DEF Closed
  <2> QED
    BY <1>1, <1>6, <2>1, <2>2 DEF CanRunTogether
<1>10. ASSUME CanRunTogether(deps) PROVE HasParallelSteps(deps)
  <2>1. PICK done \in SUBSET (1 .. n) :
            /\ \A i \in done : deps[i] \subseteq done
            /\ \E a, b \in (1 .. n) \ done : a # b /\ deps[a] \union deps[b] \subseteq done
    BY <1>1, <1>10 DEF CanRunTogether
  <2>2. PICK a, b \in (1 .. n) \ done : a # b /\ deps[a] \union deps[b] \subseteq done
    BY <2>1
  <2>3. final \subseteq done
    BY <1>4, <1>6, <2>1, <2>2, CompletionStops DEF Closed
  <2>4. (1 .. n) \ final # {}
    BY <2>2, <2>3
  <2>5. PICK i \in (1 .. n) \ final : deps[i] \subseteq final
    BY <1>6, <2>4, AcyclicHasReady
  <2>6. i \in Ready(deps, final)
    BY <1>8, <2>5
  <2>7. Cardinality(Ready(deps, final)) \in Nat /\ Cardinality(Ready(deps, final)) # 0
    BY <1>8, <2>6, FS_CardinalityType, FS_EmptySet
  <2> QED
    BY <1>3, <1>7, <2>7
<1> QED
  BY <1>9, <1>10

-----------------------------------------------------------------------------
(* The planning agent                                                       *)

StepStatus == {"pending", "ready", "in_progress", "completed", "failed", "skipped"}

PlanType ==
    UNION {[status : {"draft", "ready", "in_progress", "completed", "failed", "cancelled"},
            deps : [1 .. n -> SUBSET (1 .. n)], tool : [1 .. n -> Tools \union {NoTool}],
            step : [1 .. n -> StepStatus]] : n \in 1 .. MaxSteps}

(* DependenciesGuardSteps, of the steps of any plan.                         *)
GuardedSteps(step, deps) ==
    \A i \in DOMAIN step :
        LET finished == \A j \in deps[i] : step[j] \in {"completed", "skipped"}
        IN  /\ step[i] \in {"ready", "in_progress", "completed", "failed"} => finished
            /\ step[i] = "pending" => ~finished

SoundPlan(p) == p \in PlanType /\ GuardedSteps(p.step, p.deps)

(* What FinishedStays asks of a call that makes q of plan p.                 *)
KeepsFinished(p, q) ==
    /\ p.status \in {"completed", "failed", "cancelled"} => q = p
    /\ \A i \in DOMAIN p.step : p.step[i] \in {"completed", "failed", "skipped"} => q.step[i] = p.step[i]

PlanningInv ==
    /\ pc \in {"planning", "proposed"} => plan = Nothing
    /\ pc = "proposed" => draft \in Proposal
    /\ plan # Nothing \/ pc \in {"caller", "running", "executing", "tool", "evaluating"} => SoundPlan(plan)

(* A step that is started had its dependencies finished already (start_step). *)
LEMMA StartedStepsGuarded ==
    ASSUME NEW n \in Nat, NEW deps \in [1 .. n -> SUBSET (1 .. n)], NEW step \in [1 .. n -> StepStatus],
           GuardedSteps(step, deps), NEW i,
           NEW new \in {"in_progress", "failed"},
           step[i] \in {"ready", "in_progress"}
    PROVE  /\ [step EXCEPT ![i] = new] \in [1 .. n -> StepStatus]
           /\ GuardedSteps([step EXCEPT ![i] = new], deps)
           /\ \A j \in 1 .. n : step[j] \in {"completed", "failed", "skipped"} =>
                  [step EXCEPT ![i] = new][j] = step[j]
<1> PICK after : after = [step EXCEPT ![i] = new]
    OBVIOUS
<1>1. after \in [1 .. n -> StepStatus]
    BY DEF StepStatus
<1>2. ASSUME NEW j \in 1 .. n
      PROVE  after[j] = IF j = i THEN new ELSE step[j]
    OBVIOUS
<1>3. ASSUME NEW k \in 1 .. n
      PROVE  (\A j \in deps[k] : after[j] \in {"completed", "skipped"})
             <=> (\A j \in deps[k] : step[j] \in {"completed", "skipped"})
    BY <1>2
<1>4. GuardedSteps(after, deps)
  <2>1. DOMAIN after = 1 .. n /\ DOMAIN step = 1 .. n
      BY <1>1
  <2> SUFFICES ASSUME NEW k \in 1 .. n
               PROVE  /\ after[k] \in {"ready", "in_progress", "completed", "failed"} =>
                            \A j \in deps[k] : after[j] \in {"completed", "skipped"}
                      /\ after[k] = "pending" => ~ \A j \in deps[k] : after[j] \in {"completed", "skipped"}
      BY <2>1 DEF GuardedSteps
  <2>2. /\ step[k] \in {"ready", "in_progress", "completed", "failed"} =>
             \A j \in deps[k] : step[j] \in {"completed", "skipped"}
        /\ step[k] = "pending" => ~ \A j \in deps[k] : step[j] \in {"completed", "skipped"}
      BY <2>1 DEF GuardedSteps
  <2> QED BY <1>2, <1>3, <2>2
<1>5. \A j \in 1 .. n : step[j] \in {"completed", "failed", "skipped"} => after[j] = step[j]
    BY <1>2
<1> QED BY <1>1, <1>4, <1>5

(* The steps after step i was completed or skipped.                          *)
ActivatedAfter(step, i, new, deps) == Activated([step EXCEPT ![i] = new], deps)

(* A step that is completed or skipped may finish the dependencies of others, *)
(* and exactly those become ready (_activate_eligible_steps).                  *)
LEMMA ActivationGuards ==
    ASSUME NEW n \in Nat, NEW deps \in [1 .. n -> SUBSET (1 .. n)], NEW step \in [1 .. n -> StepStatus],
           GuardedSteps(step, deps), NEW i,
           NEW new \in {"completed", "skipped"},
           step[i] = "in_progress" \/ (new = "skipped" /\ step[i] \in {"pending", "ready"}),
           NEW after, after = ActivatedAfter(step, i, new, deps)
    PROVE  /\ after \in [1 .. n -> StepStatus]
           /\ GuardedSteps(after, deps)
           /\ \A j \in 1 .. n : step[j] \in {"completed", "failed", "skipped"} => after[j] = step[j]
<1> PICK middle : middle = [step EXCEPT ![i] = new]
    OBVIOUS
<1>1. middle \in [1 .. n -> StepStatus]
    BY DEF StepStatus
<1>2. ASSUME NEW j \in 1 .. n
      PROVE  middle[j] = IF j = i THEN new ELSE step[j]
    OBVIOUS
<1>3. after \in [1 .. n -> StepStatus]
      /\ \A j \in 1 .. n : after[j] = IF /\ middle[j] = "pending"
                                         /\ \A m \in deps[j] : middle[m] \in {"completed", "skipped"}
                                      THEN "ready" ELSE middle[j]
  <2>1. after = Activated(middle, deps)
      BY DEF ActivatedAfter
  <2> QED BY <1>1, <2>1 DEF Activated, Satisfied, StepStatus
<1>4. ASSUME NEW k \in 1 .. n
      PROVE  (\A j \in deps[k] : after[j] \in {"completed", "skipped"})
             <=> (\A j \in deps[k] : middle[j] \in {"completed", "skipped"})
    BY <1>3
<1>5. ASSUME NEW k \in 1 .. n, \A j \in deps[k] : step[j] \in {"completed", "skipped"}
      PROVE  \A j \in deps[k] : middle[j] \in {"completed", "skipped"}
    BY <1>2, <1>5
<1>6. GuardedSteps(after, deps)
  <2>1. DOMAIN after = 1 .. n /\ DOMAIN step = 1 .. n
      BY <1>3
  <2> SUFFICES ASSUME NEW k \in 1 .. n
               PROVE  /\ after[k] \in {"ready", "in_progress", "completed", "failed"} =>
                            \A j \in deps[k] : after[j] \in {"completed", "skipped"}
                      /\ after[k] = "pending" => ~ \A j \in deps[k] : after[j] \in {"completed", "skipped"}
      BY <2>1 DEF GuardedSteps
  <2>2. step[k] \in {"ready", "in_progress", "completed", "failed"} =>
             \A j \in deps[k] : step[j] \in {"completed", "skipped"}
      BY <2>1 DEF GuardedSteps
  <2>3. CASE /\ middle[k] = "pending"
             /\ \A m \in deps[k] : middle[m] \in {"completed", "skipped"}
      BY <2>3, <1>3, <1>4
  <2>4. CASE ~ (/\ middle[k] = "pending"
                /\ \A m \in deps[k] : middle[m] \in {"completed", "skipped"})
    <3>1. after[k] = middle[k]
        BY <2>4, <1>3
    <3>2. middle[k] \in {"ready", "in_progress", "completed", "failed"} =>
             step[k] \in {"ready", "in_progress", "completed", "failed"}
        BY <1>2
    <3> QED BY <2>2, <2>4, <3>1, <3>2, <1>4, <1>5
  <2> QED BY <2>3, <2>4
<1>7. ASSUME NEW j \in 1 .. n, step[j] \in {"completed", "failed", "skipped"}
      PROVE  after[j] = step[j]
    BY <1>2, <1>3, <1>7
<1> QED BY <1>3, <1>6, <1>7

(* A plan with another status and other statuses of its steps: what every     *)
(* call of the lifecycle service makes.                                       *)
With(p, status, step) == [p EXCEPT !.status = status, !.step = step]

(* It is a plan again, and its dependencies are the same.                    *)
LEMMA WithIsPlan ==
    ASSUME NEW p, p \in PlanType,
           NEW status, status \in {"draft", "ready", "in_progress", "completed", "failed", "cancelled"},
           NEW step, step \in [DOMAIN p.step -> StepStatus]
    PROVE  /\ With(p, status, step) \in PlanType
           /\ With(p, status, step).status = status
           /\ With(p, status, step).step = step
           /\ With(p, status, step).deps = p.deps
<1> PICK q : q = With(p, status, step)
    OBVIOUS
<1>1. PICK n \in 1 .. MaxSteps :
         p \in [status : {"draft", "ready", "in_progress", "completed", "failed", "cancelled"},
                deps : [1 .. n -> SUBSET (1 .. n)], tool : [1 .. n -> Tools \union {NoTool}],
                step : [1 .. n -> StepStatus]]
    BY DEF PlanType
<1>2. DOMAIN p.step = 1 .. n
    BY <1>1
<1>3. q.status = status /\ q.step = step /\ q.deps = p.deps
    BY <1>1 DEF With
<1>4. q \in [status : {"draft", "ready", "in_progress", "completed", "failed", "cancelled"},
             deps : [1 .. n -> SUBSET (1 .. n)], tool : [1 .. n -> Tools \union {NoTool}],
             step : [1 .. n -> StepStatus]]
    BY <1>1, <1>2 DEF With
<1> QED BY <1>3, <1>4 DEF PlanType

(* The parts of a plan.                                                      *)
LEMMA PlanParts ==
    ASSUME NEW p, p \in PlanType
    PROVE  \E n \in Nat \ {0} :
              /\ p.deps \in [1 .. n -> SUBSET (1 .. n)]
              /\ p.step \in [1 .. n -> StepStatus]
              /\ DOMAIN p.step = 1 .. n
              /\ p.status \in {"draft", "ready", "in_progress", "completed", "failed", "cancelled"}
<1>1. PICK n \in 1 .. MaxSteps :
         p \in [status : {"draft", "ready", "in_progress", "completed", "failed", "cancelled"},
                deps : [1 .. n -> SUBSET (1 .. n)], tool : [1 .. n -> Tools \union {NoTool}],
                step : [1 .. n -> StepStatus]]
    BY DEF PlanType
<1>2. n \in Nat \ {0}
    BY PlanningAssumption
<1> QED BY <1>1, <1>2

(* start_plan *)
LEMMA StartPlanKeeps ==
    ASSUME NEW p, SoundPlan(p), MayStartPlan(p)
    PROVE  SoundPlan(Started(p)) /\ KeepsFinished(p, Started(p))
<1> PICK q : q = Started(p)
    OBVIOUS
<1>1. PICK n \in Nat : p.step \in [1 .. n -> StepStatus] /\ DOMAIN p.step = 1 .. n
    BY PlanParts DEF SoundPlan
<1>2. q = With(p, "in_progress", p.step)
    BY DEF With, Started, SoundPlan, PlanType
<1>3. q \in PlanType /\ q.step = p.step /\ q.deps = p.deps
  <2>1. p \in PlanType /\ p.step \in [DOMAIN p.step -> StepStatus]
      BY <1>1 DEF SoundPlan
  <2> QED BY <1>1, <1>2, <2>1, WithIsPlan
<1>4. p.status \notin {"completed", "failed", "cancelled"}
    BY DEF MayStartPlan
<1> QED BY <1>3, <1>4 DEF SoundPlan, KeepsFinished

(* start_step *)
LEMMA StartStepKeeps ==
    ASSUME NEW p, SoundPlan(p), NEW i, MayStartStep(p, i)
    PROVE  SoundPlan(StepStarted(p, i)) /\ KeepsFinished(p, StepStarted(p, i))
<1> PICK q : q = StepStarted(p, i)
    OBVIOUS
<1>1. PICK n \in Nat : p.step \in [1 .. n -> StepStatus] /\ DOMAIN p.step = 1 .. n
                       /\ p.deps \in [1 .. n -> SUBSET (1 .. n)]
    BY PlanParts DEF SoundPlan
<1> PICK step : step = [p.step EXCEPT ![i] = "in_progress"]
    OBVIOUS
<1>2. p.step[i] = "ready" /\ p.status = "in_progress"
    BY DEF MayStartStep
<1>3. step \in [1 .. n -> StepStatus] /\ GuardedSteps(step, p.deps)
      /\ \A j \in 1 .. n : p.step[j] \in {"completed", "failed", "skipped"} => step[j] = p.step[j]
    BY <1>1, <1>2, StartedStepsGuarded DEF SoundPlan
<1>4. q = With(p, "in_progress", step)
    BY <1>2 DEF With, StepStarted, SoundPlan, PlanType
<1>5. q \in PlanType /\ q.step = step /\ q.deps = p.deps
  <2>1. p \in PlanType /\ step \in [DOMAIN p.step -> StepStatus]
      BY <1>1, <1>3 DEF SoundPlan
  <2> QED BY <1>1, <1>4, <2>1, WithIsPlan
<1> QED BY <1>1, <1>2, <1>3, <1>5 DEF SoundPlan, KeepsFinished

(* fail_step *)
LEMMA FailStepKeeps ==
    ASSUME NEW p, SoundPlan(p), NEW i, MayFinishStep(p, i)
    PROVE  SoundPlan(StepFailed(p, i)) /\ KeepsFinished(p, StepFailed(p, i))
<1> PICK q : q = StepFailed(p, i)
    OBVIOUS
<1>1. PICK n \in Nat : p.step \in [1 .. n -> StepStatus] /\ DOMAIN p.step = 1 .. n
                       /\ p.deps \in [1 .. n -> SUBSET (1 .. n)]
    BY PlanParts DEF SoundPlan
<1> PICK step : step = [p.step EXCEPT ![i] = "failed"]
    OBVIOUS
<1>2. p.step[i] = "in_progress" /\ p.status \notin {"completed", "failed", "cancelled"}
    BY DEF MayFinishStep, Terminal
<1>3. step \in [1 .. n -> StepStatus] /\ GuardedSteps(step, p.deps)
      /\ \A j \in 1 .. n : p.step[j] \in {"completed", "failed", "skipped"} => step[j] = p.step[j]
    BY <1>1, <1>2, StartedStepsGuarded DEF SoundPlan
<1>4. q = With(p, "failed", step)
    BY DEF With, StepFailed, SoundPlan, PlanType
<1>5. q \in PlanType /\ q.step = step /\ q.deps = p.deps
  <2>1. p \in PlanType /\ step \in [DOMAIN p.step -> StepStatus]
      BY <1>1, <1>3 DEF SoundPlan
  <2> QED BY <1>1, <1>4, <2>1, WithIsPlan
<1> QED BY <1>1, <1>2, <1>3, <1>5 DEF SoundPlan, KeepsFinished

(* complete_step *)
LEMMA CompleteStepKeeps ==
    ASSUME NEW p, SoundPlan(p), NEW i, MayFinishStep(p, i)
    PROVE  SoundPlan(StepCompleted(p, i)) /\ KeepsFinished(p, StepCompleted(p, i))
<1> PICK q : q = StepCompleted(p, i)
    OBVIOUS
<1>1. PICK n \in Nat : p.step \in [1 .. n -> StepStatus] /\ DOMAIN p.step = 1 .. n
                       /\ p.deps \in [1 .. n -> SUBSET (1 .. n)]
    BY PlanParts DEF SoundPlan
<1> PICK step : step = ActivatedAfter(p.step, i, "completed", p.deps)
    OBVIOUS
<1>2. p.step[i] = "in_progress" /\ p.status \notin {"completed", "failed", "cancelled"}
    BY DEF MayFinishStep, Terminal
<1>3. step \in [1 .. n -> StepStatus] /\ GuardedSteps(step, p.deps)
      /\ \A j \in 1 .. n : p.step[j] \in {"completed", "failed", "skipped"} => step[j] = p.step[j]
  <2>1. GuardedSteps(p.step, p.deps)
      BY DEF SoundPlan
  <2>2. PICK before \in [1 .. n -> StepStatus] : before = p.step
      BY <1>1
  <2>3. PICK deps \in [1 .. n -> SUBSET (1 .. n)] : deps = p.deps
      BY <1>1
  <2>4. step = ActivatedAfter(before, i, "completed", deps)
      BY <2>2, <2>3
  <2>5. GuardedSteps(before, deps) /\ before[i] = "in_progress"
      BY <1>2, <2>1, <2>2, <2>3
  <2>6. /\ step \in [1 .. n -> StepStatus] /\ GuardedSteps(step, deps)
        /\ \A j \in 1 .. n : before[j] \in {"completed", "failed", "skipped"} => step[j] = before[j]
      BY <2>4, <2>5, ActivationGuards
  <2> QED BY <2>2, <2>3, <2>6
<1>4. PICK status \in {"completed", "in_progress"} : q = With(p, status, step)
  <2>1. PICK status : status = IF AllFinished(step) THEN "completed" ELSE "in_progress"
      OBVIOUS
  <2>2. q = [p EXCEPT !.step = step, !.status = status]
      BY <2>1 DEF StepCompleted, ActivatedAfter
  <2>3. q = With(p, status, step)
      BY <2>2 DEF With, SoundPlan, PlanType
  <2> QED BY <2>1, <2>3
<1>5. q \in PlanType /\ q.step = step /\ q.deps = p.deps
  <2>1. p \in PlanType /\ step \in [DOMAIN p.step -> StepStatus]
      BY <1>1, <1>3 DEF SoundPlan
  <2> QED BY <1>1, <1>4, <2>1, WithIsPlan
<1> QED BY <1>1, <1>2, <1>3, <1>5 DEF SoundPlan, KeepsFinished

(* skip_step *)
LEMMA SkipStepKeeps ==
    ASSUME NEW p, SoundPlan(p), NEW i, MaySkipStep(p, i)
    PROVE  SoundPlan(StepSkipped(p, i)) /\ KeepsFinished(p, StepSkipped(p, i))
<1> PICK q : q = StepSkipped(p, i)
    OBVIOUS
<1>1. PICK n \in Nat : p.step \in [1 .. n -> StepStatus] /\ DOMAIN p.step = 1 .. n
                       /\ p.deps \in [1 .. n -> SUBSET (1 .. n)]
                       /\ p.status \in {"draft", "ready", "in_progress", "completed", "failed", "cancelled"}
    BY PlanParts DEF SoundPlan
<1> PICK step : step = ActivatedAfter(p.step, i, "skipped", p.deps)
    OBVIOUS
<1>2. p.step[i] \in {"pending", "ready"} /\ p.status \notin {"completed", "failed", "cancelled"}
    BY DEF MaySkipStep, Terminal
<1>3. step \in [1 .. n -> StepStatus] /\ GuardedSteps(step, p.deps)
      /\ \A j \in 1 .. n : p.step[j] \in {"completed", "failed", "skipped"} => step[j] = p.step[j]
  <2>1. GuardedSteps(p.step, p.deps)
      BY DEF SoundPlan
  <2> QED BY <1>1, <1>2, <2>1, ActivationGuards
<1>4. PICK status \in {"completed", p.status} : q = With(p, status, step)
    BY DEF With, ActivatedAfter, StepSkipped, SoundPlan, PlanType
<1>5. q \in PlanType /\ q.step = step /\ q.deps = p.deps
  <2>1. p \in PlanType /\ step \in [DOMAIN p.step -> StepStatus]
      BY <1>1, <1>3 DEF SoundPlan
  <2> QED BY <1>1, <1>4, <2>1, WithIsPlan
<1> QED BY <1>1, <1>2, <1>3, <1>5 DEF SoundPlan, KeepsFinished

(* cancel_plan skips what is not finished, and so leaves no step pending.     *)
LEMMA CancelPlanKeeps ==
    ASSUME NEW p, SoundPlan(p), MayCancelPlan(p)
    PROVE  SoundPlan(PlanCancelled(p)) /\ KeepsFinished(p, PlanCancelled(p))
<1> PICK q : q = PlanCancelled(p)
    OBVIOUS
<1>1. PICK n \in Nat : p.step \in [1 .. n -> StepStatus] /\ DOMAIN p.step = 1 .. n
                       /\ p.deps \in [1 .. n -> SUBSET (1 .. n)]
    BY PlanParts DEF SoundPlan
<1> PICK step : step = [i \in DOMAIN p.step |->
                           IF p.step[i] \in Active \union {"pending"} THEN "skipped" ELSE p.step[i]]
    OBVIOUS
<1>2. step \in [1 .. n -> StepStatus]
      /\ \A j \in 1 .. n : step[j] = IF p.step[j] \in {"ready", "in_progress", "pending"}
                                     THEN "skipped" ELSE p.step[j]
    BY <1>1 DEF Active, StepStatus
<1>3. GuardedSteps(step, p.deps)
  <2> SUFFICES ASSUME NEW k \in 1 .. n
               PROVE  /\ step[k] \in {"ready", "in_progress", "completed", "failed"} =>
                            \A j \in p.deps[k] : step[j] \in {"completed", "skipped"}
                      /\ step[k] = "pending" => ~ \A j \in p.deps[k] : step[j] \in {"completed", "skipped"}
      BY <1>2 DEF GuardedSteps
  <2>1. p.step[k] \in {"completed", "failed"} => \A j \in p.deps[k] : p.step[j] \in {"completed", "skipped"}
      BY <1>1 DEF SoundPlan, GuardedSteps
  <2>2. \A j \in p.deps[k] : p.step[j] \in {"completed", "skipped"} => step[j] \in {"completed", "skipped"}
      BY <1>1, <1>2
  <2> QED BY <1>2, <2>1, <2>2
<1>4. q = With(p, "cancelled", step)
    BY DEF With, PlanCancelled, SoundPlan, PlanType
<1>5. q \in PlanType /\ q.step = step /\ q.deps = p.deps
  <2>1. p \in PlanType /\ step \in [DOMAIN p.step -> StepStatus]
      BY <1>1, <1>2 DEF SoundPlan
  <2> QED BY <1>1, <1>4, <2>1, WithIsPlan
<1>6. p.status \notin {"completed", "failed", "cancelled"}
    BY DEF MayCancelPlan, Terminal
<1> QED BY <1>1, <1>2, <1>3, <1>5, <1>6 DEF SoundPlan, KeepsFinished

(* PlanFactory.create: the steps without dependencies are ready, the others   *)
(* wait.                                                                     *)
LEMMA MaterializedIsSound ==
    ASSUME NEW d \in Proposal
    PROVE  SoundPlan(Materialized(d)) /\ MayStartPlan(Materialized(d))
<1>1. PICK n \in 1 .. MaxSteps :
         d \in [deps : [1 .. n -> SUBSET (1 .. n)], tool : [1 .. n -> Tools \union {NoTool}]]
    BY DEF Proposal
<1> PICK step : step = [i \in DOMAIN d.deps |-> IF d.deps[i] = {} THEN "ready" ELSE "pending"]
    OBVIOUS
<1> PICK p : p = Materialized(d)
    OBVIOUS
<1>2. step \in [1 .. n -> StepStatus]
      /\ \A i \in 1 .. n : step[i] = IF d.deps[i] = {} THEN "ready" ELSE "pending"
    BY <1>1 DEF StepStatus
<1>3. p = [status |-> "draft", deps |-> d.deps, tool |-> d.tool, step |-> step]
    BY DEF Materialized
<1>4. p \in [status : {"draft", "ready", "in_progress", "completed", "failed", "cancelled"},
             deps : [1 .. n -> SUBSET (1 .. n)], tool : [1 .. n -> Tools \union {NoTool}],
             step : [1 .. n -> StepStatus]]
  <2>1. d.deps \in [1 .. n -> SUBSET (1 .. n)]
      BY <1>1
  <2>2. d.tool \in [1 .. n -> Tools \union {NoTool}]
      BY <1>1
  <2>3. step \in [1 .. n -> StepStatus]
      BY <1>2
  <2> QED BY <1>3, <2>1, <2>2, <2>3
<1>5. p \in PlanType
    BY <1>4 DEF PlanType
<1>6. GuardedSteps(step, d.deps)
  <2> SUFFICES ASSUME NEW k \in 1 .. n
               PROVE  /\ step[k] \in {"ready", "in_progress", "completed", "failed"} =>
                            \A j \in d.deps[k] : step[j] \in {"completed", "skipped"}
                      /\ step[k] = "pending" => ~ \A j \in d.deps[k] : step[j] \in {"completed", "skipped"}
      BY <1>2 DEF GuardedSteps
  <2>1. \A j \in d.deps[k] : step[j] \in {"ready", "pending"}
      BY <1>1, <1>2
  <2> QED BY <1>2, <2>1
<1>7. p.step = step /\ p.deps = d.deps /\ p.status = "draft"
    BY <1>3
<1> QED BY <1>5, <1>6, <1>7 DEF SoundPlan, MayStartPlan

(* Every call of the lifecycle service, whoever makes it.                    *)
Changes(p, q) ==
    \/ MayStartPlan(p) /\ q = Started(p)
    \/ MayCancelPlan(p) /\ q = PlanCancelled(p)
    \/ \E i \in DOMAIN p.step \union {Head(selected)} :
          \/ MayStartStep(p, i) /\ q = StepStarted(p, i)
          \/ MayFinishStep(p, i) /\ q = StepCompleted(p, i)
          \/ MayFinishStep(p, i) /\ q = StepFailed(p, i)
          \/ MaySkipStep(p, i) /\ q = StepSkipped(p, i)

(* It makes a sound plan of a sound plan and leaves what is finished alone    *)
(* (_require_active_plan).                                                    *)
LEMMA ChangesKeepPlan ==
    ASSUME NEW p, SoundPlan(p), NEW q, Changes(p, q)
    PROVE  SoundPlan(q) /\ KeepsFinished(p, q)
    BY StartPlanKeeps, CancelPlanKeeps, StartStepKeeps, CompleteStepKeeps, FailStepKeeps, SkipStepKeeps
       DEF Changes

(* A step of the agent or of a caller makes a plan, changes it with a call of *)
(* the lifecycle service, leaves it alone or, to replace it, drops it.        *)
LEMMA PlanSteps ==
    ASSUME PlanningInv, [Next]_vars
    PROVE  /\ PlanningInv'
           /\ plan # Nothing /\ plan' # Nothing => plan' = plan \/ (SoundPlan(plan) /\ Changes(plan, plan'))
<1> PICK held : held = {"caller", "running", "executing", "tool", "evaluating"}
    OBVIOUS
<1>1. CASE Propose
  <2>1. draft' \in Proposal
      BY <1>1 DEF Propose, Proposable
  <2>2. pc = "planning" /\ pc' = "proposed" /\ plan' = plan
      BY <1>1 DEF Propose
  <2> QED BY <2>1, <2>2 DEF PlanningInv
<1>2. CASE PlannerFails \/ RejectProposal \/ ToolRaises \/ Finish
  <2>1. pc' = "done" /\ plan' = plan
      BY <1>2 DEF PlannerFails, RejectProposal, ToolRaises, Finish, End
  <2>2. plan # Nothing => SoundPlan(plan)
      BY DEF PlanningInv
  <2> QED BY <2>1, <2>2 DEF PlanningInv
<1>3. CASE CreatePlan
  <2>1. pc = "proposed" /\ plan = Nothing /\ draft \in Proposal
      BY <1>3 DEF PlanningInv, CreatePlan
  <2> PICK created : created = Materialized(draft)
      OBVIOUS
  <2>2. SoundPlan(created) /\ SoundPlan(Started(created))
      BY <2>1, MaterializedIsSound, StartPlanKeeps
  <2>3. plan' \in {created, Started(created)} /\ pc' \in {"running", "caller"}
      BY <1>3 DEF CreatePlan
  <2>4. SoundPlan(plan')
      BY <2>2, <2>3
  <2> QED BY <2>1, <2>3, <2>4 DEF PlanningInv
<1>4. CASE CallRun \/ RunEnds \/ RunHitsCycleLimit \/ RunBlocked \/ BeginCycle \/ EndCycle
  <2>1. pc \in held /\ pc' \in held /\ plan' = plan
      BY <1>4 DEF CallRun, RunEnds, RunHitsCycleLimit, RunBlocked, BeginCycle, EndCycle, EndRun, MayCycle
  <2>2. SoundPlan(plan)
      BY <2>1 DEF PlanningInv
  <2> QED BY <2>1, <2>2 DEF PlanningInv
<1>5. CASE CallStartPlan \/ CallOnStep \/ CallCancelPlan
  <2>1. pc = "caller" /\ pc' = "caller" /\ Changes(plan, plan')
      BY <1>5 DEF CallStartPlan, CallOnStep, CallCancelPlan, Call, Changes
  <2>2. SoundPlan(plan)
      BY <2>1 DEF PlanningInv
  <2>3. SoundPlan(plan')
      BY <2>1, <2>2, ChangesKeepPlan
  <2> QED BY <2>1, <2>2, <2>3 DEF PlanningInv
<1>6. CASE ExecuteStep \/ ToolSucceeds \/ ToolFails
  <2>1. pc \in {"executing", "tool"}
      BY <1>6 DEF ExecuteStep, ToolSucceeds, ToolFails
  <2>2. SoundPlan(plan)
      BY <2>1 DEF PlanningInv
  <2>3. \/ pc' = "done" /\ plan' = plan
        \/ pc' \in {"tool", "executing"} /\ Changes(plan, plan')
      BY <1>6 DEF ExecuteStep, ToolSucceeds, ToolFails, Store, End, Changes
  <2>4. SoundPlan(plan')
      BY <2>2, <2>3, ChangesKeepPlan
  <2> QED BY <2>2, <2>3, <2>4 DEF PlanningInv
<1>7. CASE Replan
  <2>1. plan' = Nothing /\ pc' = "planning"
      BY <1>7 DEF Replan
  <2> QED BY <2>1 DEF PlanningInv
<1>8. CASE UNCHANGED vars
  <2>1. pc' = pc /\ plan' = plan /\ draft' = draft
      BY <1>8 DEF vars
  <2> QED BY <2>1 DEF PlanningInv
<1> QED BY <1>1, <1>2, <1>3, <1>4, <1>5, <1>6, <1>7, <1>8 DEF Next, CallerNext, AgentNext

(* The plan at hand is sound at every moment of the agent.                   *)
THEOREM PlanningInvariance == Spec => []PlanningInv
<1>1. Init => PlanningInv
    BY DEF Init, PlanningInv
<1>2. PlanningInv /\ [Next]_vars => PlanningInv'
    BY PlanSteps
<1> QED BY <1>1, <1>2, PTL DEF Spec

(* Of every proposal, whatever number of steps it has, the checks say exactly  *)
(* what they are for (_topological_order, _has_parallel_steps).               *)
THEOREM ChecksAreExact == Spec => []ProposalChecksExact
<1>1. ASSUME PlanningInv, pc = "proposed"
      PROVE  LET order == TopologicalOrder(draft.deps)
             IN  /\ (order = <<>>) <=> Cyclic(draft.deps)
                 /\ order # <<>> => /\ RunsInOrder(draft.deps, order)
                                   /\ HasParallelSteps(draft.deps) <=> CanRunTogether(draft.deps)
  <2>1. PICK n \in Nat \ {0} : draft.deps \in [1 .. n -> SUBSET (1 .. n)]
    <3>1. PICK n \in 1 .. MaxSteps : draft.deps \in [1 .. n -> SUBSET (1 .. n)]
        BY <1>1 DEF PlanningInv, Proposal
    <3>2. n \in Nat \ {0}
        BY PlanningAssumption
    <3> QED BY <3>1, <3>2
  <2> PICK deps \in [1 .. n -> SUBSET (1 .. n)] : deps = draft.deps
      BY <2>1
  <2>2. TopologicalOrder(deps) = <<>> <=> Cyclic(deps)
      BY OrderIsExact
  <2>3. TopologicalOrder(deps) # <<>> => RunsInOrder(deps, TopologicalOrder(deps))
      BY OrderIsExact
  <2>4. ~Cyclic(deps) => (HasParallelSteps(deps) <=> CanRunTogether(deps))
      BY ParallelIsExact
  <2> QED BY <2>2, <2>3, <2>4
<1>2. PlanningInv => ProposalChecksExact
    BY <1>1 DEF ProposalChecksExact
<1> QED BY <1>2, PlanningInvariance, PTL

(* Of any number of steps with any dependencies, no step is under way before  *)
(* everything it depends on is finished, and none is left behind              *)
(* (_activate_eligible_steps, start_step, skip_step).                         *)
THEOREM StepsAreGuarded == Spec => []DependenciesGuardSteps
<1>1. PlanningInv => DependenciesGuardSteps
    BY DEF PlanningInv, SoundPlan, GuardedSteps, DependenciesGuardSteps
<1> QED BY <1>1, PlanningInvariance, PTL

(* Whatever the runner, the tools and a caller do, a finished step keeps its  *)
(* status and a terminal plan never changes (_require_active_plan).           *)
THEOREM FinishedStepsStay == Spec => FinishedStays
<1>1. PlanningInv /\ [Next]_vars =>
         (plan # Nothing /\ plan' # Nothing =>
             /\ plan.status \in {"completed", "failed", "cancelled"} => plan' = plan
             /\ \A i \in DOMAIN plan.step :
                   plan.step[i] \in {"completed", "failed", "skipped"} => plan'.step[i] = plan.step[i])
  <2> SUFFICES ASSUME PlanningInv, [Next]_vars, plan # Nothing, plan' # Nothing
               PROVE  KeepsFinished(plan, plan')
      BY DEF KeepsFinished
  <2>1. plan' = plan \/ (SoundPlan(plan) /\ Changes(plan, plan'))
      BY PlanSteps
  <2>2. CASE plan' = plan
      BY <2>2 DEF KeepsFinished
  <2>3. CASE SoundPlan(plan) /\ Changes(plan, plan')
      BY <2>3, ChangesKeepPlan
  <2> QED BY <2>1, <2>2, <2>3
<1> QED BY <1>1, PlanningInvariance, PTL DEF Spec, FinishedStays

-----------------------------------------------------------------------------
(* The cycles of the planning loop                                          *)
-----------------------------------------------------------------------------

(* The steps of a plan that were completed.                                  *)
Completed(p) == {i \in DOMAIN p.step : p.step[i] = "completed"}

(* A plan that the loop runs: while it is in progress no step failed or was   *)
(* skipped, not all are finished, and only a current step is in progress.     *)
UnderWay(p, current) ==
    /\ TopologicalOrder(p.deps) # <<>>
    /\ p.status \in {"in_progress", "completed", "failed"}
    /\ p.status = "in_progress" =>
          /\ ~AllFinished(p.step)
          /\ \A i \in DOMAIN p.step : \/ p.step[i] \in {"pending", "ready", "completed"}
                                      \/ i \in current /\ p.step[i] = "in_progress"

(* Each cycle completes the steps that it selects, so there are at least as   *)
(* many completed steps as cycles.                                           *)
LoopInv ==
    /\ request \in Request
    /\ pc \in {"planning", "proposed"} => cycle = 0
    /\ driver = "loop" =>
          /\ pc # "caller"
          /\ pc = "running" =>
                UnderWay(plan, {}) /\ (plan.status = "in_progress" => cycle <= Cardinality(Completed(plan)))
          /\ pc \in {"executing", "tool"} =>
                /\ selected \in Seq(DOMAIN plan.step)
                /\ UnderWay(plan, IF pc = "tool" THEN {Head(selected)} ELSE {})
                /\ plan.status = "in_progress" => cycle <= Cardinality(Completed(plan)) + Len(selected)
          /\ pc = "tool" => selected # <<>> /\ plan.step[Head(selected)] = "in_progress"
          /\ pc = "evaluating" => run \in {"completed", "failed"} \/ request.maximum_cycles < Len(plan.deps)

(* There are as many completed steps as numbers up to some, and all steps are  *)
(* completed only if there are as many completed ones as steps.               *)
LEMMA CompletedCount ==
    ASSUME NEW p, p \in PlanType
    PROVE  /\ IsFiniteSet(Completed(p)) /\ Cardinality(Completed(p)) \in Nat
           /\ Cardinality(Completed(p)) <= Len(p.deps) /\ Len(p.deps) \in Nat
           /\ Cardinality(Completed(p)) = Len(p.deps) => Completed(p) = DOMAIN p.step
<1>1. PICK n \in Nat : /\ p.deps \in [1 .. n -> SUBSET (1 .. n)]
                       /\ p.step \in [1 .. n -> StepStatus]
                       /\ DOMAIN p.step = 1 .. n
    BY PlanParts
<1>2. Len(p.deps) = n
    BY <1>1
<1>3. IsFiniteSet(1 .. n) /\ Cardinality(1 .. n) = n
    BY FS_Interval
<1>4. Completed(p) \subseteq 1 .. n
    BY <1>1 DEF Completed
<1> QED BY <1>1, <1>2, <1>3, <1>4, FS_Subset, FS_CardinalityType

(* What the scheduler selects are steps of the plan, and it selects none only  *)
(* if it may not or if no step is ready (PlanScheduler.schedule).             *)
LEMMA SelectionFacts ==
    ASSUME NEW p, p \in PlanType, request \in Request
    PROVE  /\ Selection(p) \in Seq(DOMAIN p.step)
           /\ \/ Selection(p) # <<>>
              \/ p.status # "in_progress" \/ ~ValidPlan(p)
              \/ \E i \in DOMAIN p.step : p.step[i] = "in_progress"
              \/ \A i \in DOMAIN p.step : p.step[i] # "ready"
<1>1. PICK n \in Nat \ {0} : /\ p.deps \in [1 .. n -> SUBSET (1 .. n)]
                             /\ DOMAIN p.step = 1 .. n
    BY PlanParts
<1> DEFINE Stops == \/ p.status # "in_progress"
                    \/ ~ValidPlan(p)
                    \/ ~request.allow_active /\ \E i \in DOMAIN p.step : p.step[i] = "in_progress"
<1>2. CASE Stops
  <2>1. Selection(p) = <<>>
      BY <1>2 DEF Selection
  <2> QED BY <1>2, <2>1, EmptySeq
<1>3. CASE ~Stops
  <2> PICK ready : ready = {i \in 1 .. n : p.step[i] = "ready"}
      OBVIOUS
  <2> PICK order : order = TopologicalOrder(p.deps)
      OBVIOUS
  <2>1. order \in Seq(1 .. n) /\ Members(order) = 1 .. n
    <3> PICK deps \in [1 .. n -> SUBSET (1 .. n)] : deps = p.deps
        BY <1>1
    <3>1. order # <<>>
        BY <1>3 DEF ValidPlan
    <3>2. order \in Seq(1 .. n) /\ RunsInOrder(deps, order)
        BY <3>1, OrderIsExact
    <3>3. Steps(deps) = 1 .. n
        BY ListedFacts
    <3> QED BY <3>2, <3>3 DEF RunsInOrder, Members
  <2> PICK list : list = Kept(order, ready)
      OBVIOUS
  <2>2. list \in Seq(1 .. n) /\ Members(list) = ready
      BY <2>1, KeptFacts
  <2>3. Len(list) \in Nat /\ (list # <<>> => Len(list) > 0) /\ request.maximum_selected \in Nat \ {0}
      BY <2>2, PlanningAssumption
  <2>4. PICK most : most = IF Len(list) < request.maximum_selected THEN Len(list)
                           ELSE request.maximum_selected
      OBVIOUS
  <2>5. most \in 0 .. Len(list) /\ (list # <<>> => most > 0)
      BY <2>3, <2>4
  <2>6. Selection(p) = SubSeq(list, 1, most)
      BY <1>1, <1>3, <2>1, <2>2, <2>4 DEF Selection
  <2>7. SubSeq(list, 1, most) \in Seq(1 .. n) /\ Len(SubSeq(list, 1, most)) = most
      BY <2>2, <2>5, FirstFacts
  <2>8. ASSUME NEW i \in 1 .. n, p.step[i] = "ready" PROVE Selection(p) # <<>>
    <3>1. list # <<>>
        BY <2>2, <2>8 DEF Members
    <3> QED BY <2>5, <2>6, <2>7, <3>1
  <2> QED BY <1>1, <2>6, <2>7, <2>8
<1> QED BY <1>2, <1>3

(* Where no steps wait for each other and some are not completed, one that is  *)
(* not has all that it depends on.                                            *)
LEMMA SomeStepMayStart ==
    ASSUME NEW n \in Nat, NEW deps \in [1 .. n -> SUBSET (1 .. n)], ~Cyclic(deps),
           NEW step \in [1 .. n -> StepStatus], \E i \in 1 .. n : step[i] # "completed"
    PROVE  \E i \in 1 .. n : step[i] # "completed" /\ \A j \in deps[i] : step[j] = "completed"
<1> DEFINE done == {j \in 1 .. n : step[j] = "completed"}
<1>1. (1 .. n) \ done # {}
    OBVIOUS
<1>2. \E i \in (1 .. n) \ done : deps[i] \subseteq done
  <2> HIDE DEF done
  <2> QED BY <1>1, AcyclicHasReady
<1> QED BY <1>2

(* While a plan is in progress and none of its steps is, one is ready, and the *)
(* scheduler selects it (_activate_eligible_steps, PlanValidator.validate).   *)
LEMMA SomeStepIsSelected ==
    ASSUME NEW p, SoundPlan(p), request \in Request, UnderWay(p, {}), p.status = "in_progress"
    PROVE  Selection(p) # <<>>
<1>1. PICK n \in Nat \ {0} : /\ p.deps \in [1 .. n -> SUBSET (1 .. n)]
                             /\ p.step \in [1 .. n -> StepStatus]
                             /\ DOMAIN p.step = 1 .. n
    BY PlanParts DEF SoundPlan
<1>2. PICK deps \in [1 .. n -> SUBSET (1 .. n)] : deps = p.deps
    BY <1>1
<1>3. PICK step \in [1 .. n -> StepStatus] : step = p.step
    BY <1>1
<1>4. /\ \A i \in 1 .. n : step[i] \in {"pending", "ready", "completed"}
      /\ \E i \in 1 .. n : step[i] # "completed"
    BY <1>1, <1>3 DEF UnderWay, AllFinished, Satisfied
<1>5. /\ \A i \in 1 .. n : step[i] = "ready" => \A j \in deps[i] : step[j] \in {"completed", "skipped"}
      /\ \A i \in 1 .. n : step[i] = "pending" => ~ \A j \in deps[i] : step[j] \in {"completed", "skipped"}
    BY <1>1, <1>2, <1>3 DEF SoundPlan, GuardedSteps
<1>6. ValidPlan(p)
  <2>1. ASSUME NEW i \in 1 .. n PROVE StepStatusValid(p, i)
    <3>1. \A j \in deps[i] : j \in 1 .. n
        OBVIOUS
    <3> QED BY <1>2, <1>3, <1>4, <1>5, <3>1 DEF StepStatusValid, Satisfied, Active
  <2> QED BY <1>1, <2>1 DEF ValidPlan, PlanStatusValid, UnderWay, Terminal
<1>7. PICK i \in 1 .. n : step[i] = "ready"
  <2>1. ~Cyclic(deps)
      BY <1>2, OrderIsExact DEF UnderWay
  <2>2. PICK i \in 1 .. n : step[i] # "completed" /\ \A j \in deps[i] : step[j] = "completed"
      BY <1>4, <2>1, SomeStepMayStart
  <2> QED BY <1>4, <1>5, <2>2
<1>8. \A j \in DOMAIN p.step : p.step[j] # "in_progress"
    BY <1>1, <1>3, <1>4
<1> QED BY <1>1, <1>3, <1>6, <1>7, <1>8, SelectionFacts DEF SoundPlan

(* Starting a step makes it the one in progress (start_step).                *)
LEMMA StartedIsUnderWay ==
    ASSUME NEW p, SoundPlan(p), NEW i, UnderWay(p, {}), MayStartStep(p, i)
    PROVE  /\ UnderWay(StepStarted(p, i), {i}) /\ StepStarted(p, i).status = "in_progress"
           /\ DOMAIN StepStarted(p, i).step = DOMAIN p.step
           /\ i \in DOMAIN p.step => StepStarted(p, i).step[i] = "in_progress"
           /\ Completed(StepStarted(p, i)) = Completed(p)
<1>1. PICK n \in Nat \ {0} : /\ p.deps \in [1 .. n -> SUBSET (1 .. n)]
                             /\ p.step \in [1 .. n -> StepStatus]
                             /\ DOMAIN p.step = 1 .. n
    BY PlanParts DEF SoundPlan
<1>2. PICK q : q = StepStarted(p, i)
    OBVIOUS
<1>3. q.status = p.status /\ q.deps = p.deps /\ q.step = [p.step EXCEPT ![i] = "in_progress"]
    BY <1>2 DEF StepStarted, SoundPlan, PlanType
<1>4. p.status = "in_progress" /\ p.step[i] = "ready"
    BY DEF MayStartStep
<1>5. /\ DOMAIN q.step = 1 .. n
      /\ \A j \in 1 .. n : q.step[j] = IF j = i THEN "in_progress" ELSE p.step[j]
    BY <1>1, <1>3
<1>6. Completed(q) = Completed(p)
    BY <1>1, <1>4, <1>5 DEF Completed
<1>7. ~AllFinished(q.step)
  <2>1. PICK j \in 1 .. n : p.step[j] \notin Satisfied
      BY <1>1, <1>4 DEF UnderWay, AllFinished
  <2>2. q.step[j] \notin Satisfied
      BY <1>5, <2>1 DEF Satisfied
  <2> QED BY <1>5, <2>2 DEF AllFinished
<1>8. \A j \in 1 .. n : \/ q.step[j] \in {"pending", "ready", "completed"}
                        \/ j \in {i} /\ q.step[j] = "in_progress"
    BY <1>1, <1>4, <1>5 DEF UnderWay
<1>9. UnderWay(q, {i})
    BY <1>3, <1>5, <1>7, <1>8 DEF UnderWay
<1> QED BY <1>1, <1>2, <1>3, <1>4, <1>5, <1>6, <1>9

(* Completing it adds one to the completed steps, and the plan is completed    *)
(* with the last of them (complete_step).                                     *)
LEMMA CompletedIsUnderWay ==
    ASSUME NEW p, SoundPlan(p), NEW i \in DOMAIN p.step, UnderWay(p, {i}), p.status = "in_progress",
           p.step[i] = "in_progress"
    PROVE  /\ UnderWay(StepCompleted(p, i), {})
           /\ DOMAIN StepCompleted(p, i).step = DOMAIN p.step
           /\ Cardinality(Completed(StepCompleted(p, i))) = Cardinality(Completed(p)) + 1
<1>1. PICK n \in Nat \ {0} : /\ p.deps \in [1 .. n -> SUBSET (1 .. n)]
                             /\ p.step \in [1 .. n -> StepStatus]
                             /\ DOMAIN p.step = 1 .. n
    BY PlanParts DEF SoundPlan
<1>2. PICK q : q = StepCompleted(p, i)
    OBVIOUS
<1>3. PICK middle : middle = [p.step EXCEPT ![i] = "completed"]
    OBVIOUS
<1>4. /\ q.status = IF AllFinished(q.step) THEN "completed" ELSE "in_progress"
      /\ q.deps = p.deps /\ q.step = Activated(middle, p.deps)
    BY <1>2, <1>3 DEF StepCompleted, SoundPlan, PlanType
<1>5. /\ DOMAIN middle = 1 .. n
      /\ \A j \in 1 .. n : middle[j] = IF j = i THEN "completed" ELSE p.step[j]
    BY <1>1, <1>3
<1>6. DOMAIN q.step = 1 .. n
    BY <1>4, <1>5 DEF Activated
<1>7. \A j \in 1 .. n : q.step[j] = middle[j] \/ (middle[j] = "pending" /\ q.step[j] = "ready")
    BY <1>4, <1>5 DEF Activated
<1>8. \A j \in 1 .. n : q.step[j] = "completed" <=> j = i \/ p.step[j] = "completed"
    BY <1>5, <1>7
<1>9. Completed(q) = Completed(p) \union {i} /\ i \notin Completed(p)
    BY <1>1, <1>6, <1>8 DEF Completed
<1>10. Cardinality(Completed(q)) = Cardinality(Completed(p)) + 1
  <2>1. IsFiniteSet(Completed(p))
      BY CompletedCount DEF SoundPlan
  <2> QED BY <1>9, <2>1, FS_AddElement
<1>11. \A j \in 1 .. n : q.step[j] \in {"pending", "ready", "completed"}
    BY <1>1, <1>5, <1>7 DEF UnderWay
<1>12. UnderWay(q, {})
    BY <1>4, <1>6, <1>11 DEF UnderWay
<1> QED BY <1>1, <1>2, <1>6, <1>10, <1>12

(* The first plan is not finished: its steps are ready or pending             *)
(* (PlanFactory.create, start_plan).                                          *)
LEMMA CreatedIsUnderWay ==
    ASSUME NEW d \in Proposal, ProposalValid(d)
    PROVE  /\ UnderWay(Started(Materialized(d)), {})
           /\ Cardinality(Completed(Started(Materialized(d)))) = 0
<1>1. PICK n \in 1 .. MaxSteps :
         d \in [deps : [1 .. n -> SUBSET (1 .. n)], tool : [1 .. n -> Tools \union {NoTool}]]
    BY DEF Proposal
<1>2. n \in Nat \ {0}
    BY PlanningAssumption
<1>3. PICK p : p = Started(Materialized(d))
    OBVIOUS
<1>4. /\ p.status = "in_progress" /\ p.deps = d.deps
      /\ p.step = [i \in DOMAIN d.deps |-> IF d.deps[i] = {} THEN "ready" ELSE "pending"]
    BY <1>3 DEF Started, Materialized
<1>5. DOMAIN p.step = 1 .. n /\ \A i \in 1 .. n : p.step[i] \in {"ready", "pending"}
    BY <1>1, <1>4
<1>6. ~AllFinished(p.step)
  <2>1. 1 \in 1 .. n
      BY <1>2
  <2> QED BY <1>5, <2>1 DEF AllFinished, Satisfied
<1>7. TopologicalOrder(p.deps) # <<>>
    BY <1>4 DEF ProposalValid
<1>8. Completed(p) = {}
    BY <1>5 DEF Completed
<1> QED BY <1>3, <1>4, <1>5, <1>6, <1>7, <1>8, FS_EmptySet DEF UnderWay

(* A run of the loop ends completed or failed, or it has fewer cycles than    *)
(* steps: it is not blocked, because a step is ready, and as many cycles as    *)
(* steps complete them all (PlanRunner.run).                                  *)
LEMMA RunEndKeepsLoop ==
    ASSUME PlanningInv, LoopInv, driver = "loop", RunEnds \/ RunHitsCycleLimit \/ RunBlocked
    PROVE  LoopInv'
<1>1. /\ pc = "running" /\ pc' = "evaluating" /\ driver' = driver /\ request' = request /\ plan' = plan
      /\ cycle' = cycle
    BY DEF RunEnds, RunHitsCycleLimit, RunBlocked, MayCycle, EndRun
<1>2. /\ SoundPlan(plan) /\ request \in Request /\ UnderWay(plan, {})
      /\ plan.status = "in_progress" => cycle <= Cardinality(Completed(plan))
    BY <1>1 DEF PlanningInv, LoopInv
<1>3. run' \in {"completed", "failed"} \/ request.maximum_cycles < Len(plan.deps)
  <2>1. CASE RunEnds
      BY <1>2, <2>1 DEF RunEnds, EndRun, UnderWay, Terminal
  <2>2. CASE RunHitsCycleLimit
    <3>1. plan.status = "in_progress" /\ cycle = request.maximum_cycles
        BY <1>2, <2>2 DEF RunHitsCycleLimit, UnderWay, Terminal
    <3>2. Completed(plan) # DOMAIN plan.step
        BY <1>2, <3>1 DEF UnderWay, AllFinished, Satisfied, Completed
    <3>3. request.maximum_cycles \in Nat
        BY <1>2, PlanningAssumption
    <3>4. /\ Cardinality(Completed(plan)) \in Nat /\ Len(plan.deps) \in Nat
          /\ Cardinality(Completed(plan)) <= Len(plan.deps)
          /\ Cardinality(Completed(plan)) # Len(plan.deps)
        BY <1>2, <3>2, CompletedCount DEF SoundPlan
    <3> QED BY <1>2, <3>1, <3>3, <3>4
  <2>3. CASE RunBlocked
    <3>1. plan.status = "in_progress"
        BY <1>2, <2>3 DEF RunBlocked, MayCycle, UnderWay, Terminal
    <3> QED BY <1>2, <2>3, <3>1, SomeStepIsSelected DEF RunBlocked
  <2> QED BY <2>1, <2>2, <2>3
<1> QED BY <1>1, <1>2, <1>3 DEF LoopInv

(* A cycle selects steps, and ends when it has none left (execute_next).      *)
LEMMA CyclesKeepLoop ==
    ASSUME PlanningInv, LoopInv, driver = "loop", cycle \in Nat, BeginCycle \/ EndCycle
    PROVE  LoopInv'
<1>1. driver' = driver /\ request' = request /\ plan' = plan /\ request \in Request
    BY DEF BeginCycle, EndCycle, LoopInv
<1>2. SoundPlan(plan)
    BY DEF PlanningInv, BeginCycle, EndCycle, MayCycle
<1>3. Cardinality(Completed(plan)) \in Nat
    BY <1>2, CompletedCount DEF SoundPlan
<1>4. CASE BeginCycle
  <2>1. /\ pc = "running" /\ pc' = "executing" /\ cycle' = cycle + 1
        /\ selected' = Selection(plan) /\ Selection(plan) # <<>>
      BY <1>4 DEF BeginCycle, MayCycle
  <2>2. Selection(plan) \in Seq(DOMAIN plan.step)
      BY <1>1, <1>2, SelectionFacts DEF SoundPlan
  <2>3. Len(Selection(plan)) \in Nat /\ Len(Selection(plan)) > 0
      BY <2>1, <2>2
  <2>4. UnderWay(plan, {}) /\ (plan.status = "in_progress" => cycle <= Cardinality(Completed(plan)))
      BY <2>1 DEF LoopInv
  <2>5. plan.status = "in_progress" => cycle + 1 <= Cardinality(Completed(plan)) + Len(Selection(plan))
      BY <1>3, <2>3, <2>4
  <2> QED BY <1>1, <2>1, <2>2, <2>4, <2>5 DEF LoopInv
<1>5. CASE EndCycle
  <2>1. pc = "executing" /\ pc' = "running" /\ selected = <<>> /\ cycle' = cycle
      BY <1>5 DEF EndCycle
  <2>2. /\ UnderWay(plan, {})
        /\ plan.status = "in_progress" => cycle <= Cardinality(Completed(plan)) + Len(selected)
      BY <2>1 DEF LoopInv
  <2>3. Cardinality(Completed(plan)) + Len(selected) = Cardinality(Completed(plan))
      BY <1>3, <2>1
  <2>4. plan.status = "in_progress" => cycle <= Cardinality(Completed(plan))
      BY <2>2, <2>3
  <2> QED BY <1>1, <2>1, <2>2, <2>4 DEF LoopInv
<1> QED BY <1>4, <1>5

(* The first of the selected steps is started, and its tool completes or fails *)
(* it (PlanExecutionService.execute_next).                                    *)
LEMMA ExecutionKeepsLoop ==
    ASSUME PlanningInv, LoopInv, driver = "loop", cycle \in Nat, ExecuteStep \/ ToolSucceeds \/ ToolFails
    PROVE  LoopInv'
<1>1. request' = request /\ driver' = driver /\ request \in Request
    BY DEF ExecuteStep, ToolSucceeds, ToolFails, Store, End, LoopInv
<1>2. SoundPlan(plan) /\ selected \in Seq(DOMAIN plan.step) /\ selected # <<>>
    BY DEF PlanningInv, LoopInv, ExecuteStep, ToolSucceeds, ToolFails
<1>3. PICK i \in DOMAIN plan.step : i = Head(selected)
    BY <1>2
<1>4. Tail(selected) \in Seq(DOMAIN plan.step) /\ Len(selected) = Len(Tail(selected)) + 1
      /\ Len(Tail(selected)) \in Nat
    BY <1>2
<1>5. CASE pc' = "done"
    BY <1>1, <1>5 DEF LoopInv
<1>6. Cardinality(Completed(plan)) \in Nat
    BY <1>2, CompletedCount DEF SoundPlan
<1>7. CASE ExecuteStep /\ pc' # "done"
  <2>1. /\ pc = "executing" /\ MayStartStep(plan, i) /\ plan' = StepStarted(plan, i) /\ pc' = "tool"
        /\ selected' = selected /\ cycle' = cycle
      BY <1>3, <1>7 DEF ExecuteStep, Store, End
  <2>2. /\ UnderWay(plan, {})
        /\ plan.status = "in_progress" => cycle <= Cardinality(Completed(plan)) + Len(selected)
      BY <2>1 DEF LoopInv
  <2>3. plan.status = "in_progress"
      BY <2>1 DEF MayStartStep
  <2>4. /\ UnderWay(plan', {i}) /\ DOMAIN plan'.step = DOMAIN plan.step
        /\ plan'.step[i] = "in_progress" /\ Completed(plan') = Completed(plan)
      BY <1>2, <2>1, <2>2, StartedIsUnderWay
  <2>5. cycle <= Cardinality(Completed(plan')) + Len(selected)
      BY <2>2, <2>3, <2>4
  <2> QED BY <1>1, <1>2, <1>3, <2>1, <2>4, <2>5 DEF LoopInv
<1>8. CASE ToolSucceeds /\ pc' # "done"
  <2>1. /\ pc = "tool" /\ MayFinishStep(plan, i) /\ plan' = StepCompleted(plan, i) /\ pc' = "executing"
        /\ selected' = (IF plan'.status = "failed" THEN <<>> ELSE Tail(selected)) /\ cycle' = cycle
      BY <1>3, <1>8 DEF ToolSucceeds, Store, End
  <2>2. /\ UnderWay(plan, {i}) /\ plan.step[i] = "in_progress"
        /\ plan.status = "in_progress" => cycle <= Cardinality(Completed(plan)) + Len(selected)
      BY <1>3, <2>1 DEF LoopInv
  <2>3. plan.status = "in_progress"
      BY <2>1, <2>2 DEF MayFinishStep, UnderWay, Terminal
  <2>4. /\ UnderWay(plan', {}) /\ DOMAIN plan'.step = DOMAIN plan.step
        /\ Cardinality(Completed(plan')) = Cardinality(Completed(plan)) + 1
      BY <1>2, <2>1, <2>2, <2>3, CompletedIsUnderWay
  <2>5. plan'.status # "failed"
      BY <2>1 DEF StepCompleted, SoundPlan, PlanType
  <2>6. selected' = Tail(selected)
      BY <2>1, <2>5
  <2>7. cycle <= Cardinality(Completed(plan')) + Len(Tail(selected))
      BY <1>4, <1>6, <2>2, <2>3, <2>4
  <2> QED BY <1>1, <1>4, <2>1, <2>4, <2>6, <2>7 DEF LoopInv
<1>9. CASE ToolFails /\ pc' # "done"
  <2>1. /\ pc = "tool" /\ plan' = StepFailed(plan, i) /\ pc' = "executing"
        /\ selected' = (IF plan'.status = "failed" THEN <<>> ELSE Tail(selected)) /\ cycle' = cycle
      BY <1>3, <1>9 DEF ToolFails, Store, End
  <2>2. plan'.status = "failed" /\ plan'.deps = plan.deps
      BY <1>2, <2>1 DEF StepFailed, SoundPlan, PlanType
  <2>3. TopologicalOrder(plan.deps) # <<>>
      BY <2>1 DEF LoopInv, UnderWay
  <2>4. UnderWay(plan', {})
      BY <2>2, <2>3 DEF UnderWay
  <2>5. selected' \in Seq(DOMAIN plan'.step)
      BY <2>1, <2>2, EmptySeq
  <2> QED BY <1>1, <2>1, <2>2, <2>4, <2>5 DEF LoopInv
<1> QED BY <1>5, <1>7, <1>8, <1>9

(* Every step of the loop, and any of a caller, keeps the invariant.         *)
LEMMA LoopSteps ==
    ASSUME PlanningInv, LoopInv, cycle \in Nat, [Next]_vars
    PROVE  LoopInv' /\ cycle' \in Nat
<1>1. cycle' \in Nat
  <2>1. cycle' \in {cycle, cycle + 1, 0}
    <3>1. CASE CallerNext
        BY <3>1 DEF CallerNext, CallStartPlan, CallOnStep, CallCancelPlan, CallRun, Call
    <3>2. CASE Propose \/ PlannerFails \/ CreatePlan \/ RejectProposal
        BY <3>2 DEF Propose, PlannerFails, CreatePlan, RejectProposal
    <3>3. CASE RunEnds \/ RunHitsCycleLimit \/ RunBlocked \/ BeginCycle \/ EndCycle
        BY <3>3 DEF RunEnds, RunHitsCycleLimit, RunBlocked, EndRun, BeginCycle, EndCycle
    <3>4. CASE ExecuteStep \/ ToolSucceeds \/ ToolFails \/ ToolRaises
        BY <3>4 DEF ExecuteStep, ToolSucceeds, ToolFails, ToolRaises, Store
    <3>5. CASE Finish \/ Replan \/ UNCHANGED vars
        BY <3>5 DEF Finish, Replan, vars
    <3> QED BY <3>1, <3>2, <3>3, <3>4, <3>5 DEF Next, AgentNext
  <2> QED BY <2>1
<1>2. CASE Propose
    BY <1>1, <1>2 DEF Propose, LoopInv
<1>3. CASE PlannerFails \/ RejectProposal \/ ToolRaises \/ Finish
  <2>1. pc' = "done" /\ request' = request
      BY <1>3 DEF PlannerFails, RejectProposal, ToolRaises, Finish, End
  <2> QED BY <1>1, <2>1 DEF LoopInv
<1>4. CASE CreatePlan
  <2>1. /\ pc = "proposed" /\ draft \in Proposal /\ ProposalValid(draft) /\ request' = request
        /\ driver' = driver /\ cycle' = cycle
      BY <1>4 DEF PlanningInv, CreatePlan
  <2>2. cycle' = 0 /\ request' \in Request
      BY <2>1 DEF LoopInv
  <2>3. CASE driver = "loop"
    <3>1. plan' = Started(Materialized(draft)) /\ pc' = "running"
        BY <1>4, <2>3 DEF CreatePlan
    <3>2. UnderWay(plan', {}) /\ Cardinality(Completed(plan')) = 0
        BY <2>1, <3>1, CreatedIsUnderWay
    <3> QED BY <1>1, <2>1, <2>2, <3>1, <3>2 DEF LoopInv
  <2>4. CASE driver # "loop"
    <3>1. pc' = "caller"
        BY <1>4, <2>4 DEF CreatePlan
    <3> QED BY <1>1, <2>1, <2>2, <2>4, <3>1 DEF LoopInv
  <2> QED BY <2>3, <2>4
<1>5. CASE CallerNext
  <2>1. pc = "caller" /\ pc' \in {"caller", "running"} /\ request' = request /\ driver' = driver
      BY <1>5 DEF CallerNext, CallStartPlan, CallOnStep, CallCancelPlan, CallRun, Call
  <2>2. driver # "loop"
      BY <2>1 DEF LoopInv
  <2> QED BY <1>1, <2>1, <2>2 DEF LoopInv
<1>6. CASE Replan
  <2>1. pc' = "planning" /\ cycle' = 0 /\ request' = request
      BY <1>6 DEF Replan
  <2> QED BY <1>1, <2>1 DEF LoopInv
<1>7. CASE /\ driver # "loop"
               /\ \/ RunEnds \/ RunHitsCycleLimit \/ RunBlocked \/ BeginCycle \/ EndCycle
                  \/ ExecuteStep \/ ToolSucceeds \/ ToolFails
  <2>1. /\ pc' \notin {"planning", "proposed"} /\ request' = request /\ driver' = driver
      BY <1>7 DEF RunEnds, RunHitsCycleLimit, RunBlocked, EndRun, BeginCycle, EndCycle,
                  ExecuteStep, ToolSucceeds, ToolFails, Store, End
  <2>2. request \in Request
      BY DEF LoopInv
  <2>3. driver # "loop"
      BY <1>7
  <2>4. /\ request' \in Request /\ driver' # "loop" /\ cycle' \in Nat
        /\ pc' \notin {"planning", "proposed"}
      BY <1>1, <2>1, <2>2, <2>3
  <2> QED BY <2>4 DEF LoopInv
<1>8. CASE driver = "loop" /\ (RunEnds \/ RunHitsCycleLimit \/ RunBlocked)
    BY <1>1, <1>8, RunEndKeepsLoop
<1>9. CASE driver = "loop" /\ (BeginCycle \/ EndCycle)
    BY <1>1, <1>9, CyclesKeepLoop
<1>10. CASE driver = "loop" /\ (ExecuteStep \/ ToolSucceeds \/ ToolFails)
    BY <1>1, <1>10, ExecutionKeepsLoop
<1>11. CASE UNCHANGED vars
  <2>1. /\ request' = request /\ driver' = driver /\ pc' = pc /\ plan' = plan /\ cycle' = cycle
        /\ selected' = selected /\ run' = run
      BY <1>11 DEF vars
  <2> QED BY <1>1, <2>1 DEF LoopInv, UnderWay, Completed
<1> QED BY <1>1, <1>2, <1>3, <1>4, <1>5, <1>6, <1>7, <1>8, <1>9, <1>10, <1>11 DEF Next, AgentNext

(* The invariant of the loop, and that it counts its cycles.                   *)
CountedLoop == cycle \in Nat /\ LoopInv

(* With at least as many cycles as steps the loop's run of a plan ends it,     *)
(* whatever its dependencies and however many steps a cycle may select:        *)
(* it is neither blocked nor stopped at the limit (PlanRunner.run).           *)
THEOREM EnoughCyclesSuffice == Spec => []EnoughCyclesFinish
<1>1. Init => CountedLoop
    BY DEF Init, LoopInv, CountedLoop
<1>2. PlanningInv /\ CountedLoop /\ [Next]_vars => CountedLoop'
    BY LoopSteps DEF CountedLoop
<1>3. PlanningInv /\ CountedLoop => EnoughCyclesFinish
  <2> SUFFICES ASSUME PlanningInv, LoopInv, pc = "evaluating", driver = "loop",
                      request.maximum_cycles >= Len(plan.deps)
               PROVE  run \in {"completed", "failed"}
      BY DEF EnoughCyclesFinish, CountedLoop
  <2>1. run \in {"completed", "failed"} \/ request.maximum_cycles < Len(plan.deps)
      BY DEF LoopInv
  <2>2. Len(plan.deps) \in Nat /\ request.maximum_cycles \in Nat
      BY CompletedCount, PlanningAssumption DEF PlanningInv, SoundPlan, LoopInv
  <2> QED BY <2>1, <2>2
<1> QED BY <1>1, <1>2, <1>3, PlanningInvariance, PTL DEF Spec

-----------------------------------------------------------------------------
(* The result files of the research pipeline                                *)

FileNames == {"report.md", "result.json"}

(* The phases before the writer, where no file exists yet.                   *)
BeforeWriting ==
    {"plan", "search", "read", "select", "select_novel", "select_merged", "build", "verify", "cover",
     "assemble", "write"}

FilesType ==
    /\ files = [directory |-> files.directory, step |-> files.step, temps |-> files.temps,
                installed |-> files.installed, left |-> files.left, cleaning |-> files.cleaning]
    /\ files.step \in 0 .. 4
    /\ files.installed \subseteq FileNames

(* While it stores, the writer has installed the files in order: the report   *)
(* after step 3, the result after step 4.                                     *)
FilesInv ==
    /\ FilesType
    /\ phase \in BeforeWriting => files.step = 0 /\ files.installed = {}
    /\ phase = "store" =>
          files.installed = CASE files.step \in {0, 1, 2} -> {}
                              [] files.step = 3 -> {"report.md"}
                              [] files.step = 4 -> {"report.md", "result.json"}
    /\ phase \in {"cleanup", "unlink"} => files.cleaning
    /\ ResultNeverAlone

(* The stages of run keep away from the execution directory                  *)
(* (SingleResearchAgentPipeline.run).                                         *)
LEMMA StagesWriteNothing ==
    ASSUME \/ PlanQueries \/ SearchQuery \/ SearchBlocked
           \/ InitialSearchEnds \/ SupplementalSearchEnds \/ CoverageSearchEnds
           \/ ReadInitial \/ ReadSupplemental \/ ReadCoverage
           \/ SelectInitial \/ SelectSupplemental \/ SelectNovel \/ SelectMerged
           \/ NoEvidenceFound \/ BuildFirst \/ BuildIncremental \/ BuildAgain
           \/ VerifyClaims \/ EvaluateCoverage \/ CompareCoverage
           \/ Assemble \/ ComponentRaises
    PROVE  phase \in BeforeWriting /\ phase' \in BeforeWriting \union {"failed", "invalid"} /\ files' = files
<1>1. CASE PlanQueries \/ SearchQuery \/ SearchBlocked \/ InitialSearchEnds
    BY <1>1 DEF BeforeWriting, PlanQueries, SearchQuery, SearchBlocked, Searched, InitialSearchEnds
<1>2. CASE SupplementalSearchEnds \/ CoverageSearchEnds
    BY <1>2 DEF BeforeWriting, SupplementalSearchEnds, CoverageSearchEnds, GapSearchEnds, Searched
<1>3. CASE ReadInitial \/ ReadSupplemental \/ ReadCoverage
    BY <1>3 DEF BeforeWriting, ReadInitial, ReadSupplemental, ReadCoverage, Read
<1>4. CASE SelectInitial
    BY <1>4 DEF BeforeWriting, SelectInitial
<1>5. CASE SelectSupplemental \/ SelectNovel
    BY <1>5 DEF BeforeWriting, SelectSupplemental, SelectNovel
<1>6. CASE SelectMerged
  <2>1. phase = "select_merged" /\ phase' \in {"assemble", "build", "invalid"} /\ files' = files
      BY <1>6, Zenon DEF SelectMerged
  <2> QED BY <2>1 DEF BeforeWriting
<1>7. CASE NoEvidenceFound
    BY <1>7 DEF BeforeWriting, NoEvidenceFound
<1>8. CASE BuildFirst \/ BuildIncremental \/ BuildAgain
  <2>1. phase = "build" /\ phase' \in {"verify", "invalid"} /\ files' = files
      BY <1>8, Zenon DEF BuildFirst, BuildIncremental, BuildAgain, Builds
  <2> QED BY <2>1 DEF BeforeWriting
<1>9. CASE VerifyClaims
    BY <1>9, Zenon DEF BeforeWriting, VerifyClaims
<1>10. CASE EvaluateCoverage \/ CompareCoverage
    BY <1>10 DEF BeforeWriting, EvaluateCoverage, CompareCoverage
<1>11. CASE Assemble \/ ComponentRaises
    BY <1>11 DEF BeforeWriting, Assemble, ComponentRaises
<1> QED BY <1>1, <1>2, <1>3, <1>4, <1>5, <1>6, <1>7, <1>8, <1>9, <1>10, <1>11

(* make_directory and the two temporary files: nothing is installed yet.      *)
LEMMA PreparationKeepsInv ==
    ASSUME FilesInv, MakeDirectory \/ PrepareTempFile
    PROVE  FilesInv'
<1>1. CASE MakeDirectory
  <2>1. phase \in BeforeWriting
      BY <1>1 DEF MakeDirectory, BeforeWriting
  <2>2. files.step = 0 /\ files.installed = {} /\ FilesType
      BY <2>1 DEF FilesInv
  <2>3. PICK made : files' = [files EXCEPT !.directory = made]
      BY <1>1 DEF MakeDirectory
  <2>4. FilesType' /\ files'.step = 0 /\ files'.installed = {}
      BY <2>2, <2>3 DEF FilesType
  <2>5. phase' \in {"store", "failed"}
      BY <1>1 DEF MakeDirectory
  <2> QED BY <2>4, <2>5 DEF FilesInv, ResultNeverAlone, BeforeWriting
<1>2. CASE PrepareTempFile
  <2>1. phase = "store" /\ phase' = "store" /\ files.step \in {0, 1} /\ FilesType
      BY <1>2 DEF PrepareTempFile, FilesInv
  <2>2. files.installed = {}
      BY <2>1 DEF FilesInv
  <2>3. FilesType' /\ files'.step = files.step + 1 /\ files'.installed = files.installed
    <3>1. PICK temps : files' = [files EXCEPT !.temps = temps, !.step = @ + 1]
        BY <1>2 DEF PrepareTempFile
    <3> PICK step : step = files.step + 1
        OBVIOUS
    <3>2. files' = [directory |-> files.directory, step |-> step, temps |-> temps,
                    installed |-> files.installed, left |-> files.left, cleaning |-> files.cleaning]
        BY <2>1, <3>1 DEF FilesType
    <3>3. step \in 0 .. 4 /\ step = files.step + 1
        BY <2>1
    <3> QED BY <2>1, <3>2, <3>3 DEF FilesType
  <2> QED BY <2>1, <2>2, <2>3 DEF FilesInv, ResultNeverAlone, BeforeWriting
<1> QED BY <1>1, <1>2

(* The report is renamed to its place first, the result second               *)
(* (ResearchResultWriter).                                                    *)
LEMMA InstallKeepsInv ==
    ASSUME FilesInv, InstallArtifact
    PROVE  FilesInv'
<1>1. phase = "store" /\ phase' = "store" /\ files.step \in {2, 3} /\ FilesType
    BY DEF InstallArtifact, FilesInv
<1> PICK target : target = Artifacts[files.step - 1]
    OBVIOUS
<1>2. /\ files.step = 2 => target = "report.md" /\ files.installed = {}
      /\ files.step = 3 => target = "result.json" /\ files.installed = {"report.md"}
    BY <1>1 DEF Artifacts, FilesInv
<1>3. /\ files'.step = files.step + 1
      /\ files'.installed = files.installed \cup {target}
      /\ files' = [directory |-> files'.directory, step |-> files'.step, temps |-> files'.temps,
                   installed |-> files'.installed, left |-> files'.left, cleaning |-> files'.cleaning]
    BY <1>1 DEF InstallArtifact, FilesType
<1>4. /\ files'.step = 3 => files'.installed = {"report.md"}
      /\ files'.step = 4 => files'.installed = {"report.md", "result.json"}
      /\ files'.step \in {3, 4}
    BY <1>1, <1>2, <1>3
<1>5. FilesType'
    BY <1>3, <1>4 DEF FilesType, FileNames
<1> QED BY <1>1, <1>4, <1>5 DEF FilesInv, ResultNeverAlone, BeforeWriting

(* A failed write is marked as such before anything is taken away             *)
(* (_cleanup_failed_write).                                                   *)
LEMMA CleanupKeepsInv ==
    ASSUME FilesInv, WriteFails \/ UnlinkTemps \/ UnlinkInstalled \/ RemoveDirectory
    PROVE  FilesInv'
<1>1. FilesType /\ phase' \in {"cleanup", "unlink", "failed"}
    BY DEF FilesInv, WriteFails, UnlinkTemps, UnlinkInstalled, RemoveDirectory
<1>2. FilesType' /\ files'.cleaning
  <2>1. CASE WriteFails
    <3>1. PICK left : files' = [files EXCEPT !.cleaning = TRUE, !.left = left]
        BY <2>1, Zenon DEF WriteFails
    <3> QED BY <1>1, <3>1 DEF FilesType
  <2>2. CASE UnlinkTemps
    <3>1. PICK kept : files' = [files EXCEPT !.temps = kept]
        BY <2>2 DEF UnlinkTemps
    <3>2. files.cleaning
        BY <2>2 DEF UnlinkTemps, FilesInv
    <3> QED BY <1>1, <3>1, <3>2 DEF FilesType
  <2>3. CASE UnlinkInstalled
    <3>1. PICK removed, left : files' = [files EXCEPT !.installed = @ \ removed, !.left = left]
        BY <2>3 DEF UnlinkInstalled
    <3>2. files.cleaning
        BY <2>3 DEF UnlinkInstalled, FilesInv
    <3> QED BY <1>1, <3>1, <3>2 DEF FilesType
  <2>4. CASE RemoveDirectory
    <3>1. PICK kept : files' = [files EXCEPT !.directory = kept]
        BY <2>4 DEF RemoveDirectory
    <3>2. files.cleaning
        BY <2>4 DEF RemoveDirectory, FilesInv
    <3> QED BY <1>1, <3>1, <3>2 DEF FilesType
  <2> QED BY <2>1, <2>2, <2>3, <2>4
<1> QED BY <1>1, <1>2 DEF FilesInv, ResultNeverAlone, BeforeWriting

(* Wherever the run fails or the process stops, a result.json has its         *)
(* report.md beside it unless a cleanup is taking both away                   *)
(* (ResearchResultWriter).                                                    *)
THEOREM ResultsHaveReports == PipelineSpec => []ResultNeverAlone
<1>1. PipelineInit => FilesInv
    BY DEF PipelineInit, NoFiles, FilesInv, FilesType, ResultNeverAlone, BeforeWriting
<1>2. FilesInv /\ [PipelineNext]_pipelineVars => FilesInv'
  <2> SUFFICES ASSUME FilesInv, [PipelineNext]_pipelineVars PROVE FilesInv'
      OBVIOUS
  <2>1. CASE \/ PlanQueries \/ SearchQuery \/ SearchBlocked
             \/ InitialSearchEnds \/ SupplementalSearchEnds \/ CoverageSearchEnds
             \/ ReadInitial \/ ReadSupplemental \/ ReadCoverage
             \/ SelectInitial \/ SelectSupplemental \/ SelectNovel \/ SelectMerged
             \/ NoEvidenceFound \/ BuildFirst \/ BuildIncremental \/ BuildAgain
             \/ VerifyClaims \/ EvaluateCoverage \/ CompareCoverage
             \/ Assemble \/ ComponentRaises
    <3>1. phase \in BeforeWriting /\ phase' \in BeforeWriting \union {"failed", "invalid"} /\ files' = files
        BY <2>1, StagesWriteNothing
    <3> QED BY <3>1 DEF FilesInv, FilesType, ResultNeverAlone, BeforeWriting
  <2>2. CASE MakeDirectory \/ PrepareTempFile
      BY <2>2, PreparationKeepsInv
  <2>3. CASE InstallArtifact
      BY <2>3, InstallKeepsInv
  <2>4. CASE WriteFails \/ UnlinkTemps \/ UnlinkInstalled \/ RemoveDirectory
      BY <2>4, CleanupKeepsInv
  <2>5. CASE SyncDirectory \/ ProcessStops
    <3>1. phase' \in {"done", "stopped"} /\ files' = files
        BY <2>5 DEF SyncDirectory, ProcessStops
    <3> QED BY <3>1 DEF FilesInv, FilesType, ResultNeverAlone, BeforeWriting
  <2>6. CASE UNCHANGED pipelineVars
    <3>1. phase' = phase /\ files' = files
        BY <2>6 DEF pipelineVars
    <3> QED BY <3>1 DEF FilesInv, FilesType, ResultNeverAlone
  <2> QED BY <2>1, <2>2, <2>3, <2>4, <2>5, <2>6 DEF PipelineNext
<1>3. FilesInv => ResultNeverAlone
    BY DEF FilesInv
<1> QED BY <1>1, <1>2, <1>3, PTL DEF PipelineSpec

-----------------------------------------------------------------------------
(* The answer of the research pipeline                                      *)
-----------------------------------------------------------------------------

AllQueries == Range(InitialQueries) \cup {"supplemental", "coverage"}
Candidate == [query : AllQueries, url : Url]
Document == [query : AllQueries, url : Url, ok : BOOLEAN]
CandidateOf(d) == [query |-> d.query, url |-> d.url]

Items(ds) == [document : ds, item : Nat]
Sources(evidence) == {e.document : e \in Members(evidence)}

(* What a selection among ds is: documents of different pages, not too many,  *)
(* and for each of them, and only for them, evidence, none of it twice.       *)
SoundSelection(chosen, evidence, ds) ==
    /\ chosen \in Seq(ds) /\ evidence \in Seq(Items(ds))
    /\ \A i, j \in 1 .. Len(chosen) : chosen[i].url = chosen[j].url => i = j
    /\ Len(chosen) <= MaximumSources
    /\ Distinct(evidence) /\ Sources(evidence) = Members(chosen)

IsAnswer(a) ==
    a = [documents |-> a.documents, evidence |-> a.evidence, evaluated |-> a.evaluated,
         claimSet |-> a.claimSet, verified |-> a.verified, relevant |-> a.relevant,
         level |-> a.level, judged |-> a.judged]

(* An answer whose documents, each evaluated, are a selection among ds.       *)
Selected(a, ds) ==
    /\ IsAnswer(a)
    /\ SoundSelection(a.documents, a.evidence, ds)
    /\ a.evaluated \in Seq(ds) /\ Distinct(a.evaluated) /\ Members(a.evaluated) = Members(a.documents)

Positions(n) == [i \in 1 .. n |-> i]

Claims(items) == [id : Nat, evidence : items]

(* The claims are numbered by their places and are about the evidence.        *)
Numbered(claims, items) ==
    claims \in Seq(Claims(items)) /\ \A i \in 1 .. Len(claims) : claims[i].id = i

(* The first n claims were verified, and only they may be judged relevant.    *)
VerifiedUpTo(a, n) == a.verified = Positions(n) /\ a.relevant \in Seq(1 .. n)

Unclaimed(a) == a.claimSet = NoAnswer.claimSet /\ a.verified = <<>> /\ a.relevant = <<>>

Claimed(a) ==
    /\ a.claimSet = [evidence |-> a.evidence, claims |-> a.claimSet.claims]
    /\ Numbered(a.claimSet.claims, Members(a.evidence)) /\ a.claimSet.claims # <<>>

(* What the verification still has to see are the claims built last.          *)
ToVerify(a, claims) ==
    /\ claims \in Seq(Claims(Members(a.evidence)))
    /\ \E n \in Nat :
        /\ VerifiedUpTo(a, n) /\ Len(a.claimSet.claims) = n + Len(claims)
        /\ \A i \in 1 .. Len(claims) : claims[i].id = n + i

Verified(a) == VerifiedUpTo(a, Len(a.claimSet.claims))

(* An answer that may be the result.                                          *)
Whole(a, ds) ==
    Selected(a, ds) /\ Claimed(a) /\ Verified(a) /\ a.judged = Positions(Len(a.claimSet.claims))

(* The claims and judgments of b, on the evidence of a.                       *)
ClaimsOf(a, b) == a.claimSet = b.claimSet /\ a.verified = b.verified /\ a.relevant = b.relevant

Gathering == {"plan", "search", "read", "select", "select_novel", "select_merged", "build", "verify",
              "cover", "assemble"}

RoundQueries == IF searchRound = "initial" THEN queries ELSE {searchRound}

(* Every candidate has a query of the set, every document its candidate, and  *)
(* the pages of the coverage round are new.                                   *)
SearchInv ==
    /\ searchRound \in {"initial", "supplemental", "coverage"}
    /\ queries \subseteq AllQueries /\ found \subseteq Candidate /\ candidates.items \subseteq Candidate
    /\ documents \subseteq Document /\ fresh \subseteq Document
    /\ \A c \in candidates.items : c.query \in queries
    /\ \A d \in documents \cup fresh : CandidateOf(d) \in candidates.items
    /\ Urls(documents) \cap Urls(fresh) = {} /\ (searchRound # "coverage" => fresh = {})
    /\ phase = "plan" => searchRound = "initial" /\ queries = {}
    /\ phase \in {"plan", "search"} /\ searchRound = "initial" => documents = {}
    /\ phase = "search" =>
          pending \in Seq(RoundQueries) /\ (\A c \in found : c.query \in RoundQueries)
    /\ phase # "plan" /\ ~(phase = "search" /\ searchRound = "initial") => candidates.queries = queries
    /\ phase = "read" =>
          found \subseteq candidates.items
          /\ (searchRound = "coverage" => Urls(documents) \cap Urls(found) = {})
    /\ phase \notin {"search", "read"} => found = {}

(* What is known of the answer at every stage.                                *)
AnswerInv ==
    /\ phase = "plan" \/ (phase \in {"search", "read", "select"} /\ searchRound = "initial") =>
          answer = NoAnswer
    /\ phase \in {"search", "read", "select"} /\ searchRound = "supplemental" =>
          Selected(answer, documents) /\ Unclaimed(answer)
    /\ phase \in {"search", "read", "select_novel", "select_merged"} /\ searchRound = "coverage" =>
          Whole(answer, documents)
    /\ phase = "select" => searchRound # "coverage"
    /\ phase \in {"select_novel", "select_merged"} => searchRound = "coverage"
    /\ phase = "select_merged" => Selected(novel, fresh)
    /\ phase = "build" =>
          /\ Selected(answer, documents)
          /\ IF searchRound = "coverage" THEN ClaimsOf(answer, previous) ELSE Unclaimed(answer)
    /\ phase \in {"verify", "cover"} => Selected(answer, documents) /\ Claimed(answer)
    /\ phase = "verify" => ToVerify(answer, built)
    /\ phase = "cover" => Verified(answer)
    /\ phase = "assemble" => Whole(answer, documents)
    /\ phase \in {"build", "verify", "cover"} /\ searchRound = "coverage" => Whole(previous, documents)

PipelineInv ==
    /\ phase \in Gathering => SearchInv /\ AnswerInv
    /\ AssembledSetsFit /\ AnswerOfOneRound

-----------------------------------------------------------------------------
(* Lists, numbers and sets                                                  *)

(* The members of a list, and that none occurs twice.                        *)
LEMMA ListRange ==
    ASSUME NEW S, NEW list \in Seq(S)
    PROVE  /\ Range(list) = Members(list) /\ Members(list) \subseteq S
           /\ IsInjective(list) <=> Distinct(list)
<1>1. DOMAIN list = 1 .. Len(list)
    OBVIOUS
<1>2. Range(list) = Members(list)
    BY <1>1 DEF Range, Members
<1>3. Members(list) \subseteq S
    BY DEF Members
<1>4. IsInjective(list) <=> Distinct(list)
    BY <1>1 DEF IsInjective, Distinct
<1> QED BY <1>2, <1>3, <1>4

(* The smaller of two numbers.                                               *)
LEMMA MinOfTwo ==
    ASSUME NEW m \in Nat, NEW n \in Nat
    PROVE  Min({m, n}) \in {m, n} /\ Min({m, n}) <= m /\ Min({m, n}) <= n
<1>1. \E x \in {m, n} : \A y \in {m, n} : x <= y
    OBVIOUS
<1> QED BY <1>1 DEF Min

(* Lists of fewer members are lists of more.                                 *)
LEMMA ListGrows ==
    ASSUME NEW S, NEW T, S \subseteq T, NEW list \in Seq(S)
    PROVE  list \in Seq(T)
    OBVIOUS

(* A list with a member has a first one.                                      *)
LEMMA HeadIsMember ==
    ASSUME NEW S, NEW list \in Seq(S), list # <<>>
    PROVE  Head(list) \in Members(list)
<1>1. Head(list) = list[1] /\ 1 \in 1 .. Len(list)
    OBVIOUS
<1> QED BY <1>1 DEF Members

(* The first member of a list and the others.                                *)
LEMMA HeadAndTail ==
    ASSUME NEW S, NEW list \in Seq(S), list # <<>>
    PROVE  Head(list) \in S /\ Tail(list) \in Seq(S) /\ <<>> \in Seq(S)
    OBVIOUS

(* A list of different members without its last one.                         *)
LEMMA FrontFacts ==
    ASSUME NEW S, NEW list \in Seq(S), Len(list) > 0
    PROVE  /\ Front(list) \in Seq(S) /\ Len(Front(list)) = Len(list) - 1
           /\ \A i \in 1 .. Len(list) - 1 : Front(list)[i] = list[i]
<1>1. Len(list) - 1 \in 0 .. Len(list)
    OBVIOUS
<1> QED BY <1>1, FirstFacts DEF Front

(* There are finitely many documents.                                        *)
LEMMA DocumentsAreFinite == IsFiniteSet(Document)
<1>1. IsFiniteSet(AllQueries)
  <2>1. InitialQueries \in Surjection(1 .. Len(InitialQueries), Range(InitialQueries))
      BY PipelineAssumption DEF Surjection, Range
  <2>2. IsFiniteSet(1 .. Len(InitialQueries))
      BY FS_Interval, PipelineAssumption
  <2>3. IsFiniteSet(Range(InitialQueries))
      BY <2>1, <2>2, FS_Surjection
  <2>4. IsFiniteSet({"supplemental"}) /\ IsFiniteSet({"coverage"})
      BY FS_Singleton
  <2>5. {"supplemental", "coverage"} = {"supplemental"} \cup {"coverage"}
      OBVIOUS
  <2>6. IsFiniteSet({"supplemental", "coverage"})
      BY <2>4, <2>5, FS_Union
  <2> QED BY <2>3, <2>6, FS_Union DEF AllQueries
<1>2. IsFiniteSet(BOOLEAN)
  <2>1. IsFiniteSet({TRUE}) /\ IsFiniteSet({FALSE}) /\ BOOLEAN = {TRUE} \cup {FALSE}
      BY FS_Singleton
  <2> QED BY <2>1, FS_Union
<1>3. IsFiniteSet((AllQueries \X Url) \X BOOLEAN)
    BY <1>1, <1>2, FS_Product, PipelineAssumption
<1> DEFINE named == [p \in (AllQueries \X Url) \X BOOLEAN |->
                        [query |-> p[1][1], url |-> p[1][2], ok |-> p[2]]]
<1>4. named \in Surjection((AllQueries \X Url) \X BOOLEAN, Document)
  <2>1. named \in [(AllQueries \X Url) \X BOOLEAN -> Document]
      BY DEF Document
  <2>2. ASSUME NEW d \in Document PROVE \E p \in (AllQueries \X Url) \X BOOLEAN : named[p] = d
    <3>1. <<<<d.query, d.url>>, d.ok>> \in (AllQueries \X Url) \X BOOLEAN
          /\ d = [query |-> d.query, url |-> d.url, ok |-> d.ok]
        BY DEF Document
    <3> QED BY <3>1
  <2> QED BY <2>1, <2>2 DEF Surjection
<1> QED BY <1>3, <1>4, FS_Surjection

-----------------------------------------------------------------------------
(* Selecting documents                                                      *)

(* The selections the loop passes through.                                   *)
Tried(ds, items) ==
    {s \in SelectionsAmong(ds) :
        /\ SoundSelection(s.documents, s.evidence, ds)
        /\ Members(s.documents) \subseteq s.attempted /\ \A d \in Members(s.documents) : items[d] > 0}

(* The evidence of one document names only this document.                    *)
LEMMA EvidenceOfFacts ==
    ASSUME NEW ds, NEW d \in ds, NEW n \in Nat
    PROVE  /\ EvidenceOf(d, n) \in Seq(Items(ds)) /\ Distinct(EvidenceOf(d, n))
           /\ Sources(EvidenceOf(d, n)) = IF n = 0 THEN {} ELSE {d}
<1> PICK list : list = EvidenceOf(d, n)
    OBVIOUS
<1>1. list \in Seq(Items(ds)) /\ Len(list) = n /\ \A i \in 1 .. n : list[i] = [document |-> d, item |-> i]
    BY DEF EvidenceOf, Items
<1>2. \A i \in 1 .. n : list[i].document = d /\ list[i].item = i
    BY <1>1
<1>3. Distinct(list)
    BY <1>1, <1>2 DEF Distinct
<1>4. Sources(list) = IF n = 0 THEN {} ELSE {d}
  <2>1. \A e \in Members(list) : e.document = d
      BY <1>1, <1>2 DEF Members
  <2>2. CASE n = 0
      BY <1>1, <2>2 DEF Members, Sources
  <2>3. CASE n # 0
    <3>1. 1 \in 1 .. Len(list) /\ list[1].document = d
        BY <1>1, <1>2, <2>3
    <3>2. list[1] \in Members(list)
        BY <3>1 DEF Members
    <3> QED BY <2>1, <2>3, <3>1, <3>2 DEF Sources
  <2> QED BY <2>2, <2>3
<1> QED BY <1>1, <1>3, <1>4

(* Nothing is a selection.                                                   *)
LEMMA NothingIsSound ==
    ASSUME NEW ds
    PROVE  Members(<<>>) = {} /\ SoundSelection(<<>>, <<>>, ds)
<1> PICK none : none = <<>>
    OBVIOUS
<1>1. none \in Seq(ds) /\ none \in Seq(Items(ds)) /\ 1 .. Len(none) = {} /\ Len(none) = 0
    OBVIOUS
<1>2. Members(none) = {} /\ Sources(none) = {} /\ Distinct(none)
    BY <1>1 DEF Members, Sources, Distinct
<1>3. 0 <= MaximumSources
    BY PipelineAssumption
<1>4. SoundSelection(none, none, ds)
    BY <1>1, <1>2, <1>3 DEF SoundSelection
<1> QED BY <1>2, <1>4

(* One more document and its evidence, if it has any                          *)
(* (_select_documents_with_evidence).                                         *)
LEMMA VisitIsSound ==
    ASSUME NEW ds, NEW items \in [ds -> Nat], NEW s \in Tried(ds, items), NEW d \in ds,
           Len(s.documents) < MaximumSources, d.url \notin Urls(s.attempted)
    PROVE  [documents |-> IF items[d] = 0 THEN s.documents ELSE Append(s.documents, d),
            evidence |-> s.evidence \o EvidenceOf(d, items[d]),
            attempted |-> s.attempted \cup {d}] \in Tried(ds, items)
<1> PICK n \in Nat : n = items[d]
    OBVIOUS
<1> PICK old : old = s.documents
    OBVIOUS
<1> PICK new : new = IF n = 0 THEN old ELSE Append(old, d)
    OBVIOUS
<1> PICK more : more = EvidenceOf(d, n)
    OBVIOUS
<1> PICK evidence : evidence = s.evidence \o more
    OBVIOUS
<1>1. /\ old \in Seq(ds) /\ s.evidence \in Seq(Items(ds)) /\ s.attempted \subseteq ds
      /\ \A i, j \in 1 .. Len(old) : old[i].url = old[j].url => i = j
      /\ Len(old) < MaximumSources
      /\ Distinct(s.evidence) /\ Sources(s.evidence) = Members(old) /\ Members(old) \subseteq s.attempted
      /\ \A e \in Members(old) : items[e] > 0
    BY DEF Tried, SoundSelection, SelectionsAmong, Items
<1>2. MaximumSources \in Nat
    BY PipelineAssumption
<1>3. /\ more \in Seq(Items(ds)) /\ Distinct(more) /\ Sources(more) = IF n = 0 THEN {} ELSE {d}
    BY EvidenceOfFacts
<1>4. d \notin Members(old)
    BY <1>1 DEF Urls
<1>5. /\ new \in Seq(ds) /\ Len(new) <= MaximumSources
      /\ \A i, j \in 1 .. Len(new) : new[i].url = new[j].url => i = j
      /\ Members(new) = IF n = 0 THEN Members(old) ELSE Members(old) \cup {d}
  <2>1. CASE n = 0
      BY <1>1, <1>2, <2>1
  <2>2. CASE n # 0
    <3>1. /\ new \in Seq(ds) /\ Len(new) = Len(old) + 1
          /\ \A i \in 1 .. Len(old) : new[i] = old[i]
          /\ new[Len(old) + 1] = d
          /\ Members(new) = Members(old) \cup {d}
        BY <1>1, <2>2, AppendFacts
    <3>2. \A i \in 1 .. Len(old) : old[i].url # d.url
      <4>1. \A i \in 1 .. Len(old) : old[i] \in s.attempted
          BY <1>1 DEF Members
      <4> QED BY <4>1 DEF Urls
    <3>3. Len(old) \in Nat /\ \A i \in 1 .. Len(new) : i \in 1 .. Len(old) \/ i = Len(old) + 1
        BY <1>1, <3>1
    <3>4. Len(new) <= MaximumSources
        BY <1>1, <1>2, <3>1, <3>3
    <3>5. ASSUME NEW i \in 1 .. Len(new), NEW j \in 1 .. Len(new), new[i].url = new[j].url
          PROVE  i = j
        BY <1>1, <3>1, <3>2, <3>3, <3>5
    <3> QED BY <2>2, <3>1, <3>4, <3>5
  <2> QED BY <2>1, <2>2
<1>6. /\ evidence \in Seq(Items(ds)) /\ Distinct(evidence) /\ Sources(evidence) = Members(new)
  <2>1. Members(s.evidence) \cap Members(more) = {}
    <3> SUFFICES ASSUME NEW e, e \in Members(s.evidence), e \in Members(more) PROVE FALSE
        OBVIOUS
    <3>1. e.document \in Sources(s.evidence) /\ e.document \in Sources(more)
        BY DEF Sources
    <3> QED BY <1>1, <1>3, <1>4, <3>1
  <2>2. /\ evidence \in Seq(Items(ds)) /\ Members(evidence) = Members(s.evidence) \cup Members(more)
        /\ Distinct(evidence)
      BY <1>1, <1>3, <2>1, JoinFacts
  <2>3. Sources(evidence) = Sources(s.evidence) \cup Sources(more)
      BY <2>2 DEF Sources
  <2> QED BY <1>1, <1>3, <1>5, <2>2, <2>3
<1>7. /\ Members(new) \subseteq s.attempted \cup {d} /\ s.attempted \cup {d} \subseteq ds
      /\ \A e \in Members(new) : items[e] > 0
    BY <1>1, <1>5
<1> PICK r : r = [documents |-> new, evidence |-> evidence, attempted |-> s.attempted \cup {d}]
    OBVIOUS
<1>8. r \in SelectionsAmong(ds) /\ r.documents = new /\ r.evidence = evidence
      /\ r.attempted = s.attempted \cup {d}
    BY <1>5, <1>6, <1>7 DEF SelectionsAmong, Items
<1>9. SoundSelection(new, evidence, ds)
    BY <1>5, <1>6 DEF SoundSelection
<1>10. r \in Tried(ds, items)
    BY <1>7, <1>8, <1>9 DEF Tried
<1> QED BY <1>10

(* The loop over the ranked documents: s[i] is what it has selected after the  *)
(* first i of them.                                                           *)
Visits(s, ranking, items) ==
    /\ s[0] = NothingSelected
    /\ \A i \in 1 .. Len(ranking) :
          LET d == ranking[i]
              before == s[i - 1]
          IN  s[i] = IF Len(before.documents) >= MaximumSources \/ d.url \in Urls(before.attempted)
                     THEN before
                     ELSE [documents |-> IF items[d] = 0 THEN before.documents
                                         ELSE Append(before.documents, d),
                           evidence |-> before.evidence \o EvidenceOf(d, items[d]),
                           attempted |-> before.attempted \cup {d}]

(* However the documents are ranked, and whatever evidence they bear, the     *)
(* loop passes through sound selections (_select_documents_with_evidence).    *)
LEMMA SelectInOrderVisits ==
    ASSUME NEW ds, NEW n \in Nat, NEW ranking \in [1 .. n -> ds], NEW items \in [ds -> Nat],
           ds = Range(ranking)
    PROVE  \E s \in [0 .. n -> Tried(ds, items)] :
              SelectInOrder(ranking, items) = s[n] /\ Visits(s, ranking, items)
<1>1. (\A i \in 1 .. n : ranking[i] \in ds) /\ DOMAIN ranking = 1 .. n /\ Len(ranking) = n
    OBVIOUS
<1> DEFINE visited(s, d) ==
              IF Len(s.documents) >= MaximumSources \/ d.url \in Urls(s.attempted)
              THEN s
              ELSE [documents |-> IF items[d] = 0 THEN s.documents ELSE Append(s.documents, d),
                    evidence |-> s.evidence \o EvidenceOf(d, items[d]),
                    attempted |-> s.attempted \cup {d}]
           visit == [at \in (1 .. n) \X SelectionsAmong(ds) |-> visited(at[2], ranking[at[1]])]
<1>2. NothingSelected \in Tried(ds, items)
  <2>1. NothingSelected \in SelectionsAmong(ds)
      BY DEF NothingSelected, SelectionsAmong
  <2>2. /\ NothingSelected.documents = <<>> /\ NothingSelected.evidence = <<>>
        /\ NothingSelected.attempted = {}
      BY DEF NothingSelected
  <2>3. Members(<<>>) = {} /\ SoundSelection(<<>>, <<>>, ds)
      BY NothingIsSound
  <2> QED BY <2>1, <2>2, <2>3 DEF Tried
<1>3. ASSUME NEW i \in 1 .. n, NEW s \in Tried(ds, items) PROVE visit[<<i, s>>] = visited(s, ranking[i])
  <2>1. s \in SelectionsAmong(ds)
      BY DEF Tried
  <2> QED BY <2>1
<1>4. ASSUME NEW i \in 1 .. n, NEW s \in Tried(ds, items) PROVE visit[<<i, s>>] \in Tried(ds, items)
  <2>1. PICK d \in ds : d = ranking[i]
      BY <1>1
  <2>2. visit[<<i, s>>] = visited(s, d)
    <3> HIDE DEF visit, visited
    <3> QED BY <1>3, <2>1
  <2>3. Len(s.documents) \in Nat /\ MaximumSources \in Nat
      BY PipelineAssumption DEF Tried, SelectionsAmong
  <2>4. CASE Len(s.documents) >= MaximumSources \/ d.url \in Urls(s.attempted)
      BY <2>2, <2>4
  <2>5. CASE ~(Len(s.documents) >= MaximumSources \/ d.url \in Urls(s.attempted))
    <3>1. Len(s.documents) < MaximumSources /\ d.url \notin Urls(s.attempted)
        BY <2>3, <2>5
    <3> HIDE DEF visit
    <3>2. visited(s, d) \in Tried(ds, items)
        BY <2>5, <3>1, VisitIsSound
    <3> QED BY <2>2, <3>2
  <2> QED BY <2>4, <2>5
<1>5. SelectInOrder(ranking, items) = Loop(NothingSelected, visit, n)
    BY <1>1 DEF SelectInOrder
<1>6. PICK s \in [0 .. n -> Tried(ds, items)] :
          Loop(NothingSelected, visit, n) = s[n] /\ Iterates(s, NothingSelected, visit, n)
  <2> HIDE DEF visit
  <2> QED BY <1>2, <1>4, LoopFacts
<1>7. ASSUME NEW i \in 1 .. n PROVE s[i] = visited(s[i - 1], ranking[i])
  <2>1. s[i - 1] \in Tried(ds, items)
      OBVIOUS
  <2>2. s[i] = visit[<<i, s[i - 1]>>]
    <3> HIDE DEF visit, visited
    <3>1. \A k \in 1 .. n : s[k] = visit[<<k, s[k - 1]>>]
        BY <1>6 DEF Iterates
    <3> QED BY <3>1
  <2> HIDE DEF visit, visited
  <2> QED BY <1>3, <2>1, <2>2
<1>8. Visits(s, ranking, items)
    BY <1>1, <1>6, <1>7 DEF Visits, Iterates
<1> QED BY <1>5, <1>6, <1>8

(* What the loop tried it has tried of more documents.                       *)
LEMMA TriedAmongMore ==
    ASSUME NEW ds, NEW dt, ds \subseteq dt, NEW items, NEW s \in Tried(ds, items)
    PROVE  s \in Tried(dt, items)
<1>1. Items(ds) \subseteq Items(dt)
    BY DEF Items
<1>2. SoundSelection(s.documents, s.evidence, dt)
    BY <1>1, ListGrows DEF Tried, SoundSelection
<1>3. s \in SelectionsAmong(dt)
  <2>1. /\ s = [documents |-> s.documents, evidence |-> s.evidence, attempted |-> s.attempted]
        /\ s.documents \in Seq(ds) /\ s.evidence \in Seq(Items(ds)) /\ s.attempted \subseteq ds
      BY DEF Tried, SelectionsAmong, Items
  <2>2. s.documents \in Seq(dt) /\ s.evidence \in Seq(Items(dt)) /\ s.attempted \subseteq dt
      BY <1>1, <2>1, ListGrows
  <2> QED BY <2>1, <2>2 DEF SelectionsAmong, Items
<1> QED BY <1>2, <1>3 DEF Tried

(* As long as there is room, a document that bears evidence is selected if no  *)
(* other one is of its page (_select_documents_with_evidence).                *)
LEMMA SelectionIsExhaustive ==
    ASSUME NEW ds, NEW n \in Nat, NEW ranking \in [1 .. n -> ds], NEW items \in [ds -> Nat],
           ds = Range(ranking), NEW d \in ds, items[d] > 0, \A e \in ds : e.url = d.url => e = d
    PROVE  LET s == SelectInOrder(ranking, items)
           IN  Len(s.documents) >= MaximumSources \/ d \in Members(s.documents)
<1>1. PICK s \in [0 .. n -> Tried(ds, items)] :
          SelectInOrder(ranking, items) = s[n] /\ Visits(s, ranking, items)
    BY SelectInOrderVisits
<1>2. Len(ranking) = n
    OBVIOUS
<1> DEFINE Met(i) == d \in s[i].attempted \/ \E j \in 1 .. i : ranking[j] = d
           Done(i) == Len(s[i].documents) >= MaximumSources \/ (Met(i) => d \in Members(s[i].documents))
           T == {i \in 0 .. n : Done(i)}
<1>3. 0 \in T
  <2>1. s[0].attempted = {}
      BY <1>1 DEF Visits, NothingSelected
  <2> QED BY <2>1
<1>4. ASSUME NEW i \in 0 .. n - 1, i \in T PROVE i + 1 \in T
  <2>1. i \in Nat /\ i + 1 \in 1 .. n /\ i + 1 \in 0 .. n /\ (i + 1) - 1 = i /\ i \in 0 .. n
      OBVIOUS
  <2>2. PICK c \in ds : c = ranking[i + 1]
      BY <2>1
  <2>3. PICK before, after : before = s[i] /\ after = s[i + 1]
      OBVIOUS
  <2>4. after = IF Len(before.documents) >= MaximumSources \/ c.url \in Urls(before.attempted)
                THEN before
                ELSE [documents |-> IF items[c] = 0 THEN before.documents
                                    ELSE Append(before.documents, c),
                      evidence |-> before.evidence \o EvidenceOf(c, items[c]),
                      attempted |-> before.attempted \cup {c}]
      BY <1>1, <1>2, <2>1, <2>2, <2>3 DEF Visits
  <2>5. before.attempted \subseteq ds /\ before.documents \in Seq(ds)
      BY <2>1, <2>3 DEF Tried, SelectionsAmong
  <2>6. (\E j \in 1 .. i + 1 : ranking[j] = d) => c = d \/ \E j \in 1 .. i : ranking[j] = d
      BY <2>1, <2>2
  <2>7. CASE Len(before.documents) >= MaximumSources
      BY <2>1, <2>3, <2>4, <2>7
  <2>8. CASE /\ ~(Len(before.documents) >= MaximumSources)
             /\ (d \in before.attempted \/ \E j \in 1 .. i : ranking[j] = d) => d \in Members(before.documents)
    <3>1. CASE c.url \in Urls(before.attempted)
      <4>1. after = before
          BY <2>4, <3>1
      <4>2. c = d => d \in before.attempted
          BY <2>5, <3>1 DEF Urls
      <4>3. Met(i + 1) => d \in Members(after.documents)
          BY <2>3, <2>6, <2>8, <4>1, <4>2
      <4> QED BY <2>1, <2>3, <4>3
    <3>2. CASE c.url \notin Urls(before.attempted)
      <4>1. /\ after.attempted = before.attempted \cup {c}
            /\ after.documents = IF items[c] = 0 THEN before.documents ELSE Append(before.documents, c)
          BY <2>4, <2>8, <3>2
      <4>2. Members(after.documents) = Members(before.documents) \cup (IF items[c] = 0 THEN {} ELSE {c})
          BY <2>5, <4>1, AppendFacts
      <4>3. Met(i + 1) => d \in Members(after.documents)
          BY <2>3, <2>6, <2>8, <4>1, <4>2
      <4> QED BY <2>1, <2>3, <4>3
    <3> QED BY <3>1, <3>2
  <2> QED BY <1>4, <2>3, <2>7, <2>8
<1>5. Done(n)
  <2> HIDE DEF T
  <2>1. 0 .. n \subseteq T
      BY <1>3, <1>4, IntervalInduction
  <2>2. n \in T
      BY <2>1
  <2> QED BY <2>2 DEF T
<1>6. \E j \in 1 .. n : d = ranking[j]
    BY DEF Range
<1> QED BY <1>1, <1>5, <1>6

(* Every selection of the selector: a ranking of the eligible documents, what  *)
(* each of them bears, and what the loop made of it (QualityAwareDocument-     *)
(* Selector, _select_documents_with_evidence).                                *)
Selecting(ds, selection, ranking, items) ==
    /\ ranking \in [1 .. Len(ranking) -> Eligible(ds)] /\ Len(ranking) \in Nat
    /\ Range(ranking) = Eligible(ds)
    /\ items \in [Eligible(ds) -> Nat] /\ \A d \in Eligible(ds) \cap DOMAIN cache : items[d] = cache[d]
    /\ LET s == SelectInOrder(ranking, items)
       IN  /\ s \in Tried(Eligible(ds), items)
           /\ selection = [documents |-> s.documents, evidence |-> s.evidence,
                            cache |-> Remember(items, s.attempted)]

LEMMA SelectionsSelect ==
    ASSUME NEW ds, ds \subseteq Document, NEW selection \in Selections(ds)
    PROVE  \E ranking, items : Selecting(ds, selection, ranking, items)
<1>1. PICK ranking \in Rankings(ds), items \in Extractions(ds) :
          selection = [documents |-> SelectInOrder(ranking, items).documents,
                       evidence |-> SelectInOrder(ranking, items).evidence,
                       cache |-> Remember(items, SelectInOrder(ranking, items).attempted)]
    BY DEF Selections
<1> PICK R : R = Eligible(ds)
    OBVIOUS
<1>2. R \subseteq ds
    BY DEF Eligible, Successful
<1>3. IsFiniteSet(R)
    BY <1>2, DocumentsAreFinite, FS_Subset
<1> PICK n \in Nat : n = Cardinality(R)
    BY <1>3, FS_CardinalityType
<1>4. ranking \in [1 .. n -> R] /\ \A i, j \in 1 .. n : i # j => ranking[i] # ranking[j]
    BY DEF Rankings, SetToSeqs
<1>5. items \in [R -> Nat] /\ \A d \in R \cap DOMAIN cache : items[d] = cache[d]
  <2>1. items \in [R -> 0 .. MaximumEvidence] /\ \A d \in R \cap DOMAIN cache : items[d] = cache[d]
      BY DEF Extractions
  <2>2. MaximumEvidence \in Nat
      BY PipelineAssumption
  <2> QED BY <2>1, <2>2
<1>6. ranking \in Seq(R) /\ Len(ranking) = n
    BY <1>4
<1>7. Range(ranking) = R
  <2>1. Distinct(ranking)
      BY <1>4, <1>6 DEF Distinct
  <2>2. Members(ranking) = R
      BY <1>3, <1>6, <2>1, DistinctFacts
  <2> QED BY <1>6, <2>2, ListRange
<1>8. SelectInOrder(ranking, items) \in Tried(R, items)
    BY <1>4, <1>5, <1>7, SelectInOrderVisits
<1>9. Selecting(ds, selection, ranking, items)
    BY <1>1, <1>4, <1>5, <1>6, <1>7, <1>8 DEF Selecting
<1> QED BY <1>9

(* A selection is documents of different pages, as many as are wanted at       *)
(* most, with the evidence of each (_select_documents_with_evidence).         *)
LEMMA SelectionsAreSound ==
    ASSUME NEW ds, ds \subseteq Document, NEW selection \in Selections(ds)
    PROVE  SoundSelection(selection.documents, selection.evidence, ds)
<1>1. PICK ranking, items : Selecting(ds, selection, ranking, items)
    BY SelectionsSelect
<1>2. PICK s \in Tried(Eligible(ds), items) :
          selection.documents = s.documents /\ selection.evidence = s.evidence
    BY <1>1 DEF Selecting
<1>3. Eligible(ds) \subseteq ds
    BY DEF Eligible, Successful
<1>4. s \in Tried(ds, items)
    BY <1>3, TriedAmongMore
<1> QED BY <1>2, <1>4 DEF Tried

(* The answer with a selection, and what it keeps.                           *)
LEMMA WithSelectionIsSelected ==
    ASSUME NEW ds, NEW a, IsAnswer(a), NEW selection,
           SoundSelection(selection.documents, selection.evidence, ds)
    PROVE  Selected(WithSelection(a, selection), ds) /\ ClaimsOf(WithSelection(a, selection), a)
<1> PICK r : r = WithSelection(a, selection)
    OBVIOUS
<1> PICK chosen, evidence : chosen = selection.documents /\ evidence = selection.evidence
    OBVIOUS
<1>1. r = [documents |-> chosen, evidence |-> evidence, evaluated |-> chosen,
           claimSet |-> a.claimSet, verified |-> a.verified, relevant |-> a.relevant,
           level |-> a.level, judged |-> a.judged]
    BY DEF IsAnswer, WithSelection
<1>2. /\ r.documents = chosen /\ r.evidence = evidence /\ r.evaluated = chosen
      /\ r.claimSet = a.claimSet /\ r.verified = a.verified /\ r.relevant = a.relevant
      /\ r.level = a.level /\ r.judged = a.judged
    BY <1>1
<1>3. IsAnswer(r)
    BY <1>1, <1>2 DEF IsAnswer
<1>4. chosen \in Seq(ds) /\ Distinct(chosen)
    BY DEF SoundSelection, Distinct
<1> QED BY <1>2, <1>3, <1>4 DEF Selected, ClaimsOf

(* A selection is one among more documents as well.                          *)
LEMMA SelectedAmongMore ==
    ASSUME NEW ds, NEW dt, ds \subseteq dt, NEW a, Selected(a, ds)
    PROVE  Selected(a, dt)
<1>1. Items(ds) \subseteq Items(dt)
    BY DEF Items
<1>2. SoundSelection(a.documents, a.evidence, dt)
    BY <1>1, ListGrows DEF Selected, SoundSelection
<1>3. a.evaluated \in Seq(dt)
    BY ListGrows DEF Selected
<1> QED BY <1>2, <1>3 DEF Selected

(* A selection passes the validator of the evidence set                       *)
(* (ResearchEvidenceSet.validate_evidence_set).                               *)
LEMMA SelectedIsValid ==
    ASSUME NEW ds, NEW a, Selected(a, ds)
    PROVE  /\ ValidEvidenceSet(a)
           /\ IsInjective(a.evaluated) /\ Range(a.evaluated) = Range(a.documents)
           /\ Range(a.evidence) = Members(a.evidence) /\ Range(a.documents) = Members(a.documents)
<1>1. /\ a.documents \in Seq(ds) /\ a.evidence \in Seq(Items(ds)) /\ a.evaluated \in Seq(ds)
      /\ Distinct(a.evidence) /\ Distinct(a.evaluated)
      /\ Sources(a.evidence) = Members(a.documents) /\ Members(a.evaluated) = Members(a.documents)
    BY DEF Selected, SoundSelection
<1>2. /\ Range(a.evidence) = Members(a.evidence) /\ Range(a.documents) = Members(a.documents)
      /\ Range(a.evaluated) = Members(a.evaluated)
      /\ IsInjective(a.evidence) /\ IsInjective(a.evaluated)
    BY <1>1, ListRange
<1>3. \A e \in Range(a.evidence) : e.document \in Range(a.documents)
    BY <1>1, <1>2 DEF Sources
<1> QED BY <1>1, <1>2, <1>3 DEF ValidEvidenceSet

(* The evidence of the documents retained.                                   *)
About(evidence, retained) == {e \in Members(evidence) : e.document \in retained}

(* What is kept, for the documents retained, of two lists of the evidence of   *)
(* different documents is evidence of each of them (SelectMerged).            *)
LEMMA EvidenceSubstituted ==
    ASSUME NEW S, NEW own \in Seq(S), NEW theirs \in Seq(S), Distinct(own), Distinct(theirs),
           Sources(own) \cap Sources(theirs) = {},
           NEW retained, retained \subseteq Sources(own) \cup Sources(theirs)
    PROVE  /\ Kept(own, About(own, retained)) \o Kept(theirs, About(theirs, retained)) \in Seq(S)
           /\ Distinct(Kept(own, About(own, retained)) \o Kept(theirs, About(theirs, retained)))
           /\ Sources(Kept(own, About(own, retained)) \o Kept(theirs, About(theirs, retained))) = retained
<1>1. PICK first : first = Kept(own, About(own, retained))
    OBVIOUS
<1>2. PICK second : second = Kept(theirs, About(theirs, retained))
    OBVIOUS
<1>3. PICK joined : joined = first \o second
    OBVIOUS
<1>4. first \in Seq(S) /\ Distinct(first) /\ Members(first) = About(own, retained)
  <2>1. Members(own) \cap About(own, retained) = About(own, retained)
      BY DEF About
  <2> QED BY <1>1, <2>1, KeptFacts
<1>5. second \in Seq(S) /\ Distinct(second) /\ Members(second) = About(theirs, retained)
  <2>1. Members(theirs) \cap About(theirs, retained) = About(theirs, retained)
      BY DEF About
  <2> QED BY <1>2, <2>1, KeptFacts
<1>6. Members(first) \cap Members(second) = {}
  <2>1. ASSUME NEW e, e \in About(own, retained), e \in About(theirs, retained) PROVE FALSE
    <3>1. e.document \in Sources(own) /\ e.document \in Sources(theirs)
        BY <2>1 DEF About, Sources
    <3> QED BY <3>1
  <2> QED BY <1>4, <1>5, <2>1
<1>7. /\ joined \in Seq(S) /\ Distinct(joined)
      /\ Members(joined) = About(own, retained) \cup About(theirs, retained)
    BY <1>3, <1>4, <1>5, <1>6, JoinFacts
<1>8. Sources(joined) = retained
    BY <1>7 DEF About, Sources
<1> QED BY <1>1, <1>2, <1>3, <1>7, <1>8

(* What is kept of two lists of different documents are the documents          *)
(* retained (SelectMerged).                                                   *)
LEMMA EvaluatedSubstituted ==
    ASSUME NEW S, NEW own \in Seq(S), NEW theirs \in Seq(S), Distinct(own), Distinct(theirs),
           Members(own) \cap Members(theirs) = {},
           NEW retained, retained \subseteq Members(own) \cup Members(theirs)
    PROVE  /\ Kept(own, retained) \o Kept(theirs, retained) \in Seq(S)
           /\ Distinct(Kept(own, retained) \o Kept(theirs, retained))
           /\ Members(Kept(own, retained) \o Kept(theirs, retained)) = retained
<1>1. PICK first : first = Kept(own, retained)
    OBVIOUS
<1>2. PICK second : second = Kept(theirs, retained)
    OBVIOUS
<1>3. PICK joined : joined = first \o second
    OBVIOUS
<1>4. first \in Seq(S) /\ Distinct(first) /\ Members(first) = Members(own) \cap retained
    BY <1>1, KeptFacts
<1>5. second \in Seq(S) /\ Distinct(second) /\ Members(second) = Members(theirs) \cap retained
    BY <1>2, KeptFacts
<1>6. Members(first) \cap Members(second) = {}
    BY <1>4, <1>5
<1>7. joined \in Seq(S) /\ Distinct(joined) /\ Members(joined) = Members(first) \cup Members(second)
    BY <1>3, <1>4, <1>5, <1>6, JoinFacts
<1>8. Members(joined) = retained
    BY <1>4, <1>5, <1>7
<1> QED BY <1>1, <1>2, <1>3, <1>7, <1>8

(* The first of the novel documents takes its place among the others, all of  *)
(* which are of other pages, and the last of them leaves with its evidence    *)
(* when there is no room (SelectMerged).                                      *)
LEMMA SubstitutionIsSelected ==
    ASSUME NEW ds, Selected(answer, documents), Selected(novel, fresh), novel.documents # <<>>,
           Urls(documents) \cap Urls(fresh) = {}, ds = documents \cup fresh
    PROVE  Selected(Substitution, ds) /\ ClaimsOf(Substitution, answer)
<1>1. PICK old : old = answer.documents
    OBVIOUS
<1>2. PICK adopted : adopted = Head(novel.documents)
    OBVIOUS
<1>3. PICK kept : kept = IF Len(old) >= MaximumSources THEN Front(old) ELSE old
    OBVIOUS
<1>4. PICK retained : retained = Append(kept, adopted)
    OBVIOUS
<1>5. PICK removed : removed = Range(old) \ Range(kept)
    OBVIOUS
<1>6. PICK stays : stays = {e \in Range(answer.evidence) : e.document \notin removed}
    OBVIOUS
<1>7. PICK joins : joins = {e \in Range(novel.evidence) : e.document = adopted}
    OBVIOUS
<1>8. PICK evidence : evidence = Kept(answer.evidence, stays) \o Kept(novel.evidence, joins)
    OBVIOUS
<1>9. PICK evaluated : evaluated = Kept(answer.evaluated, Range(retained)) \o Kept(novel.evaluated, Range(retained))
    OBVIOUS
<1>10. Substitution = [answer EXCEPT !.documents = retained, !.evidence = evidence, !.evaluated = evaluated]
    BY <1>1, <1>2, <1>3, <1>4, <1>5, <1>6, <1>7, <1>8, <1>9 DEF Substitution
<1>11. /\ old \in Seq(documents) /\ answer.evidence \in Seq(Items(documents))
       /\ answer.evaluated \in Seq(documents)
       /\ \A i, j \in 1 .. Len(old) : old[i].url = old[j].url => i = j
       /\ Len(old) <= MaximumSources /\ Distinct(answer.evidence) /\ Distinct(answer.evaluated)
       /\ Sources(answer.evidence) = Members(old) /\ Members(answer.evaluated) = Members(old)
    BY <1>1 DEF Selected, SoundSelection
<1>12. /\ novel.documents \in Seq(fresh) /\ novel.evidence \in Seq(Items(fresh))
       /\ novel.evaluated \in Seq(fresh) /\ Distinct(novel.evidence) /\ Distinct(novel.evaluated)
       /\ Sources(novel.evidence) = Members(novel.documents)
       /\ Members(novel.evaluated) = Members(novel.documents)
    BY DEF Selected, SoundSelection
<1>13. MaximumSources \in Nat \ {0}
    BY PipelineAssumption
<1>14. adopted \in Members(novel.documents) /\ Members(novel.documents) \subseteq fresh
      /\ Members(old) \subseteq documents
    BY <1>2, <1>11, <1>12, HeadIsMember, ListRange
<1>15. \A d \in documents, e \in fresh : d.url # e.url /\ d # e
    BY DEF Urls
<1>16. /\ kept \in Seq(documents) /\ Len(kept) <= Len(old) /\ Len(kept) < MaximumSources
       /\ \A i \in 1 .. Len(kept) : kept[i] = old[i]
  <2>1. CASE Len(old) >= MaximumSources
    <3>1. Len(old) \in Nat /\ Len(old) > 0
        BY <1>11, <1>13, <2>1
    <3>2. /\ kept \in Seq(documents) /\ Len(kept) = Len(old) - 1
          /\ \A i \in 1 .. Len(old) - 1 : kept[i] = old[i]
        BY <1>11, <1>3, <2>1, <3>1, FrontFacts
    <3> QED BY <1>11, <1>13, <3>1, <3>2
  <2>2. CASE ~(Len(old) >= MaximumSources)
      BY <1>11, <1>13, <1>3, <2>2
  <2> QED BY <2>1, <2>2
<1>17. Members(kept) \subseteq Members(old) /\ Len(kept) \in Nat /\ Len(old) \in Nat
    BY <1>11, <1>16 DEF Members
<1>18. /\ retained \in Seq(ds) /\ Len(retained) <= MaximumSources
       /\ Members(retained) = Members(kept) \cup {adopted} /\ Range(retained) = Members(retained)
       /\ \A i, j \in 1 .. Len(retained) : retained[i].url = retained[j].url => i = j
  <2>1. kept \in Seq(ds) /\ adopted \in ds
      BY <1>14, <1>16, ListGrows
  <2>2. /\ retained \in Seq(ds) /\ Len(retained) = Len(kept) + 1
        /\ \A i \in 1 .. Len(kept) : retained[i] = kept[i]
        /\ retained[Len(kept) + 1] = adopted /\ Members(retained) = Members(kept) \cup {adopted}
      BY <1>4, <2>1, AppendFacts
  <2>3. \A i \in 1 .. Len(kept) : kept[i] \in documents /\ kept[i].url # adopted.url
      BY <1>14, <1>15, <1>16
  <2>4. \A i \in 1 .. Len(retained) : i \in 1 .. Len(kept) \/ i = Len(kept) + 1
      BY <1>17, <2>2
  <2>5. ASSUME NEW i \in 1 .. Len(retained), NEW j \in 1 .. Len(retained),
               retained[i].url = retained[j].url
        PROVE  i = j
    <3>1. \A k \in 1 .. Len(kept) : k \in 1 .. Len(old) /\ retained[k] = old[k]
        BY <1>16, <1>17, <2>2
    <3>2. CASE i \in 1 .. Len(kept) /\ j \in 1 .. Len(kept)
        BY <1>11, <2>5, <3>1, <3>2
    <3>3. CASE i \in 1 .. Len(kept) /\ j = Len(kept) + 1
        BY <2>2, <2>3, <2>5, <3>3
    <3>4. CASE i = Len(kept) + 1 /\ j \in 1 .. Len(kept)
        BY <2>2, <2>3, <2>5, <3>4
    <3> QED BY <2>4, <3>2, <3>3, <3>4
  <2>6. Len(retained) <= MaximumSources
      BY <1>13, <1>16, <1>17, <2>2
  <2> QED BY <2>2, <2>5, <2>6, ListRange
<1>19. removed = Members(old) \ Members(kept)
    BY <1>11, <1>16, <1>5, ListRange
<1>20. stays = {e \in Members(answer.evidence) : e.document \in Members(kept)}
  <2>1. stays = {e \in Members(answer.evidence) : e.document \notin removed}
      BY <1>6, <1>11, ListRange
  <2>2. \A e \in Members(answer.evidence) : e.document \in Members(old)
      BY <1>11 DEF Sources
  <2>3. \A e \in Members(answer.evidence) : e.document \notin removed <=> e.document \in Members(kept)
      BY <1>17, <1>19, <2>2
  <2> QED BY <2>1, <2>3
<1>21. joins = {e \in Members(novel.evidence) : e.document = adopted}
    BY <1>7, <1>12, ListRange
<1>22. evidence \in Seq(Items(ds)) /\ Distinct(evidence) /\ Sources(evidence) = Members(retained)
  <2>1. Items(documents) \subseteq Items(ds) /\ Items(fresh) \subseteq Items(ds)
      BY DEF Items
  <2>2. answer.evidence \in Seq(Items(ds))
      BY <1>11, <2>1, ListGrows
  <2>3. novel.evidence \in Seq(Items(ds))
      BY <1>12, <2>1, ListGrows
  <2>4. PICK own, theirs, whole :
            own = answer.evidence /\ theirs = novel.evidence /\ whole = Members(retained)
      OBVIOUS
  <2>5. Sources(own) = Members(old) /\ Sources(theirs) = Members(novel.documents)
      BY <1>11, <1>12, <2>4
  <2>6. own \in Seq(Items(ds)) /\ theirs \in Seq(Items(ds)) /\ Distinct(own) /\ Distinct(theirs)
      BY <1>11, <1>12, <2>2, <2>3, <2>4
  <2>7. Sources(own) \cap Sources(theirs) = {} /\ whole \subseteq Sources(own) \cup Sources(theirs)
      BY <1>14, <1>15, <1>17, <1>18, <2>4, <2>5
  <2>8. About(own, whole) = stays
    <3>1. \A e \in Members(own) : e.document \in Members(old)
        BY <2>5 DEF Sources
    <3>2. \A e \in Members(own) : e.document \in whole <=> e.document \in Members(kept)
        BY <1>14, <1>15, <1>18, <2>4, <3>1
    <3> QED BY <1>20, <2>4, <3>2 DEF About
  <2>9. About(theirs, whole) = joins
    <3>1. \A e \in Members(theirs) : e.document \in Members(novel.documents)
        BY <2>5 DEF Sources
    <3>2. \A e \in Members(theirs) : e.document \in whole <=> e.document = adopted
        BY <1>14, <1>15, <1>17, <1>18, <2>4, <3>1
    <3> QED BY <1>21, <2>4, <3>2 DEF About
  <2>10. PICK S : S = Items(ds)
      OBVIOUS
  <2>11. /\ Kept(own, About(own, whole)) \o Kept(theirs, About(theirs, whole)) \in Seq(S)
         /\ Distinct(Kept(own, About(own, whole)) \o Kept(theirs, About(theirs, whole)))
         /\ Sources(Kept(own, About(own, whole)) \o Kept(theirs, About(theirs, whole))) = whole
      BY <2>6, <2>7, <2>10, EvidenceSubstituted
  <2> QED BY <1>8, <2>4, <2>8, <2>9, <2>10, <2>11
<1>23. evaluated \in Seq(ds) /\ Distinct(evaluated) /\ Members(evaluated) = Members(retained)
  <2>1. answer.evaluated \in Seq(ds) /\ novel.evaluated \in Seq(ds)
      BY <1>11, <1>12, ListGrows
  <2>2. PICK own, theirs, whole :
            own = answer.evaluated /\ theirs = novel.evaluated /\ whole = Members(retained)
      OBVIOUS
  <2>3. Members(own) = Members(old) /\ Members(theirs) = Members(novel.documents)
      BY <1>11, <1>12, <2>2
  <2>4. own \in Seq(ds) /\ theirs \in Seq(ds) /\ Distinct(own) /\ Distinct(theirs)
      BY <1>11, <1>12, <2>1, <2>2
  <2>5. Members(own) \cap Members(theirs) = {} /\ whole \subseteq Members(own) \cup Members(theirs)
      BY <1>14, <1>15, <1>17, <1>18, <2>2, <2>3
  <2>6. /\ Kept(own, whole) \o Kept(theirs, whole) \in Seq(ds)
        /\ Distinct(Kept(own, whole) \o Kept(theirs, whole))
        /\ Members(Kept(own, whole) \o Kept(theirs, whole)) = whole
      BY <2>4, <2>5, EvaluatedSubstituted
  <2> QED BY <1>9, <1>18, <2>2, <2>6
<1>24. PICK r : r = Substitution
    OBVIOUS
<1>25. r = [documents |-> retained, evidence |-> evidence, evaluated |-> evaluated,
            claimSet |-> answer.claimSet, verified |-> answer.verified, relevant |-> answer.relevant,
            level |-> answer.level, judged |-> answer.judged]
    BY <1>10, <1>24 DEF Selected, IsAnswer
<1>26. /\ r.documents = retained /\ r.evidence = evidence /\ r.evaluated = evaluated
       /\ r.claimSet = answer.claimSet /\ r.verified = answer.verified /\ r.relevant = answer.relevant
       /\ r.level = answer.level /\ r.judged = answer.judged
    BY <1>25
<1>27. IsAnswer(r)
    BY <1>25, <1>26 DEF IsAnswer
<1>28. SoundSelection(retained, evidence, ds)
    BY <1>18, <1>22 DEF SoundSelection
<1> QED BY <1>23, <1>26, <1>27, <1>28, <1>24 DEF Selected, ClaimsOf

-----------------------------------------------------------------------------
(* Building and judging claims                                              *)

(* The ids of numbered claims are their positions.                           *)
LEMMA IdsArePositions ==
    ASSUME NEW items, NEW claims, Numbered(claims, items)
    PROVE  Ids(claims) = Positions(Len(claims))
<1>1. claims \in Seq(Claims(items)) /\ \A i \in 1 .. Len(claims) : claims[i].id = i
    BY DEF Numbered
<1>2. DOMAIN claims = 1 .. Len(claims)
    BY <1>1
<1>3. Ids(claims) = [i \in 1 .. Len(claims) |-> claims[i].id]
    BY <1>2 DEF Ids
<1> QED BY <1>1, <1>3 DEF Positions

(* Such claims pass the validator of the claim set                            *)
(* (ResearchClaimSet.validate_claim_set).                                     *)
LEMMA ClaimedIsValid ==
    ASSUME NEW ds, NEW a, Selected(a, ds), Claimed(a)
    PROVE  /\ ValidClaimSet(a.claimSet) /\ a.claimSet.evidence = a.evidence
           /\ Ids(a.claimSet.claims) = Positions(Len(a.claimSet.claims))
           /\ \A c \in Range(a.claimSet.claims) : c.evidence \in Members(a.evidence)
<1> PICK items : items = Members(a.evidence)
    OBVIOUS
<1>1. PICK claims : claims = a.claimSet.claims
    OBVIOUS
<1>2. a.claimSet.evidence = a.evidence /\ Numbered(claims, items)
    BY <1>1 DEF Claimed
<1>3. claims \in Seq(Claims(items)) /\ DOMAIN claims = 1 .. Len(claims) /\ Len(claims) \in Nat
    BY <1>2 DEF Numbered
<1>4. Ids(claims) = Positions(Len(claims))
    BY <1>2, IdsArePositions
<1>5. IsInjective(Ids(claims))
    BY <1>3, <1>4 DEF IsInjective, Positions
<1>6. \A i \in DOMAIN claims : claims[i].evidence \in items
  <2>1. \A i \in DOMAIN claims : claims[i] \in Claims(items)
      BY <1>3
  <2>2. \A c \in Claims(items) : c.evidence \in items
      BY DEF Claims
  <2> QED BY <2>1, <2>2
<1>7. Range(a.evidence) = items
    BY SelectedIsValid
<1>8. ValidClaimSet(a.claimSet)
    BY <1>1, <1>2, <1>5, <1>6, <1>7 DEF ValidClaimSet
<1> QED BY <1>1, <1>2, <1>4, <1>6, <1>8 DEF Range

(* One claim for every one of the first evidence items                        *)
(* (GenerativePipelineClaimBuilder._build).                                   *)
LEMMA BuiltClaimsFacts ==
    ASSUME NEW items, NEW evidence \in Seq(items), NEW n \in Nat,
           NEW claims \in BuiltClaims(evidence, n + 1)
    PROVE  /\ claims \in Seq(Claims(items)) /\ Len(claims) > 0
           /\ \A i \in 1 .. Len(claims) : claims[i].id = n + i
<1>1. ClaimBudget \in Nat /\ Len(evidence) \in Nat
    BY PipelineAssumption
<1>2. PICK m \in 1 .. Min({ClaimBudget, Len(evidence)}) :
          claims = [i \in 1 .. m |-> [id |-> n + 1 + i - 1, evidence |-> evidence[i]]]
    BY DEF BuiltClaims
<1>3. m \in Nat /\ m > 0 /\ m <= Len(evidence)
    BY <1>1, MinOfTwo
<1>4. \A i \in 1 .. m : n + 1 + i - 1 = n + i /\ n + i \in Nat /\ evidence[i] \in items
    BY <1>1, <1>3
<1>5. claims = [i \in 1 .. m |-> [id |-> n + i, evidence |-> evidence[i]]]
    BY <1>2, <1>4
<1>6. claims \in [1 .. m -> Claims(items)]
    BY <1>4, <1>5 DEF Claims
<1>7. claims \in Seq(Claims(items)) /\ Len(claims) = m
    BY <1>3, <1>6
<1> QED BY <1>3, <1>5, <1>7

(* Numbered claims, and claims that continue their numbers.                  *)
LEMMA NumberedJoin ==
    ASSUME NEW items, NEW claims, Numbered(claims, items), NEW more \in Seq(Claims(items)),
           \A i \in 1 .. Len(more) : more[i].id = Len(claims) + i
    PROVE  Numbered(claims \o more, items) /\ Len(claims \o more) = Len(claims) + Len(more)
<1>1. PICK all : all = claims \o more
    OBVIOUS
<1>2. claims \in Seq(Claims(items)) /\ (\A i \in 1 .. Len(claims) : claims[i].id = i) /\ Len(claims) \in Nat
    BY DEF Numbered
<1>3. /\ all \in Seq(Claims(items)) /\ Len(all) = Len(claims) + Len(more)
      /\ \A i \in 1 .. Len(claims) : all[i] = claims[i]
      /\ \A i \in Len(claims) + 1 .. Len(claims) + Len(more) : all[i] = more[i - Len(claims)]
    BY <1>1, <1>2, JoinFacts
<1>4. Len(more) \in Nat
    OBVIOUS
<1>5. ASSUME NEW i \in 1 .. Len(all) PROVE all[i].id = i
  <2>1. CASE i \in 1 .. Len(claims)
      BY <1>2, <1>3, <2>1
  <2>2. CASE i \in Len(claims) + 1 .. Len(claims) + Len(more)
    <3>1. i - Len(claims) \in 1 .. Len(more) /\ Len(claims) + (i - Len(claims)) = i
        BY <1>2, <1>4, <2>2
    <3> QED BY <1>3, <2>2, <3>1
  <2> QED BY <1>2, <1>3, <1>4, <2>1, <2>2
<1> QED BY <1>1, <1>3, <1>5 DEF Numbered

(* Claims built on an answer whose claims were all verified are valid with    *)
(* them, and are what remains to be verified (SingleResearchAgentPipeline.run).*)
LEMMA BuildsLead ==
    ASSUME NEW base, NEW evidence, Builds(base, evidence), Selected(base, documents),
           evidence \in Seq(Members(base.evidence)),
           Numbered(base.claimSet.claims, Members(base.evidence)), Verified(base)
    PROVE  /\ phase' = "verify" /\ Selected(answer', documents)
           /\ Claimed(answer') /\ ToVerify(answer', built')
<1>1. PICK claims, items, n : claims = base.claimSet.claims /\ items = Members(base.evidence) /\ n = Len(claims)
    OBVIOUS
<1>2. PICK more \in BuiltClaims(evidence, Len(base.claimSet.claims) + 1) :
          built' = more /\ answer' = Extended(base, more)
    BY DEF Builds
<1>3. Numbered(claims, items) /\ n \in Nat
    BY <1>1 DEF Numbered
<1>4. /\ more \in Seq(Claims(items)) /\ Len(more) > 0
      /\ \A i \in 1 .. Len(more) : more[i].id = n + i
    BY <1>1, <1>2, <1>3, BuiltClaimsFacts
<1>5. PICK all : all = claims \o more
    OBVIOUS
<1>6. Numbered(all, items) /\ Len(all) = n + Len(more)
  <2>1. \A i \in 1 .. Len(more) : more[i].id = Len(claims) + i
      BY <1>1, <1>4
  <2>2. Numbered(claims \o more, items) /\ Len(claims \o more) = Len(claims) + Len(more)
      BY <1>3, <1>4, <2>1, NumberedJoin
  <2> QED BY <1>1, <1>5, <2>2
<1>7. PICK a : a = answer'
    OBVIOUS
<1>8. a = [documents |-> base.documents, evidence |-> base.evidence, evaluated |-> base.evaluated,
           claimSet |-> [evidence |-> base.evidence, claims |-> all], verified |-> base.verified,
           relevant |-> base.relevant, level |-> base.level, judged |-> base.judged]
    BY <1>1, <1>2, <1>5, <1>7 DEF Extended, Selected, IsAnswer
<1>9. /\ a.documents = base.documents /\ a.evidence = base.evidence /\ a.evaluated = base.evaluated
      /\ a.claimSet = [evidence |-> base.evidence, claims |-> all] /\ a.claimSet.claims = all
      /\ a.verified = base.verified /\ a.relevant = base.relevant
      /\ a.level = base.level /\ a.judged = base.judged
    BY <1>8
<1>10. Selected(a, documents)
    BY <1>8, <1>9 DEF Selected, IsAnswer
<1>11. Claimed(a)
  <2>1. Len(all) > 0
      BY <1>3, <1>4, <1>6
  <2>2. all # <<>>
      BY <2>1
  <2> QED BY <1>1, <1>6, <1>9, <2>2 DEF Claimed
<1>12. ToVerify(a, more)
    BY <1>1, <1>3, <1>4, <1>6, <1>9 DEF ToVerify, Verified, VerifiedUpTo
<1>13. phase' = "verify"
  <2>1. ValidClaimSet(a.claimSet)
      BY <1>10, <1>11, ClaimedIsValid
  <2> QED BY <1>7, <2>1 DEF Builds
<1> QED BY <1>2, <1>7, <1>10, <1>11, <1>12, <1>13

-----------------------------------------------------------------------------
(* Searching and reading                                                    *)

(* Stages between the searches leave what was found alone                     *)
(* (SingleResearchAgentPipeline.run).                                         *)
LEMMA SearchRests ==
    ASSUME SearchInv, phase \notin {"plan", "search", "read"}, phase' \notin {"plan", "search", "read"},
           UNCHANGED <<searchRound, queries, found, candidates, documents, fresh>>
    PROVE  SearchInv'
    BY DEF SearchInv, RoundQueries

(* A round of its own begins with its own query                               *)
(* (_should_run_supplemental_search, AnswerCoverageEvaluationService).         *)
LEMMA SearchBegins ==
    ASSUME SearchInv, phase \notin {"plan", "search", "read"}, phase' = "search",
           searchRound' \in {"supplemental", "coverage"}, searchRound # "coverage",
           pending' = <<searchRound'>>,
           UNCHANGED <<queries, found, candidates, documents, fresh>>
    PROVE  SearchInv'
<1>1. /\ queries \subseteq AllQueries /\ found = {} /\ candidates.items \subseteq Candidate
      /\ documents \subseteq Document /\ fresh = {}
      /\ \A c \in candidates.items : c.query \in queries
      /\ \A d \in documents : CandidateOf(d) \in candidates.items
      /\ candidates.queries = queries
    BY DEF SearchInv
<1>2. RoundQueries' = {searchRound'} /\ pending' \in Seq({searchRound'})
    BY DEF RoundQueries
<1>3. Urls(documents) \cap Urls(fresh) = {}
    BY <1>1 DEF Urls
<1>4. queries' = queries /\ found' = {} /\ candidates' = candidates /\ documents' = documents /\ fresh' = {}
    BY <1>1
<1>5. (Urls(documents) \cap Urls(fresh))' = {}
    BY <1>1, <1>3, <1>4 DEF Urls
<1> QED BY <1>1, <1>2, <1>4, <1>5 DEF SearchInv

(* The initial search (ResearchSourceSearchService.search).                   *)
LEMMA SearchingKeepsSearch ==
    ASSUME SearchInv, phase \in Gathering,
           PlanQueries \/ SearchQuery \/ SearchBlocked \/ InitialSearchEnds, phase' \in Gathering
    PROVE  SearchInv'
<1>1. CASE PlanQueries
  <2>1. /\ phase = "plan" /\ phase' = "search" /\ searchRound' = searchRound /\ found' = found
        /\ candidates' = candidates /\ documents' = documents /\ fresh' = fresh
        /\ queries' = Range(InitialQueries) /\ pending' = InitialQueries
      BY <1>1 DEF PlanQueries
  <2>2. /\ searchRound = "initial" /\ queries = {} /\ candidates.items = {} /\ found = {}
      BY <2>1 DEF SearchInv
  <2>3. RoundQueries' = Range(InitialQueries) /\ Range(InitialQueries) \subseteq AllQueries
      BY <2>1, <2>2 DEF RoundQueries, AllQueries
  <2>4. InitialQueries \in Seq(Range(InitialQueries))
    <3>1. InitialQueries \in Seq(STRING)
        BY PipelineAssumption
    <3>2. Range(InitialQueries) = Members(InitialQueries)
        BY <3>1, ListRange
    <3> QED BY <3>1, <3>2 DEF Members
  <2>5. (Urls(documents) \cap Urls(fresh))' = {}
      BY <2>1 DEF SearchInv, Urls
  <2> QED BY <2>1, <2>2, <2>3, <2>4, <2>5 DEF SearchInv
<1>2. CASE SearchQuery
  <2>1. /\ phase = "search" /\ phase' = phase /\ searchRound' = searchRound /\ queries' = queries
        /\ candidates' = candidates /\ documents' = documents /\ fresh' = fresh /\ pending # <<>>
        /\ pending' \in {<<>>, Tail(pending)}
      BY <1>2 DEF SearchQuery
  <2>2. PICK result \in SearchResults(Head(pending)) : found' = found \cup result
      BY <1>2 DEF SearchQuery
  <2>3. pending \in Seq(RoundQueries) /\ RoundQueries' = RoundQueries
      BY <2>1 DEF SearchInv, RoundQueries
  <2>4. Head(pending) \in RoundQueries /\ pending' \in Seq(RoundQueries)
      BY <2>1, <2>3, HeadAndTail
  <2>5. RoundQueries \subseteq AllQueries
      BY DEF SearchInv, RoundQueries, AllQueries
  <2>6. \A c \in result : c \in Candidate /\ c.query \in RoundQueries
    <3>1. PICK urls \in SUBSET Url : result = {[query |-> Head(pending), url |-> u] : u \in urls}
        BY <2>2 DEF SearchResults
    <3> QED BY <2>4, <2>5, <3>1 DEF Candidate
  <2>7. (Urls(documents) \cap Urls(fresh))' = {}
      BY <2>1 DEF SearchInv, Urls
  <2>8. found' \subseteq Candidate /\ \A c \in found' : c.query \in RoundQueries'
      BY <2>1, <2>2, <2>3, <2>6 DEF SearchInv
  <2> QED BY <2>1, <2>3, <2>4, <2>7, <2>8 DEF SearchInv
<1>3. CASE SearchBlocked
  <2>1. /\ phase = "search" /\ phase' = phase /\ searchRound' = searchRound /\ queries' = queries
        /\ candidates' = candidates /\ documents' = documents /\ fresh' = fresh /\ found' = found
        /\ pending' = <<>>
      BY <1>3 DEF SearchBlocked
  <2>2. RoundQueries' = RoundQueries /\ pending' \in Seq(RoundQueries)
      BY <2>1 DEF RoundQueries
  <2>3. (Urls(documents) \cap Urls(fresh))' = {}
      BY <2>1 DEF SearchInv, Urls
  <2> QED BY <2>1, <2>2, <2>3 DEF SearchInv
<1>4. CASE InitialSearchEnds
  <2>1. /\ phase = "search" /\ searchRound = "initial" /\ phase' = "read" /\ searchRound' = searchRound
        /\ queries' = queries /\ found' = found /\ documents' = documents /\ fresh' = fresh
        /\ candidates' = [queries |-> queries, items |-> found]
      BY <1>4 DEF InitialSearchEnds, Searched, Gathering
  <2>2. candidates'.items = found /\ candidates'.queries = queries
      BY <2>1
  <2>3. \A c \in found : c.query \in queries
      BY <2>1 DEF SearchInv, RoundQueries
  <2>4. fresh = {} /\ documents \subseteq Document /\ queries \subseteq AllQueries /\ found \subseteq Candidate
      BY <2>1 DEF SearchInv
  <2>5. documents = {}
      BY <2>1 DEF SearchInv
  <2> QED BY <2>1, <2>2, <2>3, <2>4, <2>5 DEF SearchInv, Urls
<1> QED BY <1>1, <1>2, <1>3, <1>4

(* The candidates of a later search have new pages                            *)
(* (_novel_candidates, _merge_candidate_sets).                                *)
LEMMA GapSearchKeepsSearch ==
    ASSUME SearchInv, NEW round \in {"supplemental", "coverage"}, NEW otherwise \in {"build", "assemble"},
           GapSearchEnds(round, otherwise)
    PROVE  SearchInv'
<1> PICK novelOnes : novelOnes = NovelCandidates(candidates.items, found)
    OBVIOUS
<1>1. /\ phase = "search" /\ searchRound = round /\ searchRound' = searchRound
      /\ documents' = documents /\ fresh' = fresh
      /\ found' = novelOnes /\ queries' = queries \cup {round}
      /\ candidates' = [queries |-> queries', items |-> candidates.items \cup novelOnes]
      /\ phase' = IF novelOnes = {} THEN otherwise ELSE "read"
    BY DEF GapSearchEnds, Searched, MergeCandidateSets
<1>2. candidates'.items = candidates.items \cup novelOnes /\ candidates'.queries = queries'
    BY <1>1
<1>3. /\ queries \subseteq AllQueries /\ found \subseteq Candidate /\ candidates.items \subseteq Candidate
      /\ documents \subseteq Document /\ fresh \subseteq Document
      /\ \A c \in candidates.items : c.query \in queries
      /\ \A c \in found : c.query \in {round}
      /\ \A d \in documents \cup fresh : CandidateOf(d) \in candidates.items
      /\ Urls(documents) \cap Urls(fresh) = {} /\ (round # "coverage" => fresh = {})
    BY <1>1 DEF SearchInv, RoundQueries
<1>4. novelOnes \subseteq found /\ \A c \in novelOnes : c.url \notin Urls(candidates.items)
    BY DEF NovelCandidates
<1>5. Urls(documents) \cap Urls(novelOnes) = {}
  <2>1. ASSUME NEW d \in documents PROVE d.url \in Urls(candidates.items)
    <3>1. CandidateOf(d) \in candidates.items /\ CandidateOf(d).url = d.url
        BY <1>3 DEF CandidateOf
    <3> QED BY <3>1 DEF Urls
  <2> QED BY <1>4, <2>1 DEF Urls
<1>6. queries' \subseteq AllQueries
    BY <1>1, <1>3 DEF AllQueries
<1>7. \A c \in candidates'.items : c.query \in queries'
    BY <1>1, <1>2, <1>3, <1>4
<1>8. (Urls(documents) \cap Urls(fresh))' = {} /\ (Urls(documents) \cap Urls(found))' = {}
    BY <1>1, <1>3, <1>5 DEF Urls
<1>9. phase' \in {"build", "assemble", "read"} /\ (phase' # "read" => found' = {})
    BY <1>1
<1>10. found' \subseteq Candidate /\ found' \subseteq candidates'.items /\ candidates'.items \subseteq Candidate
       /\ documents' \subseteq Document /\ fresh' \subseteq Document
       /\ \A d \in (documents \cup fresh)' : CandidateOf(d) \in candidates'.items
    BY <1>1, <1>2, <1>3, <1>4
<1> QED BY <1>1, <1>2, <1>3, <1>6, <1>7, <1>8, <1>9, <1>10 DEF SearchInv

(* Every document that is read has one of the candidates                      *)
(* (PipelineSourceReaderAdapter.read).                                        *)
LEMMA DocumentsHaveCandidates ==
    ASSUME NEW cs, cs \subseteq Candidate, NEW ds \in DocumentSets(cs)
    PROVE  /\ ds \subseteq Document /\ Urls(ds) \subseteq Urls(cs)
           /\ \A d \in ds : CandidateOf(d) \in cs
<1>1. PICK readable \in SUBSET cs :
          ds = {[query |-> c.query, url |-> c.url, ok |-> c \in readable] : c \in cs}
    BY DEF DocumentSets
<1>2. ASSUME NEW d \in ds PROVE d \in Document /\ CandidateOf(d) \in cs /\ d.url \in Urls(cs)
  <2>1. PICK c \in cs : d = [query |-> c.query, url |-> c.url, ok |-> c \in readable]
      BY <1>1
  <2>2. c \in Candidate
      OBVIOUS
  <2>3. c.query \in AllQueries /\ c.url \in Url /\ c = [query |-> c.query, url |-> c.url]
      BY <2>2 DEF Candidate
  <2>4. (c \in readable) \in BOOLEAN
      OBVIOUS
  <2>5. d \in Document
      BY <2>1, <2>3, <2>4 DEF Document
  <2>6. CandidateOf(d) = c /\ d.url = c.url
      BY <2>1, <2>3 DEF CandidateOf
  <2> QED BY <2>5, <2>6 DEF Urls
<1> QED BY <1>2 DEF Urls

(* The three readings (_merge_document_sets).                                 *)
LEMMA ReadingKeepsSearch ==
    ASSUME SearchInv, ReadInitial \/ ReadSupplemental \/ ReadCoverage, phase' \in Gathering
    PROVE  SearchInv'
<1>1. PICK ds \in DocumentSets(found) :
          /\ Read(searchRound)
          /\ \/ searchRound = "initial" /\ documents' = ds /\ fresh' = fresh
             \/ searchRound = "supplemental" /\ documents' = MergeDocumentSets(documents, ds) /\ fresh' = fresh
             \/ searchRound = "coverage" /\ documents' = documents /\ fresh' = ds
    BY DEF ReadInitial, ReadSupplemental, ReadCoverage, Read
<1>2. /\ phase = "read" /\ found' = {} /\ searchRound' = searchRound /\ queries' = queries
      /\ candidates' = candidates
    BY <1>1 DEF Read
<1>3. phase' \in {"select", "select_novel", "assemble"}
    BY DEF ReadInitial, ReadSupplemental, ReadCoverage, Gathering
<1>4. /\ queries \subseteq AllQueries /\ found \subseteq Candidate /\ candidates.items \subseteq Candidate
      /\ documents \subseteq Document /\ fresh \subseteq Document /\ found \subseteq candidates.items
      /\ \A c \in candidates.items : c.query \in queries
      /\ \A d \in documents \cup fresh : CandidateOf(d) \in candidates.items
      /\ Urls(documents) \cap Urls(fresh) = {} /\ (searchRound # "coverage" => fresh = {})
      /\ (searchRound = "coverage" => Urls(documents) \cap Urls(found) = {})
      /\ candidates.queries = queries /\ searchRound \in {"initial", "supplemental", "coverage"}
    BY <1>2 DEF SearchInv
<1>5. /\ ds \subseteq Document /\ Urls(ds) \subseteq Urls(found) /\ \A d \in ds : CandidateOf(d) \in found
    BY <1>4, DocumentsHaveCandidates
<1>6. documents' \subseteq documents \cup ds /\ fresh' \subseteq fresh \cup ds
    BY <1>1 DEF MergeDocumentSets
<1>7. \A d \in (documents \cup fresh)' : d \in Document /\ CandidateOf(d) \in candidates.items
    BY <1>4, <1>5, <1>6
<1>8. searchRound # "coverage" => fresh' = {}
    BY <1>1, <1>4
<1>9. (Urls(documents) \cap Urls(fresh))' = {}
  <2>1. CASE searchRound = "coverage"
    <3>1. documents' = documents /\ fresh' = ds
        BY <1>1, <2>1
    <3>2. Urls(documents) \cap Urls(ds) = {}
        BY <1>4, <1>5, <2>1
    <3> QED BY <3>1, <3>2
  <2>2. CASE searchRound # "coverage"
      BY <1>8, <2>2 DEF Urls
  <2> QED BY <2>1, <2>2
<1> QED BY <1>2, <1>3, <1>4, <1>7, <1>8, <1>9 DEF SearchInv

(* The documents of the coverage round join the others (SelectMerged).        *)
LEMMA MergingKeepsSearch ==
    ASSUME SearchInv, phase = "select_merged", phase' \in {"assemble", "build"}, fresh' = {},
           documents' \in {documents, MergeDocumentSets(documents, fresh)},
           UNCHANGED <<searchRound, queries, found, candidates>>
    PROVE  SearchInv'
<1>1. /\ queries \subseteq AllQueries /\ found = {} /\ candidates.items \subseteq Candidate
      /\ documents \subseteq Document /\ fresh \subseteq Document
      /\ \A c \in candidates.items : c.query \in queries
      /\ \A d \in documents \cup fresh : CandidateOf(d) \in candidates.items
      /\ candidates.queries = queries /\ searchRound \in {"initial", "supplemental", "coverage"}
    BY DEF SearchInv
<1>2. documents' \subseteq documents \cup fresh
    BY DEF MergeDocumentSets
<1>3. (Urls(documents) \cap Urls(fresh))' = {}
    BY DEF Urls
<1>4. \A d \in (documents \cup fresh)' : d \in Document /\ CandidateOf(d) \in candidates.items
    BY <1>1, <1>2
<1> QED BY <1>1, <1>3, <1>4 DEF SearchInv

-----------------------------------------------------------------------------
(* What every stage does to the answer                                      *)

(* An answer that may be the result may be so among more documents.           *)
LEMMA WholeAmongMore ==
    ASSUME NEW ds, NEW dt, ds \subseteq dt, NEW a, Whole(a, ds)
    PROVE  Whole(a, dt)
    BY SelectedAmongMore DEF Whole

(* The searches leave the answer alone (ResearchSourceSearchService.search).  *)
LEMMA SearchingKeepsInv ==
    ASSUME SearchInv, AnswerInv, phase \in Gathering,
           \/ PlanQueries \/ SearchQuery \/ SearchBlocked
           \/ InitialSearchEnds \/ SupplementalSearchEnds \/ CoverageSearchEnds
    PROVE  phase' \in {"search", "read", "build", "assemble", "failed"}
           /\ (phase' # "failed" => SearchInv' /\ AnswerInv')
<1>1. UNCHANGED <<searchRound, documents, answer, novel, previous, built>>
    BY DEF PlanQueries, SearchQuery, SearchBlocked, InitialSearchEnds, SupplementalSearchEnds,
           CoverageSearchEnds, GapSearchEnds, answerVars
<1>2. CASE PlanQueries \/ SearchQuery \/ SearchBlocked \/ InitialSearchEnds
  <2>1. /\ phase \in {"plan", "search"} /\ phase' \in {"search", "read", "failed"}
        /\ phase' = phase \/ searchRound = "initial"
      BY <1>2 DEF PlanQueries, SearchQuery, SearchBlocked, InitialSearchEnds, Searched, SearchInv
  <2>2. phase' # "failed" => SearchInv'
      BY <1>2, <2>1, SearchingKeepsSearch DEF Gathering
  <2>3. phase' # "failed" => AnswerInv'
      BY <1>1, <2>1 DEF AnswerInv
  <2> QED BY <2>1, <2>2, <2>3
<1>3. CASE SupplementalSearchEnds
  <2>1. GapSearchEnds("supplemental", "build")
      BY <1>3 DEF SupplementalSearchEnds
  <2>2. phase = "search" /\ searchRound = "supplemental" /\ phase' \in {"build", "read"}
      BY <2>1 DEF GapSearchEnds, Searched
  <2>3. SearchInv'
      BY <2>1, GapSearchKeepsSearch
  <2>4. AnswerInv'
      BY <1>1, <2>2 DEF AnswerInv
  <2> QED BY <2>2, <2>3, <2>4
<1>4. CASE CoverageSearchEnds
  <2>1. GapSearchEnds("coverage", "assemble")
      BY <1>4 DEF CoverageSearchEnds
  <2>2. phase = "search" /\ searchRound = "coverage" /\ phase' \in {"assemble", "read"}
      BY <2>1 DEF GapSearchEnds, Searched
  <2>3. SearchInv'
      BY <2>1, GapSearchKeepsSearch
  <2>4. AnswerInv'
      BY <1>1, <2>2 DEF AnswerInv
  <2> QED BY <2>2, <2>3, <2>4
<1> QED BY <1>2, <1>3, <1>4

(* So do the readings (PipelineSourceReaderAdapter.read).                     *)
LEMMA ReadingKeepsInv ==
    ASSUME SearchInv, AnswerInv, ReadInitial \/ ReadSupplemental \/ ReadCoverage
    PROVE  phase' \in {"select", "select_novel", "assemble", "failed"}
           /\ (phase' # "failed" => SearchInv' /\ AnswerInv')
<1>1. /\ phase = "read" /\ UNCHANGED <<searchRound, answer, novel, previous, built>>
      /\ phase' \in {"select", "select_novel", "assemble", "failed"}
    BY DEF ReadInitial, ReadSupplemental, ReadCoverage, Read, answerVars
<1>2. phase' # "failed" => SearchInv'
    BY <1>1, ReadingKeepsSearch DEF Gathering
<1>3. CASE ReadInitial
  <2>1. searchRound = "initial" /\ phase' \in {"select", "failed"}
      BY <1>3 DEF ReadInitial, Read
  <2> QED BY <1>1, <1>2, <2>1 DEF AnswerInv
<1>4. CASE ReadSupplemental
  <2>1. searchRound = "supplemental" /\ phase' = "select" /\ documents \subseteq documents'
      BY <1>4 DEF ReadSupplemental, Read, MergeDocumentSets
  <2>2. Selected(answer, documents) /\ Unclaimed(answer)
      BY <1>1, <2>1 DEF AnswerInv
  <2>3. Selected(answer, documents')
      BY <2>1, <2>2, SelectedAmongMore
  <2> QED BY <1>1, <1>2, <2>1, <2>2, <2>3 DEF AnswerInv
<1>5. CASE ReadCoverage
  <2>1. searchRound = "coverage" /\ phase' \in {"select_novel", "assemble"} /\ documents' = documents
      BY <1>5 DEF ReadCoverage, Read
  <2>2. Whole(answer, documents)
      BY <1>1, <2>1 DEF AnswerInv
  <2> QED BY <1>1, <1>2, <2>1, <2>2 DEF AnswerInv
<1> QED BY <1>3, <1>4, <1>5

(* An answer before anything was selected.                                   *)
LEMMA NoAnswerFacts == IsAnswer(NoAnswer) /\ Unclaimed(NoAnswer)
    BY DEF NoAnswer, IsAnswer, Unclaimed

(* The selections of the first two rounds replace the documents and their     *)
(* evidence as a whole (_select_documents_with_evidence).                     *)
LEMMA SelectingKeepsInv ==
    ASSUME SearchInv, AnswerInv, SelectInitial \/ SelectSupplemental
    PROVE  phase' \in {"search", "build"} /\ SearchInv' /\ AnswerInv'
<1>1. PICK selection \in Selections(documents) : answer' = WithSelection(answer, selection)
    BY DEF SelectInitial, SelectSupplemental
<1>2. /\ phase = "select" /\ searchRound \in {"initial", "supplemental"}
      /\ UNCHANGED <<queries, found, candidates, documents, fresh>>
      /\ \/ phase' = "search" /\ searchRound' = "supplemental" /\ pending' = <<"supplemental">>
         \/ phase' = "build" /\ searchRound' = searchRound
    BY DEF SelectInitial, SelectSupplemental, searchVars
<1>3. SearchInv'
  <2>1. CASE phase' = "search" /\ searchRound' = "supplemental" /\ pending' = <<"supplemental">>
      BY <1>2, <2>1, SearchBegins
  <2>2. CASE phase' = "build" /\ searchRound' = searchRound
      BY <1>2, <2>2, SearchRests
  <2> QED BY <1>2, <2>1, <2>2
<1>4. IsAnswer(answer) /\ Unclaimed(answer)
    BY <1>2, NoAnswerFacts DEF AnswerInv, Selected
<1>5. SoundSelection(selection.documents, selection.evidence, documents)
    BY SelectionsAreSound DEF SearchInv
<1>6. Selected(answer', documents) /\ ClaimsOf(answer', answer)
    BY <1>1, <1>4, <1>5, WithSelectionIsSelected
<1>7. Unclaimed(answer')
    BY <1>4, <1>6 DEF Unclaimed, ClaimsOf
<1>8. phase' \in {"search", "build"} /\ searchRound' \in {"initial", "supplemental"}
      /\ (phase' = "search" => searchRound' = "supplemental") /\ documents' = documents
    BY <1>2
<1>9. AnswerInv'
    BY <1>6, <1>7, <1>8 DEF AnswerInv
<1> QED BY <1>3, <1>8, <1>9

(* The selection among the fresh documents is put aside (SelectNovel).        *)
LEMMA SelectingNovelKeepsInv ==
    ASSUME SearchInv, AnswerInv, SelectNovel
    PROVE  phase' = "select_merged" /\ SearchInv' /\ AnswerInv'
<1>1. PICK selection \in Selections(fresh) : novel' = WithSelection(NoAnswer, selection)
    BY DEF SelectNovel
<1>2. /\ phase = "select_novel" /\ phase' = "select_merged"
      /\ UNCHANGED <<searchRound, queries, found, candidates, documents, fresh, answer>>
    BY DEF SelectNovel, searchVars
<1>3. SearchInv'
    BY <1>2, SearchRests
<1>4. SoundSelection(selection.documents, selection.evidence, fresh)
    BY SelectionsAreSound DEF SearchInv
<1>5. Selected(novel', fresh)
    BY <1>1, <1>4, NoAnswerFacts, WithSelectionIsSelected
<1>6. searchRound = "coverage" /\ Whole(answer, documents)
    BY <1>2 DEF AnswerInv
<1>7. AnswerInv'
    BY <1>2, <1>5, <1>6 DEF AnswerInv
<1> QED BY <1>2, <1>3, <1>7

(* What the merging of the novel documents decides.                          *)
Merges(selection, candidate, ds) ==
    /\ candidate \in {WithSelection(answer, selection), Substitution}
    /\ candidate = Substitution =>
          novel.documents # <<>> \/ candidate = WithSelection(answer, selection)
    /\ \/ phase' = "assemble" /\ UNCHANGED <<answer, previous, documents>>
       \/ /\ previous' = answer /\ answer' = candidate /\ documents' = ds
          /\ phase' = IF ValidEvidenceSet(candidate) THEN "build" ELSE "invalid"

(* The selection among all documents, or the answer with one of them          *)
(* replaced, becomes the answer if it has new evidence.  Its evidence set is   *)
(* valid (SelectMerged).                                                      *)
LEMMA MergingKeepsInv ==
    ASSUME SearchInv, AnswerInv, SelectMerged
    PROVE  phase' \in {"assemble", "build"} /\ SearchInv' /\ AnswerInv'
<1>1. PICK ds : ds = MergeDocumentSets(documents, fresh)
    OBVIOUS
<1> PICK selection \in Selections(ds) : \E candidate : Merges(selection, candidate, ds)
    BY <1>1 DEF SelectMerged, Merges
<1> PICK candidate : Merges(selection, candidate, ds)
    OBVIOUS
<1>2. /\ candidate \in {WithSelection(answer, selection), Substitution}
      /\ candidate = Substitution =>
            novel.documents # <<>> \/ candidate = WithSelection(answer, selection)
      /\ \/ phase' = "assemble" /\ UNCHANGED <<answer, previous, documents>>
         \/ /\ previous' = answer /\ answer' = candidate /\ documents' = ds
            /\ phase' = IF ValidEvidenceSet(candidate) THEN "build" ELSE "invalid"
    BY DEF Merges
<1>3. /\ phase = "select_merged" /\ fresh' = {}
      /\ UNCHANGED <<searchRound, queries, found, candidates>>
    BY DEF SelectMerged, searchVars
<1>4. searchRound = "coverage" /\ Whole(answer, documents) /\ Selected(novel, fresh)
    BY <1>3 DEF AnswerInv
<1>5. documents \subseteq Document /\ fresh \subseteq Document /\ Urls(documents) \cap Urls(fresh) = {}
    BY DEF SearchInv
<1>6. ds = documents \cup fresh
    BY <1>1, <1>5 DEF MergeDocumentSets, Urls
<1>7. Selected(answer, documents) /\ IsAnswer(answer)
    BY <1>4 DEF Whole, Selected
<1>8. Selected(candidate, ds) /\ ClaimsOf(candidate, answer)
  <2>1. CASE candidate = WithSelection(answer, selection)
    <3>1. SoundSelection(selection.documents, selection.evidence, ds)
        BY <1>5, <1>6, SelectionsAreSound
    <3> QED BY <1>7, <2>1, <3>1, WithSelectionIsSelected
  <2>2. CASE candidate = Substitution /\ novel.documents # <<>>
      BY <1>4, <1>5, <1>6, <1>7, <2>2, SubstitutionIsSelected
  <2> QED BY <1>2, <2>1, <2>2
<1>9. ValidEvidenceSet(candidate)
    BY <1>8, SelectedIsValid
<1>10. phase' \in {"assemble", "build"} /\ documents' \in {documents, ds}
    BY <1>2, <1>9
<1>11. SearchInv'
    BY <1>1, <1>3, <1>10, MergingKeepsSearch
<1>12. CASE phase' = "assemble" /\ UNCHANGED <<answer, previous, documents>>
    BY <1>4, <1>11, <1>12 DEF AnswerInv
<1>13. CASE previous' = answer /\ answer' = candidate /\ documents' = ds /\ phase' = "build"
  <2>1. Whole(previous', documents')
      BY <1>4, <1>6, <1>13, WholeAmongMore
  <2>2. Selected(answer', documents') /\ ClaimsOf(answer', previous')
      BY <1>8, <1>13
  <2>3. searchRound' = "coverage"
      BY <1>3, <1>4
  <2>4. AnswerInv'
      BY <1>13, <2>1, <2>2, <2>3 DEF AnswerInv
  <2> QED BY <1>11, <1>13, <2>4
<1> QED BY <1>2, <1>9, <1>12, <1>13

(* Claims are built on valid ones: none, those of the previous answer whose    *)
(* evidence is all still there, or none again (BuildFirst, BuildIncremental,   *)
(* BuildAgain).                                                               *)
LEMMA BuildingKeepsInv ==
    ASSUME SearchInv, AnswerInv, BuildFirst \/ BuildIncremental \/ BuildAgain
    PROVE  phase' = "verify" /\ SearchInv' /\ AnswerInv'
<1>1. /\ phase = "build" /\ UNCHANGED <<searchRound, queries, found, candidates, documents, fresh, previous>>
    BY DEF BuildFirst, BuildIncremental, BuildAgain, Builds, searchVars
<1>2. Selected(answer, documents) /\ answer.evidence \in Seq(Members(answer.evidence))
  <2>1. Selected(answer, documents)
      BY <1>1 DEF AnswerInv
  <2>2. answer.evidence \in Seq(Items(documents))
      BY <2>1 DEF Selected, SoundSelection
  <2> QED BY <2>1, <2>2 DEF Members
<1>3. ASSUME NEW a, a.claimSet = NoAnswer.claimSet, a.verified = <<>>, a.relevant = <<>>
      PROVE  Numbered(a.claimSet.claims, Members(answer.evidence)) /\ Verified(a)
  <2>1. a.claimSet.claims = <<>>
      BY <1>3 DEF NoAnswer
  <2>2. PICK none : none = <<>>
      OBVIOUS
  <2>3. /\ none \in Seq(Claims(Members(answer.evidence))) /\ Len(none) = 0 /\ 1 .. 0 = {}
        /\ none \in Seq(1 .. 0)
      BY <2>2
  <2>4. Positions(0) = none
      BY <2>2 DEF Positions
  <2>5. Numbered(none, Members(answer.evidence))
      BY <2>3 DEF Numbered
  <2> QED BY <1>3, <2>1, <2>2, <2>3, <2>4, <2>5 DEF Verified, VerifiedUpTo
<1>4. phase' = "verify" /\ Selected(answer', documents) /\ Claimed(answer') /\ ToVerify(answer', built')
  <2>1. CASE BuildFirst
    <3>1. searchRound # "coverage" /\ Builds(answer, answer.evidence)
        BY <2>1 DEF BuildFirst
    <3>2. Unclaimed(answer)
        BY <1>1, <3>1 DEF AnswerInv
    <3>3. Numbered(answer.claimSet.claims, Members(answer.evidence)) /\ Verified(answer)
        BY <1>3, <3>2 DEF Unclaimed
    <3> QED BY <1>2, <3>1, <3>3, BuildsLead
  <2>2. CASE BuildIncremental
    <3>1. /\ searchRound = "coverage" /\ Range(previous.evidence) \subseteq Range(answer.evidence)
          /\ Builds(answer, NewEvidence(answer, previous))
        BY <2>2 DEF BuildIncremental, Reusable
    <3>2. ClaimsOf(answer, previous) /\ Whole(previous, documents)
        BY <1>1, <3>1 DEF AnswerInv
    <3>3. Members(previous.evidence) \subseteq Members(answer.evidence)
        BY <1>2, <3>1, <3>2, SelectedIsValid DEF Whole
    <3>4. Numbered(previous.claimSet.claims, Members(previous.evidence)) /\ Verified(previous)
        BY <3>2 DEF Whole, Claimed
    <3>5. Numbered(answer.claimSet.claims, Members(answer.evidence)) /\ Verified(answer)
      <4>1. Claims(Members(previous.evidence)) \subseteq Claims(Members(answer.evidence))
          BY <3>3 DEF Claims
      <4>2. Numbered(previous.claimSet.claims, Members(answer.evidence))
          BY <3>4, <4>1, ListGrows DEF Numbered
      <4> QED BY <3>2, <3>4, <4>2 DEF ClaimsOf, Verified, VerifiedUpTo
    <3>6. NewEvidence(answer, previous) \in Seq(Members(answer.evidence))
        BY <1>2, KeptFacts DEF NewEvidence
    <3> QED BY <1>2, <3>1, <3>5, <3>6, BuildsLead
  <2>3. CASE BuildAgain
    <3>1. PICK base : base = WithoutClaims(answer)
        OBVIOUS
    <3>2. Builds(base, answer.evidence)
        BY <2>3, <3>1 DEF BuildAgain
    <3>3. base = [documents |-> answer.documents, evidence |-> answer.evidence,
                  evaluated |-> answer.evaluated, claimSet |-> NoAnswer.claimSet, verified |-> <<>>,
                  relevant |-> <<>>, level |-> answer.level, judged |-> answer.judged]
        BY <1>2, <3>1 DEF Selected, IsAnswer, WithoutClaims
    <3>4. /\ base.documents = answer.documents /\ base.evidence = answer.evidence
          /\ base.evaluated = answer.evaluated /\ base.claimSet = NoAnswer.claimSet
          /\ base.verified = <<>> /\ base.relevant = <<>>
          /\ base.level = answer.level /\ base.judged = answer.judged
        BY <3>3
    <3>5. Selected(base, documents)
      <4>1. IsAnswer(base)
          BY <3>3, <3>4 DEF IsAnswer
      <4> QED BY <1>2, <3>4, <4>1 DEF Selected
    <3>6. Numbered(base.claimSet.claims, Members(base.evidence)) /\ Verified(base)
        BY <1>3, <3>4
    <3> QED BY <1>2, <3>2, <3>4, <3>5, <3>6, BuildsLead
  <2> QED BY <2>1, <2>2, <2>3
<1>5. SearchInv'
    BY <1>1, <1>4, SearchRests
<1>6. searchRound = "coverage" => Whole(previous, documents)
    BY <1>1 DEF AnswerInv
<1>7. AnswerInv'
    BY <1>1, <1>4, <1>6 DEF AnswerInv
<1> QED BY <1>4, <1>5, <1>7

(* Positions, and those that continue them.                                  *)
LEMMA PositionsJoin ==
    ASSUME NEW n \in Nat, NEW more \in Seq(Nat), \A i \in 1 .. Len(more) : more[i] = n + i
    PROVE  Positions(n) \o more = Positions(n + Len(more))
<1>1. PICK first, all : first = Positions(n) /\ all = first \o more
    OBVIOUS
<1>2. PICK k \in Nat : k = Len(more)
    OBVIOUS
<1>3. first \in Seq(Nat) /\ Len(first) = n /\ \A i \in 1 .. n : first[i] = i
    BY <1>1 DEF Positions
<1>4. /\ all \in Seq(Nat) /\ Len(all) = n + k
      /\ \A i \in 1 .. n : all[i] = first[i]
      /\ \A i \in n + 1 .. n + k : all[i] = more[i - n]
  <2>1. PICK S : S = Nat
      OBVIOUS
  <2>2. first \in Seq(S) /\ more \in Seq(S)
      BY <1>3, <2>1
  <2>3. /\ all \in Seq(S) /\ Len(all) = Len(first) + Len(more)
        /\ \A i \in 1 .. Len(first) : all[i] = first[i]
        /\ \A i \in Len(first) + 1 .. Len(first) + Len(more) : all[i] = more[i - Len(first)]
      BY <1>1, <2>2, JoinFacts
  <2> QED BY <1>2, <1>3, <2>1, <2>3
<1>5. ASSUME NEW i \in 1 .. n + k PROVE all[i] = i
  <2>1. CASE i \in 1 .. n
      BY <1>3, <1>4, <2>1
  <2>2. CASE i \in n + 1 .. n + k
    <3>1. i - n \in 1 .. k /\ n + (i - n) = i
        BY <2>2
    <3> QED BY <1>2, <1>4, <2>2, <3>1
  <2> QED BY <2>1, <2>2
<1>6. all = [i \in 1 .. n + k |-> i]
    BY <1>4, <1>5
<1> QED BY <1>1, <1>2, <1>6 DEF Positions

(* The ids of claims, and of the first of them.                              *)
LEMMA IdsFacts ==
    ASSUME NEW items, NEW n \in Nat, NEW claims \in Seq(Claims(items)),
           \A i \in 1 .. Len(claims) : claims[i].id = n + i,
           NEW m \in 0 .. Len(claims)
    PROVE  /\ Ids(claims) \in Seq(Nat) /\ Len(Ids(claims)) = Len(claims)
           /\ \A i \in 1 .. Len(claims) : Ids(claims)[i] = n + i
           /\ Ids(SubSeq(claims, 1, m)) \in Seq(1 .. n + Len(claims))
<1>1. PICK k \in Nat : k = Len(claims)
    OBVIOUS
<1>2. PICK part : part = SubSeq(claims, 1, m)
    OBVIOUS
<1>3. part \in Seq(Claims(items)) /\ Len(part) = m /\ \A i \in 1 .. m : part[i] = claims[i]
    BY <1>2, FirstFacts
<1>4. DOMAIN claims = 1 .. k /\ DOMAIN part = 1 .. m
    BY <1>1, <1>3
<1>5. Ids(claims) = [i \in 1 .. k |-> n + i]
    BY <1>1, <1>4 DEF Ids
<1>6. Ids(part) = [i \in 1 .. m |-> n + i]
    BY <1>1, <1>3, <1>4 DEF Ids
<1>7. \A i \in 1 .. m : n + i \in 1 .. n + k
    BY <1>1
<1>8. Ids(part) \in Seq(1 .. n + k)
    BY <1>1, <1>6, <1>7
<1>9. Ids(claims) \in Seq(Nat) /\ Len(Ids(claims)) = k
  <2>1. PICK ids : ids = [i \in 1 .. k |-> n + i]
      OBVIOUS
  <2>2. ids \in [1 .. k -> Nat]
      BY <2>1
  <2>3. ids \in Seq(Nat) /\ Len(ids) = k
      BY <2>2
  <2> QED BY <1>5, <2>1, <2>3
<1> QED BY <1>1, <1>2, <1>5, <1>8, <1>9

(* After the verification every claim is verified, and no other is judged     *)
(* relevant (SemanticCitationVerificationService, ClaimRelevanceEvaluation-    *)
(* Service).                                                                  *)
LEMMA VerifyingKeepsInv ==
    ASSUME SearchInv, AnswerInv, VerifyClaims
    PROVE  phase' = "cover" /\ SearchInv' /\ AnswerInv'
<1>1. /\ phase = "verify" /\ phase' = "cover"
      /\ UNCHANGED <<searchRound, queries, found, candidates, documents, fresh, previous>>
    BY Zenon DEF VerifyClaims, searchVars
<1>2. PICK evaluations \in RelevanceEvaluations(built) :
        answer' = [answer EXCEPT !.verified = @ \o Ids(built), !.relevant = @ \o evaluations]
    BY Zenon DEF VerifyClaims
<1>3. Selected(answer, documents) /\ Claimed(answer) /\ ToVerify(answer, built)
    BY <1>1 DEF AnswerInv
<1>4. PICK items : items = Members(answer.evidence)
    OBVIOUS
<1>5. PICK n \in Nat : /\ VerifiedUpTo(answer, n) /\ Len(answer.claimSet.claims) = n + Len(built)
                       /\ built \in Seq(Claims(items)) /\ \A i \in 1 .. Len(built) : built[i].id = n + i
    BY <1>3, <1>4 DEF ToVerify
<1>6. PICK k \in Nat : k = Len(built)
    BY <1>5
<1>7. PICK m \in 0 .. k : evaluations = Ids(SubSeq(built, 1, m))
  <2>1. PICK m \in 0 .. Min({RelevanceBudget, Len(built)}) : evaluations = Ids(SubSeq(built, 1, m))
      BY DEF RelevanceEvaluations
  <2>2. RelevanceBudget \in Nat
      BY PipelineAssumption
  <2>3. m \in 0 .. k
      BY <1>6, <2>1, <2>2, MinOfTwo
  <2> QED BY <2>1, <2>3
<1>8. /\ Ids(built) \in Seq(Nat) /\ Len(Ids(built)) = k
      /\ \A i \in 1 .. k : Ids(built)[i] = n + i
      /\ evaluations \in Seq(1 .. n + k)
  <2>1. m \in 0 .. Len(built)
      BY <1>6
  <2>2. /\ Ids(built) \in Seq(Nat) /\ Len(Ids(built)) = Len(built)
        /\ \A i \in 1 .. Len(built) : Ids(built)[i] = n + i
        /\ Ids(SubSeq(built, 1, m)) \in Seq(1 .. n + Len(built))
      BY <1>5, <2>1, IdsFacts
  <2> QED BY <1>6, <1>7, <2>2
<1>9. PICK verified, relevant : /\ verified = answer.verified \o Ids(built)
                                /\ relevant = answer.relevant \o evaluations
    OBVIOUS
<1>10. verified = Positions(n + k)
    BY <1>5, <1>8, <1>9, PositionsJoin DEF VerifiedUpTo
<1>11. relevant \in Seq(1 .. n + k)
  <2>1. answer.relevant \in Seq(1 .. n + k)
    <3>1. answer.relevant \in Seq(1 .. n) /\ 1 .. n \subseteq 1 .. n + k
        BY <1>5 DEF VerifiedUpTo
    <3> QED BY <3>1, ListGrows
  <2> QED BY <1>8, <1>9, <2>1, JoinFacts
<1>12. PICK a : a = answer'
    OBVIOUS
<1>13. a = [documents |-> answer.documents, evidence |-> answer.evidence,
            evaluated |-> answer.evaluated, claimSet |-> answer.claimSet, verified |-> verified,
            relevant |-> relevant, level |-> answer.level, judged |-> answer.judged]
    BY <1>2, <1>3, <1>9, <1>12 DEF Selected, IsAnswer
<1>14. /\ a.documents = answer.documents /\ a.evidence = answer.evidence /\ a.evaluated = answer.evaluated
       /\ a.claimSet = answer.claimSet /\ a.verified = verified /\ a.relevant = relevant
       /\ a.level = answer.level /\ a.judged = answer.judged
    BY <1>13
<1>15. Selected(a, documents)
  <2>1. IsAnswer(a)
      BY <1>13, <1>14 DEF IsAnswer
  <2> QED BY <1>3, <1>14, <2>1 DEF Selected
<1>16. Claimed(a)
    BY <1>3, <1>14 DEF Claimed
<1>17. Verified(a)
    BY <1>5, <1>6, <1>10, <1>11, <1>14 DEF Verified, VerifiedUpTo
<1>18. SearchInv'
    BY <1>1, SearchRests
<1>19. searchRound = "coverage" => Whole(previous, documents)
    BY <1>1 DEF AnswerInv
<1>20. AnswerInv'
    BY <1>1, <1>12, <1>15, <1>16, <1>17, <1>19 DEF AnswerInv
<1> QED BY <1>1, <1>18, <1>20

(* The judgment of the coverage is on the claims of the answer                *)
(* (AnswerCoverageEvaluationService.evaluate).                                *)
LEMMA JudgedIsWhole ==
    ASSUME NEW ds, NEW a, Selected(a, ds), Claimed(a), Verified(a), NEW level
    PROVE  Whole(Judged(a, level), ds)
<1>1. PICK r : r = Judged(a, level)
    OBVIOUS
<1>2. Ids(a.claimSet.claims) = Positions(Len(a.claimSet.claims))
    BY ClaimedIsValid
<1>3. r = [documents |-> a.documents, evidence |-> a.evidence, evaluated |-> a.evaluated,
           claimSet |-> a.claimSet, verified |-> a.verified, relevant |-> a.relevant,
           level |-> level, judged |-> Positions(Len(a.claimSet.claims))]
    BY <1>1, <1>2 DEF Judged, Selected, IsAnswer
<1>4. /\ r.documents = a.documents /\ r.evidence = a.evidence /\ r.evaluated = a.evaluated
      /\ r.claimSet = a.claimSet /\ r.verified = a.verified /\ r.relevant = a.relevant
      /\ r.level = level /\ r.judged = Positions(Len(r.claimSet.claims))
    BY <1>3
<1>5. IsAnswer(r)
    BY <1>3, <1>4 DEF IsAnswer
<1>6. Selected(r, ds) /\ Claimed(r) /\ Verified(r)
    BY <1>4, <1>5 DEF Selected, Claimed, Verified, VerifiedUpTo
<1> QED BY <1>1, <1>4, <1>6 DEF Whole

(* The first judgment completes the answer; the second completes the new one  *)
(* or brings back the previous (EvaluateCoverage, CompareCoverage).            *)
LEMMA JudgingKeepsInv ==
    ASSUME SearchInv, AnswerInv, EvaluateCoverage \/ CompareCoverage
    PROVE  phase' \in {"search", "assemble"} /\ SearchInv' /\ AnswerInv'
<1>1. /\ phase = "cover" /\ UNCHANGED <<queries, found, candidates, documents, fresh>>
      /\ \/ phase' = "assemble" /\ searchRound' = searchRound
         \/ /\ phase' = "search" /\ searchRound # "coverage" /\ searchRound' = "coverage"
            /\ pending' = <<"coverage">>
    BY DEF EvaluateCoverage, CompareCoverage, searchVars
<1>2. Selected(answer, documents) /\ Claimed(answer) /\ Verified(answer)
    BY <1>1 DEF AnswerInv
<1>3. Whole(answer', documents)
  <2>1. CASE EvaluateCoverage
      BY <1>2, <2>1, JudgedIsWhole DEF EvaluateCoverage
  <2>2. CASE CompareCoverage
    <3>1. Whole(previous, documents)
        BY <1>1, <2>2 DEF AnswerInv, CompareCoverage
    <3> QED BY <1>2, <2>2, <3>1, JudgedIsWhole DEF CompareCoverage
  <2> QED BY <2>1, <2>2
<1>4. CASE phase' = "assemble" /\ searchRound' = searchRound
  <2>1. SearchInv'
      BY <1>1, <1>4, SearchRests
  <2>2. AnswerInv'
      BY <1>1, <1>3, <1>4 DEF AnswerInv
  <2> QED BY <1>4, <2>1, <2>2
<1>5. CASE /\ phase' = "search" /\ searchRound # "coverage" /\ searchRound' = "coverage"
           /\ pending' = <<"coverage">>
  <2>1. SearchInv'
      BY <1>1, <1>5, SearchBegins
  <2>2. AnswerInv'
      BY <1>1, <1>3, <1>5 DEF AnswerInv
  <2> QED BY <1>5, <2>1, <2>2
<1> QED BY <1>1, <1>4, <1>5

-----------------------------------------------------------------------------
(* The result                                                               *)

(* An answer that may be the result passes every validator and the guardrail  *)
(* (ResearchWorkspace.validate_workspace, ResearchResultGuardrail.validate).   *)
LEMMA WholeIsAccepted ==
    ASSUME SearchInv, phase = "assemble", Whole(answer, documents)
    PROVE  ValidWorkspace /\ GuardrailAccepts /\ CitedSources(answer) \subseteq Members(answer.documents)
<1>1. Selected(answer, documents) /\ Claimed(answer)
    BY DEF Whole
<1>2. /\ ValidEvidenceSet(answer) /\ IsInjective(answer.evaluated)
      /\ Range(answer.evaluated) = Range(answer.documents)
    BY <1>1, SelectedIsValid
<1>3. /\ ValidClaimSet(answer.claimSet) /\ answer.claimSet.evidence = answer.evidence
      /\ \A c \in Range(answer.claimSet.claims) : c.evidence \in Members(answer.evidence)
    BY <1>1, ClaimedIsValid
<1>4. candidates.queries = queries /\ \A c \in candidates.items : c.query \in queries
    BY DEF SearchInv
<1>5. ValidWorkspace
    BY <1>2, <1>3, <1>4 DEF ValidWorkspace
<1>6. CitedSources(answer) \subseteq Members(answer.documents)
  <2>1. Sources(answer.evidence) = Members(answer.documents)
      BY <1>1 DEF Selected, SoundSelection
  <2> QED BY <1>3, <2>1 DEF CitedSources, Sources
<1>7. ASSUME NEW d \in CitedSources(answer) PROVE [query |-> d.query, url |-> d.url] \in candidates.items
  <2>1. answer.documents \in Seq(documents)
      BY <1>1 DEF Selected, SoundSelection
  <2>2. d \in documents
      BY <1>6, <2>1, ListRange
  <2> QED BY <2>2 DEF SearchInv, CandidateOf
<1>8. answer.claimSet.claims # <<>>
    BY <1>1 DEF Claimed
<1> QED BY <1>5, <1>6, <1>7, <1>8 DEF GuardrailAccepts

(* Documents of different pages are as many as their pages.                   *)
LEMMA PagesOfDocuments ==
    ASSUME NEW chosen \in Seq(Document),
           \A i, j \in 1 .. Len(chosen) : chosen[i].url = chosen[j].url => i = j,
           NEW ds \in SUBSET Members(chosen)
    PROVE  /\ Cardinality(Urls(ds)) = Cardinality(ds)
           /\ Cardinality(Urls(Members(chosen))) = Len(chosen)
<1>1. Distinct(chosen) /\ Members(chosen) \subseteq Document
    BY ListRange DEF Distinct
<1>2. ASSUME NEW part \in SUBSET Members(chosen) PROVE Cardinality(Urls(part)) = Cardinality(part)
  <2> DEFINE page == [d \in part |-> d.url]
  <2>1. \A d, e \in part : d.url = e.url => d = e
      BY DEF Members
  <2>2. page \in Injection(part, Urls(part))
      BY <2>1 DEF Injection, IsInjective, Urls
  <2>3. page \in Surjection(part, Urls(part))
      BY DEF Surjection, Urls
  <2>4. ExistsBijection(part, Urls(part))
      BY <2>2, <2>3 DEF ExistsBijection, Bijection
  <2>5. IsFiniteSet(part)
      BY <1>1, DocumentsAreFinite, FS_Subset
  <2> QED BY <2>4, <2>5, FS_Bijection
<1>3. Cardinality(Members(chosen)) = Len(chosen)
    BY <1>1, DocumentsAreFinite, DistinctFacts
<1> QED BY <1>2, <1>3

(* What is assembled is the answer of one round (Assemble).                   *)
LEMMA AssemblingKeepsInv ==
    ASSUME SearchInv, AnswerInv, Assemble
    PROVE  phase' = "write" /\ AnswerOfOneRound'
<1>1. phase = "assemble" /\ answer' = answer /\ passed' = QualityPassed(answer)
      /\ phase' = IF ValidWorkspace /\ GuardrailAccepts THEN "write" ELSE "invalid"
    BY DEF Assemble
<1>2. Whole(answer, documents) /\ documents \subseteq Document
    BY <1>1 DEF AnswerInv, SearchInv
<1>3. ValidWorkspace /\ GuardrailAccepts /\ CitedSources(answer) \subseteq Members(answer.documents)
    BY <1>1, <1>2, WholeIsAccepted
<1>4. Selected(answer, documents) /\ Claimed(answer) /\ Verified(answer)
      /\ answer.judged = Positions(Len(answer.claimSet.claims))
    BY <1>2 DEF Whole
<1>5. Ids(answer.claimSet.claims) = Positions(Len(answer.claimSet.claims))
    BY <1>4, ClaimedIsValid
<1>6. /\ answer.verified = Ids(answer.claimSet.claims) /\ answer.judged = Ids(answer.claimSet.claims)
    BY <1>4, <1>5 DEF Verified, VerifiedUpTo
<1>7. Range(answer.relevant) \subseteq Range(answer.verified)
  <2>1. PICK n : n = Len(answer.claimSet.claims)
      OBVIOUS
  <2>2. answer.relevant \in Seq(1 .. n) /\ answer.verified = Positions(n)
      BY <1>4, <2>1 DEF Verified, VerifiedUpTo
  <2>3. Range(answer.relevant) \subseteq 1 .. n
    <3>1. PICK S, list : S = 1 .. n /\ list = answer.relevant
        OBVIOUS
    <3>2. list \in Seq(S)
        BY <2>2, <3>1
    <3>3. Range(list) \subseteq S
        BY <3>2, ListRange
    <3> QED BY <3>1, <3>3
  <2>4. Range(Positions(n)) = 1 .. n
      BY DEF Range, Positions
  <2> QED BY <2>2, <2>3, <2>4
<1>8. PICK chosen : chosen = answer.documents
    OBVIOUS
<1>9. /\ chosen \in Seq(documents) /\ Len(chosen) <= MaximumSources
      /\ \A i, j \in 1 .. Len(chosen) : chosen[i].url = chosen[j].url => i = j
      /\ Sources(answer.evidence) = Members(chosen)
    BY <1>4, <1>8 DEF Selected, SoundSelection
<1>10. chosen \in Seq(Document)
    BY <1>2, <1>9, ListGrows
<1>11. /\ Range(answer.evaluated) = Range(chosen) /\ Range(chosen) = Members(chosen)
       /\ Range(answer.evidence) = Members(answer.evidence)
    BY <1>4, <1>8, SelectedIsValid
<1>12. /\ Cardinality(Urls(Range(chosen))) = Len(chosen)
       /\ Cardinality(Urls(CitedSources(answer))) = Cardinality(CitedSources(answer))
    BY <1>3, <1>8, <1>9, <1>10, <1>11, PagesOfDocuments
<1>13. {e.document : e \in Range(answer.evidence)} = Range(chosen)
    BY <1>9, <1>11 DEF Sources
<1>14. passed' => Cardinality(Urls(CitedSources(answer))) >= Min({2, MaximumSources})
    BY <1>1, <1>12 DEF QualityPassed
<1>15. phase' = "write"
    BY <1>1, <1>3
<1>16. (CitedSources(answer))' = CitedSources(answer)
    BY <1>1 DEF CitedSources
<1> QED BY <1>1, <1>6, <1>7, <1>8, <1>9, <1>11, <1>12, <1>13, <1>14, <1>15, <1>16 DEF AnswerOfOneRound

(* No stage of run and no step of the writer loses the invariant.             *)
LEMMA PipelineSteps ==
    ASSUME PipelineInv, [PipelineNext]_pipelineVars
    PROVE  PipelineInv'
<1>1. ASSUME phase \in Gathering PROVE SearchInv /\ AnswerInv
    BY <1>1 DEF PipelineInv
<1>2. CASE \/ PlanQueries \/ SearchQuery \/ SearchBlocked
           \/ InitialSearchEnds \/ SupplementalSearchEnds \/ CoverageSearchEnds
  <2>1. phase \in Gathering
      BY <1>2 DEF PlanQueries, SearchQuery, SearchBlocked, InitialSearchEnds, SupplementalSearchEnds,
                  CoverageSearchEnds, GapSearchEnds, Searched, Gathering
  <2>2. phase' \in {"search", "read", "build", "assemble", "failed"}
        /\ (phase' # "failed" => SearchInv' /\ AnswerInv')
      BY <1>1, <1>2, <2>1, SearchingKeepsInv
  <2> QED BY <2>2 DEF PipelineInv, AssembledSetsFit, AnswerOfOneRound, Gathering
<1>3. CASE ReadInitial \/ ReadSupplemental \/ ReadCoverage
  <2>1. phase \in Gathering
      BY <1>3 DEF ReadInitial, ReadSupplemental, ReadCoverage, Read, Gathering
  <2>2. phase' \in {"select", "select_novel", "assemble", "failed"}
        /\ (phase' # "failed" => SearchInv' /\ AnswerInv')
      BY <1>1, <1>3, <2>1, ReadingKeepsInv
  <2> QED BY <2>2 DEF PipelineInv, AssembledSetsFit, AnswerOfOneRound, Gathering
<1>4. CASE SelectInitial \/ SelectSupplemental \/ SelectNovel
  <2>1. phase \in Gathering
      BY <1>4 DEF SelectInitial, SelectSupplemental, SelectNovel, Gathering
  <2>2. phase' \in {"search", "build", "select_merged"} /\ SearchInv' /\ AnswerInv'
      BY <1>1, <1>4, <2>1, SelectingKeepsInv, SelectingNovelKeepsInv
  <2> QED BY <2>2 DEF PipelineInv, AssembledSetsFit, AnswerOfOneRound, Gathering
<1>5. CASE SelectMerged
  <2>1. phase \in Gathering
      BY <1>5, Zenon DEF SelectMerged, Gathering
  <2>2. phase' \in {"assemble", "build"} /\ SearchInv' /\ AnswerInv'
      BY <1>1, <1>5, <2>1, MergingKeepsInv
  <2> QED BY <2>2 DEF PipelineInv, AssembledSetsFit, AnswerOfOneRound, Gathering
<1>6. CASE BuildFirst \/ BuildIncremental \/ BuildAgain
  <2>1. phase \in Gathering
      BY <1>6 DEF BuildFirst, BuildIncremental, BuildAgain, Gathering
  <2>2. phase' = "verify" /\ SearchInv' /\ AnswerInv'
      BY <1>1, <1>6, <2>1, BuildingKeepsInv
  <2> QED BY <2>2 DEF PipelineInv, AssembledSetsFit, AnswerOfOneRound, Gathering
<1>7. CASE VerifyClaims
  <2>1. phase \in Gathering
      BY <1>7, Zenon DEF VerifyClaims, Gathering
  <2>2. phase' = "cover" /\ SearchInv' /\ AnswerInv'
      BY <1>1, <1>7, <2>1, VerifyingKeepsInv
  <2> QED BY <2>2 DEF PipelineInv, AssembledSetsFit, AnswerOfOneRound, Gathering
<1>8. CASE EvaluateCoverage \/ CompareCoverage
  <2>1. phase \in Gathering
      BY <1>8 DEF EvaluateCoverage, CompareCoverage, Gathering
  <2>2. phase' \in {"search", "assemble"} /\ SearchInv' /\ AnswerInv'
      BY <1>1, <1>8, <2>1, JudgingKeepsInv
  <2> QED BY <2>2 DEF PipelineInv, AssembledSetsFit, AnswerOfOneRound, Gathering
<1>9. CASE Assemble
  <2>1. phase \in Gathering
      BY <1>9 DEF Assemble, Gathering
  <2>2. phase' = "write" /\ AnswerOfOneRound'
      BY <1>1, <1>9, <2>1, AssemblingKeepsInv
  <2> QED BY <2>2 DEF PipelineInv, AssembledSetsFit, Gathering
<1>10. CASE \/ NoEvidenceFound \/ ComponentRaises
            \/ MakeDirectory \/ PrepareTempFile \/ InstallArtifact \/ SyncDirectory
            \/ WriteFails \/ UnlinkTemps \/ UnlinkInstalled \/ RemoveDirectory \/ ProcessStops
  <2>1. phase' \in {"failed", "store", "done", "cleanup", "unlink", "stopped"}
      BY <1>10 DEF NoEvidenceFound, ComponentRaises, MakeDirectory, PrepareTempFile, InstallArtifact,
                   SyncDirectory, WriteFails, UnlinkTemps, UnlinkInstalled, RemoveDirectory, ProcessStops
  <2> QED BY <2>1 DEF PipelineInv, AssembledSetsFit, AnswerOfOneRound, Gathering
<1>11. CASE UNCHANGED pipelineVars
  <2>1. UNCHANGED <<phase, searchRound, pending, found, queries, candidates, documents, fresh, novel,
                    answer, previous, built, passed>>
      BY <1>11 DEF pipelineVars
  <2>2. phase \in Gathering => SearchInv'
      BY <1>1, <2>1 DEF SearchInv, RoundQueries, Urls
  <2>3. phase \in Gathering => AnswerInv'
      BY <1>1, <2>1 DEF AnswerInv
  <2>4. AssembledSetsFit' /\ AnswerOfOneRound'
      BY <2>1 DEF PipelineInv, AssembledSetsFit, AnswerOfOneRound, CitedSources
  <2> QED BY <2>1, <2>2, <2>3, <2>4 DEF PipelineInv
<1> QED BY <1>2, <1>3, <1>4, <1>5, <1>6, <1>7, <1>8, <1>9, <1>10, <1>11 DEF PipelineNext

(* The invariant of the pipeline.                                            *)
THEOREM PipelineInvariance == PipelineSpec => []PipelineInv
<1>1. PipelineInit => PipelineInv
  <2> SUFFICES ASSUME PipelineInit PROVE PipelineInv
      OBVIOUS
  <2>1. /\ phase = "plan" /\ searchRound = "initial" /\ queries = {} /\ found = {} /\ documents = {}
        /\ fresh = {} /\ candidates.items = {} /\ answer = NoAnswer
      BY DEF PipelineInit
  <2>2. SearchInv
      BY <2>1 DEF SearchInv, Urls
  <2>3. AnswerInv
      BY <2>1 DEF AnswerInv
  <2> QED BY <2>1, <2>2, <2>3 DEF PipelineInv, AssembledSetsFit, AnswerOfOneRound
<1>2. PipelineInv /\ [PipelineNext]_pipelineVars => PipelineInv'
    BY PipelineSteps
<1> QED BY <1>1, <1>2, PTL DEF PipelineSpec

(* Of any web, any queries and any limits, no validator of the evidence set,   *)
(* the claim set or the workspace and no check of the guardrail rejects what   *)
(* run assembled (SingleResearchAgentPipeline.run).                           *)
THEOREM AssembledAnswersFit == PipelineSpec => []AssembledSetsFit
<1>1. PipelineInv => AssembledSetsFit
    BY DEF PipelineInv
<1> QED BY <1>1, PipelineInvariance, PTL

(* And what it returns is the answer of one round: every claim verified, the   *)
(* coverage judged on exactly these claims, every document evaluated and with  *)
(* evidence, and passed only with enough sources cited (run, CompareCoverage). *)
THEOREM AnswersAreOfOneRound == PipelineSpec => []AnswerOfOneRound
<1>1. PipelineInv => AnswerOfOneRound
    BY DEF PipelineInv
<1> QED BY <1>1, PipelineInvariance, PTL

-----------------------------------------------------------------------------
(* The sources of the supplemental round                                    *)

(* The documents of the initial round.                                       *)
FirstDocuments == {d \in documents : d.query # "supplemental"}

(* The selected documents were eligible among those of the initial round, and  *)
(* the cache knows that they bear evidence.                                   *)
SupplementInv ==
    /\ phase \in {"plan", "search", "read", "select"} /\ searchRound = "initial" =>
          "supplemental" \notin queries
    /\ phase \in {"search", "read", "select"} /\ searchRound = "supplemental" =>
          /\ Members(answer.documents) \subseteq Eligible(FirstDocuments)
          /\ \A d \in Members(answer.documents) : d \in DOMAIN cache /\ cache[d] > 0
          /\ \A c \in found : c.query = "supplemental"

(* What was selected stays known to bear evidence (_select_documents_with_-    *)
(* evidence, evidence_cache).                                                 *)
LEMMA SelectedIsRemembered ==
    ASSUME NEW ds, ds \subseteq Document, NEW selection \in Selections(ds), NEW d \in Members(selection.documents)
    PROVE  d \in Eligible(ds) /\ d \in DOMAIN selection.cache /\ selection.cache[d] > 0
<1>1. PICK ranking, items : Selecting(ds, selection, ranking, items)
    BY SelectionsSelect
<1>2. PICK s \in Tried(Eligible(ds), items) :
          selection.documents = s.documents /\ selection.cache = Remember(items, s.attempted)
    BY <1>1 DEF Selecting
<1>3. d \in s.attempted /\ s.attempted \subseteq Eligible(ds) /\ items[d] > 0
    BY <1>2 DEF Tried, SelectionsAmong
<1>4. selection.cache = [e \in DOMAIN cache \cup s.attempted |-> IF e \in DOMAIN cache THEN cache[e] ELSE items[e]]
    BY <1>2 DEF Remember
<1>5. d \in DOMAIN cache => items[d] = cache[d]
    BY <1>1, <1>3 DEF Selecting
<1> QED BY <1>3, <1>4, <1>5

(* The stages keep this invariant (SingleResearchAgentPipeline.run).          *)
LEMMA SupplementSteps ==
    ASSUME PipelineInv, SupplementInv, [PipelineNext]_pipelineVars
    PROVE  SupplementInv'
<1>1. ASSUME phase \in {"plan", "search", "read", "select"} PROVE SearchInv /\ AnswerInv
    BY <1>1 DEF PipelineInv, Gathering
<1>2. CASE PlanQueries
  <2>1. phase' = "search" /\ searchRound' = searchRound /\ queries' = Range(InitialQueries) /\ phase = "plan"
      BY <1>2 DEF PlanQueries
  <2>2. searchRound = "initial"
      BY <1>1, <2>1 DEF SearchInv
  <2>3. "supplemental" \notin Range(InitialQueries)
    <3>1. InitialQueries \in Seq(STRING \ {"supplemental", "coverage"})
        BY PipelineAssumption
    <3>2. Range(InitialQueries) \subseteq STRING \ {"supplemental", "coverage"}
        BY <3>1, ListRange
    <3> QED BY <3>2
  <2> QED BY <2>1, <2>2, <2>3 DEF SupplementInv
<1>3. CASE SearchQuery \/ SearchBlocked
  <2>1. /\ phase = "search" /\ phase' = phase
        /\ UNCHANGED <<searchRound, queries, documents, answer, cache>>
      BY <1>3 DEF SearchQuery, SearchBlocked, answerVars
  <2>2. searchRound = "supplemental" => \A c \in found' : c.query = "supplemental"
    <3> SUFFICES ASSUME searchRound = "supplemental" PROVE \A c \in found' : c.query = "supplemental"
        OBVIOUS
    <3>1. \A c \in found : c.query = "supplemental"
        BY <2>1 DEF SupplementInv
    <3>2. CASE SearchQuery
      <4>1. PICK result \in SearchResults(Head(pending)) : found' = found \cup result
          BY <3>2 DEF SearchQuery
      <4>2. pending \in Seq({"supplemental"}) /\ pending # <<>>
          BY <1>1, <2>1, <3>2 DEF SearchInv, RoundQueries, SearchQuery
      <4>3. Head(pending) = "supplemental"
          BY <4>2, HeadAndTail
      <4>4. \A c \in result : c.query = "supplemental"
          BY <4>1, <4>3 DEF SearchResults
      <4> QED BY <3>1, <4>1, <4>4
    <3>3. CASE SearchBlocked
        BY <3>1, <3>3 DEF SearchBlocked
    <3> QED BY <1>3, <3>2, <3>3
  <2> QED BY <2>1, <2>2 DEF SupplementInv, FirstDocuments, Eligible, Successful
<1>4. CASE InitialSearchEnds
  <2>1. phase = "search" /\ searchRound = "initial" /\ searchRound' = searchRound /\ queries' = queries
      BY <1>4 DEF InitialSearchEnds, Searched
  <2> QED BY <2>1 DEF SupplementInv
<1>5. CASE SupplementalSearchEnds
  <2>1. /\ phase = "search" /\ searchRound = "supplemental" /\ searchRound' = searchRound
        /\ found' \subseteq found /\ UNCHANGED <<documents, answer, cache>>
      BY <1>5 DEF SupplementalSearchEnds, GapSearchEnds, Searched, NovelCandidates, answerVars
  <2> QED BY <2>1 DEF SupplementInv, FirstDocuments, Eligible, Successful
<1>6. CASE ReadInitial
  <2>1. phase = "read" /\ searchRound = "initial" /\ searchRound' = searchRound /\ queries' = queries
      BY <1>6 DEF ReadInitial, Read
  <2> QED BY <2>1 DEF SupplementInv
<1>7. CASE ReadSupplemental
  <2>1. PICK ds \in DocumentSets(found) : documents' = MergeDocumentSets(documents, ds)
      BY <1>7 DEF ReadSupplemental
  <2>2. /\ phase = "read" /\ searchRound = "supplemental" /\ searchRound' = searchRound /\ found' = {}
        /\ UNCHANGED <<answer, cache>>
      BY <1>7 DEF ReadSupplemental, Read, answerVars
  <2>3. \A d \in ds : d.query = "supplemental"
    <3>1. found \subseteq Candidate
        BY <1>1, <2>2 DEF SearchInv
    <3>2. \A d \in ds : CandidateOf(d) \in found
        BY <3>1, DocumentsHaveCandidates
    <3>3. \A d \in ds : CandidateOf(d).query = d.query
        BY DEF CandidateOf
    <3> QED BY <2>2, <3>2, <3>3 DEF SupplementInv
  <2>4. FirstDocuments' = FirstDocuments
      BY <2>1, <2>3 DEF FirstDocuments, MergeDocumentSets
  <2>5. (Eligible(FirstDocuments))' = Eligible(FirstDocuments)
      BY <2>4 DEF Eligible, Successful
  <2> QED BY <2>2, <2>5 DEF SupplementInv
<1>8. CASE SelectInitial
  <2>1. phase = "select" /\ searchRound = "initial" /\ documents' = documents /\ found' = found
      BY <1>8 DEF SelectInitial
  <2>2. PICK selection \in Selections(documents) :
            answer' = WithSelection(answer, selection) /\ cache' = selection.cache
      BY <1>8 DEF SelectInitial
  <2>3. answer = NoAnswer /\ documents \subseteq Document /\ found = {}
      BY <1>1, <2>1 DEF AnswerInv, SearchInv
  <2>4. answer'.documents = selection.documents
      BY <2>2, <2>3 DEF WithSelection, NoAnswer
  <2>5. FirstDocuments' = documents
    <3>1. ASSUME NEW d \in documents PROVE d.query # "supplemental"
      <4>1. CandidateOf(d) \in candidates.items
          BY <1>1, <2>1 DEF SearchInv
      <4>2. CandidateOf(d).query \in queries
          BY <1>1, <2>1, <4>1 DEF SearchInv
      <4>3. CandidateOf(d).query = d.query
          BY DEF CandidateOf
      <4> QED BY <2>1, <4>2, <4>3 DEF SupplementInv
    <3> QED BY <2>1, <3>1 DEF FirstDocuments
  <2>6. (Eligible(FirstDocuments))' = Eligible(documents)
      BY <2>5 DEF Eligible, Successful
  <2>7. \A d \in Members(answer'.documents) :
            d \in Eligible(documents) /\ d \in DOMAIN cache' /\ cache'[d] > 0
      BY <2>2, <2>3, <2>4, SelectedIsRemembered
  <2>8. phase' \in {"search", "build"} /\ (phase' = "search" => searchRound' = "supplemental")
      BY <1>8 DEF SelectInitial
  <2> QED BY <2>1, <2>3, <2>6, <2>7, <2>8 DEF SupplementInv
<1>9. CASE CoverageSearchEnds \/ ReadCoverage \/ EvaluateCoverage
  <2>1. phase' \notin {"plan", "search", "read", "select"} \/ searchRound' = "coverage"
      BY <1>9 DEF CoverageSearchEnds, GapSearchEnds, Searched, ReadCoverage, Read, EvaluateCoverage
  <2> QED BY <2>1 DEF SupplementInv
<1>10. CASE \/ SelectSupplemental \/ SelectNovel \/ NoEvidenceFound
            \/ BuildFirst \/ BuildIncremental \/ BuildAgain \/ CompareCoverage
            \/ Assemble \/ ComponentRaises
            \/ MakeDirectory \/ PrepareTempFile \/ InstallArtifact \/ SyncDirectory
            \/ WriteFails \/ UnlinkTemps \/ UnlinkInstalled \/ RemoveDirectory \/ ProcessStops
  <2>1. phase' \notin {"plan", "search", "read", "select"}
      BY <1>10 DEF SelectSupplemental, SelectNovel, NoEvidenceFound, BuildFirst, BuildIncremental,
                   BuildAgain, Builds, CompareCoverage, Assemble, ComponentRaises,
                   MakeDirectory, PrepareTempFile, InstallArtifact, SyncDirectory, WriteFails,
                   UnlinkTemps, UnlinkInstalled, RemoveDirectory, ProcessStops
  <2> QED BY <2>1 DEF SupplementInv
<1>11. CASE SelectMerged \/ VerifyClaims
  <2>1. phase' \in {"assemble", "build", "invalid", "cover"}
      BY <1>11, Zenon DEF SelectMerged, VerifyClaims
  <2> QED BY <2>1 DEF SupplementInv
<1>12. CASE UNCHANGED pipelineVars
  <2>1. UNCHANGED <<phase, searchRound, queries, documents, answer, cache, found>>
      BY <1>12 DEF pipelineVars
  <2> QED BY <2>1 DEF SupplementInv, FirstDocuments, Eligible, Successful
<1> QED BY <1>2, <1>3, <1>4, <1>5, <1>6, <1>7, <1>8, <1>9, <1>10, <1>11, <1>12 DEF PipelineNext

(* The second selection takes every document of the first that is still        *)
(* eligible and whose page no other one shares, or is full (SelectSupplemental). *)
LEMMA SecondSelectionKeepsSources ==
    ASSUME SearchInv, AnswerInv, SupplementInv, phase = "select", searchRound = "supplemental",
           SelectSupplemental,
           NEW d \in Range(answer.documents), d \in Eligible(documents),
           \A e \in Eligible(documents) : e.url = d.url => e = d
    PROVE  d \in Range(answer'.documents) \/ Len(answer'.documents) >= MaximumSources
<1>1. PICK selection \in Selections(documents) : answer' = WithSelection(answer, selection)
    BY DEF SelectSupplemental
<1>2. Selected(answer, documents) /\ documents \subseteq Document
    BY DEF AnswerInv, SearchInv
<1>3. answer'.documents = selection.documents
    BY <1>1, <1>2 DEF WithSelection, Selected, IsAnswer
<1>4. /\ Range(answer.documents) = Members(answer.documents)
      /\ Range(selection.documents) = Members(selection.documents)
  <2>1. answer.documents \in Seq(documents)
      BY <1>2 DEF Selected, SoundSelection
  <2>2. selection.documents \in Seq(documents)
      BY <1>2, SelectionsAreSound DEF SoundSelection
  <2> QED BY <2>1, <2>2, ListRange
<1>5. PICK ranking, items : Selecting(documents, selection, ranking, items)
    BY <1>2, SelectionsSelect
<1>6. PICK R : R = Eligible(documents)
    OBVIOUS
<1>7. items[d] > 0
  <2>1. d \in DOMAIN cache /\ cache[d] > 0
      BY <1>4 DEF SupplementInv
  <2>2. items[d] = cache[d]
      BY <1>5, <2>1 DEF Selecting
  <2> QED BY <2>1, <2>2
<1>8. PICK n \in Nat : n = Len(ranking)
    BY <1>5 DEF Selecting
<1>9. /\ ranking \in [1 .. n -> R] /\ Range(ranking) = R /\ items \in [R -> Nat]
      /\ selection.documents = SelectInOrder(ranking, items).documents
    BY <1>5, <1>6, <1>8 DEF Selecting
<1>10. Len(selection.documents) >= MaximumSources \/ d \in Members(selection.documents)
    BY <1>6, <1>7, <1>9, SelectionIsExhaustive
<1> QED BY <1>3, <1>4, <1>10

(* What the supplemental search can cost, of any web, queries and limits: a     *)
(* document with evidence is lost only if it is no longer eligible, if the      *)
(* selection is full, or to another document of its page                        *)
(* (_should_run_supplemental_search, SelectSupplemental).                       *)
THEOREM SupplementsKeepSources == PipelineSpec => SupplementKeepsSources
<1>1. PipelineInit => SupplementInv
    BY DEF PipelineInit, SupplementInv
<1>2. PipelineInv /\ SupplementInv /\ [PipelineNext]_pipelineVars => SupplementInv'
    BY SupplementSteps
<1>3. PipelineInv /\ SupplementInv /\ [PipelineNext]_pipelineVars =>
        (phase = "select" /\ searchRound = "supplemental" /\ phase' = "build" =>
            \A d \in Range(answer.documents) :
                \/ d \in Range(answer'.documents)
                \/ d \notin Eligible(documents)
                \/ Len(answer'.documents) >= MaximumSources
                \/ \E e \in Eligible(documents) : e # d /\ e.url = d.url)
  <2> SUFFICES ASSUME PipelineInv, SupplementInv, [PipelineNext]_pipelineVars,
                      phase = "select", searchRound = "supplemental", phase' = "build",
                      NEW d \in Range(answer.documents), d \in Eligible(documents),
                      \A e \in Eligible(documents) : e.url = d.url => e = d
               PROVE  d \in Range(answer'.documents) \/ Len(answer'.documents) >= MaximumSources
      OBVIOUS
  <2>1. SelectSupplemental
    <3>1. phase' # phase
        OBVIOUS
    <3>2. PipelineNext
        BY <3>1 DEF pipelineVars
    <3>3. ~(\/ PlanQueries \/ SearchQuery \/ SearchBlocked
            \/ InitialSearchEnds \/ SupplementalSearchEnds \/ CoverageSearchEnds
            \/ ReadInitial \/ ReadSupplemental \/ ReadCoverage \/ SelectInitial \/ SelectNovel)
        BY DEF PlanQueries, SearchQuery, SearchBlocked, InitialSearchEnds, SupplementalSearchEnds,
               CoverageSearchEnds, GapSearchEnds, Searched, ReadInitial, ReadSupplemental, ReadCoverage,
               Read, SelectInitial, SelectNovel
    <3>4. ~(\/ NoEvidenceFound \/ BuildFirst \/ BuildIncremental \/ BuildAgain
            \/ EvaluateCoverage \/ CompareCoverage \/ Assemble \/ ComponentRaises
            \/ MakeDirectory \/ PrepareTempFile \/ InstallArtifact \/ SyncDirectory
            \/ WriteFails \/ UnlinkTemps \/ UnlinkInstalled \/ RemoveDirectory \/ ProcessStops)
        BY DEF NoEvidenceFound, BuildFirst, BuildIncremental, BuildAgain, EvaluateCoverage,
               CompareCoverage, Assemble, ComponentRaises, MakeDirectory, PrepareTempFile,
               InstallArtifact, SyncDirectory, WriteFails, UnlinkTemps, UnlinkInstalled,
               RemoveDirectory, ProcessStops
    <3>5. ~(SelectMerged \/ VerifyClaims)
        BY Zenon DEF SelectMerged, VerifyClaims
    <3> QED BY <3>2, <3>3, <3>4, <3>5 DEF PipelineNext
  <2>2. SearchInv /\ AnswerInv
      BY DEF PipelineInv, Gathering
  <2> QED BY <2>1, <2>2, SecondSelectionKeepsSources
<1> QED BY <1>1, <1>2, <1>3, PipelineInvariance, PTL DEF PipelineSpec, SupplementKeepsSources
=============================================================================
