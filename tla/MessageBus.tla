----------------------------- MODULE MessageBus -----------------------------
(***************************************************************************)
(* The in-memory message bus of the research agents, the agent registry it  *)
(* asks, and the manager that dispatches tasks over it.  Every call is one    *)
(* step: nothing in the repository uses the bus from several threads.         *)
(*                                                                         *)
(* A message carries one delivery per recipient.  publish stores the message *)
(* first and creates the deliveries one by one; a delivery id factory that    *)
(* returns an id in use makes it raise on the way.  A message id is refused   *)
(* for good once it is taken, so a message is named by its place in the       *)
(* order of publication.  Deliveries outlive the registration of their        *)
(* recipient.  attempt_count is 1 from the receive on and is left out, and so *)
(* are the queries.                                                           *)
(***************************************************************************)
EXTENDS FiniteSets, SequencesExt, Loops

CONSTANTS Agent,       \* agents that may be registered
          Manager,     \* the research manager
          Specialist,  \* agents whose profile qualifies them for the task
          MaxMessages, \* bound on published messages
          Priority,    \* message priorities, larger is more urgent
          MaxLimit,    \* bound on the limit of receive
          MaxChanges   \* bound on changes of the registry

ASSUME BusAssumption ==
    /\ IsFiniteSet(Agent) /\ Manager \in Agent
    /\ Specialist \subseteq Agent \ {Manager}
    /\ Priority \subseteq Nat /\ MaxMessages \in Nat
    /\ MaxLimit \in Nat \ {0} /\ MaxChanges \in Nat

VARIABLES agents,    \* registered agents in the order of registration
          messages,  \* messages in the order of publication
          changes    \* registrations and removals so far

busVars == <<agents, messages, changes>>

Registered == {agents[i] : i \in 1 .. Len(agents)}

DeliveryOpen == {"pending", "delivered", "processing"}
DeliveryClosed == {"acknowledged", "failed", "cancelled"}

BusInit ==
    /\ agents = SetToSeq(Agent \ Specialist)
    /\ messages = <<>>
    /\ changes = 0

-----------------------------------------------------------------------------
(* The registry.                                                            *)
RegisterAgent ==
    /\ changes < MaxChanges
    /\ \E a \in Agent \ Registered : agents' = Append(agents, a)
    /\ changes' = changes + 1
    /\ UNCHANGED messages

UnregisterAgent ==
    /\ changes < MaxChanges
    /\ \E a \in Registered : agents' = Kept(agents, Agent \ {a})
    /\ changes' = changes + 1
    /\ UNCHANGED messages

-----------------------------------------------------------------------------
(* A plausible slip: the sender's place in the list ends the list.           *)
RecipientsBefore(sender, to) ==
    IF to = Agent
    THEN SubSeq(agents, 1, (CHOOSE i \in 1 .. Len(agents) : agents[i] = sender) - 1)
    ELSE Kept(agents, to)

(* _resolve_recipients: a broadcast (to = Agent) goes to every registered    *)
(* agent but the sender, a direct message to its recipient.                   *)
Recipients(sender, to) ==
    Kept(agents, IF to = Agent THEN Agent \ {sender} ELSE to)

(* publish: the first n deliveries are created, and when not all are, the    *)
(* call has raised.  intended and raised are history.                         *)
Publish(sender, to, priority, n) ==
    LET recipients == Recipients(sender, to)
        served == {recipients[i] : i \in 1 .. n}
    IN  /\ Len(messages) < MaxMessages
        /\ sender \in Registered
        /\ to # Agent => to \subseteq Registered \ {sender}
        /\ n \in 0 .. Len(recipients)
        /\ messages' = Append(messages,
               [sender |-> sender, priority |-> priority,
                intended |-> (to \intersect Registered) \ (IF to = Agent THEN {sender} ELSE {}),
                raised |-> n < Len(recipients),
                delivery |-> [a \in Agent |-> IF a \in served THEN "pending" ELSE "none"]])
        /\ UNCHANGED <<agents, changes>>

PublishMessage ==
    \E sender \in Agent, priority \in Priority, n \in 0 .. Cardinality(Agent) :
        \E to \in {{a} : a \in Agent} \union {Agent} : Publish(sender, to, priority, n)

(* dispatch: the first qualified specialist the manager may delegate to.     *)
Assignee == Head(Kept(agents, Specialist))

DispatchTask ==
    /\ Manager \in Registered
    /\ Specialist \intersect Registered # {}
    /\ \E priority \in Priority, n \in 0 .. 1 :
           Publish(Manager, {Assignee}, priority, n)

-----------------------------------------------------------------------------
(* _delivery_sort_key.                                                      *)
MoreUrgent(m, n) ==
    \/ messages[m].priority > messages[n].priority
    \/ messages[m].priority = messages[n].priority /\ m < n

Pending(a) == {m \in 1 .. Len(messages) : messages[m].delivery[a] = "pending"}

(* The deliveries pending_deliveries[:limit] holds after the sort.          *)
Taken(a, limit) ==
    {m \in Pending(a) : Cardinality({n \in Pending(a) : MoreUrgent(n, m)}) < limit}

Receive ==
    \E a \in Registered, limit \in 1 .. MaxLimit :
        /\ Pending(a) # {}
        /\ messages' = [m \in 1 .. Len(messages) |->
               IF m \in Taken(a, limit) THEN [messages[m] EXCEPT !.delivery[a] = "delivered"]
               ELSE messages[m]]
        /\ UNCHANGED <<agents, changes>>

(* start_processing, acknowledge and fail by the recipient, while it is       *)
(* registered.                                                                *)
Process(from, to) ==
    \E m \in 1 .. Len(messages) : \E a \in Registered :
        /\ messages[m].delivery[a] = from
        /\ messages' = [messages EXCEPT ![m].delivery[a] = to]
        /\ UNCHANGED <<agents, changes>>

StartProcessing == Process("delivered", "processing")
Acknowledge == Process("processing", "acknowledged")
FailDelivery == Process("processing", "failed")

(* cancel, by anyone and whether or not the recipient is registered.        *)
CancelDelivery ==
    \E m \in 1 .. Len(messages) : \E a \in Agent :
        /\ messages[m].delivery[a] \in DeliveryOpen
        /\ messages' = [messages EXCEPT ![m].delivery[a] = "cancelled"]
        /\ UNCHANGED <<agents, changes>>

BusNext ==
    \/ RegisterAgent \/ UnregisterAgent
    \/ PublishMessage \/ DispatchTask
    \/ Receive \/ StartProcessing \/ Acknowledge \/ FailDelivery \/ CancelDelivery

BusSpec == BusInit /\ [][BusNext]_busVars

-----------------------------------------------------------------------------
(* A message the bus keeps has a delivery for each recipient it was meant    *)
(* for and for nobody else, whatever is registered or removed later; only a  *)
(* publish that raised leaves recipients out, and then for good, because its *)
(* message id stays taken (publish, _create_delivery).                        *)
DeliveriesMatchPublish ==
    \A m \in 1 .. Len(messages) :
        LET served == {a \in Agent : messages[m].delivery[a] # "none"}
        IN  /\ served \subseteq messages[m].intended
            /\ served # messages[m].intended => messages[m].raised
=============================================================================
