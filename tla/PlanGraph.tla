----------------------------- MODULE PlanGraph ------------------------------
(***************************************************************************)
(* The dependency graph of a plan: deps[i] is the set of places, in the     *)
(* list of steps, of the steps that step i depends on.  The schemas refuse   *)
(* a step that depends on itself or on a step that is not in the list.       *)
(***************************************************************************)
EXTENDS Naturals, Sequences, FiniteSets, Loops

Steps(deps) == 1 .. Len(deps)

(* The members of a set of steps in the order of the list.                  *)
Listed(deps, set) == Kept([i \in Steps(deps) |-> i], set)

(* A plausible slip in the order below: a step enters the queue with the     *)
(* first of its dependencies.                                                *)
NewlyReadyEager(deps, queue, k) ==
    {i \in Steps(deps) : queue[k] \in deps[i] /\ i \notin Members(queue)}

(* The steps whose last dependency is the k-th that leaves the queue: the     *)
(* indegree of these falls to zero.                                          *)
NewlyReady(deps, queue, k) ==
    {i \in Steps(deps) : queue[k] \in deps[i] /\ deps[i] \subseteq {queue[j] : j \in 1 .. k}}

(* _topological_order.  The order in which steps leave the queue is the order *)
(* in which they entered it, so one sequence is both the queue and the result.*)
TopologicalOrder(deps) ==
    LET taken(k, queue) == IF k > Len(queue) THEN queue
                           ELSE queue \o Listed(deps, NewlyReady(deps, queue, k))
        take == [at \in Steps(deps) \X Seq(Steps(deps)) |-> taken(at[1], at[2])]
        order == Loop(Listed(deps, {i \in Steps(deps) : deps[i] = {}}), take, Len(deps))
    IN  IF Len(order) = Len(deps) THEN order ELSE <<>>

(* _has_parallel_steps: complete the only ready step until none is ready or   *)
(* several are.                                                              *)
Ready(deps, completed) == {i \in Steps(deps) \ completed : deps[i] \subseteq completed}

HasParallelSteps(deps) ==
    LET completedWith(completed) == IF Cardinality(Ready(deps, completed)) = 1
                                    THEN completed \union Ready(deps, completed) ELSE completed
        complete == [at \in Steps(deps) \X SUBSET Steps(deps) |-> completedWith(at[2])]
    IN  Cardinality(Ready(deps, Loop({}, complete, Len(deps)))) > 1

-----------------------------------------------------------------------------
(* Reference definitions.                                                    *)

(* Some steps wait for each other.                                           *)
Cyclic(deps) == \E S \in SUBSET Steps(deps) : S # {} /\ \A i \in S : deps[i] \intersect S # {}

(* The sequence names every step once, each after all it depends on.         *)
RunsInOrder(deps, order) ==
    /\ Len(order) = Len(deps)
    /\ {order[j] : j \in 1 .. Len(order)} = Steps(deps)
    /\ \A j \in 1 .. Len(order) : deps[order[j]] \subseteq {order[k] : k \in 1 .. j - 1}

(* After some legal progress two unfinished steps have all they depend on.   *)
CanRunTogether(deps) ==
    \E done \in SUBSET Steps(deps) :
        /\ \A i \in done : deps[i] \subseteq done
        /\ \E i, j \in Steps(deps) \ done : i # j /\ deps[i] \union deps[j] \subseteq done

=============================================================================
