----------------------------- MODULE MCPlanning -----------------------------
(* Requests that meet each limit: fewer cycles than steps, one step or two a *)
(* cycle, a sequential plan with a tool for every step, one replacement or    *)
(* two, new steps beside active ones.                                         *)
EXTENDS Planning

CONSTANT search

MCRequest ==
    {[maximum_steps |-> 3, allow_parallel |-> TRUE, require_tool |-> FALSE, maximum_replans |-> 1,
      maximum_cycles |-> 3, maximum_selected |-> 1, allow_active |-> FALSE],
     [maximum_steps |-> 3, allow_parallel |-> TRUE, require_tool |-> FALSE, maximum_replans |-> 0,
      maximum_cycles |-> 3, maximum_selected |-> 2, allow_active |-> TRUE],
     [maximum_steps |-> 2, allow_parallel |-> FALSE, require_tool |-> TRUE, maximum_replans |-> 2,
      maximum_cycles |-> 1, maximum_selected |-> 1, allow_active |-> FALSE]}
=============================================================================
