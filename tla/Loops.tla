-------------------------------- MODULE Loops --------------------------------
(***************************************************************************)
(* The loops of the code, as functions that facts can be proved about.      *)
(***************************************************************************)
EXTENDS Naturals, Sequences

(* What a loop with N rounds makes of start: round n makes step[<<n, value>>] *)
(* of the value it finds.                                                    *)
Loop(start, step, N) ==
    LET after[n \in 0 .. N] == IF n = 0 THEN start ELSE step[<<n, after[n - 1]>>]
    IN  after[N]

(* The members of a list, and those of them that are in a set, in their       *)
(* order: [x for x in list if x in set].                                     *)
Members(list) == {list[i] : i \in 1 .. Len(list)}

Kept(list, set) ==
    LET keep == [at \in (1 .. Len(list)) \X Seq(Members(list)) |->
                    IF list[at[1]] \in set THEN Append(at[2], list[at[1]]) ELSE at[2]]
    IN  Loop(<<>>, keep, Len(list))
=============================================================================
