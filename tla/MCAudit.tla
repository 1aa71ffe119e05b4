------------------------------ MODULE MCAudit -------------------------------
(* The audit tool: its trust state files and its log, and the checkpoints of  *)
(* the log with their witnesses and verifiers.  The two are kept in files of   *)
(* their own, so a behaviour shows one of them and the other rests.            *)
EXTENDS MCTrustState, Witness

CONSTANTS w1, w2, v1, v2

VARIABLE part

auditVars == <<vars, checkpointVars, part>>

MCSymmetry ==
    ProcessSymmetry \union Permutations({w1, w2}) \union Permutations({v1, v2})

WitnessRests == WitnessInit /\ present = Witnesses

MCInit ==
    \/ part = "files" /\ Init /\ WitnessRests
    \/ part = "checkpoints" /\ Init /\ WitnessInit

MCNext ==
    \/ part = "files" /\ Next /\ UNCHANGED <<checkpointVars, part>>
    \/ part = "checkpoints" /\ WitnessNext /\ UNCHANGED <<vars, part>>

MCSpec == MCInit /\ [][MCNext]_auditVars
=============================================================================
