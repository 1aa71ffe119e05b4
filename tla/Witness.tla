------------------------------- MODULE Witness ------------------------------
(***************************************************************************)
(* Checkpoints of the transparency log, the witnesses that countersign     *)
(* them, the verifiers that remember the last checkpoint they accepted, and *)
(* the quorum check.  The log may be restored from a backup and then grow   *)
(* differently: checkpoints issued before and after the restore do not      *)
(* agree, and witnesses and verifiers are there to notice it.               *)
(*                                                                         *)
(* A checkpoint carries the size and the root hash of the log; the model    *)
(* keeps the entries the root was computed from beside them, and every      *)
(* check of the code uses sizes, roots and proof paths only.  An entry's hash   *)
(* covers its predecessor, so an entry is its position and the number of    *)
(* restores before it was appended.  Witnesses and verifiers have the       *)
(* checkpoints in common and nothing else, so a behaviour shows one of the  *)
(* two groups.                                                              *)
(***************************************************************************)
EXTENDS Merkle, FiniteSets

CONSTANTS Witnesses,       \* witnesses of the trust store
          Verifier,        \* commands that verify checkpoints
          Quorum,          \* minimum_quorum
          MaxSize,         \* bound on the log
          MaxRestores,     \* bound on restores
          MaxCheckpoints,  \* bound on checkpoints issued
          Missing          \* a file that does not exist, no proof, no call

ASSUME WitnessAssumption ==
    /\ IsFiniteSet(Witnesses)
    /\ Quorum \in 1 .. Cardinality(Witnesses)
    /\ MaxSize \in Nat /\ MaxRestores \in Nat /\ MaxCheckpoints \in Nat

VARIABLES ledger,       \* entries of the log
          restores,     \* how often it was restored
          checkpoints,  \* checkpoints issued
          witnessed,    \* state file of each witness
          signing,      \* checkpoint a witness has signed but not stored yet
          statements,   \* statements exported
          interrupted,  \* witnesses stopped between their two exports (history)
          remembered,   \* checkpoint state file the verifiers share
          views,        \* what each verifier read and verified
          present       \* who takes part: the witnesses or the verifiers

checkpointVars ==
    <<ledger, restores, checkpoints, witnessed, signing, statements, interrupted,
      remembered, views, present>>

witnessVars == <<witnessed, signing, statements, interrupted>>
verifierVars == <<remembered, views>>
logVars == <<ledger, restores, checkpoints, present>>

Size(c) == Len(c.entries)

(* verify_checkpoint_consistency_proof for the proof that the log made from *)
(* old to new (generate_checkpoint_consistency_proof).                      *)
ProofVerifies(old, new) ==
    VerifyConsistencyPath(Size(old), Size(new), old.root, new.root,
                          ConsistencyPath(new.entries, Size(old)))

Extends(new, old) == SubSeq(new.entries, 1, Size(old)) = old.entries
Consistent(c, d) == IF Size(c) <= Size(d) THEN Extends(d, c) ELSE Extends(c, d)

-----------------------------------------------------------------------------
(* The log.  Its growth after the last checkpoint is not looked at.         *)

MoreCheckpoints == Cardinality(checkpoints) < MaxCheckpoints

RegisterEntry ==
    /\ MoreCheckpoints
    /\ Len(ledger) < MaxSize
    /\ ledger' = Append(ledger, <<Len(ledger) + 1, restores>>)
    /\ UNCHANGED <<restores, checkpoints, present, witnessVars, verifierVars>>

(* An operator puts back an older copy of the log and of its state.         *)
RestoreBackup(size) ==
    /\ MoreCheckpoints
    /\ restores < MaxRestores
    /\ restores' = restores + 1
    /\ ledger' = SubSeq(ledger, 1, size)
    /\ UNCHANGED <<checkpoints, present, witnessVars, verifierVars>>

(* create_transparency_checkpoint: the time of issue makes each one unique. *)
CreateCheckpoint ==
    /\ MoreCheckpoints
    /\ ledger # <<>>
    /\ checkpoints' = checkpoints
         \union {[entries |-> ledger, root |-> MerkleRoot(ledger),
                  issued |-> Cardinality(checkpoints)]}
    /\ UNCHANGED <<ledger, restores, present, witnessVars, verifierVars>>

-----------------------------------------------------------------------------
(* Witnesses.                                                               *)

SameCheckpoint(c, d) ==
    /\ Size(c) = Size(d)
    /\ c.root = d.root
    /\ c.issued = d.issued

\* Mutant: a checkpoint of the stored size is taken for the stored one.
MaySignSameSize(c, stored) ==
    stored # Missing => \/ Size(c) = Size(stored)
                        \/ Size(c) > Size(stored) /\ ProofVerifies(stored, c)

(* _validate_checkpoint_against_state and the consistency proof.            *)
MaySign(c, stored) ==
    stored # Missing => \/ SameCheckpoint(c, stored)
                        \/ Size(c) > Size(stored) /\ ProofVerifies(stored, c)

(* create_transparency_witness_statement, under the lock of the witness's   *)
(* state, exports the statement ...                                         *)
SignStatement(w, c) ==
    /\ signing[w] = Missing
    /\ MaySign(c, witnessed[w])
    /\ statements' = statements
         \union {[witness |-> w, checkpoint |-> c]}
    /\ signing' = IF c = witnessed[w] THEN signing ELSE [signing EXCEPT ![w] = c]
    /\ UNCHANGED <<logVars, witnessed, interrupted, verifierVars>>

(* ... and then the state that records it.                                  *)
SaveState(w) ==
    /\ signing[w] # Missing
    /\ witnessed' = [witnessed EXCEPT ![w] = signing[w]]
    /\ signing' = [signing EXCEPT ![w] = Missing]
    /\ UNCHANGED <<logVars, statements, interrupted, verifierVars>>

(* The process is killed, or the second export raises OSError.              *)
Interrupt(w) ==
    /\ signing[w] # Missing
    /\ signing' = [signing EXCEPT ![w] = Missing]
    /\ interrupted' = interrupted \union {w}
    /\ UNCHANGED <<logVars, witnessed, statements, verifierVars>>

Signers(c) == {s.witness : s \in {t \in statements : SameCheckpoint(t.checkpoint, c)}}

\* Mutant: one witness less than the quorum is enough.
HasQuorumOffByOne(c) == Cardinality(Signers(c)) >= Quorum - 1

(* verify_transparency_witness_quorum over every statement about the        *)
(* checkpoint: each witness counts once.                                    *)
HasQuorum(c) == Cardinality(Signers(c)) >= Quorum

-----------------------------------------------------------------------------
(* Verifiers.                                                               *)

(* _run_verify_transparency_checkpoint_file reads the state without its     *)
(* lock and verifies a consistency proof from it to the checkpoint.  A      *)
(* proof given where there is no state is refused; one given for a          *)
(* checkpoint that is not larger is ignored.                                *)
ReadState(v, c, withProof) ==
    /\ views[v] = Missing
    /\ withProof => remembered # Missing
    /\ LET larger == withProof /\ Size(c) > Size(remembered)
       IN  /\ larger => ProofVerifies(remembered, c)
           /\ views' = [views EXCEPT ![v] =
                [checkpoint |-> c, old |-> IF larger THEN remembered ELSE Missing]]
    /\ UNCHANGED <<logVars, witnessVars, remembered>>

\* Mutant: the proof's old tree is not compared with the state under the lock.
ApplyUpdatesAnyProof(call) ==
    \/ remembered = Missing
    \/ Size(call.checkpoint) > Size(remembered) /\ call.old # Missing

(* apply_verified_checkpoint_to_state stores the checkpoint if there is     *)
(* none, or if it is larger and the proof starts at the stored one.         *)
ApplyUpdates(call) ==
    \/ remembered = Missing
    \/ /\ Size(call.checkpoint) > Size(remembered)
       /\ call.old # Missing
       /\ Size(call.old) = Size(remembered)
       /\ call.old.root = remembered.root

(* Otherwise the state stays: the same checkpoint, or an error.             *)
ApplyCheckpoint(v) ==
    /\ views[v] # Missing
    /\ remembered' = IF ApplyUpdates(views[v]) THEN views[v].checkpoint ELSE remembered
    /\ views' = [views EXCEPT ![v] = Missing]
    /\ UNCHANGED <<logVars, witnessVars>>

-----------------------------------------------------------------------------
WitnessInit ==
    /\ ledger = <<>> /\ restores = 0
    /\ checkpoints = {} /\ statements = {} /\ interrupted = {}
    /\ witnessed = [w \in Witnesses |-> Missing]
    /\ signing = [w \in Witnesses |-> Missing]
    /\ remembered = Missing
    /\ views = [v \in Verifier |-> Missing]
    /\ present \in {Witnesses, Verifier}

WitnessNext ==
    \/ RegisterEntry
    \/ \E size \in 0 .. Len(ledger) - 1 : RestoreBackup(size)
    \/ CreateCheckpoint
    \/ \E w \in Witnesses \cap present :
         \/ \E c \in checkpoints : SignStatement(w, c)
         \/ SaveState(w)
         \/ Interrupt(w)
    \/ \E v \in Verifier \cap present :
         \/ \E c \in checkpoints, withProof \in BOOLEAN : ReadState(v, c, withProof)
         \/ ApplyCheckpoint(v)

WitnessSpec == WitnessInit /\ [][WitnessNext]_checkpointVars

-----------------------------------------------------------------------------
(* A consistency proof made by the log verifies between two checkpoints      *)
(* exactly if the older log is a prefix of the newer, for every pair of      *)
(* sizes (generate_consistency_path, verify_consistency_path).  The          *)
(* inclusion path of a place in a checkpoint's log proves the entry that is  *)
(* there, and not the entry another checkpoint's log has in that place       *)
(* (generate_inclusion_audit_path, calculate_root_from_inclusion_proof).     *)
ProofsExact ==
    [][\A d \in checkpoints' \ checkpoints :
          /\ \A c \in checkpoints :
                Size(c) <= Size(d) => (ProofVerifies(c, d) <=> Extends(d, c))
          /\ \A c \in checkpoints' : \A i \in 1 .. Size(d) :
                i <= Size(c) =>
                    (RootFromInclusion(c.entries[i], i, Size(d), InclusionPath(d.entries, i)) = d.root
                        <=> c.entries[i] = d.entries[i])]_checkpointVars

(* A witness signs two checkpoints that contradict each other only if one   *)
(* of its calls was stopped after the statement was exported and before the  *)
(* state was (create_transparency_witness_statement).                        *)
StatementsConsistent ==
    \A s, t \in statements :
        s.witness = t.witness =>
            Consistent(s.checkpoint, t.checkpoint) \/ s.witness \in interrupted

(* Two checkpoints that contradict each other both find a quorum only if at  *)
(* least the overlap of two quorums was interrupted while signing            *)
(* (verify_transparency_witness_quorum).                                     *)
QuorumsAgree ==
    \A c, d \in checkpoints :
        HasQuorum(c) /\ HasQuorum(d) /\ ~Consistent(c, d) =>
            Cardinality(interrupted) >= 2 * Quorum - Cardinality(Witnesses)

(* The checkpoint the verifiers remember is only ever replaced by one of a   *)
(* log that extends it, also when two verifiers read and applied at the same *)
(* time (apply_verified_checkpoint_to_state).                                *)
RememberedFollowsLog ==
    [][remembered # Missing => Extends(remembered', remembered)]_checkpointVars
=============================================================================
