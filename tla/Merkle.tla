------------------------------- MODULE Merkle -------------------------------
(***************************************************************************)
(* The Merkle tree of the transparency log with its inclusion and           *)
(* consistency proofs.  A hash is the term it was computed from: a leaf is  *)
(* <<entry>> and a node <<left, right>>, which the domain prefixes of the   *)
(* code keep apart.                                                         *)
(***************************************************************************)
EXTENDS Loops

Leaf(entry) == <<entry>>
Node(left, right) == <<left, right>>

(* No hash: a proof that does not fit the tree.                             *)
Mismatch == <<>>

(* _largest_power_of_two_less_than: the highest bit of n - 1, which the code  *)
(* takes from bit_length, found by doubling 1 while it stays below n.       *)
Split(n) ==
    LET double == [at \in (1 .. n) \X Nat |-> IF 2 * at[2] < n THEN 2 * at[2] ELSE at[2]]
    IN  Loop(1, double, n)

(* Trees of at most size leaves: <<position of the first leaf, leaves>>.    *)
Trees(size) == Nat \X (1 .. size)

(* _merkle_root_from_leaf_hashes                                            *)
SubtreeRoot(entries, from, size) ==
    LET root[t \in Trees(size)] ==
          LET k == Split(t[2])
          IN  IF t[2] = 1 THEN Leaf(entries[t[1]])
              ELSE Node(root[<<t[1], k>>], root[<<t[1] + k, t[2] - k>>])
    IN  root[<<from, size>>]

MerkleRoot(entries) == SubtreeRoot(entries, 1, Len(entries))

-----------------------------------------------------------------------------
(* Inclusion.                                                               *)

(* generate_inclusion_audit_path, for the entry at position i.              *)
InclusionPath(entries, i) ==
    LET path[t \in Trees(Len(entries))] ==
          LET k == Split(t[2])
          IN  IF t[2] = 1 THEN <<>>
              ELSE IF i < t[1] + k
              THEN Append(path[<<t[1], k>>], SubtreeRoot(entries, t[1] + k, t[2] - k))
              ELSE Append(path[<<t[1] + k, t[2] - k>>], SubtreeRoot(entries, t[1], k))
    IN  path[<<1, Len(entries)>>]

(* calculate_root_from_inclusion_proof: the whole path must be used.        *)
RootFromInclusion(entry, i, size, path) ==
    LET root[t \in Trees(size)] ==
          LET k == Split(t[2])
              left == i < t[1] + k
              sub == root[IF left THEN <<t[1], k>> ELSE <<t[1] + k, t[2] - k>>]
          IN  IF t[2] = 1 THEN [hash |-> Leaf(entry), used |-> 0]
              ELSE IF sub.hash = Mismatch \/ sub.used >= Len(path)
              THEN [hash |-> Mismatch, used |-> sub.used]
              ELSE [hash |-> IF left THEN Node(sub.hash, path[sub.used + 1])
                                     ELSE Node(path[sub.used + 1], sub.hash),
                    used |-> sub.used + 1]
        top == root[<<1, size>>]
    IN  IF top.used = Len(path) THEN top.hash ELSE Mismatch

-----------------------------------------------------------------------------
(* Consistency.                                                             *)

(* A tree of at most size leaves, of which the first old are the old tree.  *)
Subproofs(size) ==
    {p \in [old : 1 .. size, from : Nat, new : 1 .. size, complete : BOOLEAN] : p.old <= p.new}

\* Mutant: the old tree is taken for a complete subtree everywhere.
ConsistencyPathComplete(entries, oldSize) ==
    LET path[p \in Subproofs(Len(entries))] ==
          LET k == Split(p.new)
          IN  IF p.old = p.new THEN <<>>
              ELSE IF p.old <= k
              THEN Append(path[[p EXCEPT !.new = k]], SubtreeRoot(entries, p.from + k, p.new - k))
              ELSE Append(path[[old |-> p.old - k, from |-> p.from + k, new |-> p.new - k,
                                complete |-> FALSE]],
                          SubtreeRoot(entries, p.from, k))
    IN  path[[old |-> oldSize, from |-> 1, new |-> Len(entries), complete |-> TRUE]]

(* generate_consistency_path with _consistency_subproof.                    *)
ConsistencyPath(entries, oldSize) ==
    LET path[p \in Subproofs(Len(entries))] ==
          LET k == Split(p.new)
          IN  IF p.old = p.new
              THEN IF p.complete THEN <<>> ELSE <<SubtreeRoot(entries, p.from, p.new)>>
              ELSE IF p.old <= k
              THEN Append(path[[p EXCEPT !.new = k]], SubtreeRoot(entries, p.from + k, p.new - k))
              ELSE Append(path[[old |-> p.old - k, from |-> p.from + k, new |-> p.new - k,
                                complete |-> FALSE]],
                          SubtreeRoot(entries, p.from, k))
    IN  path[[old |-> oldSize, from |-> 1, new |-> Len(entries), complete |-> TRUE]]

(* The two loops that shift both indices: while fn is odd, and while fn is  *)
(* even but not zero.  No loop has more than fn rounds.                     *)
Indices == [fn : Nat, sn : Nat]

Shifted(at) == [fn |-> at.fn \div 2, sn |-> at.sn \div 2]

ShiftOdd(start) ==
    LET shift == [at \in (1 .. start.fn) \X Indices |->
                     IF at[2].fn % 2 = 1 THEN Shifted(at[2]) ELSE at[2]]
    IN  Loop(start, shift, start.fn)

ShiftEven(start) ==
    LET shift == [at \in (1 .. start.fn) \X Indices |->
                     IF at[2].fn # 0 /\ at[2].fn % 2 = 0 THEN Shifted(at[2]) ELSE at[2]]
    IN  Loop(start, shift, start.fn)

(* One hash of the path.                                                    *)
Walk(w, hash) ==
    LET at == [fn |-> w.fn, sn |-> w.sn]
        left == w.fn % 2 = 1 \/ w.fn = w.sn
        next == Shifted(IF left THEN ShiftEven(at) ELSE at)
    IN  [fn |-> next.fn, sn |-> next.sn,
         old |-> IF left THEN Node(hash, w.old) ELSE w.old,
         new |-> IF left THEN Node(hash, w.new) ELSE Node(w.new, hash)]

(* The loop over the path, from the indices at and a first hash.            *)
WalkPath(at, seed, path) ==
    LET walk[n \in 0 .. Len(path)] ==
          IF n = 0 THEN [fn |-> at.fn, sn |-> at.sn, old |-> seed, new |-> seed]
          ELSE Walk(walk[n - 1], path[n])
    IN  walk[Len(path)]

(* verify_consistency_path                                                  *)
VerifyConsistencyPath(oldSize, newSize, oldRoot, newRoot, path) ==
    IF oldSize = newSize THEN oldRoot = newRoot /\ path = <<>>
    ELSE LET start == ShiftOdd([fn |-> oldSize - 1, sn |-> newSize - 1])
             seeded == start.fn = 0
             last == IF seeded THEN WalkPath(start, oldRoot, path)
                     ELSE WalkPath(start, Head(path), Tail(path))
         IN  /\ oldSize >= 1 /\ newSize >= oldSize
             /\ seeded \/ path # <<>>
             /\ last.old = oldRoot
             /\ last.new = newRoot
=============================================================================
