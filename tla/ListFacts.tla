------------------------------ MODULE ListFacts ------------------------------
(***************************************************************************)
(* Facts about natural numbers, finite sets and lists that the proofs about  *)
(* the components share: induction, stated for sets so that no operator is    *)
(* a parameter, recursive functions on an interval, and what a filter keeps.  *)
(***************************************************************************)
EXTENDS Loops, FiniteSets, FunctionTheorems, FiniteSetTheorems, SequenceTheorems,
        WellFoundedInduction, TLAPS

-----------------------------------------------------------------------------
(* Induction.                                                                *)

(* A set of natural numbers that is not empty has a smallest member.         *)
LEMMA SmallestOf ==
    ASSUME NEW T \in SUBSET Nat, T # {}
    PROVE  \E m \in T : \A k \in T : m <= k
<1> DEFINE less == {ss \in Nat \X Nat : ss[1] < ss[2]}
<1>1. IsWellFoundedOn(less, Nat)
  <2>1. less = OpToRel(<, Nat)
    BY Zenon DEF OpToRel
  <2> QED
    BY <2>1, NatLessThanWellFounded, Zenon
<1> HIDE DEF less
<1>2. PICK m \in T : \A k \in T : <<k, m>> \notin less
  BY <1>1, WFMin
<1>3. ASSUME NEW k \in T PROVE m <= k
  <2>1. m \in Nat /\ k \in Nat
    OBVIOUS
  <2>2. ASSUME k < m PROVE FALSE
    BY <1>2, <2>1, <2>2 DEF less
  <2> QED
    BY <2>1, <2>2
<1> QED
  BY <1>3

(* Induction: a set that has 0 and every successor of a member has every      *)
(* natural number.                                                           *)
LEMMA Induction ==
    ASSUME NEW T \in SUBSET Nat, 0 \in T, \A n \in T : n + 1 \in T
    PROVE  T = Nat
<1> SUFFICES ASSUME Nat \ T # {} PROVE FALSE
  OBVIOUS
<1>1. PICK m \in Nat \ T : \A k \in Nat \ T : m <= k
  BY SmallestOf
<1>2. m # 0 /\ m - 1 \in Nat
  OBVIOUS
<1>3. m - 1 \in T
  BY <1>1, <1>2
<1> QED
  BY <1>2, <1>3

(* The same on an interval.                                                  *)
LEMMA IntervalInduction ==
    ASSUME NEW N \in Nat, NEW T, 0 \in T,
           \A n \in 0 .. N - 1 : n \in T => n + 1 \in T
    PROVE  0 .. N \subseteq T
<1> DEFINE U == {n \in Nat : n <= N => n \in T}
<1>1. 0 \in U
  OBVIOUS
<1>2. ASSUME NEW n \in U PROVE n + 1 \in U
  <2>1. CASE n + 1 <= N
    <3>1. n \in 0 .. N - 1 /\ n \in T
      BY <2>1
    <3> QED
      BY <3>1
  <2>2. CASE ~(n + 1 <= N)
    BY <2>2
  <2> QED
    BY <2>1, <2>2
<1> HIDE DEF U
<1>3. U = Nat
  <2>1. U \in SUBSET Nat
    BY DEF U
  <2> QED
    BY <1>1, <1>2, <2>1, Induction
<1> QED
  BY <1>3 DEF U

(* Among the members of a set of finite sets that is not empty, one has the   *)
(* most members, if all are within one finite set.                           *)
LEMMA LargestOf ==
    ASSUME NEW S, IsFiniteSet(S), NEW W \in SUBSET SUBSET S, W # {}
    PROVE  \E c \in W : \A d \in W : Cardinality(d) <= Cardinality(c)
<1> DEFINE rest(c) == Cardinality(S) - Cardinality(c)
           T == {rest(c) : c \in W}
<1>1. \A c \in W : Cardinality(c) \in Nat /\ Cardinality(c) <= Cardinality(S)
  BY FS_Subset, FS_CardinalityType
<1>2. Cardinality(S) \in Nat
  BY FS_CardinalityType
<1>3. T \in SUBSET Nat /\ T # {}
  BY <1>1, <1>2
<1>4. PICK m \in T : \A k \in T : m <= k
  <2> HIDE DEF T
  <2> QED
    BY <1>3, SmallestOf
<1>5. PICK c \in W : m = rest(c)
  OBVIOUS
<1>6. ASSUME NEW d \in W PROVE Cardinality(d) <= Cardinality(c)
  <2>1. rest(c) <= rest(d)
    BY <1>4, <1>5
  <2> QED
    BY <1>1, <1>2, <2>1
<1> QED
  BY <1>6

(* A finite set has two members or more exactly if two of them differ.        *)
LEMMA SeveralMembers ==
    ASSUME NEW S, IsFiniteSet(S)
    PROVE  Cardinality(S) > 1 <=> \E a, b \in S : a # b
<1>1. Cardinality(S) \in Nat
  BY FS_CardinalityType
<1>2. ASSUME Cardinality(S) > 1 PROVE \E a, b \in S : a # b
  <2>1. S # {}
    BY <1>2, FS_EmptySet
  <2>2. PICK a : a \in S
    BY <2>1
  <2>3. S # {a}
    BY <1>2, FS_Singleton
  <2> QED
    BY <2>2, <2>3
<1>3. ASSUME NEW a \in S, NEW b \in S, a # b PROVE Cardinality(S) > 1
  <2>1. Cardinality(S) # 0
    BY FS_EmptySet
  <2>2. Cardinality(S) # 1
    <3> SUFFICES ASSUME Cardinality(S) = 1 PROVE FALSE
      OBVIOUS
    <3>1. PICK r : S = {r}
      BY FS_Singleton
    <3> QED
      BY <1>3, <3>1
  <2> QED
    BY <1>1, <2>1, <2>2
<1> QED
  BY <1>2, <1>3

-----------------------------------------------------------------------------
(* Loops: f[n] is what the first n rounds make of start.                      *)
Iterates(f, start, step, N) ==
    f[0] = start /\ \A n \in 1 .. N : f[n] = step[<<n, f[n - 1]>>]

(* A loop has a value after every round, all of them in the set the values    *)
(* are from, and the last one is its result.                                 *)
LEMMA LoopFacts ==
    ASSUME NEW V, NEW start \in V, NEW step, NEW N \in Nat,
           \A n \in 1 .. N, v \in V : step[<<n, v>>] \in V
    PROVE  \E f \in [0 .. N -> V] : Loop(start, step, N) = f[N] /\ Iterates(f, start, step, N)
<1> DEFINE Equation(f) == f = [n \in 0 .. N |-> IF n = 0 THEN start ELSE step[<<n, f[n - 1]>>]]
           T == {n \in 0 .. N : \E f \in [0 .. n -> V] : Iterates(f, start, step, n)}
<1>1. 0 \in T
  <2>1. [n \in 0 .. 0 |-> start] \in [0 .. 0 -> V] /\ Iterates([n \in 0 .. 0 |-> start], start, step, 0)
    BY DEF Iterates
  <2> QED
    BY <2>1
<1>2. ASSUME NEW n \in 0 .. N - 1, n \in T PROVE n + 1 \in T
  <2>0. n \in Nat /\ n + 1 \in 0 .. N /\ n + 1 \in 1 .. N
    OBVIOUS
  <2>1. PICK f \in [0 .. n -> V] : Iterates(f, start, step, n)
    BY <1>2
  <2>2. PICK last \in V : last = step[<<n + 1, f[n]>>]
    BY <2>0
  <2>3. PICK g : g = [m \in 0 .. n + 1 |-> IF m = n + 1 THEN last ELSE f[m]]
    OBVIOUS
  <2>4. g \in [0 .. n + 1 -> V]
    BY <2>0, <2>3
  <2>5. \A m \in 0 .. n : g[m] = f[m]
    BY <2>0, <2>3
  <2>6. g[n + 1] = last /\ g[n] = f[n]
    BY <2>0, <2>3, <2>5
  <2>7. Iterates(g, start, step, n + 1)
    <3>1. g[0] = start
      BY <2>0, <2>1, <2>5 DEF Iterates
    <3>2. ASSUME NEW m \in 1 .. n + 1 PROVE g[m] = step[<<m, g[m - 1]>>]
      <4>1. CASE m = n + 1
        <5>1. m - 1 = n
          BY <2>0, <4>1
        <5> QED
          BY <2>2, <2>6, <4>1, <5>1
      <4>2. CASE m \in 1 .. n
        <5>1. m \in 0 .. n /\ m - 1 \in 0 .. n
          BY <4>2
        <5>2. f[m] = step[<<m, f[m - 1]>>]
          BY <2>1, <4>2 DEF Iterates
        <5> QED
          BY <2>5, <5>1, <5>2
      <4> QED
        BY <2>0, <4>1, <4>2
    <3> QED
      BY <3>1, <3>2 DEF Iterates
  <2> QED
    BY <2>0, <2>4, <2>7
<1>3. PICK f \in [0 .. N -> V] : Iterates(f, start, step, N)
  <2> HIDE DEF T
  <2>1. 0 .. N \subseteq T
    BY <1>1, <1>2, IntervalInduction
  <2>2. N \in T
    BY <2>1
  <2> QED
    BY <2>2 DEF T
<1>4. Equation(f)
  <2>1. ASSUME NEW n \in 0 .. N PROVE f[n] = IF n = 0 THEN start ELSE step[<<n, f[n - 1]>>]
    <3>1. CASE n = 0
      BY <1>3, <3>1 DEF Iterates
    <3>2. CASE n \in 1 .. N
      BY <1>3, <3>2 DEF Iterates
    <3> QED
      BY <3>1, <3>2
  <2> QED
    BY <2>1
<1>5. PICK g : g = CHOOSE h : Equation(h)
  OBVIOUS
<1>6. Equation(g)
  <2> HIDE DEF Equation
  <2> QED
    BY <1>4, <1>5
<1>7. Iterates(g, start, step, N)
  <2>1. \A n \in 0 .. N : g[n] = IF n = 0 THEN start ELSE step[<<n, g[n - 1]>>]
    BY <1>6, Zenon
  <2>2. 0 \in 0 .. N /\ \A n \in 1 .. N : n \in 0 .. N /\ n # 0
    OBVIOUS
  <2>3. g[0] = start
    BY <2>1, <2>2
  <2>4. ASSUME NEW n \in 1 .. N PROVE g[n] = step[<<n, g[n - 1]>>]
    BY <2>1, <2>2, Zenon
  <2> QED
    BY <2>3, <2>4 DEF Iterates
<1>8. \A n \in 0 .. N : g[n] \in V
  <2> DEFINE U == {n \in 0 .. N : g[n] \in V}
  <2>1. 0 \in U
    BY <1>7 DEF Iterates
  <2>2. ASSUME NEW n \in 0 .. N - 1, n \in U PROVE n + 1 \in U
    <3>1. n + 1 \in 1 .. N /\ n + 1 \in 0 .. N /\ (n + 1) - 1 = n
      OBVIOUS
    <3>2. g[n + 1] = step[<<n + 1, g[n]>>]
      BY <1>7, <3>1 DEF Iterates
    <3>3. g[n + 1] \in V
      BY <2>2, <3>1, <3>2
    <3> QED
      BY <3>1, <3>3
  <2> HIDE DEF U
  <2>3. 0 .. N \subseteq U
    BY <2>1, <2>2, IntervalInduction
  <2> QED
    BY <2>3 DEF U
<1>9. g \in [0 .. N -> V]
  <2>1. g = [n \in 0 .. N |-> g[n]]
    BY <1>6
  <2> QED
    BY <1>8, <2>1
<1>10. Loop(start, step, N) = g[N]
  BY <1>5 DEF Loop
<1> QED
  BY <1>7, <1>9, <1>10

-----------------------------------------------------------------------------
(* What a filter keeps.                                                      *)

(* A list has no member twice.                                               *)
Distinct(list) == \A i, j \in 1 .. Len(list) : list[i] = list[j] => i = j

(* Appending to a list.                                                      *)
LEMMA AppendFacts ==
    ASSUME NEW S, NEW list \in Seq(S), NEW x \in S
    PROVE  /\ Append(list, x) \in Seq(S) /\ Len(Append(list, x)) = Len(list) + 1
           /\ \A i \in 1 .. Len(list) : Append(list, x)[i] = list[i]
           /\ Append(list, x)[Len(list) + 1] = x
           /\ Members(Append(list, x)) = Members(list) \union {x}
           /\ Distinct(list) /\ x \notin Members(list) => Distinct(Append(list, x))
<1> PICK longer : longer = Append(list, x)
  OBVIOUS
<1> PICK n \in Nat : n = Len(list)
  OBVIOUS
<1>1. /\ longer \in Seq(S) /\ Len(longer) = n + 1
      /\ \A i \in 1 .. n : longer[i] = list[i]
      /\ longer[n + 1] = x
  OBVIOUS
<1>2. \A i \in 1 .. n + 1 : i \in 1 .. n \/ i = n + 1
  OBVIOUS
<1>3. Members(longer) = Members(list) \union {x}
  <2>1. ASSUME NEW y \in Members(longer) PROVE y \in Members(list) \union {x}
    <3>1. PICK i \in 1 .. n + 1 : y = longer[i]
      BY <1>1, <2>1 DEF Members
    <3> QED
      BY <1>1, <1>2, <3>1 DEF Members
  <2>2. ASSUME NEW y \in Members(list) PROVE y \in Members(longer)
    <3>1. PICK i \in 1 .. n : y = list[i]
      BY <2>2 DEF Members
    <3>2. i \in 1 .. n + 1 /\ y = longer[i]
      BY <1>1, <3>1
    <3> QED
      BY <1>1, <3>2 DEF Members
  <2>3. x \in Members(longer)
    <3>1. n + 1 \in 1 .. n + 1
      OBVIOUS
    <3> QED
      BY <1>1, <3>1 DEF Members
  <2> QED
    BY <2>1, <2>2, <2>3
<1>4. ASSUME Distinct(list), x \notin Members(list) PROVE Distinct(longer)
  <2> SUFFICES ASSUME NEW i \in 1 .. n + 1, NEW j \in 1 .. n + 1, longer[i] = longer[j]
               PROVE  i = j
    BY <1>1 DEF Distinct
  <2>1. CASE i \in 1 .. n /\ j \in 1 .. n
    BY <1>1, <1>4, <2>1 DEF Distinct
  <2>2. CASE i = n + 1 /\ j \in 1 .. n
    BY <1>1, <1>4, <2>2 DEF Members
  <2>3. CASE i \in 1 .. n /\ j = n + 1
    BY <1>1, <1>4, <2>3 DEF Members
  <2> QED
    BY <1>2, <2>1, <2>2, <2>3
<1> QED
  BY <1>1, <1>3, <1>4

(* Of a list without repetition there are as many members as places, and a    *)
(* list that has as many distinct members as a finite set has all of them.    *)
LEMMA DistinctFacts ==
    ASSUME NEW S, IsFiniteSet(S), NEW list \in Seq(S), Distinct(list)
    PROVE  /\ IsFiniteSet(Members(list)) /\ Members(list) \subseteq S
           /\ Cardinality(Members(list)) = Len(list)
           /\ Len(list) <= Cardinality(S)
           /\ Len(list) = Cardinality(S) => Members(list) = S
<1>1. Members(list) \subseteq S /\ Len(list) \in Nat
  BY DEF Members
<1>2. IsFiniteSet(Members(list)) /\ Cardinality(Members(list)) <= Cardinality(S)
      /\ (Cardinality(Members(list)) = Cardinality(S) => Members(list) = S)
  BY <1>1, FS_Subset, FS_CardinalityType
<1>3. Cardinality(Members(list)) = Len(list)
  <2> PICK N \in Nat : N = Len(list)
    BY <1>1
  <2> DEFINE places == [i \in 1 .. N |-> list[i]]
  <2>1. places \in Bijection(1 .. N, Members(list))
    <3>1. places \in Injection(1 .. N, Members(list))
      BY DEF Injection, IsInjective, Members, Distinct
    <3>2. places \in Surjection(1 .. N, Members(list))
      BY DEF Surjection, Members
    <3> QED
      BY <3>1, <3>2 DEF Bijection
  <2>2. ExistsBijection(1 .. N, Members(list))
    BY <2>1 DEF ExistsBijection
  <2> QED
    BY <2>2, FS_CountingElements, <1>2, FS_Interval, FS_CardinalityType
<1> QED
  BY <1>1, <1>2, <1>3

(* The first members of a list.                                              *)
LEMMA FirstFacts ==
    ASSUME NEW S, NEW list \in Seq(S), NEW m \in 0 .. Len(list)
    PROVE  /\ SubSeq(list, 1, m) \in Seq(S) /\ Len(SubSeq(list, 1, m)) = m
           /\ \A i \in 1 .. m : SubSeq(list, 1, m)[i] = list[i]
<1>1. Len(list) \in Nat /\ m \in Int /\ 1 \in Int
  OBVIOUS
<1>2. \A i \in 1 .. m : list[i] \in S
  BY <1>1
<1>3. /\ SubSeq(list, 1, m) \in Seq(S)
      /\ Len(SubSeq(list, 1, m)) = IF 1 <= m THEN m - 1 + 1 ELSE 0
      /\ \A i \in 1 .. m - 1 + 1 : SubSeq(list, 1, m)[i] = list[1 + i - 1]
  BY <1>1, <1>2, SubSeqProperties
<1>4. m - 1 + 1 = m /\ \A i \in 1 .. m : 1 + i - 1 = i
  BY <1>1
<1> QED
  BY <1>1, <1>3, <1>4

(* Joining two lists.                                                        *)
LEMMA JoinFacts ==
    ASSUME NEW S, NEW s \in Seq(S), NEW t \in Seq(S)
    PROVE  /\ s \o t \in Seq(S) /\ Len(s \o t) = Len(s) + Len(t)
           /\ \A i \in 1 .. Len(s) : (s \o t)[i] = s[i]
           /\ \A i \in 1 .. Len(t) : (s \o t)[Len(s) + i] = t[i]
           /\ \A i \in Len(s) + 1 .. Len(s) + Len(t) : (s \o t)[i] = t[i - Len(s)]
           /\ Members(s \o t) = Members(s) \union Members(t)
           /\ Distinct(s) /\ Distinct(t) /\ Members(s) \intersect Members(t) = {} => Distinct(s \o t)
<1> PICK u : u = s \o t
  OBVIOUS
<1> PICK m \in Nat, n \in Nat : m = Len(s) /\ n = Len(t)
  OBVIOUS
<1>1. /\ u \in Seq(S) /\ Len(u) = m + n
      /\ \A i \in 1 .. m : u[i] = s[i]
      /\ \A i \in m + 1 .. m + n : u[i] = t[i - m]
  OBVIOUS
<1>2. \A i \in 1 .. n : m + i \in m + 1 .. m + n /\ (m + i) - m = i
  OBVIOUS
<1>3. \A i \in 1 .. n : u[m + i] = t[i]
  BY <1>1, <1>2
<1>4. \A i \in m + 1 .. m + n : i - m \in 1 .. n /\ m + (i - m) = i
  OBVIOUS
<1>5. \A i : i \in 1 .. m + n <=> i \in 1 .. m \/ i \in m + 1 .. m + n
  OBVIOUS
<1>6. Members(u) = Members(s) \union Members(t)
  <2>1. ASSUME NEW x \in Members(u) PROVE x \in Members(s) \union Members(t)
    <3>1. PICK i \in 1 .. m + n : x = u[i]
      BY <1>1, <2>1 DEF Members
    <3>2. CASE i \in 1 .. m
      BY <1>1, <3>1, <3>2 DEF Members
    <3>3. CASE i \in m + 1 .. m + n
      <4>1. i - m \in 1 .. n /\ x = t[i - m]
        BY <1>1, <1>4, <3>1, <3>3
      <4> QED
        BY <4>1 DEF Members
    <3> QED
      BY <1>5, <3>2, <3>3
  <2>2. ASSUME NEW x \in Members(s) PROVE x \in Members(u)
    <3>1. PICK i \in 1 .. m : x = s[i]
      BY <2>2 DEF Members
    <3>2. i \in 1 .. m + n /\ x = u[i]
      BY <1>1, <3>1
    <3> QED
      BY <1>1, <3>2 DEF Members
  <2>3. ASSUME NEW x \in Members(t) PROVE x \in Members(u)
    <3>1. PICK i \in 1 .. n : x = t[i]
      BY <2>3 DEF Members
    <3>2. m + i \in 1 .. m + n /\ x = u[m + i]
      BY <1>3, <3>1
    <3> QED
      BY <1>1, <3>2 DEF Members
  <2> QED
    BY <2>1, <2>2, <2>3
<1>7. ASSUME Distinct(s), Distinct(t), Members(s) \intersect Members(t) = {} PROVE Distinct(u)
  <2>1. \A i \in 1 .. m : u[i] \in Members(s)
    BY <1>1 DEF Members
  <2>2. \A i \in m + 1 .. m + n : i - m \in 1 .. n /\ u[i] = t[i - m] /\ u[i] \in Members(t)
    BY <1>1, <1>4 DEF Members
  <2> SUFFICES ASSUME NEW i \in 1 .. m + n, NEW j \in 1 .. m + n, u[i] = u[j] PROVE i = j
    BY <1>1 DEF Distinct
  <2>3. CASE i \in 1 .. m /\ j \in 1 .. m
    BY <1>1, <1>7, <2>3 DEF Distinct
  <2>4. CASE i \in m + 1 .. m + n /\ j \in m + 1 .. m + n
    <3>1. i - m = j - m
      BY <1>7, <2>2, <2>4 DEF Distinct
    <3> QED
      BY <3>1, <2>4
  <2>5. CASE ~(i \in 1 .. m <=> j \in 1 .. m)
    BY <1>5, <1>7, <2>1, <2>2, <2>5
  <2> QED
    BY <1>5, <2>3, <2>4, <2>5
<1> QED
  BY <1>1, <1>3, <1>6, <1>7

(* f[n] is what a filter keeps of the first n members.                       *)
Keeps(f, list, set) ==
    /\ f[0] = <<>>
    /\ \A n \in 1 .. Len(list) :
          f[n] = IF list[n] \in set THEN Append(f[n - 1], list[n]) ELSE f[n - 1]

(* A filter is such a loop.                                                  *)
LEMMA KeptLoop ==
    ASSUME NEW S, NEW list \in Seq(S), NEW set
    PROVE  \E f \in [0 .. Len(list) -> Seq(S)] : Kept(list, set) = f[Len(list)] /\ Keeps(f, list, set)
<1> PICK N \in Nat : N = Len(list)
  OBVIOUS
<1> PICK V : V = Seq(Members(list))
  OBVIOUS
<1> DEFINE keep == [at \in (1 .. N) \X V |->
                       IF list[at[1]] \in set THEN Append(at[2], list[at[1]]) ELSE at[2]]
<1>1. Members(list) \subseteq S /\ \A n \in 1 .. N : list[n] \in Members(list)
  BY DEF Members
<1>2. <<>> \in V
  BY EmptySeq
<1>3. \A n \in 1 .. N, v \in V : keep[<<n, v>>] = IF list[n] \in set THEN Append(v, list[n]) ELSE v
  OBVIOUS
<1>4. ASSUME NEW n \in 1 .. N, NEW v \in V PROVE keep[<<n, v>>] \in V
  <2>1. Append(v, list[n]) \in V
    BY <1>1
  <2> HIDE DEF keep
  <2> QED
    BY <1>3, <2>1
<1>5. Kept(list, set) = Loop(<<>>, keep, N)
  BY DEF Kept
<1> HIDE DEF keep
<1>6. PICK f \in [0 .. N -> V] : Loop(<<>>, keep, N) = f[N] /\ Iterates(f, <<>>, keep, N)
  BY <1>2, <1>4, LoopFacts
<1>7. Keeps(f, list, set)
  <2>1. ASSUME NEW n \in 1 .. N
        PROVE  f[n] = IF list[n] \in set THEN Append(f[n - 1], list[n]) ELSE f[n - 1]
    <3>1. f[n - 1] \in V
      OBVIOUS
    <3> QED
      BY <1>3, <1>6, <3>1 DEF Iterates
  <2> QED
    BY <1>6, <2>1 DEF Iterates, Keeps
<1>8. f \in [0 .. N -> Seq(S)]
  <2>1. \A n \in 0 .. N : f[n] \in Seq(S)
    <3>1. \A v \in V : v \in Seq(S)
      BY <1>1
    <3> QED
      BY <3>1
  <2> QED
    BY <2>1
<1> QED
  BY <1>5, <1>6, <1>7, <1>8

(* A filter keeps exactly the members that are in the set, and makes no       *)
(* member appear twice.                                                      *)
LEMMA KeptFacts ==
    ASSUME NEW S, NEW list \in Seq(S), NEW set
    PROVE  /\ Kept(list, set) \in Seq(S)
           /\ Members(Kept(list, set)) = Members(list) \intersect set
           /\ Distinct(list) => Distinct(Kept(list, set))
<1>0. PICK f \in [0 .. Len(list) -> Seq(S)] :
          Kept(list, set) = f[Len(list)] /\ Keeps(f, list, set)
  BY KeptLoop
<1> DEFINE N == Len(list)
           First(n) == {list[i] : i \in 1 .. n}
<1>1. /\ Kept(list, set) = f[N]
      /\ f[0] = <<>>
      /\ \A n \in 1 .. N : f[n] = IF list[n] \in set THEN Append(f[n - 1], list[n]) ELSE f[n - 1]
  BY <1>0 DEF Keeps
<1> DEFINE Fine(n) == /\ Members(f[n]) = First(n) \intersect set
                      /\ Distinct(list) => Distinct(f[n])
           T == {n \in 0 .. N : Fine(n)}
<1>2. N \in Nat
  OBVIOUS
<1>3. 0 \in T
  <2>1. Members(f[0]) = {} /\ Distinct(f[0]) /\ First(0) = {}
    BY <1>1 DEF Members, Distinct
  <2> QED
    BY <1>2, <2>1
<1>4. ASSUME NEW n \in 0 .. N - 1, n \in T PROVE n + 1 \in T
  <2>1. n + 1 \in 1 .. N /\ (n + 1) - 1 = n /\ n \in 0 .. N
    BY <1>2
  <2>2. f[n + 1] = IF list[n + 1] \in set THEN Append(f[n], list[n + 1]) ELSE f[n]
    BY <1>1, <2>1
  <2>3. f[n] \in Seq(S) /\ list[n + 1] \in S
    BY <2>1
  <2>4. First(n + 1) = First(n) \union {list[n + 1]}
    <3>1. \A i : i \in 1 .. n + 1 <=> i \in 1 .. n \/ i = n + 1
      BY <2>1
    <3> QED
      BY <3>1
  <2>5. Members(f[n]) = First(n) \intersect set /\ (Distinct(list) => Distinct(f[n]))
    BY <1>4
  <2>6. CASE list[n + 1] \in set
    <3>1. Members(f[n + 1]) = First(n + 1) \intersect set
      BY <2>2, <2>3, <2>4, <2>5, <2>6, AppendFacts
    <3>2. ASSUME Distinct(list) PROVE list[n + 1] \notin Members(f[n])
      <4>1. list[n + 1] \notin First(n)
        BY <1>2, <2>1, <3>2 DEF Distinct
      <4> QED
        BY <2>5, <4>1
    <3>3. ASSUME Distinct(list) PROVE Distinct(f[n + 1])
      BY <2>2, <2>3, <2>5, <2>6, <3>2, <3>3, AppendFacts
    <3>4. n + 1 \in 0 .. N
      BY <2>1
    <3> QED
      BY <3>1, <3>3, <3>4
  <2>7. CASE list[n + 1] \notin set
    BY <2>1, <2>2, <2>4, <2>5, <2>7
  <2> QED
    BY <2>6, <2>7
<1> HIDE DEF T
<1>5. 0 .. N \subseteq T
  BY <1>2, <1>3, <1>4, IntervalInduction
<1>6. Fine(N)
  BY <1>2, <1>5 DEF T
<1> QED
  BY <1>1, <1>2, <1>6 DEF Members
=============================================================================
