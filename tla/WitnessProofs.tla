---------------------------- MODULE WitnessProofs ----------------------------
(* Proofs about the Merkle trees of the transparency log, and about the      *)
(* witnesses and verifiers of its checkpoints.  Roots, paths and the walk    *)
(* along a path are recursive functions; what they compute is proved by      *)
(* induction over the size of the tree.                                      *)
EXTENDS Witness, ListFacts

-----------------------------------------------------------------------------
(* Powers of two, and where a tree is split.                                 *)

(* What doubling makes of 1.                                                 *)
Powers == {p \in Nat : \A T \in SUBSET Nat : 1 \in T /\ (\A x \in T : 2 * x \in T) => p \in T}

(* One is a power of two and so is twice a power.                            *)
LEMMA PowersDouble == 1 \in Powers /\ \A p \in Powers : 2 * p \in Powers
  BY DEF Powers

(* What holds of one and of twice what it holds of, holds of every power.    *)
LEMMA PowersInduction ==
    ASSUME NEW T \in SUBSET Nat, 1 \in T, \A x \in T : 2 * x \in T
    PROVE  Powers \subseteq T
  BY DEF Powers

(* A power of two is one or twice a power.                                   *)
LEMMA PowersHalve ==
    ASSUME NEW p \in Powers
    PROVE  p \in Nat \ {0} /\ (p = 1 \/ \E q \in Powers : p = 2 * q)
<1> DEFINE T == {x \in Nat \ {0} : x \in Powers /\ (x = 1 \/ \E q \in Powers : x = 2 * q)}
<1>1. T \in SUBSET Nat /\ 1 \in T
  BY PowersDouble
<1>2. \A x \in T : 2 * x \in T
  BY PowersDouble
<1> HIDE DEF T
<1>3. Powers \subseteq T
  BY <1>1, <1>2, PowersInduction
<1> QED
  BY <1>3 DEF T

(* A product of natural numbers.                                             *)
LEMMA Products ==
    ASSUME NEW a \in Nat, NEW b \in Nat
    PROVE  /\ a * b \in Nat /\ (2 * a) * b = 2 * (a * b) /\ a * (2 * b) = 2 * (a * b)
           /\ (2 * a + 1) * b = 2 * (a * b) + b
           /\ b # 0 => a * b >= a
           /\ a # 0 => a * b >= b
<1>1. a * b \in Nat
  OBVIOUS
<1>2. (2 * a) * b = 2 * (a * b) /\ a * (2 * b) = 2 * (a * b)
  OBVIOUS
<1>3. (2 * a + 1) * b = 2 * (a * b) + b
  OBVIOUS
<1>4. ASSUME b # 0 PROVE a * b >= a
  <2>1. PICK c \in Nat : b = c + 1
    <3>1. b - 1 \in Nat /\ b = (b - 1) + 1
      BY <1>4
    <3> QED
      BY <3>1
  <2>2. a * (c + 1) = a * c + a /\ a * c \in Nat
    OBVIOUS
  <2> QED
    BY <2>1, <2>2
<1>5. ASSUME a # 0 PROVE a * b >= b
  <2>1. PICK c \in Nat : a = c + 1
    <3>1. a - 1 \in Nat /\ a = (a - 1) + 1
      BY <1>5
    <3> QED
      BY <3>1
  <2>2. (c + 1) * b = c * b + b /\ c * b \in Nat
    OBVIOUS
  <2> QED
    BY <2>1, <2>2
<1> QED
  BY <1>1, <1>2, <1>3, <1>4, <1>5

(* Products are associative.                                                 *)
LEMMA Associative ==
    ASSUME NEW a \in Nat, NEW b \in Nat, NEW c \in Nat
    PROVE  (a * b) * c = a * (b * c)
  OBVIOUS

(* A power divides every larger one, and the quotient is a power.            *)
LEMMA PowersDivide ==
    ASSUME NEW p \in Powers, NEW q \in Powers, p <= q
    PROVE  \E e \in Powers : q = p * e
<1> DEFINE T == {x \in Nat : /\ x \in Powers
                             /\ \A r \in Powers : r <= x => \E e \in Powers : x = r * e}
<1>1. 1 \in T
  <2>1. ASSUME NEW r \in Powers, r <= 1 PROVE \E e \in Powers : 1 = r * e
    <3>1. r = 1
      BY <2>1, PowersHalve
    <3>2. 1 = r * 1
      BY <3>1
    <3> QED
      BY <3>2, PowersDouble
  <2> QED
    BY <2>1, PowersDouble
<1>2. ASSUME NEW x \in T PROVE 2 * x \in T
  <2>1. ASSUME NEW r \in Powers, r <= 2 * x PROVE \E e \in Powers : 2 * x = r * e
    <3>1. CASE r = 1
      <4>1. 2 * x \in Powers /\ 2 * x = r * (2 * x)
        BY <3>1, PowersDouble
      <4> QED
        BY <4>1
    <3>2. ASSUME NEW h \in Powers, r = 2 * h PROVE \E e \in Powers : 2 * x = r * e
      <4>1. h \in Nat /\ x \in Nat
        BY PowersHalve
      <4>2. h <= x
        BY <2>1, <3>2, <4>1
      <4>3. PICK e \in Powers : x = h * e
        BY <4>2
      <4>4. e \in Nat
        BY PowersHalve
      <4>5. (2 * h) * e = 2 * (h * e)
        BY <4>1, <4>4, Products
      <4> QED
        BY <3>2, <4>3, <4>5
    <3> QED
      BY <3>1, <3>2, PowersHalve
  <2>2. 2 * x \in Nat /\ 2 * x \in Powers
    BY PowersDouble
  <2> QED
    BY <2>1, <2>2
<1> HIDE DEF T
<1>3. Powers \subseteq T
  <2>1. T \in SUBSET Nat
    BY DEF T
  <2> QED
    BY <1>1, <1>2, <2>1, PowersInduction
<1> QED
  BY <1>3 DEF T

(* There is no power between a power and its double.                         *)
LEMMA PowersGap ==
    ASSUME NEW p \in Powers, NEW q \in Powers, p < q
    PROVE  2 * p <= q
<1>1. p \in Nat /\ q \in Nat /\ p <= q
  BY PowersHalve
<1>2. PICK e \in Powers : q = p * e
  BY <1>1, PowersDivide
<1>3. e # 1
  BY <1>1, <1>2
<1>4. PICK h \in Powers : e = 2 * h
  BY <1>3, PowersHalve
<1>5. h \in Nat \ {0}
  BY PowersHalve
<1>6. p * (2 * h) = 2 * (p * h) /\ p * h >= p /\ p * h \in Nat
  BY <1>1, <1>5, Products
<1> QED
  BY <1>1, <1>2, <1>4, <1>6

(* A tree of several leaves is split at the largest power of two below its   *)
(* size.                                                                     *)
LEMMA SplitFacts ==
    ASSUME NEW n \in Nat, n >= 2
    PROVE  /\ Split(n) \in Powers /\ Split(n) \in 1 .. n - 1 /\ n <= 2 * Split(n)
           /\ n - Split(n) \in 1 .. n - 1
<1> DEFINE double == [at \in (1 .. n) \X Nat |-> IF 2 * at[2] < n THEN 2 * at[2] ELSE at[2]]
<1>1. Split(n) = Loop(1, double, n)
  BY DEF Split
<1>2. \A m \in 1 .. n, v \in Nat : double[<<m, v>>] = IF 2 * v < n THEN 2 * v ELSE v
  OBVIOUS
<1> HIDE DEF double
<1>3. PICK V : V = Nat
  OBVIOUS
<1>4. 1 \in V /\ \A m \in 1 .. n, v \in V : double[<<m, v>>] \in V
  BY <1>2, <1>3
<1>5. PICK f \in [0 .. n -> V] : Loop(1, double, n) = f[n] /\ Iterates(f, 1, double, n)
  BY <1>4, LoopFacts
<1>6. /\ f[0] = 1
      /\ \A m \in 1 .. n : f[m] = IF 2 * f[m - 1] < n THEN 2 * f[m - 1] ELSE f[m - 1]
  <2>1. ASSUME NEW m \in 1 .. n
        PROVE  f[m] = IF 2 * f[m - 1] < n THEN 2 * f[m - 1] ELSE f[m - 1]
    <3>1. f[m - 1] \in Nat
      BY <1>3
    <3> QED
      BY <1>2, <1>5, <3>1 DEF Iterates
  <2> QED
    BY <1>5, <2>1 DEF Iterates
<1> DEFINE T == {m \in 0 .. n : f[m] \in Powers /\ f[m] < n /\ (n <= 2 * f[m] \/ f[m] >= m + 1)}
<1>7. 0 \in T
  BY <1>6, PowersDouble
<1>8. ASSUME NEW m \in 0 .. n - 1, m \in T PROVE m + 1 \in T
  <2>1. m + 1 \in 1 .. n /\ m + 1 \in 0 .. n /\ (m + 1) - 1 = m
    OBVIOUS
  <2>2. f[m + 1] = IF 2 * f[m] < n THEN 2 * f[m] ELSE f[m]
    BY <1>6, <2>1
  <2>3. PICK p \in Powers : p = f[m]
    BY <1>8
  <2>4. p \in Nat \ {0} /\ p < n /\ (n <= 2 * p \/ p >= m + 1) /\ 2 * p \in Powers
    BY <1>8, <2>3, PowersHalve, PowersDouble
  <2>5. CASE 2 * p < n
    <3>1. f[m + 1] = 2 * p
      BY <2>2, <2>3, <2>5
    <3>2. 2 * p >= (m + 1) + 1
      BY <2>4, <2>5
    <3> QED
      BY <2>1, <2>4, <2>5, <3>1, <3>2
  <2>6. CASE ~(2 * p < n)
    <3>1. f[m + 1] = p
      BY <2>2, <2>3, <2>6
    <3>2. n <= 2 * p
      BY <2>4, <2>6
    <3> QED
      BY <2>1, <2>4, <3>1, <3>2
  <2> QED
    BY <2>5, <2>6
<1> HIDE DEF T
<1>9. n \in T
  <2>1. 0 .. n \subseteq T
    BY <1>7, <1>8, IntervalInduction
  <2> QED
    BY <2>1
<1>10. PICK k \in Powers : k = Split(n)
  BY <1>1, <1>5, <1>9 DEF T
<1>11. k \in Nat \ {0} /\ k < n /\ (n <= 2 * k \/ k >= n + 1)
  BY <1>1, <1>5, <1>9, <1>10, PowersHalve DEF T
<1> QED
  BY <1>10, <1>11

-----------------------------------------------------------------------------
(* The loops that shift the indices.                                         *)

(* Half of a number that is c times a power, or less by one, and the range   *)
(* of a number that is divided by the power.                                 *)
LEMMA Halves ==
    ASSUME NEW q \in Nat, NEW c \in Nat, NEW s \in Nat, NEW sn \in Nat,
           s * (2 * q) <= sn, sn < s * (2 * q) + 2 * q
    PROVE  /\ sn \div 2 \in Nat
           /\ s * q <= sn \div 2 /\ sn \div 2 < s * q + q
           /\ (c * (2 * q)) \div 2 = c * q /\ (c * (2 * q)) % 2 = 0
           /\ q # 0 => /\ (c * (2 * q) + 2 * q - 1) \div 2 = c * q + q - 1
                       /\ (c * (2 * q) + 2 * q - 1) % 2 = 1
<1>1. /\ c * q \in Nat /\ s * q \in Nat
      /\ c * (2 * q) = 2 * (c * q) /\ s * (2 * q) = 2 * (s * q)
  BY Products
<1>2. PICK a \in Nat, b \in Nat : a = c * q /\ b = s * q
  BY <1>1
<1>3. 2 * b <= sn /\ sn < 2 * b + 2 * q
  BY <1>1, <1>2
<1>4. sn \div 2 \in Nat /\ b <= sn \div 2 /\ sn \div 2 < b + q
  BY <1>3
<1>5. (2 * a) \div 2 = a /\ (2 * a) % 2 = 0
  OBVIOUS
<1>6. q # 0 => /\ (2 * a + 2 * q - 1) \div 2 = a + q - 1
               /\ (2 * a + 2 * q - 1) % 2 = 1
  OBVIOUS
<1> QED
  BY <1>1, <1>2, <1>4, <1>5, <1>6

(* The rounds of the first loop ...                                          *)
LEMMA ShiftOddRounds ==
    ASSUME NEW start \in Indices
    PROVE  \E f \in [0 .. start.fn -> Indices] :
              /\ ShiftOdd(start) = f[start.fn] /\ f[0] = start
              /\ \A m \in 1 .. start.fn :
                    f[m] = IF f[m - 1].fn % 2 = 1 THEN Shifted(f[m - 1]) ELSE f[m - 1]
<1>1. PICK N \in Nat : N = start.fn
  BY DEF Indices
<1> DEFINE shift == [at \in (1 .. N) \X Indices |->
                        IF at[2].fn % 2 = 1 THEN Shifted(at[2]) ELSE at[2]]
<1>2. ShiftOdd(start) = Loop(start, shift, N)
  BY <1>1 DEF ShiftOdd
<1>3. \A m \in 1 .. N, v \in Indices :
         shift[<<m, v>>] = IF v.fn % 2 = 1 THEN Shifted(v) ELSE v
  OBVIOUS
<1> HIDE DEF shift
<1>4. ASSUME NEW v \in Indices PROVE Shifted(v) \in Indices
  BY DEF Shifted, Indices
<1>5. PICK V : V = Indices
  OBVIOUS
<1>6. start \in V /\ \A m \in 1 .. N, v \in V : shift[<<m, v>>] \in V
  BY <1>3, <1>4, <1>5
<1>7. PICK f \in [0 .. N -> V] : Loop(start, shift, N) = f[N] /\ Iterates(f, start, shift, N)
  BY <1>6, LoopFacts
<1>8. ASSUME NEW m \in 1 .. N
      PROVE  f[m] = IF f[m - 1].fn % 2 = 1 THEN Shifted(f[m - 1]) ELSE f[m - 1]
  <2>1. f[m - 1] \in Indices
    BY <1>5
  <2> QED
    BY <1>3, <1>7, <2>1 DEF Iterates
<1>9. f[0] = start
  BY <1>7 DEF Iterates
<1> QED
  BY <1>1, <1>2, <1>5, <1>7, <1>8, <1>9

(* ... and of the second.                                                    *)
LEMMA ShiftEvenRounds ==
    ASSUME NEW start \in Indices
    PROVE  \E f \in [0 .. start.fn -> Indices] :
              /\ ShiftEven(start) = f[start.fn] /\ f[0] = start
              /\ \A m \in 1 .. start.fn :
                    f[m] = IF f[m - 1].fn # 0 /\ f[m - 1].fn % 2 = 0
                           THEN Shifted(f[m - 1]) ELSE f[m - 1]
<1>1. PICK N \in Nat : N = start.fn
  BY DEF Indices
<1> DEFINE shift == [at \in (1 .. N) \X Indices |->
                        IF at[2].fn # 0 /\ at[2].fn % 2 = 0 THEN Shifted(at[2]) ELSE at[2]]
<1>2. ShiftEven(start) = Loop(start, shift, N)
  BY <1>1 DEF ShiftEven
<1>3. \A m \in 1 .. N, v \in Indices :
         shift[<<m, v>>] = IF v.fn # 0 /\ v.fn % 2 = 0 THEN Shifted(v) ELSE v
  OBVIOUS
<1> HIDE DEF shift
<1>4. ASSUME NEW v \in Indices PROVE Shifted(v) \in Indices
  BY DEF Shifted, Indices
<1>5. PICK V : V = Indices
  OBVIOUS
<1>6. start \in V /\ \A m \in 1 .. N, v \in V : shift[<<m, v>>] \in V
  BY <1>3, <1>4, <1>5
<1>7. PICK f \in [0 .. N -> V] : Loop(start, shift, N) = f[N] /\ Iterates(f, start, shift, N)
  BY <1>6, LoopFacts
<1>8. ASSUME NEW m \in 1 .. N
      PROVE  f[m] = IF f[m - 1].fn # 0 /\ f[m - 1].fn % 2 = 0 THEN Shifted(f[m - 1]) ELSE f[m - 1]
  <2>1. f[m - 1] \in Indices
    BY <1>5
  <2> QED
    BY <1>3, <1>7, <2>1 DEF Iterates
<1>9. f[0] = start
  BY <1>7 DEF Iterates
<1> QED
  BY <1>1, <1>2, <1>5, <1>7, <1>8, <1>9

(* The first loop removes the trailing ones of fn, and as many bits of sn.   *)
LEMMA ShiftOddFacts ==
    ASSUME NEW d \in Nat, NEW R \in Powers, NEW s \in Nat, NEW sn \in Nat,
           s * R <= sn, sn < s * R + R
    PROVE  ShiftOdd([fn |-> (2 * d) * R + R - 1, sn |-> sn]) = [fn |-> 2 * d, sn |-> s]
<1>1. R \in Nat \ {0} /\ (2 * d) * R \in Nat
  BY PowersHalve, Products
<1>2. PICK c \in Nat : c = 2 * d /\ c % 2 = 0
  OBVIOUS
<1>3. PICK N \in Nat : N = c * R + R - 1 /\ N >= R - 1
  BY <1>1, <1>2
<1>4. PICK start \in Indices : start = [fn |-> N, sn |-> sn]
  BY DEF Indices
<1>5. PICK f \in [0 .. N -> Indices] :
           /\ ShiftOdd(start) = f[N] /\ f[0] = start
           /\ \A m \in 1 .. N : f[m] = IF f[m - 1].fn % 2 = 1 THEN Shifted(f[m - 1]) ELSE f[m - 1]
  BY <1>4, ShiftOddRounds
<1> DEFINE Left(m, Q) == /\ f[m].fn = c * Q + Q - 1
                         /\ s * Q <= f[m].sn /\ f[m].sn < s * Q + Q
                         /\ Q = 1 \/ Q + m <= R
           T == {m \in 0 .. N : \E Q \in Powers : Left(m, Q)}
<1>6. 0 \in T
  <2>1. Left(0, R)
    BY <1>1, <1>3, <1>4, <1>5
  <2> HIDE DEF Left
  <2> QED
    BY <2>1
<1>7. ASSUME NEW m \in 0 .. N - 1, m \in T PROVE m + 1 \in T
  <2>1. m + 1 \in 1 .. N /\ m + 1 \in 0 .. N /\ (m + 1) - 1 = m /\ m \in 0 .. N
    OBVIOUS
  <2>2. f[m + 1] = IF f[m].fn % 2 = 1 THEN Shifted(f[m]) ELSE f[m]
    BY <1>5, <2>1
  <2>3. PICK Q \in Powers : Left(m, Q)
    BY <1>7
  <2>4. f[m].sn \in Nat
    BY <2>1 DEF Indices
  <2>5. CASE Q = 1
    <3>1. f[m].fn = c
      BY <2>3, <2>5
    <3>2. f[m + 1] = f[m]
      BY <1>2, <2>2, <3>1
    <3>3. Left(m + 1, Q)
      BY <2>3, <2>5, <3>2
    <3> QED
      BY <2>1, <3>3
  <2>6. ASSUME NEW q \in Powers, Q = 2 * q PROVE m + 1 \in T
    <3>1. q \in Nat \ {0}
      BY PowersHalve
    <3>2. PICK sm \in Nat : sm = f[m].sn
      BY <2>4
    <3>3. s * (2 * q) <= sm /\ sm < s * (2 * q) + 2 * q
      BY <2>3, <2>6, <3>2
    <3>4. /\ s * q <= sm \div 2 /\ sm \div 2 < s * q + q
          /\ (c * (2 * q) + 2 * q - 1) \div 2 = c * q + q - 1
          /\ (c * (2 * q) + 2 * q - 1) % 2 = 1
      BY <3>1, <3>3, Halves
    <3>5. f[m].fn = c * (2 * q) + 2 * q - 1
      BY <2>3, <2>6
    <3>6. f[m + 1] = Shifted(f[m])
      BY <2>2, <3>4, <3>5
    <3>7. f[m + 1].fn = c * q + q - 1 /\ f[m + 1].sn = sm \div 2
      BY <3>2, <3>4, <3>5, <3>6 DEF Shifted
    <3>8. q + (m + 1) <= R
      <4>1. 2 * q + m <= R
        BY <2>3, <2>6, <3>1
      <4> QED
        BY <1>1, <2>1, <3>1, <4>1
    <3>9. Left(m + 1, q)
      BY <3>4, <3>7, <3>8
    <3> QED
      BY <2>1, <3>9
  <2> QED
    BY <2>5, <2>6, PowersHalve
<1>8. PICK Q \in Powers : Left(N, Q)
  <2> HIDE DEF T
  <2>1. 0 .. N \subseteq T
    BY <1>6, <1>7, IntervalInduction
  <2>2. N \in T
    BY <2>1
  <2> QED
    BY <2>2 DEF T
<1>9. Q = 1
  <2>1. Q \in Nat \ {0} /\ (Q = 1 \/ Q + N <= R)
    BY <1>8, PowersHalve
  <2> QED
    BY <1>1, <1>3, <2>1
<1>10. f[N] \in Indices /\ f[N].fn = c /\ f[N].sn = s
  <2>1. f[N] \in Indices
    OBVIOUS
  <2>2. f[N].sn \in Nat
    BY <2>1 DEF Indices
  <2>3. f[N].fn = c * 1 + 1 - 1 /\ s * 1 <= f[N].sn /\ f[N].sn < s * 1 + 1
    BY <1>8, <1>9
  <2> QED
    BY <2>1, <2>2, <2>3
<1>11. f[N] = [fn |-> c, sn |-> s]
  BY <1>10 DEF Indices
<1> QED
  BY <1>2, <1>3, <1>4, <1>5, <1>11

(* The second removes the trailing zeros.                                    *)
LEMMA ShiftEvenFacts ==
    ASSUME NEW d \in Nat, NEW R \in Powers, NEW s \in Nat, NEW sn \in Nat,
           s * R <= sn, sn < s * R + R
    PROVE  ShiftEven([fn |-> (2 * d + 1) * R, sn |-> sn]) = [fn |-> 2 * d + 1, sn |-> s]
<1>1. R \in Nat \ {0} /\ (2 * d + 1) * R \in Nat /\ (2 * d + 1) * R >= R
  BY PowersHalve, Products
<1>2. PICK c \in Nat : c = 2 * d + 1 /\ c % 2 = 1 /\ c # 0
  OBVIOUS
<1>3. PICK N \in Nat : N = c * R /\ N >= R
  BY <1>1, <1>2
<1>4. PICK start \in Indices : start = [fn |-> N, sn |-> sn]
  BY DEF Indices
<1>5. PICK f \in [0 .. N -> Indices] :
           /\ ShiftEven(start) = f[N] /\ f[0] = start
           /\ \A m \in 1 .. N :
                 f[m] = IF f[m - 1].fn # 0 /\ f[m - 1].fn % 2 = 0
                        THEN Shifted(f[m - 1]) ELSE f[m - 1]
  BY <1>4, ShiftEvenRounds
<1> DEFINE Left(m, Q) == /\ f[m].fn = c * Q
                         /\ s * Q <= f[m].sn /\ f[m].sn < s * Q + Q
                         /\ Q = 1 \/ Q + m <= R
           T == {m \in 0 .. N : \E Q \in Powers : Left(m, Q)}
<1>6. 0 \in T
  <2>1. Left(0, R)
    BY <1>1, <1>3, <1>4, <1>5
  <2> HIDE DEF Left
  <2> QED
    BY <2>1
<1>7. ASSUME NEW m \in 0 .. N - 1, m \in T PROVE m + 1 \in T
  <2>1. m + 1 \in 1 .. N /\ m + 1 \in 0 .. N /\ (m + 1) - 1 = m /\ m \in 0 .. N
    OBVIOUS
  <2>2. f[m + 1] = IF f[m].fn # 0 /\ f[m].fn % 2 = 0 THEN Shifted(f[m]) ELSE f[m]
    BY <1>5, <2>1
  <2>3. PICK Q \in Powers : Left(m, Q)
    BY <1>7
  <2>4. f[m].sn \in Nat
    BY <2>1 DEF Indices
  <2>5. CASE Q = 1
    <3>1. f[m].fn = c
      BY <2>3, <2>5
    <3>2. f[m + 1] = f[m]
      BY <1>2, <2>2, <3>1
    <3>3. Left(m + 1, Q)
      BY <2>3, <2>5, <3>2
    <3> QED
      BY <2>1, <3>3
  <2>6. ASSUME NEW q \in Powers, Q = 2 * q PROVE m + 1 \in T
    <3>1. q \in Nat \ {0}
      BY PowersHalve
    <3>2. PICK sm \in Nat : sm = f[m].sn
      BY <2>4
    <3>3. s * (2 * q) <= sm /\ sm < s * (2 * q) + 2 * q
      BY <2>3, <2>6, <3>2
    <3>4. /\ s * q <= sm \div 2 /\ sm \div 2 < s * q + q
          /\ (c * (2 * q)) \div 2 = c * q
          /\ (c * (2 * q)) % 2 = 0 /\ c * (2 * q) # 0
      <4>1. c * (2 * q) = 2 * (c * q) /\ c * q \in Nat /\ c * q >= q
        BY <1>2, <3>1, Products
      <4> QED
        BY <3>1, <3>3, <4>1, Halves
    <3>5. f[m].fn = c * (2 * q)
      BY <2>3, <2>6
    <3>6. f[m + 1] = Shifted(f[m])
      BY <2>2, <3>4, <3>5
    <3>7. f[m + 1].fn = c * q /\ f[m + 1].sn = sm \div 2
      BY <3>2, <3>4, <3>5, <3>6 DEF Shifted
    <3>8. q + (m + 1) <= R
      <4>1. 2 * q + m <= R
        BY <2>3, <2>6, <3>1
      <4> QED
        BY <1>1, <2>1, <3>1, <4>1
    <3>9. Left(m + 1, q)
      BY <3>4, <3>7, <3>8
    <3> QED
      BY <2>1, <3>9
  <2> QED
    BY <2>5, <2>6, PowersHalve
<1>8. PICK Q \in Powers : Left(N, Q)
  <2> HIDE DEF T
  <2>1. 0 .. N \subseteq T
    BY <1>6, <1>7, IntervalInduction
  <2>2. N \in T
    BY <2>1
  <2> QED
    BY <2>2 DEF T
<1>9. Q = 1
  <2>1. Q \in Nat \ {0} /\ (Q = 1 \/ Q + N <= R)
    BY <1>8, PowersHalve
  <2> QED
    BY <1>1, <1>3, <2>1
<1>10. f[N] \in Indices /\ f[N].fn = c /\ f[N].sn = s
  <2>1. f[N] \in Indices
    OBVIOUS
  <2>2. f[N].sn \in Nat
    BY <2>1 DEF Indices
  <2>3. f[N].fn = c * 1 /\ s * 1 <= f[N].sn /\ f[N].sn < s * 1 + 1
    BY <1>8, <1>9
  <2> QED
    BY <2>1, <2>2, <2>3
<1>11. f[N] = [fn |-> c, sn |-> s]
  BY <1>10 DEF Indices
<1> QED
  BY <1>2, <1>3, <1>4, <1>5, <1>11

(* Half of an odd number.                                                    *)
LEMMA OddHalf ==
    ASSUME NEW x \in Nat, x % 2 = 1
    PROVE  x \div 2 \in Nat /\ x + 1 = 2 * (x \div 2 + 1)
  OBVIOUS

(* The first loop ends at zero only if fn + 1 is a power of two.             *)
LEMMA ShiftOddToZero ==
    ASSUME NEW n \in Nat \ {0}, NEW sn \in Nat, ShiftOdd([fn |-> n - 1, sn |-> sn]).fn = 0
    PROVE  n \in Powers
<1>1. PICK N \in Nat : N = n - 1
  OBVIOUS
<1>2. PICK start \in Indices : start = [fn |-> N, sn |-> sn]
  BY DEF Indices
<1>3. PICK f \in [0 .. N -> Indices] :
          /\ ShiftOdd(start) = f[N] /\ f[0] = start
          /\ \A m \in 1 .. N : f[m] = IF f[m - 1].fn % 2 = 1 THEN Shifted(f[m - 1]) ELSE f[m - 1]
  BY <1>2, ShiftOddRounds
<1> DEFINE T == {m \in 0 .. N : \E Q \in Powers : n = (f[m].fn + 1) * Q}
<1>4. 0 \in T
  <2>1. n = (f[0].fn + 1) * 1
    BY <1>1, <1>2, <1>3
  <2> QED
    BY <2>1, PowersDouble
<1>5. ASSUME NEW m \in 0 .. N - 1, m \in T PROVE m + 1 \in T
  <2>1. m + 1 \in 1 .. N /\ m + 1 \in 0 .. N /\ (m + 1) - 1 = m /\ m \in 0 .. N
    OBVIOUS
  <2>2. f[m + 1] = IF f[m].fn % 2 = 1 THEN Shifted(f[m]) ELSE f[m]
    BY <1>3, <2>1
  <2>3. PICK Q \in Powers : n = (f[m].fn + 1) * Q
    BY <1>5
  <2>4. CASE f[m].fn % 2 # 1
    BY <2>1, <2>2, <2>3, <2>4
  <2>5. CASE f[m].fn % 2 = 1
    <3>1. PICK x \in Nat : x = f[m].fn /\ x % 2 = 1
      BY <2>1, <2>5 DEF Indices
    <3>2. PICK h \in Nat : h = x \div 2
      BY <3>1, OddHalf
    <3>3. x + 1 = 2 * (h + 1)
      BY <3>1, <3>2, OddHalf
    <3>4. f[m + 1].fn = h
      BY <2>2, <2>5, <3>1, <3>2 DEF Shifted
    <3>5. Q \in Nat /\ 2 * Q \in Powers
      BY PowersHalve, PowersDouble
    <3>6. (2 * (h + 1)) * Q = (h + 1) * (2 * Q)
      <4>1. PICK a \in Nat : a = h + 1
        BY <3>2
      <4> QED
        BY <3>5, <4>1, Products
    <3>7. n = (f[m + 1].fn + 1) * (2 * Q)
      BY <2>3, <3>1, <3>3, <3>4, <3>6
    <3> QED
      BY <2>1, <3>5, <3>7
  <2> QED
    BY <2>4, <2>5
<1> HIDE DEF T
<1>6. N \in T
  <2>1. 0 .. N \subseteq T
    BY <1>4, <1>5, IntervalInduction
  <2> QED
    BY <2>1
<1>7. PICK Q \in Powers : n = (f[N].fn + 1) * Q
  BY <1>6 DEF T
<1>8. f[N].fn = 0 /\ Q \in Nat
  BY <1>1, <1>2, <1>3, PowersHalve
<1> QED
  BY <1>7, <1>8

-----------------------------------------------------------------------------
(* Roots.                                                                    *)

(* Both parts of a tree of several leaves are smaller trees.                 *)
LEMMA Parts ==
    ASSUME NEW n \in Nat, NEW t \in Trees(n + 1), t[2] # 1
    PROVE  /\ Split(t[2]) \in Powers /\ t[2] - Split(t[2]) \in 1 .. n
           /\ <<t[1], Split(t[2])>> \in Trees(n)
           /\ <<t[1] + Split(t[2]), t[2] - Split(t[2])>> \in Trees(n)
<1>1. PICK lo \in Nat, size \in 1 .. n + 1 : t = <<lo, size>>
  BY DEF Trees
<1>2. size \in Nat /\ size >= 2 /\ size <= n + 1 /\ t[1] = lo /\ t[2] = size
  BY <1>1
<1>3. PICK k : k = Split(size)
  OBVIOUS
<1>4. k \in Powers /\ k \in 1 .. size - 1 /\ size - k \in 1 .. size - 1
  BY <1>2, <1>3, SplitFacts
<1>5. k \in 1 .. n /\ size - k \in 1 .. n /\ lo + k \in Nat
  BY <1>2, <1>4
<1> QED
  BY <1>2, <1>3, <1>4, <1>5 DEF Trees

(* What the roots of all trees of at most size leaves have to satisfy.       *)
RootOf(entries, root, t) ==
    LET k == Split(t[2])
    IN  IF t[2] = 1 THEN Leaf(entries[t[1]])
        ELSE Node(root[<<t[1], k>>], root[<<t[1] + k, t[2] - k>>])

Roots(entries, root, size) == root = [t \in Trees(size) |-> RootOf(entries, root, t)]

(* A function that satisfies it exists for every size.                       *)
LEMMA RootsExist ==
    ASSUME NEW entries, NEW N \in Nat
    PROVE  \E root : Roots(entries, root, N)
<1> DEFINE T == {n \in 0 .. N : \E root : Roots(entries, root, n)}
<1>1. 0 \in T
  <2>1. PICK root : root = [t \in Trees(0) |-> 0]
    OBVIOUS
  <2>2. Trees(0) = {}
    BY DEF Trees
  <2>3. Roots(entries, root, 0)
    BY <2>1, <2>2 DEF Roots
  <2> QED
    BY <2>3
<1>2. ASSUME NEW n \in 0 .. N - 1, n \in T PROVE n + 1 \in T
  <2>1. n \in Nat /\ n + 1 \in 0 .. N
    OBVIOUS
  <2>2. PICK f : Roots(entries, f, n)
    BY <1>2
  <2>3. PICK g : g = [t \in Trees(n + 1) |-> RootOf(entries, f, t)]
    OBVIOUS
  <2>4. \A t \in Trees(n) : t \in Trees(n + 1)
    BY <2>1 DEF Trees
  <2>5. \A t \in Trees(n) : g[t] = f[t]
    BY <2>2, <2>3, <2>4, Zenon DEF Roots
  <2>6. ASSUME NEW t \in Trees(n + 1) PROVE RootOf(entries, g, t) = RootOf(entries, f, t)
    <3>1. CASE t[2] = 1
      BY <3>1 DEF RootOf
    <3>2. CASE t[2] # 1
      <4>1. PICK left \in Trees(n), right \in Trees(n) :
                left = <<t[1], Split(t[2])>> /\ right = <<t[1] + Split(t[2]), t[2] - Split(t[2])>>
        BY <2>1, <3>2, Parts
      <4>2. g[left] = f[left] /\ g[right] = f[right]
        BY <2>5
      <4> QED
        BY <3>2, <4>1, <4>2 DEF RootOf
    <3> QED
      BY <3>1, <3>2
  <2>7. Roots(entries, g, n + 1)
    BY <2>3, <2>6 DEF Roots
  <2> QED
    BY <2>1, <2>7
<1> HIDE DEF T
<1>3. N \in T
  <2>1. 0 .. N \subseteq T
    BY <1>1, <1>2, IntervalInduction
  <2> QED
    BY <2>1
<1> QED
  BY <1>3 DEF T

(* Two functions that satisfy it agree on the trees both are about.          *)
LEMMA RootsAgree ==
    ASSUME NEW entries, NEW M \in Nat, NEW N \in Nat, M <= N, NEW f, NEW g,
           Roots(entries, f, M), Roots(entries, g, N)
    PROVE  \A t \in Trees(M) : f[t] = g[t]
<1> DEFINE T == {n \in 0 .. M : \A t \in Trees(n) : f[t] = g[t]}
<1>1. 0 \in T
  BY DEF Trees
<1>2. ASSUME NEW n \in 0 .. M - 1, n \in T PROVE n + 1 \in T
  <2>1. n \in Nat /\ n + 1 \in 0 .. M
    OBVIOUS
  <2>2. ASSUME NEW t \in Trees(n + 1) PROVE f[t] = g[t]
    <3>1. t \in Trees(M) /\ t \in Trees(N)
      BY <2>1 DEF Trees
    <3>2. f[t] = RootOf(entries, f, t) /\ g[t] = RootOf(entries, g, t)
      BY <3>1, Zenon DEF Roots
    <3>3. CASE t[2] = 1
      BY <3>2, <3>3 DEF RootOf
    <3>4. CASE t[2] # 1
      <4>1. PICK left \in Trees(n), right \in Trees(n) :
                left = <<t[1], Split(t[2])>> /\ right = <<t[1] + Split(t[2]), t[2] - Split(t[2])>>
        BY <2>1, <3>4, Parts
      <4>2. g[left] = f[left] /\ g[right] = f[right]
        BY <1>2
      <4> QED
        BY <3>2, <3>4, <4>1, <4>2 DEF RootOf
    <3> QED
      BY <3>3, <3>4
  <2> QED
    BY <2>1, <2>2
<1> HIDE DEF T
<1>3. M \in T
  <2>1. 0 .. M \subseteq T
    BY <1>1, <1>2, IntervalInduction
  <2> QED
    BY <2>1
<1> QED
  BY <1>3 DEF T

(* SubtreeRoot is given by any of them.                                      *)
LEMMA RootsGive ==
    ASSUME NEW entries, NEW N \in Nat, NEW root, Roots(entries, root, N),
           NEW lo \in Nat, NEW n \in 1 .. N
    PROVE  SubtreeRoot(entries, lo, n) = root[<<lo, n>>]
<1> DEFINE Equation(f) ==
        f = [t \in Trees(n) |->
              LET k == Split(t[2])
              IN  IF t[2] = 1 THEN Leaf(entries[t[1]])
                  ELSE Node(f[<<t[1], k>>], f[<<t[1] + k, t[2] - k>>])]
<1>1. n \in Nat /\ n <= N
  OBVIOUS
<1>2. PICK f : f = CHOOSE h : Equation(h)
  OBVIOUS
<1>3. \E h : Equation(h)
  <2>1. PICK h : Roots(entries, h, n)
    BY <1>1, RootsExist
  <2>2. Equation(h)
    BY <2>1 DEF Roots, RootOf
  <2> HIDE DEF Equation
  <2> QED
    BY <2>2
<1>4. Equation(f)
  <2> HIDE DEF Equation
  <2> QED
    BY <1>2, <1>3
<1>5. Roots(entries, f, n)
  BY <1>4 DEF Roots, RootOf
<1>6. <<lo, n>> \in Trees(n)
  BY <1>1 DEF Trees
<1>7. f[<<lo, n>>] = root[<<lo, n>>]
  BY <1>1, <1>5, <1>6, RootsAgree
<1>8. SubtreeRoot(entries, lo, n) = f[<<lo, n>>]
  BY <1>2 DEF SubtreeRoot
<1> QED
  BY <1>7, <1>8

(* The roots of the two parts.                                               *)
LeftRoot(entries, lo, n) == SubtreeRoot(entries, lo, Split(n))
RightRoot(entries, lo, n) == SubtreeRoot(entries, lo + Split(n), n - Split(n))

(* The root of a tree is its leaf's hash or made of the roots of its parts.  *)
LEMMA RootEquation ==
    ASSUME NEW entries, NEW lo \in Nat, NEW n \in Nat \ {0}
    PROVE  SubtreeRoot(entries, lo, n) =
             IF n = 1 THEN Leaf(entries[lo])
             ELSE Node(LeftRoot(entries, lo, n), RightRoot(entries, lo, n))
<1>1. PICK root : Roots(entries, root, n)
  BY RootsExist
<1>2. <<lo, n>> \in Trees(n) /\ n \in 1 .. n
  BY DEF Trees
<1>3. ASSUME NEW l \in Nat, NEW m \in 1 .. n PROVE SubtreeRoot(entries, l, m) = root[<<l, m>>]
  BY <1>1, RootsGive
<1>4. root[<<lo, n>>] = RootOf(entries, root, <<lo, n>>)
  BY <1>1, <1>2, Zenon DEF Roots
<1>5. CASE n = 1
  BY <1>2, <1>3, <1>4, <1>5 DEF RootOf
<1>6. CASE n # 1
  <2>1. PICK k : k = Split(n)
    OBVIOUS
  <2>2. k \in 1 .. n - 1 /\ n - k \in 1 .. n - 1
    BY <1>6, <2>1, SplitFacts
  <2>3. k \in 1 .. n /\ n - k \in 1 .. n /\ lo + k \in Nat
    BY <2>2
  <2>4. /\ SubtreeRoot(entries, lo, k) = root[<<lo, k>>]
        /\ SubtreeRoot(entries, lo + k, n - k) = root[<<lo + k, n - k>>]
    BY <1>3, <2>3
  <2>5. RootOf(entries, root, <<lo, n>>) = Node(root[<<lo, k>>], root[<<lo + k, n - k>>])
    BY <1>6, <2>1 DEF RootOf
  <2> QED
    BY <1>2, <1>3, <1>4, <1>6, <2>1, <2>4, <2>5 DEF LeftRoot, RightRoot
<1> QED
  BY <1>5, <1>6

(* The root of a tree of several leaves.                                     *)
LEMMA RootOfNode ==
    ASSUME NEW entries, NEW lo \in Nat, NEW n \in Nat, n >= 2
    PROVE  SubtreeRoot(entries, lo, n) = Node(LeftRoot(entries, lo, n), RightRoot(entries, lo, n))
<1>1. n \in Nat \ {0} /\ n # 1
  OBVIOUS
<1> QED
  BY <1>1, RootEquation

(* Leaves and nodes are made of what they hash, and are no mismatch.         *)
LEMMA HashFacts ==
    /\ \A x, y : Leaf(x) = Leaf(y) => x = y
    /\ \A a, b, c, d : Node(a, b) = Node(c, d) => a = c /\ b = d
    /\ \A x : Leaf(x) # Mismatch
    /\ \A a, b : Node(a, b) # Mismatch
  BY DEF Leaf, Node, Mismatch

(* Trees of the same place and size have the same root exactly if they have  *)
(* the same leaves.                                                          *)
LEMMA RootsDetermine ==
    ASSUME NEW d, NEW e, NEW lo \in Nat, NEW n \in Nat \ {0}
    PROVE  SubtreeRoot(d, lo, n) = SubtreeRoot(e, lo, n)
              <=> \A i \in lo .. lo + n - 1 : d[i] = e[i]
<1> DEFINE Same(l, m) == SubtreeRoot(d, l, m) = SubtreeRoot(e, l, m)
                            <=> \A i \in l .. l + m - 1 : d[i] = e[i]
           T == {m \in 0 .. n : \A l \in Nat, s \in 1 .. m : Same(l, s)}
<1>1. 0 \in T
  OBVIOUS
<1>2. ASSUME NEW m \in 0 .. n - 1, m \in T PROVE m + 1 \in T
  <2>1. m \in Nat /\ m + 1 \in Nat \ {0} /\ m + 1 \in 0 .. n
    OBVIOUS
  <2>2. ASSUME NEW l \in Nat PROVE Same(l, m + 1)
    <3>1. PICK size \in Nat \ {0} : size = m + 1
      BY <2>1
    <3>2. PICK k : k = Split(size)
      OBVIOUS
    <3>3. \A x \in {d, e} :
             SubtreeRoot(x, l, size) =
                IF size = 1 THEN Leaf(x[l])
                ELSE Node(SubtreeRoot(x, l, k), SubtreeRoot(x, l + k, size - k))
      BY <3>2, RootEquation DEF LeftRoot, RightRoot
    <3>4. CASE size = 1
      <4>1. l .. l + size - 1 = {l}
        BY <3>4
      <4>2. SubtreeRoot(d, l, size) = SubtreeRoot(e, l, size) <=> d[l] = e[l]
        BY <3>3, <3>4, HashFacts
      <4> QED
        BY <3>1, <4>1, <4>2
    <3>5. CASE size # 1
      <4>1. k \in 1 .. size - 1 /\ size - k \in 1 .. size - 1
        BY <3>2, <3>5, SplitFacts
      <4>2. k \in 1 .. m /\ size - k \in 1 .. m /\ l + k \in Nat
        BY <3>1, <4>1
      <4>3. Same(l, k) /\ Same(l + k, size - k)
        BY <1>2, <4>2
      <4>4. \A i : i \in l .. l + size - 1
                      <=> i \in l .. l + k - 1 \/ i \in l + k .. (l + k) + (size - k) - 1
        BY <4>1
      <4>5. SubtreeRoot(d, l, size) = SubtreeRoot(e, l, size)
               <=> /\ SubtreeRoot(d, l, k) = SubtreeRoot(e, l, k)
                   /\ SubtreeRoot(d, l + k, size - k) = SubtreeRoot(e, l + k, size - k)
        BY <3>3, <3>5, HashFacts
      <4> QED
        BY <3>1, <4>3, <4>4, <4>5
    <3> QED
      BY <3>4, <3>5
  <2>3. ASSUME NEW l \in Nat, NEW s \in 1 .. m + 1 PROVE Same(l, s)
    <3>1. s \in 1 .. m \/ s = m + 1
      BY <2>1
    <3> HIDE DEF Same
    <3> QED
      BY <1>2, <2>2, <3>1
  <2> QED
    BY <2>1, <2>3
<1> HIDE DEF T
<1>3. n \in T
  <2>1. 0 .. n \subseteq T
    BY <1>1, <1>2, IntervalInduction
  <2> QED
    BY <2>1
<1>4. n \in 1 .. n
  OBVIOUS
<1> QED
  BY <1>3, <1>4 DEF T

-----------------------------------------------------------------------------
(* Paths and the walk along them.                                            *)

(* Lists of hashes.                                                          *)
IsPath(path) == \E V : path \in Seq(V)

(* Paths of no hash and of one, and a path with one hash more.               *)
LEMMA PathFacts ==
    /\ IsPath(<<>>) /\ Len(<<>>) = 0
    /\ \A x : IsPath(<<x>>) /\ Len(<<x>>) = 1 /\ Head(<<x>>) = x /\ Tail(<<x>>) = <<>>
    /\ \A path : IsPath(path) => Len(path) \in Nat
<1>1. IsPath(<<>>) /\ Len(<<>>) = 0
  BY EmptySeq DEF IsPath
<1>2. ASSUME NEW x
      PROVE  IsPath(<<x>>) /\ Len(<<x>>) = 1 /\ Head(<<x>>) = x /\ Tail(<<x>>) = <<>>
  <2>1. <<x>> \in Seq({x})
    OBVIOUS
  <2>2. Len(<<x>>) = 1 /\ Head(<<x>>) = x /\ Tail(<<x>>) = <<>>
    OBVIOUS
  <2> QED
    BY <2>1, <2>2 DEF IsPath
<1>3. ASSUME NEW path, IsPath(path) PROVE Len(path) \in Nat
  BY <1>3, LenProperties DEF IsPath
<1> QED
  BY <1>1, <1>2, <1>3

(* A path with one hash more.                                                *)
LEMMA LongerPath ==
    ASSUME NEW path, IsPath(path), NEW hash
    PROVE  /\ IsPath(Append(path, hash)) /\ Append(path, hash) # <<>>
           /\ Len(Append(path, hash)) = Len(path) + 1
           /\ \A i \in 1 .. Len(path) : Append(path, hash)[i] = path[i]
           /\ Append(path, hash)[Len(path) + 1] = hash
           /\ path = <<>> => Append(path, hash) = <<hash>>
           /\ path # <<>> => /\ Head(Append(path, hash)) = Head(path)
                             /\ IsPath(Tail(path))
                             /\ Tail(Append(path, hash)) = Append(Tail(path), hash)
<1>1. PICK V : path \in Seq(V)
  BY DEF IsPath
<1>2. PICK W : W = V \union {hash}
  OBVIOUS
<1>3. path \in Seq(W) /\ hash \in W
  BY <1>1, <1>2
<1>4. PICK longer : longer = Append(path, hash)
  OBVIOUS
<1>5. /\ longer \in Seq(W) /\ longer # <<>> /\ Len(longer) = Len(path) + 1
      /\ \A i \in 1 .. Len(path) : longer[i] = path[i]
      /\ longer[Len(path) + 1] = hash
  BY <1>3, <1>4
<1>6. path = <<>> => longer = <<hash>>
  BY <1>4
<1>7. ASSUME path # <<>>
      PROVE  /\ Head(longer) = Head(path) /\ IsPath(Tail(path))
             /\ Tail(longer) = Append(Tail(path), hash)
  <2>1. PICK n \in Nat : n = Len(path) /\ n # 0
    BY <1>3, <1>7, EmptySeq
  <2>2. Head(longer) = Head(path)
    BY <1>3, <1>5, <2>1
  <2>3. /\ Tail(path) \in Seq(W) /\ Len(Tail(path)) = n - 1
        /\ \A i \in 1 .. n - 1 : Tail(path)[i] = path[i + 1]
    BY <1>3, <1>7, <2>1
  <2>4. /\ Tail(longer) \in Seq(W) /\ Len(Tail(longer)) = n
        /\ \A i \in 1 .. n : Tail(longer)[i] = longer[i + 1]
    BY <1>5, <2>1, HeadTailProperties
  <2>5. PICK t : t = Append(Tail(path), hash)
    OBVIOUS
  <2>6. /\ t \in Seq(W) /\ Len(t) = (n - 1) + 1
        /\ \A i \in 1 .. n - 1 : t[i] = Tail(path)[i]
        /\ t[(n - 1) + 1] = hash
    BY <1>3, <2>3, <2>5
  <2>7. ASSUME NEW i \in 1 .. n PROVE Tail(longer)[i] = t[i]
    <3>1. CASE i = n
      <4>1. (n - 1) + 1 = n /\ n + 1 = Len(path) + 1
        BY <2>1
      <4> QED
        BY <1>5, <2>4, <2>6, <3>1, <4>1
    <3>2. CASE i \in 1 .. n - 1
      <4>1. i + 1 \in 1 .. n
        BY <3>2
      <4>2. Tail(longer)[i] = longer[i + 1] /\ longer[i + 1] = path[i + 1]
        BY <1>5, <2>1, <2>4, <4>1
      <4>3. t[i] = Tail(path)[i] /\ Tail(path)[i] = path[i + 1]
        BY <2>3, <2>6, <3>2
      <4> QED
        BY <4>2, <4>3
    <3>3. i = n \/ i \in 1 .. n - 1
      BY <2>1
    <3> QED
      BY <3>1, <3>2, <3>3
  <2>8. Len(t) = n
    BY <2>1, <2>6
  <2>9. Tail(longer) = t
    BY <2>4, <2>6, <2>7, <2>8, SeqEqual
  <2> QED
    BY <2>2, <2>3, <2>5, <2>9 DEF IsPath
<1> QED
  BY <1>4, <1>5, <1>6, <1>7 DEF IsPath

(* The state a walk starts in, and its state after each hash.                *)
Started(at, seed) == [fn |-> at.fn, sn |-> at.sn, old |-> seed, new |-> seed]

Walked(walk, at, seed, path, n) ==
    walk[0] = Started(at, seed) /\ \A i \in 1 .. n : walk[i] = Walk(walk[i - 1], path[i])

(* The walk along a path has such states.                                    *)
LEMMA WalkStates ==
    ASSUME NEW at, NEW seed, NEW path, IsPath(path)
    PROVE  \E walk : /\ Walked(walk, at, seed, path, Len(path))
                     /\ WalkPath(at, seed, path) = walk[Len(path)]
<1>1. PICK N \in Nat : N = Len(path)
  BY PathFacts
<1> DEFINE Equation(f) ==
        f = [n \in 0 .. N |->
               IF n = 0 THEN [fn |-> at.fn, sn |-> at.sn, old |-> seed, new |-> seed]
               ELSE Walk(f[n - 1], path[n])]
           T == {n \in 0 .. N : \E f : Walked(f, at, seed, path, n)}
<1>2. 0 \in T
  <2>1. PICK f : f = [n \in 0 .. 0 |-> Started(at, seed)]
    OBVIOUS
  <2>2. Walked(f, at, seed, path, 0)
    BY <2>1 DEF Walked
  <2> QED
    BY <2>2
<1>3. ASSUME NEW n \in 0 .. N - 1, n \in T PROVE n + 1 \in T
  <2>1. n \in Nat /\ n + 1 \in 0 .. N
    OBVIOUS
  <2>2. PICK f : Walked(f, at, seed, path, n)
    BY <1>3
  <2>3. PICK last : last = Walk(f[n], path[n + 1])
    OBVIOUS
  <2>4. PICK g : g = [m \in 0 .. n + 1 |-> IF m = n + 1 THEN last ELSE f[m]]
    OBVIOUS
  <2>5. \A m \in 0 .. n : g[m] = f[m]
    BY <2>1, <2>4
  <2>6. g[n + 1] = last /\ g[n] = f[n] /\ g[0] = f[0]
    BY <2>1, <2>4, <2>5
  <2>7. ASSUME NEW m \in 1 .. n + 1 PROVE g[m] = Walk(g[m - 1], path[m])
    <3>1. CASE m = n + 1
      <4>1. m - 1 = n
        BY <2>1, <3>1
      <4> QED
        BY <2>3, <2>6, <3>1, <4>1
    <3>2. CASE m \in 1 .. n
      <4>1. m \in 0 .. n /\ m - 1 \in 0 .. n
        BY <2>1, <3>2
      <4>2. f[m] = Walk(f[m - 1], path[m])
        BY <2>2, <3>2 DEF Walked
      <4> QED
        BY <2>5, <4>1, <4>2
    <3> QED
      BY <2>1, <3>1, <3>2
  <2>8. Walked(g, at, seed, path, n + 1)
    BY <2>2, <2>6, <2>7 DEF Walked
  <2> QED
    BY <2>1, <2>8
<1>4. PICK h : Walked(h, at, seed, path, N)
  <2> HIDE DEF T
  <2>1. 0 .. N \subseteq T
    BY <1>2, <1>3, IntervalInduction
  <2>2. N \in T
    BY <2>1
  <2> QED
    BY <2>2 DEF T
<1>5. \E f : Equation(f)
  <2>1. PICK f : f = [n \in 0 .. N |-> h[n]]
    OBVIOUS
  <2>2. ASSUME NEW n \in 0 .. N
        PROVE  f[n] = IF n = 0 THEN [fn |-> at.fn, sn |-> at.sn, old |-> seed, new |-> seed]
                      ELSE Walk(f[n - 1], path[n])
    <3>1. CASE n = 0
      BY <1>4, <2>1, <3>1 DEF Walked, Started
    <3>2. CASE n # 0
      <4>1. n \in 1 .. N /\ n - 1 \in 0 .. N
        BY <3>2
      <4>2. f[n] = h[n] /\ f[n - 1] = h[n - 1]
        BY <2>1, <4>1
      <4>3. h[n] = Walk(h[n - 1], path[n])
        BY <1>4, <4>1 DEF Walked
      <4> QED
        BY <3>2, <4>2, <4>3
    <3> QED
      BY <3>1, <3>2
  <2>3. Equation(f)
    <3>1. f = [n \in 0 .. N |-> f[n]]
      BY <2>1
    <3> QED
      BY <2>2, <3>1
  <2> HIDE DEF Equation
  <2> QED
    BY <2>3
<1>6. PICK g : g = CHOOSE f : Equation(f)
  OBVIOUS
<1>7. Equation(g)
  <2> HIDE DEF Equation
  <2> QED
    BY <1>5, <1>6
<1>8. Walked(g, at, seed, path, N)
  <2>1. \A n \in 0 .. N :
           g[n] = IF n = 0 THEN [fn |-> at.fn, sn |-> at.sn, old |-> seed, new |-> seed]
                  ELSE Walk(g[n - 1], path[n])
    BY <1>7, Zenon
  <2>2. 0 \in 0 .. N /\ \A n \in 1 .. N : n \in 0 .. N /\ n # 0
    OBVIOUS
  <2>3. g[0] = Started(at, seed)
    BY <2>1, <2>2 DEF Started
  <2>4. ASSUME NEW n \in 1 .. N PROVE g[n] = Walk(g[n - 1], path[n])
    BY <2>1, <2>2, Zenon
  <2> QED
    BY <2>3, <2>4 DEF Walked
<1>9. WalkPath(at, seed, path) = g[N]
  BY <1>1, <1>6 DEF WalkPath
<1> QED
  BY <1>1, <1>8, <1>9

(* Two walks of the same hashes go through the same states.                  *)
LEMMA WalksAgree ==
    ASSUME NEW at, NEW seed, NEW p, NEW q, NEW n \in Nat, \A i \in 1 .. n : p[i] = q[i],
           NEW f, NEW g, Walked(f, at, seed, p, n), Walked(g, at, seed, q, n)
    PROVE  f[n] = g[n]
<1> DEFINE T == {m \in 0 .. n : f[m] = g[m]}
<1>1. 0 \in T
  BY DEF Walked
<1>2. ASSUME NEW m \in 0 .. n - 1, m \in T PROVE m + 1 \in T
  <2>1. m + 1 \in 1 .. n /\ m + 1 \in 0 .. n /\ (m + 1) - 1 = m
    OBVIOUS
  <2>2. f[m + 1] = Walk(f[m], p[m + 1]) /\ g[m + 1] = Walk(g[m], q[m + 1])
    BY <2>1 DEF Walked
  <2> QED
    BY <1>2, <2>1, <2>2
<1> HIDE DEF T
<1>3. n \in T
  <2>1. 0 .. n \subseteq T
    BY <1>1, <1>2, IntervalInduction
  <2> QED
    BY <2>1
<1> QED
  BY <1>3 DEF T

(* The walk along no hash, ...                                               *)
LEMMA WalkNothing ==
    ASSUME NEW at, NEW seed
    PROVE  WalkPath(at, seed, <<>>) = Started(at, seed)
  BY WalkStates, PathFacts DEF Walked

(* ... and along one hash more.                                              *)
LEMMA WalkFurther ==
    ASSUME NEW at, NEW seed, NEW path, IsPath(path), NEW hash
    PROVE  WalkPath(at, seed, Append(path, hash)) = Walk(WalkPath(at, seed, path), hash)
<1>1. PICK n \in Nat : n = Len(path)
  BY PathFacts
<1>2. PICK longer : longer = Append(path, hash)
  OBVIOUS
<1>3. /\ IsPath(longer) /\ Len(longer) = n + 1
      /\ \A i \in 1 .. n : longer[i] = path[i]
      /\ longer[n + 1] = hash
  BY <1>1, <1>2, LongerPath
<1>4. PICK f : Walked(f, at, seed, path, n) /\ WalkPath(at, seed, path) = f[n]
  BY <1>1, WalkStates
<1>5. PICK g : Walked(g, at, seed, longer, n + 1) /\ WalkPath(at, seed, longer) = g[n + 1]
  BY <1>3, WalkStates
<1>6. Walked(g, at, seed, longer, n)
  <2>1. \A i \in 1 .. n : i \in 1 .. n + 1
    BY <1>1
  <2> QED
    BY <1>5, <2>1 DEF Walked
<1>7. g[n] = f[n]
  BY <1>3, <1>4, <1>6, WalksAgree
<1>8. g[n + 1] = Walk(g[n], longer[n + 1])
  <2>1. n + 1 \in 1 .. n + 1 /\ (n + 1) - 1 = n
    BY <1>1
  <2> QED
    BY <1>5, <2>1 DEF Walked
<1> QED
  BY <1>2, <1>3, <1>4, <1>5, <1>7, <1>8

-----------------------------------------------------------------------------
(* Places of trees.  Along the path of a consistency proof the two indices   *)
(* are shifted together; b and s are what is left of the index of a tree's   *)
(* first leaf and of that of the log's last leaf, S.                         *)

(* A factor can be cancelled.                                                *)
LEMMA Cancel ==
    ASSUME NEW a \in Nat, NEW c \in Nat, NEW k \in Nat, a * k < c * k + k
    PROVE  a <= c
<1> SUFFICES ASSUME ~(a <= c) PROVE FALSE
  OBVIOUS
<1>1. PICK r \in Nat : a = r + (c + 1)
  <2>1. a - (c + 1) \in Nat /\ a = (a - (c + 1)) + (c + 1)
    OBVIOUS
  <2> QED
    BY <2>1
<1>2. (r + (c + 1)) * k = r * k + (c * k + k) /\ r * k \in Nat /\ c * k \in Nat
  OBVIOUS
<1> QED
  BY <1>1, <1>2

(* Division with rest.                                                       *)
LEMMA Quotient ==
    ASSUME NEW S \in Nat, NEW P \in Nat \ {0}
    PROVE  \E q \in Nat : q * P <= S /\ S < q * P + P
<1> DEFINE T == {x \in Nat : \E q \in Nat : q * P <= x /\ x < q * P + P}
<1>1. 0 \in T
  <2>1. 0 * P = 0
    OBVIOUS
  <2> QED
    BY <2>1
<1>2. ASSUME NEW x \in T PROVE x + 1 \in T
  <2>1. PICK q \in Nat : q * P <= x /\ x < q * P + P
    OBVIOUS
  <2>2. q * P \in Nat /\ (q + 1) * P = q * P + P
    OBVIOUS
  <2>3. CASE x + 1 < q * P + P
    <3>1. q * P <= x + 1
      BY <2>1, <2>2
    <3> QED
      BY <2>3, <3>1
  <2>4. CASE ~(x + 1 < q * P + P)
    <3>1. PICK z \in Nat : z = q + 1
      OBVIOUS
    <3>2. z * P <= x + 1 /\ x + 1 < z * P + P
      BY <2>1, <2>2, <2>4, <3>1
    <3> QED
      BY <3>2
  <2> QED
    BY <2>3, <2>4
<1> HIDE DEF T
<1>3. T = Nat
  <2>1. T \in SUBSET Nat
    BY DEF T
  <2> QED
    BY <1>1, <1>2, <2>1, Induction
<1> QED
  BY <1>3 DEF T

(* A tree of n leaves that begins at b * P, P the least power of two that is *)
(* not less than n, ends no later than the log, and at the log's last leaf   *)
(* unless it is complete; s is the place of that leaf.                       *)
Fits(n, P, b, S, s) ==
    /\ n <= P /\ P < 2 * n
    /\ b * P + n - 1 <= S
    /\ s * P <= S /\ S < s * P + P
    /\ n = P \/ S = b * P + n - 1

(* Its left part is complete and begins at 2 * b; its right part begins at   *)
(* 2 * b + 1 as soon as the zeros of its own place, as many as E has, are    *)
(* shifted away.                                                             *)
LeftPlace(n, b, S, s, t) ==
    Fits(Split(n), Split(n), 2 * b, S, t) /\ t \div 2 = s /\ t # 2 * b

RightPlace(n, P, b, S, s, Q, E, r, t) ==
    /\ Fits(n - Split(n), Q, (2 * b + 1) * E, S, r)
    /\ ((2 * b + 1) * E) * Q = b * P + Split(n)
    /\ t * E <= r /\ r < t * E + E /\ t \div 2 = s
    /\ E = 1 \/ r = (2 * b + 1) * E

(* The power that a tree fits is twice the size of its left part.            *)
LEMMA FitsTwice ==
    ASSUME NEW n \in Nat, n >= 2, NEW P \in Powers, n <= P, P < 2 * n
    PROVE  P = 2 * Split(n)
<1>1. PICK k \in Powers : k = Split(n)
  BY SplitFacts
<1>2. k \in Nat /\ k < n /\ n <= 2 * k /\ 2 * k \in Powers /\ P \in Nat
  <2>1. Split(n) \in 1 .. n - 1 /\ n <= 2 * Split(n)
    BY SplitFacts
  <2> QED
    BY <1>1, <2>1, PowersDouble, PowersHalve
<1>3. 2 * k <= P
  BY <1>2, PowersGap
<1>4. ~(2 * k < P)
  <2> SUFFICES ASSUME 2 * k < P PROVE FALSE
    OBVIOUS
  <2>1. 2 * (2 * k) <= P
    BY <1>2, PowersGap
  <2> QED
    BY <1>2, <2>1
<1> QED
  BY <1>1, <1>2, <1>3, <1>4

(* The left part of a tree has its place, which is even and not the last one.*)
LEMMA LeftPart ==
    ASSUME NEW n \in Nat, n >= 2, NEW P \in Powers, NEW b \in Nat, NEW S \in Nat, NEW s \in Nat,
           Fits(n, P, b, S, s)
    PROVE  \E t \in Nat : LeftPlace(n, b, S, s, t)
<1>1. PICK k \in Powers : k = Split(n)
  BY SplitFacts
<1>2. k \in Nat \ {0} /\ k < n /\ P = 2 * k
  <2>1. k \in 1 .. n - 1
    BY <1>1, SplitFacts
  <2> QED
    BY <1>1, <2>1, FitsTwice DEF Fits
<1>3. PICK t \in Nat : t * k <= S /\ S < t * k + k
  BY <1>2, Quotient
<1>4. /\ b * (2 * k) = 2 * (b * k) /\ (2 * b) * k = 2 * (b * k) /\ b * k \in Nat
      /\ s * (2 * k) = 2 * (s * k) /\ (2 * s) * k = 2 * (s * k) /\ s * k \in Nat
      /\ (2 * s + 1) * k = 2 * (s * k) + k /\ (2 * b + 1) * k = 2 * (b * k) + k
      /\ t * k \in Nat
  BY <1>2, Products
<1>5. 2 * (b * k) + n - 1 <= S /\ 2 * (s * k) <= S /\ S < 2 * (s * k) + 2 * k
  BY <1>2, <1>4 DEF Fits
<1>6. t <= 2 * s + 1
  <2>1. t * k < (2 * s + 1) * k + k
    BY <1>2, <1>3, <1>4, <1>5
  <2> QED
    BY <1>2, <2>1, Cancel
<1>7. 2 * s <= t
  <2>1. (2 * s) * k < t * k + k
    BY <1>2, <1>3, <1>4, <1>5
  <2> QED
    BY <1>2, <2>1, Cancel
<1>8. 2 * b + 1 <= t
  <2>1. (2 * b + 1) * k < t * k + k
    BY <1>2, <1>3, <1>4, <1>5
  <2> QED
    BY <1>2, <2>1, Cancel
<1>9. t \div 2 = s /\ t # 2 * b
  BY <1>6, <1>7, <1>8
<1>10. (2 * b) * k + k - 1 <= S
  BY <1>2, <1>4, <1>5
<1>11. Fits(k, k, 2 * b, S, t)
  BY <1>2, <1>3, <1>10 DEF Fits
<1>12. LeftPlace(n, b, S, s, t)
  BY <1>1, <1>9, <1>11 DEF LeftPlace
<1> QED
  BY <1>12

(* So has the right part, if it has several leaves; shifting its indices     *)
(* leads to a place next to the left part.                                   *)
LEMMA RightPart ==
    ASSUME NEW n \in Nat, n >= 2, NEW P \in Powers, NEW b \in Nat, NEW S \in Nat, NEW s \in Nat,
           Fits(n, P, b, S, s), n - Split(n) >= 2
    PROVE  \E Q \in Powers, E \in Powers, r \in Nat, t \in Nat :
              RightPlace(n, P, b, S, s, Q, E, r, t)
<1>1. PICK k \in Powers : k = Split(n)
  BY SplitFacts
<1>2. PICK t \in Nat : t * k <= S /\ S < t * k + k /\ t \div 2 = s
  <2>1. PICK t \in Nat : LeftPlace(n, b, S, s, t)
    BY LeftPart
  <2> QED
    BY <1>1, <2>1 DEF LeftPlace, Fits
<1>3. k \in Nat \ {0} /\ k < n /\ n <= 2 * k /\ P = 2 * k
  <2>1. k \in 1 .. n - 1 /\ n <= 2 * k
    BY <1>1, SplitFacts
  <2>2. P = 2 * k
    BY <1>1, FitsTwice DEF Fits
  <2> QED
    BY <2>1, <2>2
<1>4. PICK m \in Nat : m = n - k /\ m >= 2 /\ m <= k
  <2>1. n - k \in Nat /\ n - k >= 2 /\ n - k <= k
    BY <1>1, <1>3
  <2> QED
    BY <2>1
<1>5. PICK Q \in Powers : Q \in Nat \ {0} /\ m <= Q /\ Q < 2 * m
  <2>1. Split(m) \in Powers /\ Split(m) \in 1 .. m - 1 /\ m <= 2 * Split(m)
    BY <1>4, SplitFacts
  <2>2. 2 * Split(m) \in Powers /\ 2 * Split(m) \in Nat \ {0} /\ 2 * Split(m) < 2 * m
    BY <1>4, <2>1, PowersDouble
  <2> QED
    BY <2>1, <2>2
<1>6. Q <= k
  <2> SUFFICES ASSUME k < Q PROVE FALSE
    BY <1>3, <1>5
  <2>1. 2 * k <= Q
    BY PowersGap
  <2> QED
    BY <1>3, <1>4, <1>5, <2>1
<1>7. PICK E \in Powers : k = Q * E
  BY <1>6, PowersDivide
<1>8. E \in Nat \ {0}
  BY PowersHalve
<1>9. PICK r \in Nat : r * Q <= S /\ S < r * Q + Q
  BY <1>5, Quotient
<1>10. PICK c \in Nat : c = 2 * b + 1
  OBVIOUS
<1>11. PICK d \in Nat : d = c * E
  BY <1>8, Products
<1>12. d * Q = b * P + k /\ d * Q \in Nat /\ b * P \in Nat
  <2>1. d * Q = c * (E * Q)
    BY <1>5, <1>8, <1>11, Associative
  <2>2. E * Q = k
    BY <1>5, <1>7, <1>8
  <2>3. c * k = 2 * (b * k) + k /\ b * (2 * k) = 2 * (b * k) /\ b * k \in Nat
    BY <1>3, <1>10, Products
  <2> QED
    BY <1>3, <2>1, <2>2, <2>3
<1>13. (t * E) * Q = t * k /\ t * E \in Nat /\ t * k \in Nat
  <2>1. (t * E) * Q = t * (E * Q)
    BY <1>5, <1>8, Associative
  <2>2. E * Q = k
    BY <1>5, <1>7, <1>8
  <2> QED
    BY <1>3, <1>8, <2>1, <2>2, Products
<1>14. t * E <= r
  <2>1. (t * E) * Q < r * Q + Q
    BY <1>3, <1>5, <1>9, <1>2, <1>13
  <2> QED
    BY <1>5, <1>13, <2>1, Cancel
<1>15. r < t * E + E
  <2>1. PICK u \in Nat : u + 1 = t * E + E
    <3>1. t * E + E - 1 \in Nat /\ (t * E + E - 1) + 1 = t * E + E
      BY <1>8, <1>13
    <3> QED
      BY <3>1
  <2>2. u * Q + Q = t * k + k
    <3>1. PICK x \in Nat : x = t * E
      BY <1>13
    <3>2. (u + 1) * Q = u * Q + Q /\ (x + E) * Q = x * Q + E * Q
      BY <1>5, <1>8
    <3>3. E * Q = k
      BY <1>5, <1>7, <1>8
    <3> QED
      BY <1>13, <2>1, <3>1, <3>2, <3>3
  <2>3. r * Q < u * Q + Q
    <3>1. r * Q \in Nat /\ u * Q \in Nat
      BY <1>5
    <3> QED
      BY <1>3, <1>5, <1>9, <1>2, <1>13, <2>2, <3>1
  <2>4. r <= u
    BY <1>5, <2>3, Cancel
  <2> QED
    BY <1>8, <1>13, <2>1, <2>4
<1>16. d * Q + m - 1 <= S /\ (n = P \/ S = d * Q + m - 1)
  <2>1. b * P + n - 1 <= S /\ (n = P \/ S = b * P + n - 1)
    BY DEF Fits
  <2>2. d * Q + m - 1 = b * P + n - 1
    BY <1>3, <1>4, <1>12
  <2> QED
    BY <2>1, <2>2
<1>17. m = Q \/ S = d * Q + m - 1
  <2>1. n = P => m = Q
    BY <1>3, <1>4, <1>5, <1>6
  <2> QED
    BY <1>16, <2>1
<1>18. E = 1 \/ r = d
  <2> SUFFICES ASSUME E # 1 PROVE r = d
    OBVIOUS
  <2>1. Q # k
    <3> SUFFICES ASSUME Q = k PROVE FALSE
      OBVIOUS
    <3>1. PICK h \in Powers : E = 2 * h
      BY PowersHalve
    <3>2. h \in Nat \ {0} /\ Q * (2 * h) = 2 * (Q * h) /\ Q * h >= Q /\ Q * h \in Nat
      BY <1>5, PowersHalve, Products
    <3> QED
      BY <1>5, <1>7, <3>1, <3>2
  <2>2. n # P
    BY <1>3, <1>4, <1>5, <1>6, <2>1
  <2>3. S = d * Q + m - 1
    BY <1>16, <2>2
  <2>4. r * Q \in Nat
    BY <1>5
  <2>5. r * Q < d * Q + Q /\ d * Q < r * Q + Q
    BY <1>4, <1>5, <1>9, <1>12, <2>3, <2>4
  <2>6. r <= d /\ d <= r
    BY <1>5, <2>5, Cancel
  <2> QED
    BY <2>6
<1>19. Fits(m, Q, d, S, r)
  BY <1>5, <1>9, <1>16, <1>17 DEF Fits
<1>20. RightPlace(n, P, b, S, s, Q, E, r, t)
  BY <1>1, <1>4, <1>2, <1>10, <1>11, <1>12, <1>14, <1>15, <1>18, <1>19 DEF RightPlace
<1> QED
  BY <1>20

(* A hash to the right of an even place that is not the last.                *)
LEMMA WalkRight ==
    ASSUME NEW b \in Nat, NEW f \in Nat, f = 2 * b, NEW t \in Nat, t # f, NEW s, s = t \div 2,
           NEW old, NEW new, NEW hash, NEW w, w = [fn |-> f, sn |-> t, old |-> old, new |-> new]
    PROVE  Walk(w, hash) = [fn |-> b, sn |-> s, old |-> old, new |-> Node(new, hash)]
<1>1. w.fn = 2 * b /\ w.sn = t /\ w.old = old /\ w.new = new
  OBVIOUS
<1>2. (2 * b) % 2 = 0 /\ (2 * b) \div 2 = b
  OBVIOUS
<1>3. ~(w.fn % 2 = 1 \/ w.fn = w.sn)
  BY <1>1, <1>2
<1>4. Walk(w, hash) = [fn |-> w.fn \div 2, sn |-> w.sn \div 2, old |-> w.old,
                       new |-> Node(w.new, hash)]
  BY <1>3 DEF Walk, Shifted
<1> QED
  BY <1>1, <1>2, <1>4

(* A place f that is odd or the last one, r, and what is left of the two when *)
(* the zeros of f are shifted away.                                          *)
Shifts(b, E, f, r, t, s) ==
    f = (2 * b + 1) * E /\ t * E <= r /\ r < t * E + E /\ (E = 1 \/ r = f) /\ s = t \div 2

(* A hash to the left of such a place.                                       *)
LEMMA WalkLeft ==
    ASSUME NEW b \in Nat, NEW E \in Powers, NEW f \in Nat, NEW r \in Nat, NEW t \in Nat, NEW s,
           Shifts(b, E, f, r, t, s), NEW old, NEW new, NEW hash, NEW w,
           w = [fn |-> f, sn |-> r, old |-> old, new |-> new]
    PROVE  Walk(w, hash) = [fn |-> b, sn |-> s, old |-> Node(hash, old), new |-> Node(hash, new)]
<1>1. w.fn = f /\ w.sn = r /\ w.old = old /\ w.new = new
  OBVIOUS
<1>2. f = (2 * b + 1) * E /\ t * E <= r /\ r < t * E + E /\ (E = 1 \/ r = f) /\ s = t \div 2
  BY DEF Shifts
<1>3. w.fn % 2 = 1 \/ w.fn = w.sn
  <2>1. CASE E = 1
    <3>1. (2 * b + 1) * 1 = 2 * b + 1 /\ (2 * b + 1) % 2 = 1
      OBVIOUS
    <3> QED
      BY <1>1, <1>2, <2>1, <3>1
  <2>2. CASE r = f
    BY <1>1, <2>2
  <2> QED
    BY <1>2, <2>1, <2>2
<1>4. PICK at : at = ShiftEven([fn |-> w.fn, sn |-> w.sn])
  OBVIOUS
<1>5. at = [fn |-> 2 * b + 1, sn |-> t]
  BY <1>1, <1>2, <1>4, ShiftEvenFacts
<1>6. Walk(w, hash) = [fn |-> at.fn \div 2, sn |-> at.sn \div 2,
                       old |-> Node(hash, w.old), new |-> Node(hash, w.new)]
  BY <1>3, <1>4 DEF Walk, Shifted
<1>7. (2 * b + 1) \div 2 = b
  OBVIOUS
<1>8. at.fn \div 2 = b /\ at.sn \div 2 = s
  BY <1>2, <1>5, <1>7
<1> QED
  BY <1>1, <1>6, <1>8

(* Two walks along the same hashes that end in the same new root began with  *)
(* the same hash.                                                            *)
LEMMA WalkInjective ==
    ASSUME NEW at, NEW x, NEW y, NEW path, IsPath(path),
           WalkPath(at, x, path).new = WalkPath(at, y, path).new
    PROVE  x = y
<1>1. PICK n \in Nat : n = Len(path)
  BY PathFacts
<1>2. PICK f : Walked(f, at, x, path, n) /\ WalkPath(at, x, path) = f[n]
  BY <1>1, WalkStates
<1>3. PICK g : Walked(g, at, y, path, n) /\ WalkPath(at, y, path) = g[n]
  BY <1>1, WalkStates
<1> DEFINE T == {m \in 0 .. n : /\ f[m].fn = g[m].fn /\ f[m].sn = g[m].sn
                                /\ f[m].new = g[m].new => x = y}
<1>4. 0 \in T
  <2>1. f[0] = Started(at, x) /\ g[0] = Started(at, y)
    BY <1>2, <1>3 DEF Walked
  <2>2. /\ f[0].fn = at.fn /\ f[0].sn = at.sn /\ f[0].new = x
        /\ g[0].fn = at.fn /\ g[0].sn = at.sn /\ g[0].new = y
    BY <2>1 DEF Started
  <2> QED
    BY <2>2
<1>5. ASSUME NEW m \in 0 .. n - 1, m \in T PROVE m + 1 \in T
  <2>1. m + 1 \in 1 .. n /\ m + 1 \in 0 .. n /\ (m + 1) - 1 = m
    OBVIOUS
  <2>2. f[m + 1] = Walk(f[m], path[m + 1]) /\ g[m + 1] = Walk(g[m], path[m + 1])
    BY <1>2, <1>3, <2>1 DEF Walked
  <2>3. PICK hash : hash = path[m + 1]
    OBVIOUS
  <2>4. f[m].fn = g[m].fn /\ f[m].sn = g[m].sn /\ (f[m].new = g[m].new => x = y)
    BY <1>5
  <2>5. ASSUME NEW v, NEW w, v.fn = w.fn, v.sn = w.sn
        PROVE  /\ Walk(v, hash).fn = Walk(w, hash).fn /\ Walk(v, hash).sn = Walk(w, hash).sn
               /\ Walk(v, hash).new = Walk(w, hash).new => v.new = w.new
    <3>1. CASE v.fn % 2 = 1 \/ v.fn = v.sn
      <4>1. w.fn % 2 = 1 \/ w.fn = w.sn
        BY <2>5, <3>1
      <4>2. PICK s : s = Shifted(ShiftEven([fn |-> v.fn, sn |-> v.sn]))
        OBVIOUS
      <4>3. /\ Walk(v, hash).fn = s.fn /\ Walk(v, hash).sn = s.sn
            /\ Walk(v, hash).new = Node(hash, v.new)
        BY <3>1, <4>2 DEF Walk
      <4>4. /\ Walk(w, hash).fn = s.fn /\ Walk(w, hash).sn = s.sn
            /\ Walk(w, hash).new = Node(hash, w.new)
        BY <2>5, <4>1, <4>2 DEF Walk
      <4> QED
        BY <4>3, <4>4, HashFacts
    <3>2. CASE ~(v.fn % 2 = 1 \/ v.fn = v.sn)
      <4>1. ~(w.fn % 2 = 1 \/ w.fn = w.sn)
        BY <2>5, <3>2
      <4>2. PICK s : s = Shifted([fn |-> v.fn, sn |-> v.sn])
        OBVIOUS
      <4>3. /\ Walk(v, hash).fn = s.fn /\ Walk(v, hash).sn = s.sn
            /\ Walk(v, hash).new = Node(v.new, hash)
        BY <3>2, <4>2 DEF Walk
      <4>4. /\ Walk(w, hash).fn = s.fn /\ Walk(w, hash).sn = s.sn
            /\ Walk(w, hash).new = Node(w.new, hash)
        BY <2>5, <4>1, <4>2 DEF Walk
      <4> QED
        BY <4>3, <4>4, HashFacts
    <3> QED
      BY <3>1, <3>2
  <2>6. PICK v : v = f[m]
    OBVIOUS
  <2>7. PICK w : w = g[m]
    OBVIOUS
  <2>8. /\ Walk(v, hash).fn = Walk(w, hash).fn /\ Walk(v, hash).sn = Walk(w, hash).sn
        /\ Walk(v, hash).new = Walk(w, hash).new => v.new = w.new
    BY <2>4, <2>5, <2>6, <2>7
  <2> QED
    BY <2>1, <2>2, <2>3, <2>4, <2>6, <2>7, <2>8
<1> HIDE DEF T
<1>6. n \in T
  <2>1. 0 .. n \subseteq T
    BY <1>4, <1>5, IntervalInduction
  <2> QED
    BY <2>1
<1> QED
  BY <1>2, <1>3, <1>6 DEF T

-----------------------------------------------------------------------------
(* Consistency paths.                                                        *)

(* A subproof, what its path has to satisfy, and what the paths of all       *)
(* subproofs in a log of that size are.                                      *)
Subproof(m, lo, n, complete) == [old |-> m, from |-> lo, new |-> n, complete |-> complete]

PathOf(entries, path, p) ==
    LET k == Split(p.new)
    IN  IF p.old = p.new
        THEN IF p.complete THEN <<>> ELSE <<SubtreeRoot(entries, p.from, p.new)>>
        ELSE IF p.old <= k
        THEN Append(path[[p EXCEPT !.new = k]], SubtreeRoot(entries, p.from + k, p.new - k))
        ELSE Append(path[[old |-> p.old - k, from |-> p.from + k, new |-> p.new - k,
                          complete |-> FALSE]],
                    SubtreeRoot(entries, p.from, k))

Paths(entries, path, size) == path = [p \in Subproofs(size) |-> PathOf(entries, path, p)]

(* The proof for a tree is made from one for a smaller tree.                 *)
LEMMA SmallerSubproof ==
    ASSUME NEW n \in Nat, NEW p \in Subproofs(n + 1), p.old # p.new
    PROVE  /\ p.old <= Split(p.new) => [p EXCEPT !.new = Split(p.new)] \in Subproofs(n)
           /\ ~(p.old <= Split(p.new)) =>
                 [old |-> p.old - Split(p.new), from |-> p.from + Split(p.new),
                  new |-> p.new - Split(p.new), complete |-> FALSE] \in Subproofs(n)
<1>1. PICK m \in 1 .. n + 1, lo \in Nat, size \in 1 .. n + 1, c \in BOOLEAN :
          p = Subproof(m, lo, size, c) /\ m <= size /\ m # size
  BY DEF Subproofs, Subproof
<1>2. p.old = m /\ p.from = lo /\ p.new = size /\ p.complete = c
  BY <1>1 DEF Subproof
<1>3. PICK k : k = Split(size)
  OBVIOUS
<1>4. k \in 1 .. size - 1 /\ size - k \in 1 .. size - 1
  <2>1. size \in Nat /\ size >= 2
    BY <1>1
  <2> QED
    BY <1>3, <2>1, SplitFacts
<1>5. k \in 1 .. n /\ size - k \in 1 .. n /\ lo + k \in Nat
  BY <1>4
<1>6. ASSUME m <= k PROVE [p EXCEPT !.new = k] \in Subproofs(n)
  <2>1. [p EXCEPT !.new = k] = Subproof(m, lo, k, c)
    BY <1>1 DEF Subproof
  <2>2. m \in 1 .. n
    BY <1>5, <1>6
  <2> QED
    BY <1>5, <1>6, <2>1, <2>2 DEF Subproof, Subproofs
<1>7. ASSUME ~(m <= k) PROVE Subproof(m - k, lo + k, size - k, FALSE) \in Subproofs(n)
  <2>1. m - k \in 1 .. n /\ m - k <= size - k
    BY <1>1, <1>4, <1>7
  <2> QED
    BY <1>5, <2>1 DEF Subproof, Subproofs
<1> QED
  BY <1>2, <1>3, <1>6, <1>7 DEF Subproof

(* A function that gives the paths of all subproofs exists.                  *)
LEMMA PathsExist ==
    ASSUME NEW entries, NEW N \in Nat
    PROVE  \E path : Paths(entries, path, N)
<1> DEFINE T == {n \in 0 .. N : \E path : Paths(entries, path, n)}
<1>1. 0 \in T
  <2>1. PICK path : path = [p \in Subproofs(0) |-> 0]
    OBVIOUS
  <2>2. Subproofs(0) = {}
    BY DEF Subproofs
  <2>3. Paths(entries, path, 0)
    BY <2>1, <2>2 DEF Paths
  <2> QED
    BY <2>3
<1>2. ASSUME NEW n \in 0 .. N - 1, n \in T PROVE n + 1 \in T
  <2>1. n \in Nat /\ n + 1 \in 0 .. N
    OBVIOUS
  <2>2. PICK f : Paths(entries, f, n)
    BY <1>2
  <2>3. PICK g : g = [p \in Subproofs(n + 1) |-> PathOf(entries, f, p)]
    OBVIOUS
  <2>4. \A p \in Subproofs(n) : p \in Subproofs(n + 1)
    BY <2>1 DEF Subproofs
  <2>5. \A p \in Subproofs(n) : g[p] = f[p]
    BY <2>2, <2>3, <2>4, Zenon DEF Paths
  <2>6. ASSUME NEW p \in Subproofs(n + 1) PROVE PathOf(entries, g, p) = PathOf(entries, f, p)
    <3>1. CASE p.old = p.new
      BY <3>1 DEF PathOf
    <3>2. CASE p.old # p.new /\ p.old <= Split(p.new)
      <4>1. PICK sub \in Subproofs(n) : sub = [p EXCEPT !.new = Split(p.new)]
        BY <2>1, <3>2, SmallerSubproof
      <4>2. g[sub] = f[sub]
        BY <2>5
      <4> QED
        BY <3>2, <4>1, <4>2 DEF PathOf
    <3>3. CASE p.old # p.new /\ ~(p.old <= Split(p.new))
      <4>1. PICK sub \in Subproofs(n) :
                sub = [old |-> p.old - Split(p.new), from |-> p.from + Split(p.new),
                       new |-> p.new - Split(p.new), complete |-> FALSE]
        BY <2>1, <3>3, SmallerSubproof
      <4>2. g[sub] = f[sub]
        BY <2>5
      <4> QED
        BY <3>3, <4>1, <4>2 DEF PathOf
    <3> QED
      BY <3>1, <3>2, <3>3
  <2>7. Paths(entries, g, n + 1)
    BY <2>3, <2>6 DEF Paths
  <2> QED
    BY <2>1, <2>7
<1> HIDE DEF T
<1>3. N \in T
  <2>1. 0 .. N \subseteq T
    BY <1>1, <1>2, IntervalInduction
  <2> QED
    BY <2>1
<1> QED
  BY <1>3 DEF T

(* The path for an old tree of m leaves in a tree of n leaves that is a part,*)
(* in one that is complete, and in the right part that the old tree reaches. *)
Part(path, m, lo, n) == path[Subproof(m, lo, n, FALSE)]
Whole(path, m, lo, n) == path[Subproof(m, lo, n, TRUE)]
RightSub(path, m, lo, n) == Part(path, m - Split(n), lo + Split(n), n - Split(n))

(* A path with one hash more.                                                *)
Longer(Q, hash) == Append(Q, hash)

(* The path of each subproof.                                                *)
LEMMA PathEntry ==
    ASSUME NEW entries, NEW N \in Nat, NEW path, Paths(entries, path, N), NEW p \in Subproofs(N)
    PROVE  path[p] = PathOf(entries, path, p)
  BY Zenon DEF Paths

(* All of a part is proved by its root, ...                                  *)
LEMMA PartItself ==
    ASSUME NEW entries, NEW N \in Nat, NEW path, Paths(entries, path, N),
           NEW n \in 1 .. N, NEW lo \in Nat
    PROVE  Part(path, n, lo, n) = <<SubtreeRoot(entries, lo, n)>>
<1>1. PICK p : p = Subproof(n, lo, n, FALSE)
  OBVIOUS
<1>2. p.old = n /\ p.from = lo /\ p.new = n /\ p.complete = FALSE
  BY <1>1 DEF Subproof
<1>3. p \in Subproofs(N)
  <2>1. n \in 1 .. N /\ n <= n
    OBVIOUS
  <2> QED
    BY <1>1, <2>1 DEF Subproofs, Subproof
<1>4. path[p] = PathOf(entries, path, p)
  BY <1>3, PathEntry
<1> QED
  BY <1>1, <1>2, <1>4 DEF PathOf, Part

(* ... an old tree in the left part by the root of the right part, ...       *)
LEMMA PartLeft ==
    ASSUME NEW entries, NEW N \in Nat, NEW path, Paths(entries, path, N),
           NEW n \in 1 .. N, NEW m \in 1 .. n, NEW lo \in Nat, m # n, m <= Split(n)
    PROVE  Part(path, m, lo, n) = Longer(Part(path, m, lo, Split(n)), RightRoot(entries, lo, n))
<1>1. PICK p : p = Subproof(m, lo, n, FALSE)
  OBVIOUS
<1>2. p.old = m /\ p.from = lo /\ p.new = n /\ p.complete = FALSE
  BY <1>1 DEF Subproof
<1>3. p \in Subproofs(N)
  <2>1. m \in 1 .. N /\ m <= n
    OBVIOUS
  <2> QED
    BY <1>1, <2>1 DEF Subproofs, Subproof
<1>4. path[p] = PathOf(entries, path, p)
  BY <1>3, PathEntry
<1>5. [p EXCEPT !.new = Split(n)] = Subproof(m, lo, Split(n), FALSE)
  <2>1. PICK c : c = FALSE
    OBVIOUS
  <2>2. p = Subproof(m, lo, n, c)
    BY <1>1, <2>1
  <2>3. [p EXCEPT !.new = Split(n)] = Subproof(m, lo, Split(n), c)
    BY <2>2 DEF Subproof
  <2> QED
    BY <2>1, <2>3
<1> QED
  BY <1>1, <1>2, <1>4, <1>5 DEF PathOf, Part, RightRoot, Longer

(* ... and one that ends in the right part by the root of the left part.     *)
LEMMA PartRight ==
    ASSUME NEW entries, NEW N \in Nat, NEW path, Paths(entries, path, N),
           NEW n \in 1 .. N, NEW m \in 1 .. n, NEW lo \in Nat, m # n, ~(m <= Split(n))
    PROVE  Part(path, m, lo, n) = Longer(RightSub(path, m, lo, n), LeftRoot(entries, lo, n))
<1>1. PICK p : p = Subproof(m, lo, n, FALSE)
  OBVIOUS
<1>2. p.old = m /\ p.from = lo /\ p.new = n /\ p.complete = FALSE
  BY <1>1 DEF Subproof
<1>3. p \in Subproofs(N)
  <2>1. m \in 1 .. N /\ m <= n
    OBVIOUS
  <2> QED
    BY <1>1, <2>1 DEF Subproofs, Subproof
<1>4. path[p] = PathOf(entries, path, p)
  BY <1>3, PathEntry
<1> QED
  BY <1>1, <1>2, <1>4 DEF PathOf, Part, LeftRoot, RightSub, Subproof, Longer

(* All of a complete tree needs no hash; ...                                 *)
LEMMA WholeItself ==
    ASSUME NEW entries, NEW N \in Nat, NEW path, Paths(entries, path, N),
           NEW n \in 1 .. N, NEW lo \in Nat
    PROVE  Whole(path, n, lo, n) = <<>>
<1>1. PICK p : p = Subproof(n, lo, n, TRUE)
  OBVIOUS
<1>2. p.old = n /\ p.from = lo /\ p.new = n /\ p.complete = TRUE
  BY <1>1 DEF Subproof
<1>3. p \in Subproofs(N)
  <2>1. n \in 1 .. N /\ n <= n
    OBVIOUS
  <2> QED
    BY <1>1, <2>1 DEF Subproofs, Subproof
<1>4. path[p] = PathOf(entries, path, p)
  BY <1>3, PathEntry
<1> QED
  BY <1>1, <1>2, <1>4 DEF PathOf, Whole

(* ... the rest is as for a part, ...                                        *)
LEMMA WholeLeft ==
    ASSUME NEW entries, NEW N \in Nat, NEW path, Paths(entries, path, N),
           NEW n \in 1 .. N, NEW m \in 1 .. n, NEW lo \in Nat, m # n, m <= Split(n)
    PROVE  Whole(path, m, lo, n) = Longer(Whole(path, m, lo, Split(n)), RightRoot(entries, lo, n))
<1>1. PICK p : p = Subproof(m, lo, n, TRUE)
  OBVIOUS
<1>2. p.old = m /\ p.from = lo /\ p.new = n /\ p.complete = TRUE
  BY <1>1 DEF Subproof
<1>3. p \in Subproofs(N)
  <2>1. m \in 1 .. N /\ m <= n
    OBVIOUS
  <2> QED
    BY <1>1, <2>1 DEF Subproofs, Subproof
<1>4. path[p] = PathOf(entries, path, p)
  BY <1>3, PathEntry
<1>5. [p EXCEPT !.new = Split(n)] = Subproof(m, lo, Split(n), TRUE)
  <2>1. PICK c : c = TRUE
    OBVIOUS
  <2>2. p = Subproof(m, lo, n, c)
    BY <1>1, <2>1
  <2>3. [p EXCEPT !.new = Split(n)] = Subproof(m, lo, Split(n), c)
    BY <2>2 DEF Subproof
  <2> QED
    BY <2>1, <2>3
<1> QED
  BY <1>1, <1>2, <1>4, <1>5 DEF PathOf, Whole, RightRoot, Longer

(* ... and a right part is never complete.                                   *)
LEMMA WholeRight ==
    ASSUME NEW entries, NEW N \in Nat, NEW path, Paths(entries, path, N),
           NEW n \in 1 .. N, NEW m \in 1 .. n, NEW lo \in Nat, m # n, ~(m <= Split(n))
    PROVE  Whole(path, m, lo, n) = Longer(RightSub(path, m, lo, n), LeftRoot(entries, lo, n))
<1>1. PICK p : p = Subproof(m, lo, n, TRUE)
  OBVIOUS
<1>2. p.old = m /\ p.from = lo /\ p.new = n /\ p.complete = TRUE
  BY <1>1 DEF Subproof
<1>3. p \in Subproofs(N)
  <2>1. m \in 1 .. N /\ m <= n
    OBVIOUS
  <2> QED
    BY <1>1, <2>1 DEF Subproofs, Subproof
<1>4. path[p] = PathOf(entries, path, p)
  BY <1>3, PathEntry
<1> QED
  BY <1>1, <1>2, <1>4 DEF PathOf, Part, Whole, LeftRoot, RightSub, Subproof, Longer

(* The consistency path is given by such a function.                         *)
LEMMA ConsistencyPathGiven ==
    ASSUME NEW entries, Len(entries) \in Nat
    PROVE  \E path : /\ Paths(entries, path, Len(entries))
                     /\ \A m : ConsistencyPath(entries, m)
                                 = path[Subproof(m, 1, Len(entries), TRUE)]
<1> DEFINE Equation(path) ==
        path = [p \in Subproofs(Len(entries)) |->
          LET k == Split(p.new)
          IN  IF p.old = p.new
              THEN IF p.complete THEN <<>> ELSE <<SubtreeRoot(entries, p.from, p.new)>>
              ELSE IF p.old <= k
              THEN Append(path[[p EXCEPT !.new = k]], SubtreeRoot(entries, p.from + k, p.new - k))
              ELSE Append(path[[old |-> p.old - k, from |-> p.from + k, new |-> p.new - k,
                                complete |-> FALSE]],
                          SubtreeRoot(entries, p.from, k))]
<1>1. \E h : Equation(h)
  <2>1. PICK h : Paths(entries, h, Len(entries))
    BY PathsExist
  <2>2. Equation(h)
    BY <2>1 DEF Paths, PathOf
  <2> HIDE DEF Equation
  <2> QED
    BY <2>2
<1>2. PICK path : path = CHOOSE h : Equation(h)
  OBVIOUS
<1>3. Equation(path)
  <2> HIDE DEF Equation
  <2> QED
    BY <1>1, <1>2
<1>4. Paths(entries, path, Len(entries))
  BY <1>3 DEF Paths, PathOf
<1>5. \A m : ConsistencyPath(entries, m) = path[Subproof(m, 1, Len(entries), TRUE)]
  BY <1>2 DEF ConsistencyPath, Subproof
<1> QED
  BY <1>4, <1>5

(* The walk along the path of a subproof, from the shifted index of the old  *)
(* tree's last leaf, computes both roots and ends at the place of the tree.  *)
Arrives(entries, Q, start, m, lo, n, b, s) ==
    /\ IsPath(Q) /\ Q # <<>>
    /\ WalkPath(ShiftOdd(start), Head(Q), Tail(Q))
          = [fn |-> b, sn |-> s,
             old |-> SubtreeRoot(entries, lo, m), new |-> SubtreeRoot(entries, lo, n)]

(* It does so for the path of the subproof in the place of the tree.         *)
Computes(entries, path, m, lo, n, P, b, S, s) ==
    Arrives(entries, Part(path, m, lo, n), [fn |-> b * P + m - 1, sn |-> S],
            m, lo, n, b, s)

(* One hash more.                                                            *)
LEMMA WalkOn ==
    ASSUME NEW at, NEW Q, IsPath(Q), Q # <<>>, NEW hash
    PROVE  /\ IsPath(Append(Q, hash)) /\ Append(Q, hash) # <<>>
           /\ WalkPath(at, Head(Append(Q, hash)), Tail(Append(Q, hash)))
                 = Walk(WalkPath(at, Head(Q), Tail(Q)), hash)
<1>1. PICK longer : longer = Append(Q, hash)
  OBVIOUS
<1>2. /\ IsPath(longer) /\ longer # <<>>
      /\ Head(longer) = Head(Q) /\ IsPath(Tail(Q)) /\ Tail(longer) = Append(Tail(Q), hash)
  BY <1>1, LongerPath
<1>3. WalkPath(at, Head(Q), Append(Tail(Q), hash)) = Walk(WalkPath(at, Head(Q), Tail(Q)), hash)
  BY <1>2, WalkFurther
<1> QED
  BY <1>1, <1>2, <1>3

(* The old tree is all of a tree with an even place.                         *)
LEMMA ComputesItself ==
    ASSUME NEW entries, NEW N \in Nat, NEW path, Paths(entries, path, N),
           NEW n \in 1 .. N, NEW lo \in Nat, n \in Powers, NEW d \in Nat, NEW S \in Nat,
           NEW s \in Nat, Fits(n, n, 2 * d, S, s)
    PROVE  Computes(entries, path, n, lo, n, n, 2 * d, S, s)
<1>1. PICK root : root = SubtreeRoot(entries, lo, n)
  OBVIOUS
<1>2. Part(path, n, lo, n) = <<root>>
  BY <1>1, PartItself
<1>3. IsPath(<<root>>) /\ <<root>> # <<>> /\ Head(<<root>>) = root /\ Tail(<<root>>) = <<>>
  BY PathFacts
<1>4. PICK at : at = ShiftOdd([fn |-> (2 * d) * n + n - 1, sn |-> S])
  OBVIOUS
<1>5. at = [fn |-> 2 * d, sn |-> s]
  BY <1>4, ShiftOddFacts DEF Fits
<1>6. WalkPath(at, root, <<>>) = [fn |-> 2 * d, sn |-> s, old |-> root, new |-> root]
  <2>1. WalkPath(at, root, <<>>) = Started(at, root)
    BY WalkNothing
  <2>2. at.fn = 2 * d /\ at.sn = s
    BY <1>5
  <2> QED
    BY <2>1, <2>2 DEF Started
<1>7. Arrives(entries, <<root>>, [fn |-> (2 * d) * n + n - 1, sn |-> S], n, lo, n, 2 * d, s)
  BY <1>1, <1>3, <1>4, <1>6 DEF Arrives
<1> QED
  BY <1>2, <1>7 DEF Computes

(* It is in the left part.                                                   *)
LEMMA ComputesLeft ==
    ASSUME NEW entries, NEW N \in Nat, NEW path, Paths(entries, path, N),
           NEW n \in 1 .. N, NEW m \in 1 .. n, NEW lo \in Nat, NEW P \in Powers,
           NEW b \in Nat, NEW S \in Nat, NEW s \in Nat, Fits(n, P, b, S, s),
           m # n, m <= Split(n),
           \A t \in Nat : Fits(Split(n), Split(n), 2 * b, S, t) =>
              Computes(entries, path, m, lo, Split(n), Split(n), 2 * b, S, t)
    PROVE  Computes(entries, path, m, lo, n, P, b, S, s)
<1>1. n \in Nat /\ n >= 2 /\ n \in Nat \ {0}
  OBVIOUS
<1>2. PICK k \in Powers : k = Split(n) /\ k \in 1 .. n - 1
  BY <1>1, SplitFacts
<1>3. P = 2 * k
  BY <1>1, <1>2, FitsTwice DEF Fits
<1>4. PICK t \in Nat : LeftPlace(n, b, S, s, t)
  BY <1>1, LeftPart
<1>5. Fits(k, k, 2 * b, S, t) /\ t \div 2 = s /\ t # 2 * b
  BY <1>2, <1>4 DEF LeftPlace
<1>6. Computes(entries, path, m, lo, k, k, 2 * b, S, t)
  BY <1>2, <1>5
<1>7. PICK Q : Q = Part(path, m, lo, k)
  OBVIOUS
<1>8. PICK start : start = [fn |-> b * P + m - 1, sn |-> S]
  OBVIOUS
<1>9. start = [fn |-> (2 * b) * k + m - 1, sn |-> S]
  <2>1. b * (2 * k) = (2 * b) * k
    <3>1. k \in Nat
      BY <1>2
    <3> QED
      BY <3>1, Products
  <2> QED
    BY <1>3, <1>8, <2>1
<1>10. Arrives(entries, Q, start, m, lo, k, 2 * b, t)
  BY <1>6, <1>7, <1>9 DEF Computes
<1>11. PICK hash : hash = RightRoot(entries, lo, n)
  OBVIOUS
<1>12. Part(path, m, lo, n) = Append(Q, hash)
  <2>1. Part(path, m, lo, n) = Longer(Part(path, m, lo, Split(n)), RightRoot(entries, lo, n))
    BY PartLeft
  <2> QED
    BY <1>2, <1>7, <1>11, <2>1 DEF Longer
<1>13. PICK old : old = SubtreeRoot(entries, lo, m)
  OBVIOUS
<1>14. PICK new : new = SubtreeRoot(entries, lo, k)
  OBVIOUS
<1>15. Node(new, hash) = SubtreeRoot(entries, lo, n)
  BY <1>1, <1>2, <1>11, <1>14, RootOfNode DEF LeftRoot
<1>16. PICK at : at = ShiftOdd(start)
  OBVIOUS
<1>17. WalkPath(at, Head(Q), Tail(Q)) = [fn |-> 2 * b, sn |-> t, old |-> old, new |-> new]
  BY <1>10, <1>13, <1>14, <1>16 DEF Arrives
<1>18. PICK longer : longer = Append(Q, hash)
  OBVIOUS
<1>19. IsPath(longer) /\ longer # <<>>
       /\ WalkPath(at, Head(longer), Tail(longer)) = Walk(WalkPath(at, Head(Q), Tail(Q)), hash)
  BY <1>10, <1>18, WalkOn DEF Arrives
<1>20. WalkPath(at, Head(longer), Tail(longer))
          = [fn |-> b, sn |-> s, old |-> old, new |-> Node(new, hash)]
  <2>1. PICK f \in Nat : f = 2 * b
    OBVIOUS
  <2>2. PICK w : w = [fn |-> f, sn |-> t, old |-> old, new |-> new]
    OBVIOUS
  <2>3. Walk(w, hash) = [fn |-> b, sn |-> s, old |-> old, new |-> Node(new, hash)]
    BY <1>5, <2>1, <2>2, WalkRight
  <2> QED
    BY <1>17, <1>19, <2>1, <2>2, <2>3
<1>21. Arrives(entries, longer, start, m, lo, n, b, s)
  BY <1>13, <1>15, <1>16, <1>19, <1>20 DEF Arrives
<1> QED
  BY <1>8, <1>12, <1>18, <1>21 DEF Computes

(* A tree that ends in the right part of a larger one is split at the same   *)
(* place.                                                                    *)
LEMMA SplitSame ==
    ASSUME NEW n \in Nat, NEW m \in Nat, n >= 2, Split(n) < m, m <= n
    PROVE  Split(m) = Split(n)
<1>1. PICK k \in Powers : k = Split(n)
  BY SplitFacts
<1>2. k \in Nat \ {0} /\ k < m /\ m <= 2 * k
  <2>1. k \in 1 .. n - 1 /\ n <= 2 * k
    BY <1>1, SplitFacts
  <2> QED
    BY <1>1, <2>1
<1>3. m >= 2 /\ 2 * k \in Powers /\ 2 * k < 2 * m
  BY <1>2, PowersDouble
<1>4. 2 * k = 2 * Split(m)
  BY <1>2, <1>3, FitsTwice
<1>5. Split(m) \in Nat
  BY <1>3, SplitFacts
<1> QED
  BY <1>1, <1>2, <1>4, <1>5

(* It ends in the right part.                                                *)
LEMMA ComputesRight ==
    ASSUME NEW entries, NEW N \in Nat, NEW path, Paths(entries, path, N),
           NEW n \in 1 .. N, NEW m \in 1 .. n, NEW lo \in Nat, NEW P \in Powers,
           NEW b \in Nat, NEW S \in Nat, NEW s \in Nat, Fits(n, P, b, S, s),
           m # n, ~(m <= Split(n)),
           \A Q \in Powers, c \in Nat, r \in Nat : Fits(n - Split(n), Q, c, S, r) =>
              Computes(entries, path, m - Split(n), lo + Split(n), n - Split(n), Q, c, S, r)
    PROVE  Computes(entries, path, m, lo, n, P, b, S, s)
<1>1. n \in Nat /\ n >= 2 /\ n \in Nat \ {0}
  OBVIOUS
<1>2. PICK k \in Powers : k = Split(n) /\ k \in 1 .. n - 1
  BY <1>1, SplitFacts
<1>3. n - k >= 2 /\ k < m
  BY <1>1, <1>2
<1>4. PICK Q \in Powers, E \in Powers, r \in Nat, t \in Nat :
          RightPlace(n, P, b, S, s, Q, E, r, t)
  BY <1>1, <1>2, <1>3, RightPart
<1>5. PICK c \in Nat : c = (2 * b + 1) * E
  <2>1. E \in Nat /\ 2 * b + 1 \in Nat
    BY PowersHalve
  <2> QED
    BY <2>1, Products
<1>6. /\ Fits(n - k, Q, c, S, r) /\ c * Q = b * P + k
      /\ t * E <= r /\ r < t * E + E /\ t \div 2 = s
      /\ E = 1 \/ r = (2 * b + 1) * E
  BY <1>2, <1>4, <1>5 DEF RightPlace
<1>7. Computes(entries, path, m - k, lo + k, n - k, Q, c, S, r)
  BY <1>2, <1>6
<1>8. PICK sub : sub = Part(path, m - k, lo + k, n - k)
  OBVIOUS
<1>9. PICK start : start = [fn |-> b * P + m - 1, sn |-> S]
  OBVIOUS
<1>10. start = [fn |-> c * Q + (m - k) - 1, sn |-> S]
  <2>1. P \in Nat /\ k \in Nat /\ m \in Nat
    BY <1>2, PowersHalve
  <2>2. b * P \in Nat
    BY <2>1, Products
  <2>3. c * Q + (m - k) - 1 = b * P + m - 1
    BY <1>6, <2>1, <2>2
  <2> QED
    BY <1>9, <2>3
<1>11. Arrives(entries, sub, start, m - k, lo + k, n - k, c, r)
  BY <1>7, <1>8, <1>10 DEF Computes
<1>12. PICK hash : hash = LeftRoot(entries, lo, n)
  OBVIOUS
<1>13. Part(path, m, lo, n) = Append(sub, hash)
  <2>1. Part(path, m, lo, n) = Longer(RightSub(path, m, lo, n), LeftRoot(entries, lo, n))
    BY PartRight
  <2> QED
    BY <1>2, <1>8, <1>12, <2>1 DEF RightSub, Longer
<1>14. PICK old : old = SubtreeRoot(entries, lo + k, m - k)
  OBVIOUS
<1>15. PICK new : new = SubtreeRoot(entries, lo + k, n - k)
  OBVIOUS
<1>16. Node(hash, new) = SubtreeRoot(entries, lo, n)
  BY <1>1, <1>2, <1>12, <1>15, RootOfNode DEF RightRoot
<1>17. Node(hash, old) = SubtreeRoot(entries, lo, m)
  <2>1. m \in Nat /\ m >= 2
    BY <1>2, <1>3
  <2>2. Split(m) = k
    BY <1>2, <1>3, SplitSame
  <2> QED
    BY <1>2, <1>12, <1>14, <2>1, <2>2, RootOfNode DEF LeftRoot, RightRoot
<1>18. PICK at : at = ShiftOdd(start)
  OBVIOUS
<1>19. WalkPath(at, Head(sub), Tail(sub)) = [fn |-> c, sn |-> r, old |-> old, new |-> new]
  BY <1>11, <1>14, <1>15, <1>18 DEF Arrives
<1>20. PICK longer : longer = Append(sub, hash)
  OBVIOUS
<1>21. IsPath(longer) /\ longer # <<>>
       /\ WalkPath(at, Head(longer), Tail(longer)) = Walk(WalkPath(at, Head(sub), Tail(sub)), hash)
  BY <1>11, <1>20, WalkOn DEF Arrives
<1>22. WalkPath(at, Head(longer), Tail(longer))
          = [fn |-> b, sn |-> s, old |-> Node(hash, old), new |-> Node(hash, new)]
  <2>1. PICK w : w = [fn |-> c, sn |-> r, old |-> old, new |-> new]
    OBVIOUS
  <2>2. Shifts(b, E, c, r, t, s)
    BY <1>5, <1>6 DEF Shifts
  <2>3. Walk(w, hash) = [fn |-> b, sn |-> s, old |-> Node(hash, old), new |-> Node(hash, new)]
    BY <2>1, <2>2, WalkLeft
  <2> QED
    BY <1>19, <1>21, <2>1, <2>3
<1>23. Arrives(entries, longer, start, m, lo, n, b, s)
  BY <1>16, <1>17, <1>18, <1>21, <1>22 DEF Arrives
<1> QED
  BY <1>9, <1>13, <1>20, <1>23 DEF Computes

(* A proof is not for all of its tree, or the tree has an even place of its  *)
(* own size.                                                                 *)
Placed(m, n, P, b) == m # n \/ (n = P /\ \E d \in Nat : b = 2 * d)

(* The walk computes the roots of all trees of n leaves in all their places. *)
Covered(entries, path, n) ==
    \A m \in 1 .. n, lo \in Nat, P \in Powers, b \in Nat, S \in Nat, s \in Nat :
       Fits(n, P, b, S, s) /\ Placed(m, n, P, b)
          => Computes(entries, path, m, lo, n, P, b, S, s)

(* The walk computes the roots of a tree if it does for the smaller ones.    *)
LEMMA CoveredNext ==
    ASSUME NEW entries, NEW N \in Nat, NEW path, Paths(entries, path, N), NEW n \in 1 .. N,
           \A x \in 1 .. n - 1 : Covered(entries, path, x)
    PROVE  Covered(entries, path, n)
<1> SUFFICES ASSUME NEW m \in 1 .. n, NEW lo \in Nat, NEW P \in Powers, NEW b \in Nat,
                    NEW S \in Nat, NEW s \in Nat, Fits(n, P, b, S, s), Placed(m, n, P, b)
             PROVE  Computes(entries, path, m, lo, n, P, b, S, s)
  BY DEF Covered
<1>1. CASE m = n
  <2>1. PICK d \in Nat : n = P /\ b = 2 * d
    BY <1>1 DEF Placed
  <2>2. n \in Powers /\ Fits(n, n, 2 * d, S, s)
    BY <2>1
  <2>3. Computes(entries, path, n, lo, n, n, 2 * d, S, s)
    BY <2>2, ComputesItself
  <2> QED
    BY <1>1, <2>1, <2>3
<1>2. CASE m # n
  <2>1. PICK k \in Powers : k = Split(n) /\ k \in 1 .. n - 1 /\ n - k \in 1 .. n - 1
    <3>1. n \in Nat /\ n >= 2
      BY <1>2
    <3> QED
      BY <3>1, SplitFacts
  <2>2. CASE m <= k
    <3>1. m \in 1 .. k
      BY <2>1, <2>2
    <3>2. PICK f \in Nat : f = 2 * b
      OBVIOUS
    <3>3. Placed(m, k, k, f)
      BY <3>2 DEF Placed
    <3>4. ASSUME NEW t \in Nat, Fits(k, k, f, S, t)
          PROVE  Computes(entries, path, m, lo, k, k, f, S, t)
      BY <2>1, <3>1, <3>3, <3>4 DEF Covered
    <3>5. \A t \in Nat : Fits(Split(n), Split(n), 2 * b, S, t) =>
              Computes(entries, path, m, lo, Split(n), Split(n), 2 * b, S, t)
      BY <2>1, <3>2, <3>4
    <3>6. m <= Split(n)
      BY <2>1, <2>2
    <3> QED
      BY <1>2, <3>5, <3>6, ComputesLeft
  <2>3. CASE ~(m <= k)
    <3>1. m - k \in 1 .. n - k /\ m - k # n - k /\ lo + k \in Nat
      BY <1>2, <2>1, <2>3
    <3>2. PICK x \in 1 .. n - 1 : x = n - k
      BY <2>1
    <3>3. PICK y \in 1 .. x, l \in Nat : y = m - k /\ l = lo + k
      BY <3>1, <3>2
    <3>4. ASSUME NEW Q \in Powers, NEW c \in Nat, NEW r \in Nat, Fits(x, Q, c, S, r)
          PROVE  Computes(entries, path, y, l, x, Q, c, S, r)
      <4>1. Placed(y, x, Q, c)
        BY <3>1, <3>2, <3>3 DEF Placed
      <4> QED
        BY <3>4, <4>1 DEF Covered
    <3>5. \A Q \in Powers, c \in Nat, r \in Nat : Fits(n - Split(n), Q, c, S, r) =>
              Computes(entries, path, m - Split(n), lo + Split(n), n - Split(n), Q, c, S, r)
      BY <2>1, <3>2, <3>4, <3>3
    <3>6. ~(m <= Split(n))
      BY <2>1, <2>3
    <3> QED
      BY <1>2, <3>5, <3>6, ComputesRight
  <2> QED
    BY <2>2, <2>3
<1> QED
  BY <1>1, <1>2

(* So it does for all of them.                                               *)
LEMMA AllCovered ==
    ASSUME NEW entries, NEW N \in Nat, NEW path, Paths(entries, path, N), NEW n \in 1 .. N
    PROVE  Covered(entries, path, n)
<1> DEFINE T == {x \in 0 .. N : \A y \in 1 .. x : Covered(entries, path, y)}
<1>1. 0 \in T
  OBVIOUS
<1>2. ASSUME NEW x \in 0 .. N - 1, x \in T PROVE x + 1 \in T
  <2>1. x + 1 \in 1 .. N /\ x + 1 \in 0 .. N /\ (x + 1) - 1 = x
    OBVIOUS
  <2>2. PICK z \in 1 .. N : z = x + 1
    BY <2>1
  <2>3. \A y \in 1 .. z - 1 : Covered(entries, path, y)
    BY <1>2, <2>1, <2>2
  <2>4. Covered(entries, path, z)
    BY <2>3, CoveredNext
  <2>5. \A y \in 1 .. z : y = z \/ y \in 1 .. z - 1
    BY <2>2
  <2>6. \A y \in 1 .. z : Covered(entries, path, y)
    BY <2>3, <2>4, <2>5
  <2> QED
    BY <2>1, <2>2, <2>6
<1> HIDE DEF T
<1>3. N \in T
  <2>1. 0 .. N \subseteq T
    BY <1>1, <1>2, IntervalInduction
  <2> QED
    BY <2>1
<1> QED
  BY <1>3 DEF T

(* The paths of a complete tree and of the same tree as a part differ only in*)
(* the old tree's root, which a complete tree's path leaves out if the old   *)
(* tree is one of its subtrees: exactly if its size is a power of two.       *)
Seeded(entries, path, m, lo, n) ==
    LET Q == Part(path, m, lo, n)
    IN  IF m \in Powers
        THEN /\ IsPath(Q) /\ Q # <<>>
             /\ Whole(path, m, lo, n) = Tail(Q) /\ Head(Q) = SubtreeRoot(entries, lo, m)
        ELSE Whole(path, m, lo, n) = Q

(* That holds if it does of the left part, ...                               *)
LEMMA SeededLeft ==
    ASSUME NEW entries, NEW N \in Nat, NEW path, Paths(entries, path, N), NEW n \in 1 .. N,
           NEW m \in 1 .. n, NEW lo \in Nat, m # n, m <= Split(n),
           Seeded(entries, path, m, lo, Split(n))
    PROVE  Seeded(entries, path, m, lo, n)
<1>1. PICK Q : Q = Part(path, m, lo, Split(n))
  OBVIOUS
<1>2. PICK W : W = Whole(path, m, lo, Split(n))
  OBVIOUS
<1>3. PICK hash : hash = RightRoot(entries, lo, n)
  OBVIOUS
<1>4. Part(path, m, lo, n) = Append(Q, hash)
  <2>1. Part(path, m, lo, n) = Longer(Part(path, m, lo, Split(n)), RightRoot(entries, lo, n))
    BY PartLeft
  <2> QED
    BY <1>1, <1>3, <2>1 DEF Longer
<1>5. Whole(path, m, lo, n) = Append(W, hash)
  <2>1. Whole(path, m, lo, n) = Longer(Whole(path, m, lo, Split(n)), RightRoot(entries, lo, n))
    BY WholeLeft
  <2> QED
    BY <1>2, <1>3, <2>1 DEF Longer
<1>6. CASE m \in Powers
  <2>1. IsPath(Q) /\ Q # <<>> /\ W = Tail(Q) /\ Head(Q) = SubtreeRoot(entries, lo, m)
    BY <1>1, <1>2, <1>6 DEF Seeded
  <2>2. PICK longer : longer = Append(Q, hash)
    OBVIOUS
  <2>3. /\ IsPath(longer) /\ longer # <<>>
        /\ Head(longer) = Head(Q) /\ Tail(longer) = Append(Tail(Q), hash)
    BY <2>1, <2>2, LongerPath
  <2> QED
    BY <1>4, <1>5, <1>6, <2>1, <2>2, <2>3 DEF Seeded
<1>7. CASE ~(m \in Powers)
  <2>1. W = Q
    BY <1>1, <1>2, <1>7 DEF Seeded
  <2> QED
    BY <1>4, <1>5, <1>7, <2>1 DEF Seeded
<1> QED
  BY <1>6, <1>7

(* ... if it does of all smaller trees, ...                                  *)
LEMMA SeededNext ==
    ASSUME NEW entries, NEW N \in Nat, NEW path, Paths(entries, path, N), NEW n \in 1 .. N,
           NEW m \in 1 .. n, NEW lo \in Nat, m # n \/ m \in Powers,
           \A x \in 1 .. n - 1 :
              m \in 1 .. x /\ (m # x \/ m \in Powers) => Seeded(entries, path, m, lo, x)
    PROVE  Seeded(entries, path, m, lo, n)
<1>1. CASE m = n
  <2>1. PICK root : root = SubtreeRoot(entries, lo, n)
    OBVIOUS
  <2>2. Part(path, n, lo, n) = <<root>>
    BY <2>1, PartItself
  <2>3. Whole(path, n, lo, n) = <<>>
    BY WholeItself
  <2>4. IsPath(<<root>>) /\ <<root>> # <<>> /\ Head(<<root>>) = root /\ Tail(<<root>>) = <<>>
    BY PathFacts
  <2>5. n \in Powers
    BY <1>1
  <2>6. Seeded(entries, path, n, lo, n)
    BY <2>1, <2>2, <2>3, <2>4, <2>5 DEF Seeded
  <2> QED
    BY <1>1, <2>6
<1>2. CASE m # n
  <2>1. PICK k \in Powers : k = Split(n) /\ k \in 1 .. n - 1 /\ n <= 2 * k
    <3>1. n \in Nat /\ n >= 2
      BY <1>2
    <3> QED
      BY <3>1, SplitFacts
  <2>2. CASE m <= k
    <3>1. m \in 1 .. k /\ (m # k \/ m \in Powers)
      BY <2>1, <2>2
    <3>2. Seeded(entries, path, m, lo, Split(n))
      BY <2>1, <3>1
    <3>3. m <= Split(n)
      BY <2>1, <2>2
    <3> QED
      BY <1>2, <3>2, <3>3, SeededLeft
  <2>3. CASE ~(m <= k)
    <3>1. ~(m \in Powers)
      <4> SUFFICES ASSUME m \in Powers PROVE FALSE
        OBVIOUS
      <4>1. k < m /\ k \in Nat
        BY <2>1, <2>3
      <4>2. 2 * k <= m
        BY <4>1, PowersGap
      <4> QED
        BY <1>2, <2>1, <4>2
    <3>2. ~(m <= Split(n))
      BY <2>1, <2>3
    <3>3. Part(path, m, lo, n) = Longer(RightSub(path, m, lo, n), LeftRoot(entries, lo, n))
      BY <1>2, <3>2, PartRight
    <3>4. Whole(path, m, lo, n) = Longer(RightSub(path, m, lo, n), LeftRoot(entries, lo, n))
      BY <1>2, <3>2, WholeRight
    <3> QED
      BY <3>1, <3>3, <3>4 DEF Seeded
  <2> QED
    BY <2>2, <2>3
<1> QED
  BY <1>1, <1>2

(* ... and so of all trees that are larger than the old tree.                *)
LEMMA AllSeeded ==
    ASSUME NEW entries, NEW N \in Nat, NEW path, Paths(entries, path, N), NEW n \in 1 .. N,
           NEW m \in 1 .. n, NEW lo \in Nat, m # n
    PROVE  Seeded(entries, path, m, lo, n)
<1> DEFINE Claim(x) == m \in 1 .. x /\ (m # x \/ m \in Powers) => Seeded(entries, path, m, lo, x)
           T == {x \in 0 .. N : \A y \in 1 .. x : Claim(y)}
<1>1. 0 \in T
  OBVIOUS
<1>2. ASSUME NEW x \in 0 .. N - 1, x \in T PROVE x + 1 \in T
  <2>1. x + 1 \in 1 .. N /\ x + 1 \in 0 .. N /\ (x + 1) - 1 = x
    OBVIOUS
  <2>2. PICK z \in 1 .. N : z = x + 1
    BY <2>1
  <2>3. \A y \in 1 .. z - 1 : Claim(y)
    BY <1>2, <2>1, <2>2
  <2>4. Claim(z)
    BY <2>3, SeededNext
  <2>5. \A y \in 1 .. z : y = z \/ y \in 1 .. z - 1
    BY <2>2
  <2>6. \A y \in 1 .. z : Claim(y)
    <3> HIDE DEF Claim
    <3> QED
      BY <2>3, <2>4, <2>5
  <2> QED
    BY <2>1, <2>2, <2>6
<1> HIDE DEF T
<1>3. N \in T
  <2>1. 0 .. N \subseteq T
    BY <1>1, <1>2, IntervalInduction
  <2> QED
    BY <2>1
<1> QED
  BY <1>3 DEF T

(* A whole log as a tree with a place.                                       *)
LEMMA FitsWhole ==
    ASSUME NEW N \in Nat, N >= 2
    PROVE  \E P \in Powers : Fits(N, P, 0, N - 1, 0)
<1>1. PICK k \in Powers : k \in 1 .. N - 1 /\ N <= 2 * k
  BY SplitFacts
<1>2. PICK P \in Powers : P = 2 * k
  BY PowersDouble
<1>3. P \in Nat /\ N <= P /\ P < 2 * N
  BY <1>1, <1>2
<1>4. 0 * P = 0
  BY <1>3
<1>5. Fits(N, P, 0, N - 1, 0)
  BY <1>3, <1>4 DEF Fits
<1> QED
  BY <1>5

(* The shifted index of the old tree's last leaf is zero exactly if the size *)
(* of the old tree is a power of two.                                        *)
LEMMA ShiftedToZero ==
    ASSUME NEW m \in Nat \ {0}, NEW sn \in Nat
    PROVE  ShiftOdd([fn |-> m - 1, sn |-> sn]).fn = 0 <=> m \in Powers
<1>1. ASSUME m \in Powers PROVE ShiftOdd([fn |-> m - 1, sn |-> sn]).fn = 0
  <2>1. PICK s \in Nat : s * m <= sn /\ sn < s * m + m
    BY Quotient
  <2>2. PICK at : at = ShiftOdd([fn |-> (2 * 0) * m + m - 1, sn |-> sn])
    OBVIOUS
  <2>3. at = [fn |-> 2 * 0, sn |-> s]
    BY <1>1, <2>1, <2>2, ShiftOddFacts
  <2>4. (2 * 0) * m + m - 1 = m - 1 /\ 2 * 0 = 0
    OBVIOUS
  <2> QED
    BY <2>2, <2>3, <2>4
<1> QED
  BY <1>1, ShiftOddToZero

(* The walk along the path of a larger log, from its old part's root.        *)
LEMMA WalkComputes ==
    ASSUME NEW entries, NEW N \in Nat, NEW path, Paths(entries, path, N), N >= 2,
           NEW m \in 1 .. N, m # N, NEW at, at = ShiftOdd([fn |-> m - 1, sn |-> N - 1]),
           NEW Q, Q = Part(path, m, 1, N)
    PROVE  /\ IsPath(Q) /\ Q # <<>>
           /\ WalkPath(at, Head(Q), Tail(Q))
                 = [fn |-> 0, sn |-> 0,
                    old |-> SubtreeRoot(entries, 1, m), new |-> SubtreeRoot(entries, 1, N)]
<1>1. PICK P \in Powers : Fits(N, P, 0, N - 1, 0)
  BY FitsWhole
<1>2. PICK S \in Nat : S = N - 1
  OBVIOUS
<1>3. PICK n \in 1 .. N : n = N
  OBVIOUS
<1>4. m \in 1 .. n /\ Placed(m, n, P, 0) /\ Fits(n, P, 0, S, 0)
  BY <1>1, <1>2, <1>3 DEF Placed
<1>5. Covered(entries, path, n)
  BY AllCovered
<1>6. Computes(entries, path, m, 1, n, P, 0, S, 0)
  BY <1>4, <1>5 DEF Covered
<1>7. 0 * P + m - 1 = m - 1
  <2>1. P \in Nat /\ m \in Nat
    BY PowersHalve
  <2> QED
    BY <2>1
<1> QED
  BY <1>2, <1>3, <1>6, <1>7 DEF Computes, Arrives

(* The proof for a smaller log verifies exactly from the root of the part of *)
(* the larger log that has its size.                                         *)
LEMMA VerifiesExactly ==
    ASSUME NEW entries, NEW N \in Nat, Len(entries) = N, N >= 2, NEW m \in 1 .. N, m # N,
           NEW oldRoot
    PROVE  VerifyConsistencyPath(m, N, oldRoot, SubtreeRoot(entries, 1, N),
                                 ConsistencyPath(entries, m))
              <=> oldRoot = SubtreeRoot(entries, 1, m)
<1>1. PICK path : /\ Paths(entries, path, N)
                  /\ ConsistencyPath(entries, m) = path[Subproof(m, 1, N, TRUE)]
  BY ConsistencyPathGiven
<1>2. PICK W : W = ConsistencyPath(entries, m)
  OBVIOUS
<1>3. PICK at : at = ShiftOdd([fn |-> m - 1, sn |-> N - 1])
  OBVIOUS
<1>4. PICK Q : Q = Part(path, m, 1, N)
  OBVIOUS
<1>5. PICK old : old = SubtreeRoot(entries, 1, m)
  OBVIOUS
<1>6. PICK new : new = SubtreeRoot(entries, 1, N)
  OBVIOUS
<1>7. /\ IsPath(Q) /\ Q # <<>>
      /\ WalkPath(at, Head(Q), Tail(Q)) = [fn |-> 0, sn |-> 0, old |-> old, new |-> new]
  BY <1>1, <1>3, <1>4, <1>5, <1>6, WalkComputes
<1>8. at.fn = 0 <=> m \in Powers
  BY <1>3, ShiftedToZero
<1>9. Seeded(entries, path, m, 1, N)
  <2>1. PICK n \in 1 .. N : n = N
    OBVIOUS
  <2>2. m \in 1 .. n /\ m # n
    BY <2>1
  <2>3. Seeded(entries, path, m, 1, n)
    BY <1>1, <2>2, AllSeeded
  <2> QED
    BY <2>1, <2>3
<1>10. W = Whole(path, m, 1, N)
  BY <1>1, <1>2 DEF Whole
<1>11. m >= 1 /\ N >= m /\ m # N
  OBVIOUS
<1>12. PICK verified : verified = VerifyConsistencyPath(m, N, oldRoot, new, W)
  OBVIOUS
<1>13. CASE m \in Powers
  <2>1. W = Tail(Q) /\ Head(Q) = old
    BY <1>4, <1>5, <1>9, <1>10, <1>13 DEF Seeded
  <2>2. VerifyConsistencyPath(m, N, oldRoot, new, W)
           <=> WalkPath(at, oldRoot, W).old = oldRoot /\ WalkPath(at, oldRoot, W).new = new
    BY <1>3, <1>8, <1>11, <1>13 DEF VerifyConsistencyPath
  <2>3. WalkPath(at, old, W).old = old /\ WalkPath(at, old, W).new = new
    BY <1>7, <2>1
  <2>4. IsPath(W)
    BY <1>7, <2>1, LongerPath
  <2>5. WalkPath(at, oldRoot, W).new = new => oldRoot = old
    BY <2>3, <2>4, WalkInjective
  <2> QED
    BY <1>2, <1>5, <1>6, <2>2, <2>3, <2>5
<1>14. CASE ~(m \in Powers)
  <2>1. W = Q
    BY <1>4, <1>9, <1>10, <1>14 DEF Seeded
  <2>2. VerifyConsistencyPath(m, N, oldRoot, new, W)
           <=> /\ WalkPath(at, Head(W), Tail(W)).old = oldRoot
               /\ WalkPath(at, Head(W), Tail(W)).new = new
    BY <1>3, <1>7, <1>8, <1>11, <1>14, <2>1 DEF VerifyConsistencyPath
  <2> QED
    BY <1>2, <1>5, <1>6, <1>7, <2>1, <2>2
<1> QED
  BY <1>13, <1>14

(* Logs that agree up to a size.                                             *)
SameEntries(d, e, m) == \A i \in 1 .. m : d[i] = e[i]

(* Logs have the same root up to a size exactly if they agree up to it.      *)
LEMMA SameRoots ==
    ASSUME NEW d, NEW e, NEW m \in Nat \ {0}
    PROVE  SubtreeRoot(d, 1, m) = SubtreeRoot(e, 1, m) <=> SameEntries(d, e, m)
<1>1. PICK lo \in Nat : lo = 1
  OBVIOUS
<1>2. SubtreeRoot(d, lo, m) = SubtreeRoot(e, lo, m) <=> \A i \in lo .. lo + m - 1 : d[i] = e[i]
  BY RootsDetermine
<1>3. lo .. lo + m - 1 = 1 .. m
  BY <1>1
<1> QED
  BY <1>1, <1>2, <1>3 DEF SameEntries

(* So the proof that a log makes for a smaller one verifies exactly if the   *)
(* smaller log is a prefix.                                                  *)
LEMMA ConsistencyExact ==
    ASSUME NEW old, NEW new, NEW m \in Nat \ {0}, NEW N \in Nat, Len(old) = m, Len(new) = N, m <= N
    PROVE  VerifyConsistencyPath(m, N, MerkleRoot(old), MerkleRoot(new), ConsistencyPath(new, m))
              <=> SameEntries(old, new, m)
<1>1. MerkleRoot(old) = SubtreeRoot(old, 1, m) /\ MerkleRoot(new) = SubtreeRoot(new, 1, N)
  BY DEF MerkleRoot
<1>2. SubtreeRoot(old, 1, m) = SubtreeRoot(new, 1, m) <=> SameEntries(old, new, m)
  BY SameRoots
<1>3. CASE m = N
  <2>1. ConsistencyPath(new, m) = <<>>
    <3>1. PICK path : /\ Paths(new, path, N)
                      /\ ConsistencyPath(new, m) = path[Subproof(m, 1, N, TRUE)]
      BY ConsistencyPathGiven
    <3>2. PICK n \in 1 .. N : n = N
      BY <1>3
    <3>3. Whole(path, n, 1, n) = <<>>
      BY <3>1, WholeItself
    <3> QED
      BY <1>3, <3>1, <3>2, <3>3 DEF Whole
  <2> QED
    BY <1>1, <1>2, <1>3, <2>1 DEF VerifyConsistencyPath
<1>4. CASE m # N
  <2>1. m \in 1 .. N /\ N >= 2
    BY <1>4
  <2> QED
    BY <1>1, <1>2, <1>4, <2>1, VerifiesExactly
<1> QED
  BY <1>3, <1>4

-----------------------------------------------------------------------------
(* Inclusion.                                                                *)

(* What the inclusion paths of the entry at i in all trees of at most size   *)
(* leaves have to satisfy.                                                   *)
InclusionOf(entries, path, i, t) ==
    LET k == Split(t[2])
    IN  IF t[2] = 1 THEN <<>>
        ELSE IF i < t[1] + k
        THEN Append(path[<<t[1], k>>], SubtreeRoot(entries, t[1] + k, t[2] - k))
        ELSE Append(path[<<t[1] + k, t[2] - k>>], SubtreeRoot(entries, t[1], k))

Inclusions(entries, path, i, size) ==
    path = [t \in Trees(size) |-> InclusionOf(entries, path, i, t)]

(* A function that satisfies it exists for every size.                       *)
LEMMA InclusionsExist ==
    ASSUME NEW entries, NEW i, NEW N \in Nat
    PROVE  \E path : Inclusions(entries, path, i, N)
<1> DEFINE T == {n \in 0 .. N : \E path : Inclusions(entries, path, i, n)}
<1>1. 0 \in T
  <2>1. PICK path : path = [t \in Trees(0) |-> 0]
    OBVIOUS
  <2>2. Trees(0) = {}
    BY DEF Trees
  <2>3. Inclusions(entries, path, i, 0)
    BY <2>1, <2>2 DEF Inclusions
  <2> QED
    BY <2>3
<1>2. ASSUME NEW n \in 0 .. N - 1, n \in T PROVE n + 1 \in T
  <2>1. n \in Nat /\ n + 1 \in 0 .. N
    OBVIOUS
  <2>2. PICK f : Inclusions(entries, f, i, n)
    BY <1>2
  <2>3. PICK g : g = [t \in Trees(n + 1) |-> InclusionOf(entries, f, i, t)]
    OBVIOUS
  <2>4. \A t \in Trees(n) : t \in Trees(n + 1)
    BY <2>1 DEF Trees
  <2>5. \A t \in Trees(n) : g[t] = f[t]
    BY <2>2, <2>3, <2>4, Zenon DEF Inclusions
  <2>6. ASSUME NEW t \in Trees(n + 1)
        PROVE  InclusionOf(entries, g, i, t) = InclusionOf(entries, f, i, t)
    <3>1. CASE t[2] = 1
      BY <3>1 DEF InclusionOf
    <3>2. CASE t[2] # 1
      <4>1. PICK left \in Trees(n), right \in Trees(n) :
                left = <<t[1], Split(t[2])>> /\ right = <<t[1] + Split(t[2]), t[2] - Split(t[2])>>
        BY <2>1, <3>2, Parts
      <4>2. g[left] = f[left] /\ g[right] = f[right]
        BY <2>5
      <4> QED
        BY <3>2, <4>1, <4>2 DEF InclusionOf
    <3> QED
      BY <3>1, <3>2
  <2>7. Inclusions(entries, g, i, n + 1)
    BY <2>3, <2>6 DEF Inclusions
  <2> QED
    BY <2>1, <2>7
<1> HIDE DEF T
<1>3. N \in T
  <2>1. 0 .. N \subseteq T
    BY <1>1, <1>2, IntervalInduction
  <2> QED
    BY <2>1
<1> QED
  BY <1>3 DEF T

(* What is computed for those trees from the path W.                         *)
Proved(hash, used) == [hash |-> hash, used |-> used]

ProvedOf(root, entry, i, W, t) ==
    LET k == Split(t[2])
        left == i < t[1] + k
        sub == root[IF left THEN <<t[1], k>> ELSE <<t[1] + k, t[2] - k>>]
    IN  IF t[2] = 1 THEN [hash |-> Leaf(entry), used |-> 0]
        ELSE IF sub.hash = Mismatch \/ sub.used >= Len(W)
        THEN [hash |-> Mismatch, used |-> sub.used]
        ELSE [hash |-> IF left THEN Node(sub.hash, W[sub.used + 1])
                               ELSE Node(W[sub.used + 1], sub.hash),
              used |-> sub.used + 1]

(* It is computed for all of them.                                           *)
ProvedRoots(root, entry, i, W, size) ==
    root = [t \in Trees(size) |-> ProvedOf(root, entry, i, W, t)]

(* A function that does so exists for every size.                            *)
LEMMA ProvedRootsExist ==
    ASSUME NEW entry, NEW i, NEW W, NEW N \in Nat
    PROVE  \E root : ProvedRoots(root, entry, i, W, N)
<1> DEFINE T == {n \in 0 .. N : \E root : ProvedRoots(root, entry, i, W, n)}
<1>1. 0 \in T
  <2>1. PICK root : root = [t \in Trees(0) |-> 0]
    OBVIOUS
  <2>2. Trees(0) = {}
    BY DEF Trees
  <2>3. ProvedRoots(root, entry, i, W, 0)
    BY <2>1, <2>2 DEF ProvedRoots
  <2> QED
    BY <2>3
<1>2. ASSUME NEW n \in 0 .. N - 1, n \in T PROVE n + 1 \in T
  <2>1. n \in Nat /\ n + 1 \in 0 .. N
    OBVIOUS
  <2>2. PICK f : ProvedRoots(f, entry, i, W, n)
    BY <1>2
  <2>3. PICK g : g = [t \in Trees(n + 1) |-> ProvedOf(f, entry, i, W, t)]
    OBVIOUS
  <2>4. \A t \in Trees(n) : t \in Trees(n + 1)
    BY <2>1 DEF Trees
  <2>5. \A t \in Trees(n) : g[t] = f[t]
    BY <2>2, <2>3, <2>4, Zenon DEF ProvedRoots
  <2>6. ASSUME NEW t \in Trees(n + 1)
        PROVE  ProvedOf(g, entry, i, W, t) = ProvedOf(f, entry, i, W, t)
    <3>1. CASE t[2] = 1
      BY <3>1 DEF ProvedOf
    <3>2. CASE t[2] # 1
      <4>1. PICK left \in Trees(n), right \in Trees(n) :
                left = <<t[1], Split(t[2])>> /\ right = <<t[1] + Split(t[2]), t[2] - Split(t[2])>>
        BY <2>1, <3>2, Parts
      <4>2. g[left] = f[left] /\ g[right] = f[right]
        BY <2>5
      <4> QED
        BY <3>2, <4>1, <4>2 DEF ProvedOf
    <3> QED
      BY <3>1, <3>2
  <2>7. ProvedRoots(g, entry, i, W, n + 1)
    BY <2>3, <2>6 DEF ProvedRoots
  <2> QED
    BY <2>1, <2>7
<1> HIDE DEF T
<1>3. N \in T
  <2>1. 0 .. N \subseteq T
    BY <1>1, <1>2, IntervalInduction
  <2> QED
    BY <2>1
<1> QED
  BY <1>3 DEF T

(* What such a function gives for a tree and for its right part.             *)
PathAt(path, lo, n) == path[<<lo, n>>]
RightAt(path, lo, n) == PathAt(path, lo + Split(n), n - Split(n))

(* The inclusion path is given by such a function, ...                       *)
LEMMA InclusionPathGiven ==
    ASSUME NEW entries, Len(entries) \in Nat, NEW i
    PROVE  \E path : /\ Inclusions(entries, path, i, Len(entries))
                     /\ InclusionPath(entries, i) = PathAt(path, 1, Len(entries))
<1> DEFINE Equation(path) ==
        path = [t \in Trees(Len(entries)) |->
          LET k == Split(t[2])
          IN  IF t[2] = 1 THEN <<>>
              ELSE IF i < t[1] + k
              THEN Append(path[<<t[1], k>>], SubtreeRoot(entries, t[1] + k, t[2] - k))
              ELSE Append(path[<<t[1] + k, t[2] - k>>], SubtreeRoot(entries, t[1], k))]
<1>1. \E h : Equation(h)
  <2>1. PICK h : Inclusions(entries, h, i, Len(entries))
    BY InclusionsExist
  <2>2. Equation(h)
    BY <2>1 DEF Inclusions, InclusionOf
  <2> HIDE DEF Equation
  <2> QED
    BY <2>2
<1>2. PICK path : path = CHOOSE h : Equation(h)
  OBVIOUS
<1>3. Equation(path)
  <2> HIDE DEF Equation
  <2> QED
    BY <1>1, <1>2
<1>4. Inclusions(entries, path, i, Len(entries))
  BY <1>3 DEF Inclusions, InclusionOf
<1>5. InclusionPath(entries, i) = PathAt(path, 1, Len(entries))
  BY <1>2 DEF InclusionPath, PathAt
<1> QED
  BY <1>4, <1>5

(* ... and so is the root that is computed from it.                          *)
LEMMA RootFromInclusionGiven ==
    ASSUME NEW entry, NEW i, NEW W, NEW N \in Nat
    PROVE  \E root : /\ ProvedRoots(root, entry, i, W, N)
                     /\ RootFromInclusion(entry, i, N, W)
                           = IF root[<<1, N>>].used = Len(W) THEN root[<<1, N>>].hash ELSE Mismatch
<1> DEFINE Equation(root) ==
        root = [t \in Trees(N) |->
          LET k == Split(t[2])
              left == i < t[1] + k
              sub == root[IF left THEN <<t[1], k>> ELSE <<t[1] + k, t[2] - k>>]
          IN  IF t[2] = 1 THEN [hash |-> Leaf(entry), used |-> 0]
              ELSE IF sub.hash = Mismatch \/ sub.used >= Len(W)
              THEN [hash |-> Mismatch, used |-> sub.used]
              ELSE [hash |-> IF left THEN Node(sub.hash, W[sub.used + 1])
                                     ELSE Node(W[sub.used + 1], sub.hash),
                    used |-> sub.used + 1]]
<1>1. \E h : Equation(h)
  <2>1. PICK h : ProvedRoots(h, entry, i, W, N)
    BY ProvedRootsExist
  <2>2. Equation(h)
    BY <2>1 DEF ProvedRoots, ProvedOf
  <2> HIDE DEF Equation
  <2> QED
    BY <2>2
<1>2. PICK root : root = CHOOSE h : Equation(h)
  OBVIOUS
<1>3. Equation(root)
  <2> HIDE DEF Equation
  <2> QED
    BY <1>1, <1>2
<1>4. ProvedRoots(root, entry, i, W, N)
  BY <1>3 DEF ProvedRoots, ProvedOf
<1>5. RootFromInclusion(entry, i, N, W)
         = IF root[<<1, N>>].used = Len(W) THEN root[<<1, N>>].hash ELSE Mismatch
  BY <1>2 DEF RootFromInclusion
<1> QED
  BY <1>4, <1>5

(* The path of a tree of one leaf, ...                                       *)
LEMMA PathAtLeaf ==
    ASSUME NEW entries, NEW i, NEW N \in Nat, NEW path, Inclusions(entries, path, i, N), N >= 1,
           NEW lo \in Nat
    PROVE  PathAt(path, lo, 1) = <<>>
<1>1. PICK t \in Trees(N) : t = <<lo, 1>>
  <2>1. PICK n \in 1 .. N : n = 1
    OBVIOUS
  <2> QED
    BY <2>1 DEF Trees
<1>2. path[t] = InclusionOf(entries, path, i, t)
  BY Zenon DEF Inclusions
<1> QED
  BY <1>1, <1>2 DEF InclusionOf, PathAt

(* ... and of one with two parts, for an entry in the left ...               *)
LEMMA PathAtLeft ==
    ASSUME NEW entries, NEW i, NEW N \in Nat, NEW path, Inclusions(entries, path, i, N),
           NEW lo \in Nat, NEW n \in 1 .. N, n # 1, i < lo + Split(n)
    PROVE  PathAt(path, lo, n) = Longer(PathAt(path, lo, Split(n)), RightRoot(entries, lo, n))
<1>1. PICK t \in Trees(N) : t = <<lo, n>>
  BY DEF Trees
<1>2. path[t] = InclusionOf(entries, path, i, t)
  BY Zenon DEF Inclusions
<1> QED
  BY <1>1, <1>2 DEF InclusionOf, PathAt, Longer, RightRoot

(* ... and in the right one.                                                 *)
LEMMA PathAtRight ==
    ASSUME NEW entries, NEW i, NEW N \in Nat, NEW path, Inclusions(entries, path, i, N),
           NEW lo \in Nat, NEW n \in 1 .. N, n # 1, ~(i < lo + Split(n))
    PROVE  PathAt(path, lo, n) = Longer(RightAt(path, lo, n), LeftRoot(entries, lo, n))
<1>1. PICK t \in Trees(N) : t = <<lo, n>>
  BY DEF Trees
<1>2. path[t] = InclusionOf(entries, path, i, t)
  BY Zenon DEF Inclusions
<1> QED
  BY <1>1, <1>2 DEF InclusionOf, PathAt, RightAt, Longer, LeftRoot

(* The root that is computed for a tree of one leaf, ...                     *)
LEMMA ProvedLeaf ==
    ASSUME NEW entry, NEW i, NEW W, NEW N \in Nat, NEW root, ProvedRoots(root, entry, i, W, N),
           N >= 1, NEW lo \in Nat
    PROVE  PathAt(root, lo, 1) = Proved(Leaf(entry), 0)
<1>1. PICK t \in Trees(N) : t = <<lo, 1>>
  <2>1. PICK n \in 1 .. N : n = 1
    OBVIOUS
  <2> QED
    BY <2>1 DEF Trees
<1>2. root[t] = ProvedOf(root, entry, i, W, t)
  BY Zenon DEF ProvedRoots
<1> QED
  BY <1>1, <1>2 DEF ProvedOf, PathAt, Proved

(* ... and for one with two parts, for an entry in the left ...              *)
LEMMA ProvedLeft ==
    ASSUME NEW entry, NEW i, NEW W, NEW N \in Nat, NEW root, ProvedRoots(root, entry, i, W, N),
           NEW lo \in Nat, NEW n \in 1 .. N, n # 1, i < lo + Split(n),
           NEW hash, hash # Mismatch, NEW u \in Nat, ~(u >= Len(W)),
           PathAt(root, lo, Split(n)) = Proved(hash, u),
           NEW v, v = u + 1, NEW next, next = W[v]
    PROVE  PathAt(root, lo, n) = Proved(Node(hash, next), v)
<1>1. PICK t \in Trees(N) : t = <<lo, n>>
  BY DEF Trees
<1>2. root[t] = ProvedOf(root, entry, i, W, t)
  BY Zenon DEF ProvedRoots
<1>3. PICK sub : sub = root[<<lo, Split(n)>>]
  OBVIOUS
<1>4. sub.hash = hash /\ sub.used = u
  BY <1>3 DEF PathAt, Proved
<1>5. ProvedOf(root, entry, i, W, t) = [hash |-> Node(sub.hash, W[sub.used + 1]),
                                              used |-> sub.used + 1]
  BY <1>1, <1>3, <1>4 DEF ProvedOf
<1> QED
  BY <1>1, <1>2, <1>4, <1>5 DEF PathAt, Proved

(* ... and in the right one.                                                 *)
LEMMA ProvedRight ==
    ASSUME NEW entry, NEW i, NEW W, NEW N \in Nat, NEW root, ProvedRoots(root, entry, i, W, N),
           NEW lo \in Nat, NEW n \in 1 .. N, n # 1, ~(i < lo + Split(n)),
           NEW hash, hash # Mismatch, NEW u \in Nat, ~(u >= Len(W)),
           RightAt(root, lo, n) = Proved(hash, u),
           NEW v, v = u + 1, NEW next, next = W[v]
    PROVE  PathAt(root, lo, n) = Proved(Node(next, hash), v)
<1>1. PICK t \in Trees(N) : t = <<lo, n>>
  BY DEF Trees
<1>2. root[t] = ProvedOf(root, entry, i, W, t)
  BY Zenon DEF ProvedRoots
<1>3. PICK sub : sub = root[<<lo + Split(n), n - Split(n)>>]
  OBVIOUS
<1>4. sub.hash = hash /\ sub.used = u
  BY <1>3 DEF PathAt, RightAt, Proved
<1>5. ProvedOf(root, entry, i, W, t) = [hash |-> Node(W[sub.used + 1], sub.hash),
                                              used |-> sub.used + 1]
  BY <1>1, <1>3, <1>4 DEF ProvedOf
<1> QED
  BY <1>1, <1>2, <1>4, <1>5 DEF PathAt, Proved

(* A path that begins another one.                                           *)
Begins(W, Q) == Len(Q) <= Len(W) /\ \A j \in 1 .. Len(Q) : W[j] = Q[j]

(* What begins with a longer path begins with the path and the hash.         *)
LEMMA BeginsLonger ==
    ASSUME NEW W, IsPath(W), NEW Q, IsPath(Q), NEW hash, Begins(W, Append(Q, hash))
    PROVE  /\ Begins(W, Q) /\ Len(Q) \in Nat /\ ~(Len(Q) >= Len(W))
           /\ W[Len(Q) + 1] = hash /\ Len(Append(Q, hash)) = Len(Q) + 1
<1>1. PICK longer : longer = Append(Q, hash)
  OBVIOUS
<1>2. PICK q \in Nat : q = Len(Q)
  BY PathFacts
<1>3. PICK w \in Nat : w = Len(W)
  BY PathFacts
<1>4. /\ Len(longer) = q + 1 /\ longer[q + 1] = hash
      /\ \A j \in 1 .. q : longer[j] = Q[j]
  BY <1>1, <1>2, LongerPath
<1>5. q + 1 <= w /\ \A j \in 1 .. q + 1 : W[j] = longer[j]
  BY <1>1, <1>3, <1>4 DEF Begins
<1>6. \A j \in 1 .. q : j \in 1 .. q + 1
  BY <1>2
<1>7. q + 1 \in 1 .. q + 1
  BY <1>2
<1> QED
  BY <1>1, <1>2, <1>3, <1>4, <1>5, <1>6, <1>7 DEF Begins

(* The entries of a log with another one in place i.                         *)
Replaced(entries, i, entry) == [j \in Nat |-> IF j = i THEN entry ELSE entries[j]]

(* A part without that place has the same root.                              *)
LEMMA ReplacedOutside ==
    ASSUME NEW entries, NEW i \in Nat, NEW entry, NEW lo \in Nat, NEW n \in Nat \ {0},
           i \notin lo .. lo + n - 1
    PROVE  SubtreeRoot(Replaced(entries, i, entry), lo, n) = SubtreeRoot(entries, lo, n)
<1>1. PICK E : E = Replaced(entries, i, entry)
  OBVIOUS
<1>2. ASSUME NEW j \in lo .. lo + n - 1 PROVE E[j] = entries[j]
  <2>1. j \in Nat /\ j # i
    OBVIOUS
  <2> QED
    BY <1>1, <2>1 DEF Replaced
<1>3. SubtreeRoot(E, lo, n) = SubtreeRoot(entries, lo, n)
  BY <1>2, RootsDetermine
<1> QED
  BY <1>1, <1>3

(* No root is a mismatch.                                                    *)
LEMMA RootIsNoMismatch ==
    ASSUME NEW entries, NEW lo \in Nat, NEW n \in Nat \ {0}
    PROVE  SubtreeRoot(entries, lo, n) # Mismatch
  BY RootEquation, HashFacts

(* From a path that begins with the one of a tree, the root of the tree with *)
(* the entry in its place is computed.                                       *)
Included(entries, entry, i, path, root, W, lo, n) ==
    /\ IsPath(PathAt(path, lo, n))
    /\ i \in lo .. lo + n - 1 /\ Begins(W, PathAt(path, lo, n))
          => PathAt(root, lo, n)
                = Proved(SubtreeRoot(Replaced(entries, i, entry), lo, n), Len(PathAt(path, lo, n)))

(* That holds if it does of the left part, for an entry in it, ...           *)
LEMMA IncludedLeft ==
    ASSUME NEW entries, NEW i \in Nat, NEW entry, NEW W, IsPath(W), NEW N \in Nat,
           NEW path, Inclusions(entries, path, i, N),
           NEW root, ProvedRoots(root, entry, i, W, N),
           NEW lo \in Nat, NEW n \in 1 .. N, n # 1, i < lo + Split(n),
           Included(entries, entry, i, path, root, W, lo, Split(n))
    PROVE  Included(entries, entry, i, path, root, W, lo, n)
<1>1. n \in Nat /\ n >= 2
  OBVIOUS
<1>2. PICK k : k = Split(n) /\ k \in 1 .. n - 1 /\ n - k \in 1 .. n - 1
  BY <1>1, SplitFacts
<1>3. PICK Q : Q = PathAt(path, lo, k)
  OBVIOUS
<1>4. PICK hash : hash = RightRoot(entries, lo, n)
  OBVIOUS
<1>5. IsPath(Q)
  BY <1>2, <1>3 DEF Included
<1>6. PICK longer : longer = Append(Q, hash)
  OBVIOUS
<1>7. PathAt(path, lo, n) = longer
  <2>1. PathAt(path, lo, n) = Longer(PathAt(path, lo, Split(n)), RightRoot(entries, lo, n))
    BY PathAtLeft
  <2> QED
    BY <1>2, <1>3, <1>4, <1>6, <2>1 DEF Longer
<1>8. IsPath(longer)
  BY <1>5, <1>6, LongerPath
<1>9. ASSUME i \in lo .. lo + n - 1, Begins(W, longer)
      PROVE  PathAt(root, lo, n)
                = Proved(SubtreeRoot(Replaced(entries, i, entry), lo, n), Len(longer))
  <2>1. PICK E : E = Replaced(entries, i, entry)
    OBVIOUS
  <2>2. PICK u \in Nat : u = Len(Q)
    BY <1>5, PathFacts
  <2>3. Begins(W, Q) /\ ~(u >= Len(W)) /\ W[u + 1] = hash /\ Len(longer) = u + 1
    BY <1>5, <1>6, <1>9, <2>2, BeginsLonger
  <2>4. PICK left : left = SubtreeRoot(E, lo, k)
    OBVIOUS
  <2>5. PathAt(root, lo, Split(n)) = Proved(left, u)
    <3>1. i \in lo .. lo + k - 1
      BY <1>2, <1>9
    <3> QED
      BY <1>2, <1>3, <2>1, <2>2, <2>3, <2>4, <3>1 DEF Included
  <2>6. left # Mismatch
    <3>1. k \in Nat \ {0}
      BY <1>2
    <3> QED
      BY <2>4, <3>1, RootIsNoMismatch
  <2>7. PICK v : v = u + 1
    OBVIOUS
  <2>8. hash = W[v]
    BY <2>3, <2>7
  <2>9. PathAt(root, lo, n) = Proved(Node(left, hash), v)
    BY <2>3, <2>5, <2>6, <2>7, <2>8, ProvedLeft
  <2>10. SubtreeRoot(E, lo + k, n - k) = hash
    <3>1. PICK x \in Nat \ {0} : x = n - k
      BY <1>2
    <3>2. PICK l \in Nat : l = lo + k
      BY <1>2
    <3>3. i \notin l .. l + x - 1
      BY <1>2, <3>1, <3>2
    <3>4. SubtreeRoot(E, l, x) = SubtreeRoot(entries, l, x)
      BY <2>1, <3>3, ReplacedOutside
    <3> QED
      BY <1>2, <1>4, <3>1, <3>2, <3>4 DEF RightRoot
  <2>11. SubtreeRoot(E, lo, n) = Node(left, hash)
    BY <1>1, <1>2, <2>4, <2>10, RootOfNode DEF LeftRoot, RightRoot
  <2> QED
    BY <2>1, <2>3, <2>7, <2>9, <2>11
<1> QED
  BY <1>7, <1>8, <1>9 DEF Included

(* ... if it does of the right part, for an entry in that, ...               *)
LEMMA IncludedRight ==
    ASSUME NEW entries, NEW i \in Nat, NEW entry, NEW W, IsPath(W), NEW N \in Nat,
           NEW path, Inclusions(entries, path, i, N),
           NEW root, ProvedRoots(root, entry, i, W, N),
           NEW lo \in Nat, NEW n \in 1 .. N, n # 1, ~(i < lo + Split(n)),
           Included(entries, entry, i, path, root, W, lo + Split(n), n - Split(n))
    PROVE  Included(entries, entry, i, path, root, W, lo, n)
<1>1. n \in Nat /\ n >= 2
  OBVIOUS
<1>2. PICK k : k = Split(n) /\ k \in 1 .. n - 1 /\ n - k \in 1 .. n - 1
  BY <1>1, SplitFacts
<1>3. PICK x \in Nat \ {0} : x = n - k
  BY <1>2
<1>4. PICK l \in Nat : l = lo + k
  BY <1>2
<1>5. PICK Q : Q = PathAt(path, l, x)
  OBVIOUS
<1>6. PICK hash : hash = LeftRoot(entries, lo, n)
  OBVIOUS
<1>7. IsPath(Q) /\ Included(entries, entry, i, path, root, W, l, x)
  BY <1>2, <1>3, <1>4, <1>5 DEF Included
<1>8. PICK longer : longer = Append(Q, hash)
  OBVIOUS
<1>9. PathAt(path, lo, n) = longer
  <2>1. PathAt(path, lo, n) = Longer(RightAt(path, lo, n), LeftRoot(entries, lo, n))
    BY PathAtRight
  <2> QED
    BY <1>2, <1>3, <1>4, <1>5, <1>6, <1>8, <2>1 DEF Longer, RightAt
<1>10. IsPath(longer)
  BY <1>7, <1>8, LongerPath
<1>11. ASSUME i \in lo .. lo + n - 1, Begins(W, longer)
       PROVE  PathAt(root, lo, n)
                 = Proved(SubtreeRoot(Replaced(entries, i, entry), lo, n), Len(longer))
  <2>1. PICK E : E = Replaced(entries, i, entry)
    OBVIOUS
  <2>2. PICK u \in Nat : u = Len(Q)
    BY <1>7, PathFacts
  <2>3. Begins(W, Q) /\ ~(u >= Len(W)) /\ W[u + 1] = hash /\ Len(longer) = u + 1
    BY <1>7, <1>8, <1>11, <2>2, BeginsLonger
  <2>4. PICK right : right = SubtreeRoot(E, l, x)
    OBVIOUS
  <2>5. RightAt(root, lo, n) = Proved(right, u)
    <3>1. i \in l .. l + x - 1
      BY <1>2, <1>3, <1>4, <1>11
    <3>2. PathAt(root, l, x) = Proved(right, u)
      BY <1>5, <1>7, <2>1, <2>2, <2>3, <2>4, <3>1 DEF Included
    <3> QED
      BY <1>2, <1>3, <1>4, <3>2 DEF RightAt
  <2>6. right # Mismatch
    BY <2>4, RootIsNoMismatch
  <2>7. PICK v : v = u + 1
    OBVIOUS
  <2>8. hash = W[v]
    BY <2>3, <2>7
  <2>9. PathAt(root, lo, n) = Proved(Node(hash, right), v)
    BY <2>3, <2>5, <2>6, <2>7, <2>8, ProvedRight
  <2>10. SubtreeRoot(E, lo, k) = hash
    <3>1. k \in Nat \ {0} /\ i \notin lo .. lo + k - 1
      BY <1>2
    <3>2. SubtreeRoot(E, lo, k) = SubtreeRoot(entries, lo, k)
      BY <2>1, <3>1, ReplacedOutside
    <3> QED
      BY <1>2, <1>6, <3>2 DEF LeftRoot
  <2>11. SubtreeRoot(E, lo, n) = Node(hash, right)
    BY <1>1, <1>2, <1>3, <1>4, <2>4, <2>10, RootOfNode DEF LeftRoot, RightRoot
  <2> QED
    BY <2>1, <2>3, <2>7, <2>9, <2>11
<1> QED
  BY <1>9, <1>10, <1>11 DEF Included

(* ... and so of all trees.                                                  *)
LEMMA AllIncluded ==
    ASSUME NEW entries, NEW i \in Nat, NEW entry, NEW W, IsPath(W), NEW N \in Nat,
           NEW path, Inclusions(entries, path, i, N),
           NEW root, ProvedRoots(root, entry, i, W, N), NEW lo \in Nat, NEW n \in 1 .. N
    PROVE  Included(entries, entry, i, path, root, W, lo, n)
<1> DEFINE Claim(l, x) == Included(entries, entry, i, path, root, W, l, x)
           T == {x \in 0 .. N : \A y \in 1 .. x, l \in Nat : Claim(l, y)}
<1>1. 0 \in T
  OBVIOUS
<1>2. ASSUME NEW x \in 0 .. N - 1, x \in T PROVE x + 1 \in T
  <2>1. x + 1 \in 1 .. N /\ x + 1 \in 0 .. N
    OBVIOUS
  <2>2. PICK z \in 1 .. N : z = x + 1
    BY <2>1
  <2>3. ASSUME NEW l \in Nat PROVE Claim(l, z)
    <3>1. CASE z = 1
      <4>1. PathAt(path, l, 1) = <<>> /\ IsPath(<<>>) /\ Len(<<>>) = 0
        BY PathAtLeaf, PathFacts
      <4>2. PathAt(root, l, 1) = Proved(Leaf(entry), 0)
        BY ProvedLeaf
      <4>3. ASSUME i \in l .. l + 1 - 1
            PROVE  SubtreeRoot(Replaced(entries, i, entry), l, 1) = Leaf(entry)
        <5>1. i = l
          BY <4>3
        <5>2. PICK E : E = Replaced(entries, i, entry)
          OBVIOUS
        <5>3. E[l] = entry
          BY <5>1, <5>2 DEF Replaced
        <5>4. SubtreeRoot(E, l, 1) = Leaf(E[l])
          BY RootEquation
        <5> QED
          BY <5>2, <5>3, <5>4
      <4> QED
        BY <3>1, <4>1, <4>2, <4>3 DEF Included
    <3>2. CASE z # 1
      <4>1. PICK k : k = Split(z) /\ k \in 1 .. z - 1 /\ z - k \in 1 .. z - 1
        <5>1. z \in Nat /\ z >= 2
          BY <3>2
        <5> QED
          BY <5>1, SplitFacts
      <4>2. k \in 1 .. x /\ z - k \in 1 .. x /\ l + k \in Nat
        BY <2>2, <4>1
      <4>3. Claim(l, Split(z)) /\ Claim(l + Split(z), z - Split(z))
        <5> HIDE DEF Claim
        <5> QED
          BY <1>2, <4>1, <4>2
      <4> QED
        BY <3>2, <4>3, IncludedLeft, IncludedRight
    <3> QED
      BY <3>1, <3>2
  <2>4. \A y \in 1 .. z : y = z \/ y \in 1 .. x
    BY <2>2
  <2>5. \A y \in 1 .. z, l \in Nat : Claim(l, y)
    <3> HIDE DEF Claim
    <3> QED
      BY <1>2, <2>3, <2>4
  <2> QED
    BY <2>1, <2>2, <2>5
<1> HIDE DEF T
<1>3. N \in T
  <2>1. 0 .. N \subseteq T
    BY <1>1, <1>2, IntervalInduction
  <2> QED
    BY <2>1
<1> QED
  BY <1>3 DEF T

(* The inclusion path of a place proves the entry of that place and no other.*)
LEMMA InclusionExact ==
    ASSUME NEW entries, NEW N \in Nat \ {0}, Len(entries) = N, NEW i \in 1 .. N, NEW entry
    PROVE  RootFromInclusion(entry, i, N, InclusionPath(entries, i)) = MerkleRoot(entries)
              <=> entry = entries[i]
<1>1. PICK path : /\ Inclusions(entries, path, i, N)
                  /\ InclusionPath(entries, i) = PathAt(path, 1, N)
  BY InclusionPathGiven
<1>2. PICK W : W = InclusionPath(entries, i)
  OBVIOUS
<1>3. PICK root : /\ ProvedRoots(root, entry, i, W, N)
                  /\ RootFromInclusion(entry, i, N, W)
                        = IF root[<<1, N>>].used = Len(W) THEN root[<<1, N>>].hash ELSE Mismatch
  BY RootFromInclusionGiven
<1>4. PICK E : E = Replaced(entries, i, entry)
  OBVIOUS
<1>5. IsPath(W)
  <2>1. PICK some : ProvedRoots(some, entry, i, <<>>, N) /\ IsPath(<<>>)
    BY ProvedRootsExist, PathFacts
  <2>2. PICK n \in 1 .. N : n = N
    OBVIOUS
  <2>3. Included(entries, entry, i, path, some, <<>>, 1, n)
    BY <1>1, <2>1, AllIncluded
  <2> QED
    BY <1>1, <1>2, <2>2, <2>3 DEF Included
<1>6. root[<<1, N>>] = Proved(SubtreeRoot(E, 1, N), Len(W))
  <2>1. PICK n \in 1 .. N : n = N
    OBVIOUS
  <2>2. Included(entries, entry, i, path, root, W, 1, n)
    BY <1>1, <1>3, <1>5, AllIncluded
  <2>3. Begins(W, W)
    <3>1. Len(W) \in Nat
      BY <1>5, PathFacts
    <3> QED
      BY <3>1 DEF Begins
  <2>4. i \in 1 .. 1 + n - 1 /\ PathAt(path, 1, n) = W
    BY <1>1, <1>2, <2>1
  <2>5. PathAt(root, 1, n) = Proved(SubtreeRoot(E, 1, n), Len(W))
    BY <1>4, <2>2, <2>3, <2>4 DEF Included
  <2> QED
    BY <2>1, <2>5 DEF PathAt
<1>7. RootFromInclusion(entry, i, N, W) = SubtreeRoot(E, 1, N)
  <2>1. PICK hash : hash = SubtreeRoot(E, 1, N)
    OBVIOUS
  <2>2. root[<<1, N>>].used = Len(W) /\ root[<<1, N>>].hash = hash
    BY <1>6, <2>1 DEF Proved
  <2> QED
    BY <1>3, <2>1, <2>2
<1>8. SubtreeRoot(E, 1, N) = SubtreeRoot(entries, 1, N) <=> SameEntries(E, entries, N)
  BY SameRoots
<1>9. SameEntries(E, entries, N) <=> entry = entries[i]
  <2>1. \A j \in 1 .. N : E[j] = IF j = i THEN entry ELSE entries[j]
    <3>1. \A j \in 1 .. N : j \in Nat
      OBVIOUS
    <3> QED
      BY <1>4, <3>1 DEF Replaced
  <2> QED
    BY <2>1 DEF SameEntries
<1> QED
  BY <1>2, <1>7, <1>8, <1>9 DEF MerkleRoot

-----------------------------------------------------------------------------
(* Checkpoints.                                                              *)

Entry == Nat \X Nat

(* What create_transparency_checkpoint issues.                               *)
Checkpoint ==
    {[entries |-> e, root |-> MerkleRoot(e), issued |-> n] :
        e \in Seq(Entry) \ {<<>>}, n \in Nat}

-----------------------------------------------------------------------------
(* The order of checkpoints of one log.                                      *)

Prefix(c, d) == Size(c) <= Size(d) /\ Extends(d, c)

(* A checkpoint has the fields of its log.                                   *)
LEMMA CheckpointFields ==
    ASSUME NEW c \in Checkpoint
    PROVE  c.entries \in Seq(Entry) /\ Size(c) \in Nat
<1>1. c.entries \in Seq(Entry)
  BY DEF Checkpoint
<1> QED
  BY <1>1, LenProperties DEF Size

(* No checkpoint is of an empty log.                                         *)
LEMMA CheckpointSize ==
    ASSUME NEW c \in Checkpoint
    PROVE  Size(c) \in Nat \ {0}
<1>1. c.entries \in Seq(Entry) /\ c.entries # <<>>
  BY DEF Checkpoint
<1> QED
  BY <1>1, EmptySeq, LenProperties DEF Size

(* A prefix, entry by entry.                                                 *)
LEMMA ExtendsEntries ==
    ASSUME NEW c \in Checkpoint, NEW d \in Checkpoint, Size(c) <= Size(d)
    PROVE  Extends(d, c) <=> \A i \in 1 .. Size(c) : c.entries[i] = d.entries[i]
<1> DEFINE s == SubSeq(d.entries, 1, Size(c))
<1>1. /\ c.entries \in Seq(Entry) /\ d.entries \in Seq(Entry)
      /\ Size(c) \in Nat /\ Size(d) \in Nat
  BY CheckpointFields
<1>2. \A i \in 1 .. Size(c) : d.entries[i] \in Entry
  BY <1>1, ElementOfSeq DEF Size
<1>3. /\ s \in Seq(Entry) /\ Len(s) = Size(c)
      /\ \A i \in 1 .. Size(c) : s[i] = d.entries[i]
  <2>1. /\ s \in Seq(Entry)
        /\ Len(s) = IF 1 <= Size(c) THEN Size(c) - 1 + 1 ELSE 0
        /\ \A i \in 1 .. Size(c) - 1 + 1 : s[i] = d.entries[1 + i - 1]
    BY <1>1, <1>2, SubSeqProperties
  <2> QED
    BY <1>1, <2>1
<1> HIDE DEF s
<1>4. s = c.entries <=> \A i \in 1 .. Size(c) : c.entries[i] = s[i]
  BY <1>1, <1>3, SeqEqual DEF Size
<1> QED
  BY <1>3, <1>4 DEF Extends, s

(* The root of a log determines its entries                                  *)
(* (_merkle_root_from_leaf_hashes).                                          *)
LEMMA RootsIdentify ==
    ASSUME NEW c \in Checkpoint, NEW d \in Checkpoint, Size(c) = Size(d), c.root = d.root
    PROVE  c.entries = d.entries
<1>1. /\ c.entries \in Seq(Entry) /\ c.root = MerkleRoot(c.entries)
      /\ d.entries \in Seq(Entry) /\ d.root = MerkleRoot(d.entries)
  BY DEF Checkpoint
<1>2. PICK m \in Nat \ {0} : m = Len(c.entries) /\ m = Len(d.entries)
  BY CheckpointSize DEF Size
<1>3. SubtreeRoot(c.entries, 1, m) = SubtreeRoot(d.entries, 1, m)
  BY <1>1, <1>2 DEF MerkleRoot
<1>4. \A i \in 1 .. m : c.entries[i] = d.entries[i]
  BY <1>3, SameRoots DEF SameEntries
<1> QED
  BY <1>1, <1>2, <1>4, SeqEqual

(* A consistency proof made by the log verifies exactly from a prefix        *)
(* (generate_consistency_path, verify_consistency_path).                     *)
LEMMA ProofsVerifyPrefixes ==
    ASSUME NEW c \in Checkpoint, NEW d \in Checkpoint, Size(c) <= Size(d)
    PROVE  ProofVerifies(c, d) <=> Extends(d, c)
<1>1. c.root = MerkleRoot(c.entries) /\ d.root = MerkleRoot(d.entries)
  BY DEF Checkpoint
<1>2. PICK m \in Nat \ {0} : m = Size(c) /\ m = Len(c.entries)
  BY CheckpointSize DEF Size
<1>3. PICK N \in Nat : N = Size(d) /\ N = Len(d.entries)
  BY CheckpointSize DEF Size
<1>4. VerifyConsistencyPath(m, N, MerkleRoot(c.entries), MerkleRoot(d.entries),
                            ConsistencyPath(d.entries, m))
         <=> SameEntries(c.entries, d.entries, m)
  BY <1>2, <1>3, ConsistencyExact
<1> QED
  BY <1>1, <1>2, <1>3, <1>4, ExtendsEntries DEF ProofVerifies, SameEntries

(* Checkpoints of the same entries are prefixes of each other.               *)
LEMMA PrefixItself ==
    ASSUME NEW c \in Checkpoint, NEW d \in Checkpoint, c.entries = d.entries
    PROVE  Prefix(c, d)
<1>1. Size(c) = Size(d) /\ Size(c) \in Nat
  BY CheckpointFields DEF Size
<1> QED
  BY <1>1, ExtendsEntries DEF Prefix

(* A prefix of a prefix is one.                                              *)
LEMMA PrefixTransitive ==
    ASSUME NEW c \in Checkpoint, NEW d \in Checkpoint, NEW e \in Checkpoint,
           Prefix(c, d), Prefix(d, e)
    PROVE  Prefix(c, e)
<1>1. Size(c) \in Nat /\ Size(d) \in Nat /\ Size(e) \in Nat
  BY CheckpointFields
<1>2. Size(c) <= Size(d) /\ Size(d) <= Size(e) /\ Size(c) <= Size(e)
  BY <1>1 DEF Prefix
<1>3. /\ \A i \in 1 .. Size(c) : c.entries[i] = d.entries[i]
      /\ \A i \in 1 .. Size(d) : d.entries[i] = e.entries[i]
  BY <1>2, ExtendsEntries DEF Prefix
<1>4. \A i \in 1 .. Size(c) : c.entries[i] = e.entries[i]
  BY <1>1, <1>2, <1>3
<1> QED
  BY <1>2, <1>4, ExtendsEntries DEF Prefix

(* Two checkpoints of one log do not contradict each other.                  *)
LEMMA PrefixesConsistent ==
    ASSUME NEW c \in Checkpoint, NEW d \in Checkpoint, NEW e \in Checkpoint,
           Prefix(c, e), Prefix(d, e)
    PROVE  Consistent(c, d)
<1>1. Size(c) \in Nat /\ Size(d) \in Nat /\ Size(e) \in Nat
  BY CheckpointFields
<1>2. Size(c) <= Size(e) /\ Size(d) <= Size(e)
  BY DEF Prefix
<1>3. /\ \A i \in 1 .. Size(c) : c.entries[i] = e.entries[i]
      /\ \A i \in 1 .. Size(d) : d.entries[i] = e.entries[i]
  BY <1>2, ExtendsEntries DEF Prefix
<1>4. CASE Size(c) <= Size(d)
  <2>1. \A i \in 1 .. Size(c) : c.entries[i] = d.entries[i]
    BY <1>1, <1>3, <1>4
  <2> QED
    BY <1>4, <2>1, ExtendsEntries DEF Consistent
<1>5. CASE ~(Size(c) <= Size(d))
  <2>1. Size(d) <= Size(c) /\ \A i \in 1 .. Size(d) : d.entries[i] = c.entries[i]
    BY <1>1, <1>3, <1>5
  <2> QED
    BY <1>5, <2>1, ExtendsEntries DEF Consistent
<1> QED
  BY <1>4, <1>5

(* Whether two checkpoints contradict each other depends on their logs only. *)
LEMMA ConsistentEntries ==
    ASSUME NEW c, NEW d, NEW e, NEW f, c.entries = e.entries, d.entries = f.entries
    PROVE  Consistent(c, d) <=> Consistent(e, f)
  BY DEF Consistent, Extends, Size

-----------------------------------------------------------------------------
(* The invariant.                                                            *)

MaybeCheckpoint == Checkpoint \union {Missing}

TypeInv ==
    /\ ledger \in Seq(Entry) /\ restores \in Nat
    /\ checkpoints \subseteq Checkpoint /\ IsFiniteSet(checkpoints)
    /\ statements \subseteq [witness : Witnesses, checkpoint : Checkpoint]
    /\ witnessed \in [Witnesses -> MaybeCheckpoint]
    /\ signing \in [Witnesses -> MaybeCheckpoint]
    /\ interrupted \subseteq Witnesses
    /\ remembered \in MaybeCheckpoint
    /\ views \in [Verifier -> [checkpoint : Checkpoint, old : MaybeCheckpoint]
                                  \union {Missing}]

(* The last checkpoint a witness signed, whether it is stored yet or not.    *)
LastSigned(w) == IF signing[w] = Missing THEN witnessed[w] ELSE signing[w]

(* Whatever a witness that was never interrupted has signed is a prefix of   *)
(* what it signed last.                                                      *)
SignInv ==
    \A s \in statements :
        \/ s.witness \in interrupted
        \/ LastSigned(s.witness) # Missing /\ Prefix(s.checkpoint, LastSigned(s.witness))

(* A verifier that has verified a proof has verified it from a prefix.       *)
CallInv ==
    \A v \in Verifier :
        views[v] # Missing /\ views[v].old # Missing
            => Prefix(views[v].old, views[v].checkpoint)

IInv == TypeInv /\ SignInv /\ CallInv

-----------------------------------------------------------------------------
(* The log grows, is restored and is certified by a checkpoint.              *)
LEMMA LogKeepsInv ==
    ASSUME IInv,
           RegisterEntry \/ (\E size \in 0 .. Len(ledger) - 1 : RestoreBackup(size)) \/ CreateCheckpoint
    PROVE  IInv'
<1>1. ledger \in Seq(Entry) /\ restores \in Nat /\ Len(ledger) \in Nat
  BY LenProperties DEF IInv, TypeInv
<1>2. UNCHANGED <<witnessVars, verifierVars>>
  BY DEF RegisterEntry, RestoreBackup, CreateCheckpoint
<1>3. SignInv' /\ CallInv'
  BY <1>2 DEF IInv, SignInv, CallInv, LastSigned, Prefix, Size, Extends,
              witnessVars, verifierVars
<1>4. CASE RegisterEntry
  <2>1. <<Len(ledger) + 1, restores>> \in Entry
    BY <1>1 DEF Entry
  <2>2. ledger' \in Seq(Entry)
    BY <1>1, <1>4, <2>1, AppendProperties DEF RegisterEntry
  <2> QED
    BY <1>2, <1>3, <1>4, <2>2
       DEF RegisterEntry, IInv, TypeInv, witnessVars, verifierVars
<1>5. ASSUME NEW size \in 0 .. Len(ledger) - 1, RestoreBackup(size) PROVE IInv'
  <2>1. \A i \in 1 .. size : ledger[i] \in Entry
    BY <1>1, ElementOfSeq
  <2>2. ledger' \in Seq(Entry)
    BY <1>1, <1>5, <2>1, SubSeqProperties DEF RestoreBackup
  <2> QED
    BY <1>1, <1>2, <1>3, <1>5, <2>2
       DEF RestoreBackup, IInv, TypeInv, witnessVars, verifierVars
<1>6. CASE CreateCheckpoint
  <2>1. PICK c : c = [entries |-> ledger, root |-> MerkleRoot(ledger),
                      issued |-> Cardinality(checkpoints)]
    OBVIOUS
  <2>2. checkpoints' = checkpoints \union {c} /\ UNCHANGED <<ledger, restores>>
    BY <1>6, <2>1 DEF CreateCheckpoint
  <2>3. IsFiniteSet(checkpoints) /\ Cardinality(checkpoints) \in Nat
    BY FS_CardinalityType DEF IInv, TypeInv
  <2>4. c \in Checkpoint
    BY <1>1, <1>6, <2>1, <2>3 DEF Checkpoint, CreateCheckpoint
  <2>5. IsFiniteSet(checkpoints')
    BY <2>2, <2>3, FS_AddElement
  <2> QED
    BY <1>2, <1>3, <2>2, <2>4, <2>5 DEF IInv, TypeInv, witnessVars, verifierVars
<1> QED
  BY <1>4, <1>5, <1>6

(* What a witness may sign extends what it has stored.                       *)
LEMMA MaySignExtends ==
    ASSUME NEW c \in Checkpoint, NEW d \in Checkpoint,
           d # Missing, MaySign(c, d)
    PROVE  Prefix(d, c)
<1>1. Size(c) \in Nat /\ Size(d) \in Nat
  BY CheckpointFields
<1>2. CASE SameCheckpoint(c, d)
  BY <1>2, RootsIdentify, PrefixItself DEF SameCheckpoint
<1>3. CASE Size(c) > Size(d) /\ ProofVerifies(d, c)
  BY <1>1, <1>3, ProofsVerifyPrefixes DEF Prefix
<1> QED
  BY <1>2, <1>3 DEF MaySign

(* A witness signs only what extends the checkpoint in its state
   (create_transparency_witness_statement). *)
LEMMA SignKeepsInv ==
    ASSUME Missing \notin Checkpoint, IInv,
           NEW w \in Witnesses, NEW c \in checkpoints, SignStatement(w, c)
    PROVE  IInv'
<1>1. /\ c \in Checkpoint /\ c # Missing /\ signing[w] = Missing
      /\ signing' = IF c = witnessed[w] THEN signing ELSE [signing EXCEPT ![w] = c]
      /\ statements' = statements \union {[witness |-> w, checkpoint |-> c]}
      /\ UNCHANGED <<ledger, restores, checkpoints, witnessed, interrupted, remembered, views>>
  BY DEF IInv, TypeInv, SignStatement, logVars, verifierVars
<1>2. TypeInv'
  BY <1>1 DEF IInv, TypeInv, MaybeCheckpoint
<1>3. CallInv'
  BY <1>1 DEF IInv, CallInv, Prefix, Extends, Size
<1>4. LastSigned(w)' = c
  BY <1>1 DEF IInv, TypeInv, LastSigned
<1>5. \A u \in Witnesses : u # w => LastSigned(u)' = LastSigned(u)
  BY <1>1 DEF IInv, TypeInv, LastSigned
<1>6. ASSUME NEW s \in statements'
      PROVE  \/ s.witness \in interrupted
             \/ LastSigned(s.witness)' # Missing /\ Prefix(s.checkpoint, LastSigned(s.witness)')
  <2>1. s \in [witness : Witnesses, checkpoint : Checkpoint]
    BY <1>2 DEF TypeInv
  <2>2. CASE s = [witness |-> w, checkpoint |-> c]
    BY <1>1, <1>4, <2>2, PrefixItself
  <2>3. CASE s \in statements /\ s.witness # w
    BY <1>5, <2>1, <2>3 DEF IInv, SignInv
  <2>4. CASE s \in statements /\ s.witness = w /\ s.witness \notin interrupted
    <3>1. /\ witnessed[w] # Missing /\ witnessed[w] \in Checkpoint
          /\ Prefix(s.checkpoint, witnessed[w])
      BY <1>1, <2>4 DEF IInv, SignInv, TypeInv, LastSigned, MaybeCheckpoint
    <3>2. MaySign(c, witnessed[w])
      BY DEF SignStatement
    <3>3. Prefix(witnessed[w], c)
      BY <1>1, <3>1, <3>2, MaySignExtends
    <3>4. Prefix(s.checkpoint, c)
      BY <1>1, <2>1, <3>1, <3>3, PrefixTransitive
    <3> QED
      BY <1>1, <1>4, <2>4, <3>4
  <2> QED
    BY <1>1, <2>2, <2>3, <2>4
<1>7. SignInv'
  BY <1>1, <1>6 DEF SignInv, Prefix, Extends, Size
<1> QED
  BY <1>2, <1>3, <1>7 DEF IInv

(* The state a witness saves is the checkpoint it signed last.               *)
LEMMA SaveKeepsInv ==
    ASSUME IInv, NEW w \in Witnesses, SaveState(w)
    PROVE  IInv'
<1>1. /\ signing[w] # Missing
      /\ witnessed' = [witnessed EXCEPT ![w] = signing[w]]
      /\ signing' = [signing EXCEPT ![w] = Missing]
      /\ UNCHANGED <<ledger, restores, checkpoints, statements, interrupted, remembered, views>>
  BY DEF SaveState, logVars, verifierVars
<1>2. TypeInv'
  BY <1>1 DEF IInv, TypeInv, MaybeCheckpoint
<1>3. \A u \in Witnesses : LastSigned(u)' = LastSigned(u)
  BY <1>1 DEF IInv, TypeInv, LastSigned
<1>4. \A s \in statements : s.witness \in Witnesses
  BY DEF IInv, TypeInv
<1>5. SignInv'
  BY <1>1, <1>3, <1>4 DEF IInv, SignInv, Prefix, Extends, Size
<1>6. CallInv'
  BY <1>1 DEF IInv, CallInv, Prefix, Extends, Size
<1> QED
  BY <1>2, <1>5, <1>6 DEF IInv

(* A witness stopped between signing and saving is remembered as such.       *)
LEMMA InterruptKeepsInv ==
    ASSUME IInv, NEW w \in Witnesses, Interrupt(w)
    PROVE  IInv'
<1>1. /\ signing' = [signing EXCEPT ![w] = Missing]
      /\ interrupted' = interrupted \union {w}
      /\ UNCHANGED <<ledger, restores, checkpoints, witnessed, statements, remembered, views>>
  BY DEF Interrupt, logVars, verifierVars
<1>2. TypeInv'
  BY <1>1 DEF IInv, TypeInv, MaybeCheckpoint
<1>3. \A u \in Witnesses : u # w => LastSigned(u)' = LastSigned(u)
  BY <1>1 DEF IInv, TypeInv, LastSigned
<1>4. \A s \in statements : s.witness \in Witnesses
  BY DEF IInv, TypeInv
<1>5. SignInv'
  BY <1>1, <1>3, <1>4 DEF IInv, SignInv, Prefix, Extends, Size
<1>6. CallInv'
  BY <1>1 DEF IInv, CallInv, Prefix, Extends, Size
<1> QED
  BY <1>2, <1>5, <1>6 DEF IInv

(* What a verifier reads and verifies.                                       *)
LEMMA ReadKeepsInv ==
    ASSUME IInv, NEW v \in Verifier, NEW c \in checkpoints,
           NEW withProof \in BOOLEAN, ReadState(v, c, withProof)
    PROVE  IInv'
<1>1. PICK call : call = [checkpoint |-> c,
                          old |-> IF withProof /\ Size(c) > Size(remembered)
                                  THEN remembered ELSE Missing]
  OBVIOUS
<1>2. /\ views' = [views EXCEPT ![v] = call]
      /\ withProof /\ Size(c) > Size(remembered) => ProofVerifies(remembered, c)
      /\ UNCHANGED <<ledger, restores, checkpoints, witnessed, signing, statements,
                     interrupted, remembered>>
  BY <1>1 DEF ReadState, logVars, witnessVars
<1>3. /\ call \in [checkpoint : Checkpoint, old : MaybeCheckpoint]
      /\ call.checkpoint = c /\ c \in Checkpoint
  BY <1>1 DEF IInv, TypeInv, MaybeCheckpoint
<1>4. TypeInv'
  BY <1>2, <1>3 DEF IInv, TypeInv
<1>5. SignInv'
  BY <1>2 DEF IInv, SignInv, LastSigned, Prefix, Extends, Size
<1>6. ASSUME call.old # Missing PROVE Prefix(call.old, call.checkpoint)
  <2>1. withProof /\ Size(c) > Size(remembered) /\ call.old = remembered
    BY <1>1, <1>6
  <2>2. remembered \in Checkpoint
    BY <1>6, <2>1 DEF IInv, TypeInv, MaybeCheckpoint
  <2>3. Size(c) \in Nat /\ Size(remembered) \in Nat
    BY <1>3, <2>2, CheckpointFields
  <2>4. Size(remembered) < Size(c) /\ Size(remembered) <= Size(c)
    BY <2>1, <2>3
  <2>5. Extends(c, remembered)
    BY <1>2, <1>3, <2>1, <2>2, <2>4, ProofsVerifyPrefixes
  <2> QED
    BY <1>3, <2>1, <2>4, <2>5 DEF Prefix
<1>7. \A u \in Verifier : views'[u] = IF u = v THEN call ELSE views[u]
  BY <1>2 DEF IInv, TypeInv
<1>8. CallInv'
  BY <1>6, <1>7 DEF IInv, CallInv, Prefix, Extends, Size
<1> QED
  BY <1>4, <1>5, <1>8 DEF IInv

(* A verifier remembers the checkpoint it verified, or keeps the old one.    *)
LEMMA ApplyKeepsInv ==
    ASSUME IInv, NEW v \in Verifier, ApplyCheckpoint(v)
    PROVE  IInv'
<1>1. /\ views[v] # Missing
      /\ remembered' \in {views[v].checkpoint, remembered}
      /\ views' = [views EXCEPT ![v] = Missing]
      /\ UNCHANGED <<ledger, restores, checkpoints, witnessed, signing, statements, interrupted>>
  BY DEF ApplyCheckpoint, logVars, witnessVars
<1>2. views[v] \in [checkpoint : Checkpoint, old : MaybeCheckpoint]
  BY <1>1 DEF IInv, TypeInv
<1>3. TypeInv'
  BY <1>1, <1>2 DEF IInv, TypeInv, MaybeCheckpoint
<1>4. SignInv'
  BY <1>1 DEF IInv, SignInv, LastSigned, Prefix, Extends, Size
<1>5. \A u \in Verifier : views'[u] = IF u = v THEN Missing ELSE views[u]
  BY <1>1 DEF IInv, TypeInv
<1>6. CallInv'
  BY <1>5 DEF IInv, CallInv, Prefix, Extends, Size
<1> QED
  BY <1>3, <1>4, <1>6 DEF IInv

-----------------------------------------------------------------------------
(* Every statement and every verified proof is about prefixes of one log, as *)
(* long as Missing is no checkpoint.                                         *)
THEOREM WitnessInvariance ==
    ASSUME Missing \notin Checkpoint
    PROVE  WitnessSpec => []IInv
<1>1. WitnessInit => IInv
  <2> SUFFICES ASSUME WitnessInit PROVE IInv
    OBVIOUS
  <2>1. TypeInv
    BY FS_EmptySet DEF WitnessInit, TypeInv, MaybeCheckpoint
  <2> QED
    BY <2>1 DEF WitnessInit, IInv, SignInv, CallInv
<1>2. IInv /\ [WitnessNext]_checkpointVars => IInv'
  <2> SUFFICES ASSUME IInv, [WitnessNext]_checkpointVars PROVE IInv'
    OBVIOUS
  <2>1. CASE UNCHANGED checkpointVars
    BY <2>1 DEF checkpointVars, IInv, TypeInv, SignInv, CallInv, LastSigned, Prefix, Extends, Size
  <2> QED
    BY <2>1, LogKeepsInv, SignKeepsInv, SaveKeepsInv, InterruptKeepsInv, ReadKeepsInv,
       ApplyKeepsInv DEF WitnessNext
<1> QED
  BY <1>1, <1>2, PTL DEF WitnessSpec

(* A witness contradicts itself only if it was stopped between its two       *)
(* exports.                                                                  *)
LEMMA StatementsAgree == IInv => StatementsConsistent
<1> SUFFICES ASSUME IInv, NEW s \in statements, NEW t \in statements,
                    s.witness = t.witness, s.witness \notin interrupted
             PROVE  Consistent(s.checkpoint, t.checkpoint)
  BY DEF StatementsConsistent
<1>1. s.checkpoint \in Checkpoint /\ t.checkpoint \in Checkpoint /\ s.witness \in Witnesses
  BY DEF IInv, TypeInv
<1>2. PICK last : last = LastSigned(s.witness)
  OBVIOUS
<1>3. last \in Checkpoint
  BY <1>1, <1>2 DEF IInv, TypeInv, SignInv, LastSigned, MaybeCheckpoint
<1>4. Prefix(s.checkpoint, last) /\ Prefix(t.checkpoint, last)
  BY <1>2 DEF IInv, SignInv
<1> QED
  BY <1>1, <1>3, <1>4, PrefixesConsistent

(* No witness that was never interrupted signs two checkpoints of different
   logs (create_transparency_witness_statement). *)
THEOREM WitnessesAreConsistent ==
    ASSUME Missing \notin Checkpoint
    PROVE  WitnessSpec => []StatementsConsistent
  BY WitnessInvariance, StatementsAgree, PTL

(* Two quorums have at least this many witnesses in common.                  *)
LEMMA QuorumOverlap ==
    ASSUME NEW A \in SUBSET Witnesses, NEW B \in SUBSET Witnesses,
           Cardinality(A) >= Quorum, Cardinality(B) >= Quorum
    PROVE  Cardinality(A \cap B) >= 2 * Quorum - Cardinality(Witnesses)
<1>1. IsFiniteSet(Witnesses)
  BY WitnessAssumption
<1>2. IsFiniteSet(A) /\ IsFiniteSet(B) /\ IsFiniteSet(A \cap B)
  BY <1>1, FS_Subset
<1>3. /\ IsFiniteSet(A \union B)
      /\ Cardinality(A \union B) = Cardinality(A) + Cardinality(B) - Cardinality(A \cap B)
  BY <1>2, FS_Union
<1>4. Cardinality(A \union B) <= Cardinality(Witnesses)
  BY <1>1, FS_Subset
<1>5. /\ Cardinality(A) \in Nat /\ Cardinality(B) \in Nat /\ Cardinality(A \cap B) \in Nat
      /\ Cardinality(A \union B) \in Nat /\ Cardinality(Witnesses) \in Nat
  BY <1>1, <1>2, <1>3, FS_CardinalityType
<1>6. Quorum \in Nat
  BY <1>5, WitnessAssumption
<1> QED
  BY <1>3, <1>4, <1>5, <1>6

(* Two quorums certify checkpoints that contradict each other only if the    *)
(* whole overlap of the two was stopped between its exports: with a majority *)
(* quorum, at least one witness was.                                         *)
THEOREM QuorumsAreConsistent ==
    ASSUME Missing \notin Checkpoint
    PROVE  WitnessSpec => []QuorumsAgree
<1>1. IInv => QuorumsAgree
  <2> SUFFICES ASSUME IInv, NEW c \in checkpoints, NEW d \in checkpoints,
                      HasQuorum(c), HasQuorum(d), ~Consistent(c, d)
               PROVE  Cardinality(interrupted) >= 2 * Quorum - Cardinality(Witnesses)
    BY DEF QuorumsAgree
  <2>1. /\ c \in Checkpoint /\ d \in Checkpoint
        /\ Signers(c) \in SUBSET Witnesses /\ Signers(d) \in SUBSET Witnesses
    BY DEF IInv, TypeInv, Signers
  <2>2. ASSUME NEW w \in Signers(c) \cap Signers(d)
        PROVE  w \in interrupted
    <3>1. PICK s \in statements : s.witness = w /\ SameCheckpoint(s.checkpoint, c)
      BY DEF Signers
    <3>2. PICK t \in statements : t.witness = w /\ SameCheckpoint(t.checkpoint, d)
      BY DEF Signers
    <3>3. s.checkpoint \in Checkpoint /\ t.checkpoint \in Checkpoint
      BY DEF IInv, TypeInv
    <3>4. s.checkpoint.entries = c.entries /\ t.checkpoint.entries = d.entries
      BY <2>1, <3>1, <3>2, <3>3, RootsIdentify DEF SameCheckpoint
    <3>5. ~Consistent(s.checkpoint, t.checkpoint)
      BY <3>4, ConsistentEntries
    <3> QED
      BY <3>1, <3>2, <3>5, StatementsAgree DEF StatementsConsistent
  <2>3. Cardinality(Signers(c) \cap Signers(d)) >= 2 * Quorum - Cardinality(Witnesses)
    BY <2>1, QuorumOverlap DEF HasQuorum
  <2>4. IsFiniteSet(interrupted) /\ IsFiniteSet(Signers(c) \cap Signers(d))
    BY <2>1, WitnessAssumption, FS_Subset DEF IInv, TypeInv
  <2>5. Cardinality(Signers(c) \cap Signers(d)) <= Cardinality(interrupted)
    BY <2>2, <2>4, FS_Subset
  <2>6. /\ Cardinality(Signers(c) \cap Signers(d)) \in Nat
        /\ Cardinality(interrupted) \in Nat /\ Cardinality(Witnesses) \in Nat
    BY <2>4, WitnessAssumption, FS_CardinalityType
  <2>7. Quorum \in Nat
    BY <2>6, WitnessAssumption
  <2> QED
    BY <2>3, <2>5, <2>6, <2>7
<1> QED
  BY <1>1, WitnessInvariance, PTL

(* The checkpoint verifiers remember is replaced only by one of a log that   *)
(* extends it: a proof that was verified against an older state is compared  *)
(* with the state again under the lock.                                      *)
THEOREM RememberedExtends ==
    ASSUME Missing \notin Checkpoint
    PROVE  WitnessSpec => RememberedFollowsLog
<1> DEFINE P == remembered # Missing => Extends(remembered', remembered)
<1>1. IInv /\ [WitnessNext]_checkpointVars => P
  <2> SUFFICES ASSUME IInv, [WitnessNext]_checkpointVars, remembered # Missing
               PROVE  Extends(remembered', remembered)
    OBVIOUS
  <2>1. PICK old \in Checkpoint : old = remembered
    BY DEF IInv, TypeInv, MaybeCheckpoint
  <2>2. CASE remembered' = remembered
    BY <2>1, <2>2, PrefixItself DEF Prefix
  <2>3. ASSUME NEW v \in Verifier, ApplyCheckpoint(v), remembered' # remembered
        PROVE  Extends(remembered', remembered)
    <3>1. /\ remembered' = views[v].checkpoint
          /\ views[v] # Missing /\ views[v].old # Missing
          /\ Size(views[v].old) = Size(old) /\ views[v].old.root = old.root
      BY <2>1, <2>3 DEF ApplyCheckpoint, ApplyUpdates
    <3>2. views[v].checkpoint \in Checkpoint /\ views[v].old \in Checkpoint
      BY <3>1 DEF IInv, TypeInv, MaybeCheckpoint
    <3>3. views[v].old.entries = old.entries
      BY <2>1, <3>1, <3>2, RootsIdentify
    <3>4. Extends(views[v].checkpoint, views[v].old)
      BY <3>1 DEF IInv, CallInv, Prefix
    <3> QED
      BY <2>1, <3>1, <3>3, <3>4 DEF Extends, Size
  <2>4. CASE \A v \in Verifier : ~ApplyCheckpoint(v)
    BY <2>2, <2>4 DEF WitnessNext, checkpointVars, RegisterEntry, RestoreBackup, CreateCheckpoint,
                      SignStatement, SaveState, Interrupt, ReadState, verifierVars
  <2> QED
    BY <2>2, <2>3, <2>4
<1> QED
  BY <1>1, WitnessInvariance, PTL DEF WitnessSpec, RememberedFollowsLog

(* The proofs the log makes are exact, for logs of every size: a consistency *)
(* proof verifies between two checkpoints exactly if the older log is a      *)
(* prefix of the newer (generate_consistency_path, verify_consistency_path), *)
(* and an inclusion path proves exactly the entry of its place               *)
(* (generate_inclusion_audit_path, calculate_root_from_inclusion_proof).     *)
THEOREM ProofsAreExact ==
    ASSUME Missing \notin Checkpoint
    PROVE  WitnessSpec => ProofsExact
<1> DEFINE Exact == \A d \in checkpoints' \ checkpoints :
               /\ \A c \in checkpoints :
                     Size(c) <= Size(d) => (ProofVerifies(c, d) <=> Extends(d, c))
               /\ \A c \in checkpoints' : \A i \in 1 .. Size(d) :
                     i <= Size(c) =>
                         (RootFromInclusion(c.entries[i], i, Size(d), InclusionPath(d.entries, i))
                             = d.root
                             <=> c.entries[i] = d.entries[i])
<1>1. IInv /\ IInv' => [Exact]_checkpointVars
  <2> SUFFICES ASSUME IInv, IInv', NEW d \in checkpoints'
               PROVE  /\ \A c \in checkpoints :
                            Size(c) <= Size(d) => (ProofVerifies(c, d) <=> Extends(d, c))
                      /\ \A c \in checkpoints' : \A i \in 1 .. Size(d) :
                            i <= Size(c) =>
                                (RootFromInclusion(c.entries[i], i, Size(d),
                                                   InclusionPath(d.entries, i)) = d.root
                                    <=> c.entries[i] = d.entries[i])
    OBVIOUS
  <2>1. d \in Checkpoint /\ checkpoints \subseteq Checkpoint
    BY DEF IInv, TypeInv
  <2>2. \A c \in checkpoints :
           Size(c) <= Size(d) => (ProofVerifies(c, d) <=> Extends(d, c))
    BY <2>1, ProofsVerifyPrefixes
  <2>3. ASSUME NEW c \in checkpoints', NEW i \in 1 .. Size(d), i <= Size(c)
        PROVE  RootFromInclusion(c.entries[i], i, Size(d), InclusionPath(d.entries, i)) = d.root
                  <=> c.entries[i] = d.entries[i]
    <3>1. d.root = MerkleRoot(d.entries)
      BY <2>1 DEF Checkpoint
    <3>2. PICK N \in Nat \ {0} : N = Size(d) /\ N = Len(d.entries)
      BY <2>1, CheckpointSize DEF Size
    <3>3. PICK entry : entry = c.entries[i]
      OBVIOUS
    <3>4. RootFromInclusion(entry, i, N, InclusionPath(d.entries, i)) = MerkleRoot(d.entries)
             <=> entry = d.entries[i]
      BY <3>2, InclusionExact
    <3> QED
      BY <3>1, <3>2, <3>3, <3>4
  <2> QED
    BY <2>2, <2>3
<1> QED
  BY <1>1, WitnessInvariance, PTL DEF WitnessSpec, ProofsExact
=============================================================================
