-------------------------- MODULE UnionFindProofs --------------------------
(***************************************************************************)
(* What UnionFind promises, for every number of elements and every         *)
(* sequence of calls.                                                      *)
(***************************************************************************)
EXTENDS UnionFind, FiniteSetTheorems, FunctionTheorems, TLAPS

\* The history is a partition: a class is the class of each of its members.
Partition ==
  \A i \in Elements :
    /\ i \in class[i]
    /\ \A j \in class[i] : class[j] = class[i]

Roots == {k \in Elements : parent[k] = k}

\* The code's counter is the number of roots.
RootsCounted == IsFiniteSet(Roots) /\ count = Cardinality(Roots)

IInv ==
  /\ TypeOK
  /\ Partition
  /\ Forest
  /\ OneRoot
  /\ SearchStays
  /\ RootsCounted

\* Two roots of one class are one.
LEMMA RootsMeet ==
  ASSUME IInv, NEW i \in Elements, NEW a \in class[i], NEW b \in class[i],
         parent[a] = a, parent[b] = b
  PROVE  a = b
<1>1. PICK k \in class[i] : \A j \in class[i] : parent[j] = j => j = k
  BY DEF IInv, OneRoot
<1> QED
  BY <1>1

\* Rewriting a pointer to the grandparent keeps the invariant.
LEMMA SplitStep ==
  ASSUME IInv, Split
  PROVE  IInv'
<1>1. /\ parent \in [Elements -> Elements] /\ rank \in [Elements -> Nat]
      /\ x \in Elements /\ call \in Elements \X Elements
      /\ class \in [Elements -> SUBSET Elements]
  BY DEF IInv, TypeOK
<1> DEFINE p == parent[x]
           g == parent[p]
<1>3. /\ parent[x] # x /\ p \in Elements /\ g \in Elements
      /\ parent' = [parent EXCEPT ![x] = g] /\ x' = g
      /\ UNCHANGED <<rank, count, call, found, pc, class>>
  BY <1>1 DEF Split, NextX, Target
<1>4. class[p] = class[x] /\ g \in class[x] /\ class[g] = class[x]
  <2>1. p \in class[x] /\ g \in class[p]
    BY <1>1, <1>3 DEF IInv, Forest
  <2>2. class[p] = class[x]
    BY <1>1, <2>1 DEF IInv, Partition
  <2> QED
    BY <1>1, <1>3, <2>1, <2>2 DEF IInv, Partition
<1>5. rank[x] < rank[g]
  <2>1. rank[x] < rank[p] /\ (g # p => rank[p] < rank[g])
    BY <1>1, <1>3 DEF IInv, Forest
  <2>2. rank[x] \in Nat /\ rank[p] \in Nat /\ rank[g] \in Nat
    BY <1>1, <1>3
  <2> QED
    BY <2>1, <2>2
<1>6. g # x
  <2>1. rank[x] \in Nat
    BY <1>1
  <2> QED
    BY <1>5, <2>1
<1>7. \A k \in Elements : parent'[k] = k <=> parent[k] = k
  BY <1>1, <1>3, <1>6
<1>8. TypeOK'
  BY <1>1, <1>3 DEF IInv, TypeOK
<1>9. Partition'
  BY <1>3 DEF IInv, Partition
<1>10. Forest'
  <2>1. SUFFICES ASSUME NEW i \in Elements
                 PROVE parent'[i] \in class[i] /\ (parent'[i] # i => rank[i] < rank[parent'[i]])
    BY <1>3 DEF Forest
  <2>2. CASE i = x
    BY <1>1, <1>3, <1>4, <1>5, <2>2
  <2>3. CASE i # x
    BY <1>1, <1>3, <2>3 DEF IInv, Forest
  <2> QED
    BY <2>2, <2>3
<1>11. OneRoot'
  <2>1. SUFFICES ASSUME NEW i \in Elements
                 PROVE \E k \in class[i] : /\ parent'[k] = k
                                           /\ \A j \in class[i] : parent'[j] = j => j = k
    BY <1>3 DEF OneRoot
  <2>2. class[i] \subseteq Elements
    BY <1>1
  <2>3. PICK k \in class[i] : /\ parent[k] = k
                              /\ \A j \in class[i] : parent[j] = j => j = k
    BY DEF IInv, OneRoot
  <2> QED
    BY <1>7, <2>2, <2>3
<1>12. SearchStays'
  <2>1. call[1] \in Elements /\ call[2] \in Elements /\ found \in Elements
    BY <1>1 DEF IInv, TypeOK
  <2>2. \A i \in Elements : x \in class[i] => g \in class[i]
    BY <1>1, <1>4 DEF IInv, Partition
  <2>3. pc \in {"find", "first", "second"}
    BY DEF Split, Finding
  <2> QED
    BY <1>3, <1>7, <2>1, <2>2, <2>3 DEF IInv, SearchStays
<1>13. RootsCounted'
  <2>1. Roots' = Roots
    BY <1>7 DEF Roots
  <2> QED
    BY <1>3, <2>1 DEF IInv, RootsCounted
<1> QED
  BY <1>8, <1>9, <1>10, <1>11, <1>12, <1>13 DEF IInv

\* A root that is found already keeps everything as it is.
LEMMA SameRootKeeps ==
  ASSUME IInv, Link, SameRoot
  PROVE  pc' = "idle" /\ UNCHANGED <<parent, rank, count, x, call, found, class>>
<1>1. /\ pc = "link" /\ pc' = "idle" /\ found = x /\ class' = United(call)
      /\ UNCHANGED <<parent, rank, count, x, call, found>>
  BY DEF Link, SameRoot
<1>2. /\ class \in [Elements -> SUBSET Elements]
      /\ call[1] \in Elements /\ call[2] \in Elements
      /\ x \in class[call[1]] /\ x \in class[call[2]]
  BY <1>1 DEF IInv, TypeOK, SearchStays
<1>3. class[call[1]] = class[x] /\ class[call[2]] = class[x]
  BY <1>2 DEF IInv, Partition
<1>4. \A i \in Elements : i \in class[x] => class[i] = class[x]
  BY <1>2, <1>3 DEF IInv, Partition
<1>5. United(call) = class
  BY <1>2, <1>3, <1>4 DEF United
<1> QED
  BY <1>1, <1>5

LEMMA SameRootStep ==
  ASSUME IInv, Link, SameRoot
  PROVE  IInv'
<1>1. pc' = "idle" /\ UNCHANGED <<parent, rank, count, x, call, found, class>>
  BY SameRootKeeps
<1> QED
  BY <1>1 DEF IInv, TypeOK, Partition, Forest, OneRoot, SearchStays, RootsCounted, Roots

\* Linking two roots unites their classes under one of them.
LEMMA LinkStep ==
  ASSUME IInv, Link, ~ SameRoot
  PROVE  IInv'
<1> DEFINE U == Upper
           L == Lower
           both == class[call[1]] \cup class[call[2]]
<1>1. /\ parent \in [Elements -> Elements] /\ rank \in [Elements -> Nat]
      /\ x \in Elements /\ found \in Elements /\ count \in Int
      /\ call[1] \in Elements /\ call[2] \in Elements
      /\ class \in [Elements -> SUBSET Elements]
  BY DEF IInv, TypeOK
<1>2. /\ pc = "link" /\ pc' = "idle" /\ found # x
      /\ parent' = [parent EXCEPT ![L] = U]
      /\ rank' = Raised(U, L)
      /\ count' = count - 1
      /\ class' = United(call)
      /\ UNCHANGED <<x, call, found>>
  BY DEF Link, SameRoot
<1>3. /\ found \in class[call[1]] /\ x \in class[call[2]]
      /\ parent[found] = found /\ parent[x] = x
  BY <1>2 DEF IInv, SearchStays
<1>4. /\ U \in Elements /\ L \in Elements /\ U # L
      /\ parent[U] = U /\ parent[L] = L
      /\ {U, L} = {found, x}
      /\ rank[L] <= rank[U]
  BY <1>1, <1>2, <1>3 DEF Upper, Lower
<1>5. U \in both /\ L \in both /\ both \subseteq Elements
  BY <1>1, <1>3, <1>4
<1>6. class' = [i \in Elements |-> IF i \in both THEN both ELSE class[i]]
  BY <1>2 DEF United
<1>7. \A i \in both : class[i] \subseteq both
  BY <1>1 DEF IInv, Partition
<1>8. \A i \in Elements : \A j \in class[i] : j \in both => i \in both
  BY <1>1, <1>7 DEF IInv, Partition
<1>9. \A k \in both : parent[k] = k => k \in {U, L}
  <2>1. SUFFICES ASSUME NEW k \in both, parent[k] = k PROVE k \in {found, x}
    BY <1>4
  <2>2. CASE k \in class[call[1]]
    BY <1>1, <1>3, <2>1, <2>2, RootsMeet
  <2>3. CASE k \in class[call[2]]
    BY <1>1, <1>3, <2>1, <2>3, RootsMeet
  <2> QED
    BY <2>2, <2>3
<1>10. /\ \A i \in Elements : rank'[i] \in Nat /\ (i # U => rank'[i] = rank[i])
       /\ rank[U] <= rank'[U] /\ rank[L] < rank'[U]
       /\ rank' \in [Elements -> Nat]
  <2>1. rank[U] \in Nat /\ rank[L] \in Nat
    BY <1>1, <1>4
  <2>2. rank' = [rank EXCEPT ![U] = IF rank[U] = rank[L] THEN rank[U] + 1 ELSE rank[U]]
    BY <1>2 DEF Raised
  <2> QED
    BY <1>1, <1>4, <2>1, <2>2
<1>11. \A k \in Elements : parent'[k] = k <=> parent[k] = k /\ k # L
  BY <1>1, <1>2, <1>4
<1>12. TypeOK'
  <2>1. class' \in [Elements -> SUBSET Elements]
    BY <1>1, <1>5, <1>6
  <2>2. parent' \in [Elements -> Elements]
    BY <1>1, <1>2, <1>4
  <2>3. count' \in Int
    BY <1>1, <1>2
  <2> QED
    BY <1>2, <1>10, <2>1, <2>2, <2>3 DEF IInv, TypeOK
<1>13. Partition'
  <2>1. SUFFICES ASSUME NEW i \in Elements
                 PROVE i \in class'[i] /\ \A j \in class'[i] : class'[j] = class'[i]
    BY DEF Partition
  <2>2. CASE i \in both
    BY <1>5, <1>6, <2>2
  <2>3. CASE i \notin both
    <3>1. class'[i] = class[i]
      BY <1>6, <2>3
    <3>2. i \in class[i] /\ \A j \in class[i] : class[j] = class[i] /\ j \in Elements /\ j \notin both
      BY <1>1, <1>8, <2>3 DEF IInv, Partition
    <3> QED
      BY <1>6, <3>1, <3>2
  <2> QED
    BY <2>2, <2>3
<1>14. Forest'
  <2>1. SUFFICES ASSUME NEW i \in Elements
                 PROVE parent'[i] \in class'[i] /\ (parent'[i] # i => rank'[i] < rank'[parent'[i]])
    BY DEF Forest
  <2>2. parent[i] \in class[i] /\ (parent[i] # i => rank[i] < rank[parent[i]])
    BY DEF IInv, Forest
  <2>3. class[i] \subseteq class'[i]
    BY <1>6, <1>7
  <2>4. CASE i = L
    BY <1>1, <1>2, <1>4, <1>5, <1>6, <1>10, <2>4
  <2>5. CASE i # L /\ parent[i] = i
    BY <1>1, <1>2, <2>2, <2>3, <2>5
  <2>6. CASE i # L /\ parent[i] # i
    <3>1. parent'[i] = parent[i] /\ i # U
      BY <1>1, <1>2, <1>4, <2>6
    <3>2. rank'[i] = rank[i] /\ rank[parent[i]] <= rank'[parent[i]]
      <4>1. parent[i] \in Elements
        BY <1>1
      <4> QED
        BY <1>1, <1>10, <3>1, <4>1
    <3>3. rank[i] \in Nat /\ rank[parent[i]] \in Nat /\ rank'[parent[i]] \in Nat
      BY <1>1, <1>10
    <3> QED
      BY <2>2, <2>3, <2>6, <3>1, <3>2, <3>3
  <2> QED
    BY <2>4, <2>5, <2>6
<1>15. OneRoot'
  <2>1. SUFFICES ASSUME NEW i \in Elements
                 PROVE \E k \in class'[i] : /\ parent'[k] = k
                                            /\ \A j \in class'[i] : parent'[j] = j => j = k
    BY DEF OneRoot
  <2>2. CASE i \in both
    <3>1. class'[i] = both
      BY <1>6, <2>2
    <3> QED
      BY <1>4, <1>5, <1>9, <1>11, <3>1
  <2>3. CASE i \notin both
    <3>1. class'[i] = class[i] /\ class[i] \subseteq Elements
      BY <1>1, <1>6, <2>3
    <3>2. L \notin class[i]
      BY <1>5, <1>8, <2>3
    <3>3. PICK k \in class[i] : /\ parent[k] = k
                                /\ \A j \in class[i] : parent[j] = j => j = k
      BY DEF IInv, OneRoot
    <3> QED
      BY <1>11, <3>1, <3>2, <3>3
  <2> QED
    BY <2>2, <2>3
<1>16. SearchStays'
  BY <1>2 DEF SearchStays
<1>17. RootsCounted'
  <2>1. Roots' = Roots \ {L} /\ L \in Roots
    BY <1>4, <1>11 DEF Roots
  <2>2. IsFiniteSet(Roots) /\ count = Cardinality(Roots)
    BY DEF IInv, RootsCounted
  <2>3. IsFiniteSet(Roots \ {L}) /\ Cardinality(Roots \ {L}) = Cardinality(Roots) - 1
    BY <2>1, <2>2, FS_RemoveElement
  <2> QED
    BY <1>2, <2>1, <2>2, <2>3 DEF RootsCounted
<1> QED
  BY <1>12, <1>13, <1>14, <1>15, <1>16, <1>17 DEF IInv

\* The invariant holds in every reachable state.
THEOREM Invariance == Spec => []IInv
<1>1. Init => IInv
  <2> SUFFICES ASSUME Init PROVE IInv
    OBVIOUS
  <2>1. /\ parent = [i \in Elements |-> i] /\ class = [i \in Elements |-> {i}]
        /\ 0 \in Elements /\ N \in Nat
    BY SizeAssumption DEF Init, OwnRoot, Elements
  <2>2. TypeOK
    BY <2>1 DEF Init, TypeOK
  <2>3. Partition /\ Forest /\ OneRoot
    BY <2>1 DEF Partition, Forest, OneRoot
  <2>4. SearchStays
    BY DEF Init, SearchStays
  <2>5. RootsCounted
    <3>1. Roots = 0 .. N - 1
      BY <2>1 DEF Roots, Elements
    <3>2. IsFiniteSet(0 .. N - 1) /\ Cardinality(0 .. N - 1) = N
      BY <2>1, FS_Interval
    <3> QED
      BY <3>1, <3>2 DEF Init, RootsCounted
  <2> QED
    BY <2>2, <2>3, <2>4, <2>5 DEF IInv
<1>2. IInv /\ [Next]_vars => IInv'
  <2> SUFFICES ASSUME IInv, [Next]_vars PROVE IInv'
    OBVIOUS
  <2>1. \A i \in Elements : i \in class[i]
    BY DEF IInv, Partition
  <2>2. ASSUME NEW e \in Elements, CallFind(e) PROVE IInv'
    BY <2>1, <2>2 DEF CallFind, IInv, TypeOK, Partition, Forest, OneRoot, SearchStays,
                      RootsCounted, Roots
  <2>3. ASSUME NEW p \in Pairs, CallUnion(p) PROVE IInv'
    <3>1. p \in Elements \X Elements
      BY PairsAssumption
    <3> QED
      BY <2>1, <2>3, <3>1 DEF CallUnion, IInv, TypeOK, Partition, Forest, OneRoot,
                              SearchStays, RootsCounted, Roots
  <2>4. CASE Split
    BY <2>4, SplitStep
  <2>5. CASE Found
    <3>1. call[1] \in Elements /\ call[2] \in Elements /\ parent[x] = x
      BY <2>5 DEF Found, IInv, TypeOK
    <3>2. UNCHANGED <<parent, rank, count, class, call>>
      BY <2>5 DEF Found
    <3>3. TypeOK'
      BY <2>5, <3>1, <3>2 DEF Found, IInv, TypeOK
    <3>4. SearchStays'
      BY <2>1, <2>5, <3>1, <3>2 DEF Found, IInv, SearchStays
    <3>5. Partition' /\ Forest' /\ OneRoot' /\ RootsCounted'
      BY <3>2 DEF IInv, Partition, Forest, OneRoot, RootsCounted, Roots
    <3> QED
      BY <3>3, <3>4, <3>5 DEF IInv
  <2>6. CASE Link
    BY <2>6, LinkStep, SameRootStep
  <2>7. CASE UNCHANGED vars
    BY <2>7 DEF vars, IInv, TypeOK, Partition, Forest, OneRoot, SearchStays, RootsCounted, Roots
  <2> QED
    BY <2>2, <2>3, <2>4, <2>5, <2>6, <2>7 DEF Next, Return
<1> QED
  BY <1>1, <1>2, PTL DEF Spec

\* A search answers with the one root of its argument's component.
THEOREM SearchCorrect == Spec => [](OneRoot /\ Forest /\ SearchStays)
<1>1. IInv => OneRoot /\ Forest /\ SearchStays
  BY DEF IInv
<1> QED
  BY <1>1, Invariance, PTL

\* There are as many components as count says: a root stands for a class.
THEOREM CountCorrect == Spec => []CountExact
<1>1. IInv => CountExact
  <2> SUFFICES ASSUME IInv PROVE CountExact
    OBVIOUS
  <2> DEFINE Classes == {class[i] : i \in Elements}
             f == [k \in Roots |-> class[k]]
  <2>1. class \in [Elements -> SUBSET Elements]
    BY DEF IInv, TypeOK
  <2>2. f \in [Roots -> Classes]
    BY DEF Roots
  <2>3. ASSUME NEW a \in Roots, NEW b \in Roots, f[a] = f[b] PROVE a = b
    <3>1. a \in Elements /\ b \in Elements /\ parent[a] = a /\ parent[b] = b
      BY DEF Roots
    <3>2. a \in class[a] /\ b \in class[a]
      BY <2>3, <3>1 DEF IInv, Partition
    <3> QED
      BY <3>1, <3>2, RootsMeet
  <2>4. ASSUME NEW c \in Classes PROVE \E k \in Roots : f[k] = c
    <3>1. PICK i \in Elements : c = class[i]
      OBVIOUS
    <3>2. PICK k \in class[i] : parent[k] = k
      BY <3>1 DEF IInv, OneRoot
    <3>3. k \in Roots /\ class[k] = class[i]
      BY <2>1, <3>1, <3>2 DEF IInv, Partition, Roots
    <3> QED
      BY <3>1, <3>3
  <2>5. f \in Bijection(Roots, Classes)
    BY <2>2, <2>3, <2>4 DEF Bijection, Injection, Surjection, IsInjective
  <2>6. ExistsBijection(Roots, Classes)
    BY <2>5 DEF ExistsBijection
  <2>7. Cardinality(Classes) = Cardinality(Roots)
    BY <2>6, FS_Bijection DEF IInv, RootsCounted
  <2> QED
    BY <2>7 DEF CountExact, IInv, RootsCounted
<1> QED
  BY <1>1, Invariance, PTL

\* A set of n elements has 2^n subsets, each of them a natural number's
\* worth; one more element doubles them: each subset is there without the
\* new element and with it.
LEMMA PowerDoubles ==
  ASSUME NEW n \in Nat
  PROVE  2 ^ n \in Nat /\ 2 ^ (n + 1) = 2 ^ n + 2 ^ n
<1> DEFINE S == 1 .. n
           z == n + 1
           With == {T \cup {z} : T \in SUBSET S}
<1>1. /\ IsFiniteSet(S) /\ Cardinality(S) = n /\ z \notin S
      /\ IsFiniteSet(1 .. z) /\ Cardinality(1 .. z) = z
  BY FS_Interval
<1>2. /\ IsFiniteSet(SUBSET S) /\ Cardinality(SUBSET S) = 2 ^ n
      /\ Cardinality(SUBSET (1 .. z)) = 2 ^ (n + 1)
  BY <1>1, FS_SUBSET
<1>3. SUBSET (1 .. z) = (SUBSET S) \cup With
  <2>1. 1 .. z = S \cup {z}
    OBVIOUS
  <2> HIDE DEF S, z
  <2>2. ASSUME NEW T \in SUBSET (S \cup {z}) PROVE T \in (SUBSET S) \cup With
    <3>1. CASE z \in T
      <4>1. T \ {z} \in SUBSET S /\ T = (T \ {z}) \cup {z}
        BY <2>2, <3>1
      <4>2. (T \ {z}) \cup {z} \in With
        BY <4>1, Zenon
      <4> HIDE DEF With
      <4> QED BY <4>1, <4>2
    <3>2. CASE z \notin T
      BY <2>2, <3>2
    <3> QED BY <3>1, <3>2
  <2>3. ASSUME NEW T \in (SUBSET S) \cup With PROVE T \in SUBSET (S \cup {z})
    <3>1. CASE T \in SUBSET S
      BY <3>1
    <3>2. CASE T \in With
      <4>1. PICK U \in SUBSET S : T = U \cup {z}
        BY <3>2, Zenon
      <4> QED BY <4>1
    <3> HIDE DEF With
    <3> QED BY <2>3, <3>1, <3>2
  <2> QED BY <2>1, <2>2, <2>3
<1>4. IsFiniteSet(With) /\ Cardinality(With) = 2 ^ n
  <2> DEFINE f == [T \in SUBSET S |-> T \cup {z}]
  <2>1. f \in [SUBSET S -> With]
    BY Zenon
  <2>2. \A T, U \in SUBSET S : f[T] = f[U] => T = U
    BY <1>1, Zenon
  <2>3. f \in Injection(SUBSET S, With)
    BY <2>1, <2>2, Fun_IsInj, Zenon
  <2>4. f \in Surjection(SUBSET S, With)
    BY Zenon DEF Surjection
  <2>5. ExistsBijection(SUBSET S, With)
    BY <2>3, <2>4, Zenon DEF Bijection, ExistsBijection
  <2> QED BY <1>2, <2>5, FS_Bijection
<1>5. (SUBSET S) \cap With = {}
  <2> SUFFICES ASSUME NEW T \in With PROVE T \notin SUBSET S
    OBVIOUS
  <2>1. PICK U \in SUBSET S : T = U \cup {z}
    BY Zenon
  <2> HIDE DEF S, z
  <2> QED BY <1>1, <2>1
<1>6. Cardinality((SUBSET S) \cap With) = 0
  BY <1>5, FS_EmptySet
<1>7. Cardinality((SUBSET S) \cup With) = 2 ^ n + 2 ^ n
  <2>1. 2 ^ n \in Nat
    BY <1>2, FS_CardinalityType
  <2> HIDE DEF With, S
  <2>2. Cardinality((SUBSET S) \cup With) = Cardinality(SUBSET S) + Cardinality(With)
                                         - Cardinality((SUBSET S) \cap With)
    BY <1>2, <1>4, FS_Union
  <2> QED BY <1>2, <1>4, <1>6, <2>1, <2>2
<1>8. 2 ^ n \in Nat
  BY <1>2, FS_CardinalityType
<1> QED BY <1>2, <1>3, <1>7, <1>8

\* Linking two classes keeps a rank within the logarithm of its class: the
\* classes are disjoint, and a rank is raised only if both are large enough.
LEMMA LinkKeepsRank ==
  ASSUME IInv, RankLogarithmic, Link, ~ SameRoot
  PROVE  RankLogarithmic'
<1> DEFINE A == class[call[1]]
           B == class[call[2]]
<1>1. /\ parent \in [Elements -> Elements] /\ rank \in [Elements -> Nat]
      /\ x \in Elements /\ found \in Elements /\ call[1] \in Elements /\ call[2] \in Elements
      /\ class \in [Elements -> SUBSET Elements]
  BY DEF IInv, TypeOK
<1>2. /\ pc = "link" /\ found # x
      /\ parent' = [parent EXCEPT ![Lower] = Upper] /\ rank' = Raised(Upper, Lower)
      /\ class' = [i \in Elements |-> IF i \in A \cup B THEN A \cup B ELSE class[i]]
  BY DEF Link, SameRoot, United
<1>3. /\ found \in A /\ x \in B /\ parent[found] = found /\ parent[x] = x
  BY <1>2 DEF IInv, SearchStays
<1>4. class[found] = A /\ class[x] = B
  BY <1>1, <1>3 DEF IInv, Partition
<1>5. A \cap B = {}
  <2> SUFFICES ASSUME NEW e \in A, e \in B PROVE FALSE
    OBVIOUS
  <2>1. class[e] = A /\ class[e] = B
    BY <1>1 DEF IInv, Partition
  <2> QED BY <1>1, <1>2, <1>3, <2>1, RootsMeet
<1>6. /\ IsFiniteSet(A) /\ IsFiniteSet(B)
      /\ Cardinality(A) \in Nat /\ Cardinality(B) \in Nat
      /\ Cardinality(A \cup B) = Cardinality(A) + Cardinality(B)
  <2>1. IsFiniteSet(Elements)
    BY SizeAssumption, FS_Interval DEF Elements
  <2>2. IsFiniteSet(A) /\ IsFiniteSet(B)
    BY <1>1, <2>1, FS_Subset
  <2>3. Cardinality(A \cap B) = 0
    BY <1>5, FS_EmptySet
  <2> HIDE DEF A, B
  <2>4. Cardinality(A \cup B) = Cardinality(A) + Cardinality(B) - Cardinality(A \cap B)
    BY <2>2, FS_Union
  <2>5. Cardinality(A) \in Nat /\ Cardinality(B) \in Nat
    BY <2>2, FS_CardinalityType
  <2> QED BY <2>2, <2>3, <2>4, <2>5
<1>7. 2 ^ rank[found] <= Cardinality(A) /\ 2 ^ rank[x] <= Cardinality(B)
  BY <1>1, <1>3, <1>4 DEF RankLogarithmic
<1>8. 2 ^ rank'[Upper] <= Cardinality(A \cup B)
  <2>1. rank[found] \in Nat /\ rank[x] \in Nat
    BY <1>1
  <2>2. /\ 2 ^ rank[found] \in Nat /\ 2 ^ rank[x] \in Nat
        /\ 2 ^ (rank[found] + 1) = 2 ^ rank[found] + 2 ^ rank[found]
    BY <2>1, PowerDoubles
  <2>3. CASE rank[found] = rank[x]
    <3>1. Upper = found /\ rank'[Upper] = rank[found] + 1
      BY <1>1, <1>2, <2>1, <2>3 DEF Upper, Lower, Raised
    <3> HIDE DEF A, B
    <3> QED BY <1>6, <1>7, <2>2, <2>3, <3>1
  <2>4. CASE rank[found] # rank[x]
    <3>1. Upper \in {found, x} /\ rank'[Upper] = rank[Upper]
      BY <1>1, <1>2, <2>1, <2>4 DEF Upper, Lower, Raised
    <3> HIDE DEF A, B
    <3> QED BY <1>6, <1>7, <2>2, <3>1
  <2> QED BY <2>3, <2>4
<1>9. SUFFICES ASSUME NEW k \in Elements, parent'[k] = k
               PROVE  2 ^ rank'[k] <= Cardinality(class'[k])
  BY DEF RankLogarithmic
<1>10. {Upper, Lower} = {found, x} /\ Upper # Lower
  BY <1>2 DEF Upper, Lower
<1>11. parent[k] = k /\ k # Lower
  BY <1>1, <1>2, <1>3, <1>9, <1>10
<1>12. CASE k \in A \cup B
  <2>1. k \in {found, x}
    BY <1>1, <1>3, <1>11, <1>12, RootsMeet
  <2>2. k = Upper /\ class'[k] = A \cup B
    BY <1>2, <1>10, <1>11, <1>12, <2>1
  <2> QED BY <1>8, <2>2
<1>13. CASE k \notin A \cup B
  <2>1. class'[k] = class[k]
    BY <1>2, <1>13
  <2>2. k # Upper
    BY <1>3, <1>10, <1>13
  <2>3. rank'[k] = rank[k]
    BY <1>1, <1>2, <2>2 DEF Raised
  <2> QED BY <1>11, <2>1, <2>3 DEF RankLogarithmic
<1> QED BY <1>12, <1>13

\* Union by rank (union_find.c:46-54): a root's rank is at most the logarithm
\* of the size of its component, so no search is longer than log2(N) pointers.
THEOREM RankCorrect == Spec => []RankLogarithmic
<1>1. Init => RankLogarithmic
  <2> SUFFICES ASSUME Init, NEW k \in Elements PROVE 2 ^ rank[k] <= Cardinality(class[k])
    BY DEF RankLogarithmic
  <2>1. rank[k] = 0 /\ class[k] = {k}
    BY DEF Init
  <2>2. Cardinality({k}) = 1
    BY FS_Singleton
  <2>3. 2 ^ 0 = 1
    OBVIOUS
  <2> QED BY <2>1, <2>2, <2>3
<1>2. IInv /\ RankLogarithmic /\ [Next]_vars => RankLogarithmic'
  <2> SUFFICES ASSUME IInv, RankLogarithmic, [Next]_vars PROVE RankLogarithmic'
    OBVIOUS
  <2>1. CASE Split
    <3>1. /\ parent \in [Elements -> Elements] /\ x \in Elements /\ rank \in [Elements -> Nat]
      BY DEF IInv, TypeOK
    <3>2. parent[x] # x /\ parent' = [parent EXCEPT ![x] = Target] /\ UNCHANGED <<rank, class>>
      BY <2>1 DEF Split
    <3>3. Target # x
      <4>1. /\ rank[x] < rank[parent[x]]
            /\ parent[parent[x]] # parent[x] => rank[parent[x]] < rank[Target]
        BY <3>1, <3>2 DEF IInv, Forest, Target
      <4> QED BY <3>1, <4>1 DEF Target
    <3>4. \A k \in Elements : parent'[k] = k => parent[k] = k
      BY <3>1, <3>2, <3>3
    <3> QED BY <3>2, <3>4 DEF RankLogarithmic
  <2>2. CASE Link /\ SameRoot
    BY <2>2, SameRootKeeps DEF RankLogarithmic
  <2>3. CASE Link /\ ~SameRoot
    BY <2>3, LinkKeepsRank
  <2>4. CASE Found \/ (\E e \in Elements : CallFind(e)) \/ (\E p \in Pairs : CallUnion(p))
             \/ UNCHANGED vars
    BY <2>4 DEF Found, CallFind, CallUnion, vars, RankLogarithmic
  <2> QED BY <2>1, <2>2, <2>3, <2>4 DEF Next, Return
<1> QED BY <1>1, <1>2, Invariance, PTL DEF Spec
=============================================================================
