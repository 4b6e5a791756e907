----------------------------- MODULE UnionFind -----------------------------
(***************************************************************************)
(* The union-find of src/src/common/union_find.c.  A caller issues one     *)
(* uf_find or uf_union after another; the loop of uf_find is one action    *)
(* per iteration, because each iteration rewrites a pointer of the forest. *)
(***************************************************************************)
EXTENDS Integers, FiniteSets

CONSTANTS
  N,      \* the number of elements
  Pairs   \* the pairs of elements callers may unite

Elements == 0 .. N - 1

ASSUME SizeAssumption == N \in Nat \ {0}
ASSUME PairsAssumption == Pairs \subseteq Elements \X Elements

VARIABLES
  parent, \* parent[i]: the parent of i, i itself at a root
  rank,   \* rank[i]: upper bound on the height of i
  count,  \* the number of components
  x,      \* the element the loop of uf_find looks at
  call,   \* the two arguments of the call in progress
  found,  \* the root uf_union found for its first argument
  pc,     \* "idle", "find", "first", "second" or "link"
  class   \* history: class[i] is what the calls so far have united i with

vars == <<parent, rank, count, x, call, found, pc, class>>

OwnRoot(i) == i

\* UF_new.
Init ==
  /\ parent = [i \in Elements |-> OwnRoot(i)]
  /\ rank = [i \in Elements |-> 0]
  /\ count = N
  /\ x = 0 /\ call = <<0, 0>> /\ found = 0
  /\ pc = "idle"
  /\ class = [i \in Elements |-> {i}]

CallFind(e) ==
  /\ pc = "idle"
  /\ pc' = "find" /\ x' = e /\ call' = <<e, e>>
  /\ UNCHANGED <<parent, rank, count, found, class>>

CallUnion(p) ==
  /\ pc = "idle"
  /\ pc' = "first" /\ x' = p[1] /\ call' = p
  /\ UNCHANGED <<parent, rank, count, found, class>>

Finding == pc \in {"find", "first", "second"}

\* The loop goes to the grandparent it points x at and so passes over the old
\* parent of x: the path is halved.
Target == parent[parent[x]]

\* Mutant: the loop forgets to move on.
NextStays == x

NextX == Target

Split ==
  /\ Finding
  /\ parent[x] # x
  /\ parent' = [parent EXCEPT ![x] = Target]
  /\ x' = NextX
  /\ UNCHANGED <<rank, count, call, found, pc, class>>

\* uf_find returns; uf_union goes on to its second argument, then links.
Found ==
  /\ Finding
  /\ parent[x] = x
  /\ \/ pc = "find" /\ pc' = "idle" /\ UNCHANGED <<x, found>>
     \/ pc = "first" /\ pc' = "second" /\ x' = call[2] /\ found' = x
     \/ pc = "second" /\ pc' = "link" /\ UNCHANGED <<x, found>>
  /\ UNCHANGED <<parent, rank, count, call, class>>

\* Mutants: the early return for one root is missing; the swap moves only one
\* of the two roots; the rank of the new root is always raised.
NeverSame == FALSE
FirstRoot == found
RankAlways(a, b) == [rank EXCEPT ![a] = @ + 1]

SameRoot == found = x
Upper == IF rank[found] < rank[x] THEN x ELSE found
Lower == IF rank[found] < rank[x] THEN found ELSE x
Raised(a, b) == [rank EXCEPT ![a] = IF rank[a] = rank[b] THEN @ + 1 ELSE @]

United(p) ==
  LET both == class[p[1]] \cup class[p[2]]
  IN  [i \in Elements |-> IF i \in both THEN both ELSE class[i]]

Link ==
  /\ pc = "link"
  /\ pc' = "idle"
  /\ IF SameRoot
     THEN UNCHANGED <<parent, rank, count>>
     ELSE /\ parent' = [parent EXCEPT ![Lower] = Upper]
          /\ rank' = Raised(Upper, Lower)
          /\ count' = count - 1
  /\ class' = United(call)
  /\ UNCHANGED <<x, call, found>>

Return == Split \/ Found \/ Link
Next ==
  \/ \E e \in Elements : CallFind(e)
  \/ \E p \in Pairs : CallUnion(p)
  \/ Return

Spec == Init /\ [][Next]_vars

\* A call that was made runs on in its own thread.
FairSpec == Spec /\ WF_vars(Return)

-----------------------------------------------------------------------------
(* Properties *)

\* Every variable keeps its type.
TypeOK ==
  /\ parent \in [Elements -> Elements]
  /\ rank \in [Elements -> Nat]
  /\ count \in Int
  /\ x \in Elements /\ call \in Elements \X Elements /\ found \in Elements
  /\ pc \in {"idle", "find", "first", "second", "link"}
  /\ class \in [Elements -> SUBSET Elements]

\* A pointer stays inside the component and goes to a higher rank: no call
\* ever ties a cycle, and the rank bounds the height (union_find.h:9).
Forest ==
  \A i \in Elements :
    /\ parent[i] \in class[i]
    /\ parent[i] # i => rank[i] < rank[parent[i]]

\* Two elements reach the same root exactly if the calls have united them:
\* a component has one root, so uf_find tells components apart.
OneRoot ==
  \A i \in Elements :
    \E k \in class[i] :
      /\ parent[k] = k
      /\ \A j \in class[i] : parent[j] = j => j = k

\* count is the number of components, which callers size arrays by
\* (bridge_cut.c:700).
CountExact == count = Cardinality({class[i] : i \in Elements})

\* A search never leaves the component of its argument, also after it has
\* rewritten pointers on the way, and uf_union links the two roots it found.
SearchStays ==
  /\ pc = "find" => x \in class[call[1]]
  /\ pc = "first" => x \in class[call[1]]
  /\ pc \in {"second", "link"} =>
       found \in class[call[1]] /\ x \in class[call[2]]
  /\ pc = "second" => parent[found] = found
  /\ pc = "link" => parent[found] = found /\ parent[x] = x

\* Union by rank: a root of rank k has at least 2^k elements below it, so no
\* search takes more than log2(N) steps.
RankLogarithmic ==
  \A k \in Elements : parent[k] = k => 2 ^ rank[k] <= Cardinality(class[k])

\* Every call returns: the loop of uf_find ends.
CallsReturn == pc # "idle" ~> pc = "idle"
=============================================================================
