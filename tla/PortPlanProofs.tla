--------------------------- MODULE PortPlanProofs ---------------------------
(***************************************************************************)
(* What PortPlan guarantees for every finite set of files, every graph on  *)
(* them and every choice of sizes: the groups stay a partition that keeps  *)
(* cycles together, the group graph stays acyclic, and so the layering     *)
(* reaches every group and the expect of build_plan never fires.           *)
(*                                                                         *)
(* And of PortProgress, for every source, target and configuration: the    *)
(* reports of port-diff add up, and so do the deltas between them; and     *)
(* target code that is only added takes nothing back.                      *)
(***************************************************************************)
EXTENDS PortSchedule, PortProgress, FiniteSetTheorems, TLAPS

-----------------------------------------------------------------------------
(* Natural numbers: a nonempty set of them has a least element.            *)
LEMMA LeastNatural ==
  ASSUME NEW S \in SUBSET Nat, S # {}
  PROVE  \E m \in S : \A n \in S : m <= n
<1>1. PICK m \in S : \A n \in S : <<n, m>> \notin OpToRel(<, Nat)
  BY NatLessThanWellFounded, WFMin
<1>2. \A n \in S : ~(n < m)
  BY <1>1 DEF OpToRel
<1>3. QED
  BY <1>2

(* Min picks it. *)
LEMMA MinIsLeast ==
  ASSUME NEW S \in SUBSET Nat, S # {}
  PROVE  Min(S) \in S /\ \A n \in S : Min(S) <= n
BY LeastNatural DEF Min

-----------------------------------------------------------------------------
(* Among the subsets of a finite set, some are smallest.                   *)
LEMMA MinimalSubset ==
  ASSUME NEW D, IsFiniteSet(D), NEW Bad \in SUBSET SUBSET D, Bad # {}
  PROVE  \E T \in Bad : \A U \in Bad : U \subseteq T => U = T
<1>1. Bad \subseteq FiniteSubsetsOf(D)
  BY FS_Subset DEF FiniteSubsetsOf
<1>2. PICK T \in Bad : \A U \in Bad : <<U, T>> \notin StrictSubsetOrdering(D)
  BY <1>1, FS_StrictSubsetOrderingWellFounded, WFMin
<1>3. \A U \in Bad : U \subseteq T => U = T
  BY <1>2 DEF StrictSubsetOrdering
<1>4. QED
  BY <1>3

(* The sum of the weights of a set, as the library computes it: by taking  *)
(* away one element after the other.                                       *)
Total(w, S) == MapThenSumSet(LAMBDA x : w[x], S)

Picked(s) == CHOOSE x \in s : TRUE

IsSum(w, S, sum) ==
  sum = [s \in SUBSET S |-> IF s = {} THEN 0 ELSE w[Picked(s)] + sum[s \ {Picked(s)}]]

LEMMA TotalIs ==
  ASSUME NEW w, NEW S
  PROVE  Total(w, S) = (CHOOSE sum : IsSum(w, S, sum))[S]
BY DEF Total, MapThenSumSet, MapThenFoldSet, IsSum, Picked

LEMMA PickedIn ==
  ASSUME NEW s, s # {}
  PROVE  Picked(s) \in s
BY DEF Picked

(* What the equation says of a subset.                                     *)
LEMMA IsSumAt ==
  ASSUME NEW w, NEW S, NEW sum, IsSum(w, S, sum), NEW s \in SUBSET S
  PROVE  sum[s] = IF s = {} THEN 0 ELSE w[Picked(s)] + sum[s \ {Picked(s)}]
BY Zenon DEF IsSum

(* Two such sums agree where both are defined.                             *)
LEMMA SumsAgree ==
  ASSUME NEW D, IsFiniteSet(D), NEW w,
         NEW A \in SUBSET D, NEW a, IsSum(w, A, a),
         NEW B \in SUBSET D, NEW b, IsSum(w, B, b)
  PROVE  \A s \in SUBSET (A \cap B) : a[s] = b[s]
<1> DEFINE Bad == {s \in SUBSET (A \cap B) : a[s] # b[s]}
<1>1. ASSUME Bad # {}
      PROVE  FALSE
  <2>1. Bad \in SUBSET SUBSET D
    OBVIOUS
  <2>2. PICK s \in Bad : \A u \in Bad : u \subseteq s => u = s
    <3> HIDE DEF Bad
    <3>1. QED
      BY <1>1, <2>1, MinimalSubset
  <2>3. s \in SUBSET A /\ s \in SUBSET B /\ a[s] # b[s]
    OBVIOUS
  <2>4. s # {}
    BY <2>3, IsSumAt
  <2>5. Picked(s) \in s
    BY <2>4, PickedIn
  <2>6. a[s \ {Picked(s)}] = b[s \ {Picked(s)}]
    BY <2>2, <2>5
  <2>7. a[s] = w[Picked(s)] + a[s \ {Picked(s)}]
    BY <2>3, <2>4, IsSumAt
  <2>8. b[s] = w[Picked(s)] + b[s \ {Picked(s)}]
    BY <2>3, <2>4, IsSumAt
  <2>9. QED
    BY <2>3, <2>6, <2>7, <2>8
<1>2. QED
  BY <1>1

(* There is a sum on the subsets of every set.                             *)
LEMMA SumExists ==
  ASSUME NEW D, IsFiniteSet(D), NEW w \in [D -> Nat], NEW S \in SUBSET D
  PROVE  /\ IsSum(w, S, CHOOSE sum : IsSum(w, S, sum))
         /\ Total(w, S) \in Nat
<1> DEFINE Good(T) == \E sum \in [SUBSET T -> Nat] : IsSum(w, T, sum)
           Bad == {T \in SUBSET D : ~Good(T)}
<1>1. ASSUME Bad # {}
      PROVE  FALSE
  <2>1. Bad \in SUBSET SUBSET D
    OBVIOUS
  <2>2. PICK T \in Bad : \A U \in Bad : U \subseteq T => U = T
    <3> HIDE DEF Bad
    <3>1. QED
      BY <1>1, <2>1, MinimalSubset
  <2>3. T \in SUBSET D /\ ~Good(T) /\ \A U \in SUBSET T : U # T => Good(U)
    BY <2>2
  <2> DEFINE F(s) == (CHOOSE sum : IsSum(w, s, sum))[s]
             Whole == IF T = {} THEN 0 ELSE w[Picked(T)] + F(T \ {Picked(T)})
             all == [s \in SUBSET T |-> IF s = T THEN Whole ELSE F(s)]
  <2>4. ASSUME NEW s \in SUBSET T, s # T
        PROVE  IsSum(w, s, CHOOSE sum : IsSum(w, s, sum))
    BY <2>3, <2>4
  <2>5. ASSUME NEW s \in SUBSET T, s # T
        PROVE  F(s) \in Nat
    <3>1. PICK sum \in [SUBSET s -> Nat] : IsSum(w, s, sum)
      BY <2>3, <2>5
    <3>2. F(s) = sum[s]
      BY <2>3, <2>4, <2>5, <3>1, SumsAgree
    <3>3. QED
      BY <3>1, <3>2
  <2>6. ASSUME NEW s \in SUBSET T, s # T, s # {}
        PROVE  F(s) = w[Picked(s)] + F(s \ {Picked(s)})
    <3> DEFINE f == CHOOSE sum : IsSum(w, s, sum)
               r == s \ {Picked(s)}
               g == CHOOSE sum : IsSum(w, r, sum)
    <3>1. Picked(s) \in s /\ r \in SUBSET T /\ r # T /\ r \in SUBSET (s \cap r)
      BY <2>6, PickedIn
    <3>2. IsSum(w, s, f) /\ IsSum(w, r, g)
      BY <2>4, <2>6, <3>1
    <3> HIDE DEF f, g
    <3>3. f[s] = w[Picked(s)] + f[r]
      BY <2>6, <3>2, IsSumAt
    <3>4. s \in SUBSET D /\ r \in SUBSET D
      BY <2>3
    <3>5. \A u \in SUBSET (s \cap r) : f[u] = g[u]
      BY <3>2, <3>4, SumsAgree
    <3>6. f[r] = g[r]
      BY <3>1, <3>5
    <3>7. QED
      BY <3>3, <3>6 DEF f, g
  <2>7. T # {} => Picked(T) \in T /\ T \ {Picked(T)} \in SUBSET T /\ T \ {Picked(T)} # T
    BY PickedIn
  <2>8. Whole \in Nat
    <3>1. ASSUME T # {}
          PROVE  w[Picked(T)] \in Nat /\ F(T \ {Picked(T)}) \in Nat
      <4>1. Picked(T) \in D
        BY <2>3, <2>7, <3>1
      <4>2. F(T \ {Picked(T)}) \in Nat
        BY <2>5, <2>7, <3>1
      <4>3. QED
        BY <4>1, <4>2
    <3> HIDE DEF F
    <3>2. QED
      BY <3>1
  <2>9. F({}) = 0 \/ T = {}
    <3>1. ASSUME T # {}
          PROVE  F({}) = 0
      <4>1. IsSum(w, {}, CHOOSE sum : IsSum(w, {}, sum))
        BY <2>4, <3>1
      <4>2. QED
        BY <4>1, IsSumAt
    <3>2. QED
      BY <3>1
  <2> HIDE DEF F
  <2>10. all \in [SUBSET T -> Nat]
    BY <2>5, <2>8
  <2>11. IsSum(w, T, all)
    <3>1. ASSUME NEW s \in SUBSET T
          PROVE  all[s] = IF s = {} THEN 0 ELSE w[Picked(s)] + all[s \ {Picked(s)}]
      <4>1. CASE s = {}
        BY <2>9, <4>1
      <4>2. CASE s # {} /\ s = T
        BY <2>7, <4>2
      <4>3. CASE s # {} /\ s # T
        <5>1. Picked(s) \in s
          BY <4>3, PickedIn
        <5>2. s \ {Picked(s)} \in SUBSET T /\ s \ {Picked(s)} # T
          BY <5>1
        <5>3. QED
          BY <2>6, <4>3, <5>2
      <4>4. QED
        BY <4>1, <4>2, <4>3
    <3>2. all = [s \in SUBSET T |-> all[s]]
      OBVIOUS
    <3> HIDE DEF all
    <3>3. QED
      BY <3>1, <3>2 DEF IsSum
  <2>12. QED
    BY <2>3, <2>10, <2>11
<1>2. PICK sum \in [SUBSET S -> Nat] : IsSum(w, S, sum)
  BY <1>1
<1>3. IsSum(w, S, CHOOSE s : IsSum(w, S, s))
  BY <1>2
<1>4. (CHOOSE s : IsSum(w, S, s))[S] = sum[S]
  BY <1>2, <1>3, SumsAgree
<1>5. QED
  BY <1>2, <1>3, <1>4, TotalIs

(* The sum by taking away the element the library picks.                   *)
LEMMA TotalPicked ==
  ASSUME NEW D, IsFiniteSet(D), NEW w \in [D -> Nat], NEW S \in SUBSET D
  PROVE  Total(w, S) = IF S = {} THEN 0 ELSE w[Picked(S)] + Total(w, S \ {Picked(S)})
<1> DEFINE r == S \ {Picked(S)}
           f == CHOOSE sum : IsSum(w, S, sum)
           g == CHOOSE sum : IsSum(w, r, sum)
<1>1. IsSum(w, S, f) /\ IsSum(w, r, g) /\ r \in SUBSET D /\ r \in SUBSET (S \cap r)
  BY SumExists
<1>2. Total(w, S) = f[S] /\ Total(w, r) = g[r]
  BY TotalIs
<1> HIDE DEF f, g
<1>3. f[r] = g[r]
  BY <1>1, SumsAgree
<1>4. f[S] = IF S = {} THEN 0 ELSE w[Picked(S)] + f[r]
  BY <1>1, IsSumAt
<1>5. QED
  BY <1>2, <1>3, <1>4

(* The sum by taking away any element.                                     *)
LEMMA TotalRemove ==
  ASSUME NEW D, IsFiniteSet(D), NEW w \in [D -> Nat], NEW S \in SUBSET D, NEW x \in S
  PROVE  Total(w, S) = w[x] + Total(w, S \ {x})
<1> DEFINE Bad == {T \in SUBSET D : \E y \in T : Total(w, T) # w[y] + Total(w, T \ {y})}
<1>1. ASSUME Bad # {}
      PROVE  FALSE
  <2>1. Bad \in SUBSET SUBSET D
    OBVIOUS
  <2>2. PICK T \in Bad : \A U \in Bad : U \subseteq T => U = T
    <3> HIDE DEF Bad
    <3>1. QED
      BY <1>1, <2>1, MinimalSubset
  <2>3. PICK y \in T : Total(w, T) # w[y] + Total(w, T \ {y})
    OBVIOUS
  <2>4. T \in SUBSET D /\ T # {}
    BY <2>3
  <2> DEFINE c == Picked(T)
  <2>5. c \in T
    BY <2>4, PickedIn
  <2>6. Total(w, T) = w[c] + Total(w, T \ {c})
    BY <2>4, TotalPicked
  <2> HIDE DEF c
  <2>7. c # y
    BY <2>3, <2>6
  <2>8. Total(w, T \ {c}) = w[y] + Total(w, (T \ {c}) \ {y})
    <3>1. T \ {c} \in SUBSET D /\ T \ {c} # T /\ y \in T \ {c}
      BY <2>3, <2>4, <2>5, <2>7
    <3>2. T \ {c} \notin Bad
      <4> HIDE DEF Bad
      <4>1. QED
        BY <2>2, <3>1
    <3>3. \A z \in T \ {c} : Total(w, T \ {c}) = w[z] + Total(w, (T \ {c}) \ {z})
      BY <3>1, <3>2
    <3>4. QED
      BY <3>1, <3>3
  <2>9. Total(w, T \ {y}) = w[c] + Total(w, (T \ {y}) \ {c})
    <3>1. T \ {y} \in SUBSET D /\ T \ {y} # T /\ c \in T \ {y}
      BY <2>3, <2>4, <2>5, <2>7
    <3>2. T \ {y} \notin Bad
      <4> HIDE DEF Bad
      <4>1. QED
        BY <2>2, <3>1
    <3>3. \A z \in T \ {y} : Total(w, T \ {y}) = w[z] + Total(w, (T \ {y}) \ {z})
      BY <3>1, <3>2
    <3>4. QED
      BY <3>1, <3>3
  <2>10. (T \ {c}) \ {y} = (T \ {y}) \ {c}
    OBVIOUS
  <2>11. Total(w, (T \ {c}) \ {y}) \in Nat /\ w[c] \in Nat /\ w[y] \in Nat
    BY <2>4, <2>5, SumExists
  <2>12. QED
    BY <2>3, <2>6, <2>8, <2>9, <2>10, <2>11
<1>2. QED
  BY <1>1

(* The sum of two sets that have nothing in common.                        *)
LEMMA TotalUnion ==
  ASSUME NEW D, IsFiniteSet(D), NEW w \in [D -> Nat],
         NEW A \in SUBSET D, NEW B \in SUBSET D, A \cap B = {}
  PROVE  Total(w, A \cup B) = Total(w, A) + Total(w, B)
<1> DEFINE Bad == {T \in SUBSET B : Total(w, A \cup T) # Total(w, A) + Total(w, T)}
<1>1. ASSUME Bad # {}
      PROVE  FALSE
  <2>1. Bad \in SUBSET SUBSET D
    OBVIOUS
  <2>2. PICK T \in Bad : \A U \in Bad : U \subseteq T => U = T
    <3> HIDE DEF Bad
    <3>1. QED
      BY <1>1, <2>1, MinimalSubset
  <2>3. T \in SUBSET B /\ Total(w, A \cup T) # Total(w, A) + Total(w, T)
    OBVIOUS
  <2>4. Total(w, A) \in Nat /\ Total(w, {}) = 0
    BY SumExists, TotalPicked
  <2>5. T # {}
    <3>1. T = {} => A \cup T = A
      OBVIOUS
    <3>2. QED
      BY <2>3, <2>4, <3>1
  <2>6. PICK x \in T : TRUE
    BY <2>5
  <2> DEFINE R == T \ {x}
  <2>7. R \in SUBSET B /\ x \in A \cup T /\ x \notin A /\ (A \cup T) \ {x} = A \cup R
    BY <2>3, <2>6
  <2>8. Total(w, A \cup R) = Total(w, A) + Total(w, R)
    BY <2>2, <2>6, <2>7
  <2>9. Total(w, T) = w[x] + Total(w, R)
    BY <2>3, <2>6, TotalRemove
  <2>10. A \cup T \in SUBSET D
    BY <2>3
  <2>11. Total(w, A \cup T) = w[x] + Total(w, (A \cup T) \ {x})
    BY <2>7, <2>10, TotalRemove
  <2>12. Total(w, R) \in Nat /\ w[x] \in Nat
    BY <2>3, <2>6, SumExists
  <2>13. Total(w, A \cup T) = w[x] + Total(w, A \cup R)
    BY <2>7, <2>11
  <2>14. Total(w, A \cup T) = w[x] + (Total(w, A) + Total(w, R))
    BY <2>8, <2>13
  <2> HIDE DEF R
  <2>15. Total(w, A) \in Nat /\ Total(w, R) \in Nat /\ w[x] \in Nat
    BY <2>4, <2>12
  <2>16. w[x] + (Total(w, A) + Total(w, R)) = Total(w, A) + (w[x] + Total(w, R))
    BY ONLY <2>15
  <2>17. QED
    BY <2>3, <2>9, <2>14, <2>16
<1>2. QED
  BY <1>1

-----------------------------------------------------------------------------
(* A node needs itself, and only nodes.                                    *)
LEMMA NeedsSelf ==
  ASSUME NEW adj, NEW m \in DOMAIN adj
  PROVE  m \in Needs(adj, m) /\ Needs(adj, m) \subseteq DOMAIN adj
BY DEF Needs

(* What a needed node needs is needed.                                     *)
LEMMA NeedsTransitive ==
  ASSUME NEW adj, NEW m, NEW n \in Needs(adj, m)
  PROVE  Needs(adj, n) \subseteq Needs(adj, m)
BY DEF Needs

(* What a node depends on is needed.                                       *)
LEMMA NeedsDeps ==
  ASSUME NEW adj, NEW m \in DOMAIN adj, adj[m] \subseteq DOMAIN adj
  PROVE  adj[m] \subseteq Needs(adj, m)
BY DEF Needs

(* A node lies on its own cycle, and the members of a cycle have the same  *)
(* cycle.                                                                  *)
LEMMA CycleOfSelf ==
  ASSUME NEW adj, NEW m \in DOMAIN adj
  PROVE  m \in CycleOf(adj, m) /\ CycleOf(adj, m) \subseteq DOMAIN adj
BY NeedsSelf DEF CycleOf

LEMMA CycleOfMember ==
  ASSUME NEW adj, NEW m \in DOMAIN adj, NEW n \in CycleOf(adj, m)
  PROVE  CycleOf(adj, n) = CycleOf(adj, m)
<1>1. n \in Needs(adj, m) /\ m \in Needs(adj, n)
  BY DEF CycleOf
<1>2. Needs(adj, n) = Needs(adj, m)
  BY <1>1, NeedsTransitive
<1>3. ASSUME NEW x \in Needs(adj, m)
      PROVE  m \in Needs(adj, x) <=> n \in Needs(adj, x)
  BY <1>1, NeedsTransitive
<1>4. QED
  BY <1>2, <1>3 DEF CycleOf

(* Some node of a nonempty set of nodes needs no more than the others.     *)
LEMMA LeastNeeds ==
  ASSUME NEW adj, IsFiniteSet(DOMAIN adj),
         NEW S \in SUBSET DOMAIN adj, S # {}
  PROVE  \E x \in S : \A y \in S :
           Cardinality(Needs(adj, x)) <= Cardinality(Needs(adj, y))
<1> DEFINE Sizes == {Cardinality(Needs(adj, x)) : x \in S}
<1>1. \A x \in S : IsFiniteSet(Needs(adj, x))
  BY NeedsSelf, FS_Subset
<1>2. Sizes \in SUBSET Nat /\ Sizes # {}
  BY <1>1, FS_CardinalityType
<1>3. PICK m \in Sizes : \A n \in Sizes : m <= n
  BY <1>2, LeastNatural
<1>4. QED
  BY <1>3

(* Such a node can only need members of the set that are on its cycle.     *)
LEMMA SinkExists ==
  ASSUME NEW adj, IsFiniteSet(DOMAIN adj),
         NEW S \in SUBSET DOMAIN adj, S # {}
  PROVE  \E x \in S : Needs(adj, x) \cap S \subseteq CycleOf(adj, x)
<1>1. PICK x \in S : \A y \in S :
         Cardinality(Needs(adj, x)) <= Cardinality(Needs(adj, y))
  BY LeastNeeds
<1>2. ASSUME NEW y \in Needs(adj, x) \cap S
      PROVE  y \in CycleOf(adj, x)
  <2>1. Needs(adj, y) \subseteq Needs(adj, x)
    BY NeedsTransitive
  <2>2. IsFiniteSet(Needs(adj, x))
    BY NeedsSelf, FS_Subset
  <2>3. /\ Cardinality(Needs(adj, y)) <= Cardinality(Needs(adj, x))
        /\ Cardinality(Needs(adj, y)) \in Nat
        /\ Cardinality(Needs(adj, x)) \in Nat
    BY <2>1, <2>2, FS_Subset, FS_CardinalityType
  <2>4. Needs(adj, y) = Needs(adj, x)
    BY <1>1, <2>1, <2>2, <2>3, FS_Subset
  <2>5. QED
    BY <2>4, NeedsSelf DEF CycleOf
<1>3. QED
  BY <1>2

-----------------------------------------------------------------------------
(* The files and their dependencies are an adjacency map of the kind above.*)
LEMMA FileDepsMap ==
  /\ DOMAIN FileDeps = File
  /\ IsFiniteSet(DOMAIN FileDeps)
  /\ \A f \in File : FileDeps[f] \subseteq File
BY FileAssumption DEF FileDeps

(* The groups build_plan starts from, cycles and lone files, are exactly   *)
(* the strongly connected components.                                      *)
LEMMA PartsAreCycles ==
  file_sccs \cup {{f} : f \in File \ UNION file_sccs}
    = {CycleOf(FileDeps, f) : f \in File}
<1> DEFINE C(f) == CycleOf(FileDeps, f)
<1>1. \A f \in File : f \in C(f) /\ C(f) \subseteq File
  BY CycleOfSelf, FileDepsMap
<1>2. \A f \in File : \A g \in C(f) : C(g) = C(f)
  BY CycleOfMember, FileDepsMap
<1>3. file_sccs = {G \in {C(f) : f \in File} : G # {Min(G)}}
  BY DEF file_sccs
<1> HIDE DEF C
<1>4. ASSUME NEW f \in File, f \notin UNION file_sccs
      PROVE  {f} = C(f)
  BY <1>1, <1>3, <1>4
<1>5. ASSUME NEW f \in File, C(f) \notin file_sccs
      PROVE  C(f) = {f} /\ f \notin UNION file_sccs
  <2>1. C(f) = {Min(C(f))}
    BY <1>3, <1>5
  <2>2. C(f) = {f}
    BY <1>1, <2>1
  <2>3. ASSUME NEW G \in file_sccs, f \in G
        PROVE  FALSE
    BY <1>2, <1>3, <1>5, <2>3
  <2>4. QED
    BY <2>2, <2>3
<1>6. ASSUME NEW G \in file_sccs
      PROVE  G \in {C(f) : f \in File}
  BY <1>3
<1>7. file_sccs \cup {{f} : f \in File \ UNION file_sccs} = {C(f) : f \in File}
  BY <1>4, <1>5, <1>6
<1>8. QED
  BY <1>7 DEF C

-----------------------------------------------------------------------------
(***************************************************************************)
(* The inductive invariant.  The groups are a partition along the cycles,  *)
(* the group graph is acyclic, and the counters of the layering mean what  *)
(* they are meant to: a group is ready exactly when it has no wave yet and *)
(* all it depends on has one.                                              *)
(***************************************************************************)
StaysAcyclic == phase # "graph" => Acyclic(deps)

CountersRight ==
  /\ phase \in {"graph", "coalesce"} => DOMAIN wave = {} /\ ready = {}
  /\ phase = "layer" =>
       /\ pending = [g \in Index |-> Cardinality(deps[g] \ DOMAIN wave)]
       /\ ready = {g \in Index \ DOMAIN wave : deps[g] \subseteq DOMAIN wave}

IdsRight ==
  phase = "done" =>
    /\ DOMAIN wave = Index
    /\ group_id = [g \in Index |-> Cardinality({h \in Index : ComesBefore(h, g)})]

PlanInv ==
  /\ TypeOK
  /\ GroupsPartition
  /\ CyclesStayTogether
  /\ StaysAcyclic
  /\ CountersRight
  /\ WavesFollowDeps
  /\ NeverPanics
  /\ IdsRight

(* The edges of a project are between files.                               *)
LEMMA EdgesBetweenFiles ==
  ASSUME project \in Project
  PROVE  /\ file_deps \subseteq File \X File
         /\ \A p \in file_deps : /\ p[1] \in File /\ p[2] \in File
                                  /\ p[2] \in FileDeps[p[1]]
<1>1. file_deps \subseteq File \X File
  BY ProjectAssumption DEF file_deps
<1>2. ASSUME NEW p \in file_deps
      PROVE  p[1] \in File /\ p[2] \in File /\ p[2] \in FileDeps[p[1]]
  <2>1. p = <<p[1], p[2]>> /\ p[1] \in File /\ p[2] \in File
    BY <1>1
  <2>2. QED
    BY <2>1 DEF FileDeps
<1>3. QED
  BY <1>1, <1>2

(* Groups depend on other groups.                                          *)
LEMMA DepsInIndex ==
  /\ DOMAIN deps = Index
  /\ \A g \in Index : deps[g] \subseteq Index \ {g}
BY DEF deps, group_deps, Index

(* The indices of the groups are finitely many.                            *)
LEMMA IndexFinite ==
  ASSUME TypeOK
  PROVE  /\ IsFiniteSet(Index)
         /\ \A S \in SUBSET Index : IsFiniteSet(S) /\ Cardinality(S) \in Nat
BY FS_Subset, FS_CardinalityType, FileAssumption DEF TypeOK

LEMMA InitInv == Init => PlanInv
<1> SUFFICES ASSUME Init PROVE PlanInv
  OBVIOUS
<1>1. Index = {} /\ DOMAIN wave = {}
  BY DEF Init, Index
<1>2. TypeOK
  BY <1>1 DEF Init, TypeOK
<1>3. QED
  BY <1>1, <1>2 DEF Init, PlanInv, GroupsPartition, CyclesStayTogether,
                    StaysAcyclic, CountersRight, WavesFollowDeps, NeverPanics, IdsRight

-----------------------------------------------------------------------------
(* What FormGroups makes of the cycles: the group of a file is its cycle,  *)
(* named by its smallest file.                                             *)
LEMMA FormedGroups ==
  ASSUME TypeOK, FormGroups(file_sccs)
  PROVE  /\ Index' = {Min(CycleOf(FileDeps, f)) : f \in File}
         /\ \A f \in File : /\ group_of'[f] = Min(CycleOf(FileDeps, f))
                            /\ groups'[group_of'[f]] = CycleOf(FileDeps, f)
                            /\ group_of'[f] \in CycleOf(FileDeps, f)
         /\ group_of' = [f \in File |-> group_of'[f]]
         /\ groups' = [g \in Index' |-> groups'[g]]
<1> DEFINE C(f) == CycleOf(FileDeps, f)
           all == {C(f) : f \in File}
<1>1. \A f \in File : f \in C(f) /\ C(f) \subseteq File
  BY CycleOfSelf, FileDepsMap
<1>2. \A f \in File : \A g \in C(f) : C(g) = C(f)
  BY CycleOfMember, FileDepsMap
<1>3. /\ groups' = [g \in {Min(G) : G \in all} |-> CHOOSE G \in all : g \in G]
      /\ group_of' = [f \in File |-> Min(CHOOSE G \in all : f \in G)]
  <2> DEFINE parts == file_sccs \cup {{f} : f \in File \ UNION file_sccs}
  <2>1. /\ groups' = [g \in {Min(G) : G \in parts} |-> CHOOSE G \in parts : g \in G]
        /\ group_of' = [f \in File |-> Min(CHOOSE G \in parts : f \in G)]
    BY Zenon DEF FormGroups
  <2>2. parts = all
    BY PartsAreCycles
  <2> HIDE DEF parts, all
  <2>3. QED
    BY <2>1, <2>2
<1> HIDE DEF C
<1>4. \A f \in File : Min(C(f)) \in C(f)
  <2> TAKE f \in File
  <2>1. C(f) \in SUBSET Nat /\ C(f) # {}
    BY <1>1, FileAssumption
  <2>2. QED
    BY <2>1, MinIsLeast
<1>5. ASSUME NEW f \in File, NEW g \in C(f)
      PROVE  (CHOOSE G \in all : g \in G) = C(f)
  <2>1. \A G \in all : g \in G => G = C(f)
    BY <1>1, <1>2
  <2>2. C(f) \in all /\ g \in C(f)
    OBVIOUS
  <2>3. QED
    BY <2>1, <2>2
<1>6. \A f \in File : group_of'[f] = Min(C(f))
  BY <1>1, <1>3, <1>5
<1>7. Index' = {Min(C(f)) : f \in File}
  BY <1>3 DEF Index
<1>8. \A f \in File : groups'[group_of'[f]] = C(f)
  <2> TAKE f \in File
  <2> DEFINE x == Min(C(f))
  <2>1. x \in {Min(G) : G \in all} /\ x \in C(f)
    BY <1>4
  <2>2. groups'[x] = CHOOSE G \in all : x \in G
    <3> HIDE DEF x, all
    <3>1. QED
      BY <1>3, <2>1
  <2>3. (CHOOSE G \in all : x \in G) = C(f)
    BY <1>5, <2>1
  <2>4. QED
    BY <1>6, <2>2, <2>3
<1>9. group_of' = [f \in File |-> group_of'[f]] /\ groups' = [g \in Index' |-> groups'[g]]
  <2> DEFINE part(f) == CHOOSE G \in all : f \in G
             top(f) == Min(part(f))
  <2>1. /\ groups' = [g \in {Min(G) : G \in all} |-> part(g)]
        /\ group_of' = [f \in File |-> top(f)]
    BY <1>3
  <2>2. Index' = DOMAIN groups'
    BY DEF Index
  <2> HIDE DEF part, top, all
  <2>3. QED
    BY <2>1, <2>2
<1>10. QED
  BY <1>4, <1>6, <1>7, <1>8, <1>9 DEF C

(* The groups that are formed keep the types.                              *)
LEMMA FormTypeOK == TypeOK /\ CountersRight /\ FormGroups(file_sccs) => TypeOK'
<1> SUFFICES ASSUME TypeOK, CountersRight, FormGroups(file_sccs) PROVE TypeOK'
  OBVIOUS
<1> DEFINE C(f) == CycleOf(FileDeps, f)
<1>1. \A f \in File : C(f) \subseteq File
  BY CycleOfSelf, FileDepsMap
<1>2. /\ Index' = {Min(C(f)) : f \in File}
      /\ \A f \in File : /\ group_of'[f] = Min(C(f))
                         /\ groups'[group_of'[f]] = C(f)
                         /\ group_of'[f] \in C(f)
      /\ group_of' = [f \in File |-> group_of'[f]]
      /\ groups' = [g \in Index' |-> groups'[g]]
  BY FormedGroups
<1>3. UNCHANGED <<project, pending, ready, wave, group_id>>
      /\ phase = "graph" /\ phase' = "coalesce"
      /\ is_cycle' = {Min(G) : G \in file_sccs}
  BY DEF FormGroups
<1>4. is_cycle' \subseteq Index'
  BY <1>2, <1>3 DEF file_sccs
<1> HIDE DEF C
<1>5. Index' \subseteq File
  BY <1>1, <1>2
<1>6. groups' \in [Index' -> SUBSET File]
  BY <1>1, <1>2
<1>7. group_of' \in [File -> Index']
  BY <1>2
<1>8. DOMAIN wave = {} /\ ready = {}
  BY <1>3 DEF CountersRight
<1>9. QED
  BY <1>3, <1>4, <1>5, <1>6, <1>7, <1>8 DEF TypeOK

(* What group_deps computes, whatever it is given.                         *)
LEMMA GroupDepsAre ==
  ASSUME NEW gs, NEW of, NEW edges
  PROVE  /\ DOMAIN group_deps(gs, of, edges) = DOMAIN gs
         /\ \A g \in DOMAIN gs : \A h :
              h \in group_deps(gs, of, edges)[g] <=>
                /\ h \in DOMAIN gs \ {g}
                /\ \E p \in edges : of[p[1]] = g /\ of[p[2]] = h
BY DEF group_deps

(* Forming the groups establishes the invariant.  The group graph is       *)
(* acyclic because a file of any set of groups that needs fewest files     *)
(* depends on no other group of the set: it would be on a cycle with it.   *)
LEMMA FormInv == PlanInv /\ FormGroups(file_sccs) => PlanInv'
<1> SUFFICES ASSUME PlanInv, FormGroups(file_sccs) PROVE PlanInv'
  OBVIOUS
<1> DEFINE C(f) == CycleOf(FileDeps, f)
<1>1. /\ TypeOK /\ CountersRight /\ project \in Project
  BY DEF PlanInv, TypeOK
<1>2. \A f \in File : f \in C(f) /\ C(f) \subseteq File
  BY CycleOfSelf, FileDepsMap
<1>3. \A f \in File : \A g \in C(f) : C(g) = C(f)
  BY CycleOfMember, FileDepsMap
<1>4. /\ Index' = {Min(C(f)) : f \in File}
      /\ \A f \in File : /\ group_of'[f] = Min(C(f))
                         /\ groups'[group_of'[f]] = C(f)
  BY <1>1, FormedGroups
<1>5. /\ phase' = "coalesce"
      /\ DOMAIN wave' = {} /\ ready' = {}
      /\ file_deps' = file_deps /\ FileDeps' = FileDeps
  BY <1>1 DEF FormGroups, CountersRight, file_deps, FileDeps
<1>6. TypeOK'
  BY <1>1, FormTypeOK
<1>7. ASSUME NEW S \in SUBSET Index', S # {}
      PROVE  \E n \in S : \A h \in S : h \in Index' \ {n} =>
               ~ \E p \in file_deps : group_of'[p[1]] = n /\ group_of'[p[2]] = h
  <2> DEFINE X == {f \in File : group_of'[f] \in S}
  <2>1. X \in SUBSET DOMAIN FileDeps /\ X # {}
    BY <1>4, <1>7, FileDepsMap
  <2>2. PICK x \in X : Needs(FileDeps, x) \cap X \subseteq C(x)
    BY <2>1, SinkExists, FileDepsMap
  <2>3. x \in File /\ group_of'[x] \in S
    BY <2>2
  <2>4. ASSUME NEW h \in S, h \in Index' \ {group_of'[x]},
               NEW p \in file_deps, group_of'[p[1]] = group_of'[x], group_of'[p[2]] = h
        PROVE  FALSE
    <3>1. p[1] \in File /\ p[2] \in File /\ p[2] \in FileDeps[p[1]]
      BY <1>1, EdgesBetweenFiles
    <3>2. p[1] \in C(x)
      BY <1>2, <1>4, <2>3, <2>4, <3>1
    <3>3. p[2] \in Needs(FileDeps, x)
      <4>1. p[1] \in Needs(FileDeps, x)
        BY <3>2 DEF CycleOf
      <4>2. p[2] \in Needs(FileDeps, p[1])
        BY <3>1, NeedsDeps, FileDepsMap
      <4>3. QED
        BY <4>1, <4>2, NeedsTransitive
    <3>4. p[2] \in C(x)
      BY <2>2, <2>4, <3>1, <3>3
    <3>5. QED
      BY <1>3, <1>4, <2>3, <2>4, <3>1, <3>4
  <2>5. QED
    BY <2>3, <2>4
<1>8. Acyclic(deps)'
  <2>1. deps' = group_deps(groups', group_of', file_deps)
    BY <1>5 DEF deps
  <2>2. DOMAIN deps' = Index'
    BY <2>1, GroupDepsAre DEF Index
  <2>3. \A g \in Index' : \A h \in deps'[g] :
          /\ h \in Index' \ {g}
          /\ \E p \in file_deps : group_of'[p[1]] = g /\ group_of'[p[2]] = h
    BY <2>1, GroupDepsAre DEF Index
  <2> HIDE DEF C
  <2>4. \A S \in SUBSET DOMAIN deps' : S # {} => \E n \in S : deps'[n] \cap S = {}
    BY <1>7, <2>2, <2>3
  <2>5. QED
    BY <2>4 DEF Acyclic
<1> HIDE DEF C
<1>9. GroupsPartition'
  <2>1. ASSUME NEW f0 \in File
        PROVE  C(f0) = {f \in File : group_of'[f] = group_of'[f0]}
    BY <1>2, <1>3, <1>4
  <2>2. \A g \in Index' : \E f0 \in File : g = group_of'[f0]
    BY <1>4
  <2>3. QED
    BY <1>2, <1>4, <2>1, <2>2 DEF GroupsPartition
<1>10. CyclesStayTogether'
  <2>1. \A f \in File : \A g \in C(f) : group_of'[f] = group_of'[g]
    BY <1>2, <1>3, <1>4
  <2>2. QED
    BY <1>5, <2>1 DEF CyclesStayTogether, C
<1>11. StaysAcyclic' /\ CountersRight' /\ WavesFollowDeps' /\ NeverPanics' /\ IdsRight'
  BY <1>5, <1>8 DEF StaysAcyclic, CountersRight, WavesFollowDeps, NeverPanics, IdsRight
<1>12. QED
  BY <1>6, <1>9, <1>10, <1>11 DEF PlanInv

-----------------------------------------------------------------------------
(* A merge keeps the invariant: the files of h move to g, so the groups    *)
(* stay a partition, and the guard has looked at the graph that results.   *)
LEMMA MergeInv ==
  ASSUME PlanInv, NEW g \in Index, NEW h \in Index, Merge(g, h)
  PROVE  PlanInv'
<1>1. /\ TypeOK /\ GroupsPartition /\ CountersRight /\ CyclesStayTogether
      /\ phase = "coalesce" /\ phase' = "coalesce"
  BY DEF PlanInv, Merge
<1>2. /\ Index \subseteq File /\ groups \in [Index -> SUBSET File]
      /\ group_of \in [File -> Index] /\ is_cycle \subseteq Index
      /\ \A x \in Index : groups[x] = {f \in File : group_of[f] = x}
      /\ \A x \in Index : groups[x] # {}
  BY <1>1 DEF TypeOK, GroupsPartition
<1>3. g # h
  BY DepsInIndex DEF Merge, IsChosen, CanMerge
<1>4. Index' = Index \ {h}
  BY DEF Merge, MergedGroups, Index
<1>5. /\ groups' = [x \in Index' |-> IF x = g THEN groups[g] \cup groups[h] ELSE groups[x]]
      /\ group_of' = [f \in File |-> IF group_of[f] = h THEN g ELSE group_of[f]]
  <2>1. groups' = [x \in Index' |-> IF x = g THEN groups[g] \cup groups[h] ELSE groups[x]]
    BY <1>4 DEF Merge, MergedGroups, Index
  <2>2. group_of' = [f \in File |-> IF f \in groups[h] THEN g ELSE group_of[f]]
    BY DEF Merge, Retagged
  <2>3. \A f \in File : f \in groups[h] <=> group_of[f] = h
    BY <1>2
  <2>4. QED
    BY <2>1, <2>2, <2>3
<1>6. TypeOK'
  <2>1. Index' \subseteq File /\ groups' \in [Index' -> SUBSET File]
    BY <1>2, <1>4, <1>5
  <2>2. group_of' \in [File -> Index']
    BY <1>2, <1>3, <1>4, <1>5
  <2>3. is_cycle' \subseteq Index'
    BY <1>2, <1>3, <1>4 DEF Merge
  <2>4. UNCHANGED <<project, pending, ready, wave, group_id>> /\ DOMAIN wave = {} /\ ready = {}
    BY <1>1 DEF Merge, CountersRight
  <2>5. QED
    BY <1>1, <2>1, <2>2, <2>3, <2>4 DEF TypeOK
<1>7. GroupsPartition'
  <2>1. \A x \in Index' : groups'[x] = {f \in File : group_of'[f] = x}
    BY <1>2, <1>3, <1>4, <1>5
  <2>2. \A x \in Index' : groups'[x] # {}
    BY <1>2, <1>4, <1>5
  <2>3. QED
    BY <2>1, <2>2 DEF GroupsPartition
<1>8. CyclesStayTogether'
  <2>1. FileDeps' = FileDeps
    BY DEF Merge, FileDeps, file_deps
  <2>2. \A f \in File : CycleOf(FileDeps, f) \subseteq File
    BY CycleOfSelf, FileDepsMap
  <2>3. \A f \in File : \A x \in CycleOf(FileDeps, f) : group_of'[f] = group_of'[x]
    BY <1>1, <1>5, <2>2 DEF CyclesStayTogether
  <2>4. QED
    BY <2>1, <2>3 DEF CyclesStayTogether
<1>9. StaysAcyclic'
  <2>1. deps' = group_deps(MergedGroups(g, h), Retagged(g, h), file_deps)
    BY DEF deps, Merge, file_deps
  <2>2. Acyclic(group_deps(MergedGroups(g, h), Retagged(g, h), file_deps))
    BY DEF Merge, IsChosen, CanMerge, merge_keeps_dag
  <2>3. Acyclic(deps')
    BY <2>1, <2>2
  <2>4. QED
    BY <2>3 DEF StaysAcyclic, Acyclic
<1>10. CountersRight' /\ WavesFollowDeps' /\ NeverPanics' /\ IdsRight'
  BY <1>1 DEF Merge, CountersRight, WavesFollowDeps, NeverPanics, IdsRight
<1>11. QED
  BY <1>6, <1>7, <1>8, <1>9, <1>10 DEF PlanInv

-----------------------------------------------------------------------------
(* The steps of the layering leave the groups as they are.                 *)
LEMMA GroupsSettled ==
  ASSUME PlanInv, phase # "graph", phase' # "graph",
         UNCHANGED <<project, groups, group_of, is_cycle>>
  PROVE  /\ GroupsPartition' /\ CyclesStayTogether' /\ StaysAcyclic'
         /\ Index' = Index /\ deps' = deps /\ file_deps' = file_deps
<1>1. /\ Index' = Index /\ file_deps' = file_deps /\ FileDeps' = FileDeps
  BY DEF Index, file_deps, FileDeps
<1>2. deps' = deps
  BY <1>1 DEF deps, group_deps
<1>3. GroupsPartition' /\ CyclesStayTogether'
  BY <1>1 DEF PlanInv, GroupsPartition, CyclesStayTogether
<1>4. StaysAcyclic'
  BY <1>2 DEF PlanInv, StaysAcyclic, Acyclic
<1>5. QED
  BY <1>1, <1>2, <1>3, <1>4

(* The counters of the layering start out right.                           *)
LEMMA StartLayeringInv == PlanInv /\ StartLayering => PlanInv'
<1> SUFFICES ASSUME PlanInv, StartLayering PROVE PlanInv'
  OBVIOUS
<1>1. /\ TypeOK /\ CountersRight
      /\ phase = "coalesce" /\ phase' = "layer"
      /\ UNCHANGED <<project, groups, group_of, is_cycle, wave, group_id>>
  BY DEF PlanInv, StartLayering
<1>2. DOMAIN wave = {}
  BY <1>1 DEF CountersRight
<1>3. /\ GroupsPartition' /\ CyclesStayTogether' /\ StaysAcyclic'
      /\ Index' = Index /\ deps' = deps
  BY <1>1, GroupsSettled
<1>4. /\ pending' = [g \in Index |-> Cardinality(deps[g])]
      /\ ready' = {g \in Index : deps[g] = {}}
  BY DEF StartLayering, Index
<1>5. \A g \in Index : Cardinality(deps[g]) \in Nat /\ deps[g] \ {} = deps[g]
  BY <1>1, IndexFinite, DepsInIndex
<1>6. TypeOK'
  BY <1>1, <1>2, <1>3, <1>4, <1>5 DEF TypeOK
<1>7. CountersRight'
  <2>1. pending' = [g \in Index' |-> Cardinality(deps'[g] \ DOMAIN wave')]
    BY <1>1, <1>2, <1>3, <1>4, <1>5
  <2>2. ready' = {g \in Index' \ DOMAIN wave' : deps'[g] \subseteq DOMAIN wave'}
    BY <1>1, <1>2, <1>3, <1>4
  <2>3. QED
    BY <1>1, <2>1, <2>2 DEF CountersRight
<1>8. WavesFollowDeps' /\ NeverPanics' /\ IdsRight'
  BY <1>1, <1>2 DEF WavesFollowDeps, NeverPanics, IdsRight
<1>9. QED
  BY <1>3, <1>6, <1>7, <1>8 DEF PlanInv

(* Resolving a group keeps the counters right: the groups that become      *)
(* ready are those whose only unresolved dependency it was.                *)
LEMMA ResolveInv ==
  ASSUME PlanInv, NEW g \in ready, Resolve(g)
  PROVE  PlanInv'
<1>1. /\ TypeOK /\ CountersRight /\ WavesFollowDeps
      /\ phase = "layer" /\ phase' = "layer"
      /\ UNCHANGED <<project, groups, group_of, is_cycle, group_id>>
  BY DEF PlanInv, Resolve
<1>2. /\ GroupsPartition' /\ CyclesStayTogether' /\ StaysAcyclic'
      /\ Index' = Index /\ deps' = deps
  BY <1>1, GroupsSettled
<1>3. /\ \A x \in Index : pending[x] = Cardinality(deps[x] \ DOMAIN wave)
      /\ ready = {x \in Index \ DOMAIN wave : deps[x] \subseteq DOMAIN wave}
      /\ DOMAIN wave \subseteq Index
      /\ wave \in [DOMAIN wave -> Nat]
  BY <1>1 DEF CountersRight, TypeOK
<1>4. /\ g \in Index /\ g \notin DOMAIN wave /\ deps[g] \subseteq DOMAIN wave
  BY <1>3
<1>5. PICK w \in 0 .. Cardinality(File) :
        /\ IsWaveAfter(w, deps[g])
        /\ wave' = [x \in DOMAIN wave \cup {g} |-> IF x = g THEN w ELSE wave[x]]
  BY DEF Resolve
<1>6. /\ DOMAIN wave' = DOMAIN wave \cup {g} /\ wave'[g] = w
      /\ \A x \in DOMAIN wave : wave'[x] = wave[x]
  BY <1>4, <1>5
<1>7. /\ pending' = [x \in Index |-> IF g \in deps[x] THEN pending[x] - 1 ELSE pending[x]]
      /\ ready' = (ready \ {g}) \cup {x \in Index : g \in deps[x] /\ pending[x] = 1}
  BY DEF Resolve, Index
<1> DEFINE Left(x) == deps[x] \ DOMAIN wave
<1>8. ASSUME NEW x \in Index
      PROVE  /\ Cardinality(Left(x)) \in Nat
             /\ g \in deps[x] => /\ Cardinality(Left(x) \ {g}) = Cardinality(Left(x)) - 1
                                 /\ Cardinality(Left(x) \ {g}) \in Nat
             /\ g \in deps[x] => (Cardinality(Left(x)) = 1 <=> Left(x) = {g})
             /\ deps[x] \ DOMAIN wave' = Left(x) \ {g}
  <2>1. IsFiniteSet(Left(x)) /\ Cardinality(Left(x)) \in Nat
    BY <1>1, IndexFinite, DepsInIndex
  <2>2. ASSUME g \in deps[x]
        PROVE  /\ Cardinality(Left(x) \ {g}) = Cardinality(Left(x)) - 1
               /\ Cardinality(Left(x) \ {g}) \in Nat
               /\ Cardinality(Left(x)) = 1 <=> Left(x) = {g}
    <3>1. g \in Left(x)
      BY <1>4, <2>2
    <3> HIDE DEF Left
    <3>2. /\ IsFiniteSet(Left(x) \ {g})
          /\ Cardinality(Left(x) \ {g}) = Cardinality(Left(x)) - 1
      BY <2>1, <3>1, FS_RemoveElement
    <3>3. Cardinality(Left(x) \ {g}) \in Nat
      BY <3>2, FS_CardinalityType
    <3>4. Cardinality(Left(x) \ {g}) = 0 <=> Left(x) \ {g} = {}
      BY <3>2, FS_EmptySet
    <3>5. QED
      BY <2>1, <3>1, <3>2, <3>3, <3>4
  <2>3. deps[x] \ DOMAIN wave' = Left(x) \ {g}
    BY <1>6
  <2>4. QED
    BY <2>1, <2>2, <2>3
<1>9. \A x \in Index : pending'[x] = Cardinality(deps[x] \ DOMAIN wave') /\ pending'[x] \in Nat
  <2> TAKE x \in Index
  <2>1. pending[x] = Cardinality(Left(x))
    BY <1>3
  <2>2. g \notin deps[x] => Left(x) \ {g} = Left(x)
    OBVIOUS
  <2> HIDE DEF Left
  <2>3. QED
    BY <1>7, <1>8, <2>1, <2>2
<1>10. ready' = {x \in Index \ DOMAIN wave' : deps[x] \subseteq DOMAIN wave'}
  <2>1. ASSUME NEW x \in ready'
        PROVE  x \in Index /\ x \notin DOMAIN wave' /\ deps[x] \subseteq DOMAIN wave'
    <3>1. CASE x \in ready \ {g}
      BY <1>3, <1>6, <3>1
    <3>2. CASE x \in Index /\ g \in deps[x] /\ pending[x] = 1
      <4>1. Left(x) = {g}
        BY <1>3, <1>8, <3>2
      <4>2. x # g
        BY <3>2, DepsInIndex
      <4>3. x \notin DOMAIN wave
        BY <1>1, <1>4, <3>2 DEF WavesFollowDeps
      <4>4. QED
        BY <1>6, <3>2, <4>1, <4>2, <4>3
    <3>3. QED
      BY <1>7, <2>1, <3>1, <3>2
  <2>2. ASSUME NEW x \in Index, x \notin DOMAIN wave', deps[x] \subseteq DOMAIN wave'
        PROVE  x \in ready'
    <3>1. x \notin DOMAIN wave /\ x # g
      BY <1>6, <2>2
    <3>2. CASE g \in deps[x]
      <4>1. Left(x) = {g}
        BY <1>4, <1>6, <2>2, <3>2
      <4>2. pending[x] = 1
        <5>1. pending[x] = Cardinality(Left(x))
          BY <1>3
        <5>2. Cardinality(Left(x)) = 1
          <6> HIDE DEF Left
          <6>1. QED
            BY <1>8, <3>2, <4>1
        <5>3. QED
          BY <5>1, <5>2
      <4>3. QED
        BY <1>7, <3>2, <4>2
    <3>3. CASE g \notin deps[x]
      BY <1>3, <1>6, <1>7, <2>2, <3>1, <3>3
    <3>4. QED
      BY <3>2, <3>3
  <2>3. QED
    BY <2>1, <2>2
<1>11. w \in Nat
  BY <1>1, FileAssumption, FS_CardinalityType
<1>12. TypeOK'
  <2>1. DOMAIN wave' \subseteq Index /\ wave' \in [DOMAIN wave' -> Nat]
    BY <1>3, <1>4, <1>5, <1>6, <1>11
  <2>2. pending' \in [Index -> Nat]
    BY <1>7, <1>9
  <2>3. ready' \subseteq Index
    BY <1>10
  <2>4. QED
    BY <1>1, <1>2, <2>1, <2>2, <2>3 DEF TypeOK
<1>13. CountersRight'
  <2>1. pending' = [x \in Index |-> Cardinality(deps[x] \ DOMAIN wave')]
    BY <1>7, <1>9
  <2>2. QED
    BY <1>1, <1>2, <1>10, <2>1 DEF CountersRight
<1>14. WavesFollowDeps'
  <2>1. ASSUME NEW x \in DOMAIN wave'
        PROVE  /\ deps[x] \subseteq DOMAIN wave'
               /\ \A d \in deps[x] : wave'[d] < wave'[x]
               /\ wave'[x] = 0 \/ \E d \in deps[x] : wave'[x] = wave'[d] + 1
    <3>1. CASE x = g
      BY <1>4, <1>5, <1>6, <3>1 DEF IsWaveAfter
    <3>2. CASE x \in DOMAIN wave
      BY <1>1, <1>6, <3>2 DEF WavesFollowDeps, IsWaveAfter
    <3>3. QED
      BY <1>6, <3>1, <3>2
  <2>2. QED
    BY <1>2, <2>1 DEF WavesFollowDeps, IsWaveAfter
<1>15. NeverPanics' /\ IdsRight'
  BY <1>1 DEF NeverPanics, IdsRight
<1>16. QED
  BY <1>2, <1>12, <1>13, <1>14, <1>15 DEF PlanInv

(* When nothing is ready any more everything has a wave: otherwise the     *)
(* acyclic graph has a group without a wave all of whose dependencies have *)
(* one, and that group is ready.                                           *)
LEMMA LayeringComplete ==
  ASSUME PlanInv, phase = "layer", ready = {}
  PROVE  DOMAIN wave = Index
<1>1. /\ ready = {g \in Index \ DOMAIN wave : deps[g] \subseteq DOMAIN wave}
      /\ Acyclic(deps) /\ DOMAIN wave \subseteq Index
  BY DEF PlanInv, CountersRight, StaysAcyclic, TypeOK
<1> DEFINE U == Index \ DOMAIN wave
<1>2. ASSUME U # {}
      PROVE  FALSE
  <2>1. U \in SUBSET DOMAIN deps
    BY DepsInIndex
  <2>2. PICK n \in U : deps[n] \cap U = {}
    BY <1>1, <1>2, <2>1 DEF Acyclic
  <2>3. deps[n] \subseteq DOMAIN wave
    BY <2>2, DepsInIndex
  <2>4. QED
    BY <1>1, <2>2, <2>3
<1>3. QED
  BY <1>1, <1>2

LEMMA NumberInv == PlanInv /\ Number => PlanInv'
<1> SUFFICES ASSUME PlanInv, Number PROVE PlanInv'
  OBVIOUS
<1>1. /\ phase = "layer" /\ ready = {} /\ TypeOK /\ WavesFollowDeps
      /\ UNCHANGED <<project, groups, group_of, is_cycle, pending, ready, wave>>
  BY DEF PlanInv, Number
<1>2. DOMAIN wave = Index
  BY <1>1, LayeringComplete
<1>3. /\ phase' = "done"
      /\ group_id' = [g \in Index |-> Cardinality({h \in Index : ComesBefore(h, g)})]
  BY <1>2 DEF Number, Index
<1>4. /\ GroupsPartition' /\ CyclesStayTogether' /\ StaysAcyclic'
      /\ Index' = Index /\ deps' = deps
  BY <1>1, <1>3, GroupsSettled
<1>5. \A g \in Index : Cardinality({h \in Index : ComesBefore(h, g)}) \in Nat
  BY <1>1, IndexFinite
<1>6. TypeOK'
  BY <1>1, <1>3, <1>4, <1>5 DEF TypeOK
<1>7. \A g, h : ComesBefore(g, h)' <=> ComesBefore(g, h)
  BY <1>1 DEF ComesBefore, min_path
<1>8. IdsRight'
  <2>1. \A g \in Index : {h \in Index : ComesBefore(h, g)} = {h \in Index : ComesBefore(h, g)'}
    BY <1>7
  <2>2. group_id' = [g \in Index' |-> Cardinality({h \in Index' : ComesBefore(h, g)'})]
    BY <1>3, <1>4, <2>1
  <2>3. QED
    BY <1>1, <1>2, <1>4, <2>2 DEF IdsRight
<1>9. CountersRight' /\ WavesFollowDeps' /\ NeverPanics'
  BY <1>1, <1>3, <1>4 DEF CountersRight, WavesFollowDeps, IsWaveAfter, NeverPanics
<1>10. QED
  BY <1>4, <1>6, <1>8, <1>9 DEF PlanInv

-----------------------------------------------------------------------------
LEMMA StutterInv == PlanInv /\ UNCHANGED vars => PlanInv'
<1> SUFFICES ASSUME PlanInv, UNCHANGED vars PROVE PlanInv'
  OBVIOUS
<1>1. /\ project' = project /\ phase' = phase /\ groups' = groups /\ group_of' = group_of
      /\ is_cycle' = is_cycle /\ pending' = pending /\ ready' = ready
      /\ wave' = wave /\ group_id' = group_id
  BY DEF vars
<1>2. /\ file_deps' = file_deps /\ FileDeps' = FileDeps /\ Index' = Index
  BY <1>1 DEF file_deps, FileDeps, Index
<1>3. deps' = deps
  BY <1>1, <1>2 DEF deps, group_deps
<1>4. \A g, h : ComesBefore(g, h)' <=> ComesBefore(g, h)
  BY <1>1 DEF ComesBefore, min_path
<1>5. TypeOK' /\ GroupsPartition' /\ CyclesStayTogether' /\ NeverPanics'
  BY <1>1, <1>2 DEF PlanInv, TypeOK, GroupsPartition, CyclesStayTogether, NeverPanics
<1>6. StaysAcyclic' /\ CountersRight' /\ WavesFollowDeps'
  BY <1>1, <1>2, <1>3 DEF PlanInv, StaysAcyclic, Acyclic, CountersRight, WavesFollowDeps, IsWaveAfter
<1>7. IdsRight'
  <2>1. \A g \in Index : {h \in Index : ComesBefore(h, g)} = {h \in Index : ComesBefore(h, g)'}
    BY <1>4
  <2>2. phase = "done" =>
          /\ DOMAIN wave = Index
          /\ group_id = [g \in Index |-> Cardinality({h \in Index : ComesBefore(h, g)'})]
    BY <2>1 DEF PlanInv, IdsRight
  <2>3. QED
    BY <1>1, <1>2, <2>2 DEF IdsRight
<1>8. QED
  BY <1>5, <1>6, <1>7 DEF PlanInv

LEMMA StepInv == PlanInv /\ [Next]_vars => PlanInv'
<1> SUFFICES ASSUME PlanInv, [Next]_vars PROVE PlanInv'
  OBVIOUS
<1>1. CASE FormGroups(file_sccs)
  BY <1>1, FormInv
<1>2. CASE \E g, h \in DOMAIN groups : Merge(g, h)
  BY <1>2, MergeInv DEF Index
<1>3. CASE StartLayering
  BY <1>3, StartLayeringInv
<1>4. CASE \E g \in ready : Resolve(g)
  BY <1>4, ResolveInv
<1>5. CASE Number
  BY <1>5, NumberInv
<1>6. CASE UNCHANGED vars
  BY <1>6, StutterInv
<1>7. QED
  BY <1>1, <1>2, <1>3, <1>4, <1>5, <1>6 DEF Next

LEMMA PlanInvariant == Spec => []PlanInv
BY InitInv, StepInv, PTL DEF Spec

-----------------------------------------------------------------------------
(* build_plan: every variable keeps its type.                              *)
THEOREM PlanTypeCorrect == Spec => []TypeOK
<1>1. PlanInv => TypeOK
  BY DEF PlanInv
<1>2. QED
  BY <1>1, PlanInvariant, PTL

(* build_plan and coalesce: through all merging, every file is in exactly  *)
(* one group, the one group_of names, and no group is empty.               *)
THEOREM GroupsArePartition == Spec => []GroupsPartition
<1>1. PlanInv => GroupsPartition
  BY DEF PlanInv
<1>2. QED
  BY <1>1, PlanInvariant, PTL

(* coalesce: the files of a dependency cycle share a group at every step.  *)
THEOREM CyclesNeverSplit == Spec => []CyclesStayTogether
<1>1. PlanInv => CyclesStayTogether
  BY DEF PlanInv
<1>2. QED
  BY <1>1, PlanInvariant, PTL

(* topo_waves: in whatever order ready groups are taken, each one gets the *)
(* earliest wave that comes after everything it depends on.                *)
THEOREM WavesAreEarliest == Spec => []WavesFollowDeps
<1>1. PlanInv => WavesFollowDeps
  BY DEF PlanInv
<1>2. QED
  BY <1>1, PlanInvariant, PTL

(* build_plan: "group condensation is a DAG" holds, the layering always    *)
(* reaches every group.                                                    *)
THEOREM PlanNeverPanics == Spec => []NeverPanics
<1>1. PlanInv => NeverPanics
  BY DEF PlanInv
<1>2. QED
  BY <1>1, PlanInvariant, PTL

-----------------------------------------------------------------------------
(* Group paths are distinct numbers: smallest files of disjoint groups.    *)
LEMMA PathsDistinct ==
  ASSUME PlanInv, phase # "graph"
  PROVE  \A g \in Index : /\ min_path(g) \in Nat
                          /\ \A h \in Index : min_path(g) = min_path(h) => g = h
<1>1. /\ \A g \in Index : groups[g] = {f \in File : group_of[f] = g} /\ groups[g] # {}
  BY DEF PlanInv, GroupsPartition
<1>2. \A g \in Index : min_path(g) \in groups[g]
  <2> TAKE g \in Index
  <2>1. groups[g] \in SUBSET Nat /\ groups[g] # {}
    BY <1>1, FileAssumption
  <2>2. QED
    BY <2>1, MinIsLeast DEF min_path
<1>3. \A g \in Index : min_path(g) \in File /\ group_of[min_path(g)] = g
  <2> TAKE g \in Index
  <2>1. min_path(g) \in {f \in File : group_of[f] = g}
    BY <1>1, <1>2
  <2>2. QED
    BY <2>1
<1>4. QED
  BY <1>3, FileAssumption

(* An id counts the groups before, so it grows along the order.            *)
LEMMA IdsGrow ==
  ASSUME PlanInv, phase = "done",
         NEW g \in Index, NEW h \in Index, ComesBefore(g, h)
  PROVE  group_id[g] \in Nat /\ group_id[h] \in Nat /\ group_id[g] < group_id[h]
<1> DEFINE Before(x) == {y \in Index : ComesBefore(y, x)}
<1>1. /\ \A x \in Index : wave[x] \in Nat /\ min_path(x) \in Nat
      /\ group_id[g] = Cardinality(Before(g)) /\ group_id[h] = Cardinality(Before(h))
  <2>1. DOMAIN wave = Index /\ TypeOK
    BY DEF PlanInv, IdsRight
  <2>2. \A x \in Index : wave[x] \in Nat
    BY <2>1 DEF TypeOK
  <2>3. \A x \in Index : min_path(x) \in Nat
    BY PathsDistinct
  <2>4. QED
    BY <2>2, <2>3 DEF PlanInv, IdsRight
<1>2. Before(g) \subseteq Before(h)
  BY <1>1 DEF ComesBefore
<1>3. g \in Before(h) /\ g \notin Before(g)
  BY <1>1 DEF ComesBefore
<1>4. IsFiniteSet(Before(h)) /\ IsFiniteSet(Before(g))
  BY IndexFinite DEF PlanInv
<1> HIDE DEF Before
<1>5. Cardinality(Before(g)) < Cardinality(Before(h))
  <2>1. /\ Cardinality(Before(g)) <= Cardinality(Before(h))
        /\ Cardinality(Before(g)) = Cardinality(Before(h)) => Before(g) = Before(h)
    BY <1>2, <1>4, FS_Subset
  <2>2. Before(g) # Before(h)
    BY <1>3
  <2>3. Cardinality(Before(g)) \in Nat /\ Cardinality(Before(h)) \in Nat
    BY <1>4, FS_CardinalityType
  <2>4. QED
    BY <2>1, <2>2, <2>3
<1>6. QED
  BY <1>1, <1>4, <1>5, FS_CardinalityType

(* So the ids are a port order.                                            *)
LEMMA PlanInvPortOrder == PlanInv => IdsArePortOrder
<1> SUFFICES ASSUME PlanInv, phase = "done" PROVE IdsArePortOrder
  BY DEF IdsArePortOrder
<1>1. /\ \A x \in Index : wave[x] \in Nat
      /\ DOMAIN wave = Index /\ project \in Project /\ group_of \in [File -> Index]
      /\ WavesFollowDeps
  BY DEF PlanInv, IdsRight, TypeOK
<1>2. ASSUME NEW g \in Index, NEW h \in Index, group_id[g] = group_id[h]
      PROVE  g = h
  <2>1. ~ComesBefore(g, h) /\ ~ComesBefore(h, g)
    BY <1>2, IdsGrow
  <2>2. wave[g] = wave[h] /\ min_path(g) = min_path(h)
    BY <1>1, <2>1, PathsDistinct DEF ComesBefore
  <2>3. QED
    BY <2>2, PathsDistinct
<1>3. ASSUME NEW p \in file_deps, group_of[p[1]] # group_of[p[2]]
      PROVE  group_id[group_of[p[2]]] < group_id[group_of[p[1]]]
  <2> DEFINE g == group_of[p[1]]
             h == group_of[p[2]]
  <2>1. g \in Index /\ h \in Index /\ g # h
    BY <1>1, <1>3, EdgesBetweenFiles
  <2>2. h \in deps[g]
    BY <2>1, GroupDepsAre DEF deps, Index
  <2>3. wave[h] < wave[g]
    BY <1>1, <2>1, <2>2 DEF WavesFollowDeps, IsWaveAfter
  <2>4. ComesBefore(h, g)
    BY <2>3 DEF ComesBefore
  <2>5. QED
    BY <2>1, <2>4, IdsGrow
<1>4. QED
  BY <1>2, <1>3 DEF IdsArePortOrder

(* build_plan, public ids: no id is used twice, and in their order no file *)
(* is ported before one it depends on, unless both are in one group.       *)
THEOREM IdsAreAnOrder == Spec => []IdsArePortOrder
BY PlanInvPortOrder, PlanInvariant, PTL

-----------------------------------------------------------------------------
(* What a group claims: its flag, and its size.                            *)
HonestInv == PlanInv /\ CycleFlagHonest /\ SizeLimit

(* The size of a group is the sum over its files.                          *)
LEMMA GroupLocIs ==
  ASSUME NEW g
  PROVE  /\ group_loc(g) = Total(project.loc, groups[g])
         /\ group_loc(g)' = Total(project'.loc, groups'[g])
BY DEF group_loc, Total, MapThenSumSet, MapThenFoldSet

(* The lines of two sets of files that have nothing in common add up.      *)
LEMMA SizesAdd ==
  \A w \in [File -> Nat] : \A A, B \in SUBSET File :
    A \cap B = {} => Total(w, A \cup B) = Total(w, A) + Total(w, B)
<1>1. IsFiniteSet(File)
  BY FileAssumption
<1>2. ASSUME NEW w \in [File -> Nat], NEW A \in SUBSET File, NEW B \in SUBSET File,
             A \cap B = {}
      PROVE  Total(w, A \cup B) = Total(w, A) + Total(w, B)
  BY <1>1, <1>2, TotalUnion
<1>3. QED
  BY <1>2

(* A cycle that is handed over gets the flag, and it is the whole group.   *)
LEMMA FormHonest ==
  ASSUME PlanInv, FormGroups(file_sccs)
  PROVE  CycleFlagHonest' /\ SizeLimit'
<1> DEFINE C(f) == CycleOf(FileDeps, f)
<1>1. FileDeps' = FileDeps
  BY DEF FormGroups, FileDeps, file_deps
<1>2. \A f \in File : f \in C(f) /\ C(f) \subseteq File
  BY CycleOfSelf, FileDepsMap
<1>3. \A f \in File : \A g \in C(f) : C(g) = C(f)
  BY CycleOfMember, FileDepsMap
<1>4. \A f \in File : Min(C(f)) \in C(f)
  <2> TAKE f \in File
  <2>1. C(f) \in SUBSET Nat /\ C(f) # {}
    BY <1>2, FileAssumption
  <2>2. QED
    BY <2>1, MinIsLeast
<1>5. \A x \in Index' : \E f \in File : x = Min(C(f)) /\ groups'[x] = C(f)
  BY FormedGroups DEF PlanInv
<1>6. is_cycle' = {Min(G) : G \in file_sccs}
  BY DEF FormGroups
<1>7. file_sccs = {G \in {C(f) : f \in File} : G # {Min(G)}}
  BY DEF file_sccs
<1> HIDE DEF C
<1>8. ASSUME NEW x \in Index'
      PROVE  /\ x \in is_cycle' <=> \E f \in groups'[x] : C(f) # {f}
             /\ \A f \in groups'[x] : groups'[x] = C(f)
  <2>1. PICK f \in File : x = Min(C(f)) /\ groups'[x] = C(f)
    BY <1>5, <1>8
  <2>2. \A k \in groups'[x] : groups'[x] = C(k)
    BY <1>3, <2>1
  <2>3. x \in is_cycle' => C(f) # {Min(C(f))}
    <3>1. ASSUME NEW G \in file_sccs, x = Min(G)
          PROVE  C(f) # {Min(C(f))}
      <4>1. PICK k \in File : G = C(k) /\ C(k) # {Min(C(k))}
        BY <1>7
      <4>2. x \in C(k) /\ x \in C(f)
        BY <1>4, <2>1, <3>1, <4>1
      <4>3. C(k) = C(f)
        BY <1>3, <4>2
      <4>4. QED
        BY <4>1, <4>3
    <3>2. QED
      BY <1>6, <3>1
  <2>4. C(f) # {Min(C(f))} => x \in is_cycle'
    BY <1>6, <1>7, <2>1
  <2>5. C(f) # {Min(C(f))} <=> \E k \in C(f) : C(k) # {k}
    <3>1. \A k \in C(f) : C(k) = C(f)
      BY <1>3
    <3>2. f \in C(f) /\ Min(C(f)) \in C(f)
      BY <1>2, <1>4
    <3>3. QED
      BY <3>1, <3>2
  <2>6. QED
    BY <2>1, <2>2, <2>3, <2>4, <2>5
<1>9. QED
  BY <1>1, <1>8 DEF CycleFlagHonest, SizeLimit, C

(* A merge hands the flag on, and stays below the ceiling.                 *)
LEMMA MergeHonest ==
  ASSUME HonestInv, NEW g \in Index, NEW h \in Index, Merge(g, h)
  PROVE  CycleFlagHonest' /\ SizeLimit'
<1>1. /\ TypeOK /\ GroupsPartition /\ CycleFlagHonest /\ SizeLimit
      /\ phase = "coalesce" /\ phase' = "coalesce"
  BY DEF HonestInv, PlanInv, Merge
<1>2. g # h
  BY DepsInIndex DEF Merge, IsChosen, CanMerge
<1>3. Index' = Index \ {h} /\ FileDeps' = FileDeps /\ project' = project
  BY DEF Merge, MergedGroups, Index, FileDeps, file_deps
<1>4. groups' = [x \in Index' |-> IF x = g THEN groups[g] \cup groups[h] ELSE groups[x]]
  BY <1>3 DEF Merge, MergedGroups, Index
<1>5. is_cycle' = IF h \in is_cycle THEN (is_cycle \ {h}) \cup {g} ELSE is_cycle
  BY DEF Merge
<1>6. \A x \in Index : x \in is_cycle <=> \E f \in groups[x] : CycleOf(FileDeps, f) # {f}
  BY <1>1 DEF CycleFlagHonest
<1>7. \A x \in Index' : x \in is_cycle' <=> \E f \in groups'[x] : CycleOf(FileDeps, f) # {f}
  BY <1>2, <1>3, <1>4, <1>5, <1>6
<1>8. \A x \in Index' \ {g} : group_loc(x)' = group_loc(x) /\ groups'[x] = groups[x]
  BY <1>3, <1>4, GroupLocIs
<1>9. ~ (group_loc(g)' >= max_group_loc)
  <2>1. /\ project.loc \in [File -> Nat]
        /\ groups[g] \in SUBSET File /\ groups[h] \in SUBSET File
    BY <1>1, ProjectAssumption DEF TypeOK
  <2>2. groups[g] \cap groups[h] = {}
    BY <1>1, <1>2 DEF GroupsPartition
  <2>3. groups'[g] = groups[g] \cup groups[h]
    BY <1>2, <1>3, <1>4
  <2> DEFINE w == project.loc
             A == groups[g]
             B == groups[h]
  <2> HIDE DEF w, A, B
  <2>4. group_loc(g)' = group_loc(g) + group_loc(h)
    <3>1. Total(w, A \cup B) = Total(w, A) + Total(w, B)
      <4>1. w \in [File -> Nat] /\ A \in SUBSET File /\ B \in SUBSET File /\ A \cap B = {}
        BY <2>1, <2>2 DEF w, A, B
      <4>2. QED
        BY <4>1, SizesAdd
    <3>2. group_loc(g)' = Total(w, A \cup B)
      BY <1>3, <2>3, GroupLocIs DEF w, A, B
    <3>3. group_loc(g) = Total(w, A) /\ group_loc(h) = Total(w, B)
      BY GroupLocIs DEF w, A, B
    <3>4. QED
      BY <3>1, <3>2, <3>3
  <2>5. group_loc(g) \in Nat /\ group_loc(h) \in Nat
    <3>1. Total(w, A) \in Nat /\ Total(w, B) \in Nat
      BY <2>1, FileAssumption, SumExists DEF w, A, B
    <3>2. group_loc(g) = Total(w, A) /\ group_loc(h) = Total(w, B)
      BY GroupLocIs DEF w, A, B
    <3>3. QED
      BY <3>1, <3>2
  <2>6. group_loc(g) + group_loc(h) < max_group_loc
    BY DEF Merge, IsChosen, CanMerge
  <2>7. QED
    BY <2>4, <2>5, <2>6, MaxGroupLocAssumption
<1>10. ASSUME NEW x \in Index', group_loc(x)' >= max_group_loc
       PROVE  \A f \in groups'[x] : groups'[x] = CycleOf(FileDeps, f)
  <2>1. x \in Index \ {h} /\ x # g
    BY <1>3, <1>9, <1>10
  <2>2. group_loc(x) >= max_group_loc /\ groups'[x] = groups[x]
    BY <1>8, <1>10, <2>1
  <2>3. QED
    BY <1>1, <2>1, <2>2 DEF SizeLimit
<1>11. CycleFlagHonest'
  BY <1>3, <1>7 DEF CycleFlagHonest
<1>12. SizeLimit'
  BY <1>3, <1>10 DEF SizeLimit
<1>13. QED
  BY <1>11, <1>12

(* Every other step leaves the groups and their flags alone.               *)
LEMMA HonestKept ==
  ASSUME HonestInv, phase # "graph" \/ UNCHANGED phase,
         UNCHANGED <<project, groups, group_of, is_cycle>>
  PROVE  CycleFlagHonest' /\ SizeLimit'
<1>1. CycleFlagHonest /\ SizeLimit /\ project' = project /\ groups' = groups /\ is_cycle' = is_cycle
  BY DEF HonestInv
<1>2. Index' = Index /\ FileDeps' = FileDeps
  BY DEF Index, FileDeps, file_deps
<1>3. \A x \in Index : group_loc(x)' = group_loc(x)
  BY <1>1, GroupLocIs
<1>4. CycleFlagHonest'
  BY <1>1, <1>2 DEF CycleFlagHonest
<1>5. SizeLimit'
  BY <1>1, <1>2, <1>3 DEF SizeLimit
<1>6. QED
  BY <1>4, <1>5

LEMMA HonestStep == HonestInv /\ [Next]_vars => HonestInv'
<1> SUFFICES ASSUME HonestInv, [Next]_vars PROVE HonestInv'
  OBVIOUS
<1>1. PlanInv'
  BY StepInv DEF HonestInv
<1>2. CASE FormGroups(file_sccs)
  BY <1>1, <1>2, FormHonest DEF HonestInv
<1>3. CASE \E g, h \in DOMAIN groups : Merge(g, h)
  BY <1>1, <1>3, MergeHonest DEF HonestInv, Index
<1>4. CASE StartLayering \/ (\E g \in ready : Resolve(g)) \/ Number
  <2>1. phase # "graph" /\ UNCHANGED <<project, groups, group_of, is_cycle>>
    BY <1>4 DEF StartLayering, Resolve, Number
  <2>2. QED
    BY <1>1, <2>1, HonestKept DEF HonestInv
<1>5. CASE UNCHANGED vars
  <2>1. UNCHANGED phase /\ UNCHANGED <<project, groups, group_of, is_cycle>>
    BY <1>5 DEF vars
  <2>2. QED
    BY <1>1, <2>1, HonestKept DEF HonestInv
<1>6. QED
  BY <1>2, <1>3, <1>4, <1>5 DEF Next

LEMMA HonestInit == Init => HonestInv
BY InitInv DEF Init, HonestInv, CycleFlagHonest, SizeLimit

(* coalesce: at every step, every file is in the one group it is tagged    *)
(* with, a group is flagged "cycle" exactly if it holds one, and only a    *)
(* whole cycle or a single file ever reaches max_group_loc.                *)
THEOREM GroupsStayHonest == Spec => []GroupsHonest
<1>1. HonestInv => GroupsHonest
  BY DEF HonestInv, PlanInv, GroupsHonest
<1>2. QED
  BY <1>1, HonestInit, HonestStep, PTL DEF Spec

-----------------------------------------------------------------------------
(* The component search of PortSchedule, with what is proved about it; the *)
(* similar command proved about beside it has no request and never starts. *)
Tarjan == INSTANCE PartitionProofs WITH Node <- File, adj <- FileDeps,
            parent <- <<>>, size <- <<>>, links <- <<>>, at <- 0, root <- 0,
            Request <- {}, request <- 0, phase <- "collect", docs <- <<>>,
            kept <- <<>>, weights <- <<>>, clusters <- {}, rejected <- 0,
            outputs <- <<>>, report <- 0

(* It is the same search. *)
LEMMA SearchIsTarjan ==
  /\ Search!Init <=> Tarjan!Init
  /\ Search!Next <=> Tarjan!Next
  /\ Search!Finished <=> Tarjan!Finished
  /\ Search!DependenciesFirst <=> Tarjan!DependenciesFirst
<1>1. Search!Discovered = Tarjan!Discovered
  BY DEF Search!Discovered, Tarjan!Discovered
<1>2. Search!top = Tarjan!top
  BY DEF Search!top, Tarjan!top, Search!Last, Tarjan!Last
<1>3. Search!Front(work) = Tarjan!Front(work)
  BY DEF Search!Front, Tarjan!Front
<1>4. \A w : Search!Advanced(w) = Tarjan!Advanced(w)
  BY <1>2, <1>3 DEF Search!Advanced, Tarjan!Advanced
<1>5. \A n : Search!StartAt(n) <=> Tarjan!StartAt(n)
  BY <1>1 DEF Search!StartAt, Tarjan!StartAt
<1>6. Search!Open <=> Tarjan!Open
  BY <1>1, <1>2 DEF Search!Open, Tarjan!Open, Search!With, Tarjan!With
<1>7. \A v, seen : Search!succ(v, seen) = Tarjan!succ(v, seen)
  BY DEF Search!succ, Tarjan!succ
<1>8. \A w : Search!Looks(w) <=> Tarjan!Looks(w)
  BY <1>1, <1>2, <1>7 DEF Search!Looks, Tarjan!Looks
<1>9. \A w : Search!Descend(w) <=> Tarjan!Descend(w)
  BY <1>1, <1>4, <1>8 DEF Search!Descend, Tarjan!Descend
<1>10. \A w : Search!Skip(w) <=> Tarjan!Skip(w)
  BY <1>1, <1>2, <1>4, <1>8 DEF Search!Skip, Tarjan!Skip, Search!LesserOf, Tarjan!LesserOf
<1>11. \A v : Search!Emit(v) <=> Tarjan!Emit(v)
  BY DEF Search!Emit, Tarjan!Emit, Search!PoppedWith, Tarjan!PoppedWith, Search!ToSet, Tarjan!ToSet
<1>12. \A v, below : Search!LinkParent(v, below) <=> Tarjan!LinkParent(v, below)
  BY DEF Search!LinkParent, Tarjan!LinkParent, Search!LesserOf, Tarjan!LesserOf,
     Search!Last, Tarjan!Last
<1>13. Search!Close <=> Tarjan!Close
  BY <1>1, <1>2, <1>3, <1>7, <1>11, <1>12 DEF Search!Close, Tarjan!Close
<1>14. Search!Next <=> Tarjan!Next
  BY <1>5, <1>6, <1>9, <1>10, <1>13 DEF Search!Next, Tarjan!Next
<1>15. Search!Init <=> Tarjan!Init
  BY DEF Search!Init, Tarjan!Init
<1>16. Search!Finished <=> Tarjan!Finished
  BY <1>1 DEF Search!Finished, Tarjan!Finished
<1>17. Search!DependenciesFirst <=> Tarjan!DependenciesFirst
  BY DEF Search!DependenciesFirst, Tarjan!DependenciesFirst, Search!Emitted, Tarjan!Emitted
<1>18. QED
  BY <1>14, <1>15, <1>16, <1>17

(* A finished search reports the cycles of the graph, no more, no fewer.   *)
LEMMA SearchReportsCycles ==
  ASSUME Tarjan!SearchInv, Tarjan!Finished
  PROVE  reported_groups = file_sccs
<1>1. /\ UNION {components[i] : i \in DOMAIN components} = File
      /\ \A i \in DOMAIN components : components[i] \subseteq File
  <2>1. UNION Tarjan!ToSet(components) = File
    BY Tarjan!FinishedEmitsAll
  <2>2. Tarjan!ToSet(components) = {components[i] : i \in DOMAIN components}
    BY DEF Tarjan!ToSet
  <2>3. QED
    BY <2>1, <2>2
<1>2. \A i \in DOMAIN components : \A f \in components[i] :
        components[i] = CycleOf(FileDeps, f)
  BY DEF Tarjan!SearchInv, Tarjan!WholeCycles, Tarjan!CycleOf, CycleOf, Tarjan!Needs, Needs
<1>3. ASSUME NEW C \in SUBSET File, C # {}
      PROVE  Cardinality(C) > 1 <=> C # {Min(C)}
  <2>1. IsFiniteSet(C) /\ Cardinality(C) \in Nat
    BY FileAssumption, FS_Subset, FS_CardinalityType
  <2>2. Cardinality(C) # 0
    BY <1>3, <2>1, FS_EmptySet
  <2>3. Cardinality(C) = 1 <=> \E m : C = {m}
    BY <2>1, FS_Singleton
  <2>4. (\E m : C = {m}) <=> C = {Min(C)}
    BY <1>3, FileAssumption, MinIsLeast
  <2>5. Cardinality(C) > 1 <=> Cardinality(C) # 1
    BY <2>1, <2>2
  <2>6. Cardinality(C) # 1 <=> C # {Min(C)}
    BY <2>3, <2>4, Zenon
  <2>7. QED
    BY <2>5, <2>6, Zenon
<1>4. ASSUME NEW i \in DOMAIN components, Cardinality(components[i]) > 1
      PROVE  components[i] \in file_sccs
  <2>1. components[i] # {}
    BY <1>4, FS_EmptySet
  <2>2. PICK f \in components[i] : f \in File
    BY <1>1, <2>1
  <2>3. QED
    BY <1>1, <1>2, <1>3, <1>4, <2>1, <2>2 DEF file_sccs
<1>5. ASSUME NEW f \in File, CycleOf(FileDeps, f) # {Min(CycleOf(FileDeps, f))}
      PROVE  CycleOf(FileDeps, f) \in reported_groups
  <2>1. PICK i \in DOMAIN components : f \in components[i]
    BY <1>1
  <2>2. components[i] = CycleOf(FileDeps, f)
    BY <1>2, <2>1
  <2>3. Cardinality(components[i]) > 1
    BY <1>1, <1>3, <1>5, <2>1, <2>2
  <2>4. QED
    BY <2>2, <2>3 DEF reported_groups
<1>6. QED
  BY <1>4, <1>5 DEF file_sccs, reported_groups

-----------------------------------------------------------------------------
ScheduleInv == Tarjan!SearchInv /\ PlanInv

(* build_plan never changes the graph it plans for. *)
LEMMA GraphStays ==
  ASSUME \/ UNCHANGED vars
         \/ HandOver \/ PlanStep
  PROVE  FileDeps' = FileDeps
<1>1. project' = project
  BY DEF vars, HandOver, FormGroups, PlanStep, Merge, StartLayering, Resolve, Number
<1>2. QED
  BY <1>1 DEF FileDeps, file_deps

(* A step of the plan command is a step of the search or one of PortPlan.  *)
LEMMA ScheduleSteps ==
  ASSUME ScheduleInv, [ScheduleNext]_<<vars, search_vars>>
  PROVE  [Next]_vars /\ Tarjan!SearchInv'
<1>1. CASE SearchStep
  <2>1. UNCHANGED vars /\ Tarjan!Next
    BY <1>1, SearchIsTarjan DEF SearchStep
  <2>2. Tarjan!SearchInv'
    BY <2>1, Tarjan!SearchSteps DEF ScheduleInv
  <2>3. QED
    BY <2>1, <2>2
<1>2. ASSUME UNCHANGED search_vars, FileDeps' = FileDeps
      PROVE  Tarjan!SearchInv'
  <2>1. UNCHANGED Tarjan!vars
    BY <1>2 DEF Tarjan!vars, search_vars
  <2>2. QED
    BY <2>1, Tarjan!SearchSteps DEF ScheduleInv
<1>3. CASE HandOver
  <2>1. Tarjan!SearchInv'
    BY <1>2, <1>3, GraphStays DEF HandOver
  <2>2. FormGroups(file_sccs)
    BY <1>3, SearchIsTarjan, SearchReportsCycles DEF HandOver, ScheduleInv
  <2>3. QED
    BY <2>1, <2>2 DEF Next
<1>4. CASE PlanStep
  <2>1. Tarjan!SearchInv'
    BY <1>2, <1>4, GraphStays DEF PlanStep
  <2>2. QED
    BY <1>4, <2>1 DEF PlanStep, Next
<1>5. CASE UNCHANGED <<vars, search_vars>>
  <2>1. Tarjan!SearchInv'
    BY <1>2, <1>5, GraphStays
  <2>2. QED
    BY <1>5, <2>1
<1>6. QED
  BY <1>1, <1>3, <1>4, <1>5 DEF ScheduleNext

LEMMA ScheduleInvariant == ScheduleSpec => []ScheduleInv
<1>1. ScheduleInit => ScheduleInv
  BY SearchIsTarjan, Tarjan!InitSearch, InitInv DEF ScheduleInit, ScheduleInv
<1>2. ScheduleInv /\ [ScheduleNext]_<<vars, search_vars>> => ScheduleInv'
  BY ScheduleSteps, StepInv DEF ScheduleInv
<1>3. QED
  BY <1>1, <1>2, PTL DEF ScheduleSpec

(* The plan command: what the search has emitted at any time depends on    *)
(* nothing that it has not emitted.                                        *)
THEOREM SearchIsDependenciesFirst == ScheduleSpec => []DependenciesFirst
<1>1. ScheduleInv => DependenciesFirst
  BY SearchIsTarjan DEF ScheduleInv, Tarjan!SearchInv, DependenciesFirst
<1>2. QED
  BY <1>1, ScheduleInvariant, PTL

(* The plan command implements build_plan as PortPlan specifies it: the    *)
(* groups it is handed are the cycles of the graph.                        *)
THEOREM ScheduleImplementsPlan == ScheduleSpec => Init /\ [][Next]_vars
<1>1. ScheduleInit => Init
  BY DEF ScheduleInit
<1>2. ScheduleInv /\ [ScheduleNext]_<<vars, search_vars>> => [Next]_vars
  BY ScheduleSteps
<1>3. QED
  BY <1>1, <1>2, ScheduleInvariant, PTL DEF ScheduleSpec

(* The plan command, from the first step of the search to the last id:     *)
(* what PortPlan promises holds of it too.                                 *)
THEOREM ScheduleKeepsPlan ==
  ScheduleSpec => [](GroupsHonest /\ WavesFollowDeps /\ NeverPanics /\ IdsArePortOrder)
<1> DEFINE Safe == GroupsHonest /\ WavesFollowDeps /\ NeverPanics /\ IdsArePortOrder
<1>1. HonestInv => Safe
  BY PlanInvPortOrder DEF HonestInv, PlanInv, GroupsHonest
<1>2. ScheduleSpec => Init /\ [][Next]_vars
  BY ScheduleImplementsPlan
<1>3. QED
  BY <1>1, <1>2, HonestInit, HonestStep, PTL

-----------------------------------------------------------------------------
(* The sum of a function, as the sum of its weights over its domain.       *)
LEMMA SumIsTotal ==
  ASSUME NEW w
  PROVE  SumFunction(w) = Total(w, DOMAIN w)
BY DEF SumFunction, SumFunctionOnSet, FoldFunctionOnSet, Total, MapThenSumSet

(* The values of a function on a finite set are finitely many.             *)
LEMMA ValuesFinite ==
  ASSUME NEW S, IsFiniteSet(S), NEW f
  PROVE  IsFiniteSet({f[x] : x \in S})
<1> DEFINE T == {f[x] : x \in S}
           g == [x \in S |-> f[x]]
<1>1. g \in Surjection(S, T)
  BY DEF Surjection
<1>2. QED
  BY <1>1, FS_Surjection

(* Counting part by part: the sizes of the parts of a finite family add up *)
(* to the size of the whole, when no two parts overlap.                    *)
LEMMA SumOfParts ==
  ASSUME NEW I, IsFiniteSet(I), NEW R, \A i \in I : IsFiniteSet(R[i]),
         \A i, j \in I : i # j => R[i] \cap R[j] = {}
  PROVE  /\ IsFiniteSet(UNION {R[i] : i \in I})
         /\ SumFunction([i \in I |-> Cardinality(R[i])]) = Cardinality(UNION {R[i] : i \in I})
<1> DEFINE w == [i \in I |-> Cardinality(R[i])]
           whole(T) == UNION {R[i] : i \in T}
           Bad == {T \in SUBSET I : ~ /\ IsFiniteSet(whole(T))
                                      /\ Total(w, T) = Cardinality(whole(T))}
<1>1. w \in [I -> Nat]
  BY FS_CardinalityType
<1>2. ASSUME Bad # {}
      PROVE  FALSE
  <2>1. Bad \in SUBSET SUBSET I
    OBVIOUS
  <2>2. PICK T \in Bad : \A U \in Bad : U \subseteq T => U = T
    <3> HIDE DEF Bad
    <3>1. QED
      BY <1>2, <2>1, MinimalSubset
  <2>3. T \in SUBSET I
    OBVIOUS
  <2>4. ASSUME T = {}
        PROVE  FALSE
    <3>1. whole(T) = {}
      BY <2>4
    <3>2. Total(w, T) = 0
      <4> HIDE DEF w
      <4>1. QED
        BY <1>1, <2>3, <2>4, TotalPicked
    <3>3. QED
      BY <3>1, <3>2, FS_EmptySet
  <2>5. PICK x \in T : TRUE
    BY <2>4
  <2> DEFINE U == T \ {x}
  <2>6. U \in SUBSET I /\ U \notin Bad
    <3>1. U \subseteq T /\ U # T
      BY <2>5
    <3> HIDE DEF Bad
    <3>2. QED
      BY <2>2, <2>3, <3>1
  <2>7. IsFiniteSet(whole(U)) /\ Total(w, U) = Cardinality(whole(U))
    BY <2>6
  <2>8. whole(T) = R[x] \cup whole(U)
    BY <2>5
  <2>9. R[x] \cap whole(U) = {} /\ IsFiniteSet(R[x])
    BY <2>3, <2>5
  <2>10. Total(w, T) = w[x] + Total(w, U)
    <3> HIDE DEF w
    <3>1. QED
      BY <1>1, <2>3, <2>5, TotalRemove
  <2>11. w[x] = Cardinality(R[x])
    BY <2>3, <2>5
  <2> HIDE DEF w, whole, U, Bad
  <2>12. /\ IsFiniteSet(whole(T))
         /\ Cardinality(whole(T)) = Cardinality(R[x]) + Cardinality(whole(U))
    <3>1. Cardinality(R[x] \cap whole(U)) = 0
      BY <2>9, FS_EmptySet
    <3>2. Cardinality(R[x]) \in Nat /\ Cardinality(whole(U)) \in Nat
      BY <2>7, <2>9, FS_CardinalityType
    <3>3. /\ IsFiniteSet(R[x] \cup whole(U))
          /\ Cardinality(R[x] \cup whole(U))
               = Cardinality(R[x]) + Cardinality(whole(U)) - Cardinality(R[x] \cap whole(U))
      BY <2>7, <2>9, FS_Union
    <3>4. QED
      BY <2>8, <3>1, <3>2, <3>3
  <2>13. Total(w, T) = Cardinality(whole(T))
    BY <2>7, <2>10, <2>11, <2>12
  <2>14. T \notin Bad
    BY <2>12, <2>13 DEF Bad
  <2>15. QED
    BY <2>2, <2>14
<1>3. I \notin Bad
  BY <1>2
<1>4. IsFiniteSet(whole(I)) /\ Total(w, I) = Cardinality(whole(I))
  BY <1>3
<1>5. DOMAIN w = I
  OBVIOUS
<1>6. SumFunction(w) = Total(w, I)
  <2> HIDE DEF w
  <2>1. QED
    BY <1>5, SumIsTotal
<1>7. QED
  BY <1>4, <1>6

(* The elements of a finite set, counted by the value of a function.       *)
LEMMA SumOfClasses ==
  ASSUME NEW S, IsFiniteSet(S), NEW W, IsFiniteSet(W), NEW f, \A x \in S : f[x] \in W
  PROVE  SumFunction([v \in W |-> Cardinality({x \in S : f[x] = v})]) = Cardinality(S)
<1> DEFINE R == [v \in W |-> {x \in S : f[x] = v}]
<1>1. \A v \in W : IsFiniteSet(R[v])
  <2>1. TAKE v \in W
  <2>2. R[v] \in SUBSET S
    OBVIOUS
  <2>3. QED
    BY <2>2, FS_Subset
<1>2. \A u, v \in W : u # v => R[u] \cap R[v] = {}
  OBVIOUS
<1>3. UNION {R[v] : v \in W} = S
  OBVIOUS
<1>4. [v \in W |-> Cardinality({x \in S : f[x] = v})] = [v \in W |-> Cardinality(R[v])]
  OBVIOUS
<1> HIDE DEF R
<1>5. SumFunction([v \in W |-> Cardinality(R[v])]) = Cardinality(UNION {R[v] : v \in W})
  BY <1>1, <1>2, SumOfParts
<1>6. QED
  BY <1>3, <1>4, <1>5

(* Pairs, counted by their first component.                                *)
PairsOf(I, R) == UNION {{<<i, x>> : x \in R[i]} : i \in I}

LEMMA SumOfRows ==
  ASSUME NEW I, IsFiniteSet(I), NEW R, \A i \in I : IsFiniteSet(R[i])
  PROVE  /\ IsFiniteSet(PairsOf(I, R))
         /\ SumFunction([i \in I |-> Cardinality(R[i])]) = Cardinality(PairsOf(I, R))
<1> DEFINE Q == [i \in I |-> {<<i, x>> : x \in R[i]}]
<1>1. \A i \in I : IsFiniteSet(Q[i]) /\ Cardinality(Q[i]) = Cardinality(R[i])
  <2>1. TAKE i \in I
  <2> DEFINE b == [x \in R[i] |-> <<i, x>>]
  <2>2. b \in Bijection(R[i], Q[i])
    BY DEF Bijection, Injection, Surjection, IsInjective
  <2>3. ExistsBijection(R[i], Q[i])
    BY <2>2 DEF ExistsBijection
  <2>4. QED
    BY <2>3, FS_Bijection
<1>2. \A i, j \in I : i # j => Q[i] \cap Q[j] = {}
  OBVIOUS
<1>3. [i \in I |-> Cardinality(R[i])] = [i \in I |-> Cardinality(Q[i])]
  BY <1>1
<1>4. PairsOf(I, R) = UNION {Q[i] : i \in I}
  BY DEF PairsOf
<1> HIDE DEF Q
<1>5. \A i \in I : IsFiniteSet(Q[i])
  BY <1>1
<1>6. /\ IsFiniteSet(UNION {Q[i] : i \in I})
      /\ SumFunction([i \in I |-> Cardinality(Q[i])]) = Cardinality(UNION {Q[i] : i \in I})
  BY <1>2, <1>5, SumOfParts
<1>7. QED
  BY <1>3, <1>4, <1>6

-----------------------------------------------------------------------------
(* What the counting rests on in a graph: finitely many defined symbols    *)
(* and files, and every defined symbol lies in a file of the graph.        *)
FineGraph(graph) ==
  /\ IsFiniteSet({n \in DOMAIN graph.symbols : ~ graph.symbols[n].external})
  /\ IsFiniteSet(DOMAIN graph.files)
  /\ \A n \in DOMAIN graph.symbols :
       /\ graph.symbols[n].external <=> graph.symbols[n].meta = None
       /\ ~ graph.symbols[n].external => graph.symbols[n].meta.file \in DOMAIN graph.files

LEMMA TableIs ==
  ASSUME NEW f
  PROVE  Table(f) = f
BY DEF Table

(* What a row of the symbol table says of its definition.                  *)
LEMMA SymbolRow ==
  ASSUME NEW nodes, NEW edges, NEW effect_roots, NEW n \in DOMAIN nodes
  PROVE  LET row == symbol_nodes(nodes, edges, effect_roots)[n]
         IN  row.meta = nodes[n] /\ (row.external <=> nodes[n] = None)
<1> DEFINE full == full_deps(nodes, edges)
           int == int_deps(nodes, edges)
           ins(m) == Cardinality({x \in DOMAIN nodes : m \in full[x]})
           outs(m) == Cardinality(full[m])
           count(m) == transitive_count(m, full)
           leaf(m) == m \in DOMAIN int => int[m] = {}
           effects(m) == IF nodes[m] = None THEN {} ELSE effect_roots[m]
           packages(m) == {package_of(x) : x \in full[m] \ Internal(nodes)}
           cycle(m) == IF m \in DOMAIN int THEN scc_of(int, m) ELSE None
           rows == [m \in DOMAIN nodes |->
                      [meta |-> nodes[m], external |-> nodes[m] = None, fan_in |-> ins(m),
                       fan_out |-> outs(m), transitive_dep_count |-> count(m),
                       is_leaf |-> leaf(m), effect_roots |-> effects(m),
                       external_packages |-> packages(m), scc |-> cycle(m)]]
<1>1. symbol_nodes(nodes, edges, effect_roots) = Table(rows)
  BY DEF symbol_nodes
<1>2. symbol_nodes(nodes, edges, effect_roots) = rows
  <2> HIDE DEF rows
  <2>1. QED
    BY <1>1, TableIs
<1> HIDE DEF ins, outs, count, leaf, effects, packages, cycle, full, int
<1>3. rows[n].meta = nodes[n]
  OBVIOUS
<1>4. rows[n].external <=> nodes[n] = None
  OBVIOUS
<1>5. QED
  BY <1>2, <1>3, <1>4

LEMMA AssembledFine ==
  ASSUME NEW nodes, NEW edges, NEW effect_roots, IsFiniteSet(Internal(nodes))
  PROVE  FineGraph(assemble_graph(nodes, edges, effect_roots))
<1> DEFINE graph == assembled(nodes, edges, effect_roots)
           symbols == symbol_nodes(nodes, edges, effect_roots)
           files == file_nodes(nodes, edges, symbols)
<1>1. assemble_graph(nodes, edges, effect_roots) = graph
  BY TableIs DEF assemble_graph
<1>2. DOMAIN symbols = DOMAIN nodes
  BY TableIs DEF symbol_nodes
<1>3. \A n \in DOMAIN nodes : symbols[n].meta = nodes[n] /\ (symbols[n].external <=> nodes[n] = None)
  BY SymbolRow
<1>4. DOMAIN files = Files(nodes)
  BY TableIs DEF file_nodes
<1> HIDE DEF symbols, files
<1>5. graph.symbols = symbols /\ graph.files = files
  BY DEF assembled, symbols, files
<1> HIDE DEF graph
<1>6. {n \in DOMAIN symbols : ~ symbols[n].external} = Internal(nodes)
  BY <1>2, <1>3 DEF Internal
<1>7. IsFiniteSet(Files(nodes))
  <2> DEFINE f == [n \in Internal(nodes) |-> nodes[n].file]
  <2>1. {f[n] : n \in Internal(nodes)} = Files(nodes)
    BY DEF Files
  <2> HIDE DEF f
  <2>2. QED
    BY <2>1, ValuesFinite
<1>8. \A n \in DOMAIN symbols :
        /\ symbols[n].external <=> symbols[n].meta = None
        /\ ~ symbols[n].external => symbols[n].meta.file \in Files(nodes)
  BY <1>2, <1>3 DEF Files, Internal
<1>9. QED
  BY <1>1, <1>4, <1>5, <1>6, <1>7, <1>8 DEF FineGraph

(* The graph that the adapter's facts under a directory are built into.    *)
LEMMA SourceGraphFine ==
  ASSUME NEW facts, IsFiniteSet(DOMAIN facts.defs), NEW dir
  PROVE  FineGraph(build_graph_from_source(facts, dir))
<1> DEFINE Local(n) == n \in DOMAIN facts.defs /\ IsPrefix(dir, facts.defs[n].file)
           name(n) == IF Local(n) THEN SubSeq(n, Len(dir) + 1, Len(n)) ELSE n
           local == {n \in DOMAIN facts.defs : Local(n)}
           under == FactsUnder(facts, dir)
           names == {name(n) : n \in local}
<1>1. DOMAIN under.defs = names
  BY DEF FactsUnder
<1>2. IsFiniteSet(names)
  <2> DEFINE f == [n \in local |-> name(n)]
  <2>1. {f[n] : n \in local} = names
    OBVIOUS
  <2>2. local \in SUBSET DOMAIN facts.defs
    OBVIOUS
  <2> HIDE DEF f, local, names
  <2>3. IsFiniteSet(local)
    BY <2>2, FS_Subset
  <2>4. QED
    BY <2>1, <2>3, ValuesFinite
<1> HIDE DEF under, names
<1> DEFINE ends == UNION {{e.caller, e.callee} : e \in ToSet(under.edges)}
           nodes == [n \in DOMAIN under.defs \cup ends |->
                       IF n \in DOMAIN under.defs THEN under.defs[n] ELSE None]
<1>3. Internal(nodes) \in SUBSET names
  BY <1>1 DEF Internal
<1>4. IsFiniteSet(Internal(nodes))
  BY <1>2, <1>3, FS_Subset
<1>5. \A edges, effect_roots : FineGraph(assemble_graph(nodes, edges, effect_roots))
  <2> HIDE DEF nodes
  <2>1. QED
    BY <1>4, AssembledFine
<1>6. FineGraph(build_graph(under))
  BY <1>5 DEF build_graph
<1>7. QED
  BY <1>6 DEF build_graph_from_source, under

LEMMA ClosureFine ==
  ASSUME NEW graph, FineGraph(graph), NEW roots
  PROVE  FineGraph(filter_to_closure(graph, roots))
<1> DEFINE kept == dependency_closure(graph, roots) \cap DOMAIN graph.symbols
           nodes == [n \in kept |-> graph.symbols[n].meta]
           defined == {n \in DOMAIN graph.symbols : ~ graph.symbols[n].external}
<1>1. Internal(nodes) \in SUBSET defined
  BY DEF Internal, FineGraph
<1>2. IsFiniteSet(Internal(nodes))
  BY <1>1, FS_Subset DEF FineGraph
<1>3. \A edges, effect_roots : FineGraph(assemble_graph(nodes, edges, effect_roots))
  <2> HIDE DEF nodes
  <2>1. QED
    BY <1>2, AssembledFine
<1>4. QED
  BY <1>3 DEF filter_to_closure

LEMMA SliceFine ==
  ASSUME NEW graph, FineGraph(graph), NEW rel
  PROVE  FineGraph(reroot_subgraph(graph, rel))
<1> DEFINE kept == {n \in DOMAIN graph.symbols :
                      /\ ~ graph.symbols[n].external
                      /\ HasPrefix(graph.symbols[n].meta.file, rel)}
           old(m) == CHOOSE n \in kept : strip(n, rel) = m
           nodes == [m \in {strip(n, rel) : n \in kept} |->
                       [graph.symbols[old(m)].meta EXCEPT !.file = strip(@, rel)]]
<1>1. Internal(nodes) \in SUBSET {strip(n, rel) : n \in kept}
  BY DEF Internal
<1>2. IsFiniteSet({strip(n, rel) : n \in kept})
  <2> DEFINE f == [n \in kept |-> strip(n, rel)]
             defined == {n \in DOMAIN graph.symbols : ~ graph.symbols[n].external}
  <2>1. {f[n] : n \in kept} = {strip(n, rel) : n \in kept}
    OBVIOUS
  <2>2. kept \in SUBSET defined
    OBVIOUS
  <2>3. IsFiniteSet(kept)
    <3>1. IsFiniteSet(defined)
      BY DEF FineGraph
    <3> HIDE DEF kept, defined
    <3>2. QED
      BY <2>2, <3>1, FS_Subset
  <2> HIDE DEF f, kept
  <2>4. QED
    BY <2>1, <2>3, ValuesFinite
<1>3. IsFiniteSet(Internal(nodes))
  <2> HIDE DEF nodes, kept
  <2>1. QED
    BY <1>1, <1>2, FS_Subset
<1>4. \A edges, effect_roots : FineGraph(assemble_graph(nodes, edges, effect_roots))
  <2> HIDE DEF nodes
  <2>1. QED
    BY <1>3, AssembledFine
<1>5. QED
  BY <1>4 DEF reroot_subgraph

-----------------------------------------------------------------------------
(* Every file is in one wave, and every match of a file counts in it.      *)
LEMMA WavesAddUp ==
  ASSUME NEW files, IsFiniteSet(DOMAIN files), NEW wave_of, NEW R,
         \A p \in DOMAIN files : IsFiniteSet(R[p]) /\ files[p].matched_symbols = Cardinality(R[p]),
         \A p, q \in DOMAIN files : p # q => R[p] \cap R[q] = {}
  PROVE  LET waves == WaveBands(files, wave_of)
         IN  /\ SumFunction([w \in DOMAIN waves |-> waves[w].files]) = Cardinality(DOMAIN files)
             /\ SumFunction([w \in DOMAIN waves |-> waves[w].symbols_matched])
                  = Cardinality(UNION {R[p] : p \in DOMAIN files})
<1> DEFINE in(w) == {p \in DOMAIN files : wave_of[p] = w}
           W == {wave_of[p] : p \in DOMAIN files}
           Q == [w \in W |-> UNION {R[p] : p \in in(w)}]
           waves == WaveBands(files, wave_of)
           bands(w) == BandCounts([p \in DOMAIN files |-> files[p].band], in(w))
           symbols(w) == SumFunction([p \in in(w) |-> files[p].total_symbols])
           matched(w) == SumFunction([p \in in(w) |-> files[p].matched_symbols])
<1>1. waves = [w \in W |-> [files |-> Cardinality(in(w)), bands |-> bands(w),
                            symbols_total |-> symbols(w), symbols_matched |-> matched(w)]]
  BY DEF WaveBands
<1>2. IsFiniteSet(W)
  BY ValuesFinite
<1>3. \A w \in W : IsFiniteSet(Q[w]) /\ matched(w) = Cardinality(Q[w])
  <2>1. TAKE w \in W
  <2>2. in(w) \in SUBSET DOMAIN files
    OBVIOUS
  <2>3. IsFiniteSet(in(w))
    BY <2>2, FS_Subset
  <2>4. [p \in in(w) |-> files[p].matched_symbols] = [p \in in(w) |-> Cardinality(R[p])]
    OBVIOUS
  <2>5. Q[w] = UNION {R[p] : p \in in(w)}
    OBVIOUS
  <2>6. \A p \in in(w) : IsFiniteSet(R[p])
    OBVIOUS
  <2>7. \A p, q \in in(w) : p # q => R[p] \cap R[q] = {}
    OBVIOUS
  <2> HIDE DEF in, Q
  <2>8. /\ IsFiniteSet(UNION {R[p] : p \in in(w)})
        /\ SumFunction([p \in in(w) |-> Cardinality(R[p])]) = Cardinality(UNION {R[p] : p \in in(w)})
    BY ONLY <2>3, <2>6, <2>7, SumOfParts
  <2>9. QED
    BY <2>4, <2>5, <2>8
<1>4. \A u, v \in W : u # v => Q[u] \cap Q[v] = {}
  OBVIOUS
<1>5. UNION {Q[w] : w \in W} = UNION {R[p] : p \in DOMAIN files}
  <2>1. \A w \in W : Q[w] \subseteq UNION {R[p] : p \in DOMAIN files}
    OBVIOUS
  <2>2. \A p \in DOMAIN files : wave_of[p] \in W /\ R[p] \subseteq Q[wave_of[p]]
    OBVIOUS
  <2> HIDE DEF W, Q
  <2>3. QED
    BY <2>1, <2>2
<1>6. \A p \in DOMAIN files : wave_of[p] \in W
  OBVIOUS
<1>7. SumFunction([w \in W |-> Cardinality(in(w))]) = Cardinality(DOMAIN files)
  <2> HIDE DEF W
  <2>1. QED
    BY <1>2, <1>6, SumOfClasses
<1> HIDE DEF in, W, Q, bands, symbols, matched, waves
<1>8. SumFunction([w \in W |-> matched(w)]) = Cardinality(UNION {R[p] : p \in DOMAIN files})
  <2>1. [w \in W |-> matched(w)] = [w \in W |-> Cardinality(Q[w])]
    BY <1>3
  <2>2. \A w \in W : IsFiniteSet(Q[w])
    BY <1>3
  <2>3. SumFunction([w \in W |-> Cardinality(Q[w])]) = Cardinality(UNION {Q[w] : w \in W})
    BY ONLY <1>2, <1>4, <2>2, SumOfParts
  <2>4. QED
    BY <1>5, <2>1, <2>3
<1>9. /\ DOMAIN waves = W
      /\ [w \in W |-> waves[w].files] = [w \in W |-> Cardinality(in(w))]
      /\ [w \in W |-> waves[w].symbols_matched] = [w \in W |-> matched(w)]
  BY <1>1
<1>10. QED
  BY <1>7, <1>8, <1>9 DEF waves

(* The row of a file counts its resolved symbols, and so do the target     *)
(* files that they went to, taken together.                                *)
GoodRow(entry, resolved) ==
  /\ entry.band \in Bands
  /\ IsFiniteSet(resolved)
  /\ entry.matched_symbols = Cardinality(resolved)
  /\ SumFunction([t \in DOMAIN entry.contributions |-> entry.contributions[t].total_matched])
       = Cardinality(resolved)

LEMMA FileRow ==
  ASSUME NEW syms, IsFiniteSet(syms), NEW native_file, NEW mapped, NEW fan_in, NEW targets,
         NEW matches, NEW confirm, NEW rules
  PROVE  GoodRow(FileEntry(syms, native_file, mapped, fan_in, targets, matches, confirm, rules),
                 {n \in syms : matches[n].tier # "unmatched"})
<1> DEFINE resolved == {n \in syms : matches[n].tier # "unmatched"}
           evaluable == {n \in resolved : confirm[n].evaluable}
           first == classify_band(native_file, Cardinality(syms), Cardinality(resolved),
                                  mapped.method # None, rules)
           band == IF first \in {"PORTED", "STARTED"} /\ IsRelocated(resolved, targets, matches)
                   THEN "RELOCATED" ELSE first
           confirmed == Cardinality({n \in evaluable : confirm[n].confirmed})
           checked == Cardinality(evaluable)
           rows == target_file_contributions(resolved, targets, matches)
           tiers == TierCounts(matches, syms)
           entry == FileEntry(syms, native_file, mapped, fan_in, targets, matches, confirm, rules)
           record == [band |-> band, total_symbols |-> Cardinality(syms),
                      matched_symbols |-> Cardinality(resolved), evaluable |-> checked,
                      confirmed |-> confirmed, mapped_target |-> mapped.subtree,
                      map_method |-> mapped.method, contributions |-> rows,
                      tier_breakdown |-> tiers, fan_in |-> fan_in]
<1>1. entry = record
  BY DEF FileEntry
<1>2. band \in Bands
  <2>1. first \in Bands
    BY DEF classify_band, Bands
  <2> HIDE DEF first
  <2>2. QED
    BY <2>1 DEF Bands
<1>3. IsFiniteSet(resolved)
  <2>1. resolved \in SUBSET syms
    OBVIOUS
  <2>2. QED
    BY <2>1, FS_Subset
<1> HIDE DEF band, confirmed, checked, rows, tiers, resolved, entry
<1>4. entry.band = band /\ entry.matched_symbols = Cardinality(resolved) /\ entry.contributions = rows
  BY <1>1
<1>5. SumFunction([t \in DOMAIN rows |-> rows[t].total_matched]) = Cardinality(resolved)
  <2> DEFINE at == [n \in resolved |-> targets[matches[n].at].file]
             W == {targets[matches[n].at].file : n \in resolved}
             into(t) == {n \in resolved : targets[matches[n].at].file = t}
             strong(t) == Cardinality({n \in into(t) : matches[n].tier \in {"exact_module", "subtree"}})
  <2>1. rows = [t \in W |-> [strong_matched |-> strong(t), total_matched |-> Cardinality(into(t))]]
    BY DEF rows, target_file_contributions
  <2>2. \A t \in W : into(t) = {n \in resolved : at[n] = t}
    OBVIOUS
  <2>3. W = {at[n] : n \in resolved} /\ \A n \in resolved : at[n] \in W
    OBVIOUS
  <2> HIDE DEF W, at, into, strong
  <2>4. IsFiniteSet(W)
    BY <1>3, <2>3, ValuesFinite
  <2>5. SumFunction([t \in W |-> Cardinality({n \in resolved : at[n] = t})]) = Cardinality(resolved)
    BY <1>3, <2>3, <2>4, SumOfClasses
  <2>6. [t \in W |-> Cardinality({n \in resolved : at[n] = t})] = [t \in W |-> Cardinality(into(t))]
    BY <2>2
  <2>7. DOMAIN rows = W /\ [t \in W |-> rows[t].total_matched] = [t \in W |-> Cardinality(into(t))]
    BY <2>1
  <2>8. QED
    BY <2>5, <2>6, <2>7
<1>6. QED
  BY <1>2, <1>3, <1>4, <1>5 DEF resolved, entry, GoodRow

(* The parts of the report of one package, each counted in its own way,    *)
(* agree with each other.                                                  *)
FinePackage(report) ==
  /\ IsFiniteSet(DOMAIN report.files)
  /\ \A p \in DOMAIN report.files : report.files[p].band \in Bands
  /\ report.overall.source_files_total = Cardinality(DOMAIN report.files)
  /\ \A b \in Bands : report.overall.bands[b]
                        = Cardinality({p \in DOMAIN report.files : report.files[p].band = b})
  /\ SumFunction([w \in DOMAIN report.waves |-> report.waves[w].files])
       = report.overall.source_files_total
  /\ SumFunction([w \in DOMAIN report.waves |-> report.waves[w].symbols_matched])
       = report.overall.symbols_matched
  /\ SumFunction([p \in DOMAIN report.files |->
                    SumFunction([t \in DOMAIN report.files[p].contributions |->
                                   report.files[p].contributions[t].total_matched])])
       = report.overall.symbols_matched

(* Where the numbers of a report come from. *)
Prints(report, files, waves, matched) ==
  /\ report.files = files
  /\ report.waves = waves
  /\ report.overall.source_files_total = Cardinality(DOMAIN files)
  /\ report.overall.symbols_matched = Cardinality(matched)
  /\ report.overall.bands = BandCounts([p \in DOMAIN files |-> files[p].band], DOMAIN files)

LEMMA ReportParts ==
  ASSUME NEW source_graph, NEW wave_of, NEW matches, NEW confirm, NEW files, NEW rules
  PROVE  Prints(PortDiffReport(source_graph, wave_of, matches, confirm, files, rules),
                files, WaveBands(files, wave_of), DOMAIN confirm)
<1> DEFINE report == PortDiffReport(source_graph, wave_of, matches, confirm, files, rules)
           waves == WaveBands(files, wave_of)
           own == {crate_of(x) : x \in ToSet(rules.target_src_prefix)}
           symbols == Cardinality(DOMAIN matches)
           excluded == Cardinality(SyntheticExcluded(source_graph, rules))
           tiers == TierCounts(matches, DOMAIN matches)
           evaluable == Cardinality({n \in DOMAIN confirm : confirm[n].evaluable})
           confirmed == Cardinality({n \in DOMAIN confirm : confirm[n].confirmed})
           frontier == {p \in DOMAIN files : IsReady(p, source_graph, files)}
           naive == naive_vs_graph(files)
           marked == Cardinality(rules.native_files)
           merges == from_contributions(contributions_from_files(files, rules.package),
                                        [c \in own |-> rules.package])
           bands == BandCounts([p \in DOMAIN files |-> files[p].band], DOMAIN files)
           overall == [source_files_total |-> Cardinality(DOMAIN files),
                       symbols_total |-> symbols, symbols_synthetic_excluded |-> excluded,
                       symbols_matched |-> Cardinality(DOMAIN confirm), tier_counts |-> tiers,
                       evaluable |-> evaluable, confirmed |-> confirmed, bands |-> bands]
<1>1. report = [overall |-> overall, files |-> files, waves |-> waves, ready_frontier |-> frontier,
                naive_vs_graph |-> naive, native_modules |-> marked, merges |-> merges]
  BY DEF PortDiffReport
<1> HIDE DEF own, symbols, excluded, tiers, evaluable, confirmed, frontier, naive, marked, merges,
             bands, waves, report
<1>2. QED
  BY <1>1 DEF bands, report, waves, Prints

LEMMA ReportFine ==
  ASSUME NEW source_graph, NEW wave_of, NEW matches, NEW confirm, NEW files, NEW rules,
         IsFiniteSet(DOMAIN files), NEW R,
         \A p \in DOMAIN files : GoodRow(files[p], R[p]),
         \A p, q \in DOMAIN files : p # q => R[p] \cap R[q] = {},
         UNION {R[p] : p \in DOMAIN files} = DOMAIN confirm
  PROVE  FinePackage(PortDiffReport(source_graph, wave_of, matches, confirm, files, rules))
<1> DEFINE report == PortDiffReport(source_graph, wave_of, matches, confirm, files, rules)
           waves == WaveBands(files, wave_of)
           band_of == [p \in DOMAIN files |-> files[p].band]
<1>1. /\ report.files = files
      /\ report.waves = waves
      /\ report.overall.source_files_total = Cardinality(DOMAIN files)
      /\ report.overall.symbols_matched = Cardinality(DOMAIN confirm)
      /\ report.overall.bands = BandCounts(band_of, DOMAIN files)
  <2>1. Prints(report, files, waves, DOMAIN confirm)
    BY ReportParts
  <2> HIDE DEF report, waves
  <2>2. QED
    BY <2>1 DEF Prints
<1>2. \A b \in Bands : BandCounts(band_of, DOMAIN files)[b]
                         = Cardinality({p \in DOMAIN files : files[p].band = b})
  <2>1. \A b \in Bands : {p \in DOMAIN files : band_of[p] = b} = {p \in DOMAIN files : files[p].band = b}
    OBVIOUS
  <2> HIDE DEF band_of
  <2>2. QED
    BY <2>1 DEF BandCounts
<1>3. /\ SumFunction([w \in DOMAIN waves |-> waves[w].files]) = Cardinality(DOMAIN files)
      /\ SumFunction([w \in DOMAIN waves |-> waves[w].symbols_matched]) = Cardinality(DOMAIN confirm)
  <2>1. \A p \in DOMAIN files : IsFiniteSet(R[p]) /\ files[p].matched_symbols = Cardinality(R[p])
    BY DEF GoodRow
  <2>2. \A p, q \in DOMAIN files : p # q => R[p] \cap R[q] = {}
    OBVIOUS
  <2>3. /\ SumFunction([w \in DOMAIN waves |-> waves[w].files]) = Cardinality(DOMAIN files)
        /\ SumFunction([w \in DOMAIN waves |-> waves[w].symbols_matched])
             = Cardinality(UNION {R[p] : p \in DOMAIN files})
    BY ONLY <2>1, <2>2, IsFiniteSet(DOMAIN files), WavesAddUp
  <2> HIDE DEF waves
  <2>4. QED
    BY <2>3
<1>4. SumFunction([p \in DOMAIN files |->
                     SumFunction([t \in DOMAIN files[p].contributions |->
                                    files[p].contributions[t].total_matched])])
        = Cardinality(DOMAIN confirm)
  <2> DEFINE landed(p) == SumFunction([t \in DOMAIN files[p].contributions |->
                                         files[p].contributions[t].total_matched])
  <2>1. \A p \in DOMAIN files : landed(p) = Cardinality(R[p])
    BY DEF GoodRow
  <2>2. \A p \in DOMAIN files : IsFiniteSet(R[p])
    BY DEF GoodRow
  <2>3. \A p, q \in DOMAIN files : p # q => R[p] \cap R[q] = {}
    OBVIOUS
  <2> HIDE DEF landed
  <2>4. SumFunction([p \in DOMAIN files |-> Cardinality(R[p])])
          = Cardinality(UNION {R[p] : p \in DOMAIN files})
    BY ONLY <2>2, <2>3, IsFiniteSet(DOMAIN files), SumOfParts
  <2>5. [p \in DOMAIN files |-> landed(p)] = [p \in DOMAIN files |-> Cardinality(R[p])]
    BY <2>1
  <2>6. SumFunction([p \in DOMAIN files |-> landed(p)]) = Cardinality(DOMAIN confirm)
    BY <2>4, <2>5
  <2>7. QED
    BY <2>6 DEF landed
<1> HIDE DEF waves, report, band_of
<1>5. \A p \in DOMAIN files : files[p].band \in Bands
  BY DEF GoodRow
<1>6. FinePackage(report)
  BY <1>1, <1>2, <1>3, <1>4, <1>5 DEF FinePackage
<1>7. QED
  BY <1>6 DEF report

(* port_diff: every symbol that is matched lies in a file of the map.      *)
LEMMA PortDiffFine ==
  ASSUME NEW source_graph, FineGraph(source_graph), NEW wave_of, NEW target_graph, NEW rules
  PROVE  FinePackage(port_diff(source_graph, wave_of, target_graph, rules))
<1> DEFINE targets == TargetIndex(target_graph, rules)
           map == FileMap(source_graph, targets, rules)
           matches == Matches(source_graph, targets, map, rules)
           confirm == GraphConfirm(source_graph, target_graph, targets, matches, rules)
           syms(p) == {n \in DOMAIN matches : source_graph.symbols[n].meta.file = p}
           row(p) == FileEntry(syms(p), p \in rules.native_files, map[p],
                               source_graph.files[p].fan_in, targets, matches, confirm, rules)
           files == [p \in DOMAIN map |-> row(p)]
           R == [p \in DOMAIN map |-> {n \in syms(p) : matches[n].tier # "unmatched"}]
<1>1. port_diff(source_graph, wave_of, target_graph, rules)
        = PortDiffReport(source_graph, wave_of, matches, confirm, Table(files), rules)
  BY Zenon DEF port_diff
<1>2. DOMAIN map = source_files(source_graph, rules)
  BY TableIs DEF FileMap
<1>3. DOMAIN matches = SourceSymbols(source_graph, rules)
  BY TableIs DEF Matches
<1>4. DOMAIN confirm = {n \in DOMAIN matches : matches[n].tier # "unmatched"}
  <2> HIDE DEF matches, targets
  <2>1. QED
    BY TableIs DEF GraphConfirm
<1> HIDE DEF targets, map, matches, confirm
<1>5. Table(files) = files
  <2> HIDE DEF files
  <2>1. QED
    BY TableIs
<1>6. IsFiniteSet(DOMAIN map)
  <2>1. DOMAIN map \in SUBSET DOMAIN source_graph.files
    BY <1>2 DEF source_files
  <2>2. QED
    BY <2>1, FS_Subset DEF FineGraph
<1>7. IsFiniteSet(DOMAIN matches)
  <2> DEFINE defined == {n \in DOMAIN source_graph.symbols : ~ source_graph.symbols[n].external}
  <2>1. DOMAIN matches \in SUBSET defined
    BY <1>3 DEF SourceSymbols, InSource
  <2>2. IsFiniteSet(defined)
    BY DEF FineGraph
  <2> HIDE DEF defined
  <2>3. QED
    BY <2>1, <2>2, FS_Subset
<1>8. \A p \in DOMAIN map : GoodRow(files[p], R[p])
  <2>1. TAKE p \in DOMAIN map
  <2>2. syms(p) \in SUBSET DOMAIN matches
    OBVIOUS
  <2>3. IsFiniteSet(syms(p))
    <3> HIDE DEF syms
    <3>1. QED
      BY <1>7, <2>2, FS_Subset
  <2>4. files[p] = row(p) /\ R[p] = {n \in syms(p) : matches[n].tier # "unmatched"}
    OBVIOUS
  <2> HIDE DEF syms, files, R
  <2> DEFINE resolved == {n \in syms(p) : matches[n].tier # "unmatched"}
  <2>5. GoodRow(row(p), resolved)
    BY ONLY <2>3, FileRow
  <2> HIDE DEF row, resolved
  <2>6. QED
    BY <2>4, <2>5 DEF resolved
<1>9. \A p, q \in DOMAIN map : p # q => R[p] \cap R[q] = {}
  OBVIOUS
<1>10. UNION {R[p] : p \in DOMAIN map} = DOMAIN confirm
  <2>1. \A n \in DOMAIN matches : source_graph.symbols[n].meta.file \in DOMAIN map
    BY <1>2, <1>3 DEF SourceSymbols, InSource, source_files, FineGraph
  <2>2. \A p \in DOMAIN map : R[p] \subseteq DOMAIN confirm
    BY <1>4
  <2>3. \A n \in DOMAIN confirm : n \in R[source_graph.symbols[n].meta.file]
    BY <1>4, <2>1
  <2>4. \A n \in DOMAIN confirm : source_graph.symbols[n].meta.file \in DOMAIN map
    BY <1>4, <2>1
  <2> HIDE DEF R
  <2>5. QED
    BY <2>2, <2>3, <2>4
<1>11. DOMAIN files = DOMAIN map
  OBVIOUS
<1> HIDE DEF files, R
<1>12. FinePackage(PortDiffReport(source_graph, wave_of, matches, confirm, files, rules))
  <2>1. IsFiniteSet(DOMAIN files) /\ UNION {R[p] : p \in DOMAIN files} = DOMAIN confirm
    BY <1>6, <1>10, <1>11
  <2>2. \A p, q \in DOMAIN files : p # q => R[p] \cap R[q] = {}
    BY <1>9, <1>11
  <2>3. \A p \in DOMAIN files : GoodRow(files[p], R[p])
    BY <1>8, <1>11
  <2>4. QED
    BY ONLY <2>1, <2>2, <2>3, ReportFine
<1>13. QED
  BY <1>1, <1>5, <1>12

-----------------------------------------------------------------------------
(* The totals of a report count its files: K, band by band.                *)
CountedFrom(totals, K, band) ==
  /\ IsFiniteSet(K)
  /\ \A k \in K : band[k] \in Bands
  /\ totals.source_files_total = Cardinality(K)
  /\ \A b \in Bands : totals.bands[b] = Cardinality({k \in K : band[k] = b})

(* A row for every file of either report, which tells the two bands.       *)
RowsOf(rows, B, before, C, after) ==
  /\ DOMAIN rows = B \cup C
  /\ \A k \in B \cup C :
       /\ rows[k].band_before = IF k \in B THEN before[k] ELSE None
       /\ rows[k].band_after = IF k \in C THEN after[k] ELSE None
       /\ rows[k].direction = "added" <=> k \notin B
       /\ rows[k].direction = "removed" <=> k \notin C

(* The totals of a delta account for the difference of two reports.        *)
Accounts(before, after, moved) ==
  /\ \A b \in Bands : before.bands[b] + moved.band_net_movement[b] = after.bands[b]
  /\ moved.direction["added"] - moved.direction["removed"]
       = after.source_files_total - before.source_files_total

LEMMA DeltaAccounts ==
  ASSUME NEW t1, NEW B, NEW before, CountedFrom(t1, B, before),
         NEW t2, NEW C, NEW after, CountedFrom(t2, C, after),
         NEW rows, RowsOf(rows, B, before, C, after), NEW m1, NEW m2
  PROVE  Accounts(t1, t2, totals_from(rows, m1, m2))
<1> DEFINE moved == totals_from(rows, m1, m2)
           directed(d) == {p \in DOMAIN rows : rows[p].direction = d}
           kinds == {"advanced", "regressed", "unchanged", "added", "removed"}
           direction == [d \in kinds |-> Cardinality(directed(d))]
           net == band_net_movement(rows)
<1>1. moved.direction = direction /\ moved.band_net_movement = net
  <2> DEFINE went == directed("advanced") \cup directed("regressed")
             transitions == [bc \in {<<rows[p].band_before, rows[p].band_after>> : p \in went} |->
                               Cardinality({p \in went :
                                              <<rows[p].band_before, rows[p].band_after>> = bc})]
             delta == m2 - m1
  <2>1. moved = [direction |-> direction, transitions |-> transitions,
                 band_net_movement |-> net, symbols_matched_delta |-> delta]
    BY DEF totals_from
  <2> HIDE DEF went, transitions, delta, moved, direction, net
  <2>2. QED
    BY <2>1
<1>2. ASSUME NEW b \in Bands
      PROVE  t1.bands[b] + net[b] = t2.bands[b]
  <2> DEFINE was == {k \in B : before[k] = b}
             is == {k \in C : after[k] = b}
  <2>1. b # None
    BY BandsAssumption
  <2>2. {p \in DOMAIN rows : rows[p].band_before = b} = was
    BY <2>1 DEF RowsOf
  <2>3. {p \in DOMAIN rows : rows[p].band_after = b} = is
    BY <2>1 DEF RowsOf
  <2>4. t1.bands[b] = Cardinality(was) /\ t2.bands[b] = Cardinality(is)
    BY DEF CountedFrom
  <2>5. net[b] = Cardinality({p \in DOMAIN rows : rows[p].band_after = b})
                   - Cardinality({p \in DOMAIN rows : rows[p].band_before = b})
    BY DEF band_net_movement
  <2>6. Cardinality(was) \in Nat /\ Cardinality(is) \in Nat
    <3>1. was \in SUBSET B /\ is \in SUBSET C /\ IsFiniteSet(B) /\ IsFiniteSet(C)
      BY DEF CountedFrom
    <3> HIDE DEF was, is
    <3>2. QED
      BY <3>1, FS_Subset, FS_CardinalityType
  <2>7. net[b] = Cardinality(is) - Cardinality(was)
    BY <2>2, <2>3, <2>5
  <2> HIDE DEF was, is, net
  <2>8. QED
    BY <2>4, <2>6, <2>7
<1>3. direction["added"] - direction["removed"] = t2.source_files_total - t1.source_files_total
  <2>1. directed("added") = C \ B /\ directed("removed") = B \ C
    BY DEF RowsOf
  <2>2. direction["added"] = Cardinality(C \ B) /\ direction["removed"] = Cardinality(B \ C)
    BY <2>1
  <2> HIDE DEF direction
  <2>3. IsFiniteSet(B) /\ IsFiniteSet(C)
    BY DEF CountedFrom
  <2>4. Cardinality(C \ B) = Cardinality(C) - Cardinality(C \cap B)
    BY <2>3, FS_Difference
  <2>5. Cardinality(B \ C) = Cardinality(B) - Cardinality(B \cap C)
    BY <2>3, FS_Difference
  <2>6. C \cap B = B \cap C /\ IsFiniteSet(B \cap C)
    BY <2>3, FS_Intersection
  <2>7. Cardinality(B) \in Nat /\ Cardinality(C) \in Nat /\ Cardinality(B \cap C) \in Nat
    BY <2>3, <2>6, FS_CardinalityType
  <2>8. t1.source_files_total = Cardinality(B) /\ t2.source_files_total = Cardinality(C)
    BY DEF CountedFrom
  <2>9. Cardinality(C \ B) = Cardinality(C) - Cardinality(B \cap C)
    BY <2>4, <2>6
  <2>10. Cardinality(C \ B) - Cardinality(B \ C) = Cardinality(C) - Cardinality(B)
    BY ONLY <2>5, <2>7, <2>9
  <2>11. QED
    BY ONLY <2>2, <2>8, <2>10
<1> HIDE DEF moved, direction, net
<1>4. Accounts(t1, t2, moved)
  BY <1>1, <1>2, <1>3 DEF Accounts
<1>5. QED
  BY <1>4 DEF moved

(* The rows that two lists of files are compared by.                       *)
LEMMA FileListRows ==
  ASSUME NEW was, NEW is, \A p \in DOMAIN was : was[p].band \in Bands,
         \A p \in DOMAIN is : is[p].band \in Bands
  PROVE  RowsOf(diff_file_lists(was, is), DOMAIN was, [p \in DOMAIN was |-> was[p].band],
                DOMAIN is, [p \in DOMAIN is |-> is[p].band])
<1> DEFINE band(files, p) == IF p \in DOMAIN files THEN files[p].band ELSE None
           Direction(b, c) ==
             CASE b = None -> "added"
               [] c = None -> "removed"
               [] OTHER -> IF band_rank(c) > band_rank(b) THEN "advanced"
                           ELSE IF band_rank(c) < band_rank(b) THEN "regressed" ELSE "unchanged"
           row(p) == [band_before |-> band(was, p), band_after |-> band(is, p),
                      direction |-> Direction(band(was, p), band(is, p))]
           rows == [p \in DOMAIN was \cup DOMAIN is |-> row(p)]
<1>1. diff_file_lists(was, is) = rows
  <2>1. diff_file_lists(was, is) = Table(rows)
    BY DEF diff_file_lists
  <2> HIDE DEF rows
  <2>2. QED
    BY <2>1, TableIs
<1>2. ASSUME NEW p \in DOMAIN was \cup DOMAIN is
      PROVE  /\ Direction(band(was, p), band(is, p)) = "added" <=> p \notin DOMAIN was
             /\ Direction(band(was, p), band(is, p)) = "removed" <=> p \notin DOMAIN is
  <2>1. \A b, c : b = None /\ c # None => Direction(b, c) = "added"
    OBVIOUS
  <2>2. \A b, c : b # None /\ c = None => Direction(b, c) = "removed"
    OBVIOUS
  <2>3. \A b, c : b # None /\ c # None => Direction(b, c) \in {"advanced", "regressed", "unchanged"}
    OBVIOUS
  <2> HIDE DEF Direction
  <2>4. /\ band(was, p) = None <=> p \notin DOMAIN was
        /\ band(is, p) = None <=> p \notin DOMAIN is
    BY BandsAssumption
  <2>5. QED
    BY <2>1, <2>2, <2>3, <2>4
<1>3. \A p \in DOMAIN was \cup DOMAIN is :
        /\ rows[p].band_before = band(was, p)
        /\ rows[p].band_after = band(is, p)
        /\ rows[p].direction = Direction(band(was, p), band(is, p))
  <2> HIDE DEF band, Direction
  <2>1. QED
    OBVIOUS
<1>4. DOMAIN rows = DOMAIN was \cup DOMAIN is
  OBVIOUS
<1> HIDE DEF rows, Direction
<1>5. RowsOf(rows, DOMAIN was, [p \in DOMAIN was |-> was[p].band],
             DOMAIN is, [p \in DOMAIN is |-> is[p].band])
  BY <1>2, <1>3, <1>4 DEF RowsOf
<1>6. QED
  BY <1>1, <1>5

(* The files of several packages, and the band of each.                    *)
FileKeys(packages) ==
  UNION {{<<p, f>> : f \in DOMAIN packages[p].files} : p \in DOMAIN packages}

BandAt(packages) == [k \in FileKeys(packages) |-> packages[k[1]].files[k[2]].band]

FinePackages(packages) ==
  /\ IsFiniteSet(DOMAIN packages)
  /\ \A p \in DOMAIN packages : FinePackage(packages[p])

LEMMA PackagesCounted ==
  ASSUME NEW reports, FinePackages(reports)
  PROVE  CountedFrom(add_reports(reports), FileKeys(reports), BandAt(reports))
<1> DEFINE D == DOMAIN reports
           overall == [p \in D |-> reports[p].overall]
           total(field) == SumFunction([p \in D |-> overall[p][field]])
           bands == [b \in Bands |-> SumFunction([p \in D |-> overall[p].bands[b]])]
           files(p) == DOMAIN reports[p].files
           totals == add_reports(reports)
<1>1. totals.source_files_total = total("source_files_total") /\ totals.bands = bands
  <2> DEFINE marked == SumFunction([p \in D |-> reports[p].native_modules])
             symbols == total("symbols_total")
             matched == total("symbols_matched")
             all == total("source_files_total")
  <2>1. totals = [source_files_total |-> all, bands |-> bands, symbols_total |-> symbols,
                  symbols_matched |-> matched, conformance_native |-> marked]
    BY DEF add_reports
  <2> HIDE DEF totals, all, bands, symbols, matched, marked
  <2>2. totals.source_files_total = all /\ totals.bands = bands
    BY <2>1
  <2>3. QED
    BY <2>2 DEF all
<1>2. \A p \in D : /\ IsFiniteSet(files(p))
                   /\ reports[p].overall.source_files_total = Cardinality(files(p))
                   /\ \A f \in files(p) : reports[p].files[f].band \in Bands
                   /\ \A b \in Bands : reports[p].overall.bands[b]
                        = Cardinality({f \in files(p) : reports[p].files[f].band = b})
  BY DEF FinePackages, FinePackage
<1>3. IsFiniteSet(D)
  BY DEF FinePackages
<1>4. IsFiniteSet(FileKeys(reports)) /\ totals.source_files_total = Cardinality(FileKeys(reports))
  <2> DEFINE R == [p \in D |-> files(p)]
  <2>1. \A p \in D : IsFiniteSet(R[p])
    BY <1>2
  <2>2. FileKeys(reports) = PairsOf(D, R)
    BY DEF FileKeys, PairsOf
  <2>3. [p \in D |-> overall[p]["source_files_total"]] = [p \in D |-> Cardinality(R[p])]
    BY <1>2
  <2> HIDE DEF R, D
  <2>4. /\ IsFiniteSet(PairsOf(D, R))
        /\ SumFunction([p \in D |-> Cardinality(R[p])]) = Cardinality(PairsOf(D, R))
    BY ONLY <1>3, <2>1, SumOfRows
  <2>5. total("source_files_total") = SumFunction([p \in D |-> Cardinality(R[p])])
    BY <2>3
  <2> HIDE DEF total
  <2>6. QED
    BY <1>1, <2>2, <2>4, <2>5
<1>5. ASSUME NEW b \in Bands
      PROVE  totals.bands[b] = Cardinality({k \in FileKeys(reports) : BandAt(reports)[k] = b})
  <2> DEFINE R == [p \in D |-> {f \in files(p) : reports[p].files[f].band = b}]
  <2>1. \A p \in D : IsFiniteSet(R[p])
    <3>1. TAKE p \in D
    <3>2. R[p] \in SUBSET files(p) /\ IsFiniteSet(files(p))
      BY <1>2
    <3> HIDE DEF R, files
    <3>3. QED
      BY <3>2, FS_Subset
  <2>2. {k \in FileKeys(reports) : BandAt(reports)[k] = b} = PairsOf(D, R)
    BY DEF FileKeys, BandAt, PairsOf
  <2>3. [p \in D |-> overall[p].bands[b]] = [p \in D |-> Cardinality(R[p])]
    BY <1>2
  <2>4. bands[b] = SumFunction([p \in D |-> Cardinality(R[p])])
    BY <2>3
  <2> HIDE DEF R, D, bands
  <2>5. SumFunction([p \in D |-> Cardinality(R[p])]) = Cardinality(PairsOf(D, R))
    BY ONLY <1>3, <2>1, SumOfRows
  <2>6. QED
    BY <1>1, <2>2, <2>4, <2>5
<1>6. \A k \in FileKeys(reports) : BandAt(reports)[k] \in Bands
  BY <1>2 DEF FileKeys, BandAt
<1> HIDE DEF totals, D
<1>7. CountedFrom(totals, FileKeys(reports), BandAt(reports))
  BY <1>4, <1>5, <1>6 DEF CountedFrom
<1>8. QED
  BY <1>7 DEF totals

LEMMA PackagedRows ==
  ASSUME NEW was, FinePackages(was), NEW is, FinePackages(is)
  PROVE  RowsOf(diff_packaged(was, is), FileKeys(was), BandAt(was), FileKeys(is), BandAt(is))
<1> DEFINE files(reports, p) == IF p \in DOMAIN reports THEN reports[p].files ELSE <<>>
           P == DOMAIN was \cup DOMAIN is
           rows(p) == diff_file_lists(files(was, p), files(is, p))
           of == [p \in P |-> rows(p)]
           pairs == UNION {{<<p, f>> : f \in DOMAIN of[p]} : p \in DOMAIN of}
           all == [pf \in pairs |-> of[pf[1]][pf[2]]]
<1>1. diff_packaged(was, is) = all
  <2>1. Table(of) = of
    <3> HIDE DEF of
    <3>1. QED
      BY TableIs
  <2>2. diff_packaged(was, is)
          = LET t == Table(of)
                ps == UNION {{<<p, f>> : f \in DOMAIN t[p]} : p \in DOMAIN t}
            IN  Table([pf \in ps |-> t[pf[1]][pf[2]]])
    BY DEF diff_packaged
  <2> HIDE DEF of
  <2>3. diff_packaged(was, is) = Table(all)
    BY <2>1, <2>2
  <2> HIDE DEF all
  <2>4. QED
    BY <2>3, TableIs
<1>2. ASSUME NEW p \in P
      PROVE  LET w == files(was, p)
                 i == files(is, p)
             IN  RowsOf(of[p], DOMAIN w, [f \in DOMAIN w |-> w[f].band],
                        DOMAIN i, [f \in DOMAIN i |-> i[f].band])
  <2> DEFINE w == files(was, p)
             i == files(is, p)
  <2>1. DOMAIN <<>> = {}
    OBVIOUS
  <2>2. \A f \in DOMAIN w : w[f].band \in Bands
    BY <2>1 DEF FinePackages, FinePackage
  <2>3. \A f \in DOMAIN i : i[f].band \in Bands
    BY <2>1 DEF FinePackages, FinePackage
  <2>4. of[p] = diff_file_lists(w, i)
    OBVIOUS
  <2> HIDE DEF w, i, of
  <2>5. RowsOf(diff_file_lists(w, i), DOMAIN w, [f \in DOMAIN w |-> w[f].band],
               DOMAIN i, [f \in DOMAIN i |-> i[f].band])
    BY ONLY <2>2, <2>3, FileListRows
  <2>6. QED
    BY <2>4, <2>5 DEF w, i
<1>3. /\ \A p \in P : \A f : f \in DOMAIN files(was, p) <=> <<p, f>> \in FileKeys(was)
      /\ \A p \in P : \A f : f \in DOMAIN files(is, p) <=> <<p, f>> \in FileKeys(is)
  <2>1. DOMAIN <<>> = {}
    OBVIOUS
  <2>2. QED
    BY <2>1 DEF FileKeys
<1>4. /\ \A k \in FileKeys(was) : k[1] \in P /\ k = <<k[1], k[2]>>
      /\ \A k \in FileKeys(is) : k[1] \in P /\ k = <<k[1], k[2]>>
  BY DEF FileKeys
<1>5. /\ \A k \in FileKeys(was) : BandAt(was)[k] = files(was, k[1])[k[2]].band
      /\ \A k \in FileKeys(is) : BandAt(is)[k] = files(is, k[1])[k[2]].band
  BY DEF FileKeys, BandAt
<1> HIDE DEF files, P
<1>6. pairs = FileKeys(was) \cup FileKeys(is)
  <2>1. \A p \in P : DOMAIN of[p] = DOMAIN files(was, p) \cup DOMAIN files(is, p)
    BY <1>2 DEF RowsOf
  <2>2. DOMAIN of = P
    OBVIOUS
  <2> HIDE DEF of
  <2>3. \A k \in pairs : k \in FileKeys(was) \cup FileKeys(is)
    BY <1>3, <2>1, <2>2
  <2>4. \A k \in FileKeys(was) \cup FileKeys(is) : k \in pairs
    BY <1>3, <1>4, <2>1, <2>2
  <2> HIDE DEF pairs
  <2>5. QED
    BY <2>3, <2>4
<1>7. ASSUME NEW k \in pairs
      PROVE  /\ all[k].band_before = IF k \in FileKeys(was) THEN BandAt(was)[k] ELSE None
             /\ all[k].band_after = IF k \in FileKeys(is) THEN BandAt(is)[k] ELSE None
             /\ all[k].direction = "added" <=> k \notin FileKeys(was)
             /\ all[k].direction = "removed" <=> k \notin FileKeys(is)
  <2> DEFINE p == k[1]
             f == k[2]
             w == files(was, p)
             i == files(is, p)
  <2>1. p \in P /\ k = <<p, f>>
    BY <1>4, <1>6
  <2>2. RowsOf(of[p], DOMAIN w, [x \in DOMAIN w |-> w[x].band],
               DOMAIN i, [x \in DOMAIN i |-> i[x].band])
    BY <1>2, <2>1
  <2>3. all[k] = of[p][f]
    OBVIOUS
  <2>4. (f \in DOMAIN w <=> k \in FileKeys(was)) /\ (f \in DOMAIN i <=> k \in FileKeys(is))
    BY <1>3, <2>1
  <2>5. f \in DOMAIN w \cup DOMAIN i
    BY <1>6, <2>4
  <2>6. /\ f \in DOMAIN w => BandAt(was)[k] = w[f].band
        /\ f \in DOMAIN i => BandAt(is)[k] = i[f].band
    BY <1>5, <2>4
  <2> HIDE DEF all, of, w, i, f, p, pairs
  <2>7. /\ of[p][f].band_before = IF f \in DOMAIN w THEN w[f].band ELSE None
        /\ of[p][f].band_after = IF f \in DOMAIN i THEN i[f].band ELSE None
        /\ of[p][f].direction = "added" <=> f \notin DOMAIN w
        /\ of[p][f].direction = "removed" <=> f \notin DOMAIN i
    BY <2>2, <2>5 DEF RowsOf
  <2>8. QED
    BY <2>3, <2>4, <2>6, <2>7
<1>8. DOMAIN all = pairs
  OBVIOUS
<1> HIDE DEF all, pairs
<1>9. RowsOf(all, FileKeys(was), BandAt(was), FileKeys(is), BandAt(is))
  BY <1>6, <1>7, <1>8 DEF RowsOf
<1>10. QED
  BY <1>1, <1>9

-----------------------------------------------------------------------------
(* What a report of the command guarantees, by what was asked for.         *)
FineReport(report, req) ==
  IF req.kind = "package" THEN FinePackage(report)
  ELSE FinePackages(report.packages) /\ report.totals = add_reports(report.packages)

LEMMA ScopeFine ==
  ASSUME NEW graph, FineGraph(graph), NEW patterns, scope_to_closure(graph, patterns) # None
  PROVE  FineGraph(scope_to_closure(graph, patterns))
BY ClosureFine DEF scope_to_closure

LEMMA OnePackageFine ==
  ASSUME NEW facts, IsFiniteSet(DOMAIN facts.defs), NEW code, NEW marked, NEW p, NEW patterns,
         port_diff_cmd(facts, code, marked, p, patterns) # None
  PROVE  FinePackage(port_diff_cmd(facts, code, marked, p, patterns))
<1> DEFINE graph == scope_to_closure(build_graph_from_source(facts, source_path(p)), patterns)
           target == extract_target_graph_live(p, code, <<>>)
           report == port_diff(graph, build_plan(graph), target, resolve(p, marked))
<1>1. port_diff_cmd(facts, code, marked, p, patterns) = IF graph = None THEN None ELSE report
  BY DEF port_diff_cmd
<1> HIDE DEF graph
<1>2. graph # None
  BY <1>1
<1>3. FineGraph(graph)
  BY <1>2, SourceGraphFine, ScopeFine DEF graph
<1>4. FinePackage(report)
  BY ONLY <1>3, PortDiffFine
<1>5. QED
  BY <1>1, <1>2, <1>4

(* The reports of --all, package by package. *)
AgainstAll(p, code, merge_check) ==
  IF merge_check THEN merge_target_graphs(crate_graphs(AllCrates, code, <<>>))
  ELSE extract_target_graph_live(p, code, CratesBefore(p, Packages))

AllReports(facts, code, marked, merge_check) ==
  [p \in Packages |->
     port_diff(build_graph_from_source(facts, source_path(p)),
               build_plan(build_graph_from_source(facts, source_path(p))),
               AgainstAll(p, code, merge_check), resolve(p, marked))]

LEMMA AllPackagesAre ==
  ASSUME NEW facts, NEW code, NEW marked, NEW merge_check
  PROVE  LET report == port_diff_all(facts, code, marked, merge_check)
             reports == AllReports(facts, code, marked, merge_check)
         IN  report.packages = reports /\ report.totals = add_reports(reports)
<1> DEFINE reports == AllReports(facts, code, marked, merge_check)
           report == port_diff_all(facts, code, marked, merge_check)
           totals == add_reports(reports)
           merges == from_contributions(
                       UNION {contributions_from_files(reports[p].files, p) : p \in DOMAIN reports},
                       owning_override)
<1>1. report = aggregate(Table(reports), owning_override)
  BY Zenon DEF port_diff_all, AllReports, AgainstAll
<1> HIDE DEF reports, report
<1>2. report = aggregate(reports, owning_override)
  BY <1>1, TableIs
<1>3. aggregate(reports, owning_override)
        = [packages |-> reports, totals |-> totals, merges |-> merges]
  BY Zenon DEF aggregate
<1> HIDE DEF totals, merges
<1>4. report.packages = reports /\ report.totals = totals
  BY <1>2, <1>3
<1>5. QED
  BY <1>4 DEF totals, reports, report

LEMMA AllPackagesFine ==
  ASSUME NEW facts, IsFiniteSet(DOMAIN facts.defs), NEW code, NEW marked, NEW merge_check
  PROVE  LET report == port_diff_all(facts, code, marked, merge_check)
         IN  FinePackages(report.packages) /\ report.totals = add_reports(report.packages)
<1> DEFINE reports == AllReports(facts, code, marked, merge_check)
<1>1. \A p \in Packages : FinePackage(reports[p])
  <2>1. TAKE p \in Packages
  <2> DEFINE graph == build_graph_from_source(facts, source_path(p))
  <2>2. reports[p] = port_diff(graph, build_plan(graph), AgainstAll(p, code, merge_check),
                               resolve(p, marked))
    BY DEF AllReports
  <2>3. FineGraph(graph)
    BY SourceGraphFine
  <2> HIDE DEF graph, reports
  <2>4. QED
    BY ONLY <2>2, <2>3, PortDiffFine
<1>2. DOMAIN reports = Packages
  BY DEF AllReports
<1> HIDE DEF reports
<1>3. FinePackages(reports)
  BY <1>1, <1>2, ProgressAssumption DEF FinePackages, Packages
<1>4. QED
  BY <1>3, AllPackagesAre DEF reports

(* And those of --from, slice by slice. *)
SpannedBy(closure, root) == {p \in Packages : closure_files(closure, root, p) # {}}

SliceReports(closure, root, code, marked) ==
  [p \in SpannedBy(closure, root) |->
     port_diff(reroot_subgraph(closure, RelativeTo(root, p)),
               build_plan(reroot_subgraph(closure, RelativeTo(root, p))),
               extract_target_graph_live(p, code, CratesBefore(p, SpannedBy(closure, root))),
               resolve(p, marked))]

LEMMA RootedAre ==
  ASSUME NEW facts, NEW code, NEW marked, NEW patterns
  PROVE  LET union == build_graph_from_source(facts, find_union_root)
             closure == scope_to_closure(union, patterns)
             report == port_diff_cross_from(facts, code, marked, patterns)
             slices == SliceReports(closure, find_union_root, code, marked)
         IN  IF resolve_roots(union, patterns) = None \/ SpannedBy(closure, find_union_root) = {}
             THEN report = None
             ELSE report.packages = slices /\ report.totals = add_reports(slices)
<1> DEFINE root == find_union_root
           union == build_graph_from_source(facts, root)
           roots == resolve_roots(union, patterns)
           closure == scope_to_closure(union, patterns)
           slices == SliceReports(closure, root, code, marked)
           report == port_diff_cross_from(facts, code, marked, patterns)
           symbols == Cardinality({n \in DOMAIN closure.symbols : ~ closure.symbols[n].external})
           files == Cardinality(DOMAIN closure.files)
           totals == add_reports(slices)
<1>1. report = IF roots = None THEN None
               ELSE IF SpannedBy(closure, root) = {} THEN None
               ELSE rooted_aggregate(roots, closure, Table(slices))
  BY Zenon DEF port_diff_cross_from, SliceReports, SpannedBy
<1> HIDE DEF root, roots, closure, slices, report
<1>2. Table(slices) = slices
  BY TableIs
<1>3. rooted_aggregate(roots, closure, slices)
        = [roots |-> roots, closure_symbols |-> symbols, closure_files |-> files,
           packages |-> slices, totals |-> totals]
  BY DEF rooted_aggregate
<1> HIDE DEF symbols, files, totals
<1>4. IF roots = None \/ SpannedBy(closure, root) = {} THEN report = None
      ELSE report.packages = slices /\ report.totals = totals
  BY <1>1, <1>2, <1>3
<1>5. QED
  BY <1>4 DEF totals, slices, report, closure, roots, root

(* What the closure of a rooted report is taken from.                      *)
LEMMA UnionClosureFine ==
  ASSUME NEW facts, IsFiniteSet(DOMAIN facts.defs), NEW dir, NEW patterns,
         resolve_roots(build_graph_from_source(facts, dir), patterns) # None
  PROVE  FineGraph(scope_to_closure(build_graph_from_source(facts, dir), patterns))
<1> DEFINE union == build_graph_from_source(facts, dir)
           closure == scope_to_closure(union, patterns)
<1>1. FineGraph(union)
  BY SourceGraphFine
<1> HIDE DEF union
<1>2. closure = union \/ closure = filter_to_closure(union, resolve_roots(union, patterns))
  BY DEF scope_to_closure, union
<1>3. FineGraph(filter_to_closure(union, resolve_roots(union, patterns)))
  BY ONLY <1>1, ClosureFine
<1> HIDE DEF closure
<1>4. FineGraph(closure)
  BY <1>1, <1>2, <1>3
<1>5. QED
  BY <1>4 DEF closure, union

LEMMA RootedFine ==
  ASSUME NEW facts, IsFiniteSet(DOMAIN facts.defs), NEW code, NEW marked, NEW patterns,
         port_diff_cross_from(facts, code, marked, patterns) # None
  PROVE  LET report == port_diff_cross_from(facts, code, marked, patterns)
         IN  FinePackages(report.packages) /\ report.totals = add_reports(report.packages)
<1> DEFINE root == find_union_root
           union == build_graph_from_source(facts, root)
           closure == scope_to_closure(union, patterns)
           spanned == SpannedBy(closure, root)
           slices == SliceReports(closure, root, code, marked)
           report == port_diff_cross_from(facts, code, marked, patterns)
<1>1. IF resolve_roots(union, patterns) = None \/ spanned = {} THEN report = None
      ELSE report.packages = slices /\ report.totals = add_reports(slices)
  BY RootedAre
<1>2. resolve_roots(union, patterns) # None
  <2> HIDE DEF spanned, slices
  <2>1. QED
    BY <1>1
<1>3. FineGraph(closure)
  BY <1>2, UnionClosureFine
<1> HIDE DEF closure, root
<1>4. \A p \in spanned : FinePackage(slices[p])
  <2>1. TAKE p \in spanned
  <2> DEFINE slice == reroot_subgraph(closure, RelativeTo(root, p))
  <2>2. slices[p] = port_diff(slice, build_plan(slice),
                              extract_target_graph_live(p, code, CratesBefore(p, spanned)),
                              resolve(p, marked))
    BY DEF SliceReports
  <2>3. FineGraph(slice)
    BY <1>3, SliceFine
  <2> HIDE DEF slice, spanned, slices
  <2>4. QED
    BY ONLY <2>2, <2>3, PortDiffFine
<1>5. IsFiniteSet(spanned) /\ DOMAIN slices = spanned
  <2>1. spanned \in SUBSET Packages /\ DOMAIN slices = spanned
    BY DEF SpannedBy, SliceReports
  <2> HIDE DEF spanned, slices
  <2>2. QED
    BY <2>1, ProgressAssumption, FS_Subset DEF Packages
<1> HIDE DEF spanned, slices
<1>6. FinePackages(slices)
  BY <1>4, <1>5 DEF FinePackages
<1>7. report.packages = slices /\ report.totals = add_reports(slices)
  <2>1. report # None
    OBVIOUS
  <2> HIDE DEF report
  <2>2. QED
    BY <1>1, <2>1
<1> HIDE DEF report
<1>8. FinePackages(report.packages) /\ report.totals = add_reports(report.packages)
  BY <1>6, <1>7
<1>9. QED
  BY <1>8 DEF report

LEMMA AnswerFine ==
  ASSUME NEW version \in DOMAIN SourceFacts, NEW code, NEW marked, NEW req \in Requests,
         Report(version, code, marked, req) # None
  PROVE  FineReport(Report(version, code, marked, req), req)
<1> DEFINE facts == SourceFacts[version]
<1>1. IsFiniteSet(DOMAIN facts.defs) /\ req.kind \in {"package", "all", "from"}
  BY ProgressAssumption
<1> HIDE DEF facts
<1>2. CASE req.kind = "package"
  <2> DEFINE report == port_diff_cmd(facts, code, marked, req.package, req.from)
  <2>1. Report(version, code, marked, req) = report
    BY <1>2 DEF Report, facts
  <2>2. report # None
    BY <2>1
  <2>3. FinePackage(report)
    BY ONLY <1>1, <2>2, OnePackageFine
  <2> HIDE DEF report
  <2>4. QED
    BY <1>2, <2>1, <2>3 DEF FineReport
<1>3. CASE req.kind = "all"
  <2> DEFINE report == port_diff_all(facts, code, marked, req.merge_check)
  <2>1. Report(version, code, marked, req) = report
    BY <1>3 DEF Report, facts
  <2>2. FinePackages(report.packages) /\ report.totals = add_reports(report.packages)
    BY <1>1, AllPackagesFine
  <2> HIDE DEF report
  <2>3. QED
    BY <1>3, <2>1, <2>2 DEF FineReport
<1>4. CASE req.kind = "from"
  <2> DEFINE report == port_diff_cross_from(facts, code, marked, req.from)
  <2>1. Report(version, code, marked, req) = report
    BY <1>4 DEF Report, facts
  <2>2. report # None
    BY <2>1
  <2>3. FinePackages(report.packages) /\ report.totals = add_reports(report.packages)
    BY ONLY <1>1, <2>2, RootedFine
  <2> HIDE DEF report
  <2>4. QED
    BY <1>4, <2>1, <2>3 DEF FineReport
<1>5. QED
  BY <1>1, <1>2, <1>3, <1>4

(* --compare, whatever the shape of the reports: the delta accounts for    *)
(* the difference of their totals.                                         *)
LEMMA CompareAccounts ==
  ASSUME NEW req, req.kind \in {"package", "all", "from"},
         NEW was, FineReport(was, req), NEW is, FineReport(is, req)
  PROVE  LET moved == emit_delta(was, is, req).totals
         IN  IF req.kind = "package" THEN Accounts(was.overall, is.overall, moved)
             ELSE Accounts(was.totals, is.totals, moved)
<1>1. CASE req.kind = "package"
  <2> DEFINE rows == diff_file_lists(was.files, is.files)
             totals == totals_from(rows, was.overall.symbols_matched, is.overall.symbols_matched)
             before == [p \in DOMAIN was.files |-> was.files[p].band]
             after == [p \in DOMAIN is.files |-> is.files[p].band]
  <2>1. emit_delta(was, is, req).totals = totals
    <3>1. emit_delta(was, is, req) = finish(rows, totals)
      BY <1>1 DEF emit_delta, diff_reports
    <3> HIDE DEF rows, totals
    <3>2. QED
      BY <3>1 DEF finish
  <2>2. FinePackage(was) /\ FinePackage(is)
    BY <1>1 DEF FineReport
  <2>3. CountedFrom(was.overall, DOMAIN was.files, before)
    <3>1. \A b \in Bands : {p \in DOMAIN was.files : was.files[p].band = b}
                             = {p \in DOMAIN was.files : before[p] = b}
      OBVIOUS
    <3>2. \A p \in DOMAIN was.files : before[p] = was.files[p].band
      OBVIOUS
    <3> HIDE DEF before
    <3>3. QED
      BY <2>2, <3>1, <3>2 DEF CountedFrom, FinePackage
  <2>4. CountedFrom(is.overall, DOMAIN is.files, after)
    <3>1. \A b \in Bands : {p \in DOMAIN is.files : is.files[p].band = b}
                             = {p \in DOMAIN is.files : after[p] = b}
      OBVIOUS
    <3>2. \A p \in DOMAIN is.files : after[p] = is.files[p].band
      OBVIOUS
    <3> HIDE DEF after
    <3>3. QED
      BY <2>2, <3>1, <3>2 DEF CountedFrom, FinePackage
  <2>5. RowsOf(rows, DOMAIN was.files, before, DOMAIN is.files, after)
    <3>1. /\ \A p \in DOMAIN was.files : was.files[p].band \in Bands
          /\ \A p \in DOMAIN is.files : is.files[p].band \in Bands
      BY <2>2 DEF FinePackage
    <3>2. QED
      BY <3>1, FileListRows
  <2> HIDE DEF rows, before, after
  <2>6. Accounts(was.overall, is.overall, totals)
    BY <2>3, <2>4, <2>5, DeltaAccounts
  <2>7. QED
    BY <1>1, <2>1, <2>6
<1>2. CASE req.kind # "package"
  <2> DEFINE rows == diff_packaged(was.packages, is.packages)
             totals == totals_from(rows, was.totals.symbols_matched, is.totals.symbols_matched)
  <2>1. emit_delta(was, is, req).totals = totals
    <3>1. emit_delta(was, is, req) = finish(rows, totals)
      BY <1>2 DEF emit_delta, diff_cross_reports, diff_multi_reports
    <3> HIDE DEF rows, totals
    <3>2. QED
      BY <3>1 DEF finish
  <2>2. /\ FinePackages(was.packages) /\ was.totals = add_reports(was.packages)
        /\ FinePackages(is.packages) /\ is.totals = add_reports(is.packages)
    BY <1>2 DEF FineReport
  <2>3. CountedFrom(was.totals, FileKeys(was.packages), BandAt(was.packages))
    BY <2>2, PackagesCounted
  <2>4. CountedFrom(is.totals, FileKeys(is.packages), BandAt(is.packages))
    BY <2>2, PackagesCounted
  <2>5. RowsOf(rows, FileKeys(was.packages), BandAt(was.packages),
               FileKeys(is.packages), BandAt(is.packages))
    BY <2>2, PackagedRows
  <2> HIDE DEF rows
  <2>6. Accounts(was.totals, is.totals, totals)
    BY <2>3, <2>4, <2>5, DeltaAccounts
  <2>7. QED
    BY <1>2, <2>1, <2>6
<1>3. QED
  BY <1>1, <1>2

-----------------------------------------------------------------------------
(* The reports that are kept are answers to the request, and the delta was *)
(* computed from the two last ones.                                        *)
ProgressInv ==
  /\ request \in Requests
  /\ source \in DOMAIN SourceFacts
  /\ baseline # None => FineReport(baseline, request)
  /\ compared # None =>
       /\ baseline # None
       /\ FineReport(compared.before, request)
       /\ compared.delta = emit_delta(compared.before, baseline, request)

LEMMA ProgressStep == ProgressInv /\ [ProgressNext]_progress_vars => ProgressInv'
<1> SUFFICES ASSUME ProgressInv, [ProgressNext]_progress_vars
             PROVE  ProgressInv'
  OBVIOUS
<1> USE DEF ProgressInv
<1>1. ASSUME NEW s \in Writable, Write(s)
      PROVE  ProgressInv'
  BY <1>1 DEF Write, Edited
<1>2. ASSUME NEW s \in Writable, Delete(s)
      PROVE  ProgressInv'
  BY <1>2 DEF Delete, Edited
<1>3. ASSUME NEW v \in Verifiable, Verify(v)
      PROVE  ProgressInv'
  BY <1>3 DEF Verify, Edited
<1>4. ASSUME NEW version \in DOMAIN SourceFacts, ChangeSource(version)
      PROVE  ProgressInv'
  BY <1>4 DEF ChangeSource, Edited
<1>5. CASE PortDiff
  <2> DEFINE report == Report(source, written, native, request)
             delta == emit_delta(baseline, report, request)
  <2>1. /\ report # None
        /\ baseline' = report
        /\ compared' = IF baseline = None THEN None
                       ELSE [before |-> baseline, edits |-> edits, delta |-> delta]
        /\ source' = source /\ request' = request
    BY <1>5 DEF PortDiff
  <2>2. FineReport(report, request)
    BY <2>1, AnswerFine
  <2>3. compared' # None => /\ compared'.before = baseline
                            /\ compared'.delta = delta
                            /\ baseline # None
    <3> HIDE DEF delta
    <3>1. QED
      BY <2>1
  <2> HIDE DEF report
  <2>4. QED
    BY <2>1, <2>2, <2>3
<1>6. CASE UNCHANGED progress_vars
  BY <1>6 DEF progress_vars
<1>7. QED
  BY <1>1, <1>2, <1>3, <1>4, <1>5, <1>6 DEF ProgressNext

LEMMA AddsUp == ProgressInv => PortAddsUp
<1> SUFFICES ASSUME ProgressInv, compared # None
             PROVE  PortAddsUp
  BY DEF PortAddsUp
<1> DEFINE moved == compared.delta.totals
<1>1. /\ request.kind \in {"package", "all", "from"}
      /\ FineReport(compared.before, request)
      /\ FineReport(baseline, request)
      /\ compared.delta = emit_delta(compared.before, baseline, request)
  BY ProgressAssumption DEF ProgressInv
<1>2. Accounts(Totals(compared.before), Totals(baseline), moved)
  <2>1. moved = emit_delta(compared.before, baseline, request).totals
    BY <1>1
  <2> HIDE DEF moved
  <2>2. QED
    BY <1>1, <2>1, CompareAccounts DEF Totals
<1>3. \A p \in DOMAIN Packaged(baseline) : FinePackage(Packaged(baseline)[p])
  BY <1>1 DEF FineReport, Packaged, FinePackages
<1>4. ASSUME NEW p \in DOMAIN Packaged(baseline)
      PROVE  LET report == Packaged(baseline)[p]
                 total(g) == SumFunction([w \in DOMAIN report.waves |-> report.waves[w][g]])
                 landed(f) == SumFunction([t \in DOMAIN report.files[f].contributions |->
                                             report.files[f].contributions[t].total_matched])
             IN  /\ total("files") = report.overall.source_files_total
                 /\ total("symbols_matched") = report.overall.symbols_matched
                 /\ SumFunction([f \in DOMAIN report.files |-> landed(f)])
                      = report.overall.symbols_matched
  BY <1>3 DEF FinePackage
<1>5. QED
  BY <1>2, <1>4 DEF PortAddsUp, Accounts

(* A report adds up and a delta accounts for the difference of two         *)
(* reports, for every source, target, configuration, marking and order of  *)
(* edits and runs: nothing is counted twice or lost between the passes of  *)
(* port_diff, the aggregation over packages and the comparison.            *)
THEOREM ReportsAddUp == ProgressSpec => []PortAddsUp
<1>1. ProgressInit => ProgressInv
  BY ProgressAssumption DEF ProgressInit, ProgressInv
<1>2. QED
  BY <1>1, ProgressStep, AddsUp, PTL DEF ProgressSpec

-----------------------------------------------------------------------------
(* A finite set sorted by a strict total order lists each element.         *)
StrictOrder(S, order) ==
  /\ \A a, b \in S : <<a, b>> \in order => <<b, a>> \notin order
  /\ \A a, b \in S : a # b => <<a, b>> \in order \/ <<b, a>> \in order
  /\ \A a, b, c \in S : <<a, b>> \in order /\ <<b, c>> \in order => <<a, c>> \in order

LEMMA SortedLists ==
  ASSUME NEW S, IsFiniteSet(S), NEW order, StrictOrder(S, order)
  PROVE  /\ Sorted(S, order) \in [1 .. Cardinality(S) -> S]
         /\ \A n \in S : \E i \in 1 .. Cardinality(S) : Sorted(S, order)[i] = n
<1> DEFINE before(n) == {m \in S : <<m, n>> \in order}
           size == Cardinality(S)
           rank == [n \in S |-> Cardinality(before(n))]
<1>1. size \in Nat
  BY FS_CardinalityType
<1>2. \A n \in S : before(n) \in SUBSET S /\ n \notin before(n)
  BY DEF StrictOrder
<1>3. \A n \in S : IsFiniteSet(before(n)) /\ Cardinality(before(n)) \in Nat
  <2> HIDE DEF before
  <2>1. QED
    BY <1>2, FS_Subset, FS_CardinalityType
<1>4. \A n \in S : rank[n] \in 0 .. size - 1
  <2>1. TAKE n \in S
  <2> HIDE DEF before
  <2>2. Cardinality(before(n)) <= size /\ (size = Cardinality(before(n)) => S = before(n))
    BY <1>2, FS_Subset
  <2>3. Cardinality(before(n)) # size
    BY <1>2, <2>2
  <2> HIDE DEF size
  <2>4. QED
    BY <1>1, <1>3, <2>2, <2>3
<1>5. \A a, b \in S : <<a, b>> \in order => rank[a] < rank[b]
  <2>1. SUFFICES ASSUME NEW a \in S, NEW b \in S, <<a, b>> \in order
                 PROVE  rank[a] < rank[b]
    OBVIOUS
  <2>2. before(a) \in SUBSET before(b) /\ a \in before(b) /\ a \notin before(a)
    BY <1>2, <2>1 DEF StrictOrder
  <2> HIDE DEF before
  <2>3. /\ Cardinality(before(a)) <= Cardinality(before(b))
        /\ Cardinality(before(b)) = Cardinality(before(a)) => before(b) = before(a)
    BY <1>3, <2>2, FS_Subset
  <2>4. Cardinality(before(a)) < Cardinality(before(b))
    BY <1>3, <2>2, <2>3
  <2>5. QED
    BY <2>4
<1>6. \A a, b \in S : rank[a] = rank[b] => a = b
  <2> HIDE DEF rank
  <2>1. SUFFICES ASSUME NEW a \in S, NEW b \in S, a # b, rank[a] = rank[b]
                 PROVE  FALSE
    OBVIOUS
  <2>2. rank[a] < rank[b] \/ rank[b] < rank[a]
    BY <1>5, <2>1 DEF StrictOrder
  <2>3. rank[a] \in Int /\ rank[b] \in Int
    BY <1>4
  <2>4. QED
    BY <2>1, <2>2, <2>3
<1>7. rank \in Surjection(S, 0 .. size - 1)
  <2>1. rank \in Injection(S, 0 .. size - 1)
    <3>1. rank \in [S -> 0 .. size - 1]
      <4>1. rank = [n \in S |-> rank[n]]
        OBVIOUS
      <4> HIDE DEF rank
      <4>2. QED
        BY <1>4, <4>1
    <3> HIDE DEF rank
    <3>2. QED
      BY <1>6, <3>1 DEF Injection, IsInjective
  <2>2. IsFiniteSet(0 .. size - 1) /\ Cardinality(0 .. size - 1) = size
    <3> HIDE DEF size
    <3>1. QED
      BY <1>1, FS_Interval
  <2> HIDE DEF rank
  <2>3. QED
    BY <2>1, <2>2, FS_Injection
<1>8. \A n \in S : rank[n] + 1 \in 1 .. size /\ Sorted(S, order)[rank[n] + 1] = n
  <2>1. TAKE n \in S
  <2>2. rank[n] + 1 \in 1 .. size /\ (rank[n] + 1) - 1 = rank[n]
    <3> HIDE DEF rank, size
    <3>1. QED
      BY <1>1, <1>4
  <2>3. Sorted(S, order)[rank[n] + 1] = CHOOSE x \in S : Cardinality(before(x)) = (rank[n] + 1) - 1
    <3>1. \A i \in 1 .. size : Sorted(S, order)[i] = CHOOSE x \in S : Cardinality(before(x)) = i - 1
      BY DEF Sorted
    <3> HIDE DEF rank, size, before
    <3>2. QED
      BY <2>2, <3>1
  <2>4. \A x \in S : Cardinality(before(x)) = rank[x]
    OBVIOUS
  <2> HIDE DEF rank, before
  <2>5. \A x \in S : Cardinality(before(x)) = (rank[n] + 1) - 1 <=> x = n
    BY <1>6, <2>2, <2>4
  <2>6. QED
    BY <2>2, <2>3, <2>5
<1>9. \A i \in 1 .. size : \E n \in S : i = rank[n] + 1
  <2>1. TAKE i \in 1 .. size
  <2>2. i - 1 \in 0 .. size - 1
    <3> HIDE DEF size
    <3>1. QED
      BY <1>1
  <2> HIDE DEF rank
  <2>3. PICK n \in S : rank[n] = i - 1
    BY <1>7, <2>2 DEF Surjection
  <2>4. QED
    BY <2>3, <1>1
<1>10. \A i \in 1 .. size : Sorted(S, order)[i] \in S
  <2> HIDE DEF rank
  <2>1. QED
    BY <1>8, <1>9
<1>11. Sorted(S, order) \in [1 .. size -> S]
  <2> DEFINE at(i) == CHOOSE n \in S : Cardinality(before(n)) = i - 1
             list == [i \in 1 .. size |-> at(i)]
  <2>1. Sorted(S, order) = list
    BY DEF Sorted
  <2> HIDE DEF at, before, size, rank
  <2>2. \A i \in 1 .. size : at(i) \in S
    BY <1>10, <2>1
  <2>4. list \in [1 .. size -> S]
    BY <2>2
  <2>5. QED
    BY <2>1, <2>4
<1>12. \A n \in S : \E i \in 1 .. size : Sorted(S, order)[i] = n
  <2> HIDE DEF rank
  <2>1. QED
    BY <1>8
<1>13. QED
  BY <1>11, <1>12

-----------------------------------------------------------------------------
(* Sequences laid end to end, as the library computes them.                *)
IsFlat(f, seqs, n) == f = [i \in 1 .. n |-> IF i = 1 THEN seqs[i] ELSE f[i - 1] \o seqs[i]]

LEMMA FlattenIs ==
  ASSUME NEW seqs
  PROVE  FlattenSeq(seqs) = IF Len(seqs) = 0 THEN seqs
                            ELSE (CHOOSE f : IsFlat(f, seqs, Len(seqs)))[Len(seqs)]
BY DEF FlattenSeq, IsFlat

LEMMA IsFlatAt ==
  ASSUME NEW seqs, NEW n, NEW f, IsFlat(f, seqs, n), NEW i \in 1 .. n
  PROVE  f[i] = IF i = 1 THEN seqs[i] ELSE f[i - 1] \o seqs[i]
BY Zenon DEF IsFlat

LEMMA FlatExists ==
  ASSUME NEW T, NEW seqs \in Seq(Seq(T)), NEW n \in 0 .. Len(seqs)
  PROVE  \E f \in [1 .. n -> Seq(T)] : IsFlat(f, seqs, n)
<1> DEFINE Good(k) == \E f \in [1 .. k -> Seq(T)] : IsFlat(f, seqs, k)
           Bad == {k \in 0 .. Len(seqs) : ~Good(k)}
<1>1. ASSUME Bad # {}
      PROVE  FALSE
  <2>1. PICK k \in Bad : \A m \in Bad : k <= m
    <3>1. Bad \in SUBSET Nat
      OBVIOUS
    <3> HIDE DEF Bad
    <3>2. QED
      BY <1>1, <3>1, LeastNatural
  <2>2. k \in 0 .. Len(seqs) /\ ~Good(k)
    OBVIOUS
  <2>3. k # 0
    <3>1. SUFFICES ASSUME k = 0
                   PROVE  Good(0)
      BY <2>2
    <3> DEFINE f == [i \in 1 .. 0 |-> IF i = 1 THEN seqs[i] ELSE <<>> \o seqs[i]]
    <3>2. f \in [1 .. 0 -> Seq(T)] /\ IsFlat(f, seqs, 0)
      BY DEF IsFlat
    <3>3. QED
      BY <3>2
  <2>4. k - 1 \in 0 .. Len(seqs) /\ k \in 1 .. Len(seqs) /\ ~(k <= k - 1)
    BY <2>2, <2>3
  <2>5. Good(k - 1)
    BY <2>1, <2>4
  <2>6. PICK f \in [1 .. k - 1 -> Seq(T)] : IsFlat(f, seqs, k - 1)
    BY <2>5
  <2> DEFINE next == IF k = 1 THEN seqs[k] ELSE f[k - 1] \o seqs[k]
             g == [i \in 1 .. k |-> IF i = k THEN next ELSE f[i]]
  <2>7. next \in Seq(T)
    <3>1. seqs[k] \in Seq(T)
      BY <2>4
    <3>2. k # 1 => f[k - 1] \in Seq(T)
      BY <2>4
    <3>3. QED
      BY <3>1, <3>2
  <2>8. g \in [1 .. k -> Seq(T)]
    <3>1. \A i \in 1 .. k : i # k => f[i] \in Seq(T)
      BY <2>4
    <3> HIDE DEF next
    <3>2. QED
      BY <2>7, <3>1
  <2>9. ASSUME NEW i \in 1 .. k
        PROVE  g[i] = IF i = 1 THEN seqs[i] ELSE g[i - 1] \o seqs[i]
    <3>1. CASE i = k
      <4>1. i # 1 => i - 1 \in 1 .. k /\ i - 1 # k
        BY <2>4, <3>1
      <4> HIDE DEF next
      <4>2. g[i] = next /\ (i # 1 => g[i - 1] = f[k - 1])
        BY <3>1, <4>1
      <4> HIDE DEF g
      <4>3. QED
        BY <3>1, <4>2 DEF next
    <3>2. CASE i # k
      <4>1. i \in 1 .. k - 1 /\ (i # 1 => i - 1 \in 1 .. k /\ i - 1 # k)
        BY <2>4, <3>2
      <4>2. f[i] = IF i = 1 THEN seqs[i] ELSE f[i - 1] \o seqs[i]
        <5> DEFINE m == k - 1
        <5>1. IsFlat(f, seqs, m)
          BY <2>6
        <5>2. i \in 1 .. m
          BY <4>1
        <5> HIDE DEF m, next, g
        <5>3. \A j \in 1 .. m : f[j] = IF j = 1 THEN seqs[j] ELSE f[j - 1] \o seqs[j]
          BY ONLY <5>1, IsFlatAt
        <5>4. QED
          BY <5>2, <5>3
      <4> HIDE DEF next
      <4>3. g[i] = f[i] /\ (i # 1 => g[i - 1] = f[i - 1])
        BY <3>2, <4>1
      <4> HIDE DEF g
      <4>4. QED
        BY <4>2, <4>3
    <3>3. QED
      BY <3>1, <3>2
  <2>10. IsFlat(g, seqs, k)
    <3>1. g = [i \in 1 .. k |-> g[i]]
      BY <2>8
    <3> HIDE DEF g
    <3>2. QED
      BY <2>9, <3>1, Zenon DEF IsFlat
  <2> HIDE DEF g
  <2>11. Good(k)
    BY <2>8, <2>10
  <2>12. QED
    BY <2>2, <2>11
<1>2. QED
  BY <1>1

LEMMA FlattenIsSeq ==
  ASSUME NEW T, NEW seqs \in Seq(Seq(T))
  PROVE  FlattenSeq(seqs) \in Seq(T)
<1> DEFINE n == Len(seqs)
           flat == CHOOSE f : IsFlat(f, seqs, n)
<1>1. CASE n = 0
  <2>1. seqs = <<>>
    BY <1>1
  <2>2. FlattenSeq(seqs) = seqs
    BY <1>1, FlattenIs
  <2>3. <<>> \in Seq(T)
    OBVIOUS
  <2>4. QED
    BY ONLY <2>1, <2>2, <2>3
<1>2. CASE n # 0
  <2>1. n \in Nat /\ n >= 1
    BY <1>2
  <2>2. IsFlat(flat, seqs, n)
    BY <2>1, FlatExists
  <2> HIDE DEF flat
  <2> DEFINE Bad == {k \in 1 .. n : flat[k] \notin Seq(T)}
  <2>3. ASSUME Bad # {}
        PROVE  FALSE
    <3>1. PICK k \in Bad : \A m \in Bad : k <= m
      <4>1. Bad \in SUBSET Nat
        OBVIOUS
      <4> HIDE DEF Bad
      <4>2. QED
        BY <2>3, <4>1, LeastNatural
    <3>2. k \in 1 .. n /\ seqs[k] \in Seq(T)
      OBVIOUS
    <3>3. flat[k] = IF k = 1 THEN seqs[k] ELSE flat[k - 1] \o seqs[k]
      BY <2>2, <3>2, IsFlatAt
    <3>4. k # 1 => flat[k - 1] \in Seq(T)
      <4>1. k # 1 => k - 1 \in 1 .. n /\ ~(k <= k - 1)
        BY <2>1, <3>2
      <4>2. QED
        BY <3>1, <4>1
    <3>5. flat[k] \in Seq(T)
      BY <3>2, <3>3, <3>4
    <3>6. QED
      BY <3>5
  <2>4. flat[n] \in Seq(T)
    BY <2>1, <2>3
  <2>5. QED
    BY <1>2, <2>4, FlattenIs DEF flat
<1>3. QED
  BY <1>1, <1>2

-----------------------------------------------------------------------------
(* What the symbols of a graph are, from its definitions.                  *)
LEMMA AssembledSymbols ==
  ASSUME NEW nodes, NEW edges, NEW effect_roots
  PROVE  LET symbols == assemble_graph(nodes, edges, effect_roots).symbols
         IN  /\ DOMAIN symbols = DOMAIN nodes
             /\ \A n \in DOMAIN nodes : /\ symbols[n].meta = nodes[n]
                                        /\ symbols[n].external <=> nodes[n] = None
<1> DEFINE graph == assembled(nodes, edges, effect_roots)
           symbols == symbol_nodes(nodes, edges, effect_roots)
           files == file_nodes(nodes, edges, symbols)
<1>1. assemble_graph(nodes, edges, effect_roots) = graph
  BY TableIs DEF assemble_graph
<1>2. DOMAIN symbols = DOMAIN nodes
  BY TableIs DEF symbol_nodes
<1>3. \A n \in DOMAIN nodes : symbols[n].meta = nodes[n] /\ (symbols[n].external <=> nodes[n] = None)
  BY SymbolRow
<1> HIDE DEF symbols, files
<1>4. graph.symbols = symbols
  BY DEF assembled, symbols, files
<1> HIDE DEF graph
<1>5. QED
  BY <1>1, <1>2, <1>3, <1>4

LEMMA BuiltSymbols ==
  ASSUME NEW facts
  PROVE  LET symbols == build_graph(facts).symbols
         IN  /\ DOMAIN facts.defs \subseteq DOMAIN symbols
             /\ \A n \in DOMAIN symbols :
                  /\ symbols[n].meta = IF n \in DOMAIN facts.defs THEN facts.defs[n] ELSE None
                  /\ symbols[n].external <=> symbols[n].meta = None
<1> DEFINE ends == UNION {{e.caller, e.callee} : e \in ToSet(facts.edges)}
           node(n) == IF n \in DOMAIN facts.defs THEN facts.defs[n] ELSE None
           nodes == [n \in DOMAIN facts.defs \cup ends |-> node(n)]
           built == build_graph(facts).symbols
<1>1. DOMAIN nodes = DOMAIN facts.defs \cup ends /\ \A n \in DOMAIN nodes : nodes[n] = node(n)
  OBVIOUS
<1>2. /\ DOMAIN built = DOMAIN nodes
      /\ \A n \in DOMAIN nodes : built[n].meta = nodes[n] /\ (built[n].external <=> nodes[n] = None)
  <2>1. \A edges, effect_roots :
          LET symbols == assemble_graph(nodes, edges, effect_roots).symbols
          IN  /\ DOMAIN symbols = DOMAIN nodes
              /\ \A n \in DOMAIN nodes : /\ symbols[n].meta = nodes[n]
                                         /\ symbols[n].external <=> nodes[n] = None
    <3> HIDE DEF nodes
    <3>1. QED
      BY AssembledSymbols
  <2>2. QED
    BY <2>1 DEF build_graph
<1> HIDE DEF nodes, ends, built
<1>3. QED
  BY <1>1, <1>2 DEF built

(* Of a concatenation: a symbol is as the graph has it that defines it.    *)
LEMMA MergedSymbols ==
  ASSUME NEW graphs, DOMAIN graphs \in SUBSET Nat
  PROVE  LET t == merge_target_graphs(graphs)
         IN  /\ DOMAIN t.symbols = UNION {DOMAIN graphs[i].symbols : i \in DOMAIN graphs}
             /\ \A n \in DOMAIN t.symbols :
                  /\ t.place[n] \in DOMAIN graphs
                  /\ n \in DOMAIN graphs[t.place[n]].symbols
                  /\ t.symbols[n] = graphs[t.place[n]].symbols[n]
                  /\ \A i \in DOMAIN graphs :
                       n \in DOMAIN graphs[i].symbols /\ graphs[i].symbols[n].meta # None
                         => t.symbols[n].meta # None
<1> DEFINE t == merge_target_graphs(graphs)
           ids == UNION {DOMAIN graphs[i].symbols : i \in DOMAIN graphs}
           places == [n \in ids |-> Author(graphs, n)]
           symbols == [n \in ids |-> graphs[places[n]].symbols[n]]
           edges == FlattenSeq([i \in DOMAIN graphs |-> graphs[i].edges])
<1>1. t = [symbols |-> symbols, place |-> places, edges |-> edges]
  <2>1. Table(places) = places
    <3> HIDE DEF places
    <3>1. QED
      BY TableIs
  <2>2. t = LET place == Table(places)
            IN  [symbols |-> Table([n \in ids |-> graphs[place[n]].symbols[n]]),
                 place |-> place, edges |-> edges]
    BY DEF merge_target_graphs
  <2> HIDE DEF places, t, edges
  <2>3. t = [symbols |-> Table(symbols), place |-> places, edges |-> edges]
    BY <2>1, <2>2
  <2> HIDE DEF symbols
  <2>4. QED
    BY <2>3, TableIs
<1> HIDE DEF edges, t
<1>2. t.symbols = symbols /\ t.place = places
  <2> HIDE DEF symbols, places
  <2>1. QED
    BY <1>1
<1>3. ASSUME NEW n \in ids
      PROVE  /\ Author(graphs, n) \in DOMAIN graphs
             /\ n \in DOMAIN graphs[Author(graphs, n)].symbols
             /\ \A i \in DOMAIN graphs :
                  n \in DOMAIN graphs[i].symbols /\ graphs[i].symbols[n].meta # None
                    => graphs[Author(graphs, n)].symbols[n].meta # None
  <2> DEFINE having == {i \in DOMAIN graphs : n \in DOMAIN graphs[i].symbols}
             defining == {i \in DOMAIN graphs : /\ n \in DOMAIN graphs[i].symbols
                                                /\ graphs[i].symbols[n].meta # None}
  <2>1. Author(graphs, n) = IF defining # {} THEN Min(defining) ELSE Min(having)
    BY DEF Author
  <2>2. having \in SUBSET Nat /\ defining \in SUBSET Nat /\ having # {}
    OBVIOUS
  <2>3. /\ Author(graphs, n) \in having
        /\ defining # {} => Author(graphs, n) \in defining
    <3>1. Min(having) \in having /\ (defining # {} => Min(defining) \in defining)
      <4> HIDE DEF having, defining
      <4>1. QED
        BY <2>2, MinIsLeast
    <3>2. defining \subseteq having
      OBVIOUS
    <3> HIDE DEF having, defining
    <3>3. QED
      BY <2>1, <3>1, <3>2
  <2>4. QED
    BY <2>3
<1>4. \A n \in ids : places[n] = Author(graphs, n) /\ symbols[n] = graphs[Author(graphs, n)].symbols[n]
  OBVIOUS
<1>5. DOMAIN symbols = ids
  OBVIOUS
<1> HIDE DEF symbols, places, ids
<1>6. QED
  BY <1>2, <1>3, <1>4, <1>5 DEF t, ids

-----------------------------------------------------------------------------
(* The target graph defines the symbols that were written in a crate that  *)
(* was built.                                                              *)
DefinitionOf(s) == [display |-> Last(s.id), loc |-> 1, file |-> s.file]

BuiltCode(code, crates, before) ==
  {s \in code : \E i \in DOMAIN crates : s.file[2] \in FactsDir(before \o SubSeq(crates, 1, i))}

DefinesCode(t, mine) ==
  /\ \A n \in DOMAIN t.symbols :
       t.place[n] \in Nat /\ (~ t.symbols[n].external => \E s \in mine : n = s.id)
  /\ \A s \in mine : /\ s.id \in DOMAIN t.symbols
                     /\ ~ t.symbols[s.id].external
                     /\ t.symbols[s.id].meta = DefinitionOf(s)

LEMMA CrateDefs ==
  ASSUME NEW code \in SUBSET Writable, NEW built
  PROVE  LET mine == {s \in code : s.file[2] \in built}
             defs == CrateFacts(code, built).defs
         IN  /\ DOMAIN defs = {s.id : s \in mine}
             /\ \A s \in mine : defs[s.id] = DefinitionOf(s) /\ defs[s.id] # None
<1> DEFINE mine == {s \in code : s.file[2] \in built}
           of(n) == CHOOSE s \in mine : s.id = n
           row(n) == [display |-> Last(n), loc |-> 1, file |-> of(n).file]
           defs == [n \in {s.id : s \in mine} |-> row(n)]
<1>1. CrateFacts(code, built).defs = defs
  BY DEF CrateFacts
<1>2. \A s \in mine : of(s.id) = s
  <2>1. \A s \in mine : of(s.id) \in mine /\ of(s.id).id = s.id
    OBVIOUS
  <2>2. mine \subseteq Writable
    OBVIOUS
  <2> HIDE DEF mine, of
  <2>3. QED
    BY <2>1, <2>2, ProgressAssumption
<1>3. \A s \in mine : s.id \in {x.id : x \in mine} /\ s \in Writable
  OBVIOUS
<1> HIDE DEF mine, of
<1>4. \A s \in mine : defs[s.id] = row(s.id) /\ row(s.id) = DefinitionOf(s)
  BY <1>2, <1>3 DEF DefinitionOf
<1>5. \A s \in mine : DefinitionOf(s) # None
  BY <1>3, ProgressAssumption DEF DefinitionOf
<1>6. DOMAIN defs = {s.id : s \in mine}
  OBVIOUS
<1> HIDE DEF defs, row
<1>7. QED
  BY <1>1, <1>4, <1>5, <1>6 DEF mine

LEMMA TargetSymbols ==
  ASSUME NEW code \in SUBSET Writable, NEW before, NEW crates, DOMAIN crates \in SUBSET Nat
  PROVE  DefinesCode(merge_target_graphs(crate_graphs(crates, code, before)),
                     BuiltCode(code, crates, before))
<1> DEFINE graphs == crate_graphs(crates, code, before)
           t == merge_target_graphs(graphs)
           mine == BuiltCode(code, crates, before)
           built(i) == FactsDir(before \o SubSeq(crates, 1, i))
           defs(i) == CrateFacts(code, built(i)).defs
<1>1. DOMAIN graphs = DOMAIN crates
  BY DEF crate_graphs
<1>2. \A i \in DOMAIN crates : graphs[i] = build_graph(CrateFacts(code, built(i)))
  BY DEF crate_graphs
<1>3. ASSUME NEW i \in DOMAIN crates
      PROVE  /\ DOMAIN defs(i) \subseteq DOMAIN graphs[i].symbols
             /\ \A n \in DOMAIN graphs[i].symbols :
                  /\ graphs[i].symbols[n].meta = IF n \in DOMAIN defs(i) THEN defs(i)[n] ELSE None
                  /\ graphs[i].symbols[n].external <=> graphs[i].symbols[n].meta = None
  BY <1>2, BuiltSymbols
<1>4. ASSUME NEW i \in DOMAIN crates
      PROVE  /\ DOMAIN defs(i) = {s.id : s \in {x \in code : x.file[2] \in built(i)}}
             /\ \A s \in code : s.file[2] \in built(i)
                  => defs(i)[s.id] = DefinitionOf(s) /\ defs(i)[s.id] # None
  BY CrateDefs
<1>5. mine = {s \in code : \E i \in DOMAIN crates : s.file[2] \in built(i)}
  BY DEF BuiltCode
<1>6. /\ DOMAIN t.symbols = UNION {DOMAIN graphs[i].symbols : i \in DOMAIN graphs}
      /\ \A n \in DOMAIN t.symbols :
           /\ t.place[n] \in DOMAIN graphs
           /\ n \in DOMAIN graphs[t.place[n]].symbols
           /\ t.symbols[n] = graphs[t.place[n]].symbols[n]
           /\ \A i \in DOMAIN graphs :
                n \in DOMAIN graphs[i].symbols /\ graphs[i].symbols[n].meta # None
                  => t.symbols[n].meta # None
  <2> HIDE DEF graphs
  <2>1. QED
    BY <1>1, MergedSymbols
<1> HIDE DEF graphs, t, mine, built, defs
<1>7. \A n \in DOMAIN t.symbols :
        /\ t.place[n] \in Nat
        /\ t.symbols[n].external <=> t.symbols[n].meta = None
        /\ t.symbols[n].meta # None
             => \E s \in mine : n = s.id /\ t.symbols[n].meta = DefinitionOf(s)
  <2>1. TAKE n \in DOMAIN t.symbols
  <2> DEFINE i == t.place[n]
  <2>2. /\ i \in DOMAIN crates /\ n \in DOMAIN graphs[i].symbols
        /\ t.symbols[n] = graphs[i].symbols[n]
    BY <1>1, <1>6
  <2> HIDE DEF i
  <2>3. /\ t.symbols[n].meta = IF n \in DOMAIN defs(i) THEN defs(i)[n] ELSE None
        /\ t.symbols[n].external <=> t.symbols[n].meta = None
    BY <1>3, <2>2
  <2>4. ASSUME t.symbols[n].meta # None
        PROVE  \E s \in mine : n = s.id /\ t.symbols[n].meta = DefinitionOf(s)
    <3>1. n \in DOMAIN defs(i)
      BY <2>3, <2>4
    <3>2. PICK s \in code : s.file[2] \in built(i) /\ n = s.id
      BY <1>4, <2>2, <3>1
    <3>3. QED
      BY <1>4, <1>5, <2>2, <2>3, <3>1, <3>2
  <2>5. QED
    BY <2>2, <2>3, <2>4 DEF i
<1>8. ASSUME NEW s \in mine
      PROVE  /\ s.id \in DOMAIN t.symbols
             /\ ~ t.symbols[s.id].external
             /\ t.symbols[s.id].meta = DefinitionOf(s)
  <2>1. PICK i \in DOMAIN crates : s \in code /\ s.file[2] \in built(i)
    BY <1>5
  <2>2. s.id \in DOMAIN defs(i) /\ defs(i)[s.id] = DefinitionOf(s) /\ defs(i)[s.id] # None
    BY <1>4, <2>1
  <2>3. s.id \in DOMAIN graphs[i].symbols /\ graphs[i].symbols[s.id].meta # None
    BY <1>3, <2>1, <2>2
  <2>4. s.id \in DOMAIN t.symbols /\ t.symbols[s.id].meta # None
    BY <1>1, <1>6, <2>1, <2>3
  <2>5. PICK x \in mine : s.id = x.id /\ t.symbols[s.id].meta = DefinitionOf(x)
    BY <1>7, <2>4
  <2>6. x = s
    BY <1>5, <2>5, ProgressAssumption
  <2>7. QED
    BY <1>7, <2>4, <2>5, <2>6
<1>9. DefinesCode(t, mine)
  BY <1>7, <1>8 DEF DefinesCode
<1>10. QED
  BY <1>9 DEF t, graphs, mine

(* What matching needs of a target graph, and one that has more code.      *)
Defined(graph) == {n \in DOMAIN graph.symbols : ~ graph.symbols[n].external}

FineTarget(graph) ==
  /\ IsFiniteSet(Defined(graph))
  /\ OrdersText(Defined(graph))
  /\ \A n \in Defined(graph) : graph.place[n] \in Nat

Extended(was, is) ==
  \A n \in Defined(was) : n \in Defined(is) /\ is.symbols[n].meta = was.symbols[n].meta

LEMMA TargetFine ==
  ASSUME NEW code \in SUBSET Writable, IsFiniteSet(code), NEW before, NEW crates,
         DOMAIN crates \in SUBSET Nat
  PROVE  FineTarget(merge_target_graphs(crate_graphs(crates, code, before)))
<1> DEFINE t == merge_target_graphs(crate_graphs(crates, code, before))
           mine == BuiltCode(code, crates, before)
<1>1. DefinesCode(t, mine)
  BY TargetSymbols
<1>2. mine \in SUBSET code
  BY DEF BuiltCode
<1> HIDE DEF t, mine
<1>3. Defined(t) \in SUBSET {s.id : s \in mine} /\ Defined(t) \in SUBSET {s.id : s \in Writable}
  BY <1>1, <1>2 DEF Defined, DefinesCode
<1>4. IsFiniteSet(Defined(t))
  <2> DEFINE id == [s \in mine |-> s.id]
  <2>1. {id[s] : s \in mine} = {s.id : s \in mine}
    OBVIOUS
  <2>2. IsFiniteSet(mine)
    BY <1>2, FS_Subset
  <2> HIDE DEF id
  <2>3. IsFiniteSet({s.id : s \in mine})
    BY <2>1, <2>2, ValuesFinite
  <2>4. QED
    BY <1>3, <2>3, FS_Subset
<1>5. OrdersText(Defined(t))
  BY <1>3, ProgressAssumption DEF OrdersText
<1>6. FineTarget(t)
  BY <1>1, <1>4, <1>5 DEF FineTarget, Defined, DefinesCode
<1>7. QED
  BY <1>6 DEF t

LEMMA TargetExtended ==
  ASSUME NEW code \in SUBSET Writable, NEW more \in SUBSET Writable, code \subseteq more,
         NEW before, NEW crates, DOMAIN crates \in SUBSET Nat
  PROVE  Extended(merge_target_graphs(crate_graphs(crates, code, before)),
                  merge_target_graphs(crate_graphs(crates, more, before)))
<1> DEFINE was == merge_target_graphs(crate_graphs(crates, code, before))
           is == merge_target_graphs(crate_graphs(crates, more, before))
<1>1. DefinesCode(was, BuiltCode(code, crates, before))
  BY TargetSymbols
<1>2. DefinesCode(is, BuiltCode(more, crates, before))
  BY TargetSymbols
<1>3. BuiltCode(code, crates, before) \subseteq BuiltCode(more, crates, before)
  BY DEF BuiltCode
<1> HIDE DEF was, is
<1>4. Extended(was, is)
  BY <1>1, <1>2, <1>3 DEF Extended, Defined, DefinesCode
<1>5. QED
  BY <1>4 DEF was, is

-----------------------------------------------------------------------------
(* The index lists what the target graph defines in its crates.            *)
Matchable(graph) ==
  {n \in DOMAIN graph.symbols : /\ ~ graph.symbols[n].external
                                /\ Head(graph.symbols[n].meta.file) = "crates"
                                /\ Last(n) \notin Synthetic}

IsEntry(entry, n, graph, rules) ==
  /\ entry.leaf = norm_leaf(Last(n), rules)
  /\ entry.module = target_file_to_module(graph.symbols[n].meta.file, rules)

Lists(targets, graph, rules) ==
  /\ IsFiniteSet(DOMAIN targets)
  /\ \A i \in DOMAIN targets : \E n \in Matchable(graph) : IsEntry(targets[i], n, graph, rules)
  /\ \A n \in Matchable(graph) : \E i \in DOMAIN targets : IsEntry(targets[i], n, graph, rules)

LEMMA IndexLists ==
  ASSUME NEW graph, FineTarget(graph), NEW rules
  PROVE  Lists(TargetIndex(graph, rules), graph, rules)
<1> DEFINE ids == Matchable(graph)
           symbol(n) == graph.symbols[n]
           place(n) == graph.place[n]
           impl(n) == Head(n) \in TraitImpls
           primary(n) == target_file_in_primary_crate(symbol(n).meta.file, rules)
           leaf(n) == norm_leaf(Last(n), rules)
           module(n) == target_file_to_module(symbol(n).meta.file, rules)
           file(n) == symbol(n).meta.file
           entry(n) == [id |-> n, module |-> module(n), leaf |-> leaf(n), is_impl |-> impl(n),
                        primary |-> primary(n), file |-> file(n)]
           order == {mn \in ids \X ids :
                       \/ place(mn[1]) < place(mn[2])
                       \/ place(mn[1]) = place(mn[2]) /\ Precedes(mn[1], mn[2])}
           sorted == Sorted(ids, order)
           targets == [i \in DOMAIN sorted |-> entry(sorted[i])]
<1>1. TargetIndex(graph, rules) = targets
  <2>1. TargetIndex(graph, rules) = Table(targets)
    BY DEF TargetIndex, Matchable
  <2> HIDE DEF targets
  <2>2. QED
    BY <2>1, TableIs
<1>2. IsFiniteSet(ids) /\ ids \subseteq Defined(graph)
  <2>1. ids \subseteq Defined(graph)
    BY DEF Matchable, Defined
  <2>2. QED
    BY <2>1, FS_Subset DEF FineTarget
<1>3. StrictOrder(ids, order)
  <2>1. \A a, b \in ids : <<a, b>> \in order
          <=> place(a) < place(b) \/ (place(a) = place(b) /\ Precedes(a, b))
    OBVIOUS
  <2>2. \A a \in ids : place(a) \in Nat
    BY <1>2 DEF FineTarget
  <2>3. /\ \A a, b \in ids : Precedes(a, b) => ~ Precedes(b, a)
        /\ \A a, b \in ids : a # b => Precedes(a, b) \/ Precedes(b, a)
        /\ \A a, b, c \in ids : Precedes(a, b) /\ Precedes(b, c) => Precedes(a, c)
    BY <1>2 DEF FineTarget, OrdersText
  <2> HIDE DEF order, place, ids
  <2>4. \A a, b \in ids : <<a, b>> \in order => <<b, a>> \notin order
    BY <2>1, <2>2, <2>3
  <2>5. \A a, b \in ids : a # b => <<a, b>> \in order \/ <<b, a>> \in order
    BY <2>1, <2>2, <2>3
  <2>6. ASSUME NEW a \in ids, NEW b \in ids, NEW c \in ids, <<a, b>> \in order, <<b, c>> \in order
        PROVE  <<a, c>> \in order
    <3>1. place(a) \in Nat /\ place(b) \in Nat /\ place(c) \in Nat
      BY <2>2
    <3>2. \/ place(a) < place(c)
          \/ place(a) = place(c) /\ Precedes(a, b) /\ Precedes(b, c)
      BY <2>1, <2>6, <3>1
    <3>3. QED
      BY <2>1, <2>3, <3>2
  <2>7. QED
    BY <2>4, <2>5, <2>6 DEF StrictOrder
<1> HIDE DEF order, ids
<1>4. /\ sorted \in [1 .. Cardinality(ids) -> ids]
      /\ \A n \in ids : \E i \in 1 .. Cardinality(ids) : sorted[i] = n
  BY <1>2, <1>3, SortedLists
<1> HIDE DEF sorted
<1>5. DOMAIN sorted = 1 .. Cardinality(ids) /\ IsFiniteSet(DOMAIN sorted)
  <2>1. Cardinality(ids) \in Nat
    BY <1>2, FS_CardinalityType
  <2>2. IsFiniteSet(1 .. Cardinality(ids))
    BY <2>1, FS_Interval
  <2>3. QED
    BY <1>4, <2>2
<1> HIDE DEF symbol, place, impl, primary, leaf, module, file
<1>6. DOMAIN targets = DOMAIN sorted /\ \A i \in DOMAIN sorted : targets[i] = entry(sorted[i])
  OBVIOUS
<1>7. \A n : IsEntry(entry(n), n, graph, rules)
  <2>1. \A n : entry(n).leaf = leaf(n) /\ entry(n).module = module(n)
    OBVIOUS
  <2> HIDE DEF entry
  <2>2. QED
    BY <2>1 DEF IsEntry, leaf, module, symbol
<1> HIDE DEF targets, entry
<1>8. \A i \in DOMAIN targets : \E n \in ids : IsEntry(targets[i], n, graph, rules)
  BY <1>4, <1>5, <1>6, <1>7
<1>9. \A n \in ids : \E i \in DOMAIN targets : IsEntry(targets[i], n, graph, rules)
  BY <1>4, <1>5, <1>6, <1>7
<1>10. Lists(targets, graph, rules)
  BY <1>5, <1>6, <1>8, <1>9 DEF Lists, ids
<1>11. QED
  BY <1>1, <1>10

(* A target graph that has more code has every leaf and every module of    *)
(* the other still.                                                        *)
Grown(was, is) ==
  \A i \in DOMAIN was : \E j \in DOMAIN is : is[j].leaf = was[i].leaf /\ is[j].module = was[i].module

LEMMA IndexGrown ==
  ASSUME NEW was, NEW is, Extended(was, is), NEW rules,
         NEW a, Lists(a, was, rules), NEW b, Lists(b, is, rules)
  PROVE  Grown(a, b)
<1>1. \A n \in Matchable(was) : n \in Matchable(is) /\ is.symbols[n].meta = was.symbols[n].meta
  BY DEF Matchable, Extended, Defined
<1>2. \A i \in DOMAIN a : \E n \in Matchable(was) : IsEntry(a[i], n, was, rules)
  BY DEF Lists
<1>3. \A n \in Matchable(is) : \E j \in DOMAIN b : IsEntry(b[j], n, is, rules)
  BY DEF Lists
<1>4. QED
  BY <1>1, <1>2, <1>3 DEF Grown, IsEntry

-----------------------------------------------------------------------------
(* A symbol is matched exactly when its leaf lands somewhere.              *)
Lands(targets, leaf) == \E i \in DOMAIN targets : targets[i].leaf = leaf

LEMMA MatchLands ==
  ASSUME NEW targets, NEW module, NEW leaf, NEW subtree
  PROVE  match_symbol(targets, module, leaf, subtree).tier # "unmatched" <=> Lands(targets, leaf)
<1> DEFINE named == {i \in DOMAIN targets : targets[i].leaf = leaf}
           A == {i \in named : targets[i].module = module}
           B == {i \in named : subtree # None /\ under_prefix(targets[i].module, subtree)}
           C == {i \in named : Last(targets[i].module) = Last(module)}
           tiers == << [tier |-> "exact_module", of |-> A], [tier |-> "subtree", of |-> B],
                       [tier |-> "global_name", of |-> C], [tier |-> "global_name", of |-> named] >>
           hits == {k \in DOMAIN tiers : tiers[k].of # {}}
           first == tiers[Min(hits)]
           pick == pick_rep(targets, first.of)
<1>1. match_symbol(targets, module, leaf, subtree)
        = IF hits = {} THEN [tier |-> "unmatched", at |-> None] ELSE [tier |-> first.tier, at |-> pick]
  BY Zenon DEF match_symbol, FirstOf, Candidates
<1>2. A \subseteq named /\ B \subseteq named /\ C \subseteq named
  OBVIOUS
<1>3. named # {} <=> Lands(targets, leaf)
  BY DEF Lands
<1> HIDE DEF named, A, B, C
<1>4. /\ DOMAIN tiers = 1 .. 4
      /\ tiers[4].of = named
      /\ \A k \in 1 .. 4 : tiers[k].of \subseteq named /\ tiers[k].tier # "unmatched"
  BY <1>2
<1> HIDE DEF tiers
<1>5. hits # {} <=> named # {}
  BY <1>4
<1>6. hits # {} => Min(hits) \in 1 .. 4
  <2>1. hits \in SUBSET Nat /\ hits \subseteq 1 .. 4
    BY <1>4
  <2> HIDE DEF hits
  <2>2. QED
    BY <2>1, MinIsLeast
<1> HIDE DEF hits, pick
<1>7. hits # {} => first.tier # "unmatched"
  BY <1>4, <1>6
<1> HIDE DEF first
<1>8. QED
  BY <1>1, <1>3, <1>5, <1>7

-----------------------------------------------------------------------------
(* Nothing adds up to nothing. *)
LEMMA ZeroTotal ==
  ASSUME NEW S, IsFiniteSet(S), NEW w, \A x \in S : w[x] = 0, w = [x \in S |-> w[x]],
         NEW T \in SUBSET S
  PROVE  SumFunctionOnSet(w, T) = 0
<1> DEFINE Bad == {U \in SUBSET S : Total(w, U) # 0}
<1>1. w \in [S -> Nat]
  <2>1. \A x \in S : w[x] \in Nat
    OBVIOUS
  <2>2. QED
    BY <2>1
<1>2. ASSUME Bad # {}
      PROVE  FALSE
  <2>1. Bad \in SUBSET SUBSET S
    OBVIOUS
  <2>2. PICK U \in Bad : \A V \in Bad : V \subseteq U => V = U
    <3> HIDE DEF Bad
    <3>1. QED
      BY <1>2, <2>1, MinimalSubset
  <2>3. U \in SUBSET S /\ Total(w, U) # 0
    OBVIOUS
  <2>4. Total(w, U) = IF U = {} THEN 0 ELSE w[Picked(U)] + Total(w, U \ {Picked(U)})
    BY <1>1, <2>3, TotalPicked
  <2>5. U # {} /\ Picked(U) \in U
    BY <2>3, <2>4, PickedIn
  <2>6. Total(w, U \ {Picked(U)}) = 0
    BY <2>2, <2>3, <2>5
  <2>7. w[Picked(U)] = 0
    BY <2>3, <2>5
  <2>8. Total(w, U) = 0 + 0
    BY <2>4, <2>5, <2>6, <2>7
  <2>9. QED
    BY <2>3, <2>8
<1>3. Total(w, T) = 0
  BY <1>2
<1>4. SumFunctionOnSet(w, T) = Total(w, T)
  BY DEF SumFunctionOnSet, FoldFunctionOnSet, Total, MapThenSumSet
<1>5. QED
  BY <1>3, <1>4

(* A source file is mapped when its module is in the target, and then only *)
(* or when one of its names lands there.                                   *)
HasModule(targets, module) ==
  \E i \in DOMAIN targets : targets[i].module = module \/ under_prefix(targets[i].module, module)

LEMMA NoVotes ==
  ASSUME NEW targets, IsFiniteSet(DOMAIN targets), NEW leaves, NEW rules,
         \A leaf \in leaves : ~ Lands(targets, leaf)
  PROVE  Clustered(targets, leaves, rules) = Unmapped
<1> DEFINE lands(leaf) == {t.module : t \in {x \in ToSet(targets) : x.leaf = leaf}}
           of(m) == {leaf \in leaves : m \in lands(leaf)}
           share(leaf) == 12 \div Cardinality(lands(leaf))
           vote(m) == SumFunction([leaf \in of(m) |-> share(leaf)])
           votes == [m \in Modules(targets) |-> vote(m)]
           P == ModulePrefixes(targets)
           weight(p) == SumFunctionOnSet(votes, {m \in Modules(targets) : under_prefix(m, p)})
           mass == [p \in P |-> weight(p)]
           most == Max({mass[p] : p \in P})
           kept == {p \in P : /\ mass[p] > 0
                              /\ rules.cluster_vote_retain[2] * mass[p]
                                   >= rules.cluster_vote_retain[1] * most}
<1>1. Votes(targets, leaves) = votes
  <2>1. Votes(targets, leaves) = Table(votes)
    BY DEF Votes
  <2> HIDE DEF votes
  <2>2. QED
    BY <2>1, TableIs
<1>2. \A leaf \in leaves : lands(leaf) = {}
  BY DEF Lands, ToSet
<1>3. \A m \in Modules(targets) : votes[m] = 0
  <2>1. TAKE m \in Modules(targets)
  <2>2. of(m) = {}
    BY <1>2
  <2>3. votes[m] = SumFunction([leaf \in of(m) |-> share(leaf)])
    OBVIOUS
  <2> HIDE DEF of, share, votes
  <2>4. \A w : DOMAIN w = {} => SumFunction(w) = 0
    <3>1. TAKE w
    <3>2. HAVE DOMAIN w = {}
    <3>3. SumFunction(w) = Total(w, {})
      BY <3>2, SumIsTotal
    <3>4. Total(w, {}) = (CHOOSE sum : IsSum(w, {}, sum))[{}]
      BY TotalIs
    <3> DEFINE empty == [s \in SUBSET {} |-> IF s = {} THEN 0 ELSE w[Picked(s)] + 0]
    <3>5. IsSum(w, {}, empty)
      BY DEF IsSum
    <3>6. IsSum(w, {}, CHOOSE sum : IsSum(w, {}, sum))
      BY <3>5
    <3>7. QED
      BY <3>3, <3>4, <3>6, IsSumAt
  <2>5. QED
    BY <2>2, <2>3, <2>4
<1>4. IsFiniteSet(Modules(targets))
  <2> DEFINE f == [i \in DOMAIN targets |-> targets[i].module]
  <2>1. Modules(targets) = {f[i] : i \in DOMAIN targets}
    BY DEF Modules, ToSet
  <2> HIDE DEF f
  <2>2. QED
    BY <2>1, ValuesFinite
<1>5. votes = [m \in Modules(targets) |-> votes[m]]
  <2> HIDE DEF vote
  <2>1. QED
    OBVIOUS
<1> HIDE DEF votes
<1>6. \A p \in P : mass[p] = 0
  <2>1. TAKE p \in P
  <2>2. weight(p) = 0
    BY <1>3, <1>4, <1>5, ZeroTotal
  <2> HIDE DEF weight, P
  <2>3. QED
    BY <2>2
<1>7. kept = {}
  <2> HIDE DEF mass, most, P
  <2>1. QED
    BY <1>6
<1>8. Clustered(targets, leaves, rules)
        = LET best == CHOOSE p \in kept : \A q \in kept : IsBetter(targets, mass, p, q)
          IN  IF kept # {} /\ 2 * mass[best] >= 12
              THEN [subtree |-> best, method |-> "graph-cluster"] ELSE Unmapped
  <2> DEFINE MassOf(v) == [p \in P |-> SumFunctionOnSet(v, {m \in Modules(targets) : under_prefix(m, p)})]
             Outcome(m) ==
               LET top == Max({m[p] : p \in P})
                   k == {p \in P :
                           /\ m[p] > 0
                           /\ rules.cluster_vote_retain[2] * m[p] >= rules.cluster_vote_retain[1] * top}
                   best == CHOOSE p \in k : \A q \in k : IsBetter(targets, m, p, q)
               IN  IF k # {} /\ 2 * m[best] >= 12
                   THEN [subtree |-> best, method |-> "graph-cluster"] ELSE Unmapped
  <2>1. Clustered(targets, leaves, rules) = Outcome(Table(MassOf(Votes(targets, leaves))))
    BY Zenon DEF Clustered
  <2>2. mass = MassOf(votes)
    OBVIOUS
  <2>3. Outcome(mass) = LET best == CHOOSE p \in kept : \A q \in kept : IsBetter(targets, mass, p, q)
                        IN  IF kept # {} /\ 2 * mass[best] >= 12
                            THEN [subtree |-> best, method |-> "graph-cluster"] ELSE Unmapped
    <3> HIDE DEF mass, P
    <3>1. QED
      BY Zenon
  <2> HIDE DEF MassOf, Outcome, mass, kept
  <2>4. Table(MassOf(Votes(targets, leaves))) = mass
    BY <1>1, <2>2, TableIs
  <2>5. QED
    BY <2>1, <2>3, <2>4
<1> HIDE DEF kept, mass
<1>9. QED
  BY <1>7, <1>8

LEMMA MapMethod ==
  ASSUME NEW targets, IsFiniteSet(DOMAIN targets), NEW file, NEW leaves, NEW rules
  PROVE  LET mapped == map_source_file(file, targets, leaves, rules).method # None
             has == HasModule(targets, source_file_to_module(file, rules))
         IN  (has => mapped) /\ (mapped => has \/ \E leaf \in leaves : Lands(targets, leaf))
<1> DEFINE module == source_file_to_module(file, rules)
           answer == map_source_file(file, targets, leaves, rules)
           below == \E m \in Modules(targets) : under_prefix(m, module)
<1>1. answer = IF module \in Modules(targets) THEN [subtree |-> module, method |-> "exact"]
               ELSE IF below THEN [subtree |-> module, method |-> "exact-subtree"]
               ELSE IF leaves = {} \/ targets = <<>> THEN Unmapped
               ELSE Clustered(targets, leaves, rules)
  BY DEF map_source_file
<1>2. HasModule(targets, module) <=> module \in Modules(targets) \/ below
  BY DEF HasModule, Modules, ToSet
<1>3. (\A leaf \in leaves : ~ Lands(targets, leaf)) => Clustered(targets, leaves, rules) = Unmapped
  BY NoVotes
<1>4. Unmapped.method = None
  BY DEF Unmapped
<1> HIDE DEF module, answer, below
<1>5. CASE HasModule(targets, module)
  <2>1. answer.method \in {"exact", "exact-subtree"}
    BY <1>1, <1>2, <1>5
  <2>2. answer.method # None
    BY <2>1, BandsAssumption
  <2>3. QED
    BY <1>5, <2>2 DEF answer, module
<1>6. CASE ~ HasModule(targets, module)
  <2>1. answer = Unmapped \/ answer = Clustered(targets, leaves, rules)
    BY <1>1, <1>2, <1>6
  <2>2. answer.method # None => \E leaf \in leaves : Lands(targets, leaf)
    BY <1>3, <1>4, <2>1
  <2>3. QED
    BY <1>6, <2>2 DEF answer, module
<1>7. QED
  BY <1>5, <1>6

-----------------------------------------------------------------------------
(* What the band of a file and the matches of a package follow from.       *)
Named(graph, p, rules) == {n \in SourceSymbols(graph, rules) : graph.symbols[n].meta.file = p}

Resolved(S, targets, rules) == {n \in S : Lands(targets, match_name(n, rules))}

BandFollows(band, graph, p, targets, rules) ==
  LET resolved == Resolved(Named(graph, p, rules), targets, rules)
      has == HasModule(targets, source_file_to_module(p, rules))
  IN  \E mapped \in BOOLEAN :
        /\ has => mapped
        /\ mapped => has \/ resolved # {}
        /\ band \in {"RELOCATED", classify_band(p \in rules.native_files,
                                                Cardinality(Named(graph, p, rules)),
                                                Cardinality(resolved), mapped, rules)}

FollowsIndex(report, graph, targets, rules) ==
  /\ DOMAIN report.files = source_files(graph, rules)
  /\ \A p \in source_files(graph, rules) : BandFollows(report.files[p].band, graph, p, targets, rules)
  /\ report.overall.symbols_matched
       = Cardinality(Resolved(SourceSymbols(graph, rules), targets, rules))

LEMMA EntryBand ==
  ASSUME NEW syms, NEW native_file, NEW mapped, NEW fan_in, NEW targets, NEW matches, NEW confirm,
         NEW rules
  PROVE  FileEntry(syms, native_file, mapped, fan_in, targets, matches, confirm, rules).band
           \in {"RELOCATED",
                classify_band(native_file, Cardinality(syms),
                              Cardinality({n \in syms : matches[n].tier # "unmatched"}),
                              mapped.method # None, rules)}
<1> DEFINE resolved == {n \in syms : matches[n].tier # "unmatched"}
           evaluable == {n \in resolved : confirm[n].evaluable}
           first == classify_band(native_file, Cardinality(syms), Cardinality(resolved),
                                  mapped.method # None, rules)
           band == IF first \in {"PORTED", "STARTED"} /\ IsRelocated(resolved, targets, matches)
                   THEN "RELOCATED" ELSE first
           confirmed == Cardinality({n \in evaluable : confirm[n].confirmed})
           checked == Cardinality(evaluable)
           rows == target_file_contributions(resolved, targets, matches)
           tiers == TierCounts(matches, syms)
           entry == FileEntry(syms, native_file, mapped, fan_in, targets, matches, confirm, rules)
           record == [band |-> band, total_symbols |-> Cardinality(syms),
                      matched_symbols |-> Cardinality(resolved), evaluable |-> checked,
                      confirmed |-> confirmed, mapped_target |-> mapped.subtree,
                      map_method |-> mapped.method, contributions |-> rows,
                      tier_breakdown |-> tiers, fan_in |-> fan_in]
<1>1. entry = record
  BY DEF FileEntry
<1>2. band \in {"RELOCATED", first}
  <2> HIDE DEF first
  <2>1. QED
    OBVIOUS
<1> HIDE DEF band, confirmed, checked, rows, tiers, entry
<1>3. entry.band = band
  <2> HIDE DEF resolved
  <2>1. QED
    BY <1>1
<1>4. QED
  BY <1>2, <1>3 DEF entry

LEMMA PortDiffFollows ==
  ASSUME NEW graph, FineGraph(graph), NEW wave_of, NEW target_graph, FineTarget(target_graph),
         NEW rules
  PROVE  FollowsIndex(port_diff(graph, wave_of, target_graph, rules), graph,
                      TargetIndex(target_graph, rules), rules)
<1> DEFINE targets == TargetIndex(target_graph, rules)
           map == FileMap(graph, targets, rules)
           matches == Matches(graph, targets, map, rules)
           confirm == GraphConfirm(graph, target_graph, targets, matches, rules)
           syms(p) == {n \in DOMAIN matches : graph.symbols[n].meta.file = p}
           row(p) == FileEntry(syms(p), p \in rules.native_files, map[p], graph.files[p].fan_in,
                               targets, matches, confirm, rules)
           files == [p \in DOMAIN map |-> row(p)]
           report == port_diff(graph, wave_of, target_graph, rules)
           sources == SourceSymbols(graph, rules)
           leaves(p) == {match_name(n, rules) : n \in Named(graph, p, rules)}
<1>1. report = PortDiffReport(graph, wave_of, matches, confirm, Table(files), rules)
  BY Zenon DEF port_diff
<1>2. /\ DOMAIN map = source_files(graph, rules)
      /\ \A p \in source_files(graph, rules) :
           map[p] = map_source_file(p, targets, leaves(p), rules)
  <2> DEFINE f == [p \in source_files(graph, rules) |-> map_source_file(p, targets, leaves(p), rules)]
  <2>1. map = Table(f)
    BY DEF FileMap, Named
  <2>2. map = f
    <3> HIDE DEF f
    <3>1. QED
      BY <2>1, TableIs
  <2> HIDE DEF map, leaves
  <2>3. QED
    BY <2>2
<1>3. /\ DOMAIN matches = sources
      /\ \A n \in sources : \E module, subtree :
           matches[n] = match_symbol(targets, module, match_name(n, rules), subtree)
  <2> DEFINE match(n) == match_symbol(targets,
                                      source_file_to_module(graph.symbols[n].meta.file, rules),
                                      match_name(n, rules), map[graph.symbols[n].meta.file].subtree)
             f == [n \in sources |-> match(n)]
  <2>1. matches = Table(f)
    BY DEF Matches
  <2>2. matches = f
    <3> HIDE DEF f
    <3>1. QED
      BY <2>1, TableIs
  <2>3. \A n \in sources : \E module, subtree :
          match(n) = match_symbol(targets, module, match_name(n, rules), subtree)
    OBVIOUS
  <2> HIDE DEF matches, match, sources
  <2>4. QED
    BY <2>2, <2>3
<1>4. DOMAIN confirm = {n \in DOMAIN matches : matches[n].tier # "unmatched"}
  <2> HIDE DEF matches, targets
  <2>1. QED
    BY TableIs DEF GraphConfirm
<1> HIDE DEF targets, map, matches, confirm, sources
<1>5. IsFiniteSet(DOMAIN targets)
  BY IndexLists DEF targets, Lists
<1>6. \A n \in sources : matches[n].tier # "unmatched" <=> Lands(targets, match_name(n, rules))
  BY <1>3, MatchLands
<1>7. Table(files) = files
  <2> HIDE DEF files
  <2>1. QED
    BY TableIs
<1>8. DOMAIN confirm = Resolved(sources, targets, rules)
  BY <1>3, <1>4, <1>6 DEF Resolved
<1>9. ASSUME NEW p \in source_files(graph, rules)
      PROVE  BandFollows(files[p].band, graph, p, targets, rules)
  <2> DEFINE mapped == map[p].method # None
             resolved == Resolved(Named(graph, p, rules), targets, rules)
             has == HasModule(targets, source_file_to_module(p, rules))
  <2>1. files[p] = row(p)
    BY <1>2
  <2>2. syms(p) = Named(graph, p, rules)
    BY <1>3 DEF Named, sources
  <2>3. {n \in syms(p) : matches[n].tier # "unmatched"} = resolved
    BY <1>3, <1>6, <2>2 DEF Resolved
  <2>4. row(p).band \in {"RELOCATED",
                         classify_band(p \in rules.native_files, Cardinality(syms(p)),
                                       Cardinality({n \in syms(p) : matches[n].tier # "unmatched"}),
                                       mapped, rules)}
    BY EntryBand
  <2>5. (has => mapped) /\ (mapped => has \/ \E leaf \in leaves(p) : Lands(targets, leaf))
    <3> HIDE DEF leaves
    <3>1. QED
      BY <1>2, <1>5, MapMethod
  <2>6. (\E leaf \in leaves(p) : Lands(targets, leaf)) => resolved # {}
    BY DEF Resolved
  <2> HIDE DEF files, row, resolved, has, leaves, syms
  <2>7. files[p].band \in {"RELOCATED",
                           classify_band(p \in rules.native_files, Cardinality(Named(graph, p, rules)),
                                         Cardinality(resolved), mapped, rules)}
    BY <2>1, <2>2, <2>3, <2>4
  <2>8. mapped \in BOOLEAN
    OBVIOUS
  <2> HIDE DEF mapped
  <2>9. QED
    BY <2>5, <2>6, <2>7, <2>8 DEF BandFollows, has, resolved
<1>10. report.files = files /\ report.overall.symbols_matched = Cardinality(DOMAIN confirm)
  <2> HIDE DEF files
  <2> DEFINE printed == PortDiffReport(graph, wave_of, matches, confirm, files, rules)
  <2>1. Prints(printed, files, WaveBands(files, wave_of), DOMAIN confirm)
    BY ReportParts
  <2>2. report = printed
    BY <1>1, <1>7
  <2> HIDE DEF report, printed
  <2>3. QED
    BY <2>1, <2>2 DEF Prints
<1>11. DOMAIN files = source_files(graph, rules)
  BY <1>2
<1> HIDE DEF files, report
<1>12. FollowsIndex(report, graph, targets, rules)
  BY <1>8, <1>9, <1>10, <1>11 DEF FollowsIndex, sources
<1>13. QED
  BY <1>12 DEF report, targets

-----------------------------------------------------------------------------
(* More matches take a file to no lower band, relocations aside.           *)
NotLower(b, c) == "RELOCATED" \in {b, c} \/ band_rank(b) <= band_rank(c)

LEMMA BandRanks ==
  /\ band_rank("NOT-STARTED") = 0 /\ band_rank("STARTED") = 1 /\ band_rank("RELOCATED") = 2
  /\ band_rank("PORTED") = 3 /\ band_rank("DONE") = 4
BY DEF band_rank

LEMMA ClassifyGrows ==
  ASSUME NEW native_file, NEW total \in Nat, NEW m \in Nat, NEW n \in Nat, m <= n,
         NEW a \in BOOLEAN, NEW b \in BOOLEAN, a => b \/ n >= 1,
         NEW rules, rules.ported_threshold \in Nat \X Nat
  PROVE  /\ classify_band(native_file, total, m, a, rules) \in Bands
         /\ band_rank(classify_band(native_file, total, m, a, rules))
              <= band_rank(classify_band(native_file, total, n, b, rules))
<1> DEFINE x == rules.ported_threshold[1]
           y == rules.ported_threshold[2]
<1>1. x \in Nat /\ y \in Nat
  OBVIOUS
<1> HIDE DEF x, y
<1>2. y * m >= x * total => y * n >= x * total
  <2>1. PICK d \in Nat : n = m + d
    <3>1. n - m \in Nat /\ n = m + (n - m)
      OBVIOUS
    <3>2. QED
      BY <3>1
  <2>2. y * n = y * m + y * d /\ y * d \in Nat /\ y * m \in Nat /\ x * total \in Nat
    BY <1>1, <2>1
  <2>3. QED
    BY <2>2
<1> DEFINE ported(k) == total > 0 /\ y * k >= x * total
<1>3. /\ classify_band(native_file, total, m, a, rules)
           = IF native_file THEN "DONE" ELSE IF ported(m) THEN "PORTED"
             ELSE IF m >= 1 \/ a THEN "STARTED" ELSE "NOT-STARTED"
      /\ classify_band(native_file, total, n, b, rules)
           = IF native_file THEN "DONE" ELSE IF ported(n) THEN "PORTED"
             ELSE IF n >= 1 \/ b THEN "STARTED" ELSE "NOT-STARTED"
  BY DEF classify_band, x, y
<1>4. ported(m) => ported(n)
  BY <1>2
<1> HIDE DEF ported
<1>5. classify_band(native_file, total, m, a, rules) \in Bands
  BY <1>3 DEF Bands
<1>6. m >= 1 \/ a => n >= 1 \/ b
  OBVIOUS
<1>7. band_rank(classify_band(native_file, total, m, a, rules))
        <= band_rank(classify_band(native_file, total, n, b, rules))
  BY <1>3, <1>4, <1>6, BandRanks
<1>8. QED
  BY <1>5, <1>7

(* A report of the same source against more code.                          *)
KeptPackage(was, is) ==
  /\ DOMAIN was.files = DOMAIN is.files
  /\ \A p \in DOMAIN was.files : NotLower(was.files[p].band, is.files[p].band)
  /\ was.overall.symbols_matched \in Nat
  /\ is.overall.symbols_matched \in Nat
  /\ was.overall.symbols_matched <= is.overall.symbols_matched

LEMMA BandKept ==
  ASSUME NEW graph, NEW p, NEW rules, rules.ported_threshold \in Nat \X Nat,
         IsFiniteSet(Named(graph, p, rules)), NEW a, NEW b, Grown(a, b),
         NEW was, BandFollows(was, graph, p, a, rules), NEW is, BandFollows(is, graph, p, b, rules)
  PROVE  NotLower(was, is)
<1> DEFINE syms == Named(graph, p, rules)
           before == Resolved(syms, a, rules)
           after == Resolved(syms, b, rules)
           module == source_file_to_module(p, rules)
           band(n, mapped) == classify_band(p \in rules.native_files, Cardinality(syms), n, mapped, rules)
<1>1. before \in SUBSET after /\ after \in SUBSET syms
  BY DEF Resolved, Grown, Lands
<1>2. HasModule(a, module) => HasModule(b, module)
  BY DEF Grown, HasModule
<1>3. PICK x \in BOOLEAN : /\ HasModule(a, module) => x
                           /\ x => HasModule(a, module) \/ before # {}
                           /\ was \in {"RELOCATED", band(Cardinality(before), x)}
  BY DEF BandFollows
<1>4. PICK y \in BOOLEAN : /\ HasModule(b, module) => y
                           /\ y => HasModule(b, module) \/ after # {}
                           /\ is \in {"RELOCATED", band(Cardinality(after), y)}
  BY DEF BandFollows
<1> HIDE DEF syms, before, after
<1>5. /\ IsFiniteSet(after) /\ Cardinality(before) <= Cardinality(after)
      /\ Cardinality(before) \in Nat /\ Cardinality(after) \in Nat /\ Cardinality(syms) \in Nat
      /\ after # {} => Cardinality(after) >= 1
  <2>1. IsFiniteSet(syms)
    BY DEF syms
  <2>2. IsFiniteSet(after)
    BY <1>1, <2>1, FS_Subset
  <2>3. IsFiniteSet(before) /\ Cardinality(before) <= Cardinality(after)
    BY <1>1, <2>2, FS_Subset
  <2>4. Cardinality(before) \in Nat /\ Cardinality(after) \in Nat /\ Cardinality(syms) \in Nat
    BY <2>1, <2>2, <2>3, FS_CardinalityType
  <2>5. after # {} => Cardinality(after) # 0
    BY <2>2, FS_EmptySet
  <2>6. QED
    BY <2>2, <2>3, <2>4, <2>5
<1>6. x => y \/ Cardinality(after) >= 1
  BY <1>1, <1>2, <1>3, <1>4, <1>5
<1>7. band_rank(band(Cardinality(before), x)) <= band_rank(band(Cardinality(after), y))
  BY <1>5, <1>6, ClassifyGrows
<1> HIDE DEF band
<1>8. QED
  BY <1>3, <1>4, <1>7 DEF NotLower

LEMMA PortDiffKept ==
  ASSUME NEW graph, FineGraph(graph), NEW wave_of, NEW rules, rules.ported_threshold \in Nat \X Nat,
         NEW was, FineTarget(was), NEW is, FineTarget(is), Extended(was, is)
  PROVE  KeptPackage(port_diff(graph, wave_of, was, rules), port_diff(graph, wave_of, is, rules))
<1> DEFINE a == TargetIndex(was, rules)
           b == TargetIndex(is, rules)
           first == port_diff(graph, wave_of, was, rules)
           second == port_diff(graph, wave_of, is, rules)
           sources == SourceSymbols(graph, rules)
<1>1. FollowsIndex(first, graph, a, rules) /\ FollowsIndex(second, graph, b, rules)
  BY PortDiffFollows
<1>2. Lists(a, was, rules) /\ Lists(b, is, rules)
  BY IndexLists
<1> HIDE DEF a, b, first, second
<1>3. Grown(a, b)
  BY <1>2, IndexGrown
<1>4. IsFiniteSet(sources)
  <2> DEFINE defined == {n \in DOMAIN graph.symbols : ~ graph.symbols[n].external}
  <2>1. sources \in SUBSET defined
    BY DEF SourceSymbols, InSource
  <2>2. IsFiniteSet(defined)
    BY DEF FineGraph
  <2> HIDE DEF defined, sources
  <2>3. QED
    BY <2>1, <2>2, FS_Subset
<1>5. ASSUME NEW p \in source_files(graph, rules)
      PROVE  NotLower(first.files[p].band, second.files[p].band)
  <2>1. Named(graph, p, rules) \in SUBSET sources
    BY DEF Named
  <2>2. IsFiniteSet(Named(graph, p, rules))
    <3> HIDE DEF sources
    <3>1. QED
      BY <1>4, <2>1, FS_Subset
  <2>3. /\ BandFollows(first.files[p].band, graph, p, a, rules)
        /\ BandFollows(second.files[p].band, graph, p, b, rules)
    BY <1>1 DEF FollowsIndex
  <2>4. QED
    BY <1>3, <2>2, <2>3, BandKept
<1>6. /\ Cardinality(Resolved(sources, a, rules)) <= Cardinality(Resolved(sources, b, rules))
      /\ Cardinality(Resolved(sources, a, rules)) \in Nat
      /\ Cardinality(Resolved(sources, b, rules)) \in Nat
  <2>1. /\ Resolved(sources, a, rules) \in SUBSET Resolved(sources, b, rules)
        /\ Resolved(sources, b, rules) \in SUBSET sources
    BY <1>3 DEF Resolved, Grown, Lands
  <2> HIDE DEF sources
  <2>2. IsFiniteSet(Resolved(sources, b, rules))
    BY <1>4, <2>1, FS_Subset
  <2>3. /\ IsFiniteSet(Resolved(sources, a, rules))
        /\ Cardinality(Resolved(sources, a, rules)) <= Cardinality(Resolved(sources, b, rules))
    BY <2>1, <2>2, FS_Subset
  <2>4. QED
    BY <2>2, <2>3, FS_CardinalityType
<1>7. KeptPackage(first, second)
  BY <1>1, <1>5, <1>6 DEF KeptPackage, FollowsIndex
<1>8. QED
  BY <1>7 DEF first, second

-----------------------------------------------------------------------------
(* Sums of more add up to more. *)
LEMMA SumGrows ==
  ASSUME NEW D, IsFiniteSet(D), NEW a \in [D -> Nat], NEW b \in [D -> Nat],
         \A x \in D : a[x] <= b[x]
  PROVE  /\ SumFunction(a) \in Nat /\ SumFunction(b) \in Nat
         /\ SumFunction(a) <= SumFunction(b)
<1> DEFINE Bad == {T \in SUBSET D : ~ (Total(a, T) <= Total(b, T))}
<1>1. ASSUME Bad # {}
      PROVE  FALSE
  <2>1. Bad \in SUBSET SUBSET D
    OBVIOUS
  <2>2. PICK T \in Bad : \A U \in Bad : U \subseteq T => U = T
    <3> HIDE DEF Bad
    <3>1. QED
      BY <1>1, <2>1, MinimalSubset
  <2>3. T \in SUBSET D /\ ~ (Total(a, T) <= Total(b, T))
    OBVIOUS
  <2> DEFINE x == Picked(T)
             R == T \ {x}
  <2>4. /\ Total(a, T) = IF T = {} THEN 0 ELSE a[x] + Total(a, R)
        /\ Total(b, T) = IF T = {} THEN 0 ELSE b[x] + Total(b, R)
    BY <2>3, TotalPicked
  <2>5. T # {} /\ x \in T
    BY <2>3, <2>4, PickedIn
  <2>6. R \in SUBSET D /\ R # T /\ R \subseteq T /\ x \in D
    BY <2>3, <2>5
  <2>7. Total(a, R) <= Total(b, R)
    BY <2>2, <2>6
  <2> HIDE DEF x, R
  <2>8. Total(a, R) \in Nat /\ Total(b, R) \in Nat
    BY <2>6, SumExists
  <2>9. a[x] \in Nat /\ b[x] \in Nat /\ a[x] <= b[x]
    BY <2>6
  <2>10. a[x] + Total(a, R) <= b[x] + Total(b, R)
    BY ONLY <2>7, <2>8, <2>9
  <2>11. QED
    BY <2>3, <2>4, <2>5, <2>10
<1>2. Total(a, D) <= Total(b, D)
  BY <1>1
<1>3. Total(a, D) \in Nat /\ Total(b, D) \in Nat
  BY SumExists
<1>4. SumFunction(a) = Total(a, D) /\ SumFunction(b) = Total(b, D)
  BY SumIsTotal
<1>5. QED
  BY <1>2, <1>3, <1>4

-----------------------------------------------------------------------------
(* What more code keeps in a report, by what was asked for.                *)
KeptPackages(was, is) ==
  /\ DOMAIN was = DOMAIN is
  /\ \A p \in DOMAIN was : KeptPackage(was[p], is[p])

KeptReport(was, is, req) ==
  IF req.kind = "package" THEN KeptPackage(was, is) ELSE KeptPackages(was.packages, is.packages)

LEMMA ThresholdIs ==
  ASSUME NEW p, NEW marked
  PROVE  resolve(p, marked).ported_threshold \in Nat \X Nat
<1> DEFINE prefix == [i \in DOMAIN Config.packages[p].crates |->
                        <<"crates", Config.packages[p].crates[i], "src">>]
           natives == load_native_files(p, marked)
<1>1. resolve(p, marked)
        = [source_src_prefix |-> Config.naming.source_src_prefix,
           target_src_prefix |-> prefix,
           keep_pascal_types |-> Config.naming.keep_pascal_types,
           keep_screaming_consts |-> Config.naming.keep_screaming_consts,
           ported_threshold |-> Config.ported_threshold,
           cluster_vote_retain |-> Config.cluster_vote_retain,
           native_files |-> natives, package |-> p]
  BY DEF resolve
<1> HIDE DEF prefix, natives
<1>2. resolve(p, marked).ported_threshold = Config.ported_threshold
  BY <1>1
<1>3. QED
  BY <1>2, ProgressAssumption

(* A package against the crates of one list, with less and with more code. *)
LEMMA PackageKept ==
  ASSUME NEW graph, FineGraph(graph), NEW p, NEW marked, NEW before,
         NEW crates, DOMAIN crates \in SUBSET Nat,
         NEW more \in SUBSET Writable, IsFiniteSet(more), NEW code \in SUBSET more
  PROVE  LET Against(c) == port_diff(graph, build_plan(graph),
                                     merge_target_graphs(crate_graphs(crates, c, before)),
                                     resolve(p, marked))
         IN  KeptPackage(Against(code), Against(more))
<1> DEFINE was == merge_target_graphs(crate_graphs(crates, code, before))
           is == merge_target_graphs(crate_graphs(crates, more, before))
<1>1. code \in SUBSET Writable /\ IsFiniteSet(code) /\ code \subseteq more
  BY FS_Subset
<1>2. FineTarget(was) /\ FineTarget(is) /\ Extended(was, is)
  BY <1>1, TargetFine, TargetExtended
<1> HIDE DEF was, is
<1>3. KeptPackage(port_diff(graph, build_plan(graph), was, resolve(p, marked)),
                  port_diff(graph, build_plan(graph), is, resolve(p, marked)))
  BY <1>2, PortDiffKept, ThresholdIs
<1>4. QED
  BY <1>3 DEF was, is

LEMMA CratesListed ==
  ASSUME NEW p \in Packages
  PROVE  DOMAIN Config.packages[p].crates \in SUBSET Nat
BY ProgressAssumption DEF Packages

LEMMA OnePackageKept ==
  ASSUME NEW facts, IsFiniteSet(DOMAIN facts.defs), NEW marked, NEW p \in Packages, NEW patterns,
         NEW more \in SUBSET Writable, IsFiniteSet(more), NEW code \in SUBSET more,
         port_diff_cmd(facts, code, marked, p, patterns) # None
  PROVE  KeptPackage(port_diff_cmd(facts, code, marked, p, patterns),
                     port_diff_cmd(facts, more, marked, p, patterns))
<1> DEFINE graph == scope_to_closure(build_graph_from_source(facts, source_path(p)), patterns)
           crates == Config.packages[p].crates
           Against(c) == port_diff(graph, build_plan(graph),
                                   merge_target_graphs(crate_graphs(crates, c, <<>>)),
                                   resolve(p, marked))
<1>1. \A c : port_diff_cmd(facts, c, marked, p, patterns) = IF graph = None THEN None ELSE Against(c)
  BY Zenon DEF port_diff_cmd, extract_target_graph_live
<1> HIDE DEF graph
<1>2. graph # None
  BY <1>1
<1>3. FineGraph(graph)
  BY <1>2, SourceGraphFine, ScopeFine DEF graph
<1>4. KeptPackage(Against(code), Against(more))
  <2>1. DOMAIN crates \in SUBSET Nat
    BY CratesListed
  <2> HIDE DEF crates
  <2>2. QED
    BY <1>3, <2>1, PackageKept
<1> HIDE DEF Against
<1>5. QED
  BY <1>1, <1>2, <1>4

LEMMA AllCratesListed == DOMAIN AllCrates \in SUBSET Nat
<1> DEFINE names == {<<p>> : p \in Packages}
           order == {mn \in names \X names : Precedes(mn[1], mn[2])}
           of(i) == Config.packages[PackageNames[i]].crates
           lists == [i \in DOMAIN PackageNames |-> of(i)]
           size == Cardinality(names)
<1>1. IsFiniteSet(names)
  <2> DEFINE f == [p \in Packages |-> <<p>>]
  <2>1. {f[p] : p \in Packages} = names /\ IsFiniteSet(Packages)
    BY ProgressAssumption DEF Packages
  <2> HIDE DEF f
  <2>2. QED
    BY <2>1, ValuesFinite
<1>2. StrictOrder(names, order)
  <2>1. \A a, b \in names : <<a, b>> \in order <=> Precedes(a, b)
    OBVIOUS
  <2>2. OrdersText(names)
    BY ProgressAssumption DEF Packages
  <2> HIDE DEF order, names
  <2>3. QED
    BY <2>1, <2>2 DEF OrdersText, StrictOrder
<1>3. InOrder(names) \in [1 .. size -> names]
  <2>1. InOrder(names) = Sorted(names, order)
    BY DEF InOrder
  <2> HIDE DEF order, names
  <2>2. QED
    BY <1>1, <1>2, <2>1, SortedLists
<1>4. PackageNames = [i \in DOMAIN InOrder(names) |-> InOrder(names)[i][1]]
  BY DEF PackageNames, NamesOf
<1>5. \A n \in names : n[1] \in Packages
  OBVIOUS
<1>6. size \in Nat
  BY <1>1, FS_CardinalityType
<1> HIDE DEF names, size
<1>7. DOMAIN PackageNames = 1 .. size /\ \A i \in 1 .. size : PackageNames[i] \in Packages
  BY <1>3, <1>4, <1>5
<1>8. \A i \in 1 .. size : of(i) \in Seq(STRING)
  BY <1>7, ProgressAssumption DEF Packages
<1> HIDE DEF of
<1>9. lists \in Seq(Seq(STRING))
  BY <1>6, <1>7, <1>8
<1>10. AllCrates = FlattenSeq(lists)
  BY DEF AllCrates, of
<1> HIDE DEF lists
<1>11. AllCrates \in Seq(STRING)
  BY <1>9, <1>10, FlattenIsSeq
<1>12. QED
  BY <1>11

LEMMA AllPackagesKept ==
  ASSUME NEW facts, IsFiniteSet(DOMAIN facts.defs), NEW marked, NEW merge_check,
         NEW more \in SUBSET Writable, IsFiniteSet(more), NEW code \in SUBSET more
  PROVE  KeptPackages(port_diff_all(facts, code, marked, merge_check).packages,
                      port_diff_all(facts, more, marked, merge_check).packages)
<1> DEFINE was == AllReports(facts, code, marked, merge_check)
           is == AllReports(facts, more, marked, merge_check)
<1>1. ASSUME NEW p \in Packages
      PROVE  KeptPackage(was[p], is[p])
  <2> DEFINE graph == build_graph_from_source(facts, source_path(p))
             crates == IF merge_check THEN AllCrates ELSE Config.packages[p].crates
             before == IF merge_check THEN <<>> ELSE CratesBefore(p, Packages)
             target(c) == merge_target_graphs(crate_graphs(crates, c, before))
  <2>1. \A c : AgainstAll(p, c, merge_check) = target(c)
    BY Zenon DEF AgainstAll, extract_target_graph_live
  <2>2. /\ was[p] = port_diff(graph, build_plan(graph), AgainstAll(p, code, merge_check),
                              resolve(p, marked))
        /\ is[p] = port_diff(graph, build_plan(graph), AgainstAll(p, more, merge_check),
                             resolve(p, marked))
    BY DEF AllReports
  <2>3. FineGraph(graph)
    BY SourceGraphFine
  <2>4. DOMAIN crates \in SUBSET Nat
    BY CratesListed, AllCratesListed
  <2> HIDE DEF graph, crates, before, was, is
  <2>5. KeptPackage(port_diff(graph, build_plan(graph), target(code), resolve(p, marked)),
                    port_diff(graph, build_plan(graph), target(more), resolve(p, marked)))
    BY <2>3, <2>4, PackageKept
  <2> HIDE DEF target
  <2>6. QED
    BY <2>1, <2>2, <2>5
<1>2. DOMAIN was = Packages /\ DOMAIN is = Packages
  BY DEF AllReports
<1> HIDE DEF was, is
<1>3. KeptPackages(was, is)
  BY <1>1, <1>2 DEF KeptPackages
<1>4. QED
  BY <1>3, AllPackagesAre DEF was, is

LEMMA RootedKept ==
  ASSUME NEW facts, IsFiniteSet(DOMAIN facts.defs), NEW marked, NEW patterns,
         NEW more \in SUBSET Writable, IsFiniteSet(more), NEW code \in SUBSET more,
         port_diff_cross_from(facts, code, marked, patterns) # None
  PROVE  KeptPackages(port_diff_cross_from(facts, code, marked, patterns).packages,
                      port_diff_cross_from(facts, more, marked, patterns).packages)
<1> DEFINE root == find_union_root
           union == build_graph_from_source(facts, root)
           closure == scope_to_closure(union, patterns)
           spanned == SpannedBy(closure, root)
           slices(c) == SliceReports(closure, root, c, marked)
           report(c) == port_diff_cross_from(facts, c, marked, patterns)
           error == resolve_roots(union, patterns) = None \/ spanned = {}
<1>1. \A c : IF error THEN report(c) = None
             ELSE report(c).packages = slices(c) /\ report(c).totals = add_reports(slices(c))
  BY RootedAre
<1>2. ~ error
  <2>1. report(code) # None
    OBVIOUS
  <2> HIDE DEF error, report, slices
  <2>2. QED
    BY <1>1, <2>1
<1>3. FineGraph(closure)
  BY <1>2, UnionClosureFine
<1> HIDE DEF closure, root
<1>4. ASSUME NEW p \in spanned
      PROVE  KeptPackage(slices(code)[p], slices(more)[p])
  <2> DEFINE slice == reroot_subgraph(closure, RelativeTo(root, p))
             crates == Config.packages[p].crates
             before == CratesBefore(p, spanned)
             target(c) == merge_target_graphs(crate_graphs(crates, c, before))
  <2>1. \A c : extract_target_graph_live(p, c, before) = target(c)
    BY Zenon DEF extract_target_graph_live
  <2>2. \A c : slices(c)[p] = port_diff(slice, build_plan(slice),
                                        extract_target_graph_live(p, c, before), resolve(p, marked))
    BY DEF SliceReports
  <2>3. FineGraph(slice)
    BY <1>3, SliceFine
  <2>4. DOMAIN crates \in SUBSET Nat
    <3>1. p \in Packages
      BY DEF SpannedBy
    <3>2. QED
      BY <3>1, CratesListed
  <2> HIDE DEF slice, crates, before, slices, spanned
  <2>5. KeptPackage(port_diff(slice, build_plan(slice), target(code), resolve(p, marked)),
                    port_diff(slice, build_plan(slice), target(more), resolve(p, marked)))
    BY <2>3, <2>4, PackageKept
  <2> HIDE DEF target
  <2>6. QED
    BY <2>1, <2>2, <2>5
<1>5. \A c : DOMAIN slices(c) = spanned
  BY DEF SliceReports
<1> HIDE DEF slices, spanned
<1>6. KeptPackages(slices(code), slices(more))
  BY <1>4, <1>5 DEF KeptPackages
<1> HIDE DEF error, report
<1>7. report(code).packages = slices(code) /\ report(more).packages = slices(more)
  BY <1>1, <1>2
<1>8. QED
  BY <1>6, <1>7 DEF report

LEMMA AnswerKept ==
  ASSUME NEW version \in DOMAIN SourceFacts, NEW marked, NEW req \in Requests,
         NEW more \in SUBSET Writable, IsFiniteSet(more), NEW code \in SUBSET more,
         Report(version, code, marked, req) # None
  PROVE  KeptReport(Report(version, code, marked, req), Report(version, more, marked, req), req)
<1> DEFINE facts == SourceFacts[version]
<1>1. /\ IsFiniteSet(DOMAIN facts.defs)
      /\ \/ req.kind = "package" /\ req.package \in Packages
         \/ req.kind \in {"all", "from"}
  BY ProgressAssumption DEF Packages
<1> HIDE DEF facts
<1>2. CASE req.kind = "package"
  <2> DEFINE report(c) == port_diff_cmd(facts, c, marked, req.package, req.from)
  <2>1. \A c : Report(version, c, marked, req) = report(c)
    BY <1>2 DEF Report, facts
  <2>2. report(code) # None /\ req.package \in Packages
    BY <1>1, <1>2, <2>1
  <2>3. KeptPackage(report(code), report(more))
    BY <1>1, <2>2, OnePackageKept
  <2> HIDE DEF report
  <2>4. QED
    BY <1>2, <2>1, <2>3 DEF KeptReport
<1>3. CASE req.kind = "all"
  <2> DEFINE report(c) == port_diff_all(facts, c, marked, req.merge_check)
  <2>1. \A c : Report(version, c, marked, req) = report(c)
    BY <1>3 DEF Report, facts
  <2>2. KeptPackages(report(code).packages, report(more).packages)
    BY <1>1, AllPackagesKept
  <2> HIDE DEF report
  <2>3. QED
    BY <1>3, <2>1, <2>2 DEF KeptReport
<1>4. CASE req.kind = "from"
  <2> DEFINE report(c) == port_diff_cross_from(facts, c, marked, req.from)
  <2>1. \A c : Report(version, c, marked, req) = report(c)
    BY <1>4 DEF Report, facts
  <2>2. report(code) # None
    BY <2>1
  <2>3. KeptPackages(report(code).packages, report(more).packages)
    BY <1>1, <2>2, RootedKept
  <2> HIDE DEF report
  <2>4. QED
    BY <1>4, <2>1, <2>3 DEF KeptReport
<1>5. QED
  BY <1>1, <1>2, <1>3, <1>4

-----------------------------------------------------------------------------
(* The row of a file that was kept tells no step back.                     *)
KeptRow(row) ==
  row.direction \in {"unchanged", "advanced"} \/ "RELOCATED" \in {row.band_before, row.band_after}

LEMMA KeptRows ==
  ASSUME NEW was, NEW is, DOMAIN was = DOMAIN is, NEW p \in DOMAIN was,
         was[p].band \in Bands, is[p].band \in Bands, NotLower(was[p].band, is[p].band)
  PROVE  KeptRow(diff_file_lists(was, is)[p])
<1> DEFINE band(files, f) == IF f \in DOMAIN files THEN files[f].band ELSE None
           Direction(b, c) ==
             CASE b = None -> "added"
               [] c = None -> "removed"
               [] OTHER -> IF band_rank(c) > band_rank(b) THEN "advanced"
                           ELSE IF band_rank(c) < band_rank(b) THEN "regressed" ELSE "unchanged"
           row(f) == [band_before |-> band(was, f), band_after |-> band(is, f),
                      direction |-> Direction(band(was, f), band(is, f))]
           rows == [f \in DOMAIN was \cup DOMAIN is |-> row(f)]
           b == was[p].band
           c == is[p].band
<1>1. diff_file_lists(was, is) = rows
  <2>1. diff_file_lists(was, is) = Table(rows)
    BY DEF diff_file_lists
  <2> HIDE DEF rows
  <2>2. QED
    BY <2>1, TableIs
<1>2. rows[p] = row(p) /\ band(was, p) = b /\ band(is, p) = c
  OBVIOUS
<1>3. b # None /\ c # None /\ b \in Bands /\ c \in Bands
  BY BandsAssumption
<1>4. band_rank(b) \in Nat /\ band_rank(c) \in Nat
  BY <1>3, BandRanks DEF Bands
<1>5. band_rank(b) <= band_rank(c) => Direction(b, c) \in {"unchanged", "advanced"}
  <2>1. Direction(b, c) = IF band_rank(c) > band_rank(b) THEN "advanced"
                          ELSE IF band_rank(c) < band_rank(b) THEN "regressed" ELSE "unchanged"
    BY <1>3
  <2> HIDE DEF Direction, b, c
  <2>2. QED
    BY <1>4, <2>1
<1>6. row(p).direction = Direction(b, c) /\ row(p).band_before = b /\ row(p).band_after = c
  <2> HIDE DEF Direction, band, b, c
  <2>1. QED
    BY <1>2
<1>7. "RELOCATED" \in {b, c} \/ band_rank(b) <= band_rank(c)
  BY DEF NotLower
<1> HIDE DEF rows, row, Direction, band, b, c
<1>8. KeptRow(row(p))
  BY <1>5, <1>6, <1>7 DEF KeptRow
<1>9. QED
  BY <1>1, <1>2, <1>8

LEMMA KeptPackagedRows ==
  ASSUME NEW was, FinePackages(was), NEW is, FinePackages(is), KeptPackages(was, is)
  PROVE  \A k \in DOMAIN diff_packaged(was, is) : KeptRow(diff_packaged(was, is)[k])
<1> DEFINE files(reports, p) == IF p \in DOMAIN reports THEN reports[p].files ELSE <<>>
           P == DOMAIN was \cup DOMAIN is
           rows(p) == diff_file_lists(files(was, p), files(is, p))
           of == [p \in P |-> rows(p)]
           pairs == UNION {{<<p, f>> : f \in DOMAIN of[p]} : p \in DOMAIN of}
           all == [pf \in pairs |-> of[pf[1]][pf[2]]]
<1>1. diff_packaged(was, is) = all
  <2>1. Table(of) = of
    <3> HIDE DEF of
    <3>1. QED
      BY TableIs
  <2>2. diff_packaged(was, is)
          = LET t == Table(of)
                ps == UNION {{<<p, f>> : f \in DOMAIN t[p]} : p \in DOMAIN t}
            IN  Table([pf \in ps |-> t[pf[1]][pf[2]]])
    BY DEF diff_packaged
  <2> HIDE DEF of
  <2>3. diff_packaged(was, is) = Table(all)
    BY <2>1, <2>2
  <2> HIDE DEF all
  <2>4. QED
    BY <2>3, TableIs
<1>2. ASSUME NEW p \in P
      PROVE  \A f \in DOMAIN rows(p) : KeptRow(rows(p)[f])
  <2> DEFINE w == was[p].files
             i == is[p].files
  <2>1. p \in DOMAIN was /\ p \in DOMAIN is
    BY DEF KeptPackages
  <2>2. /\ KeptPackage(was[p], is[p])
        /\ \A f \in DOMAIN w : w[f].band \in Bands
        /\ \A f \in DOMAIN i : i[f].band \in Bands
    BY <2>1 DEF KeptPackages, FinePackages, FinePackage
  <2>3. DOMAIN w = DOMAIN i /\ \A f \in DOMAIN w : NotLower(w[f].band, i[f].band)
    BY <2>2 DEF KeptPackage
  <2>4. rows(p) = diff_file_lists(w, i)
    BY <2>1
  <2> HIDE DEF w, i, rows
  <2>5. \A f \in DOMAIN w : KeptRow(diff_file_lists(w, i)[f])
    BY <2>2, <2>3, KeptRows
  <2>6. RowsOf(diff_file_lists(w, i), DOMAIN w, [f \in DOMAIN w |-> w[f].band],
               DOMAIN i, [f \in DOMAIN i |-> i[f].band])
    BY <2>2, FileListRows
  <2>7. DOMAIN diff_file_lists(w, i) = DOMAIN w
    BY <2>3, <2>6 DEF RowsOf
  <2>8. QED
    BY <2>4, <2>5, <2>7
<1> HIDE DEF rows
<1>3. \A k \in pairs : k[1] \in P /\ k[2] \in DOMAIN rows(k[1]) /\ all[k] = rows(k[1])[k[2]]
  OBVIOUS
<1>4. DOMAIN all = pairs
  OBVIOUS
<1> HIDE DEF all, pairs
<1>5. QED
  BY <1>1, <1>2, <1>3, <1>4

(* The sum over the packages of the symbols that are matched.              *)
LEMMA MatchedGrow ==
  ASSUME NEW was, NEW is, IsFiniteSet(DOMAIN was), KeptPackages(was, is)
  PROVE  /\ add_reports(was).symbols_matched \in Nat
         /\ add_reports(is).symbols_matched \in Nat
         /\ add_reports(was).symbols_matched <= add_reports(is).symbols_matched
<1> DEFINE D == DOMAIN was
           matched(reports) == [p \in D |-> reports[p].overall.symbols_matched]
<1>1. \A reports : DOMAIN reports = D => add_reports(reports).symbols_matched = SumFunction(matched(reports))
  <2>1. TAKE reports
  <2>2. HAVE DOMAIN reports = D
  <2> DEFINE overall == [p \in D |-> reports[p].overall]
             total(field) == SumFunction([p \in D |-> overall[p][field]])
             bands == [b \in Bands |-> SumFunction([p \in D |-> overall[p].bands[b]])]
             marked == SumFunction([p \in D |-> reports[p].native_modules])
             symbols == total("symbols_total")
             count == total("symbols_matched")
             files == total("source_files_total")
             totals == add_reports(reports)
  <2>3. totals = [source_files_total |-> files, bands |-> bands, symbols_total |-> symbols,
                  symbols_matched |-> count, conformance_native |-> marked]
    BY <2>2 DEF add_reports
  <2>4. [p \in D |-> overall[p]["symbols_matched"]] = matched(reports)
    OBVIOUS
  <2>5. count = SumFunction(matched(reports))
    BY <2>4
  <2> HIDE DEF totals, files, bands, symbols, count, marked
  <2>6. totals.symbols_matched = count
    BY <2>3
  <2>7. QED
    BY <2>5, <2>6 DEF totals
<1>2. DOMAIN is = D
  BY DEF KeptPackages
<1>3. \A p \in D : /\ was[p].overall.symbols_matched \in Nat
                   /\ is[p].overall.symbols_matched \in Nat
                   /\ was[p].overall.symbols_matched <= is[p].overall.symbols_matched
  BY DEF KeptPackages, KeptPackage
<1>4. matched(was) \in [D -> Nat] /\ matched(is) \in [D -> Nat]
  BY <1>3
<1>5. \A p \in D : matched(was)[p] <= matched(is)[p]
  BY <1>3
<1> HIDE DEF matched
<1>6. QED
  BY <1>1, <1>2, <1>4, <1>5, SumGrows

(* --compare of two reports, the second of which kept what the first had.  *)
KeptDelta(delta) ==
  /\ delta.totals.symbols_matched_delta >= 0
  /\ \A f \in DOMAIN delta.files : KeptRow(delta.files[f])

LEMMA FinishedKept ==
  ASSUME NEW rows, \A f \in DOMAIN rows : KeptRow(rows[f]), NEW m \in Nat, NEW n \in Nat, m <= n
  PROVE  KeptDelta(finish(rows, totals_from(rows, m, n)))
<1> DEFINE totals == totals_from(rows, m, n)
           directed(d) == {p \in DOMAIN rows : rows[p].direction = d}
           moved == directed("advanced") \cup directed("regressed")
           direction == [d \in {"advanced", "regressed", "unchanged", "added", "removed"} |->
                           Cardinality(directed(d))]
           transitions == [bc \in {<<rows[p].band_before, rows[p].band_after>> : p \in moved} |->
                             Cardinality({p \in moved :
                                            <<rows[p].band_before, rows[p].band_after>> = bc})]
           net == band_net_movement(rows)
           verdict_of == verdict(totals)
           delta == finish(rows, totals)
<1>1. totals = [direction |-> direction, transitions |-> transitions, band_net_movement |-> net,
                symbols_matched_delta |-> n - m]
  BY DEF totals_from
<1>2. delta = [verdict |-> verdict_of, totals |-> totals, files |-> rows]
  BY DEF finish
<1> HIDE DEF totals, direction, transitions, net, verdict_of, delta
<1>3. totals.symbols_matched_delta = n - m
  BY <1>1
<1>4. delta.totals = totals /\ delta.files = rows
  BY <1>2
<1>5. KeptDelta(delta)
  BY <1>3, <1>4 DEF KeptDelta
<1>6. QED
  BY <1>5 DEF delta, totals

LEMMA CompareKept ==
  ASSUME NEW req, req.kind \in {"package", "all", "from"}, NEW was, FineReport(was, req),
         NEW is, FineReport(is, req), KeptReport(was, is, req)
  PROVE  KeptDelta(emit_delta(was, is, req))
<1>1. CASE req.kind = "package"
  <2> DEFINE rows == diff_file_lists(was.files, is.files)
             m == was.overall.symbols_matched
             n == is.overall.symbols_matched
  <2>1. emit_delta(was, is, req) = finish(rows, totals_from(rows, m, n))
    BY <1>1 DEF emit_delta, diff_reports
  <2>2. FinePackage(was) /\ FinePackage(is) /\ KeptPackage(was, is)
    BY <1>1 DEF FineReport, KeptReport
  <2>3. m \in Nat /\ n \in Nat /\ m <= n
    BY <2>2 DEF KeptPackage
  <2>4. \A f \in DOMAIN rows : KeptRow(rows[f])
    <3> DEFINE w == was.files
               i == is.files
    <3>1. /\ \A f \in DOMAIN w : w[f].band \in Bands
          /\ \A f \in DOMAIN i : i[f].band \in Bands
      BY <2>2 DEF FinePackage
    <3>2. DOMAIN w = DOMAIN i /\ \A f \in DOMAIN w : NotLower(w[f].band, i[f].band)
      BY <2>2 DEF KeptPackage
    <3> HIDE DEF w, i
    <3>3. \A f \in DOMAIN w : KeptRow(diff_file_lists(w, i)[f])
      BY <3>1, <3>2, KeptRows
    <3>4. RowsOf(diff_file_lists(w, i), DOMAIN w, [f \in DOMAIN w |-> w[f].band],
                 DOMAIN i, [f \in DOMAIN i |-> i[f].band])
      BY <3>1, FileListRows
    <3>5. DOMAIN diff_file_lists(w, i) = DOMAIN w
      BY <3>2, <3>4 DEF RowsOf
    <3>6. QED
      BY <3>3, <3>5 DEF w, i
  <2> HIDE DEF rows, m, n
  <2>5. KeptDelta(finish(rows, totals_from(rows, m, n)))
    BY <2>3, <2>4, FinishedKept
  <2>6. QED
    BY <2>1, <2>5
<1>2. CASE req.kind # "package"
  <2> DEFINE rows == diff_packaged(was.packages, is.packages)
             m == was.totals.symbols_matched
             n == is.totals.symbols_matched
  <2>1. emit_delta(was, is, req) = finish(rows, totals_from(rows, m, n))
    BY <1>2 DEF emit_delta, diff_cross_reports, diff_multi_reports
  <2>2. /\ FinePackages(was.packages) /\ was.totals = add_reports(was.packages)
        /\ FinePackages(is.packages) /\ is.totals = add_reports(is.packages)
        /\ KeptPackages(was.packages, is.packages)
    BY <1>2 DEF FineReport, KeptReport
  <2>3. m \in Nat /\ n \in Nat /\ m <= n
    BY <2>2, MatchedGrow DEF FinePackages
  <2>4. \A f \in DOMAIN rows : KeptRow(rows[f])
    BY <2>2, KeptPackagedRows
  <2> HIDE DEF rows, m, n
  <2>5. KeptDelta(finish(rows, totals_from(rows, m, n)))
    BY <2>3, <2>4, FinishedKept
  <2>6. QED
    BY <2>1, <2>5
<1>3. QED
  BY <1>1, <1>2

-----------------------------------------------------------------------------
(* While code was only added, the report that was saved last is the answer *)
(* for a part of what is written now.                                      *)
OnlyWrites(es) == \A e \in es : DOMAIN e = {"wrote"}

GrowthInv ==
  /\ ProgressInv
  /\ written \in SUBSET Writable /\ IsFiniteSet(written)
  /\ baseline # None /\ OnlyWrites(edits)
       => \E code \in SUBSET written : baseline = Report(source, code, native, request)
  /\ compared # None /\ OnlyWrites(compared.edits)
       => KeptReport(compared.before, baseline, request)

LEMMA GrowthStep == GrowthInv /\ [ProgressNext]_progress_vars => GrowthInv'
<1> SUFFICES ASSUME GrowthInv, [ProgressNext]_progress_vars
             PROVE  GrowthInv'
  OBVIOUS
<1>1. ProgressInv'
  BY ProgressStep DEF GrowthInv
<1>2. ASSUME NEW s \in Writable, Write(s)
      PROVE  GrowthInv'
  <2>1. /\ written' = written \cup {s} /\ edits' = edits \cup {[wrote |-> s]} /\ compared' = None
        /\ UNCHANGED <<source, native, request, baseline>>
    BY <1>2 DEF Write, Edited
  <2>2. IsFiniteSet(written')
    BY <2>1, FS_AddElement DEF GrowthInv
  <2>3. OnlyWrites(edits') => OnlyWrites(edits)
    BY <2>1 DEF OnlyWrites
  <2>4. QED
    BY <1>1, <2>1, <2>2, <2>3 DEF GrowthInv
<1>3. ASSUME NEW s \in Writable, Delete(s)
      PROVE  GrowthInv'
  <2>1. /\ written' = written \ {s} /\ edits' = edits \cup {[removed |-> s]} /\ compared' = None
    BY <1>3 DEF Delete, Edited
  <2>2. written' \in SUBSET written
    BY <2>1
  <2>3. IsFiniteSet(written')
    BY <2>2, FS_Subset DEF GrowthInv
  <2>4. ~ OnlyWrites(edits')
    <3> DEFINE e == [removed |-> s]
    <3>1. "removed" \in DOMAIN e
      OBVIOUS
    <3>2. e \in edits'
      BY <2>1
    <3> HIDE DEF e
    <3>3. DOMAIN e # {"wrote"}
      BY <3>1
    <3>4. QED
      BY <3>2, <3>3 DEF OnlyWrites
  <2>5. QED
    BY <1>1, <2>1, <2>2, <2>3, <2>4 DEF GrowthInv
<1>4. ASSUME NEW v \in Verifiable, Verify(v)
      PROVE  GrowthInv'
  <2>1. /\ edits' = edits \cup {[verified |-> v]} /\ compared' = None /\ written' = written
    BY <1>4 DEF Verify, Edited
  <2>2. ~ OnlyWrites(edits')
    <3> DEFINE e == [verified |-> v]
    <3>1. "verified" \in DOMAIN e
      OBVIOUS
    <3>2. e \in edits'
      BY <2>1
    <3> HIDE DEF e
    <3>3. DOMAIN e # {"wrote"}
      BY <3>1
    <3>4. QED
      BY <3>2, <3>3 DEF OnlyWrites
  <2>3. QED
    BY <1>1, <2>1, <2>2 DEF GrowthInv
<1>5. ASSUME NEW version \in DOMAIN SourceFacts, ChangeSource(version)
      PROVE  GrowthInv'
  <2>1. /\ edits' = edits \cup {[changed |-> version]} /\ compared' = None /\ written' = written
    BY <1>5 DEF ChangeSource, Edited
  <2>2. ~ OnlyWrites(edits')
    <3> DEFINE e == [changed |-> version]
    <3>1. "changed" \in DOMAIN e
      OBVIOUS
    <3>2. e \in edits'
      BY <2>1
    <3> HIDE DEF e
    <3>3. DOMAIN e # {"wrote"}
      BY <3>1
    <3>4. QED
      BY <3>2, <3>3 DEF OnlyWrites
  <2>3. QED
    BY <1>1, <2>1, <2>2 DEF GrowthInv
<1>6. CASE PortDiff
  <2> DEFINE report == Report(source, written, native, request)
             delta == emit_delta(baseline, report, request)
  <2>1. /\ report # None
        /\ baseline' = report
        /\ compared' = IF baseline = None THEN None
                       ELSE [before |-> baseline, edits |-> edits, delta |-> delta]
        /\ UNCHANGED <<source, written, native, request>>
    BY <1>6 DEF PortDiff
  <2>2. compared' # None
          => baseline # None /\ compared'.before = baseline /\ compared'.edits = edits
    <3> HIDE DEF delta
    <3>1. QED
      BY <2>1
  <2>3. baseline' = Report(source, written, native, request)' /\ written' \in SUBSET written'
    BY <2>1
  <2> HIDE DEF report
  <2>4. compared' # None /\ OnlyWrites(compared'.edits)
          => KeptReport(compared'.before, baseline', request')
    <3>1. SUFFICES ASSUME compared' # None, OnlyWrites(compared'.edits)
                   PROVE  KeptReport(baseline, baseline', request)
      BY <2>1, <2>2
    <3>2. baseline # None /\ OnlyWrites(edits)
      BY <2>2, <3>1
    <3>3. PICK code \in SUBSET written : baseline = Report(source, code, native, request)
      BY <3>2 DEF GrowthInv
    <3>4. /\ source \in DOMAIN SourceFacts /\ request \in Requests
          /\ written \in SUBSET Writable /\ IsFiniteSet(written)
      BY DEF GrowthInv, ProgressInv
    <3>5. KeptReport(Report(source, code, native, request), report, request)
      BY <3>2, <3>3, <3>4, AnswerKept DEF report
    <3>6. QED
      BY <2>1, <3>3, <3>5
  <2>5. QED
    BY <1>1, <2>1, <2>3, <2>4 DEF GrowthInv
<1>7. CASE UNCHANGED progress_vars
  BY <1>1, <1>7 DEF progress_vars, GrowthInv, Report
<1>8. QED
  BY <1>2, <1>3, <1>4, <1>5, <1>6, <1>7 DEF ProgressNext

LEMMA NeverRegresses == GrowthInv => PortingNeverRegresses
<1> SUFFICES ASSUME GrowthInv, compared # None, OnlyWrote
             PROVE  PortingNeverRegresses
  BY DEF PortingNeverRegresses
<1>1. /\ request.kind \in {"package", "all", "from"}
      /\ FineReport(compared.before, request) /\ FineReport(baseline, request)
      /\ compared.delta = emit_delta(compared.before, baseline, request)
  BY ProgressAssumption DEF GrowthInv, ProgressInv
<1>2. KeptReport(compared.before, baseline, request)
  BY DEF GrowthInv, OnlyWrote, OnlyWrites
<1>3. KeptDelta(compared.delta)
  BY <1>1, <1>2, CompareKept
<1>4. QED
  BY <1>3 DEF KeptDelta, KeptRow, PortingNeverRegresses

(* Porting only helps: between two runs that differ by target code that    *)
(* was written, no symbol loses its match and no file falls to a lower     *)
(* band, relocations aside, whatever the naming, the packages, the request *)
(* and the order in which the symbols were written.  The file map alone    *)
(* does not only grow (a vote split between more modules may unmap a       *)
(* file); the matches make up for it.                                      *)
THEOREM WritingNeverRegresses == ProgressSpec => []PortingNeverRegresses
<1>1. ProgressInit => GrowthInv
  BY ProgressAssumption, FS_EmptySet DEF ProgressInit, ProgressInv, GrowthInv
<1>2. QED
  BY <1>1, GrowthStep, NeverRegresses, PTL DEF ProgressSpec
=============================================================================
