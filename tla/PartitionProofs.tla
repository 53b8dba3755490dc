-------------------------- MODULE PartitionProofs --------------------------
(***************************************************************************)
(* What partitions a set: the component search emits exactly the cycles of *)
(* every graph, each once and whole, dependencies first; the disjoint-set  *)
(* forest keeps its shape for every number of signatures and every         *)
(* sequence of pairs; and the clusters of the similar command, refined     *)
(* from the groups of that forest, are as promised for every document, and *)
(* the merged report of its documents is fair.                             *)
(***************************************************************************)
EXTENDS StrongComponents, SimilarCommand, SequenceTheorems, FiniteSetTheorems,
        WellFoundedInduction, TLAPS

(* The nodes whose frame is open: the path of the search.                  *)
Path == {work[i][1] : i \in DOMAIN work} \cap Discovered

(* Discovered, and taken off the stack again. *)
Done == Discovered \ on_stack

(* The search has looked along the edge from x to w.                       *)
Looked(x, w) == \A i \in DOMAIN work : work[i][1] = x => w \in work[i][2]

(* Discovery numbers tell the nodes apart, and order the stack. *)
StackInv ==
  /\ on_stack = ToSet(tarjan_stack)
  /\ \A x, y \in Discovered : index[x] = index[y] => x = y
  /\ \A i, j \in DOMAIN tarjan_stack :
       i < j => index[tarjan_stack[i]] < index[tarjan_stack[j]]

(* The frames are a path in the graph, numbered in the order of discovery; *)
(* only the last one may be new.                                           *)
WorkInv ==
  /\ \A i \in DOMAIN work :
       /\ work[i][1] \in Discovered => work[i][1] \in on_stack
       /\ work[i][1] \notin Discovered => i = Len(work) /\ work[i][2] = {}
       /\ work[i][2] \subseteq adj[work[i][1]]
  /\ \A i, j \in DOMAIN work :
       i < j /\ work[j][1] \in Discovered => index[work[i][1]] < index[work[j][1]]
  /\ \A i \in DOMAIN work : i > 1 => work[i][1] \in work[i - 1][2]
  /\ \A i \in DOMAIN work : \A w \in work[i][2] :
       w \in Discovered \/ (i < Len(work) /\ w = work[i + 1][1])

(* No edge leads from a finished node to an undiscovered one, or from a    *)
(* component to what is not in one.                                        *)
ClosedInv ==
  /\ \A x \in Discovered \ Path : adj[x] \subseteq Discovered
  /\ \A x \in Done : adj[x] \subseteq Done

(* A node on the path needs all that was put on the stack after it, and    *)
(* what is on the stack needs a node on the path below it.                 *)
NeedsInv ==
  /\ \A y \in Path : \A x \in on_stack : index[y] <= index[x] => x \in Needs(adj, y)
  /\ \A x \in on_stack : \E y \in Path : index[y] <= index[x] /\ y \in Needs(adj, x)

(* A low link is the number of a node on the stack that is needed, and is  *)
(* no larger than that of any node on the stack an edge was seen to.       *)
LowlinkInv ==
  /\ \A v \in Path : \E u \in on_stack :
       u \in Needs(adj, v) /\ lowlink[v] = index[u] /\ index[u] <= index[v]
  /\ \A v \in Path, x \in on_stack : \A w \in adj[x] \cap on_stack :
       index[v] <= index[x] /\ Looked(x, w) =>
         \E u \in Path : index[v] <= index[u] /\ lowlink[u] <= index[w]

(* What was emitted is what is done: whole components, each once.          *)
EmittedInv ==
  /\ UNION ToSet(components) = Done
  /\ \A i, j \in DOMAIN components : components[i] \cap components[j] # {} => i = j

SearchInv ==
  /\ TypeOK
  /\ StackInv
  /\ WorkInv
  /\ ClosedInv
  /\ NeedsInv
  /\ LowlinkInv
  /\ EmittedInv
  /\ DependenciesFirst
  /\ WholeCycles

-----------------------------------------------------------------------------
(* What is needed, as in the proofs about PortPlan.                        *)
LEMMA NeedsSelf ==
  ASSUME NEW graph, NEW m \in DOMAIN graph
  PROVE  m \in Needs(graph, m) /\ Needs(graph, m) \subseteq DOMAIN graph
BY DEF Needs

LEMMA NeedsTransitive ==
  ASSUME NEW graph, NEW m, NEW n \in Needs(graph, m)
  PROVE  Needs(graph, n) \subseteq Needs(graph, m)
BY DEF Needs

LEMMA NeedsDeps ==
  ASSUME NEW graph, NEW m \in DOMAIN graph, graph[m] \subseteq DOMAIN graph
  PROVE  graph[m] \subseteq Needs(graph, m)
BY DEF Needs

(* What is needed stays inside every set that nothing leads out of.        *)
LEMMA NeedsInside ==
  ASSUME NEW graph, NEW S \in SUBSET DOMAIN graph, NEW m \in S,
         \A x \in S : graph[x] \subseteq S
  PROVE  Needs(graph, m) \subseteq S
BY DEF Needs

-----------------------------------------------------------------------------
(* The last frame and the ones before it.                                  *)
LEMMA FrontShape ==
  ASSUME NEW S, NEW s \in Seq(S), s # <<>>
  PROVE  /\ Len(s) \in Nat \ {0}
         /\ Last(s) = s[Len(s)] /\ Last(s) \in S
         /\ Front(s) \in Seq(S)
         /\ Len(Front(s)) = Len(s) - 1
         /\ DOMAIN Front(s) = 1 .. Len(s) - 1
         /\ \A i \in 1 .. Len(s) - 1 : Front(s)[i] = s[i]
<1>1. Len(s) \in Nat \ {0} /\ DOMAIN s = 1 .. Len(s)
  BY EmptySeq
<1>2. \A i \in 1 .. Len(s) : s[i] \in S
  BY ElementOfSeq
<1>3. /\ SubSeq(s, 1, Len(s) - 1) \in Seq(S)
      /\ Len(SubSeq(s, 1, Len(s) - 1)) = Len(s) - 1
      /\ \A i \in 1 .. Len(s) - 1 : SubSeq(s, 1, Len(s) - 1)[i] = s[i]
  BY <1>1, <1>2, SubSeqProperties
<1>4. QED
  BY <1>1, <1>2, <1>3 DEF Front, Last

(* One more element at the end.                                            *)
LEMMA AppendShape ==
  ASSUME NEW S, NEW s \in Seq(S), NEW e \in S
  PROVE  /\ Append(s, e) \in Seq(S)
         /\ Len(Append(s, e)) = Len(s) + 1
         /\ DOMAIN Append(s, e) = 1 .. Len(s) + 1
         /\ \A i \in 1 .. Len(s) : Append(s, e)[i] = s[i]
         /\ Append(s, e)[Len(s) + 1] = e
OBVIOUS

(* The last element exchanged for another one.                             *)
LEMMA AppendFront ==
  ASSUME NEW S, NEW s \in Seq(S), s # <<>>, NEW e \in S
  PROVE  /\ Append(Front(s), e) \in Seq(S)
         /\ Len(Append(Front(s), e)) = Len(s)
         /\ DOMAIN Append(Front(s), e) = DOMAIN s
         /\ \A i \in DOMAIN s :
              Append(Front(s), e)[i] = IF i = Len(s) THEN e ELSE s[i]
<1> DEFINE f == Front(s)
<1>1. /\ Len(s) \in Nat \ {0} /\ DOMAIN s = 1 .. Len(s)
      /\ f \in Seq(S) /\ Len(f) = Len(s) - 1
      /\ \A i \in 1 .. Len(s) - 1 : f[i] = s[i]
  BY FrontShape
<1> HIDE DEF f
<1>2. /\ Append(f, e) \in Seq(S)
      /\ Len(Append(f, e)) = Len(f) + 1
      /\ \A i \in 1 .. Len(f) : Append(f, e)[i] = f[i]
      /\ Append(f, e)[Len(f) + 1] = e
  <2>1. f \in Seq(S) /\ e \in S
    BY <1>1
  <2>2. QED
    BY <2>1
<1>3. DOMAIN Append(f, e) = 1 .. Len(Append(f, e))
  BY <1>2, LenProperties
<1>4. Len(f) + 1 = Len(s)
  BY <1>1
<1>5. \A i \in DOMAIN s : Append(f, e)[i] = IF i = Len(s) THEN e ELSE s[i]
  BY <1>1, <1>2, <1>4
<1>6. QED
  BY <1>1, <1>2, <1>3, <1>4, <1>5 DEF f

(* The frames after the last one has moved on.                             *)
LEMMA AdvancedShape ==
  ASSUME TypeOK, work # <<>>, NEW w \in Node
  PROVE  /\ Advanced(w) \in Seq(Node \X SUBSET Node)
         /\ Len(Advanced(w)) = Len(work)
         /\ DOMAIN Advanced(w) = DOMAIN work
         /\ \A i \in DOMAIN work :
              Advanced(w)[i] = IF i = Len(work) THEN <<work[i][1], work[i][2] \cup {w}>>
                               ELSE work[i]
<1> DEFINE F == Node \X SUBSET Node
           last == <<top[1], top[2] \cup {w}>>
<1>1. work \in Seq(F)
  BY DEF TypeOK
<1>2. top = work[Len(work)] /\ top \in F
  BY <1>1, FrontShape DEF top
<1>3. last \in F
  BY <1>2
<1>4. last = <<work[Len(work)][1], work[Len(work)][2] \cup {w}>>
  BY <1>2
<1> HIDE DEF F, last
<1>5. /\ Append(Front(work), last) \in Seq(F)
      /\ Len(Append(Front(work), last)) = Len(work)
      /\ DOMAIN Append(Front(work), last) = DOMAIN work
      /\ \A i \in DOMAIN work :
           Append(Front(work), last)[i] = IF i = Len(work) THEN last ELSE work[i]
  BY <1>1, <1>3, AppendFront
<1>6. Advanced(w) = Append(Front(work), last)
  BY DEF Advanced, last
<1>7. QED
  BY <1>4, <1>5, <1>6 DEF F

-----------------------------------------------------------------------------
(* What the last frame stands for.                                         *)
LEMMA TopFrame ==
  ASSUME TypeOK, work # <<>>
  PROVE  /\ Len(work) \in DOMAIN work /\ Len(work) \in Nat
         /\ DOMAIN work = 1 .. Len(work)
         /\ top = work[Len(work)]
         /\ top[1] \in Node /\ top[2] \subseteq Node
         /\ \A i \in DOMAIN work : work[i][1] \in Node /\ work[i][2] \subseteq Node
<1>1. work \in Seq(Node \X SUBSET Node)
  BY DEF TypeOK
<1>2. /\ Len(work) \in Nat \ {0} /\ DOMAIN work = 1 .. Len(work)
      /\ top = work[Len(work)]
  BY <1>1, FrontShape, LenProperties DEF top
<1>3. \A i \in 1 .. Len(work) : work[i] \in Node \X SUBSET Node
  BY <1>1, ElementOfSeq
<1>4. QED
  BY <1>2, <1>3

(* The values that Open puts into the two maps.                            *)
LEMMA OpenMaps ==
  ASSUME TypeOK, Open
  PROVE  /\ top[1] \in Node \ Discovered
         /\ Discovered' = Discovered \cup {top[1]}
         /\ \A x \in Discovered : index'[x] = index[x] /\ lowlink'[x] = lowlink[x]
         /\ index'[top[1]] = counter /\ lowlink'[top[1]] = counter
         /\ DOMAIN lowlink' = Discovered'
BY TopFrame DEF Open, With, Discovered, TypeOK

(* They are functions still.                                               *)
LEMMA OpenFunctions ==
  ASSUME Open
  PROVE  /\ index' = [x \in DOMAIN index' |-> index'[x]]
         /\ lowlink' = [x \in DOMAIN lowlink' |-> lowlink'[x]]
BY DEF Open, With

(* The part of the stack popped with v is what was discovered since v.     *)
LEMMA EmitSplits ==
  ASSUME TypeOK, StackInv, NEW v \in on_stack, Emit(v)
  PROVE  LET C == {x \in on_stack : index[v] <= index[x]}
         IN  /\ components' = Append(components, C)
             /\ C \in SUBSET Node
             /\ on_stack' = on_stack \ C
             /\ tarjan_stack' \in Seq(Node)
             /\ on_stack' = ToSet(tarjan_stack')
             /\ Len(tarjan_stack') <= Len(tarjan_stack)
             /\ \A i \in DOMAIN tarjan_stack' : tarjan_stack'[i] = tarjan_stack[i]
<1> DEFINE ts == tarjan_stack
           from == CHOOSE i \in DOMAIN ts : ts[i] = v
           C == {x \in on_stack : index[v] <= index[x]}
           popped == SubSeq(ts, from, Len(ts))
           rest == SubSeq(ts, 1, from - 1)
<1>1. ts \in Seq(Node) /\ DOMAIN ts = 1 .. Len(ts) /\ Len(ts) \in Nat
  BY LenProperties DEF TypeOK
<1>2. from \in DOMAIN ts /\ ts[from] = v
  BY DEF StackInv, ToSet
<1>3. \A i \in 1 .. Len(ts) : ts[i] \in Node /\ ts[i] \in on_stack /\ index[ts[i]] \in Nat
  <2>1. \A i \in 1 .. Len(ts) : ts[i] \in Node /\ ts[i] \in on_stack
    BY <1>1, ElementOfSeq DEF StackInv, ToSet
  <2>2. \A x \in on_stack : index[x] \in Nat
    BY DEF TypeOK
  <2>3. QED
    BY <2>1, <2>2
<1>4. \A i, j \in 1 .. Len(ts) : i < j => index[ts[i]] < index[ts[j]]
  BY <1>1 DEF StackInv
<1> HIDE DEF from
<1>5. /\ popped \in Seq(Node) /\ Len(popped) = Len(ts) - from + 1
      /\ \A i \in 1 .. Len(ts) - from + 1 : popped[i] = ts[from + i - 1]
  <2>1. from \in Int /\ Len(ts) \in Int /\ from <= Len(ts) /\ 1 <= from
    BY <1>1, <1>2
  <2>2. \A i \in from .. Len(ts) : ts[i] \in Node
    BY <1>3, <2>1
  <2>3. QED
    BY <2>1, <2>2, SubSeqProperties
<1>6. /\ rest \in Seq(Node) /\ Len(rest) = from - 1
      /\ \A i \in 1 .. from - 1 : rest[i] = ts[i]
  <2>1. from - 1 \in Int /\ from \in Int /\ 1 <= from /\ from <= Len(ts)
    BY <1>1, <1>2
  <2>2. \A i \in 1 .. from - 1 : ts[i] \in Node
    BY <1>1, <1>3, <2>1
  <2>3. /\ rest \in Seq(Node) /\ Len(rest) = IF 1 <= from - 1 THEN from - 1 - 1 + 1 ELSE 0
        /\ \A i \in 1 .. from - 1 - 1 + 1 : rest[i] = ts[1 + i - 1]
    BY <2>1, <2>2, SubSeqProperties
  <2>4. QED
    BY <2>1, <2>3
<1>7. DOMAIN popped = 1 .. Len(ts) - from + 1 /\ DOMAIN rest = 1 .. from - 1
  BY <1>5, <1>6, LenProperties
<1> HIDE DEF popped, rest
<1>8. ToSet(popped) = C
  <2>1. ASSUME NEW i \in 1 .. Len(ts) - from + 1
        PROVE  popped[i] \in C
    <3>1. from + i - 1 \in 1 .. Len(ts) /\ (from + i - 1 = from \/ from < from + i - 1)
      BY <1>1, <1>2
    <3>2. ts[from + i - 1] \in on_stack /\ index[v] <= index[ts[from + i - 1]]
      BY <1>1, <1>2, <1>3, <1>4, <3>1
    <3>3. QED
      BY <1>5, <3>2
  <2>2. ASSUME NEW x \in C
        PROVE  \E i \in 1 .. Len(ts) - from + 1 : popped[i] = x
    <3>1. PICK j \in 1 .. Len(ts) : ts[j] = x
      BY <1>1 DEF StackInv, ToSet
    <3>2. from <= j
      BY <1>1, <1>2, <1>3, <1>4, <3>1
    <3>3. j - from + 1 \in 1 .. Len(ts) - from + 1 /\ from + (j - from + 1) - 1 = j
      BY <1>1, <1>2, <3>1, <3>2
    <3>4. popped[j - from + 1] = x
      BY <1>5, <3>1, <3>3
    <3>5. QED
      BY <3>3, <3>4
  <2>3. QED
    BY <1>7, <2>1, <2>2 DEF ToSet
<1>9. ToSet(rest) = on_stack \ C
  <2>1. ASSUME NEW i \in 1 .. from - 1
        PROVE  rest[i] \in on_stack \ C
    <3>1. i \in 1 .. Len(ts) /\ i < from /\ from \in 1 .. Len(ts)
      BY <1>1, <1>2
    <3>2. index[ts[i]] < index[v] /\ ts[i] \in on_stack /\ index[ts[i]] \in Nat /\ index[v] \in Nat
      BY <1>2, <1>3, <1>4, <3>1
    <3>3. QED
      BY <1>6, <3>2
  <2>2. ASSUME NEW x \in on_stack \ C
        PROVE  \E i \in 1 .. from - 1 : rest[i] = x
    <3>1. PICK j \in 1 .. Len(ts) : ts[j] = x
      BY <1>1 DEF StackInv, ToSet
    <3>2. j < from
      BY <1>1, <1>2, <1>3, <1>4, <3>1
    <3>3. j \in 1 .. from - 1
      BY <1>1, <1>2, <3>1, <3>2
    <3>4. QED
      BY <1>6, <3>1, <3>3
  <2>3. QED
    BY <1>7, <2>1, <2>2 DEF ToSet
<1>10. PoppedWith(v) = popped
  BY DEF PoppedWith, popped, from
<1>11. tarjan_stack' = rest
  <2>1. Len(ts) - Len(popped) = from - 1
    BY <1>1, <1>2, <1>5
  <2>2. tarjan_stack' = SubSeq(ts, 1, Len(ts) - Len(popped))
    BY <1>10 DEF Emit
  <2>3. QED
    BY <2>1, <2>2 DEF rest
<1>12. components' = Append(components, C) /\ on_stack' = on_stack \ C
  BY <1>8, <1>10 DEF Emit
<1>13. C \in SUBSET Node /\ Len(rest) <= Len(ts)
  BY <1>1, <1>2, <1>6 DEF TypeOK
<1>14. QED
  BY <1>6, <1>7, <1>9, <1>11, <1>12, <1>13

-----------------------------------------------------------------------------
(* What the graph says of itself: nodes depend on nodes.                   *)
LEMMA GraphFacts ==
  ASSUME TypeOK
  PROVE  /\ DOMAIN adj = Node
         /\ \A x \in Node : adj[x] \subseteq Node
         /\ on_stack \subseteq Discovered /\ Discovered \subseteq Node
         /\ \A x \in Discovered : index[x] \in Nat /\ lowlink[x] \in Nat
BY DEF TypeOK

(* The node of an opened last frame is the latest on the path.             *)
LEMMA PathTop ==
  ASSUME TypeOK, WorkInv, work # <<>>, top[1] \in Discovered
  PROVE  /\ top[1] \in Path /\ top[1] \in on_stack
         /\ \A i \in DOMAIN work :
              i # Len(work) => work[i][1] # top[1] /\ index[work[i][1]] < index[top[1]]
         /\ \A y \in Path : y = top[1] \/ index[y] < index[top[1]]
<1>1. /\ Len(work) \in DOMAIN work /\ Len(work) \in Nat
      /\ DOMAIN work = 1 .. Len(work) /\ top = work[Len(work)]
  BY TopFrame
<1>2. \A i \in DOMAIN work :
         i # Len(work) => i < Len(work) /\ index[work[i][1]] < index[top[1]]
  BY <1>1 DEF WorkInv
<1>3. top[1] \in on_stack /\ index[top[1]] \in Nat
  BY <1>1, GraphFacts DEF WorkInv
<1>4. QED
  BY <1>1, <1>2, <1>3 DEF Path

(* Positions below the last one.                                           *)
LEMMA BelowLast ==
  ASSUME NEW n \in Nat, NEW i \in 1 .. n, i # n
  PROVE  /\ n > 1 /\ n - 1 \in 1 .. n /\ n - 1 < n /\ n - 1 # n
         /\ i \in 1 .. n - 1 /\ (i = n - 1 \/ i < n - 1)
OBVIOUS

(* The frame below the last one is open, and its node depends on the       *)
(* node of the last one.                                                   *)
LEMMA PathParent ==
  ASSUME TypeOK, WorkInv, work # <<>>, NEW y \in Path, y # top[1]
  PROVE  LET p == work[Len(work) - 1][1]
         IN  /\ Len(work) - 1 \in DOMAIN work
             /\ p \in Path /\ p \in on_stack /\ p # top[1]
             /\ top[1] \in adj[p]
             /\ index[y] <= index[p]
<1> DEFINE k == Len(work) - 1
<1>1. /\ Len(work) \in DOMAIN work /\ Len(work) \in Nat
      /\ DOMAIN work = 1 .. Len(work) /\ top = work[Len(work)]
  BY TopFrame
<1>2. PICK i \in DOMAIN work : work[i][1] = y
  BY DEF Path
<1>3. i # Len(work)
  BY <1>1, <1>2
<1>4. /\ i \in 1 .. k /\ k \in DOMAIN work /\ k < Len(work) /\ k # Len(work) /\ Len(work) > 1
      /\ (i = k \/ i < k)
  BY <1>1, <1>3, BelowLast
<1>5. work[k][1] \in Discovered /\ work[k][1] \in on_stack
  BY <1>4 DEF WorkInv
<1>6. index[y] <= index[work[k][1]]
  <2>1. CASE i = k
    BY <1>2, <1>5, <2>1, GraphFacts
  <2>2. CASE i # k
    <3>1. i < k
      BY <1>4, <2>2
    <3>2. index[work[i][1]] < index[work[k][1]]
      BY <1>4, <1>5, <3>1 DEF WorkInv
    <3>3. index[y] \in Nat /\ index[work[k][1]] \in Nat
      BY <1>5, GraphFacts DEF Path
    <3>4. QED
      BY <1>2, <3>2, <3>3
  <2>3. QED
    BY <2>1, <2>2
<1>7. top[1] \in adj[work[k][1]]
  <2>2. work[Len(work)][1] \in work[Len(work) - 1][2]
    BY <1>1, <1>4 DEF WorkInv
  <2>3. work[k][2] \subseteq adj[work[k][1]]
    BY <1>4 DEF WorkInv
  <2>4. QED
    BY <1>1, <2>2, <2>3
<1>8. work[k][1] # top[1]
  <2>1. CASE top[1] \in Discovered
    BY <1>4, <2>1, PathTop
  <2>2. CASE top[1] \notin Discovered
    BY <1>5, <2>2
  <2>3. QED
    BY <2>1, <2>2
<1>9. work[k][1] \in Path
  BY <1>4, <1>5 DEF Path
<1>10. QED
  BY <1>4, <1>5, <1>6, <1>7, <1>8, <1>9

-----------------------------------------------------------------------------
(* Beginning a search from start: nothing is on the stack.                 *)
LEMMA StartKeeps ==
  ASSUME SearchInv, NEW start \in Node, StartAt(start)
  PROVE  SearchInv'
<1> USE DEF SearchInv
<1>1. /\ work' = <<<<start, {}>>>> /\ start \notin Discovered /\ work = <<>>
      /\ UNCHANGED <<adj, counter, index, lowlink, on_stack, tarjan_stack, components>>
      /\ Discovered' = Discovered /\ Done' = Done
  BY DEF StartAt, Discovered, Done
<1>2. Len(work') = 1 /\ DOMAIN work' = {1} /\ work'[1] = <<start, {}>>
  BY <1>1
<1>3. Path = {} /\ Path' = {}
  BY <1>1, <1>2 DEF Path
<1>4. on_stack = {}
  BY <1>3 DEF NeedsInv
<1>5. TypeOK'
  BY <1>1 DEF TypeOK, Discovered
<1>6. StackInv'
  BY <1>1 DEF StackInv
<1>7. WorkInv'
  BY <1>1, <1>2 DEF WorkInv
<1>8. ClosedInv' /\ NeedsInv' /\ LowlinkInv'
  BY <1>1, <1>3, <1>4 DEF ClosedInv, NeedsInv, LowlinkInv
<1>9. EmittedInv' /\ DependenciesFirst' /\ WholeCycles'
  BY <1>1 DEF EmittedInv, DependenciesFirst, WholeCycles, Emitted
<1>10. QED
  BY <1>5, <1>6, <1>7, <1>8, <1>9

-----------------------------------------------------------------------------
(* Opening the last frame: its node is needed by all of the path.          *)
LEMMA OpenKeeps ==
  ASSUME SearchInv, Open
  PROVE  SearchInv'
<1> DEFINE v == top[1]
<1> USE DEF SearchInv
<1>1. /\ v \in Node \ Discovered
      /\ Discovered' = Discovered \cup {v}
      /\ \A x \in Discovered : index'[x] = index[x] /\ lowlink'[x] = lowlink[x]
      /\ index'[v] = counter /\ lowlink'[v] = counter
      /\ DOMAIN lowlink' = Discovered'
  BY OpenMaps
<1>2. /\ work # <<>> /\ UNCHANGED <<adj, work, components>>
      /\ tarjan_stack' = Append(tarjan_stack, v)
      /\ on_stack' = on_stack \cup {v}
      /\ counter' = counter + 1
  BY DEF Open
<1>3. /\ Len(work) \in DOMAIN work /\ Len(work) \in Nat
      /\ DOMAIN work = 1 .. Len(work)
      /\ work[Len(work)][1] = v
  BY <1>2, TopFrame
<1>4. /\ counter \in Nat
      /\ \A x \in Discovered :
           /\ index[x] \in Nat /\ lowlink[x] \in Nat
           /\ index[x] < counter /\ lowlink[x] < counter
  BY DEF TypeOK
<1>5. /\ DOMAIN adj = Node /\ \A x \in Node : adj[x] \subseteq Node
      /\ on_stack \subseteq Discovered /\ Discovered \subseteq Node
  BY GraphFacts
<1>6. Path' = Path \cup {v}
  BY <1>1, <1>2, <1>3 DEF Path
<1>7. Path \subseteq Discovered /\ Path \subseteq on_stack
  BY DEF Path, WorkInv
<1>8. Done' = Done /\ Discovered' \ Path' = Discovered \ Path
  BY <1>1, <1>2, <1>5, <1>6, <1>7 DEF Done
<1>9. work[Len(work)][2] = {}
  BY <1>1, <1>3 DEF WorkInv
<1> HIDE DEF v
<1>10. TypeOK'
  <2>1. index' \in [Discovered' -> 0 .. counter' - 1] /\ lowlink' \in [Discovered' -> 0 .. counter' - 1]
    <3>1. \A x \in Discovered' : index'[x] \in 0 .. counter' - 1 /\ lowlink'[x] \in 0 .. counter' - 1
      BY <1>1, <1>2, <1>4
    <3>2. DOMAIN index' = Discovered' /\ DOMAIN lowlink' = Discovered'
      BY <1>1 DEF Discovered
    <3>3. index' = [x \in Discovered' |-> index'[x]] /\ lowlink' = [x \in Discovered' |-> lowlink'[x]]
      BY <3>2, OpenFunctions
    <3>4. QED
      BY <3>1, <3>3
  <2>2. tarjan_stack' \in Seq(Node)
    BY <1>1, <1>2 DEF TypeOK
  <2>3. /\ adj' \in [Node -> SUBSET Node] /\ counter' \in Nat
        /\ Discovered' \subseteq Node /\ on_stack' \subseteq Discovered'
        /\ work' \in Seq(Node \X SUBSET Node) /\ components' \in Seq(SUBSET Node)
    BY <1>1, <1>2, <1>4, <1>5 DEF TypeOK
  <2>4. QED
    BY <2>1, <2>2, <2>3 DEF TypeOK
<1>11. StackInv'
  <2>1. tarjan_stack \in Seq(Node)
    BY DEF TypeOK
  <2>2. /\ DOMAIN tarjan_stack = 1 .. Len(tarjan_stack) /\ Len(tarjan_stack) \in Nat
        /\ DOMAIN tarjan_stack' = 1 .. Len(tarjan_stack) + 1
        /\ \A i \in 1 .. Len(tarjan_stack) : tarjan_stack'[i] = tarjan_stack[i]
        /\ tarjan_stack'[Len(tarjan_stack) + 1] = v
    BY <1>1, <1>2, <2>1
  <2>3. \A i \in 1 .. Len(tarjan_stack) : tarjan_stack[i] \in on_stack
    BY <2>2 DEF StackInv, ToSet
  <2>4. \A i \in DOMAIN tarjan_stack' :
           \/ i \in 1 .. Len(tarjan_stack)
           \/ i = Len(tarjan_stack) + 1
    BY <2>2
  <2>5. on_stack' = ToSet(tarjan_stack')
    <3>1. on_stack = {tarjan_stack[i] : i \in 1 .. Len(tarjan_stack)}
      BY <2>2 DEF StackInv, ToSet
    <3>2. {tarjan_stack'[i] : i \in 1 .. Len(tarjan_stack) + 1}
            = {tarjan_stack[i] : i \in 1 .. Len(tarjan_stack)} \cup {v}
      BY <2>2, <2>4
    <3>3. QED
      BY <1>2, <2>2, <3>1, <3>2 DEF ToSet
  <2>6. \A x, y \in Discovered' : index'[x] = index'[y] => x = y
    BY <1>1, <1>4 DEF StackInv
  <2>7. ASSUME NEW i \in DOMAIN tarjan_stack', NEW j \in DOMAIN tarjan_stack', i < j
        PROVE  index'[tarjan_stack'[i]] < index'[tarjan_stack'[j]]
    <3>1. i \in 1 .. Len(tarjan_stack)
      BY <2>2, <2>7
    <3>2. CASE j \in 1 .. Len(tarjan_stack)
      BY <1>1, <1>5, <2>2, <2>3, <2>7, <3>1, <3>2 DEF StackInv
    <3>3. CASE j = Len(tarjan_stack) + 1
      BY <1>1, <1>4, <1>5, <2>2, <2>3, <3>1, <3>3
    <3>4. QED
      BY <2>4, <3>2, <3>3
  <2>8. QED
    BY <2>5, <2>6, <2>7 DEF StackInv
<1>12. WorkInv'
  <2>1. \A i \in DOMAIN work :
          /\ work[i][1] \in Discovered' => work[i][1] \in on_stack'
          /\ work[i][1] \notin Discovered' => i = Len(work) /\ work[i][2] = {}
          /\ work[i][2] \subseteq adj[work[i][1]]
    BY <1>1, <1>2 DEF WorkInv
  <2>2. ASSUME NEW i \in DOMAIN work, NEW j \in DOMAIN work, i < j,
               work[j][1] \in Discovered'
        PROVE  index'[work[i][1]] < index'[work[j][1]]
    <3>1. i # Len(work)
      BY <1>3, <2>2
    <3>2. work[i][1] \in Discovered
      BY <3>1 DEF WorkInv
    <3>3. CASE work[j][1] \in Discovered
      BY <1>1, <2>2, <3>2, <3>3 DEF WorkInv
    <3>4. CASE work[j][1] = v
      BY <1>1, <1>4, <3>2, <3>4
    <3>5. QED
      BY <1>1, <2>2, <3>3, <3>4
  <2>3. /\ \A i \in DOMAIN work : i > 1 => work[i][1] \in work[i - 1][2]
        /\ \A i \in DOMAIN work : \A w \in work[i][2] :
             w \in Discovered' \/ (i < Len(work) /\ w = work[i + 1][1])
    BY <1>1 DEF WorkInv
  <2>4. QED
    BY <1>2, <2>1, <2>2, <2>3 DEF WorkInv
<1>13. ClosedInv'
  BY <1>1, <1>2, <1>8 DEF ClosedInv
<1>14. NeedsInv'
  <2>1. v \in Needs(adj, v)
    BY <1>1, <1>5, NeedsSelf
  <2>2. ASSUME NEW y \in Path'
        PROVE  v \in Needs(adj, y)
    <3>1. CASE y = v
      BY <2>1, <3>1
    <3>2. CASE y # v
      <4>1. y \in Path /\ y # top[1]
        BY <1>6, <3>2 DEF v
      <4>2. PICK p \in Path : p \in on_stack /\ v \in adj[p] /\ index[y] <= index[p]
        BY <1>2, <4>1, PathParent DEF v
      <4>3. p \in Needs(adj, y)
        BY <4>1, <4>2 DEF NeedsInv
      <4>4. v \in Needs(adj, p)
        BY <1>5, <4>2, NeedsDeps
      <4>5. QED
        BY <4>3, <4>4, NeedsTransitive
    <3>3. QED
      BY <3>1, <3>2
  <2>3. ASSUME NEW y \in Path', NEW x \in on_stack', index'[y] <= index'[x]
        PROVE  x \in Needs(adj, y)
    <3>1. CASE x = v
      BY <2>2, <3>1
    <3>2. CASE x # v
      <4>1. x \in on_stack /\ x \in Discovered
        BY <1>2, <1>5, <3>2
      <4>2. y # v
        BY <1>1, <1>4, <2>3, <4>1
      <4>3. y \in Path /\ y \in Discovered
        BY <1>6, <1>7, <4>2
      <4>4. QED
        BY <1>1, <2>3, <4>1, <4>3 DEF NeedsInv
    <3>3. QED
      BY <3>1, <3>2
  <2>4. ASSUME NEW x \in on_stack'
        PROVE  \E y \in Path' : index'[y] <= index'[x] /\ y \in Needs(adj, x)
    <3>1. CASE x = v
      BY <1>1, <1>4, <1>6, <2>1, <3>1
    <3>2. CASE x # v
      <4>1. x \in on_stack /\ x \in Discovered
        BY <1>2, <1>5, <3>2
      <4>2. PICK y \in Path : index[y] <= index[x] /\ y \in Needs(adj, x)
        BY <4>1 DEF NeedsInv
      <4>3. index'[y] = index[y] /\ index'[x] = index[x]
        BY <1>1, <1>7, <4>1
      <4>4. QED
        BY <1>6, <4>2, <4>3
    <3>3. QED
      BY <3>1, <3>2
  <2>5. QED
    BY <1>2, <2>3, <2>4 DEF NeedsInv
<1>15. LowlinkInv'
  <2>1. ASSUME NEW y \in Path'
        PROVE  \E u \in on_stack' :
                 u \in Needs(adj, y) /\ lowlink'[y] = index'[u] /\ index'[u] <= index'[y]
    <3>1. CASE y = v
      BY <1>1, <1>2, <1>4, <1>5, <3>1, NeedsSelf
    <3>2. CASE y # v
      <4>1. y \in Path /\ y \in Discovered
        BY <1>6, <1>7, <3>2
      <4>2. PICK u \in on_stack :
              u \in Needs(adj, y) /\ lowlink[y] = index[u] /\ index[u] <= index[y]
        BY <4>1 DEF LowlinkInv
      <4>3. QED
        BY <1>1, <1>2, <1>5, <4>1, <4>2
    <3>3. QED
      BY <3>1, <3>2
  <2>2. \A y \in Path' : lowlink'[y] <= index'[y] /\ index'[y] <= counter /\ index'[y] \in Nat
    <3>1. \A y \in Path' : lowlink'[y] <= index'[y]
      BY <2>1
    <3>2. \A y \in Path' : index'[y] <= counter /\ index'[y] \in Nat
      BY <1>1, <1>4, <1>6, <1>7
    <3>3. QED
      BY <3>1, <3>2
  <2>3. ASSUME NEW y \in Path', NEW x \in on_stack', NEW w \in adj[x] \cap on_stack',
               index'[y] <= index'[x], Looked(x, w)
        PROVE  \E u \in Path' : index'[y] <= index'[u] /\ lowlink'[u] <= index'[w]
    <3>1. CASE w = v
      <4>1. lowlink'[y] \in Nat
        BY <1>1, <1>4, <1>6, <1>7
      <4>2. QED
        BY <1>1, <1>4, <2>2, <3>1, <4>1
    <3>2. CASE w # v /\ x = v
      BY <1>3, <1>9, <2>3, <3>2 DEF Looked
    <3>3. CASE w # v /\ x # v
      <4>1. x \in on_stack /\ w \in on_stack /\ x \in Discovered /\ w \in Discovered
        BY <1>2, <1>5, <3>3
      <4>2. y # v
        BY <1>1, <1>4, <2>3, <4>1
      <4>3. y \in Path /\ y \in Discovered
        BY <1>6, <1>7, <4>2
      <4>4. PICK u \in Path : index[y] <= index[u] /\ lowlink[u] <= index[w]
        BY <1>1, <2>3, <4>1, <4>3 DEF LowlinkInv
      <4>5. QED
        BY <1>1, <1>6, <1>7, <4>1, <4>3, <4>4
    <3>4. QED
      BY <3>1, <3>2, <3>3
  <2>4. \A x, w : Looked(x, w)' = Looked(x, w)
    BY <1>2 DEF Looked
  <2>5. QED
    BY <1>2, <2>1, <2>3, <2>4 DEF LowlinkInv
<1>16. EmittedInv' /\ DependenciesFirst' /\ WholeCycles'
  BY <1>2, <1>8 DEF EmittedInv, DependenciesFirst, WholeCycles, Emitted
<1>17. QED
  BY <1>10, <1>11, <1>12, <1>13, <1>14, <1>15, <1>16

-----------------------------------------------------------------------------
(* The last frame moves past its child w: what was looked at before was    *)
(* looked at, and nothing new but that one edge.                           *)
LEMMA AdvancedFrames ==
  ASSUME SearchInv, NEW w \in Node, Looks(w)
  PROVE  /\ work # <<>> /\ top[1] \in Discovered /\ w \in adj[top[1]]
         /\ Len(work) \in DOMAIN work /\ Len(work) \in Nat /\ DOMAIN work = 1 .. Len(work)
         /\ top = work[Len(work)]
         /\ Len(Advanced(w)) = Len(work) /\ DOMAIN Advanced(w) = DOMAIN work
         /\ Advanced(w) \in Seq(Node \X SUBSET Node)
         /\ \A i \in DOMAIN work : Advanced(w)[i][1] = work[i][1]
         /\ \A i \in DOMAIN work : i # Len(work) => Advanced(w)[i] = work[i]
         /\ Advanced(w)[Len(work)][2] = top[2] \cup {w}
<1>1. TypeOK /\ work # <<>> /\ top[1] \in Discovered /\ w \in adj[top[1]]
  BY DEF Looks, succ, SearchInv
<1>2. /\ Len(work) \in DOMAIN work /\ Len(work) \in Nat /\ DOMAIN work = 1 .. Len(work)
      /\ top = work[Len(work)]
  BY <1>1, TopFrame
<1>3. /\ Advanced(w) \in Seq(Node \X SUBSET Node)
      /\ Len(Advanced(w)) = Len(work)
      /\ DOMAIN Advanced(w) = DOMAIN work
      /\ \A i \in DOMAIN work :
           Advanced(w)[i] = IF i = Len(work) THEN <<work[i][1], work[i][2] \cup {w}>>
                            ELSE work[i]
  BY <1>1, AdvancedShape
<1>4. \A i \in DOMAIN work : Advanced(w)[i][1] = work[i][1]
  BY <1>3
<1>5. QED
  BY <1>1, <1>2, <1>3, <1>4

-----------------------------------------------------------------------------
(* Going down to an undiscovered child.                                    *)
LEMMA DescendKeeps ==
  ASSUME SearchInv, NEW w \in Node, Descend(w)
  PROVE  SearchInv'
<1> DEFINE n == Len(work)
           a == Advanced(w)
<1> USE DEF SearchInv
<1>1. /\ Looks(w) /\ w \notin Discovered
      /\ work' = Append(a, <<w, {}>>)
      /\ UNCHANGED <<adj, counter, index, lowlink, on_stack, tarjan_stack, components>>
  BY DEF Descend
<1>2. /\ work # <<>> /\ top[1] \in Discovered /\ w \in adj[top[1]]
      /\ n \in DOMAIN work /\ n \in Nat /\ DOMAIN work = 1 .. n
      /\ top = work[n]
      /\ Len(a) = n /\ DOMAIN a = DOMAIN work
      /\ a \in Seq(Node \X SUBSET Node)
      /\ \A i \in DOMAIN work : a[i][1] = work[i][1]
      /\ \A i \in DOMAIN work : i # n => a[i] = work[i]
      /\ a[n][2] = top[2] \cup {w}
  BY <1>1, AdvancedFrames
<1> HIDE DEF a
<1>3. /\ work' \in Seq(Node \X SUBSET Node)
      /\ Len(work') = n + 1 /\ DOMAIN work' = 1 .. n + 1
      /\ \A i \in 1 .. n : work'[i] = a[i]
      /\ work'[n + 1] = <<w, {}>>
  <2>1. <<w, {}>> \in Node \X SUBSET Node
    OBVIOUS
  <2>2. a \in Seq(Node \X SUBSET Node) /\ Len(a) = n
    BY <1>2
  <2>3. QED
    BY <1>1, <2>1, <2>2, AppendShape
<1>4. Discovered' = Discovered /\ Done' = Done
  BY <1>1 DEF Discovered, Done
<1>5. \A i \in 1 .. n + 1 : i \in 1 .. n \/ i = n + 1
  BY <1>2
<1>6. \A i \in 1 .. n : i \in 1 .. n + 1 /\ i # n + 1 /\ i < n + 1 /\ (i = n \/ i < n)
  <2> HIDE DEF n
  <2>1. n \in Nat
    BY <1>2
  <2>2. QED
    BY <2>1
<1>7. n + 1 \in 1 .. n + 1 /\ n \in 1 .. n /\ n + 1 \in Nat /\ (n + 1) - 1 = n
  BY <1>2
<1>8. ASSUME NEW i \in 1 .. n
      PROVE  work'[i][1] = work[i][1] /\ (i # n => work'[i] = work[i])
  <2>1. i \in DOMAIN work /\ work'[i] = a[i]
    BY <1>2, <1>3
  <2>2. a[i][1] = work[i][1] /\ (i # n => a[i] = work[i])
    BY <1>2, <2>1
  <2>3. QED
    BY <2>1, <2>2
<1>9. work'[n][2] = work[n][2] \cup {w} /\ work[n][1] \in Discovered
  BY <1>2, <1>3, <1>7
<1>10. Path' = Path
  <2>1. ASSUME NEW x \in Path'
        PROVE  x \in Path
    <3>1. x \in Discovered /\ x # w
      BY <1>1, <1>4 DEF Path
    <3>2. PICK i \in 1 .. n + 1 : work'[i][1] = x
      BY <1>3 DEF Path
    <3>3. i # n + 1
      BY <1>3, <3>1, <3>2
    <3>4. i \in 1 .. n
      BY <1>5, <3>3
    <3>5. QED
      BY <1>2, <1>8, <3>1, <3>2, <3>4 DEF Path
  <2>2. ASSUME NEW x \in Path
        PROVE  x \in Path'
    <3>1. PICK i \in 1 .. n : work[i][1] = x
      BY <1>2 DEF Path
    <3>2. i \in DOMAIN work' /\ work'[i][1] = x
      BY <1>3, <1>6, <1>8, <3>1
    <3>3. QED
      BY <1>4, <3>2 DEF Path
  <2>3. QED
    BY <2>1, <2>2
<1> HIDE DEF n
<1>11. TypeOK'
  BY <1>1, <1>3, <1>4 DEF TypeOK
<1>12. StackInv'
  BY <1>1, <1>4 DEF StackInv
<1>13. WorkInv'
  <2>1. ASSUME NEW i \in 1 .. n + 1
        PROVE  /\ work'[i][1] \in Discovered => work'[i][1] \in on_stack
               /\ work'[i][1] \notin Discovered => i = n + 1 /\ work'[i][2] = {}
               /\ work'[i][2] \subseteq adj[work'[i][1]]
    <3>1. CASE i = n + 1
      BY <1>1, <1>3, <3>1
    <3>2. CASE i \in 1 .. n
      <4>1. i \in DOMAIN work /\ (i = Len(work) <=> i = n)
        BY <1>2, <3>2 DEF n
      <4>2. /\ work[i][1] \in Discovered => work[i][1] \in on_stack
            /\ work[i][1] \notin Discovered => i = n
            /\ work[i][2] \subseteq adj[work[i][1]]
        BY <4>1 DEF WorkInv
      <4>3. CASE i = n
        BY <1>2, <1>8, <1>9, <3>2, <4>2, <4>3
      <4>4. CASE i # n
        BY <1>8, <3>2, <4>2, <4>4
      <4>5. QED
        BY <4>3, <4>4
    <3>3. QED
      BY <1>5, <3>1, <3>2
  <2>2. ASSUME NEW i \in 1 .. n + 1, NEW j \in 1 .. n + 1, i < j,
               work'[j][1] \in Discovered
        PROVE  index[work'[i][1]] < index[work'[j][1]]
    <3>1. j # n + 1
      BY <1>1, <1>3, <2>2
    <3>2. i \in 1 .. n /\ j \in 1 .. n
      BY <1>2, <2>2, <3>1
    <3>3. QED
      BY <1>2, <1>8, <2>2, <3>2 DEF WorkInv
  <2>3. ASSUME NEW i \in 1 .. n + 1, i > 1
        PROVE  work'[i][1] \in work'[i - 1][2]
    <3>1. CASE i = n + 1
      BY <1>3, <1>7, <1>9, <3>1
    <3>2. CASE i \in 1 .. n
      <4>1. i - 1 \in 1 .. n /\ i - 1 # n
        BY <1>2, <2>3, <3>2
      <4>2. work[i][1] \in work[i - 1][2]
        BY <1>2, <2>3, <3>2 DEF WorkInv
      <4>3. QED
        BY <1>8, <3>2, <4>1, <4>2
    <3>3. QED
      BY <1>5, <3>1, <3>2
  <2>4. ASSUME NEW i \in 1 .. n + 1, NEW x \in work'[i][2]
        PROVE  x \in Discovered \/ (i < n + 1 /\ x = work'[i + 1][1])
    <3>1. CASE i = n + 1
      BY <1>3, <2>4, <3>1
    <3>2. CASE i \in 1 .. n /\ i = n
      <4>1. x \in work[n][2] \/ x = w
        BY <1>9, <2>4, <3>2
      <4>2. x \in work[n][2] => x \in Discovered
        <5>1. ~(n < Len(work)) /\ n \in DOMAIN work
          BY <1>2 DEF n
        <5>2. QED
          BY <5>1 DEF WorkInv
      <4>3. QED
        BY <1>3, <1>6, <3>2, <4>1, <4>2
    <3>3. CASE i \in 1 .. n /\ i # n
      <4>1. i + 1 \in 1 .. n /\ i < n + 1 /\ i \in DOMAIN work
        BY <1>2, <3>3
      <4>2. x \in Discovered \/ x = work[i + 1][1]
        BY <1>8, <2>4, <3>3, <4>1 DEF WorkInv
      <4>3. QED
        BY <1>8, <4>1, <4>2
    <3>4. QED
      BY <1>5, <3>1, <3>2, <3>3
  <2>5. QED
    BY <1>1, <1>3, <1>4, <2>1, <2>2, <2>3, <2>4 DEF WorkInv
<1>14. ClosedInv' /\ NeedsInv'
  BY <1>1, <1>4, <1>10 DEF ClosedInv, NeedsInv
<1>15. LowlinkInv'
  <2>1. ASSUME NEW x \in on_stack, NEW z \in on_stack, Looked(x, z)'
        PROVE  Looked(x, z)
    <3>1. z # w
      BY <1>1, GraphFacts
    <3>2. ASSUME NEW i \in DOMAIN work, work[i][1] = x
          PROVE  z \in work[i][2]
      <4>1. i \in 1 .. n /\ i \in DOMAIN work'
        BY <1>2, <1>3, <1>6
      <4>2. z \in work'[i][2]
        BY <1>8, <2>1, <3>2, <4>1 DEF Looked
      <4>3. QED
        BY <1>8, <1>9, <3>1, <4>1, <4>2
    <3>3. QED
      BY <3>2 DEF Looked
  <2>2. QED
    BY <1>1, <1>10, <2>1 DEF LowlinkInv
<1>16. EmittedInv' /\ DependenciesFirst' /\ WholeCycles'
  BY <1>1, <1>4 DEF EmittedInv, DependenciesFirst, WholeCycles, Emitted
<1>17. QED
  BY <1>11, <1>12, <1>13, <1>14, <1>15, <1>16

-----------------------------------------------------------------------------
(* Looking at a child that is discovered: when it is on the stack, the low *)
(* link accounts for the edge.                                             *)
LEMMA SkipKeeps ==
  ASSUME SearchInv, NEW w \in Node, Skip(w)
  PROVE  SearchInv'
<1> DEFINE n == Len(work)
           v == top[1]
<1> USE DEF SearchInv
<1>1. /\ Looks(w) /\ w \in Discovered
      /\ lowlink' = IF w \in on_stack
                    THEN [lowlink EXCEPT ![v] = LesserOf(@, index[w])]
                    ELSE lowlink
      /\ work' = Advanced(w)
      /\ UNCHANGED <<adj, counter, index, on_stack, tarjan_stack, components>>
  BY DEF Skip
<1>2. /\ work # <<>> /\ v \in Discovered /\ w \in adj[v]
      /\ n \in DOMAIN work /\ n \in Nat /\ DOMAIN work = 1 .. n
      /\ top = work[n]
      /\ Len(work') = n /\ DOMAIN work' = DOMAIN work
      /\ work' \in Seq(Node \X SUBSET Node)
      /\ \A i \in DOMAIN work : work'[i][1] = work[i][1]
      /\ \A i \in DOMAIN work : i # n => work'[i] = work[i]
      /\ work'[n][2] = top[2] \cup {w}
  BY <1>1, AdvancedFrames
<1>3. Discovered' = Discovered /\ Done' = Done
  BY <1>1 DEF Discovered, Done
<1>4. Path' = Path
  BY <1>2, <1>3 DEF Path
<1>5. /\ v \in Path /\ v \in on_stack
      /\ \A y \in Path : y = v \/ index[y] < index[v]
  BY <1>2, PathTop
<1>6. \A i \in DOMAIN work : \A x \in work'[i][2] : x \in work[i][2] \/ (i = n /\ x = w)
  BY <1>2
<1>7. \A x \in Discovered : index[x] \in Nat /\ lowlink[x] \in Nat
  BY GraphFacts
<1>8. /\ \A x \in Discovered : lowlink'[x] <= lowlink[x] /\ lowlink'[x] \in Nat
      /\ \A x \in Discovered : x # v => lowlink'[x] = lowlink[x]
      /\ w \in on_stack => lowlink'[v] <= index[w]
      /\ lowlink'[v] = lowlink[v] \/ (w \in on_stack /\ lowlink'[v] = index[w] /\ index[w] < lowlink[v])
  <2>1. DOMAIN lowlink = Discovered
    BY DEF TypeOK
  <2>2. QED
    BY <1>1, <1>2, <1>7, <2>1 DEF LesserOf
<1>9. TypeOK'
  <2>1. lowlink' \in [Discovered -> 0 .. counter - 1]
    BY <1>1, <1>2 DEF LesserOf, TypeOK
  <2>2. QED
    BY <1>1, <1>2, <1>3, <2>1 DEF TypeOK
<1>10. StackInv'
  BY <1>1, <1>3 DEF StackInv
<1> HIDE DEF n, v
<1>11. WorkInv'
  <2>1. ASSUME NEW i \in DOMAIN work
        PROVE  /\ work[i][1] \in Discovered => work[i][1] \in on_stack
               /\ work[i][1] \notin Discovered => i = n /\ work'[i][2] = {}
               /\ work'[i][2] \subseteq adj[work[i][1]]
    BY <1>2, <1>6 DEF WorkInv, n, v
  <2>2. \A i \in DOMAIN work : i > 1 => work[i][1] \in work'[i - 1][2]
    <3>1. ASSUME NEW i \in DOMAIN work, i > 1
          PROVE  work[i][1] \in work'[i - 1][2]
      <4>1. work[i][1] \in work[i - 1][2]
        BY <3>1 DEF WorkInv
      <4>2. i - 1 \in DOMAIN work /\ i - 1 # n
        BY <1>2, <3>1
      <4>3. QED
        BY <1>2, <4>1, <4>2
    <3>2. QED
      BY <3>1
  <2>3. \A i \in DOMAIN work : \A x \in work'[i][2] :
          x \in Discovered \/ (i < n /\ x = work'[i + 1][1])
    <3>1. ASSUME NEW i \in DOMAIN work, NEW x \in work[i][2], x \notin Discovered
          PROVE  i < n /\ x = work'[i + 1][1]
      <4>1. i < n /\ x = work[i + 1][1]
        BY <3>1 DEF WorkInv, n
      <4>2. i + 1 \in DOMAIN work
        BY <1>2, <4>1
      <4>3. QED
        BY <1>2, <4>1, <4>2
    <3>2. QED
      BY <1>1, <1>6, <3>1
  <2>4. \A i, j \in DOMAIN work :
          i < j /\ work[j][1] \in Discovered => index[work[i][1]] < index[work[j][1]]
    BY DEF WorkInv
  <2>5. /\ Len(work') = n /\ DOMAIN work' = DOMAIN work
        /\ \A i \in DOMAIN work : work'[i][1] = work[i][1]
        /\ \A i \in DOMAIN work : i > 1 => i - 1 \in DOMAIN work
        /\ UNCHANGED <<adj, index, on_stack>>
    BY <1>1, <1>2
  <2>6. QED
    BY <1>3, <2>1, <2>2, <2>3, <2>4, <2>5 DEF WorkInv
<1>12. ClosedInv' /\ NeedsInv'
  BY <1>1, <1>3, <1>4 DEF ClosedInv, NeedsInv
<1>13. LowlinkInv'
  <2>1. ASSUME NEW y \in Path
        PROVE  \E u \in on_stack :
                 u \in Needs(adj, y) /\ lowlink'[y] = index[u] /\ index[u] <= index[y]
    <3>1. PICK u \in on_stack :
            u \in Needs(adj, y) /\ lowlink[y] = index[u] /\ index[u] <= index[y]
      BY DEF LowlinkInv
    <3>2. CASE lowlink'[y] = lowlink[y]
      BY <3>1, <3>2
    <3>3. CASE lowlink'[y] # lowlink[y]
      <4>1. /\ y = v /\ w \in on_stack
            /\ lowlink'[y] = index[w] /\ index[w] < lowlink[y]
        BY <1>8, <3>3 DEF Path
      <4>2. w \in Needs(adj, y)
        BY <1>2, <4>1, GraphFacts, NeedsDeps
      <4>3. index[w] <= index[y]
        <5>1. y \in Discovered /\ u \in Discovered
          BY GraphFacts DEF Path
        <5>2. QED
          BY <1>1, <1>7, <3>1, <4>1, <5>1
      <4>4. QED
        BY <4>1, <4>2, <4>3
    <3>4. QED
      BY <3>2, <3>3
  <2>2. ASSUME NEW y \in Path, NEW x \in on_stack, NEW z \in adj[x] \cap on_stack,
               index[y] <= index[x], Looked(x, z)'
        PROVE  \E u \in Path : index[y] <= index[u] /\ lowlink'[u] <= index[z]
    <3>1. CASE Looked(x, z)
      <4>1. PICK u \in Path : index[y] <= index[u] /\ lowlink[u] <= index[z]
        BY <2>2, <3>1 DEF LowlinkInv
      <4>2. u \in Discovered /\ z \in Discovered
        BY GraphFacts DEF Path
      <4>3. lowlink'[u] <= index[z]
        BY <1>7, <1>8, <4>1, <4>2
      <4>4. QED
        BY <4>1, <4>3
    <3>2. CASE ~Looked(x, z)
      <4>1. PICK i \in DOMAIN work : work[i][1] = x /\ z \notin work[i][2]
        BY <3>2 DEF Looked
      <4>2. z \in work'[i][2]
        BY <1>2, <2>2, <4>1 DEF Looked
      <4>3. i = n /\ z = w
        BY <1>6, <4>1, <4>2
      <4>4. x = v
        BY <1>2, <4>1, <4>3 DEF v
      <4>5. QED
        BY <1>5, <1>8, <2>2, <4>3, <4>4
    <3>3. QED
      BY <3>1, <3>2
  <2>3. QED
    BY <1>1, <1>4, <2>1, <2>2 DEF LowlinkInv
<1>14. EmittedInv' /\ DependenciesFirst' /\ WholeCycles'
  BY <1>1, <1>3 DEF EmittedInv, DependenciesFirst, WholeCycles, Emitted
<1>15. QED
  BY <1>9, <1>10, <1>11, <1>12, <1>13, <1>14

-----------------------------------------------------------------------------
(* Closing the last frame: all its edges have been looked along, and its   *)
(* low link has been handed to the frame below.                            *)
LEMMA CloseFacts ==
  ASSUME SearchInv, Close
  PROVE  LET v == top[1]
             p == work[Len(work) - 1][1]
         IN  /\ v \in Path /\ v \in on_stack /\ v \in Node
             /\ \A y \in Path : y = v \/ index[y] < index[v]
             /\ adj[v] \subseteq Discovered
             /\ \A w \in adj[v] : Looked(v, w)
             /\ UNCHANGED <<adj, counter, index>> /\ Discovered' = Discovered
             /\ Path' = Path \ {v}
             /\ \A x, w : Looked(x, w)' /\ x # v => Looked(x, w)
             /\ lowlink' \in [Discovered -> 0 .. counter - 1]
             /\ \A x \in Discovered : lowlink'[x] <= lowlink[x]
             /\ \A x \in Path' : lowlink'[x] = lowlink[x] \/ (x = p /\ lowlink'[x] = lowlink[v])
             /\ \A y \in Path' : /\ p \in Path' /\ p \in on_stack /\ v \in adj[p]
                                 /\ index[y] <= index[p]
                                 /\ lowlink'[p] <= lowlink[v]
             /\ work' \in Seq(Node \X SUBSET Node)
             /\ Len(work') = Len(work) - 1 /\ Len(work) \in Nat \ {0}
             /\ DOMAIN work' = 1 .. Len(work) - 1 /\ DOMAIN work = 1 .. Len(work)
             /\ \A i \in 1 .. Len(work) - 1 : work'[i] = work[i]
             /\ work[Len(work)][1] = v
<1> DEFINE n == Len(work)
           v == top[1]
           p == work[n - 1][1]
           below == Front(work)
<1> USE DEF SearchInv
<1>1. /\ work # <<>> /\ v \in Discovered /\ succ(v, top[2]) = {}
      /\ LinkParent(v, below)
      /\ work' = below
      /\ UNCHANGED <<adj, counter, index>>
  BY DEF Close
<1>2. /\ n \in DOMAIN work /\ n \in Nat \ {0} /\ DOMAIN work = 1 .. n
      /\ top = work[n] /\ v \in Node
  BY <1>1, TopFrame
<1>3. /\ below \in Seq(Node \X SUBSET Node) /\ Len(below) = n - 1
      /\ DOMAIN below = 1 .. n - 1
      /\ \A i \in 1 .. n - 1 : below[i] = work[i]
  BY <1>1, FrontShape DEF TypeOK
<1>4. /\ v \in Path /\ v \in on_stack
      /\ \A i \in DOMAIN work : i # n => work[i][1] # v
      /\ \A y \in Path : y = v \/ index[y] < index[v]
  BY <1>1, PathTop
<1>5. adj[v] \subseteq Discovered
  <2>1. \A w \in work[n][2] : w \in Discovered
    BY <1>2 DEF WorkInv
  <2>2. QED
    BY <1>1, <1>2, <2>1 DEF succ
<1>6. \A w \in adj[v] : Looked(v, w)
  BY <1>1, <1>2, <1>4 DEF succ, Looked
<1>7. Discovered' = Discovered
  BY <1>1 DEF Discovered
<1> HIDE DEF n, v, below
<1>8. \A i \in 1 .. n : i = n \/ (i \in 1 .. n - 1 /\ i # n)
  BY <1>2
<1>9. \A i \in 1 .. n - 1 : i \in 1 .. n /\ i # n
  BY <1>2
<1>10. Path' = Path \ {v}
  BY <1>1, <1>2, <1>3, <1>4, <1>7, <1>8, <1>9 DEF Path, v
<1>11. ASSUME NEW x, NEW w, Looked(x, w)', x # v
       PROVE  Looked(x, w)
  BY <1>1, <1>2, <1>3, <1>8, <1>11 DEF Looked, v
<1>12. ASSUME NEW y \in Path'
       PROVE  /\ p \in Path /\ p \in on_stack /\ v \in adj[p] /\ p # v
              /\ index[y] <= index[p]
              /\ below # <<>> /\ Last(below)[1] = p
  <2>1. y \in Path /\ y # v
    BY <1>10
  <2>2. /\ n - 1 \in DOMAIN work
        /\ p \in Path /\ p \in on_stack /\ p # v
        /\ v \in adj[p] /\ index[y] <= index[p]
    BY <1>1, <2>1, PathParent DEF v, n
  <2>3. n - 1 \in 1 .. n - 1
    BY <1>2, <2>2
  <2>4. Last(below) = work[n - 1]
    BY <1>3, <2>3 DEF Last
  <2>5. QED
    BY <1>3, <2>2, <2>3, <2>4
<1>13. \A x \in Discovered : index[x] \in Nat /\ lowlink[x] \in Nat /\ lowlink[x] \in 0 .. counter - 1
  BY DEF TypeOK
<1>14. lowlink \in [Discovered -> 0 .. counter - 1]
  BY DEF TypeOK
<1>15. CASE below = <<>>
  <2>1. lowlink' = lowlink
    BY <1>1, <1>15 DEF LinkParent
  <2>2. Path' = {}
    BY <1>12, <1>15
  <2>3. QED
    BY <1>1, <1>2, <1>3, <1>4, <1>5, <1>6, <1>7, <1>10, <1>11, <1>13, <1>14, <2>1, <2>2 DEF n, v
<1>16. CASE below # <<>>
  <2> DEFINE q == Last(below)[1]
             m == LesserOf(lowlink[q], lowlink[v])
  <2>1. lowlink' = [lowlink EXCEPT ![q] = m]
    BY <1>1, <1>16 DEF LinkParent
  <2>2. q \in Discovered
    <3>1. n - 1 \in 1 .. n - 1 /\ n - 1 # n /\ n - 1 \in DOMAIN work
      BY <1>2, <1>3, <1>16, EmptySeq
    <3>2. Last(below) = work[n - 1]
      BY <1>3, <3>1 DEF Last
    <3>3. work[n - 1][1] \in Discovered
      BY <3>1 DEF WorkInv, n
    <3>4. QED
      BY <3>2, <3>3
  <2>3. /\ m \in 0 .. counter - 1 /\ m <= lowlink[q] /\ m <= lowlink[v]
        /\ m = lowlink[q] \/ m = lowlink[v]
    BY <1>1, <1>13, <2>2 DEF LesserOf
  <2> HIDE DEF q, m
  <2>4. lowlink' \in [Discovered -> 0 .. counter - 1]
    BY <1>14, <2>1, <2>3
  <2>5. \A x \in Discovered : lowlink'[x] = IF x = q THEN m ELSE lowlink[x]
    BY <1>14, <2>1
  <2>6. \A x \in Discovered : lowlink'[x] <= lowlink[x]
    BY <1>13, <2>3, <2>5
  <2>7. \A y \in Path' : q = p
    BY <1>12 DEF q
  <2>8. \A x \in Path' : lowlink'[x] = lowlink[x] \/ (x = p /\ lowlink'[x] = lowlink[v])
    BY <1>10, <2>3, <2>5, <2>7 DEF Path
  <2>9. \A y \in Path' : lowlink'[p] <= lowlink[v]
    BY <1>12, <2>2, <2>3, <2>5, <2>7
  <2>10. QED
    BY <1>1, <1>2, <1>3, <1>4, <1>5, <1>6, <1>7, <1>10, <1>11, <1>12, <2>4, <2>6, <2>8, <2>9 DEF n, v
<1>17. QED
  BY <1>15, <1>16

(* Frames that are left are as they were.                                  *)
LEMMA CloseWork ==
  ASSUME SearchInv, Close,
         \A x \in on_stack : index[x] < index[top[1]] => x \in on_stack'
  PROVE  WorkInv'
<1> DEFINE n == Len(work)
           v == top[1]
<1> USE DEF SearchInv
<1>1. /\ v \in Path /\ v \in on_stack
      /\ UNCHANGED <<adj, counter, index>> /\ Discovered' = Discovered
      /\ Len(work') = n - 1 /\ n \in Nat \ {0}
      /\ DOMAIN work' = 1 .. n - 1 /\ DOMAIN work = 1 .. n
      /\ \A i \in 1 .. n - 1 : work'[i] = work[i]
      /\ work[n][1] = v
  BY CloseFacts
<1>2. \A i \in 1 .. n - 1 : i \in 1 .. n /\ i # n /\ i < n
  BY <1>1
<1>3. v \in Discovered
  BY <1>1 DEF Path
<1>4. \A i \in 1 .. n - 1 :
        /\ work[i][1] \in Discovered /\ work[i][1] \in on_stack
        /\ index[work[i][1]] < index[v]
  <2>1. n \in DOMAIN work
    BY <1>1
  <2>2. QED
    BY <1>1, <1>2, <1>3, <2>1 DEF WorkInv
<1> HIDE DEF n, v
<1>5. \A i \in 1 .. n - 1 : work[i][1] \in on_stack' /\ work[i][2] \subseteq adj[work[i][1]]
  BY <1>1, <1>2, <1>4 DEF WorkInv, v
<1>6. \A i \in 1 .. n - 1 : i > 1 => work[i][1] \in work[i - 1][2] /\ i - 1 \in 1 .. n - 1
  BY <1>1, <1>2 DEF WorkInv
<1>7. ASSUME NEW i \in 1 .. n - 1, NEW w \in work[i][2], w \notin Discovered
      PROVE  i < n - 1 /\ w = work[i + 1][1] /\ i + 1 \in 1 .. n - 1
  <2>1. w = work[i + 1][1]
    BY <1>1, <1>2, <1>7 DEF WorkInv
  <2>2. i + 1 # n
    BY <1>1, <1>3, <1>7, <2>1
  <2>3. QED
    BY <1>1, <2>1, <2>2
<1>8. \A i, j \in 1 .. n - 1 : i < j => index[work[i][1]] < index[work[j][1]]
  BY <1>1, <1>2, <1>4 DEF WorkInv
<1>9. QED
  BY <1>1, <1>4, <1>5, <1>6, <1>7, <1>8 DEF WorkInv

-----------------------------------------------------------------------------
(* Closing a frame whose node reaches further down: it stays on the stack, *)
(* and the node it reaches is above another node of the path.              *)
LEMMA ReturnKeeps ==
  ASSUME SearchInv, Close, lowlink[top[1]] # index[top[1]]
  PROVE  SearchInv'
<1> DEFINE v == top[1]
           p == work[Len(work) - 1][1]
<1> USE DEF SearchInv
<1>1. UNCHANGED <<components, on_stack, tarjan_stack>>
  BY DEF Close
<1>2. /\ v \in Path /\ v \in on_stack /\ v \in Node
      /\ \A y \in Path : y = v \/ index[y] < index[v]
      /\ adj[v] \subseteq Discovered
      /\ \A w \in adj[v] : Looked(v, w)
      /\ UNCHANGED <<adj, counter, index>> /\ Discovered' = Discovered
      /\ Path' = Path \ {v}
      /\ \A x, w : Looked(x, w)' /\ x # v => Looked(x, w)
      /\ lowlink' \in [Discovered -> 0 .. counter - 1]
      /\ \A x \in Discovered : lowlink'[x] <= lowlink[x]
      /\ \A x \in Path' : lowlink'[x] = lowlink[x] \/ (x = p /\ lowlink'[x] = lowlink[v])
      /\ \A y \in Path' : /\ p \in Path' /\ p \in on_stack /\ v \in adj[p]
                          /\ index[y] <= index[p]
                          /\ lowlink'[p] <= lowlink[v]
      /\ work' \in Seq(Node \X SUBSET Node)
  BY CloseFacts
<1>3. Done' = Done
  BY <1>1, <1>2 DEF Done
<1>4. /\ DOMAIN adj = Node /\ \A x \in Node : adj[x] \subseteq Node
      /\ on_stack \subseteq Discovered /\ Discovered \subseteq Node
      /\ \A x \in Discovered : index[x] \in Nat /\ lowlink[x] \in Nat
      /\ Path \subseteq Discovered
  BY GraphFacts DEF Path
<1>5. \A x \in Discovered : lowlink'[x] \in Nat
  BY <1>2
<1>6. WorkInv'
  BY <1>1, CloseWork
<1> HIDE DEF v, p
<1>7. PICK u \in on_stack :
        u \in Needs(adj, v) /\ lowlink[v] = index[u] /\ index[u] < index[v]
  <2>1. PICK u \in on_stack :
          u \in Needs(adj, v) /\ lowlink[v] = index[u] /\ index[u] <= index[v]
    BY <1>2 DEF LowlinkInv
  <2>2. index[u] \in Nat /\ index[v] \in Nat /\ index[u] # index[v]
    BY <1>4, <1>2, <2>1 DEF v
  <2>3. QED
    BY <2>1, <2>2
<1>8. TypeOK' /\ StackInv'
  BY <1>1, <1>2 DEF TypeOK, StackInv
<1>9. ClosedInv'
  BY <1>1, <1>2, <1>3 DEF ClosedInv
<1>10. NeedsInv'
  <2>1. ASSUME NEW x \in on_stack
        PROVE  \E y \in Path' : index[y] <= index[x] /\ y \in Needs(adj, x)
    <3>1. PICK y \in Path : index[y] <= index[x] /\ y \in Needs(adj, x)
      BY DEF NeedsInv
    <3>2. CASE y # v
      BY <1>2, <3>1, <3>2
    <3>3. CASE y = v
      <4>1. PICK z \in Path : index[z] <= index[u] /\ z \in Needs(adj, u)
        BY DEF NeedsInv
      <4>2. /\ index[z] \in Nat /\ index[u] \in Nat /\ index[v] \in Nat /\ index[x] \in Nat
        BY <1>2, <1>4
      <4>3. index[z] < index[v] /\ index[z] <= index[x]
        BY <1>7, <3>1, <3>3, <4>1, <4>2
      <4>4. z \in Path'
        BY <1>2, <4>2, <4>3
      <4>5. z \in Needs(adj, x)
        BY <1>7, <3>1, <3>3, <4>1, NeedsTransitive
      <4>6. QED
        BY <4>3, <4>4, <4>5
    <3>4. QED
      BY <3>2, <3>3
  <2>2. QED
    BY <1>1, <1>2, <2>1 DEF NeedsInv
<1>11. LowlinkInv'
  <2>1. ASSUME NEW y \in Path'
        PROVE  \E x \in on_stack :
                 x \in Needs(adj, y) /\ lowlink'[y] = index[x] /\ index[x] <= index[y]
    <3>1. y \in Path /\ y \in Discovered
      BY <1>2, <1>4
    <3>2. PICK x \in on_stack :
            x \in Needs(adj, y) /\ lowlink[y] = index[x] /\ index[x] <= index[y]
      BY <3>1 DEF LowlinkInv
    <3>3. CASE lowlink'[y] = lowlink[y]
      BY <3>2, <3>3
    <3>4. CASE lowlink'[y] # lowlink[y]
      <4>1. y = p /\ lowlink'[y] = index[u]
        BY <1>2, <1>7, <3>4
      <4>2. v \in Needs(adj, y)
        BY <1>2, <1>4, <3>1, <4>1, NeedsDeps
      <4>3. u \in Needs(adj, y)
        BY <1>7, <4>2, NeedsTransitive
      <4>4. index[u] <= index[y]
        <5>1. lowlink'[y] <= lowlink[y]
          BY <1>2, <3>1
        <5>2. lowlink[y] \in Nat /\ lowlink'[y] \in Nat /\ index[x] \in Nat /\ index[y] \in Nat
          BY <1>4, <1>5, <3>1
        <5>3. QED
          BY <3>2, <4>1, <5>1, <5>2
      <4>5. QED
        BY <4>1, <4>3, <4>4
    <3>5. QED
      BY <3>3, <3>4
  <2>2. ASSUME NEW y \in Path', NEW x \in on_stack, NEW w \in adj[x] \cap on_stack,
               index[y] <= index[x], Looked(x, w)'
        PROVE  \E z \in Path' : index[y] <= index[z] /\ lowlink'[z] <= index[w]
    <3>1. Looked(x, w)
      BY <1>2, <2>2
    <3>2. y \in Path
      BY <1>2
    <3>3. PICK z \in Path : index[y] <= index[z] /\ lowlink[z] <= index[w]
      BY <2>2, <3>1, <3>2 DEF LowlinkInv
    <3>4. CASE z # v
      <4>1. z \in Path' /\ z \in Discovered /\ w \in Discovered
        BY <1>2, <1>4, <3>4
      <4>2. lowlink'[z] <= lowlink[z] /\ lowlink'[z] \in Nat /\ lowlink[z] \in Nat /\ index[w] \in Nat
        BY <1>2, <1>4, <1>5, <4>1
      <4>3. QED
        BY <3>3, <4>1, <4>2
    <3>5. CASE z = v
      <4>1. p \in Path' /\ index[y] <= index[p] /\ lowlink'[p] <= lowlink[v]
        BY <1>2
      <4>2. p \in Discovered /\ v \in Discovered /\ w \in Discovered
        BY <1>2, <1>4, <4>1
      <4>3. lowlink'[p] \in Nat /\ lowlink[v] \in Nat /\ index[w] \in Nat
        BY <1>4, <1>5, <4>2
      <4>4. lowlink'[p] <= index[w]
        BY <3>3, <3>5, <4>1, <4>3
      <4>5. QED
        BY <4>1, <4>4
    <3>6. QED
      BY <3>4, <3>5
  <2>3. QED
    BY <1>1, <1>2, <2>1, <2>2 DEF LowlinkInv
<1>12. EmittedInv' /\ DependenciesFirst' /\ WholeCycles'
  BY <1>1, <1>2, <1>3 DEF EmittedInv, DependenciesFirst, WholeCycles, Emitted
<1>13. QED
  BY <1>6, <1>8, <1>9, <1>10, <1>11, <1>12

-----------------------------------------------------------------------------
(* What was put on the stack since the root v of a component: nothing      *)
(* leads out of it but to what is done, and it is the cycle of v.          *)
LEMMA RootOwnsCycle ==
  ASSUME SearchInv, Close, lowlink[top[1]] = index[top[1]]
  PROVE  LET v == top[1]
             C == {x \in on_stack : index[v] <= index[x]}
         IN  /\ \A x \in C : adj[x] \subseteq Done \cup C
             /\ \A x \in C : C = CycleOf(adj, x)
<1> DEFINE v == top[1]
           C == {x \in on_stack : index[v] <= index[x]}
<1> USE DEF SearchInv
<1>1. /\ v \in Path /\ v \in on_stack /\ v \in Node
      /\ \A y \in Path : y = v \/ index[y] < index[v]
      /\ adj[v] \subseteq Discovered
      /\ \A w \in adj[v] : Looked(v, w)
  BY CloseFacts
<1>2. /\ DOMAIN adj = Node /\ \A x \in Node : adj[x] \subseteq Node
      /\ on_stack \subseteq Discovered /\ Discovered \subseteq Node
      /\ \A x \in Discovered : index[x] \in Nat /\ lowlink[x] \in Nat
      /\ Path \subseteq Discovered /\ Path \subseteq on_stack
  BY GraphFacts DEF Path, WorkInv
<1>3. lowlink[v] = index[v]
  OBVIOUS
<1> HIDE DEF v
<1>4. ASSUME NEW x \in C
      PROVE  adj[x] \subseteq Discovered /\ \A w \in adj[x] : Looked(x, w)
  <2>1. CASE x = v
    BY <1>1, <2>1
  <2>2. CASE x # v
    <3>1. x \in Discovered /\ x \notin Path
      BY <1>1, <1>2, <2>2
    <3>2. adj[x] \subseteq Discovered
      BY <3>1 DEF ClosedInv
    <3>3. \A i \in DOMAIN work : work[i][1] # x
      BY <3>1 DEF Path
    <3>4. QED
      BY <3>2, <3>3 DEF Looked
  <2>3. QED
    BY <2>1, <2>2
<1>5. ASSUME NEW x \in C, NEW w \in adj[x], w \in on_stack
      PROVE  w \in C
  <2>1. PICK u \in Path : index[v] <= index[u] /\ lowlink[u] <= index[w]
    BY <1>1, <1>4, <1>5 DEF LowlinkInv
  <2>2. u = v
    BY <1>1, <1>2, <2>1
  <2>3. QED
    BY <1>3, <1>5, <2>1, <2>2
<1>6. \A x \in C : adj[x] \subseteq Done \cup C
  BY <1>4, <1>5 DEF Done
<1>7. C \subseteq Needs(adj, v)
  BY <1>1 DEF NeedsInv
<1>8. ASSUME NEW x \in C
      PROVE  v \in Needs(adj, x)
  <2>1. PICK y \in Path : index[y] <= index[x] /\ y \in Needs(adj, x)
    BY DEF NeedsInv
  <2>2. index[y] <= index[v]
    BY <1>1, <1>2
  <2>3. v \in Needs(adj, y)
    BY <1>1, <2>2 DEF NeedsInv
  <2>4. QED
    BY <2>1, <2>3, NeedsTransitive
<1>9. ASSUME NEW x \in C
      PROVE  C = CycleOf(adj, x)
  <2>1. ASSUME NEW z \in C
        PROVE  z \in CycleOf(adj, x)
    <3>1. z \in Needs(adj, x)
      BY <1>7, <1>8, NeedsTransitive
    <3>2. x \in Needs(adj, z)
      BY <1>7, <1>8, NeedsTransitive
    <3>3. QED
      BY <3>1, <3>2 DEF CycleOf
  <2>2. ASSUME NEW z \in CycleOf(adj, x)
        PROVE  z \in C
    <3> DEFINE R == Done \cup C
    <3>1. R \in SUBSET DOMAIN adj /\ Done \in SUBSET DOMAIN adj
      BY <1>2 DEF Done
    <3>2. \A y \in Done : adj[y] \subseteq Done
      BY DEF ClosedInv
    <3>3. \A y \in R : adj[y] \subseteq R
      BY <1>6, <3>2
    <3>4. z \in R
      BY <3>1, <3>3, NeedsInside DEF CycleOf
    <3>5. x \notin Done
      BY DEF Done
    <3>6. z \notin Done
      <4>1. ASSUME z \in Done
            PROVE  Needs(adj, z) \subseteq Done
        BY <3>1, <3>2, <4>1, NeedsInside
      <4>2. QED
        BY <3>5, <4>1 DEF CycleOf
    <3>7. QED
      BY <3>4, <3>6
  <2>3. QED
    BY <2>1, <2>2
<1>10. QED
  BY <1>6, <1>9 DEF v

(* Closing the frame of a root: its component is emitted.                  *)
LEMMA EmitKeeps ==
  ASSUME SearchInv, Close, lowlink[top[1]] = index[top[1]]
  PROVE  SearchInv'
<1> DEFINE v == top[1]
           p == work[Len(work) - 1][1]
           C == {x \in on_stack : index[v] <= index[x]}
<1> USE DEF SearchInv
<1>1. Emit(v)
  BY DEF Close
<1>2. /\ v \in Path /\ v \in on_stack /\ v \in Node
      /\ \A y \in Path : y = v \/ index[y] < index[v]
      /\ UNCHANGED <<adj, counter, index>> /\ Discovered' = Discovered
      /\ Path' = Path \ {v}
      /\ \A x, w : Looked(x, w)' /\ x # v => Looked(x, w)
      /\ lowlink' \in [Discovered -> 0 .. counter - 1]
      /\ \A x \in Discovered : lowlink'[x] <= lowlink[x]
      /\ \A x \in Path' : lowlink'[x] = lowlink[x] \/ (x = p /\ lowlink'[x] = lowlink[v])
      /\ work' \in Seq(Node \X SUBSET Node)
  BY CloseFacts
<1>3. /\ components' = Append(components, C)
      /\ C \in SUBSET Node
      /\ on_stack' = on_stack \ C
      /\ tarjan_stack' \in Seq(Node)
      /\ on_stack' = ToSet(tarjan_stack')
      /\ Len(tarjan_stack') <= Len(tarjan_stack)
      /\ \A i \in DOMAIN tarjan_stack' : tarjan_stack'[i] = tarjan_stack[i]
  BY <1>1, <1>2, EmitSplits
<1>4. /\ DOMAIN adj = Node /\ \A x \in Node : adj[x] \subseteq Node
      /\ on_stack \subseteq Discovered /\ Discovered \subseteq Node
      /\ \A x \in Discovered : index[x] \in Nat /\ lowlink[x] \in Nat
      /\ Path \subseteq Discovered /\ Path \subseteq on_stack
  BY GraphFacts DEF Path, WorkInv
<1>5. lowlink[v] = index[v]
  OBVIOUS
<1>6. /\ \A x \in C : adj[x] \subseteq Done \cup C
      /\ \A x \in C : C = CycleOf(adj, x)
  BY RootOwnsCycle
<1>7. \A x \in on_stack : index[x] < index[top[1]] => x \in on_stack'
  <2>1. \A x \in on_stack : index[x] \in Nat /\ index[v] \in Nat
    BY <1>2, <1>4
  <2>2. QED
    BY <1>3, <2>1
<1>8. WorkInv'
  BY <1>7, CloseWork
<1> HIDE DEF v, p
<1>9. \A x \in on_stack' : x \in on_stack /\ x # v /\ index[x] < index[v]
  <2>1. \A x \in on_stack : index[x] \in Nat /\ index[v] \in Nat
    BY <1>2, <1>4
  <2>2. QED
    BY <1>2, <1>3, <2>1
<1>10. Done' = Done \cup C
  BY <1>2, <1>3, <1>4 DEF Done
<1> DEFINE k == Len(components)
<1>11. /\ components' \in Seq(SUBSET Node)
       /\ k \in Nat /\ DOMAIN components = 1 .. k
       /\ DOMAIN components' = 1 .. k + 1
       /\ \A i \in 1 .. k : components'[i] = components[i]
       /\ components'[k + 1] = C
  <2> HIDE DEF C
  <2>1. components \in Seq(SUBSET Node)
    BY DEF TypeOK
  <2>2. k \in Nat /\ DOMAIN components = 1 .. k
    BY <2>1, LenProperties
  <2>3. QED
    BY <1>3, <2>1, <2>2, AppendShape
<1>12. TypeOK'
  <2>1. on_stack' \subseteq Discovered
    BY <1>3, <1>4
  <2>2. QED
    BY <1>2, <1>3, <1>11, <2>1 DEF TypeOK
<1>13. StackInv'
  <2>1. tarjan_stack \in Seq(Node)
    BY DEF TypeOK
  <2>2. \A i \in DOMAIN tarjan_stack' : i \in DOMAIN tarjan_stack
    BY <1>3, <2>1
  <2>3. QED
    BY <1>2, <1>3, <2>2 DEF StackInv
<1>14. ClosedInv'
  <2>1. \A x \in Done : adj[x] \subseteq Done
    BY DEF ClosedInv
  <2>2. \A x \in Done \cup C : adj[x] \subseteq Done \cup C
    BY <1>6, <2>1
  <2>3. Done \cup C \subseteq Discovered
    BY <1>4 DEF Done
  <2>4. \A x \in Discovered \ (Path \ {v}) : adj[x] \subseteq Discovered
    <3>1. v \in C
      BY <1>2, <1>4
    <3>2. QED
      BY <2>2, <2>3, <3>1 DEF ClosedInv
  <2>5. QED
    BY <1>2, <1>10, <2>2, <2>4 DEF ClosedInv
<1>15. NeedsInv'
  <2>1. ASSUME NEW x \in on_stack'
        PROVE  \E y \in Path' : index[y] <= index[x] /\ y \in Needs(adj, x)
    <3>1. x \in on_stack /\ index[x] < index[v]
      BY <1>9
    <3>2. PICK y \in Path : index[y] <= index[x] /\ y \in Needs(adj, x)
      BY <3>1 DEF NeedsInv
    <3>3. y # v
      BY <1>2, <1>4, <3>1, <3>2
    <3>4. QED
      BY <1>2, <3>2, <3>3
  <2>2. \A y \in Path' : \A x \in on_stack' : index[y] <= index[x] => x \in Needs(adj, y)
    BY <1>2, <1>9 DEF NeedsInv
  <2>3. QED
    BY <1>2, <2>1, <2>2 DEF NeedsInv
<1>16. LowlinkInv'
  <2>1. ASSUME NEW y \in Path'
        PROVE  /\ lowlink'[y] = lowlink[y] /\ y \in Path
               /\ \E u \in on_stack' :
                    u \in Needs(adj, y) /\ lowlink'[y] = index[u] /\ index[u] <= index[y]
    <3>1. y \in Path /\ y # v /\ y \in Discovered /\ index[y] < index[v]
      BY <1>2, <1>4
    <3>2. PICK u \in on_stack :
            u \in Needs(adj, y) /\ lowlink[y] = index[u] /\ index[u] <= index[y]
      BY <3>1 DEF LowlinkInv
    <3>3. /\ index[u] \in Nat /\ index[y] \in Nat /\ index[v] \in Nat
          /\ lowlink'[y] <= lowlink[y]
      BY <1>2, <1>4, <3>1
    <3>4. index[u] < index[v]
      BY <3>1, <3>2, <3>3
    <3>5. u \in on_stack'
      BY <1>3, <3>3, <3>4
    <3>6. lowlink'[y] = lowlink[y]
      BY <1>2, <1>5, <3>2, <3>3, <3>4
    <3>7. QED
      BY <3>1, <3>2, <3>5, <3>6
  <2>2. ASSUME NEW y \in Path', NEW x \in on_stack', NEW w \in adj[x] \cap on_stack',
               index[y] <= index[x], Looked(x, w)'
        PROVE  \E z \in Path' : index[y] <= index[z] /\ lowlink'[z] <= index[w]
    <3>1. x \in on_stack /\ x # v /\ w \in on_stack /\ index[w] < index[v] /\ y \in Path
      BY <1>2, <1>9
    <3>2. Looked(x, w)
      BY <1>2, <2>2, <3>1
    <3>3. PICK z \in Path : index[y] <= index[z] /\ lowlink[z] <= index[w]
      BY <2>2, <3>1, <3>2 DEF LowlinkInv
    <3>4. z # v
      <4>1. index[w] \in Nat /\ index[v] \in Nat
        BY <1>2, <1>4, <3>1
      <4>2. QED
        BY <1>5, <3>1, <3>3, <4>1
    <3>5. z \in Path'
      BY <1>2, <3>4
    <3>6. QED
      BY <2>1, <3>3, <3>5
  <2>3. QED
    BY <1>2, <2>1, <2>2 DEF LowlinkInv
<1>17. \A i \in 1 .. k : components[i] \subseteq Done /\ components[i] \cap C = {}
  <2>1. \A i \in 1 .. k : components[i] \subseteq Done
    BY <1>11 DEF EmittedInv, ToSet
  <2>2. QED
    BY <2>1 DEF Done
<1>18. \A i \in 1 .. k + 1 : i \in 1 .. k \/ i = k + 1
  <2> HIDE DEF k
  <2>1. QED
    BY <1>11
<1> HIDE DEF k, C
<1>19. \A i \in 1 .. k : i \in 1 .. k + 1
  BY <1>11
<1>20. k + 1 \in 1 .. k + 1
  BY <1>11
<1>21. UNION ToSet(components') = Done'
  <2>1. UNION ToSet(components) = Done
    BY DEF EmittedInv
  <2>2. ASSUME NEW x \in Done'
        PROVE  \E i \in 1 .. k + 1 : x \in components'[i]
    <3>1. CASE x \in C
      BY <1>11, <1>20, <3>1
    <3>2. CASE x \in Done
      <4>1. PICK i \in 1 .. k : x \in components[i]
        BY <1>11, <2>1, <3>2 DEF ToSet
      <4>2. QED
        BY <1>11, <1>19, <4>1
    <3>3. QED
      BY <1>10, <3>1, <3>2
  <2>3. ASSUME NEW i \in 1 .. k + 1
        PROVE  components'[i] \subseteq Done'
    BY <1>10, <1>11, <1>17, <1>18
  <2>4. QED
    BY <1>11, <2>2, <2>3 DEF ToSet
<1>22. ASSUME NEW i \in 1 .. k + 1, NEW j \in 1 .. k + 1,
              components'[i] \cap components'[j] # {}
       PROVE  i = j
  <2>1. CASE i \in 1 .. k /\ j \in 1 .. k
    BY <1>11, <1>22, <2>1 DEF EmittedInv
  <2>2. CASE i \in 1 .. k /\ j = k + 1
    BY <1>11, <1>17, <1>22, <2>2
  <2>3. CASE i = k + 1 /\ j \in 1 .. k
    BY <1>11, <1>17, <1>22, <2>3
  <2>4. QED
    BY <1>18, <2>1, <2>2, <2>3
<1>23. EmittedInv'
  BY <1>11, <1>21, <1>22 DEF EmittedInv
<1>24. WholeCycles'
  BY <1>2, <1>6, <1>11, <1>18 DEF WholeCycles
<1>25. DependenciesFirst'
  <2>1. ASSUME NEW i \in 1 .. k
        PROVE  Emitted(i)' = Emitted(i)
    <3>1. \A j \in 1 .. i : components'[j] = components[j]
      BY <1>11
    <3>2. QED
      BY <3>1 DEF Emitted
  <2>2. UNION {components'[j] : j \in 1 .. k + 1} = Done'
    BY <1>11, <1>21 DEF ToSet
  <2>3. ASSUME NEW i \in 1 .. k + 1, NEW x \in components'[i]
        PROVE  adj[x] \subseteq Emitted(i)'
    <3>1. CASE i \in 1 .. k
      BY <1>11, <2>1, <2>3, <3>1 DEF DependenciesFirst
    <3>2. CASE i = k + 1
      <4>1. Emitted(i)' = Done'
        BY <2>2, <3>2 DEF Emitted
      <4>2. QED
        BY <1>6, <1>10, <1>11, <2>3, <3>2, <4>1
    <3>3. QED
      BY <1>18, <3>1, <3>2
  <2>4. QED
    BY <1>2, <1>11, <2>3 DEF DependenciesFirst
<1>26. QED
  BY <1>8, <1>12, <1>13, <1>14, <1>15, <1>16, <1>23, <1>24, <1>25

-----------------------------------------------------------------------------
(* The empty search.                                                       *)
LEMMA InitSearch ==
  ASSUME Init
  PROVE  SearchInv
<1>1. /\ index = [n \in {} |-> 0] /\ lowlink = [n \in {} |-> 0]
      /\ on_stack = {} /\ tarjan_stack = <<>> /\ work = <<>> /\ components = <<>>
      /\ counter = 0 /\ adj \in [Node -> SUBSET Node]
  BY DEF Init
<1>2. Discovered = {} /\ Path = {} /\ Done = {}
  BY <1>1 DEF Discovered, Path, Done
<1>3. DOMAIN work = {} /\ DOMAIN tarjan_stack = {} /\ DOMAIN components = {}
  BY <1>1
<1>4. TypeOK
  BY <1>1, <1>2 DEF TypeOK
<1>5. StackInv /\ WorkInv /\ EmittedInv
  BY <1>1, <1>2, <1>3 DEF StackInv, WorkInv, EmittedInv, ToSet
<1>6. ClosedInv /\ NeedsInv /\ LowlinkInv
  BY <1>1, <1>2 DEF ClosedInv, NeedsInv, LowlinkInv
<1>7. DependenciesFirst /\ WholeCycles
  BY <1>3 DEF DependenciesFirst, WholeCycles
<1>8. QED
  BY <1>4, <1>5, <1>6, <1>7 DEF SearchInv

(* Every step keeps the invariant. *)
LEMMA SearchSteps ==
  ASSUME SearchInv, [Next]_vars
  PROVE  SearchInv'
<1>1. CASE \E n \in Node : StartAt(n)
  BY <1>1, StartKeeps
<1>2. CASE \E n \in Node : Descend(n)
  BY <1>2, DescendKeeps
<1>3. CASE \E n \in Node : Skip(n)
  BY <1>3, SkipKeeps
<1>4. CASE Open
  BY <1>4, OpenKeeps
<1>5. CASE Close
  BY <1>5, ReturnKeeps, EmitKeeps
<1>6. CASE UNCHANGED vars
  <2>1. /\ UNCHANGED <<adj, counter, index, lowlink, on_stack, tarjan_stack, work, components>>
        /\ Discovered' = Discovered /\ Path' = Path /\ Done' = Done
    BY <1>6 DEF vars, Discovered, Path, Done
  <2>2. \A x, w : Looked(x, w)' = Looked(x, w)
    BY <2>1 DEF Looked
  <2>3. TypeOK' /\ StackInv' /\ WorkInv'
    BY <2>1 DEF SearchInv, TypeOK, StackInv, WorkInv
  <2>4. ClosedInv' /\ NeedsInv' /\ LowlinkInv'
    BY <2>1, <2>2 DEF SearchInv, ClosedInv, NeedsInv, LowlinkInv
  <2>5. EmittedInv' /\ DependenciesFirst' /\ WholeCycles'
    BY <2>1 DEF SearchInv, EmittedInv, DependenciesFirst, WholeCycles, Emitted
  <2>6. QED
    BY <2>3, <2>4, <2>5 DEF SearchInv
<1>7. QED
  BY <1>1, <1>2, <1>3, <1>4, <1>5, <1>6 DEF Next

LEMMA SearchIsRight == Spec => []SearchInv
<1>1. Init => SearchInv
  BY InitSearch
<1>2. SearchInv /\ [Next]_vars => SearchInv'
  BY SearchSteps
<1>3. QED
  BY <1>1, <1>2, PTL DEF Spec

-----------------------------------------------------------------------------
(* Every value the search handles is of the type the code gives it.        *)
THEOREM SearchTypeCorrect == Spec => []TypeOK
<1>1. SearchInv => TypeOK
  BY DEF SearchInv
<1>2. QED
  BY <1>1, SearchIsRight, PTL

(* "The returned components are in dependencies-first order".              *)
THEOREM ComponentsInOrder == Spec => []DependenciesFirst
<1>1. SearchInv => DependenciesFirst
  BY DEF SearchInv
<1>2. QED
  BY <1>1, SearchIsRight, PTL

(* What is emitted is a strongly connected component, and all of it.       *)
THEOREM ComponentsAreCycles == Spec => []WholeCycles
<1>1. SearchInv => WholeCycles
  BY DEF SearchInv
<1>2. QED
  BY <1>1, SearchIsRight, PTL

(* When the search ends, each node has been emitted in one component.      *)
LEMMA FinishedEmitsAll ==
  ASSUME SearchInv, Finished
  PROVE  /\ UNION ToSet(components) = Node
         /\ \A i, j \in DOMAIN components :
              components[i] \cap components[j] # {} => i = j
<1>1. work = <<>> /\ Discovered = Node
  BY DEF Finished
<1>2. Path = {}
  BY <1>1 DEF Path
<1>3. on_stack = {}
  BY <1>2 DEF SearchInv, NeedsInv
<1>4. QED
  BY <1>1, <1>3 DEF SearchInv, EmittedInv, Done

THEOREM EveryNodeEmittedOnce ==
  Spec => [](Finished =>
               /\ UNION ToSet(components) = Node
               /\ \A i, j \in DOMAIN components :
                    components[i] \cap components[j] # {} => i = j)
<1>1. SearchInv =>
        (Finished =>
           /\ UNION ToSet(components) = Node
           /\ \A i, j \in DOMAIN components :
                components[i] \cap components[j] # {} => i = j)
  BY FinishedEmitsAll
<1>2. QED
  BY <1>1, SearchIsRight, PTL

-----------------------------------------------------------------------------
(***************************************************************************)
(* The disjoint-set forest.                                                *)
(***************************************************************************)
LEMMA StartIsMember ==
  ASSUME NEW n \in Nat, NEW pairs \in Seq(Pairs(n)), pairs # <<>>
  PROVE  StartOf(pairs) \in 1 .. n /\ Head(pairs)[2] \in 1 .. n
<1>1. Head(pairs) \in Pairs(n)
  OBVIOUS
<1>2. Head(pairs)[1] \in 1 .. n /\ Head(pairs)[2] \in 1 .. n
  BY <1>1 DEF Pairs
<1>3. QED
  BY <1>2 DEF StartOf

ForestInv == (\E n \in Nat : ForestShape(n)) /\ FindEnds

LEMMA ForestStarts == ForestInit => ForestInv
<1>1. ASSUME ForestInit PROVE ForestShape(0)
  BY <1>1 DEF ForestInit, ForestShape, NoRoot
<1>2. ASSUME ForestInit PROVE FindEnds
  BY <1>2 DEF ForestInit, FindEnds
<1>3. QED
  BY <1>1, <1>2 DEF ForestInv

LEMMA ForestKept == ForestInv /\ [ForestNext]_forest_vars => ForestInv'
<1> SUFFICES ASSUME ForestInv, [ForestNext]_forest_vars
             PROVE  ForestInv'
  OBVIOUS
<1>0. PICK n \in Nat : ForestShape(n)
  BY DEF ForestInv
<1>f. FindEnds
  BY DEF ForestInv
<1>d. DOMAIN parent = 1 .. n
  BY <1>0 DEF ForestShape
<1>1. CASE \E k \in Nat : \E pairs \in Seq(Pairs(k)) : Begin(k, pairs)
  <2>0. PICK k \in Nat : \E pairs \in Seq(Pairs(k)) : Begin(k, pairs)
    BY <1>1
  <2>1. PICK pairs \in Seq(Pairs(k)) : Begin(k, pairs)
    BY <2>0
  <2>2. pairs # <<>> => StartOf(pairs) \in 1 .. k
    BY <2>1, StartIsMember
  <2>3. ForestShape(k)'
    BY <2>1, <2>2 DEF Begin, ForestShape, NoRoot
  <2>4. FindEnds'
    BY <2>1 DEF Begin, FindEnds
  <2>5. QED
    BY <2>3, <2>4 DEF ForestInv
<1>2. CASE Halve
  <2>1. at \in 1 .. n /\ parent[at] \in 1 .. n /\ parent[parent[at]] \in 1 .. n
    BY <1>0, <1>2 DEF Halve, ForestShape
  <2>2. parent' \in [1 .. n -> 1 .. n]
    BY <1>0, <1>2, <2>1 DEF Halve, ForestShape
  <2>3. root # NoRoot => parent'[root] = root
    <3>1. root # NoRoot => root # at
      BY <1>0, <1>2 DEF Halve, ForestShape
    <3>2. QED
      BY <1>0, <1>2, <3>1 DEF Halve, ForestShape
  <2>4. ForestShape(n)'
    BY <1>0, <1>2, <2>1, <2>2, <2>3 DEF Halve, ForestShape
  <2>5. size[at] < size[parent[parent[at]]]
    <3>1. size[at] < size[parent[at]]
      BY <1>2, <1>d, <1>f, <2>1 DEF Halve, FindEnds
    <3>2. parent[parent[at]] # parent[at] =>
            size[parent[at]] < size[parent[parent[at]]]
      BY <1>d, <1>f, <2>1 DEF FindEnds
    <3>3. size[at] \in Nat /\ size[parent[at]] \in Nat
            /\ size[parent[parent[at]]] \in Nat
      BY <1>0, <2>1 DEF ForestShape
    <3>4. QED
      BY <3>1, <3>2, <3>3
  <2>6. \A m \in 1 .. n : parent'[m] # m => size[m] < size[parent'[m]]
    <3> TAKE m \in 1 .. n
    <3>1. CASE m = at
      BY <1>0, <1>2, <2>1, <2>5, <3>1 DEF Halve, ForestShape
    <3>2. CASE m # at
      BY <1>0, <1>2, <1>d, <1>f, <3>2 DEF Halve, ForestShape, FindEnds
    <3>3. QED
      BY <3>1, <3>2
  <2>7. FindEnds'
    BY <1>2, <2>2, <2>6 DEF Halve, FindEnds
  <2>8. QED
    BY <2>4, <2>7 DEF ForestInv
<1>3. CASE FirstFound
  <2>1. Head(links)[2] \in 1 .. n
    BY <1>0, <1>3, StartIsMember DEF FirstFound, ForestShape
  <2>2. ForestShape(n)'
    BY <1>0, <1>3, <2>1 DEF FirstFound, ForestShape
  <2>3. FindEnds'
    BY <1>3, <1>f DEF FirstFound, FindEnds
  <2>4. QED
    BY <2>2, <2>3 DEF ForestInv
<1>4. CASE Unite
  <2>1. /\ at \in 1 .. n /\ root \in 1 .. n
        /\ parent[at] = at /\ parent[root] = root
    BY <1>0, <1>4 DEF Unite, ForestShape
  <2>2. /\ Tail(links) \in Seq(Pairs(n))
        /\ Tail(links) # <<>> => StartOf(Tail(links)) \in 1 .. n
    <3>1. Tail(links) \in Seq(Pairs(n))
      BY <1>0, <1>4 DEF Unite, ForestShape
    <3>2. QED
      BY <3>1, StartIsMember
  <2>3. CASE root = at
    <3>1. ForestShape(n)'
      BY <1>0, <1>4, <2>2, <2>3 DEF Unite, ForestShape, NoRoot
    <3>2. FindEnds'
      BY <1>4, <1>f, <2>3 DEF Unite, FindEnds
    <3>3. QED
      BY <3>1, <3>2 DEF ForestInv
  <2>4. CASE root # at
    <3> DEFINE big == IF size[root] >= size[at] THEN root ELSE at
               small == IF size[root] >= size[at] THEN at ELSE root
    <3>1. /\ parent' = [parent EXCEPT ![small] = big]
          /\ size' = [size EXCEPT ![big] = @ + size[small]]
          /\ links' = Tail(links) /\ at' = StartOf(Tail(links))
          /\ root' = NoRoot
      BY <1>4, <2>4 DEF Unite
    <3>2. /\ big \in 1 .. n /\ small \in 1 .. n /\ big # small
          /\ parent[big] = big /\ parent[small] = small
          /\ size[big] \in Nat \ {0} /\ size[small] \in Nat \ {0}
          /\ size[big] >= size[small]
      <4>1. /\ size[root] \in Nat /\ size[root] > 0
            /\ size[at] \in Nat /\ size[at] > 0
        <5>1. size[root] \in Nat \ {0} /\ size[at] \in Nat \ {0}
          BY <1>0, <2>1 DEF ForestShape
        <5>2. QED
          BY <5>1
      <4>2. CASE size[root] >= size[at]
        BY <2>1, <2>4, <4>1, <4>2
      <4>3. CASE ~(size[root] >= size[at])
        BY <2>1, <2>4, <4>1, <4>3
      <4>4. QED
        BY <4>2, <4>3
    <3> HIDE DEF big, small
    <3>3. /\ parent' \in [1 .. n -> 1 .. n]
          /\ size' \in [1 .. n -> Nat \ {0}]
          /\ size'[big] = size[big] + size[small]
      <4>1. parent' \in [1 .. n -> 1 .. n]
        BY <1>0, <3>1, <3>2 DEF ForestShape
      <4>2. size[big] + size[small] \in Nat \ {0}
        BY <3>2
      <4>3. size' \in [1 .. n -> Nat \ {0}]
        BY <1>0, <3>1, <3>2, <4>2 DEF ForestShape
      <4>4. size'[big] = size[big] + size[small]
        BY <1>0, <3>1, <3>2 DEF ForestShape
      <4>5. QED
        BY <4>1, <4>3, <4>4
    <3>4. ForestShape(n)'
      BY <2>2, <3>1, <3>3 DEF ForestShape, NoRoot
    <3>5. \A m \in 1 .. n : parent'[m] # m => size'[m] < size'[parent'[m]]
      <4> TAKE m \in 1 .. n
      <4>1. CASE m = small
        BY <1>0, <3>1, <3>2, <4>1 DEF ForestShape
      <4>2. CASE m # small /\ parent[m] = m
        BY <1>0, <3>1, <3>2, <4>2 DEF ForestShape
      <4>3. CASE m # small /\ parent[m] # m
        <5>1. parent'[m] = parent[m] /\ m # big /\ parent[m] \in 1 .. n
          BY <1>0, <3>1, <3>2, <4>3 DEF ForestShape
        <5>2. size[m] < size[parent[m]]
          BY <1>d, <1>f, <4>3 DEF FindEnds
        <5>3. size'[m] = size[m] /\ size'[parent[m]] >= size[parent[m]]
          <6>1. size'[m] = size[m]
            BY <1>0, <3>1, <5>1 DEF ForestShape
          <6>2. CASE parent[m] = big
            <7>1. size'[parent[m]] = size[parent[m]] + size[small]
              BY <3>3, <6>2
            <7>2. size[parent[m]] \in Nat /\ size[small] \in Nat
              BY <3>2, <6>2
            <7>3. QED
              BY <6>1, <7>1, <7>2
          <6>3. CASE parent[m] # big
            <7>1. size'[parent[m]] = size[parent[m]]
              BY <1>0, <3>1, <5>1, <6>3 DEF ForestShape
            <7>2. size[parent[m]] \in Nat
              BY <1>0, <5>1 DEF ForestShape
            <7>3. QED
              BY <6>1, <7>1, <7>2
          <6>4. QED
            BY <6>1, <6>2, <6>3
        <5>4. size[m] \in Nat /\ size[parent[m]] \in Nat /\ size'[parent[m]] \in Nat
          BY <1>0, <3>3, <5>1 DEF ForestShape
        <5>5. QED
          BY <5>1, <5>2, <5>3, <5>4
      <4>4. QED
        BY <4>1, <4>2, <4>3
    <3>6. FindEnds'
      BY <3>3, <3>5 DEF FindEnds
    <3>7. QED
      BY <3>4, <3>6 DEF ForestInv
  <2>5. QED
    BY <2>3, <2>4
<1>5. CASE UNCHANGED forest_vars
  <2>1. ForestShape(n)'
    BY <1>0, <1>5 DEF forest_vars, ForestShape
  <2>2. FindEnds'
    BY <1>5, <1>f DEF forest_vars, FindEnds
  <2>3. QED
    BY <2>1, <2>2 DEF ForestInv
<1>6. QED
  BY <1>1, <1>2, <1>3, <1>4, <1>5 DEF ForestNext, ForestStep

-----------------------------------------------------------------------------
(* UnionFind of similarity/mod.rs keeps its arrays well formed: every      *)
(* parent is a member, every tree size is positive, and a find always      *)
(* stands on a member.                                                     *)
THEOREM ForestTypeCorrect == ForestSpec => []ForestTypeOK
<1>1. ForestInv => ForestTypeOK
  BY DEF ForestInv, ForestTypeOK, ForestShape
<1>2. QED
  BY <1>1, ForestStarts, ForestKept, PTL DEF ForestSpec

(* The climb of find goes through ever larger trees, whatever pairs are    *)
(* united in whatever order, so find never loops (mod.rs:884).             *)
THEOREM FindTerminates == ForestSpec => []FindEnds
<1>1. ForestInv => FindEnds
  BY DEF ForestInv
<1>2. QED
  BY <1>1, ForestStarts, ForestKept, PTL DEF ForestSpec

-----------------------------------------------------------------------------
(***************************************************************************)
(* The clusters of the similar command.                                    *)
(***************************************************************************)
(* Among the subsets of a finite set, some are smallest.                   *)
LEMMA MinimalSubset ==
  ASSUME NEW D, IsFiniteSet(D), NEW Bad \in SUBSET SUBSET D, Bad # {}
  PROVE  \E T \in Bad : \A U \in Bad : U \subseteq T => U = T
<1>1. Bad \subseteq FiniteSubsetsOf(D)
  BY FS_Subset DEF FiniteSubsetsOf
<1>2. PICK T \in Bad : \A U \in Bad : <<U, T>> \notin StrictSubsetOrdering(D)
  BY <1>1, FS_StrictSubsetOrderingWellFounded, WFMin
<1>3. \A U \in Bad : U \subseteq T => U = T
  BY <1>2 DEF StrictSubsetOrdering
<1>4. QED
  BY <1>3

(* A sum, as the library computes it: by taking away one element after the *)
(* other.                                                                  *)
Picked(s) == CHOOSE x \in s : TRUE

IsSum(w, S, sum) ==
  sum = [s \in SUBSET S |-> IF s = {} THEN 0 ELSE w[Picked(s)] + sum[s \ {Picked(s)}]]

(* What the library computes is such a sum. *)
LEMMA SumIs ==
  ASSUME NEW w, NEW S
  PROVE  SumFunctionOnSet(w, S) = (CHOOSE sum : IsSum(w, S, sum))[S]
BY DEF SumFunctionOnSet, FoldFunctionOnSet, MapThenFoldSet, IsSum, Picked

(* The element picked is one of them. *)
LEMMA PickedIn ==
  ASSUME NEW s, s # {}
  PROVE  Picked(s) \in s
BY DEF Picked

(* What the equation says of a subset.                                     *)
LEMMA IsSumAt ==
  ASSUME NEW w, NEW S, NEW sum, IsSum(w, S, sum), NEW s \in SUBSET S
  PROVE  sum[s] = IF s = {} THEN 0 ELSE w[Picked(s)] + sum[s \ {Picked(s)}]
BY Zenon DEF IsSum

(* Two such sums agree where both are defined.                             *)
LEMMA SumsAgree ==
  ASSUME NEW D, IsFiniteSet(D), NEW w,
         NEW A \in SUBSET D, NEW a, IsSum(w, A, a),
         NEW B \in SUBSET D, NEW b, IsSum(w, B, b)
  PROVE  \A s \in SUBSET (A \cap B) : a[s] = b[s]
<1> DEFINE Bad == {s \in SUBSET (A \cap B) : a[s] # b[s]}
<1>1. ASSUME Bad # {}
      PROVE  FALSE
  <2>1. Bad \in SUBSET SUBSET D
    OBVIOUS
  <2>2. PICK s \in Bad : \A u \in Bad : u \subseteq s => u = s
    <3> HIDE DEF Bad
    <3>1. QED
      BY <1>1, <2>1, MinimalSubset
  <2>3. s \in SUBSET A /\ s \in SUBSET B /\ a[s] # b[s]
    OBVIOUS
  <2>4. s # {}
    BY <2>3, IsSumAt
  <2>5. Picked(s) \in s
    BY <2>4, PickedIn
  <2>6. a[s \ {Picked(s)}] = b[s \ {Picked(s)}]
    BY <2>2, <2>5
  <2>7. a[s] = w[Picked(s)] + a[s \ {Picked(s)}]
    BY <2>3, <2>4, IsSumAt
  <2>8. b[s] = w[Picked(s)] + b[s \ {Picked(s)}]
    BY <2>3, <2>4, IsSumAt
  <2>9. QED
    BY <2>3, <2>6, <2>7, <2>8
<1>2. QED
  BY <1>1

(* There is a sum on the subsets of every set.                             *)
LEMMA SumExists ==
  ASSUME NEW D, IsFiniteSet(D), NEW w \in [D -> Nat], NEW S \in SUBSET D
  PROVE  /\ IsSum(w, S, CHOOSE sum : IsSum(w, S, sum))
         /\ SumFunctionOnSet(w, S) \in Nat
<1> DEFINE Good(T) == \E sum \in [SUBSET T -> Nat] : IsSum(w, T, sum)
           Bad == {T \in SUBSET D : ~Good(T)}
<1>1. ASSUME Bad # {}
      PROVE  FALSE
  <2>1. Bad \in SUBSET SUBSET D
    OBVIOUS
  <2>2. PICK T \in Bad : \A U \in Bad : U \subseteq T => U = T
    <3> HIDE DEF Bad
    <3>1. QED
      BY <1>1, <2>1, MinimalSubset
  <2>3. T \in SUBSET D /\ ~Good(T) /\ \A U \in SUBSET T : U # T => Good(U)
    BY <2>2
  <2> DEFINE F(s) == (CHOOSE sum : IsSum(w, s, sum))[s]
             Entire == IF T = {} THEN 0 ELSE w[Picked(T)] + F(T \ {Picked(T)})
             all == [s \in SUBSET T |-> IF s = T THEN Entire ELSE F(s)]
  <2>4. ASSUME NEW s \in SUBSET T, s # T
        PROVE  IsSum(w, s, CHOOSE sum : IsSum(w, s, sum))
    BY <2>3, <2>4
  <2>5. ASSUME NEW s \in SUBSET T, s # T
        PROVE  F(s) \in Nat
    <3>1. PICK sum \in [SUBSET s -> Nat] : IsSum(w, s, sum)
      BY <2>3, <2>5
    <3>2. F(s) = sum[s]
      BY <2>3, <2>4, <2>5, <3>1, SumsAgree
    <3>3. QED
      BY <3>1, <3>2
  <2>6. ASSUME NEW s \in SUBSET T, s # T, s # {}
        PROVE  F(s) = w[Picked(s)] + F(s \ {Picked(s)})
    <3> DEFINE f == CHOOSE sum : IsSum(w, s, sum)
               r == s \ {Picked(s)}
               g == CHOOSE sum : IsSum(w, r, sum)
    <3>1. Picked(s) \in s /\ r \in SUBSET T /\ r # T /\ r \in SUBSET (s \cap r)
      BY <2>6, PickedIn
    <3>2. IsSum(w, s, f) /\ IsSum(w, r, g)
      BY <2>4, <2>6, <3>1
    <3> HIDE DEF f, g
    <3>3. f[s] = w[Picked(s)] + f[r]
      BY <2>6, <3>2, IsSumAt
    <3>4. s \in SUBSET D /\ r \in SUBSET D
      BY <2>3
    <3>5. \A u \in SUBSET (s \cap r) : f[u] = g[u]
      BY <3>2, <3>4, SumsAgree
    <3>6. f[r] = g[r]
      BY <3>1, <3>5
    <3>7. QED
      BY <3>3, <3>6 DEF f, g
  <2>7. T # {} => Picked(T) \in T /\ T \ {Picked(T)} \in SUBSET T /\ T \ {Picked(T)} # T
    BY PickedIn
  <2>8. Entire \in Nat
    <3>1. ASSUME T # {}
          PROVE  w[Picked(T)] \in Nat /\ F(T \ {Picked(T)}) \in Nat
      <4>1. Picked(T) \in D
        BY <2>3, <2>7, <3>1
      <4>2. F(T \ {Picked(T)}) \in Nat
        BY <2>5, <2>7, <3>1
      <4>3. QED
        BY <4>1, <4>2
    <3> HIDE DEF F
    <3>2. QED
      BY <3>1
  <2>9. F({}) = 0 \/ T = {}
    <3>1. ASSUME T # {}
          PROVE  F({}) = 0
      <4>1. IsSum(w, {}, CHOOSE sum : IsSum(w, {}, sum))
        BY <2>4, <3>1
      <4>2. QED
        BY <4>1, IsSumAt
    <3>2. QED
      BY <3>1
  <2> HIDE DEF F
  <2>10. all \in [SUBSET T -> Nat]
    BY <2>5, <2>8
  <2>11. IsSum(w, T, all)
    <3>1. ASSUME NEW s \in SUBSET T
          PROVE  all[s] = IF s = {} THEN 0 ELSE w[Picked(s)] + all[s \ {Picked(s)}]
      <4>1. CASE s = {}
        BY <2>9, <4>1
      <4>2. CASE s # {} /\ s = T
        BY <2>7, <4>2
      <4>3. CASE s # {} /\ s # T
        <5>1. Picked(s) \in s
          BY <4>3, PickedIn
        <5>2. s \ {Picked(s)} \in SUBSET T /\ s \ {Picked(s)} # T
          BY <5>1
        <5>3. QED
          BY <2>6, <4>3, <5>2
      <4>4. QED
        BY <4>1, <4>2, <4>3
    <3>2. all = [s \in SUBSET T |-> all[s]]
      OBVIOUS
    <3> HIDE DEF all
    <3>3. QED
      BY <3>1, <3>2 DEF IsSum
  <2>12. QED
    BY <2>3, <2>10, <2>11
<1>2. PICK sum \in [SUBSET S -> Nat] : IsSum(w, S, sum)
  BY <1>1
<1>3. IsSum(w, S, CHOOSE s : IsSum(w, S, s))
  BY <1>2
<1>4. (CHOOSE s : IsSum(w, S, s))[S] = sum[S]
  BY <1>2, <1>3, SumsAgree
<1>5. QED
  BY <1>2, <1>3, <1>4, SumIs

(* The sum by taking away the element the library picks.                   *)
LEMMA SumPicked ==
  ASSUME NEW D, IsFiniteSet(D), NEW w \in [D -> Nat], NEW S \in SUBSET D
  PROVE  SumFunctionOnSet(w, S) = IF S = {} THEN 0 ELSE w[Picked(S)] + SumFunctionOnSet(w, S \ {Picked(S)})
<1> DEFINE r == S \ {Picked(S)}
           f == CHOOSE sum : IsSum(w, S, sum)
           g == CHOOSE sum : IsSum(w, r, sum)
<1>1. IsSum(w, S, f) /\ IsSum(w, r, g) /\ r \in SUBSET D /\ r \in SUBSET (S \cap r)
  BY SumExists
<1>2. SumFunctionOnSet(w, S) = f[S] /\ SumFunctionOnSet(w, r) = g[r]
  BY SumIs
<1> HIDE DEF f, g
<1>3. f[r] = g[r]
  BY <1>1, SumsAgree
<1>4. f[S] = IF S = {} THEN 0 ELSE w[Picked(S)] + f[r]
  BY <1>1, IsSumAt
<1>5. QED
  BY <1>2, <1>3, <1>4

(* A sum is at least the number of its positive terms.                     *)
LEMMA SumCounts ==
  ASSUME NEW D, IsFiniteSet(D), NEW w \in [D -> Nat], NEW S \in SUBSET D,
         NEW T \in SUBSET S, \A x \in T : w[x] >= 1
  PROVE  Cardinality(T) <= SumFunctionOnSet(w, S)
<1> DEFINE Bad == {U \in SUBSET D : ~(Cardinality(T \cap U) <= SumFunctionOnSet(w, U))}
<1>1. ASSUME Bad # {}
      PROVE  FALSE
  <2>1. Bad \in SUBSET SUBSET D
    OBVIOUS
  <2>2. PICK U \in Bad : \A V \in Bad : V \subseteq U => V = U
    <3> HIDE DEF Bad
    <3>1. QED
      BY <1>1, <2>1, MinimalSubset
  <2>3. U \in SUBSET D /\ ~(Cardinality(T \cap U) <= SumFunctionOnSet(w, U))
    OBVIOUS
  <2>4. U # {}
    <3>1. T \cap {} = {} /\ Cardinality({}) = 0
      BY FS_EmptySet
    <3>2. SumFunctionOnSet(w, {}) \in Nat
      BY SumExists
    <3>3. QED
      BY <2>3, <3>1, <3>2
  <2> DEFINE c == Picked(U)
             V == U \ {c}
  <2>5. c \in U
    BY <2>4, PickedIn
  <2>6. SumFunctionOnSet(w, U) = w[c] + SumFunctionOnSet(w, V)
    BY <2>3, <2>4, SumPicked
  <2> HIDE DEF c
  <2>7. V \in SUBSET D /\ V # U /\ V \subseteq U
    BY <2>3, <2>5
  <2>8. Cardinality(T \cap V) <= SumFunctionOnSet(w, V)
    BY <2>2, <2>7
  <2>9. IsFiniteSet(T \cap U) /\ T \cap V = (T \cap U) \ {c}
    <3>1. T \cap U \in SUBSET D
      OBVIOUS
    <3>2. QED
      BY <3>1, FS_Subset
  <2>10. Cardinality(T \cap V) = IF c \in T THEN Cardinality(T \cap U) - 1 ELSE Cardinality(T \cap U)
    <3>1. Cardinality((T \cap U) \ {c})
            = IF c \in T \cap U THEN Cardinality(T \cap U) - 1 ELSE Cardinality(T \cap U)
      BY <2>9, FS_RemoveElement
    <3> HIDE DEF V
    <3>2. QED
      BY <2>5, <2>9, <3>1
  <2>11. Cardinality(T \cap U) \in Nat
    BY <2>9, FS_CardinalityType
  <2>12. w[c] \in Nat /\ SumFunctionOnSet(w, V) \in Nat /\ (c \in T => w[c] >= 1)
    BY <2>3, <2>5, <2>7, SumExists
  <2> HIDE DEF V
  <2>13. QED
    BY <2>3, <2>6, <2>8, <2>10, <2>11, <2>12
<1>2. T \cap S = T
  OBVIOUS
<1>3. QED
  BY <1>1, <1>2

-----------------------------------------------------------------------------
(* The ranks of an order: when the elements below two elements of a set    *)
(* never are the same ones, but some more for one of the two, every number *)
(* below the cardinality is the rank of one element.                       *)
LEMMA Ranks ==
  ASSUME NEW S, IsFiniteSet(S), NEW below \in [S -> SUBSET S],
         \A x \in S : x \notin below[x],
         \A x, y \in S : x # y => \/ below[x] \subseteq below[y] /\ below[x] # below[y]
                                  \/ below[y] \subseteq below[x] /\ below[x] # below[y]
  PROVE  /\ \A x \in S : Cardinality(below[x]) \in 0 .. Cardinality(S) - 1
         /\ \A x, y \in S : Cardinality(below[x]) = Cardinality(below[y]) => x = y
         /\ \A i \in 1 .. Cardinality(S) : \E x \in S : Cardinality(below[x]) = i - 1
<1>0. Cardinality(S) \in Nat
  BY FS_CardinalityType
<1>1. ASSUME NEW x \in S
      PROVE  Cardinality(below[x]) \in 0 .. Cardinality(S) - 1
  <2>1. below[x] \in SUBSET S /\ below[x] # S
    OBVIOUS
  <2>2. /\ IsFiniteSet(below[x]) /\ Cardinality(below[x]) <= Cardinality(S)
        /\ Cardinality(S) # Cardinality(below[x])
    BY <2>1, FS_Subset
  <2>3. Cardinality(below[x]) \in Nat
    BY <2>2, FS_CardinalityType
  <2>4. QED
    BY <1>0, <2>2, <2>3
<1>2. ASSUME NEW x \in S, NEW y \in S, below[x] \subseteq below[y], below[x] # below[y]
      PROVE  Cardinality(below[x]) # Cardinality(below[y])
  <2>1. IsFiniteSet(below[y]) /\ below[x] \in SUBSET below[y]
    BY <1>2, FS_Subset
  <2>2. QED
    BY <1>2, <2>1, FS_Subset
<1>3. \A x, y \in S : Cardinality(below[x]) = Cardinality(below[y]) => x = y
  BY <1>2
<1>4. ASSUME NEW i \in 1 .. Cardinality(S)
      PROVE  \E x \in S : Cardinality(below[x]) = i - 1
  <2> DEFINE T == 0 .. Cardinality(S) - 1
             rank == [x \in S |-> Cardinality(below[x])]
  <2>1. rank \in Injection(S, T)
    BY <1>1, <1>3 DEF Injection, IsInjective
  <2>2. IsFiniteSet(T) /\ Cardinality(T) = Cardinality(S)
    <3>1. Cardinality(S) - 1 \in Int /\ 0 \in Int
      BY <1>0
    <3>2. /\ IsFiniteSet(0 .. Cardinality(S) - 1)
          /\ Cardinality(0 .. Cardinality(S) - 1)
               = IF 0 > Cardinality(S) - 1 THEN 0 ELSE (Cardinality(S) - 1) - 0 + 1
      BY <3>1, FS_Interval
    <3>3. QED
      BY <1>0, <3>2
  <2>3. rank \in Surjection(S, T)
    <3> HIDE DEF T, rank
    <3>1. QED
      BY <2>1, <2>2, FS_Injection
  <2>4. i - 1 \in T
    BY <1>0
  <2>5. \E x \in S : rank[x] = i - 1
    <3> HIDE DEF T, rank
    <3>1. QED
      BY <2>3, <2>4 DEF Surjection
  <2>6. QED
    BY <2>5
<1>5. QED
  BY <1>1, <1>3, <1>4

-----------------------------------------------------------------------------
(* A set that no edge leads out of or into, and one that is a union of     *)
(* trees of a forest.                                                      *)
Uncut(edges, S) == \A e \in edges : e[1] \in S <=> e[2] \in S

Rooted(up, S) == \A m \in DOMAIN up : m \in S <=> up[m] \in S

(* The equation of find. *)
Climbs(p, up) == up = [m \in DOMAIN p |-> IF p[m] = m THEN m ELSE up[p[m]]]

(* What the equation says of a member. *)
LEMMA ClimbsAt ==
  ASSUME NEW p, NEW up, Climbs(p, up), NEW m \in DOMAIN p
  PROVE  up[m] = IF p[m] = m THEN m ELSE up[p[m]]
BY Zenon DEF Climbs

(* root_of is a solution of it, if there is one. *)
LEMMA RootIs ==
  ASSUME NEW p
  PROVE  root_of(p) = CHOOSE up : Climbs(p, up)
BY DEF root_of, Climbs

(* What is met on the climb from a member: all of it but the member is met *)
(* on the climb from its parent.                                           *)
Above(p, m) ==
  {x \in DOMAIN p : \A U \in SUBSET DOMAIN p : m \in U /\ (\A u \in U : p[u] \in U) => x \in U}

RootsAbove(p, m) == {x \in Above(p, m) : p[x] = x}

(* The roots above a member are those above its parent, or itself. *)
LEMMA RootsOfParent ==
  ASSUME NEW D, NEW p \in [D -> D], NEW m \in D
  PROVE  /\ p[m] = m => RootsAbove(p, m) = {m}
         /\ p[m] # m => RootsAbove(p, m) = RootsAbove(p, p[m])
<1>1. m \in Above(p, m)
  BY DEF Above
<1>2. ASSUME p[m] = m
      PROVE  RootsAbove(p, m) = {m}
  <2>1. \A x \in Above(p, m) : x \in {m}
    <3>1. {m} \in SUBSET DOMAIN p /\ \A u \in {m} : p[u] \in {m}
      BY <1>2
    <3>2. QED
      BY <3>1 DEF Above
  <2>2. QED
    BY <1>1, <1>2, <2>1 DEF RootsAbove
<1>3. ASSUME p[m] # m
      PROVE  RootsAbove(p, m) = RootsAbove(p, p[m])
  <2>1. ASSUME NEW x \in Above(p, p[m])
        PROVE  x \in Above(p, m)
    BY <2>1 DEF Above
  <2>2. ASSUME NEW x \in Above(p, m), x # m
        PROVE  x \in Above(p, p[m])
    <3>1. ASSUME NEW U \in SUBSET DOMAIN p, p[m] \in U, \A u \in U : p[u] \in U
          PROVE  x \in U
      <4>1. /\ U \cup {m} \in SUBSET DOMAIN p /\ m \in U \cup {m}
            /\ \A u \in U \cup {m} : p[u] \in U \cup {m}
        BY <3>1
      <4>2. x \in U \cup {m}
        BY <4>1 DEF Above
      <4>3. QED
        BY <2>2, <4>2
    <3>2. x \in DOMAIN p
      BY DEF Above
    <3>3. QED
      BY <3>1, <3>2 DEF Above
  <2>3. QED
    BY <1>3, <2>1, <2>2 DEF RootsAbove
<1>4. QED
  BY <1>2, <1>3

(* The equation of find has a solution, whatever the parents. *)
LEMMA RootExists ==
  ASSUME NEW D, NEW p \in [D -> D]
  PROVE  Climbs(p, root_of(p))
<1> DEFINE up == [m \in D |-> CHOOSE x : x \in RootsAbove(p, m)]
<1>1. ASSUME NEW m \in D
      PROVE  up[m] = IF p[m] = m THEN m ELSE up[p[m]]
  <2>1. CASE p[m] = m
    <3>1. (CHOOSE x : x \in {m}) = m
      OBVIOUS
    <3>2. RootsAbove(p, m) = {m}
      BY <2>1, RootsOfParent
    <3>3. QED
      BY <2>1, <3>1, <3>2
  <2>2. CASE p[m] # m
    <3>1. RootsAbove(p, m) = RootsAbove(p, p[m]) /\ p[m] \in D
      BY <2>2, RootsOfParent
    <3>2. QED
      BY <2>2, <3>1
  <2>3. QED
    BY <2>1, <2>2
<1>2. up = [m \in D |-> up[m]] /\ DOMAIN p = D
  OBVIOUS
<1> HIDE DEF up
<1>3. up = [m \in D |-> IF p[m] = m THEN m ELSE up[p[m]]]
  BY <1>1, <1>2, Zenon
<1>4. Climbs(p, up)
  BY <1>2, <1>3 DEF Climbs
<1>5. QED
  BY <1>4, RootIs

(* Where every parent is larger than its child, find returns the root of   *)
(* the tree a member is in.                                                *)
LEMMA RootFound ==
  ASSUME NEW D, IsFiniteSet(D), NEW p \in [D -> D], NEW sz \in [D -> Nat],
         \A m \in D : p[m] # m => sz[m] < sz[p[m]]
  PROVE  \A m \in D : /\ root_of(p)[m] \in D
                      /\ p[root_of(p)[m]] = root_of(p)[m]
                      /\ \A S : Rooted(p, S) => (m \in S <=> root_of(p)[m] \in S)
<1> DEFINE up == root_of(p)
           Found(m) == /\ up[m] \in D /\ p[up[m]] = up[m]
                       /\ \A S : Rooted(p, S) => (m \in S <=> up[m] \in S)
           Larger_(m) == {x \in D : sz[m] < sz[x]}
           Bad == {Larger_(m) : m \in {x \in D : ~Found(x)}}
<1>1. ASSUME NEW m \in D
      PROVE  up[m] = IF p[m] = m THEN m ELSE up[p[m]]
  BY RootExists, ClimbsAt
<1> HIDE DEF up
<1>2. ASSUME NEW m \in D, p[m] # m, Found(p[m])
      PROVE  Found(m)
  <2>1. up[m] = up[p[m]]
    BY <1>1, <1>2
  <2>2. \A S : Rooted(p, S) => (m \in S <=> p[m] \in S)
    BY DEF Rooted
  <2>3. QED
    BY <1>2, <2>1, <2>2
<1>3. ASSUME NEW m \in D, p[m] = m
      PROVE  Found(m)
  <2>1. up[m] = m
    BY <1>1, <1>3
  <2>2. QED
    BY <1>3, <2>1
<1> HIDE DEF Found
<1>4. ASSUME Bad # {}
      PROVE  FALSE
  <2>1. Bad \in SUBSET SUBSET D
    OBVIOUS
  <2>2. PICK T \in Bad : \A U \in Bad : U \subseteq T => U = T
    <3> HIDE DEF Bad
    <3>1. QED
      BY <1>4, <2>1, MinimalSubset
  <2>3. PICK m \in D : ~Found(m) /\ T = Larger_(m)
    OBVIOUS
  <2>4. p[m] \in D /\ sz[m] < sz[p[m]] /\ ~Found(p[m])
    BY <1>2, <1>3, <2>3
  <2>5. Larger_(p[m]) \in Bad
    BY <2>4
  <2>6. sz[m] \in Nat /\ sz[p[m]] \in Nat /\ \A x \in D : sz[x] \in Nat
    BY <2>4
  <2>7. Larger_(p[m]) \subseteq T
    BY <2>3, <2>4, <2>6
  <2>8. p[m] \in T /\ p[m] \notin Larger_(p[m])
    BY <2>3, <2>4, <2>6
  <2>9. QED
    BY <2>2, <2>5, <2>7, <2>8
<1>5. \A m \in D : Found(m)
  BY <1>4
<1>6. QED
  BY <1>5 DEF Found, up

(* So the groups are the trees: each member is in one, and a union of      *)
(* trees holds all of a group or nothing of it.                            *)
LEMMA GroupsAreTrees ==
  ASSUME NEW D, IsFiniteSet(D), NEW p \in [D -> D], NEW sz \in [D -> Nat],
         \A m \in D : p[m] # m => sz[m] < sz[p[m]]
  PROVE  /\ groups_of(p) \in SUBSET SUBSET D
         /\ \A m \in D : \E g \in groups_of(p) : m \in g
         /\ \A g \in groups_of(p) :
              /\ g # {} /\ Rooted(p, g)
              /\ \A S : Rooted(p, S) /\ S \cap g # {} => g \subseteq S
<1> DEFINE up == root_of(p)
           Tree(r) == {m \in D : up[m] = r}
<1>1. \A m \in D : /\ up[m] \in D /\ p[up[m]] = up[m]
                   /\ \A S : Rooted(p, S) => (m \in S <=> up[m] \in S)
  BY RootFound
<1>2. \A m \in D : up[m] = IF p[m] = m THEN m ELSE up[p[m]]
  BY RootExists, ClimbsAt
<1>3. groups_of(p) = {Tree(r) : r \in {m \in D : p[m] = m}}
  <2>1. DOMAIN p = D
    OBVIOUS
  <2>2. QED
    BY <2>1, Zenon DEF groups_of
<1> HIDE DEF up
<1>4. ASSUME NEW m \in D
      PROVE  up[p[m]] = up[m]
  BY <1>2
<1>5. ASSUME NEW g \in groups_of(p)
      PROVE  /\ g \in SUBSET D /\ g # {} /\ Rooted(p, g)
             /\ \A S : Rooted(p, S) /\ S \cap g # {} => g \subseteq S
  <2>1. PICK r \in D : p[r] = r /\ g = Tree(r)
    BY <1>3
  <2>2. r \in g
    BY <1>2, <2>1
  <2>3. Rooted(p, g)
    BY <1>4, <2>1 DEF Rooted
  <2>4. ASSUME NEW S, Rooted(p, S), S \cap g # {}
        PROVE  g \subseteq S
    <3>1. PICK m \in g : m \in S
      BY <2>4
    <3>2. m \in D /\ up[m] = r
      BY <2>1
    <3>3. r \in S
      BY <1>1, <2>4, <3>1, <3>2
    <3>4. \A x \in g : x \in D /\ up[x] = r
      BY <2>1
    <3>5. QED
      BY <1>1, <2>4, <3>3, <3>4
  <2>5. QED
    BY <2>1, <2>2, <2>3, <2>4
<1>6. ASSUME NEW m \in D
      PROVE  \E g \in groups_of(p) : m \in g
  <2>1. m \in Tree(up[m]) /\ Tree(up[m]) \in groups_of(p)
    BY <1>1, <1>3
  <2>2. QED
    BY <2>1
<1>7. QED
  BY <1>5, <1>6

(* Pairwise disjoint groups are what hangs together and has no edge to the *)
(* outside, when the sets that no edge cuts are the unions of groups.      *)
LEMMA GroupsAreComponents ==
  ASSUME NEW D, NEW edges, NEW G \in SUBSET SUBSET D,
         \A m \in D : \E g \in G : m \in g,
         \A g \in G : /\ g # {} /\ Uncut(edges, g)
                      /\ \A S \in SUBSET D : Uncut(edges, S) /\ S \cap g # {} => g \subseteq S
  PROVE  G = {S \in SUBSET D : S # {} /\ Linked(edges, S) /\ Uncut(edges, S)}
<1>1. ASSUME NEW g \in G
      PROVE  Linked(edges, g)
  <2>1. SUFFICES ASSUME NEW S \in SUBSET g, S # {}, S # g,
                        \A e \in Inside(edges, g) : ~((e[1] \in S) # (e[2] \in S))
                 PROVE  FALSE
    BY DEF Linked
  <2>2. Uncut(edges, S)
    BY <2>1 DEF Uncut, Inside
  <2>3. S \in SUBSET D /\ S \cap g # {}
    BY <2>1
  <2>4. g \subseteq S
    BY <2>2, <2>3
  <2>5. QED
    BY <2>1, <2>4
<1>2. ASSUME NEW S \in SUBSET D, S # {}, Linked(edges, S), Uncut(edges, S)
      PROVE  S \in G
  <2>1. PICK g \in G : S \cap g # {}
    BY <1>2
  <2>2. g \subseteq S /\ g # {} /\ Uncut(edges, g)
    BY <1>2, <2>1
  <2>3. CASE g # S
    <3>1. PICK e \in Inside(edges, S) : (e[1] \in g) # (e[2] \in g)
      BY <1>2, <2>2, <2>3 DEF Linked
    <3>2. QED
      BY <2>2, <3>1 DEF Uncut, Inside
  <2>4. QED
    BY <2>3
<1>3. QED
  BY <1>1, <1>2

-----------------------------------------------------------------------------
(* While the pairs are united: the trees, and what is still to be united,  *)
(* connect what the edges connect, and the running find stands in the tree *)
(* it started in.                                                          *)
Connected(n, edges) ==
  \A S \in SUBSET (1 .. n) :
    Rooted(parent, S) /\ Uncut(Range(links), S) <=> Uncut(edges, S)

FindStands(n) ==
  links # <<>> =>
    \A S \in SUBSET (1 .. n) : Rooted(parent, S) =>
      IF root = NoRoot THEN at \in S <=> Head(links)[1] \in S
      ELSE /\ root \in S <=> Head(links)[1] \in S
           /\ at \in S <=> Head(links)[2] \in S

LinkInv(n, edges) ==
  ForestShape(n) /\ FindEnds /\ Connected(n, edges) /\ FindStands(n)

(* A forest over n members stays one. *)
LEMMA ForestStepKeeps ==
  ASSUME NEW n \in Nat, ForestShape(n), FindEnds, ForestStep
  PROVE  ForestShape(n)' /\ FindEnds'
<1>1. ForestInv'
  BY ForestKept DEF ForestInv, ForestNext
<1>2. PICK k \in Nat : ForestShape(k)'
  BY <1>1 DEF ForestInv
<1>3. DOMAIN parent = 1 .. n /\ DOMAIN parent' = 1 .. k
  BY <1>2 DEF ForestShape
<1>4. DOMAIN parent' = DOMAIN parent
  BY <1>3 DEF ForestStep, Halve, FirstFound, Unite
<1>5. k = n
  <2>1. n \in 1 .. k \/ n = 0
    BY <1>3, <1>4
  <2>2. k \in 1 .. n \/ k = 0
    BY <1>3, <1>4
  <2>3. \A i \in Nat : i = 0 => 1 .. i = {}
    OBVIOUS
  <2>4. QED
    BY <1>3, <1>4, <2>1, <2>2
<1>6. QED
  BY <1>1, <1>2, <1>5 DEF ForestInv

(* The next pair and the later ones are all there are. *)
LEMMA RangeOfLinks ==
  ASSUME NEW n, links \in Seq(Pairs(n)), links # <<>>
  PROVE  Range(links) = {Head(links)} \cup Range(Tail(links))
<1>1. /\ DOMAIN links = 1 .. Len(links) /\ Len(links) \in Nat /\ Len(links) > 0
      /\ Head(links) = links[1]
      /\ DOMAIN Tail(links) = 1 .. Len(links) - 1
      /\ \A i \in 1 .. Len(links) - 1 : Tail(links)[i] = links[i + 1]
  OBVIOUS
<1>2. ASSUME NEW e \in Range(links)
      PROVE  e \in {Head(links)} \cup Range(Tail(links))
  <2>1. PICK i \in 1 .. Len(links) : e = links[i]
    BY <1>1 DEF Range
  <2>2. CASE i = 1
    BY <1>1, <2>1, <2>2
  <2>3. CASE i # 1
    <3>1. i - 1 \in 1 .. Len(links) - 1 /\ (i - 1) + 1 = i
      BY <1>1, <2>3
    <3>2. e = Tail(links)[i - 1]
      BY <1>1, <2>1, <3>1
    <3>3. QED
      BY <1>1, <3>1, <3>2 DEF Range
  <2>4. QED
    BY <2>2, <2>3
<1>3. Head(links) \in Range(links)
  BY <1>1 DEF Range
<1>4. ASSUME NEW e \in Range(Tail(links))
      PROVE  e \in Range(links)
  <2>1. PICK i \in 1 .. Len(links) - 1 : e = Tail(links)[i]
    BY <1>1 DEF Range
  <2>2. i + 1 \in 1 .. Len(links) /\ e = links[i + 1]
    BY <1>1, <2>1
  <2>3. QED
    BY <1>1, <2>2 DEF Range
<1>5. QED
  BY <1>2, <1>3, <1>4

(* Halving a path connects nothing and cuts nothing. *)
LEMMA HalveConnects ==
  ASSUME NEW n \in Nat, NEW edges, LinkInv(n, edges), Halve
  PROVE  Connected(n, edges)' /\ FindStands(n)'
<1>1. /\ at \in 1 .. n /\ parent[at] \in 1 .. n /\ parent[parent[at]] \in 1 .. n
      /\ parent \in [1 .. n -> 1 .. n] /\ parent[at] # at
      /\ parent' = [parent EXCEPT ![at] = parent[parent[at]]]
      /\ at' = parent[parent[at]] /\ links' = links /\ root' = root
  BY DEF LinkInv, ForestShape, Halve
<1>2. ASSUME NEW S \in SUBSET (1 .. n)
      PROVE  Rooted(parent', S) <=> Rooted(parent, S)
  <2>1. ASSUME Rooted(parent, S)
        PROVE  Rooted(parent', S)
    BY <1>1, <2>1 DEF Rooted
  <2>2. ASSUME Rooted(parent', S)
        PROVE  Rooted(parent, S)
    <3>1. parent'[at] = parent[parent[at]] /\ parent'[parent[at]] = parent[parent[at]]
      BY <1>1
    <3>2. at \in S <=> parent[at] \in S
      BY <1>1, <2>2, <3>1 DEF Rooted
    <3>3. QED
      BY <1>1, <2>2, <3>2 DEF Rooted
  <2>3. QED
    BY <2>1, <2>2
<1>3. ASSUME NEW S \in SUBSET (1 .. n), Rooted(parent, S)
      PROVE  at' \in S <=> at \in S
  BY <1>1, <1>3 DEF Rooted
<1>4. Connected(n, edges)'
  BY <1>1, <1>2 DEF LinkInv, Connected
<1>5. FindStands(n)'
  BY <1>1, <1>2, <1>3 DEF LinkInv, FindStands
<1>6. QED
  BY <1>4, <1>5

(* The first find of a union changes no tree. *)
LEMMA FirstFoundConnects ==
  ASSUME NEW n \in Nat, NEW edges, LinkInv(n, edges), FirstFound
  PROVE  Connected(n, edges)' /\ FindStands(n)'
<1>1. Connected(n, edges)'
  BY DEF LinkInv, Connected, FirstFound
<1>2. at # NoRoot
  BY DEF LinkInv, ForestShape, FirstFound, NoRoot
<1>3. FindStands(n)'
  BY <1>2 DEF LinkInv, FindStands, FirstFound
<1>4. QED
  BY <1>1, <1>3

(* A union connects what the pair connects, no more. *)
LEMMA UniteConnects ==
  ASSUME NEW n \in Nat, NEW edges, LinkInv(n, edges), Unite
  PROVE  Connected(n, edges)' /\ FindStands(n)'
<1>1. /\ at \in 1 .. n /\ root \in 1 .. n /\ parent[at] = at /\ parent[root] = root
      /\ parent \in [1 .. n -> 1 .. n] /\ links # <<>> /\ links \in Seq(Pairs(n))
      /\ root # NoRoot
      /\ links' = Tail(links) /\ at' = StartOf(Tail(links)) /\ root' = NoRoot
  BY DEF LinkInv, ForestShape, Unite
<1>2. ASSUME NEW S \in SUBSET (1 .. n)
      PROVE  Rooted(parent', S) <=> Rooted(parent, S) /\ (root \in S <=> at \in S)
  <2>1. CASE root = at
    BY <2>1 DEF Unite
  <2>2. CASE root # at
    <3>1. PICK big \in {root, at}, small \in {root, at} :
            big # small /\ parent' = [parent EXCEPT ![small] = big]
      BY <2>2 DEF Unite
    <3>2. parent[small] = small /\ small \in 1 .. n /\ parent'[small] = big
      BY <1>1, <3>1
    <3>3. DOMAIN parent' = 1 .. n /\ \A m \in 1 .. n : m # small => parent'[m] = parent[m]
      BY <1>1, <3>1
    <3>4. Rooted(parent', S) <=>
            (\A m \in 1 .. n : m # small => (m \in S <=> parent[m] \in S)) /\ (small \in S <=> big \in S)
      BY <3>2, <3>3 DEF Rooted
    <3>5. Rooted(parent, S) <=>
            (\A m \in 1 .. n : m # small => (m \in S <=> parent[m] \in S))
      <4>1. DOMAIN parent = 1 .. n
        BY <1>1
      <4>2. QED
        BY <3>2, <4>1 DEF Rooted
    <3>6. QED
      BY <3>1, <3>4, <3>5
  <2>3. QED
    BY <2>1, <2>2
<1>3. ASSUME NEW S \in SUBSET (1 .. n), Rooted(parent, S)
      PROVE  (root \in S <=> at \in S) <=> (Head(links)[1] \in S <=> Head(links)[2] \in S)
  BY <1>1, <1>3 DEF LinkInv, FindStands
<1>4. \A S : Uncut(Range(links), S) <=>
        (Head(links)[1] \in S <=> Head(links)[2] \in S) /\ Uncut(Range(Tail(links)), S)
  BY <1>1, RangeOfLinks DEF Uncut
<1>5. Connected(n, edges)'
  BY <1>1, <1>2, <1>3, <1>4 DEF LinkInv, Connected
<1>6. FindStands(n)'
  BY <1>1 DEF FindStands, StartOf
<1>7. QED
  BY <1>5, <1>6

(* A step of the forest keeps what holds while pairs are united. *)
LEMMA LinkKept ==
  ASSUME NEW n \in Nat, NEW edges, LinkInv(n, edges), ForestStep
  PROVE  LinkInv(n, edges)'
<1>1. ForestShape(n)' /\ FindEnds'
  BY ForestStepKeeps DEF LinkInv
<1>2. Connected(n, edges)' /\ FindStands(n)'
  BY HalveConnects, FirstFoundConnects, UniteConnects DEF ForestStep
<1>3. QED
  BY <1>1, <1>2 DEF LinkInv

(* When a document's pairs are about to be united.                         *)
LEMMA LinkBegins ==
  ASSUME NEW n \in Nat, NEW pairs \in Seq(Pairs(n)), Begin(n, pairs)
  PROVE  LinkInv(n, Range(pairs))'
<1>1. /\ parent' = [m \in 1 .. n |-> m] /\ size' = [m \in 1 .. n |-> 1]
      /\ links' = pairs /\ at' = StartOf(pairs) /\ root' = NoRoot
  BY DEF Begin
<1>2. pairs # <<>> => StartOf(pairs) \in 1 .. n
  BY StartIsMember
<1>3. ForestShape(n)'
  BY <1>1, <1>2 DEF ForestShape, NoRoot
<1>4. FindEnds'
  BY <1>1 DEF FindEnds
<1>5. \A S : Rooted(parent', S)
  BY <1>1 DEF Rooted
<1>6. Connected(n, Range(pairs))'
  BY <1>1, <1>5 DEF Connected
<1>7. FindStands(n)'
  BY <1>1 DEF FindStands, StartOf
<1>8. QED
  BY <1>3, <1>4, <1>6, <1>7 DEF LinkInv

(* Once they are, the groups are the components.                           *)
LEMMA GroupsWhenLinked ==
  ASSUME NEW n \in Nat, NEW edges, LinkInv(n, edges), links = <<>>
  PROVE  groups_of(parent) =
           {S \in SUBSET (1 .. n) : S # {} /\ Linked(edges, S) /\ Uncut(edges, S)}
<1> DEFINE D == 1 .. n
<1>1. /\ parent \in [D -> D] /\ size \in [D -> Nat]
      /\ \A m \in D : parent[m] # m => size[m] < size[parent[m]]
  <2>1. parent \in [D -> D] /\ size \in [D -> Nat]
    BY DEF LinkInv, ForestShape
  <2>2. QED
    BY <2>1 DEF LinkInv, FindEnds
<1>2. IsFiniteSet(D)
  BY FS_Interval
<1> HIDE DEF D
<1>3. /\ groups_of(parent) \in SUBSET SUBSET (D)
      /\ \A m \in D : \E g \in groups_of(parent) : m \in g
      /\ \A g \in groups_of(parent) :
           /\ g # {} /\ Rooted(parent, g)
           /\ \A S : Rooted(parent, S) /\ S \cap g # {} => g \subseteq S
  BY <1>1, <1>2, GroupsAreTrees
<1>4. \A S \in SUBSET (D) : Rooted(parent, S) <=> Uncut(edges, S)
  <2>1. Range(links) = {}
    BY DEF Range
  <2>2. \A S : Uncut(Range(links), S)
    BY <2>1 DEF Uncut
  <2>3. QED
    BY <2>2 DEF LinkInv, Connected, D
<1>5. \A g \in groups_of(parent) :
        /\ g # {} /\ Uncut(edges, g)
        /\ \A S \in SUBSET (D) : Uncut(edges, S) /\ S \cap g # {} => g \subseteq S
  BY <1>3, <1>4
<1>6. groups_of(parent) = {S \in SUBSET D : S # {} /\ Linked(edges, S) /\ Uncut(edges, S)}
  <2>1. PICK G : G = groups_of(parent)
    OBVIOUS
  <2>2. /\ G \in SUBSET SUBSET D /\ \A m \in D : \E g \in G : m \in g
        /\ \A g \in G : /\ g # {} /\ Uncut(edges, g)
                         /\ \A S \in SUBSET D : Uncut(edges, S) /\ S \cap g # {} => g \subseteq S
    BY <1>3, <1>5, <2>1
  <2>3. G = {S \in SUBSET D : S # {} /\ Linked(edges, S) /\ Uncut(edges, S)}
    BY ONLY <2>2, GroupsAreComponents
  <2>4. QED
    BY <2>1, <2>3
<1>7. QED
  BY <1>6 DEF D

-----------------------------------------------------------------------------
(* The gate without the quotient.                                          *)
Dense(edges, w, bar, S) ==
  2 * SumFunctionOnSet(w, Inside(edges, S)) >= bar * Cardinality(S) * (Cardinality(S) - 1)

(* A truncated quotient reaches a bar when the number divided does. *)
LEMMA QuotientBar ==
  ASSUME NEW a \in Int, NEW d \in Int, d > 0, NEW bar \in Int
  PROVE  a \div d >= bar <=> a >= bar * d
<1> DEFINE q == a \div d
           r == a % d
<1>1. q \in Int /\ r \in Int /\ a = d * q + r /\ 0 <= r /\ r < d
  OBVIOUS
<1> HIDE DEF q, r
<1>2. CASE q >= bar
  <2>1. d * q >= d * bar
    BY <1>1, <1>2
  <2>2. QED
    BY <1>1, <1>2, <2>1 DEF q
<1>3. CASE ~(q >= bar)
  <2>1. d * (q + 1) <= d * bar
    BY <1>1, <1>3
  <2>2. d * (q + 1) = d * q + d
    BY <1>1
  <2>3. QED
    BY <1>1, <1>3, <2>1, <2>2 DEF q
<1>4. QED
  BY <1>2, <1>3

(* The gate of refine_cohesive, without its quotient. *)
LEMMA GateIsDense ==
  ASSUME NEW W, IsFiniteSet(W), NEW w \in [W -> Nat], NEW edges \in SUBSET W,
         NEW bar \in Int, NEW S, IsFiniteSet(S), Cardinality(S) >= 2
  PROVE  cluster_cohesion(S, Inside(edges, S), w) >= bar <=> Dense(edges, w, bar, S)
<1> DEFINE n == Cardinality(S)
           sum == SumFunctionOnSet(w, Inside(edges, S))
<1>1. n \in Nat /\ n >= 2
  BY FS_CardinalityType
<1>2. sum \in Nat
  <2>1. Inside(edges, S) \in SUBSET W
    BY DEF Inside
  <2>2. QED
    BY <2>1, SumExists
<1>3. cluster_cohesion(S, Inside(edges, S), w) = (2 * sum) \div (n * (n - 1))
  BY DEF cluster_cohesion
<1>4. Dense(edges, w, bar, S) <=> 2 * sum >= bar * n * (n - 1)
  BY DEF Dense
<1> HIDE DEF n, sum
<1>5. n * (n - 1) \in Int /\ n * (n - 1) > 0
  <2>1. n - 1 \in Int /\ n - 1 >= 1
    BY <1>1
  <2>2. n * (n - 1) >= n
    BY <1>1, <2>1
  <2>3. QED
    BY <1>1, <2>1, <2>2
<1>6. bar * n * (n - 1) = bar * (n * (n - 1))
  BY <1>1
<1>7. 2 * sum \in Int
  BY <1>2
<1>8. (2 * sum) \div (n * (n - 1)) >= bar <=> 2 * sum >= bar * (n * (n - 1))
  BY <1>5, <1>7, QuotientBar
<1>9. QED
  BY <1>3, <1>4, <1>6, <1>8

-----------------------------------------------------------------------------
(* The parts a group is split into. *)
Strong(edges, w, bar) == {e \in edges : w[e] >= bar}

Parts(edges, w, bar, S) == split_by_threshold(S, Inside(edges, S), w, bar)

Solid(edges, w, bar, S) == {p \in Parts(edges, w, bar, S) : Cardinality(p) >= 2}

(* The parts of a set are the components of its edges at the gate, pairwise *)
(* disjoint; a set that is a part of itself is the only one.                *)
LEMMA PartsAreComponents ==
  ASSUME NEW edges, NEW w, NEW bar, NEW S
  PROVE  LET strong == Strong(Inside(edges, S), w, bar)
         IN  /\ Parts(edges, w, bar, S)
                  = {p \in SUBSET S : p # {} /\ Linked(strong, p) /\ Uncut(strong, p)}
             /\ \A p, q \in Parts(edges, w, bar, S) : p = q \/ p \cap q = {}
             /\ S \in Parts(edges, w, bar, S) => Cardinality(Parts(edges, w, bar, S)) <= 1
<1> DEFINE strong == Strong(Inside(edges, S), w, bar)
           uncut == {X \in SUBSET S : Uncut(strong, X)}
           Part(m) == {n \in S : \A X \in uncut : m \in X => n \in X}
<1>1. Parts(edges, w, bar, S) = {Part(m) : m \in S}
  BY DEF Parts, split_by_threshold, Strong, Uncut
<1>2. \A e \in strong : e[1] \in S /\ e[2] \in S
  BY DEF Strong, Inside
<1> HIDE DEF strong
<1>3. ASSUME NEW m \in S
      PROVE  /\ m \in Part(m) /\ Part(m) \in SUBSET S
             /\ Uncut(strong, Part(m))
             /\ \A X \in SUBSET S : Uncut(strong, X) /\ X \cap Part(m) # {} => Part(m) \subseteq X
  <2>1. Uncut(strong, Part(m))
    BY <1>2 DEF Uncut
  <2>2. ASSUME NEW X \in SUBSET S, Uncut(strong, X), X \cap Part(m) # {}
        PROVE  Part(m) \subseteq X
    <3>1. CASE m \in X
      BY <2>2, <3>1
    <3>2. CASE m \notin X
      <4>1. S \ X \in uncut /\ m \in S \ X
        BY <1>2, <2>2, <3>2 DEF Uncut
      <4>2. Part(m) \subseteq S \ X
        BY <4>1
      <4>3. QED
        BY <2>2, <4>2
    <3>3. QED
      BY <3>1, <3>2
  <2>3. QED
    BY <2>1, <2>2
<1>4. PICK G : G = Parts(edges, w, bar, S)
  OBVIOUS
<1>5. /\ G \in SUBSET SUBSET S
      /\ \A m \in S : \E p \in G : m \in p
      /\ \A p \in G : /\ p # {} /\ Uncut(strong, p)
                      /\ \A X \in SUBSET S : Uncut(strong, X) /\ X \cap p # {} => p \subseteq X
  <2> HIDE DEF Part
  <2>1. QED
    BY <1>1, <1>3, <1>4
<1>6. G = {p \in SUBSET S : p # {} /\ Linked(strong, p) /\ Uncut(strong, p)}
  BY ONLY <1>5, GroupsAreComponents
<1>7. ASSUME NEW p \in G, NEW q \in G, p \cap q # {}
      PROVE  p = q
  BY <1>5, <1>7
<1>8. ASSUME S \in G
      PROVE  Cardinality(G) <= 1
  <2>1. ASSUME NEW p \in G
        PROVE  p = S
    <3>1. p \in SUBSET S /\ p \cap S # {} /\ Uncut(strong, p)
      BY <1>5
    <3>2. S \subseteq p
      BY <1>5, <1>8, <3>1
    <3>3. QED
      BY <3>1, <3>2
  <2>2. G = {S}
    BY <1>8, <2>1
  <2>3. QED
    BY <2>2, FS_Singleton
<1>9. QED
  BY <1>4, <1>6, <1>7, <1>8 DEF strong

(* What a refinement says of a set from what it says of smaller ones.      *)
Refined(edges, w, bar, S, f) ==
  IF Cardinality(S) < 2 THEN [clusters |-> {}, rejected |-> 0]
  ELSE IF cluster_cohesion(S, Inside(edges, S), w) >= bar
  THEN [clusters |-> {S}, rejected |-> 0]
  ELSE IF Cardinality(Parts(edges, w, bar, S)) <= 1 \/ Solid(edges, w, bar, S) = {}
  THEN [clusters |-> {}, rejected |-> 1]
  ELSE [clusters |-> UNION {f[p].clusters : p \in Solid(edges, w, bar, S)},
        rejected |-> SumFunction([p \in Solid(edges, w, bar, S) |-> f[p].rejected])]

IsOutcome(edges, w, bar, T, f) ==
  f = [S \in SUBSET T |-> Refined(edges, w, bar, S, f)]

(* What refine_cohesive computes is such an outcome. *)
LEMMA OutcomeIs ==
  ASSUME NEW edges, NEW w, NEW bar, NEW T
  PROVE  refine_cohesive(T, edges, w, bar) = (CHOOSE f : IsOutcome(edges, w, bar, T, f))[T]
BY DEF refine_cohesive, IsOutcome, Refined, Parts, Solid

(* What the equation says of a subset. *)
LEMMA OutcomeAt ==
  ASSUME NEW edges, NEW w, NEW bar, NEW T, NEW f, IsOutcome(edges, w, bar, T, f),
         NEW S \in SUBSET T
  PROVE  f[S] = Refined(edges, w, bar, S, f)
BY Zenon DEF IsOutcome

(* A loose set that is split has solid parts, all smaller than itself.     *)
LEMMA SolidIsSmaller ==
  ASSUME NEW edges, NEW w, NEW bar, NEW S, ~(Cardinality(Parts(edges, w, bar, S)) <= 1),
         NEW p \in Solid(edges, w, bar, S)
  PROVE  p \in SUBSET S /\ p # S /\ p # {}
BY PartsAreComponents DEF Solid

(* A refinement asks only for the outcomes of smaller sets. *)
LEMMA RefinedSame ==
  ASSUME NEW edges, NEW w, NEW bar, NEW S, NEW f, NEW g,
         \A p \in SUBSET S : p # S => f[p] = g[p]
  PROVE  Refined(edges, w, bar, S, f) = Refined(edges, w, bar, S, g)
<1>1. CASE Cardinality(Parts(edges, w, bar, S)) <= 1
  BY <1>1, Zenon DEF Refined
<1>2. CASE ~(Cardinality(Parts(edges, w, bar, S)) <= 1)
  <2>1. \A p \in Solid(edges, w, bar, S) : f[p] = g[p]
    BY <1>2, SolidIsSmaller
  <2>2. {f[p].clusters : p \in Solid(edges, w, bar, S)} = {g[p].clusters : p \in Solid(edges, w, bar, S)}
    BY <2>1
  <2>3. [p \in Solid(edges, w, bar, S) |-> f[p].rejected] = [p \in Solid(edges, w, bar, S) |-> g[p].rejected]
    BY <2>1
  <2>4. QED
    BY <2>2, <2>3, Zenon DEF Refined
<1>3. QED
  BY <1>1, <1>2

(* Two outcomes agree where both are defined.                              *)
LEMMA OutcomesAgree ==
  ASSUME NEW edges, NEW w, NEW bar, NEW D, IsFiniteSet(D),
         NEW A \in SUBSET D, NEW a, IsOutcome(edges, w, bar, A, a),
         NEW B \in SUBSET D, NEW b, IsOutcome(edges, w, bar, B, b)
  PROVE  \A S \in SUBSET (A \cap B) : a[S] = b[S]
<1> DEFINE Bad == {S \in SUBSET (A \cap B) : a[S] # b[S]}
<1>1. ASSUME Bad # {}
      PROVE  FALSE
  <2>1. Bad \in SUBSET SUBSET D
    OBVIOUS
  <2>2. PICK S \in Bad : \A U \in Bad : U \subseteq S => U = S
    <3> HIDE DEF Bad
    <3>1. QED
      BY <1>1, <2>1, MinimalSubset
  <2>3. S \in SUBSET A /\ S \in SUBSET B /\ a[S] # b[S]
    OBVIOUS
  <2>4. \A p \in SUBSET S : p # S => a[p] = b[p]
    BY <2>2, <2>3
  <2>5. Refined(edges, w, bar, S, a) = Refined(edges, w, bar, S, b)
    BY <2>4, RefinedSame
  <2>6. a[S] = Refined(edges, w, bar, S, a) /\ b[S] = Refined(edges, w, bar, S, b)
    BY <2>3, OutcomeAt
  <2>7. QED
    BY <2>3, <2>5, <2>6
<1>2. QED
  BY <1>1

(* There is an outcome for the subsets of every finite set.                *)
LEMMA OutcomeExists ==
  ASSUME NEW edges, NEW w, NEW bar, NEW D, IsFiniteSet(D)
  PROVE  IsOutcome(edges, w, bar, D, CHOOSE f : IsOutcome(edges, w, bar, D, f))
<1> DEFINE Good(T) == \E f : IsOutcome(edges, w, bar, T, f)
           Bad == {T \in SUBSET D : ~Good(T)}
<1>1. ASSUME Bad # {}
      PROVE  FALSE
  <2>1. Bad \in SUBSET SUBSET D
    OBVIOUS
  <2>2. PICK T \in Bad : \A U \in Bad : U \subseteq T => U = T
    <3> HIDE DEF Bad
    <3>1. QED
      BY <1>1, <2>1, MinimalSubset
  <2>3. T \in SUBSET D /\ ~Good(T) /\ \A U \in SUBSET T : U # T => Good(U)
    BY <2>2
  <2> DEFINE F(U) == CHOOSE f : IsOutcome(edges, w, bar, U, f)
             below == [U \in SUBSET T |-> F(U)[U]]
             all == [U \in SUBSET T |-> IF U = T THEN Refined(edges, w, bar, T, below) ELSE F(U)[U]]
  <2>4. ASSUME NEW U \in SUBSET T, U # T
        PROVE  IsOutcome(edges, w, bar, U, F(U))
    BY <2>3, <2>4
  <2>5. ASSUME NEW U \in SUBSET T, U # T, NEW p \in SUBSET U
        PROVE  F(U)[p] = F(p)[p]
    <3>1. p # T /\ p \in SUBSET T /\ p \in SUBSET D /\ U \in SUBSET D /\ p \in SUBSET (U \cap p)
      BY <2>3, <2>5
    <3>2. IsOutcome(edges, w, bar, U, F(U)) /\ IsOutcome(edges, w, bar, p, F(p))
      BY <2>4, <2>5, <3>1
    <3> HIDE DEF F
    <3>3. QED
      BY <3>1, <3>2, OutcomesAgree
  <2> HIDE DEF F
  <2>6. ASSUME NEW U \in SUBSET T
        PROVE  all[U] = Refined(edges, w, bar, U, all)
    <3>1. \A p \in SUBSET U : p # U => p # T /\ all[p] = F(p)[p] /\ below[p] = F(p)[p]
      OBVIOUS
    <3>2. CASE U = T
      <4>1. Refined(edges, w, bar, U, all) = Refined(edges, w, bar, U, below)
        <5>1. \A p \in SUBSET U : p # U => all[p] = below[p]
          BY <3>1
        <5> HIDE DEF all, below
        <5>2. QED
          BY <5>1, RefinedSame
      <4>2. QED
        BY <3>2, <4>1
    <3>3. CASE U # T
      <4>1. \A p \in SUBSET U : p # U => all[p] = F(U)[p]
        BY <2>5, <3>1, <3>3
      <4>2. Refined(edges, w, bar, U, all) = Refined(edges, w, bar, U, F(U))
        <5> HIDE DEF all
        <5>1. QED
          BY <4>1, RefinedSame
      <4>3. F(U)[U] = Refined(edges, w, bar, U, F(U))
        BY <2>4, <3>3, OutcomeAt
      <4>4. all[U] = F(U)[U]
        BY <3>3
      <4>5. QED
        BY <4>2, <4>3, <4>4
    <3>4. QED
      BY <3>2, <3>3
  <2>7. all = [U \in SUBSET T |-> all[U]]
    OBVIOUS
  <2> HIDE DEF all
  <2>8. IsOutcome(edges, w, bar, T, all)
    BY <2>6, <2>7, Zenon DEF IsOutcome
  <2>9. QED
    BY <2>3, <2>8
<1>2. D \in SUBSET D
  OBVIOUS
<1>3. Good(D)
  BY <1>1, <1>2
<1>4. QED
  BY <1>3

-----------------------------------------------------------------------------
(* What refine_cohesive promises of a set that hangs together.             *)
Promise(edges, w, bar, S, o) ==
  /\ o.rejected \in Nat
  /\ \A c \in o.clusters :
       /\ c \in SUBSET S /\ Cardinality(c) >= 2 /\ Linked(edges, c) /\ Dense(edges, w, bar, c)
       /\ \A d \in o.clusters : c = d \/ c \cap d = {}
       /\ \A e \in Inside(edges, S) : w[e] >= bar => (e[1] \in c <=> e[2] \in c)
  /\ Cardinality(S) >= 2 /\ Dense(edges, w, bar, S) => S \in o.clusters
  /\ Cardinality(S) >= 2 /\ o.clusters = {} => o.rejected >= 1

(* More edges do not take a set apart. *)
LEMMA LinkedByMore ==
  ASSUME NEW few, NEW edges, few \subseteq edges, NEW S, Linked(few, S)
  PROVE  Linked(edges, S)
BY DEF Linked, Inside

(* The promise of a split set from those of its solid parts.               *)
LEMMA SplitKeepsPromise ==
  ASSUME NEW W, IsFiniteSet(W), NEW w \in [W -> Nat], NEW edges \in SUBSET W,
         NEW bar \in Int, NEW D, IsFiniteSet(D), NEW S \in SUBSET D, Cardinality(S) >= 2,
         ~Dense(edges, w, bar, S), ~(Cardinality(Parts(edges, w, bar, S)) <= 1),
         Solid(edges, w, bar, S) # {}, NEW f,
         \A p \in Solid(edges, w, bar, S) : Promise(edges, w, bar, p, f[p])
  PROVE  Promise(edges, w, bar, S,
           [clusters |-> UNION {f[p].clusters : p \in Solid(edges, w, bar, S)},
            rejected |-> SumFunction([p \in Solid(edges, w, bar, S) |-> f[p].rejected])])
<1> DEFINE solid == Solid(edges, w, bar, S)
           found == UNION {f[p].clusters : p \in solid}
           lost == [p \in solid |-> f[p].rejected]
           strong == Strong(Inside(edges, S), w, bar)
<1>1. \A p \in solid : p \in SUBSET S /\ Cardinality(p) >= 2 /\ Uncut(strong, p)
  BY PartsAreComponents DEF Solid
<1>2. \A p, q \in solid : p = q \/ p \cap q = {}
  BY PartsAreComponents DEF Solid
<1>3. IsFiniteSet(solid)
  <2>1. solid \in SUBSET SUBSET D
    BY <1>1
  <2>2. IsFiniteSet(SUBSET D)
    BY FS_SUBSET
  <2>3. QED
    BY <2>1, <2>2, FS_Subset
<1>4. lost \in [solid -> Nat]
  BY DEF Promise
<1>5. SumFunction(lost) = SumFunctionOnSet(lost, solid)
  <2>1. DOMAIN lost = solid
    OBVIOUS
  <2> HIDE DEF lost
  <2>2. QED
    BY <2>1 DEF SumFunction
<1>6. SumFunction(lost) \in Nat
  <2> HIDE DEF lost, solid
  <2>1. QED
    BY <1>3, <1>4, <1>5, SumExists
<1>7. ASSUME NEW c \in found
      PROVE  \E p \in solid : c \in f[p].clusters /\ c \subseteq p
  BY DEF Promise
<1>8. ASSUME NEW c \in found
      PROVE  /\ c \in SUBSET S /\ Cardinality(c) >= 2 /\ Linked(edges, c) /\ Dense(edges, w, bar, c)
             /\ \A d \in found : c = d \/ c \cap d = {}
             /\ \A e \in Inside(edges, S) : w[e] >= bar => (e[1] \in c <=> e[2] \in c)
  <2>1. PICK p \in solid : c \in f[p].clusters /\ c \subseteq p
    BY <1>7
  <2>2. Promise(edges, w, bar, p, f[p]) /\ p \in SUBSET S /\ Uncut(strong, p)
    BY <1>1
  <2>3. c \in SUBSET S /\ Cardinality(c) >= 2 /\ Linked(edges, c) /\ Dense(edges, w, bar, c)
    BY <2>1, <2>2 DEF Promise
  <2>4. ASSUME NEW d \in found
        PROVE  c = d \/ c \cap d = {}
    <3>1. PICK q \in solid : d \in f[q].clusters /\ d \subseteq q
      BY <1>7
    <3>2. CASE p = q
      BY <2>1, <2>2, <3>1, <3>2 DEF Promise
    <3>3. CASE p # q
      <4>1. p \cap q = {}
        BY <1>2, <3>3
      <4>2. QED
        BY <2>1, <3>1, <4>1
    <3>4. QED
      BY <3>2, <3>3
  <2>5. ASSUME NEW e \in Inside(edges, S), w[e] >= bar
        PROVE  e[1] \in c <=> e[2] \in c
    <3>1. e \in strong
      BY <2>5 DEF Strong
    <3>2. e[1] \in p <=> e[2] \in p
      BY <2>2, <3>1 DEF Uncut
    <3>3. CASE e \in Inside(edges, p)
      BY <2>1, <2>2, <2>5, <3>3 DEF Promise
    <3>4. CASE e \notin Inside(edges, p)
      <4>1. e[1] \notin p /\ e[2] \notin p
        BY <3>2, <3>4 DEF Inside
      <4>2. QED
        BY <2>1, <4>1
    <3>5. QED
      BY <3>3, <3>4
  <2>6. QED
    BY <2>3, <2>4, <2>5
<1>9. ASSUME found = {}
      PROVE  SumFunction(lost) >= 1
  <2>1. \A p \in solid : lost[p] >= 1
    <3>1. ASSUME NEW p \in solid
          PROVE  lost[p] >= 1
      <4>1. f[p].clusters = {}
        BY <1>9
      <4>2. Promise(edges, w, bar, p, f[p]) /\ Cardinality(p) >= 2
        BY <1>1
      <4>3. f[p].rejected >= 1
        BY <4>1, <4>2 DEF Promise
      <4>4. QED
        BY <4>3
    <3>2. QED
      BY <3>1
  <2>2. Cardinality(solid) <= SumFunctionOnSet(lost, solid)
    <3> HIDE DEF lost, solid
    <3>1. QED
      BY <1>3, <1>4, <2>1, SumCounts
  <2>3. Cardinality(solid) \in Nat /\ Cardinality(solid) # 0
    <3>1. solid # {}
      OBVIOUS
    <3> HIDE DEF solid
    <3>2. QED
      BY <1>3, <3>1, FS_CardinalityType, FS_EmptySet
  <2> HIDE DEF lost, solid
  <2>4. QED
    BY <1>5, <1>6, <2>2, <2>3
<1>10. QED
  <2> HIDE DEF found, lost
  <2>1. Promise(edges, w, bar, S, [clusters |-> found, rejected |-> SumFunction(lost)])
    BY <1>6, <1>8, <1>9 DEF Promise
  <2>2. QED
    BY <2>1 DEF found, lost

(* The promise of every set that hangs together.                           *)
LEMMA RefineKeepsPromise ==
  ASSUME NEW W, IsFiniteSet(W), NEW w \in [W -> Nat], NEW edges \in SUBSET W,
         NEW bar \in Int, NEW D, IsFiniteSet(D), Linked(edges, D)
  PROVE  Promise(edges, w, bar, D, refine_cohesive(D, edges, w, bar))
<1> DEFINE f == CHOOSE g : IsOutcome(edges, w, bar, D, g)
           Kept(S) == Linked(edges, S) => Promise(edges, w, bar, S, f[S])
           Bad == {S \in SUBSET D : ~Kept(S)}
<1>1. \A S \in SUBSET D : f[S] = Refined(edges, w, bar, S, f)
  BY OutcomeExists, OutcomeAt
<1> HIDE DEF f
<1>2. ASSUME NEW S \in SUBSET D, Linked(edges, S),
             \A p \in SUBSET S : p # S => Kept(p)
      PROVE  Promise(edges, w, bar, S, f[S])
  <2>1. f[S] = Refined(edges, w, bar, S, f)
    BY <1>1
  <2>2. IsFiniteSet(S)
    BY FS_Subset
  <2>3. Cardinality(S) \in Nat
    BY <2>2, FS_CardinalityType
  <2>4. CASE Cardinality(S) < 2
    <3>1. f[S] = [clusters |-> {}, rejected |-> 0]
      BY <2>1, <2>4 DEF Refined
    <3>2. QED
      BY <2>3, <2>4, <3>1 DEF Promise
  <2>5. CASE Cardinality(S) >= 2 /\ Dense(edges, w, bar, S)
    <3>1. cluster_cohesion(S, Inside(edges, S), w) >= bar /\ ~(Cardinality(S) < 2)
      BY <2>2, <2>3, <2>5, GateIsDense
    <3>2. f[S] = [clusters |-> {S}, rejected |-> 0]
      BY <2>1, <3>1 DEF Refined
    <3>3. \A e \in Inside(edges, S) : e[1] \in S /\ e[2] \in S
      BY DEF Inside
    <3>4. QED
      BY <1>2, <2>5, <3>2, <3>3 DEF Promise
  <2>6. CASE /\ Cardinality(S) >= 2 /\ ~Dense(edges, w, bar, S)
             /\ Cardinality(Parts(edges, w, bar, S)) <= 1 \/ Solid(edges, w, bar, S) = {}
    <3>1. ~(cluster_cohesion(S, Inside(edges, S), w) >= bar) /\ ~(Cardinality(S) < 2)
      BY <2>2, <2>3, <2>6, GateIsDense
    <3>2. f[S] = [clusters |-> {}, rejected |-> 1]
      BY <2>1, <2>6, <3>1 DEF Refined
    <3>3. QED
      BY <2>6, <3>2 DEF Promise
  <2>7. CASE /\ Cardinality(S) >= 2 /\ ~Dense(edges, w, bar, S)
             /\ ~(Cardinality(Parts(edges, w, bar, S)) <= 1) /\ Solid(edges, w, bar, S) # {}
    <3>1. ~(cluster_cohesion(S, Inside(edges, S), w) >= bar) /\ ~(Cardinality(S) < 2)
      BY <2>2, <2>3, <2>7, GateIsDense
    <3>2. f[S] = [clusters |-> UNION {f[p].clusters : p \in Solid(edges, w, bar, S)},
                  rejected |-> SumFunction([p \in Solid(edges, w, bar, S) |-> f[p].rejected])]
      BY <2>1, <2>7, <3>1 DEF Refined
    <3>3. ASSUME NEW p \in Solid(edges, w, bar, S)
          PROVE  Promise(edges, w, bar, p, f[p])
      <4>1. p \in SUBSET S /\ p # S
        BY <2>7, SolidIsSmaller
      <4>2. Linked(Strong(Inside(edges, S), w, bar), p)
        BY PartsAreComponents DEF Solid
      <4>3. Strong(Inside(edges, S), w, bar) \subseteq edges
        BY DEF Strong, Inside
      <4>4. Linked(edges, p)
        BY <4>2, <4>3, LinkedByMore
      <4>5. QED
        BY <1>2, <4>1, <4>4
    <3>4. QED
      BY <2>7, <3>2, <3>3, SplitKeepsPromise
  <2>8. QED
    BY <2>3, <2>4, <2>5, <2>6, <2>7
<1>3. ASSUME Bad # {}
      PROVE  FALSE
  <2>1. Bad \in SUBSET SUBSET D
    OBVIOUS
  <2>2. PICK S \in Bad : \A U \in Bad : U \subseteq S => U = S
    <3> HIDE DEF Bad
    <3>1. QED
      BY <1>3, <2>1, MinimalSubset
  <2> HIDE DEF Kept
  <2>3. S \in SUBSET D /\ ~Kept(S) /\ \A U \in SUBSET S : U # S => Kept(U)
    BY <2>2
  <2>4. QED
    BY <1>2, <2>3 DEF Kept
<1>4. Kept(D)
  BY <1>3
<1>5. refine_cohesive(D, edges, w, bar) = f[D]
  BY OutcomeIs DEF f
<1>6. QED
  BY <1>4, <1>5

-----------------------------------------------------------------------------
(* The two orders the command puts sets in.                                *)
LEMMA PairsInOrder ==
  ASSUME NEW n \in Nat, NEW S \in SUBSET Pairs(n)
  PROVE  InOrder(S, Lexical) \in Seq(Pairs(n)) /\ Range(InOrder(S, Lexical)) = S
<1> DEFINE below == [x \in S |-> {y \in S : Lexical(y, x)}]
           seq == InOrder(S, Lexical)
<1>1. IsFiniteSet(S)
  <2>1. IsFiniteSet(1 .. n)
    BY FS_Interval
  <2>2. IsFiniteSet((1 .. n) \X (1 .. n))
    BY <2>1, FS_Product
  <2>3. S \in SUBSET ((1 .. n) \X (1 .. n))
    BY DEF Pairs
  <2>4. QED
    BY <2>2, <2>3, FS_Subset
<1>2. \A x \in S : x[1] \in Int /\ x[2] \in Int /\ x = <<x[1], x[2]>>
  BY DEF Pairs
<1>3. ASSUME NEW x \in S, NEW y \in S, Lexical(x, y)
      PROVE  below[x] \subseteq below[y] /\ below[x] # below[y]
  <2>1. ASSUME NEW z \in S, Lexical(z, x)
        PROVE  Lexical(z, y)
    BY <1>2, <1>3, <2>1 DEF Lexical
  <2>2. ~Lexical(x, x)
    BY <1>2 DEF Lexical
  <2>3. x \in below[y] /\ x \notin below[x]
    BY <1>3, <2>2
  <2>4. QED
    BY <2>1, <2>3
<1>4. \A x, y \in S : x # y => Lexical(x, y) \/ Lexical(y, x)
  BY <1>2 DEF Lexical
<1>5. \A x, y \in S : x # y => \/ below[x] \subseteq below[y] /\ below[x] # below[y]
                               \/ below[y] \subseteq below[x] /\ below[x] # below[y]
  BY <1>3, <1>4
<1>6. below \in [S -> SUBSET S] /\ \A x \in S : x \notin below[x]
  BY <1>2 DEF Lexical
<1>7. DOMAIN seq = 1 .. Cardinality(S)
        /\ \A i \in 1 .. Cardinality(S) : seq[i] = CHOOSE x \in S : Cardinality(below[x]) = i - 1
  BY DEF InOrder
<1>f. \A Y : (\A i \in 1 .. Cardinality(S) : seq[i] \in Y) => seq \in [1 .. Cardinality(S) -> Y]
  BY DEF InOrder
<1> HIDE DEF below, seq
<1>8. /\ \A x \in S : Cardinality(below[x]) \in 0 .. Cardinality(S) - 1
      /\ \A x, y \in S : Cardinality(below[x]) = Cardinality(below[y]) => x = y
      /\ \A i \in 1 .. Cardinality(S) : \E x \in S : Cardinality(below[x]) = i - 1
  BY <1>1, <1>5, <1>6, Ranks
<1>9. \A i \in 1 .. Cardinality(S) : seq[i] \in S /\ Cardinality(below[seq[i]]) = i - 1
  BY <1>7, <1>8
<1>10. Cardinality(S) \in Nat
  BY <1>1, FS_CardinalityType
<1>11. seq \in Seq(Pairs(n))
  <2>2. seq \in [1 .. Cardinality(S) -> Pairs(n)]
    BY <1>9, <1>f
  <2>3. QED
    BY <1>10, <2>2
<1>12. ASSUME NEW x \in S
       PROVE  x \in Range(seq)
  <2>1. PICK k \in 0 .. Cardinality(S) - 1 : k = Cardinality(below[x])
    BY <1>8
  <2>2. k + 1 \in 1 .. Cardinality(S) /\ (k + 1) - 1 = k
    BY <1>10
  <2>3. seq[k + 1] = x
    BY <1>8, <1>9, <2>1, <2>2
  <2>4. QED
    BY <1>7, <2>2, <2>3 DEF Range
<1>13. Range(seq) \subseteq S
  BY <1>7, <1>9 DEF Range
<1>14. QED
  BY <1>11, <1>12, <1>13 DEF seq

Places(S) == InOrder(S, <)

(* The positions of a set in order are positions in it. *)
LEMMA PlacesInOrder ==
  ASSUME NEW S \in SUBSET Nat, IsFiniteSet(S)
  PROVE  \A i \in 1 .. Cardinality(S) : Places(S)[i] \in S
<1> DEFINE below == [x \in S |-> {y \in S : y < x}]
<1>1. \A x, y \in S : x # y => \/ below[x] \subseteq below[y] /\ below[x] # below[y]
                               \/ below[y] \subseteq below[x] /\ below[x] # below[y]
  <2>1. ASSUME NEW x \in S, NEW y \in S, x < y
        PROVE  below[x] \subseteq below[y] /\ below[x] # below[y]
    <3>1. x \in below[y] /\ x \notin below[x]
      BY <2>1
    <3>2. \A z \in S : z < x => z < y
      BY <2>1
    <3>3. QED
      BY <3>1, <3>2
  <2>2. \A x, y \in S : x # y => x < y \/ y < x
    OBVIOUS
  <2>3. QED
    BY <2>1, <2>2
<1>2. below \in [S -> SUBSET S] /\ \A x \in S : x \notin below[x]
  OBVIOUS
<1>3. \A i \in 1 .. Cardinality(S) : Places(S)[i] = CHOOSE x \in S : Cardinality(below[x]) = i - 1
  BY DEF InOrder, Places
<1> HIDE DEF below
<1>4. \A i \in 1 .. Cardinality(S) : \E x \in S : Cardinality(below[x]) = i - 1
  <2>1. PICK T : T = S
    OBVIOUS
  <2>2. /\ IsFiniteSet(T) /\ below \in [T -> SUBSET T] /\ \A x \in T : x \notin below[x]
        /\ \A x, y \in T : x # y => \/ below[x] \subseteq below[y] /\ below[x] # below[y]
                                    \/ below[y] \subseteq below[x] /\ below[x] # below[y]
    BY <1>1, <1>2, <2>1
  <2>3. \A i \in 1 .. Cardinality(T) : \E x \in T : Cardinality(below[x]) = i - 1
    BY ONLY <2>2, Ranks
  <2>4. QED
    BY <2>1, <2>3
<1>5. QED
  BY <1>3, <1>4

(* What is chosen of a list is a list of the same things. *)
LEMMA ChosenIsList ==
  ASSUME NEW R, NEW list \in Seq(R), NEW S \in SUBSET DOMAIN list
  PROVE  /\ Chosen(list, S) \in Seq(R)
         /\ Len(Chosen(list, S)) = Cardinality(S)
         /\ \A i \in DOMAIN Chosen(list, S) : \E k \in S : Chosen(list, S)[i] = list[k]
<1>1. DOMAIN list = 1 .. Len(list) /\ Len(list) \in Nat
  OBVIOUS
<1>2. IsFiniteSet(S) /\ S \in SUBSET Nat
  <2>1. IsFiniteSet(1 .. Len(list))
    BY <1>1, FS_Interval
  <2>2. QED
    BY <1>1, <2>1, FS_Subset
<1>3. Cardinality(S) \in Nat
  BY <1>2, FS_CardinalityType
<1>4. \A i \in 1 .. Cardinality(S) : Places(S)[i] \in DOMAIN list
  BY <1>2, PlacesInOrder
<1>5. \A i \in 1 .. Cardinality(S) : list[Places(S)[i]] \in R
  BY <1>1, <1>4
<1>6. Chosen(list, S) = [k \in 1 .. Cardinality(S) |-> list[Places(S)[k]]]
  BY DEF Chosen, Places
<1>7. Chosen(list, S) \in [1 .. Cardinality(S) -> R]
  BY <1>5, <1>6
<1>8. Chosen(list, S) \in Seq(R) /\ Len(Chosen(list, S)) = Cardinality(S)
  BY <1>3, <1>7
<1>9. \A i \in 1 .. Cardinality(S) : Places(S)[i] \in S
  BY <1>2, PlacesInOrder
<1>10. QED
  BY <1>6, <1>8, <1>9

-----------------------------------------------------------------------------
(* The documents at hand are the invocation's, and the pairs compared are  *)
(* pairs of kept signatures.                                               *)
DocsInv == request \in Request /\ docs \in Seq(Documents(request))

WeightsInv ==
  /\ Len(kept) \in Nat /\ DOMAIN kept = 1 .. Len(kept)
  /\ DOMAIN weights \subseteq Pairs(Len(kept))
  /\ \A p \in DOMAIN weights : weights[p].aggregate \in Nat

SimilarInv ==
  /\ DocsInv
  /\ phase \in {"link", "explain"} => docs # <<>> /\ WeightsInv
  /\ phase = "link" => LinkInv(Len(kept), OverThreshold(weights))
  /\ ClustersAsPromised

(* The signatures of a document are a list the invocation may meet. *)
LEMMA DocumentLists ==
  ASSUME NEW r, NEW doc \in Documents(r)
  PROVE  doc.signatures \in SignatureLists(r)
BY DEF Documents, SignatureLists

(* What is collected are documents of the invocation. *)
LEMMA CollectKeeps ==
  ASSUME DocsInv, Collect
  PROVE  DocsInv'
<1>1. /\ request \in Request /\ request' = request
      /\ request.ts \in Seq(Range(request.ts))
      /\ request.structural \in Seq(Range(request.structural))
      /\ request.rust_extractor \in {"auto", "syn", "stablemir"}
  BY RequestAssumption DEF DocsInv, Collect
<1> DEFINE Docs == Documents(request)
<1>2. TsDocuments \in Seq(Docs)
  <2>1. DOMAIN request.ts = 1 .. Len(request.ts) /\ Len(request.ts) \in Nat
    BY <1>1
  <2>2. \A i \in DOMAIN request.ts : request.ts[i] \in Range(request.ts)
    BY DEF Range
  <2>3. TsDocuments \in [1 .. Len(request.ts) -> Docs]
    BY <2>1, <2>2 DEF TsDocuments, Documents
  <2>4. QED
    BY <2>1, <2>3
<1>3. RustDocuments \subseteq Seq(Docs)
  <2>1. RustExtractors \subseteq {"stablemir", "syn", "tsc-checker"}
    BY <1>1 DEF RustExtractors
  <2>2. \A e \in RustExtractors : [extractor |-> e, signatures |-> request.rust] \in Docs
    BY <2>1 DEF Documents
  <2> HIDE DEF Docs
  <2>3. \A e \in RustExtractors :
          <<[extractor |-> e, signatures |-> request.rust]>> \in Seq(Docs)
    BY <2>2
  <2>4. <<>> \in Seq(Docs)
    OBVIOUS
  <2>5. QED
    BY <2>3, <2>4 DEF RustDocuments
<1>4. request.structural \in Seq(Docs)
  <2>1. Range(request.structural) \subseteq Docs
    BY DEF Documents
  <2> HIDE DEF Docs
  <2>2. QED
    BY <1>1, <2>1, SeqMonotonic
<1> HIDE DEF Docs
<1>5. docs' \in Seq(Docs)
  <2>1. ASSUME NEW d \in RustDocuments
        PROVE  d \o TsDocuments \in Seq(Docs)
    BY <1>2, <1>3, ConcatProperties
  <2>2. QED
    BY <1>4, <2>1 DEF Collect
<1>6. QED
  BY <1>1, <1>5 DEF DocsInv, Docs

(* Scoring compares pairs of kept signatures and begins a forest with       *)
(* those over the threshold.                                                *)
LEMMA ScoreKeeps ==
  ASSUME DocsInv, Score
  PROVE  /\ DocsInv' /\ WeightsInv' /\ LinkInv(Len(kept), OverThreshold(weights))'
         /\ docs' # <<>>
         /\ \E n \in Nat : \E pairs \in Seq(Pairs(n)) : Begin(n, pairs)
<1> DEFINE all == docs[1].signatures
           sigs == Chosen(all, {k \in DOMAIN all : Passes(all[k])})
<1>1. /\ request \in Request /\ request' = request /\ docs' = docs /\ docs # <<>>
      /\ docs \in Seq(Documents(request))
  BY DEF DocsInv, Score
<1>2. all \in SignatureLists(request)
  <2>1. docs[1] \in Documents(request)
    BY <1>1
  <2>2. QED
    BY <2>1, DocumentLists
<1>3. all \in Seq(Range(all)) /\ \A a, b \in Range(all) : score_pair(a, b).aggregate \in Nat
  BY <1>1, <1>2, RequestAssumption
<1>4. sigs \in Seq(Range(all))
  BY <1>3, ChosenIsList
<1>5. PICK lucky \in BandLuck(sigs) :
        /\ kept' = sigs
        /\ weights' = [p \in candidate_pairs(sigs, lucky) |-> score_pair(sigs[p[1]], sigs[p[2]])]
        /\ Begin(Len(sigs), InOrder(OverThreshold(weights'), Lexical))
  BY Zenon DEF Score
<1> HIDE DEF sigs
<1>6. Len(sigs) \in Nat /\ DOMAIN sigs = 1 .. Len(sigs)
        /\ \A i \in 1 .. Len(sigs) : sigs[i] \in Range(all)
  BY <1>4, LenProperties
<1>7. DOMAIN weights' \subseteq Pairs(Len(sigs))
  BY <1>5, <1>6 DEF candidate_pairs, Positions, Pairs
<1>8. \A p \in DOMAIN weights' : weights'[p].aggregate \in Nat
  <2>1. \A p \in Pairs(Len(sigs)) : sigs[p[1]] \in Range(all) /\ sigs[p[2]] \in Range(all)
    BY <1>6 DEF Pairs
  <2> HIDE DEF all
  <2>2. QED
    BY <1>3, <1>5, <1>7, <2>1
<1>9. WeightsInv'
  BY <1>5, <1>6, <1>7, <1>8 DEF WeightsInv
<1>10. OverThreshold(weights') \in SUBSET Pairs(Len(sigs))
  BY <1>7 DEF OverThreshold
<1>11. /\ InOrder(OverThreshold(weights'), Lexical) \in Seq(Pairs(Len(sigs)))
       /\ Range(InOrder(OverThreshold(weights'), Lexical)) = OverThreshold(weights')
  BY <1>6, <1>10, PairsInOrder
<1>12. PICK n \in Nat : n = Len(sigs)
  BY <1>6
<1>13. PICK edges : edges = OverThreshold(weights')
  OBVIOUS
<1>14. PICK pairs \in Seq(Pairs(n)) : Begin(n, pairs) /\ Range(pairs) = edges
  BY <1>5, <1>11, <1>12, <1>13
<1>15. LinkInv(n, edges)'
  BY <1>14, LinkBegins
<1>16. n = Len(kept)' /\ edges = OverThreshold(weights)'
  BY <1>1, <1>5, <1>12, <1>13 DEF OverThreshold
<1>17. LinkInv(Len(kept), OverThreshold(weights))'
  BY <1>15, <1>16 DEF LinkInv, Connected, FindStands, ForestShape
<1>18. QED
  BY <1>1, <1>9, <1>14, <1>17 DEF DocsInv

-----------------------------------------------------------------------------
(* The promise of a document, said of its numbers.                         *)
Wholes(D, edges) ==
  {S \in {X \in SUBSET D : X # {} /\ Linked(edges, X) /\ Uncut(edges, X)} : Cardinality(S) >= 2}

Silent(found, S) == \A c \in found : c \cap S = {}

AsPromised(D, edges, w, bar, found, lost) ==
  /\ \A c \in found :
       /\ c \in SUBSET D
       /\ Cardinality(c) >= 2 /\ Linked(edges, c) /\ Dense(edges, w, bar, c)
       /\ \A d \in found : c = d \/ c \cap d = {}
       /\ \A e \in edges : w[e] >= bar => (e[1] \in c <=> e[2] \in c)
  /\ \A S \in Wholes(D, edges) : Dense(edges, w, bar, S) => S \in found
  /\ Cardinality({S \in Wholes(D, edges) : Silent(found, S)}) <= lost
  /\ lost = 0 => \A S \in Wholes(D, edges) : ~Silent(found, S)

(* The wholes are pairwise disjoint. *)
LEMMA WholesApart ==
  ASSUME NEW D, NEW edges, NEW g \in Wholes(D, edges), NEW h \in Wholes(D, edges),
         g \cap h # {}
  PROVE  g = h
<1>1. ASSUME NEW a \in Wholes(D, edges), NEW b \in Wholes(D, edges), a \cap b # {}
      PROVE  a \subseteq b
  <2>1. CASE a \cap b # a
    <3>1. PICK e \in Inside(edges, a) : (e[1] \in a \cap b) # (e[2] \in a \cap b)
      BY <1>1, <2>1 DEF Wholes, Linked
    <3>2. e \in edges /\ e[1] \in a /\ e[2] \in a
      BY DEF Inside
    <3>3. QED
      BY <3>1, <3>2 DEF Wholes, Uncut
  <2>2. QED
    BY <2>1
<1>2. g \subseteq h
  BY <1>1
<1>3. h \cap g # {}
  OBVIOUS
<1>4. h \subseteq g
  BY <1>1, <1>3
<1>5. QED
  BY <1>2, <1>4

(* What is said with the edges inside a set holds with all of them.        *)
LEMMA PromiseWithAll ==
  ASSUME NEW edges, NEW w, NEW bar, NEW S, NEW o,
         Promise(Inside(edges, S), w, bar, S, o), Uncut(edges, S)
  PROVE  /\ o.rejected \in Nat
         /\ \A c \in o.clusters :
              /\ c \in SUBSET S /\ Cardinality(c) >= 2
              /\ Linked(edges, c) /\ Dense(edges, w, bar, c)
              /\ \A d \in o.clusters : c = d \/ c \cap d = {}
              /\ \A e \in edges : w[e] >= bar => (e[1] \in c <=> e[2] \in c)
         /\ Cardinality(S) >= 2 /\ Dense(edges, w, bar, S) => S \in o.clusters
         /\ Cardinality(S) >= 2 /\ o.clusters = {} => o.rejected >= 1
<1>1. Inside(edges, S) \subseteq edges
  BY DEF Inside
<1>2. \A c \in SUBSET S : Inside(Inside(edges, S), c) = Inside(edges, c)
  BY DEF Inside
<1>3. \A c \in SUBSET S : Dense(Inside(edges, S), w, bar, c) <=> Dense(edges, w, bar, c)
  BY <1>2 DEF Dense
<1>4. ASSUME NEW c \in o.clusters
      PROVE  /\ c \in SUBSET S /\ Cardinality(c) >= 2
             /\ Linked(edges, c) /\ Dense(edges, w, bar, c)
             /\ \A d \in o.clusters : c = d \/ c \cap d = {}
             /\ \A e \in edges : w[e] >= bar => (e[1] \in c <=> e[2] \in c)
  <2>1. c \in SUBSET S /\ Linked(Inside(edges, S), c)
    BY DEF Promise
  <2>2. Linked(edges, c)
    BY <1>1, <2>1, LinkedByMore
  <2>3. ASSUME NEW e \in edges, w[e] >= bar
        PROVE  e[1] \in c <=> e[2] \in c
    <3>1. CASE e \in Inside(edges, S)
      <4>1. e \in Inside(Inside(edges, S), S)
        BY <1>2, <3>1
      <4>2. QED
        BY <2>3, <4>1 DEF Promise
    <3>2. CASE e \notin Inside(edges, S)
      <4>1. e[1] \notin S /\ e[2] \notin S
        BY <3>2 DEF Inside, Uncut
      <4>2. QED
        BY <2>1, <4>1
    <3>3. QED
      BY <3>1, <3>2
  <2>4. QED
    BY <1>3, <2>1, <2>2, <2>3 DEF Promise
<1>5. S \in SUBSET S
  OBVIOUS
<1>6. QED
  BY <1>3, <1>4, <1>5 DEF Promise

(* The promise of a document from those of its wholes. *)
LEMMA AllRefined ==
  ASSUME NEW D, IsFiniteSet(D), NEW W, IsFiniteSet(W), NEW w \in [W -> Nat],
         NEW edges \in SUBSET W, NEW bar \in Int, NEW outcome,
         outcome = [g \in Wholes(D, edges) |-> refine_cohesive(g, Inside(edges, g), w, bar)]
  PROVE  AsPromised(D, edges, w, bar,
                    UNION {outcome[g].clusters : g \in Wholes(D, edges)},
                    SumFunction([g \in Wholes(D, edges) |-> outcome[g].rejected]))
<1> DEFINE wholes == Wholes(D, edges)
           found == UNION {outcome[g].clusters : g \in wholes}
           lost == [g \in wholes |-> outcome[g].rejected]
           quiet == {S \in wholes : Silent(found, S)}
<1>1. ASSUME NEW g \in wholes
      PROVE  /\ g \in SUBSET D /\ Cardinality(g) >= 2 /\ Uncut(edges, g)
             /\ Promise(Inside(edges, g), w, bar, g, outcome[g])
  <2>1. g \in SUBSET D /\ Cardinality(g) >= 2 /\ Uncut(edges, g) /\ Linked(edges, g)
    BY DEF Wholes
  <2>2. IsFiniteSet(g)
    BY <2>1, FS_Subset
  <2>3. Linked(Inside(edges, g), g) /\ Inside(edges, g) \in SUBSET W
    BY <2>1 DEF Linked, Inside
  <2>4. Promise(Inside(edges, g), w, bar, g, refine_cohesive(g, Inside(edges, g), w, bar))
    BY <2>2, <2>3, RefineKeepsPromise
  <2>5. QED
    BY <2>1, <2>4
<1>2. ASSUME NEW g \in wholes
      PROVE  /\ outcome[g].rejected \in Nat
             /\ \A c \in outcome[g].clusters :
                  /\ c \in SUBSET g /\ Cardinality(c) >= 2
                  /\ Linked(edges, c) /\ Dense(edges, w, bar, c)
                  /\ \A d \in outcome[g].clusters : c = d \/ c \cap d = {}
                  /\ \A e \in edges : w[e] >= bar => (e[1] \in c <=> e[2] \in c)
             /\ Dense(edges, w, bar, g) => g \in outcome[g].clusters
             /\ outcome[g].clusters = {} => outcome[g].rejected >= 1
  BY <1>1, PromiseWithAll
<1>3. ASSUME NEW c \in found
      PROVE  \E g \in wholes : c \in outcome[g].clusters
  OBVIOUS
<1>4. ASSUME NEW c \in found, NEW d \in found
      PROVE  c = d \/ c \cap d = {}
  <2>1. PICK g \in wholes : c \in outcome[g].clusters
    BY <1>3
  <2>2. PICK h \in wholes : d \in outcome[h].clusters
    BY <1>3
  <2>3. CASE g = h
    BY <1>2, <2>1, <2>2, <2>3
  <2>4. CASE g # h
    <3>1. g \cap h = {}
      BY <2>4, WholesApart
    <3>2. c \in SUBSET g /\ d \in SUBSET h
      BY <1>2, <2>1, <2>2
    <3>3. QED
      BY <3>1, <3>2
  <2>5. QED
    BY <2>3, <2>4
<1>5. IsFiniteSet(wholes) /\ IsFiniteSet(quiet)
  <2>1. wholes \in SUBSET SUBSET D /\ quiet \in SUBSET SUBSET D
    BY DEF Wholes
  <2>2. IsFiniteSet(SUBSET D)
    BY FS_SUBSET
  <2>3. QED
    BY <2>1, <2>2, FS_Subset
<1>6. ASSUME NEW S \in quiet
      PROVE  lost[S] >= 1
  <2>1. S \in wholes /\ \A c \in outcome[S].clusters : c \cap S = {}
    BY DEF Silent
  <2>2. \A c \in outcome[S].clusters : c \in SUBSET S /\ Cardinality(c) >= 2
    BY <1>2, <2>1
  <2>3. outcome[S].clusters = {}
    <3>1. ASSUME NEW c \in outcome[S].clusters
          PROVE  FALSE
      <4>1. c = {}
        BY <2>1, <2>2
      <4>2. Cardinality(c) >= 2 /\ Cardinality({}) = 0
        BY <2>2, FS_EmptySet
      <4>3. QED
        BY <4>1, <4>2
    <3>2. QED
      BY <3>1
  <2>4. QED
    BY <1>2, <2>1, <2>3
<1>7. lost \in [wholes -> Nat] /\ DOMAIN lost = wholes
  BY <1>2
<1>8. quiet \in SUBSET wholes
  OBVIOUS
<1>9. Cardinality(quiet) <= SumFunction(lost)
  <2>1. SumFunction(lost) = SumFunctionOnSet(lost, wholes)
    <3> HIDE DEF lost
    <3>1. QED
      BY <1>7 DEF SumFunction
  <2> HIDE DEF wholes, lost, quiet
  <2>2. Cardinality(quiet) <= SumFunctionOnSet(lost, wholes)
    BY <1>5, <1>6, <1>7, <1>8, SumCounts
  <2>3. QED
    BY <2>1, <2>2
<1>10. SumFunction(lost) = 0 => quiet = {}
  <2> HIDE DEF wholes, lost, quiet
  <2>1. Cardinality(quiet) \in Nat
    BY <1>5, FS_CardinalityType
  <2>2. ASSUME SumFunction(lost) = 0
        PROVE  Cardinality(quiet) = 0
    BY <1>9, <2>1, <2>2
  <2>3. QED
    BY <1>5, <2>2, FS_EmptySet
<1>11. \A S \in wholes : Dense(edges, w, bar, S) => S \in found
  BY <1>2
<1>12. \A c \in found :
         /\ c \in SUBSET D
         /\ Cardinality(c) >= 2 /\ Linked(edges, c) /\ Dense(edges, w, bar, c)
         /\ \A e \in edges : w[e] >= bar => (e[1] \in c <=> e[2] \in c)
  <2>1. ASSUME NEW c \in found
        PROVE  c \in SUBSET D
    <3>1. PICK g \in wholes : c \in outcome[g].clusters
      BY <1>3
    <3>2. QED
      BY <1>1, <1>2, <3>1
  <2>2. QED
    BY <1>2, <1>3, <2>1
<1> HIDE DEF found, lost
<1>13. AsPromised(D, edges, w, bar, found, SumFunction(lost))
  BY <1>4, <1>9, <1>10, <1>11, <1>12 DEF AsPromised
<1>14. QED
  BY <1>13 DEF found, lost

-----------------------------------------------------------------------------
(* Refining the groups of the finished forest keeps the promise. *)
LEMMA RefineKeeps ==
  ASSUME DocsInv, WeightsInv, LinkInv(Len(kept), OverThreshold(weights)), Refine
  PROVE  ClustersAsPromised' /\ clusters' \in SUBSET SUBSET DOMAIN kept'
<1>1. PICK n \in Nat : n = Len(kept)
  BY DEF WeightsInv
<1>2. PICK edges : edges = OverThreshold(weights)
  OBVIOUS
<1>3. PICK w : w = aggregate
  OBVIOUS
<1>4. PICK bar \in Int : bar = request.min_cohesion
  BY RequestAssumption DEF DocsInv
<1>5. PICK D : D = 1 .. n
  OBVIOUS
<1>6. PICK W : W = DOMAIN weights
  OBVIOUS
<1>7. IsFiniteSet(D) /\ DOMAIN kept = D
  BY <1>1, <1>5, FS_Interval DEF WeightsInv
<1>8. IsFiniteSet(W)
  <2>1. W \in SUBSET (D \X D)
    BY <1>1, <1>5, <1>6 DEF WeightsInv, Pairs
  <2>2. IsFiniteSet(D \X D)
    BY <1>7, FS_Product
  <2>3. QED
    BY <2>1, <2>2, FS_Subset
<1>9. w \in [W -> Nat]
  BY <1>3, <1>6 DEF WeightsInv, aggregate
<1>10. edges \in SUBSET W
  BY <1>2, <1>6 DEF OverThreshold
<1>11. PICK outcome :
         outcome = [g \in Wholes(D, edges) |-> refine_cohesive(g, Inside(edges, g), w, bar)]
  OBVIOUS
<1>12. {h \in groups_of(parent) : Cardinality(h) >= 2} = Wholes(D, edges)
  <2>1. LinkInv(n, edges) /\ links = <<>>
    BY <1>1, <1>2 DEF Refine
  <2>2. groups_of(parent) = {S \in SUBSET D : S # {} /\ Linked(edges, S) /\ Uncut(edges, S)}
    BY <1>5, <2>1, GroupsWhenLinked
  <2>3. QED
    BY <2>2, Zenon DEF Wholes
<1>13. /\ clusters' = UNION {outcome[g].clusters : g \in Wholes(D, edges)}
       /\ rejected' = SumFunction([g \in Wholes(D, edges) |-> outcome[g].rejected])
  <2>1. DOMAIN outcome = Wholes(D, edges)
    BY <1>11
  <2>2. outcome = [g \in {h \in groups_of(parent) : Cardinality(h) >= 2} |->
                     refine_cohesive(g, Inside(OverThreshold(weights), g), aggregate, request.min_cohesion)]
    BY <1>2, <1>3, <1>4, <1>11, <1>12
  <2>3. /\ clusters' = UNION {outcome[g].clusters : g \in DOMAIN outcome}
        /\ rejected' = SumFunction([g \in DOMAIN outcome |-> outcome[g].rejected])
    BY <2>2, Zenon DEF Refine
  <2>4. QED
    BY <2>1, <2>3
<1>14. AsPromised(D, edges, w, bar, clusters', rejected')
  BY <1>7, <1>8, <1>9, <1>10, <1>11, <1>13, AllRefined
<1>15. UNCHANGED <<request, kept, weights>>
  BY DEF Refine
<1>16. Components(edges)' = {S \in SUBSET D : S # {} /\ Linked(edges, S) /\ Uncut(edges, S)}
  BY <1>7, <1>15 DEF Components, Uncut
<1>17. OverThreshold(weights)' = edges /\ aggregate' = w /\ request.min_cohesion' = bar
  BY <1>2, <1>3, <1>4, <1>15 DEF OverThreshold, aggregate
<1>18. clusters' \in SUBSET SUBSET DOMAIN kept'
  BY <1>7, <1>14, <1>15 DEF AsPromised
<1>19. QED
  BY <1>14, <1>15, <1>16, <1>17, <1>18 DEF ClustersAsPromised, AsPromised, Wholes, Silent, MeetsGate, Dense, Components

-----------------------------------------------------------------------------
(* The command starts with no document. *)
LEMMA SimilarStarts ==
  ASSUME SimilarInit
  PROVE  SimilarInv
<1>1. docs \in Seq(Documents(request)) /\ request \in Request /\ phase = "collect"
  BY DEF SimilarInit
<1>2. QED
  BY <1>1 DEF SimilarInv, DocsInv, ClustersAsPromised

(* A step of the union-find forest, of a document's pairs.                 *)
LEMMA LinkKeeps ==
  ASSUME DocsInv, WeightsInv, LinkInv(Len(kept), OverThreshold(weights)), Link
  PROVE  /\ DocsInv' /\ WeightsInv'
         /\ LinkInv(Len(kept), OverThreshold(weights))'
<1>1. UNCHANGED <<request, docs, kept, weights>> /\ ForestStep
  BY DEF Link, doc_vars
<1>2. PICK n \in Nat : n = Len(kept)
  BY DEF WeightsInv
<1>3. PICK edges : edges = OverThreshold(weights)
  OBVIOUS
<1>4. LinkInv(n, edges)
  BY <1>2, <1>3
<1>5. LinkInv(n, edges)'
  BY <1>1, <1>4, LinkKept
<1>6. n = Len(kept)' /\ edges = OverThreshold(weights)'
  BY <1>1, <1>2, <1>3 DEF OverThreshold
<1>7. LinkInv(Len(kept), OverThreshold(weights))'
  BY <1>5, <1>6 DEF LinkInv, Connected, FindStands, ForestShape
<1>8. QED
  BY <1>1, <1>7 DEF DocsInv, WeightsInv

(* Every step of the command keeps its invariant. *)
LEMMA SimilarSteps ==
  ASSUME SimilarInv, [SimilarNext]_similar_vars
  PROVE  SimilarInv'
<1>1. CASE Collect
  <2>1. DocsInv'
    BY <1>1, CollectKeeps DEF SimilarInv
  <2>2. phase' = "analyze"
    BY <1>1 DEF Collect
  <2>3. QED
    BY <2>1, <2>2 DEF SimilarInv, ClustersAsPromised
<1>2. CASE Fail
  <2>1. phase' = "failed" /\ UNCHANGED <<request, docs>>
    BY <1>2 DEF Fail
  <2>2. QED
    BY <2>1 DEF SimilarInv, DocsInv, ClustersAsPromised
<1>3. CASE Score
  <2>1. phase' = "link"
    BY <1>3 DEF Score
  <2>2. /\ DocsInv' /\ WeightsInv' /\ LinkInv(Len(kept), OverThreshold(weights))'
        /\ docs' # <<>>
    BY <1>3, ScoreKeeps DEF SimilarInv
  <2>3. QED
    BY <2>1, <2>2 DEF SimilarInv, ClustersAsPromised
<1>4. CASE Link
  <2>1. phase = "link" /\ phase' = "link" /\ docs' = docs
    BY <1>4 DEF Link
  <2>2. DocsInv' /\ WeightsInv' /\ LinkInv(Len(kept), OverThreshold(weights))'
    BY <1>4, <2>1, LinkKeeps DEF SimilarInv
  <2>3. QED
    BY <2>1, <2>2 DEF SimilarInv, ClustersAsPromised
<1>5. CASE Refine
  <2>1. phase = "link" /\ phase' = "explain" /\ UNCHANGED <<request, docs, kept, weights>>
    BY <1>5 DEF Refine
  <2>2. ClustersAsPromised'
    BY <1>5, <2>1, RefineKeeps DEF SimilarInv
  <2>3. QED
    BY <2>1, <2>2 DEF SimilarInv, DocsInv, WeightsInv
<1>6. CASE Explain
  <2>1. phase' = "analyze" /\ request' = request /\ docs' = Tail(docs)
    BY <1>6 DEF Explain
  <2>2. DocsInv'
    <3>1. docs \in Seq(Documents(request)) /\ docs # <<>> /\ request \in Request
      BY <1>6 DEF SimilarInv, DocsInv, Explain
    <3>2. Tail(docs) \in Seq(Documents(request))
      BY <3>1
    <3>3. QED
      BY <2>1, <3>1, <3>2 DEF DocsInv
  <2>3. QED
    BY <2>1, <2>2 DEF SimilarInv, ClustersAsPromised
<1>7. CASE MergeOutputs
  <2>1. phase' \in {"done", "libraries"} /\ UNCHANGED <<request, docs>>
    BY <1>7 DEF MergeOutputs
  <2>2. QED
    BY <2>1 DEF SimilarInv, DocsInv, ClustersAsPromised
<1>8. CASE AdviseLibraries
  <2>1. phase' = "done" /\ UNCHANGED <<request, docs>>
    BY <1>8 DEF AdviseLibraries
  <2>2. QED
    BY <2>1 DEF SimilarInv, DocsInv, ClustersAsPromised
<1>9. CASE UNCHANGED similar_vars
  <2>1. /\ UNCHANGED <<request, docs, kept, weights, clusters, rejected, phase>>
        /\ UNCHANGED <<parent, size, links, at, root>>
    BY <1>9 DEF similar_vars, doc_vars, forest_vars
  <2>2. DocsInv' /\ (phase' \in {"link", "explain"} => docs' # <<>> /\ WeightsInv')
    BY <2>1 DEF SimilarInv, DocsInv, WeightsInv
  <2>3. phase' = "link" => LinkInv(Len(kept), OverThreshold(weights))'
    BY <2>1 DEF SimilarInv, LinkInv, ForestShape, FindEnds, Connected, FindStands, OverThreshold
  <2>4. ClustersAsPromised'
    <3>1. Components(OverThreshold(weights))' = Components(OverThreshold(weights))
      BY <2>1 DEF Components, OverThreshold
    <3>2. OverThreshold(weights)' = OverThreshold(weights) /\ aggregate' = aggregate
      BY <2>1 DEF OverThreshold, aggregate
    <3>3. QED
      BY <2>1, <3>1, <3>2 DEF SimilarInv, ClustersAsPromised, MeetsGate
  <2>5. QED
    BY <2>2, <2>3, <2>4 DEF SimilarInv
<1>10. QED
  BY <1>1, <1>2, <1>3, <1>4, <1>5, <1>6, <1>7, <1>8, <1>9 DEF SimilarNext

(* Whatever is asked for and whatever the documents hold: the clusters of  *)
(* a document are what refine_cohesive promises of the pairs over the      *)
(* threshold -- they hang together, meet the gate and share nothing, cut   *)
(* no pair at the gate, a component that meets the gate is one of them,    *)
(* and one of which nothing is reported is counted (mod.rs:928-930).       *)
THEOREM ClustersKeepPromise == SimilarSpec => []ClustersAsPromised
<1>1. SimilarInit => SimilarInv
  BY SimilarStarts
<1>2. SimilarInv /\ [SimilarNext]_similar_vars => SimilarInv'
  BY SimilarSteps
<1>3. SimilarInv => ClustersAsPromised
  BY DEF SimilarInv
<1>4. QED
  BY <1>1, <1>2, <1>3, PTL DEF SimilarSpec

(* The command drives its forest as the forest expects to be driven: every *)
(* step of the command is one of the forest or none, so the forest of      *)
(* every document is a behaviour of UnionFind.                             *)
THEOREM SimilarDrivesForest == SimilarSpec => ForestSpec
<1>1. SimilarInit => ForestInit
  BY DEF SimilarInit
<1>2. SimilarInv /\ [SimilarNext]_similar_vars => [ForestNext]_forest_vars
  <2> SUFFICES ASSUME SimilarInv, [SimilarNext]_similar_vars
               PROVE  [ForestNext]_forest_vars
    OBVIOUS
  <2>1. CASE Score
    <3>1. DocsInv
      BY DEF SimilarInv
    <3>2. \E n \in Nat : \E pairs \in Seq(Pairs(n)) : Begin(n, pairs)
      BY <2>1, <3>1, ScoreKeeps
    <3>3. QED
      BY <3>2 DEF ForestNext
  <2>2. CASE Link
    BY <2>2 DEF Link, ForestNext
  <2>3. CASE Collect \/ Fail \/ Refine \/ Explain \/ MergeOutputs \/ AdviseLibraries
    BY <2>3 DEF Collect, Fail, Refine, Explain, MergeOutputs, AdviseLibraries
  <2>4. CASE UNCHANGED similar_vars
    BY <2>4 DEF similar_vars
  <2>5. QED
    BY <2>1, <2>2, <2>3, <2>4 DEF SimilarNext
<1>3. SimilarInit => SimilarInv
  BY SimilarStarts
<1>4. SimilarInv /\ [SimilarNext]_similar_vars => SimilarInv'
  BY SimilarSteps
<1>5. QED
  BY <1>1, <1>2, <1>3, <1>4, PTL DEF SimilarSpec, ForestSpec

(* So no find of the command loops, whatever signatures it compares.       *)
THEOREM SimilarFindsEnd == SimilarSpec => []FindEnds
BY SimilarDrivesForest, FindTerminates, PTL

-----------------------------------------------------------------------------
(***************************************************************************)
(* The merged document of the similar command.                             *)
(***************************************************************************)
(* In an order of the elements of a finite set, some element is last.      *)
LEMMA LastElement ==
  ASSUME NEW T, IsFiniteSet(T), T # {}, NEW R,
         \A x \in T : <<x, x>> \notin R,
         \A x, y, z \in T : <<x, y>> \in R /\ <<y, z>> \in R => <<x, z>> \in R
  PROVE  \E m \in T : \A y \in T : <<m, y>> \notin R
<1> DEFINE After(x) == {y \in T : <<x, y>> \in R}
           All == {After(x) : x \in T}
<1>1. All \in SUBSET SUBSET T /\ All # {}
  <2>1. \A x \in T : After(x) \in SUBSET T
    OBVIOUS
  <2> HIDE DEF After
  <2>2. QED
    BY <2>1
<1>2. PICK U \in All : \A V \in All : V \subseteq U => V = U
  <2> HIDE DEF All
  <2>1. QED
    BY <1>1, MinimalSubset
<1>3. PICK m \in T : U = After(m)
  OBVIOUS
<1>4. ASSUME NEW y \in T, <<m, y>> \in R
      PROVE  FALSE
  <2>1. After(y) \subseteq After(m)
    BY <1>4
  <2>2. After(y) = After(m)
    <3>1. After(y) \in All
      OBVIOUS
    <3> HIDE DEF All, After
    <3>2. QED
      BY <1>2, <1>3, <2>1, <3>1
  <2>3. y \in After(m)
    BY <1>4
  <2>4. QED
    BY <2>2, <2>3
<1>5. QED
  BY <1>4

(* Sorted: what seq lists are the elements of S, none before an earlier.   *)
Sorts(seq, S, R) ==
  /\ seq \in [1 .. Cardinality(S) -> S] /\ Range(seq) = S
  /\ \A i, j \in DOMAIN seq : i < j => <<seq[j], seq[i]>> \notin R

(* Every finite set can be sorted.                                         *)
LEMMA SortExists ==
  ASSUME NEW S, IsFiniteSet(S), NEW R,
         \A x \in S : <<x, x>> \notin R,
         \A x, y, z \in S : <<x, y>> \in R /\ <<y, z>> \in R => <<x, z>> \in R
  PROVE  \E seq : Sorts(seq, S, R)
<1> DEFINE Bad == {T \in SUBSET S : ~\E seq : Sorts(seq, T, R)}
<1>1. ASSUME Bad # {}
      PROVE  FALSE
  <2>1. Bad \in SUBSET SUBSET S
    OBVIOUS
  <2>2. PICK T \in Bad : \A U \in Bad : U \subseteq T => U = T
    <3> HIDE DEF Bad
    <3>1. QED
      BY <1>1, <2>1, MinimalSubset
  <2>3. T \in SUBSET S /\ ~\E seq : Sorts(seq, T, R)
    OBVIOUS
  <2>4. IsFiniteSet(T)
    BY <2>3, FS_Subset
  <2>5. T # {}
    <3>1. ASSUME T = {}
          PROVE  FALSE
      <4> DEFINE none == [i \in 1 .. 0 |-> i]
      <4>1. none \in [1 .. Cardinality(T) -> T] /\ Range(none) = T /\ DOMAIN none = {}
        BY <3>1, FS_EmptySet DEF Range
      <4>2. Sorts(none, T, R)
        BY <4>1 DEF Sorts
      <4>3. QED
        BY <2>3, <4>2
    <3>2. QED
      BY <3>1
  <2>6. PICK m \in T : \A y \in T : <<m, y>> \notin R
    <3>1. \A x \in T : <<x, x>> \notin R
      BY <2>3
    <3>2. \A x, y, z \in T : <<x, y>> \in R /\ <<y, z>> \in R => <<x, z>> \in R
      BY <2>3
    <3>3. QED
      BY <2>4, <2>5, <3>1, <3>2, LastElement
  <2> DEFINE U == T \ {m}
  <2>7. U \in SUBSET T /\ U # T /\ U \cup {m} = T
    OBVIOUS
  <2>8. PICK seq : Sorts(seq, U, R)
    BY <2>2, <2>7
  <2>9. PICK n \in Nat : Cardinality(U) = n /\ Cardinality(T) = n + 1
    <3>1. IsFiniteSet(U)
      BY <2>4, FS_Subset
    <3>2. Cardinality(U) \in Nat /\ Cardinality(U) = Cardinality(T) - 1
      BY <2>4, <3>1, FS_CardinalityType, FS_RemoveElement
    <3>3. Cardinality(T) \in Nat
      BY <2>4, FS_CardinalityType
    <3>4. QED
      BY <3>2, <3>3
  <2> DEFINE more == [i \in 1 .. n + 1 |-> IF i = n + 1 THEN m ELSE seq[i]]
  <2>10. /\ seq \in [1 .. n -> U] /\ Range(seq) = U
         /\ \A i, j \in 1 .. n : i < j => <<seq[j], seq[i]>> \notin R
    BY <2>8, <2>9 DEF Sorts
  <2> HIDE DEF U
  <2>11. more \in [1 .. n + 1 -> T]
    BY <2>7, <2>10
  <2>12. Range(more) = T
    <3>1. ASSUME NEW x \in T
          PROVE  \E i \in 1 .. n + 1 : more[i] = x
      <4>1. CASE x = m
        BY <4>1
      <4>2. CASE x \in U
        <5>1. PICK i \in 1 .. n : seq[i] = x
          BY <2>10, <4>2 DEF Range
        <5>2. i \in 1 .. n + 1 /\ i # n + 1
          OBVIOUS
        <5>3. QED
          BY <5>1, <5>2
      <4>3. QED
        BY <2>7, <4>1, <4>2
    <3> HIDE DEF more
    <3>2. QED
      BY <2>11, <3>1 DEF Range
  <2>13. ASSUME NEW i \in 1 .. n + 1, NEW j \in 1 .. n + 1, i < j
         PROVE  <<more[j], more[i]>> \notin R
    <3>1. i \in 1 .. n /\ more[i] = seq[i] /\ seq[i] \in T
      BY <2>7, <2>10, <2>13
    <3>2. CASE j = n + 1
      BY <2>6, <3>1, <3>2
    <3>3. CASE j # n + 1
      <4>1. j \in 1 .. n /\ more[j] = seq[j]
        BY <3>3
      <4>2. QED
        BY <2>10, <2>13, <3>1, <4>1
    <3>4. QED
      BY <3>2, <3>3
  <2> HIDE DEF more
  <2>14. Sorts(more, T, R)
    <3>1. DOMAIN more = 1 .. n + 1
      BY <2>11
    <3>2. QED
      BY <2>9, <2>11, <2>12, <2>13, <3>1 DEF Sorts
  <2>15. QED
    BY <2>3, <2>14
<1>2. QED
  BY <1>1

(* What a finding is sorted by.                                            *)
Comparable(c) ==
  c.confidence \in Nat /\ Len(c.members) \in Nat /\ c.members[1] \in Nat

(* The numbered findings are the ones found, in falling confidence.        *)
LEMMA FindingsSorted ==
  ASSUME NEW found, IsFiniteSet(found), \A c \in found : Comparable(c),
         NEW seq, seq = sort_and_number_findings(found)
  PROVE  /\ Range(seq) = found
         /\ \A i, j \in DOMAIN seq : i < j => seq[i].confidence >= seq[j].confidence
<1> DEFINE R == {p \in found \X found : comes_before(p[1], p[2])}
           InPlace(s) == /\ Range(s) = found
                         /\ \A i, j \in DOMAIN s : i < j => ~comes_before(s[j], s[i])
<1>1. \A x \in found : <<x, x>> \notin R
  BY DEF Comparable, comes_before
<1>2. ASSUME NEW x \in found, NEW y \in found, NEW z \in found,
             comes_before(x, y), comes_before(y, z)
      PROVE  comes_before(x, z)
  BY <1>2 DEF Comparable, comes_before
<1>3. \A x, y, z \in found : <<x, y>> \in R /\ <<y, z>> \in R => <<x, z>> \in R
  BY <1>2
<1>4. \A x, y \in found : <<x, y>> \in R <=> comes_before(x, y)
  OBVIOUS
<1> HIDE DEF R
<1>5. PICK s : Sorts(s, found, R)
  BY <1>1, <1>3, SortExists
<1>6. s \in [1 .. Cardinality(found) -> found] /\ InPlace(s)
  BY <1>4, <1>5 DEF Sorts
<1>7. seq \in [1 .. Cardinality(found) -> found] /\ InPlace(seq)
  BY <1>6, Zenon DEF sort_and_number_findings
<1>8. ASSUME NEW i \in DOMAIN seq, NEW j \in DOMAIN seq, i < j
      PROVE  seq[i].confidence >= seq[j].confidence
  <2>1. Comparable(seq[i]) /\ Comparable(seq[j])
    BY <1>7
  <2>2. ~comes_before(seq[j], seq[i])
    BY <1>7, <1>8
  <2>3. QED
    BY <2>1, <2>2 DEF Comparable, comes_before
<1>9. QED
  BY <1>7, <1>8

-----------------------------------------------------------------------------
(* A quotient of naturals is one. *)
LEMMA QuotientNat ==
  ASSUME NEW a \in Nat, NEW d \in Nat, d > 0
  PROVE  a \div d \in Nat
BY QuotientBar

(* A mean of naturals is one. *)
LEMMA MeanNat ==
  ASSUME NEW P, IsFiniteSet(P), NEW scored, DOMAIN scored = P,
         \A p \in P : scored[p].aggregate \in Nat
  PROVE  mean_scores(scored)["aggregate"] \in Nat
<1> DEFINE w == [p \in P |-> scored[p]["aggregate"]]
<1>1. mean_scores(scored)["aggregate"]
        = IF P = {} THEN 0 ELSE SumFunction(w) \div Cardinality(P)
  BY DEF mean_scores, Signals
<1>2. w \in [P -> Nat] /\ DOMAIN w = P
  OBVIOUS
<1> HIDE DEF w
<1>3. SumFunction(w) \in Nat
  <2>1. SumFunction(w) = SumFunctionOnSet(w, P)
    BY <1>2 DEF SumFunction
  <2>2. QED
    BY <1>2, <2>1, SumExists
<1>4. P # {} => Cardinality(P) \in Nat /\ Cardinality(P) > 0
  BY FS_CardinalityType, FS_EmptySet
<1>5. P # {} => SumFunction(w) \div Cardinality(P) \in Nat
  BY <1>3, <1>4, QuotientNat
<1>6. QED
  BY <1>1, <1>5

(* A doubt takes a share away, and leaves no less than nothing.            *)
LEMMA DockedNat ==
  ASSUME NEW c \in Nat, NEW percent \in 0 .. 100
  PROVE  (c * percent) \div 100 \in Nat /\ (c * percent) \div 100 <= c
<1>1. c * percent \in Nat /\ c * percent <= c * 100
  OBVIOUS
<1>2. ~((c * percent) \div 100 >= c + 1)
  <2>1. (c + 1) * 100 = c * 100 + 100 /\ c * 100 \in Nat
    OBVIOUS
  <2>2. (c * percent) \div 100 >= c + 1 <=> c * percent >= (c + 1) * 100
    BY <1>1, QuotientBar
  <2>3. QED
    BY <1>1, <2>1, <2>2
<1>3. (c * percent) \div 100 \in Nat
  BY <1>1, QuotientNat
<1>4. QED
  BY <1>2, <1>3

(* A confidence is a number, under the cap when some profile at hand does  *)
(* not resolve its types.                                                  *)
LEMMA ConfidenceCapped ==
  ASSUME NEW f, NEW mean, mean["aggregate"] \in Nat, NEW profiles
  PROVE  /\ confidence(f, mean, profiles) \in Nat
         /\ (\E p \in profiles : ~types_are_resolved(p))
              => confidence(f, mean, profiles) <= 85
<1> DEFINE Dock(c, doubt, percent) == IF doubt THEN (c * percent) \div 100 ELSE c
           resolved == \A p \in profiles : types_are_resolved(p)
           capped == 1000 * (IF resolved THEN mean["aggregate"]
                             ELSE Smaller(mean["aggregate"], SYNTACTIC_CONFIDENCE_CAP))
           small == Dock(capped, f.min_token_len < Smaller(f.max_token_len, 24), 90)
           macros == Dock(small, f.any_macro, 90)
           files == Dock(macros, f.file_count > 1, 95)
           shells == Dock(files, ShellsOnly(mean), 90)
<1>1. \A c \in Nat : \A doubt, percent :
        percent \in 0 .. 100 => Dock(c, doubt, percent) \in Nat /\ Dock(c, doubt, percent) <= c
  BY DockedNat
<1>2. capped \in Nat /\ (~resolved => capped <= 850000)
  <2>1. mean["aggregate"] \in Nat /\ Smaller(mean["aggregate"], SYNTACTIC_CONFIDENCE_CAP) \in Nat
        /\ Smaller(mean["aggregate"], SYNTACTIC_CONFIDENCE_CAP) <= 850
    BY DEF Smaller, SYNTACTIC_CONFIDENCE_CAP
  <2>2. QED
    BY <2>1
<1>3. confidence(f, mean, profiles) = (shells + 5000) \div 10000
  BY DEF confidence
<1> HIDE DEF capped, Dock
<1>4. small \in Nat /\ small <= capped
  BY <1>1, <1>2
<1> HIDE DEF small
<1>5. macros \in Nat /\ macros <= small
  BY <1>1, <1>4
<1> HIDE DEF macros
<1>6. files \in Nat /\ files <= macros
  BY <1>1, <1>5
<1> HIDE DEF files
<1>7. shells \in Nat /\ shells <= files
  BY <1>1, <1>6
<1> HIDE DEF shells
<1>8. (shells + 5000) \div 10000 \in Nat
  BY <1>7, QuotientNat
<1>9. shells <= 850000 => (shells + 5000) \div 10000 <= 85
  BY <1>7
<1>10. QED
  BY <1>2, <1>3, <1>4, <1>5, <1>6, <1>7, <1>8, <1>9

(* The family suggested is one the profile of the language has.            *)
LEMMA FamilyFits ==
  ASSUME NEW language, NEW shape
  PROVE  family_in_profile(language, family_for(language, shape))
<1>1. family_in_profile(language, "helper_function")
  BY DEF family_in_profile, profile_for_language, rust_syn_profile, ts_tsc_profile, RustFamilies
<1>2. QED
  BY <1>1 DEF family_for

(* A fair candidate, found by an extractor.                                *)
CandidateFair(c, extractor) ==
  /\ Comparable(c)
  /\ family_in_profile(c.language, c.family)
  /\ c.language = "rust" /\ extractor # "stablemir" => c.confidence <= 85

(* What is said of a cluster is fair, when the profiles at hand include    *)
(* that of its language.                                                   *)
LEMMA ExplainFair ==
  ASSUME NEW members, Len(members) \in Nat, DOMAIN members = 1 .. Len(members),
         1 \in DOMAIN members, members[1].id \in Nat,
         NEW P, IsFiniteSet(P), NEW scored, DOMAIN scored = P,
         \A p \in P : scored[p].aggregate \in Nat,
         NEW profiles, NEW extractor,
         members[1].language = "rust" /\ extractor # "stablemir"
           => rust_syn_profile \in profiles
  PROVE  CandidateFair(explain_cluster(members, scored, profiles), extractor)
<1> DEFINE c == explain_cluster(members, scored, profiles)
           f == ClusterFeatures({members[k] : k \in DOMAIN members})
           mean == mean_scores(scored)
<1>1. /\ c.members = [k \in DOMAIN members |-> members[k].id]
      /\ c.language = members[1].language
      /\ c.family = family_for(members[1].language, abstraction_case(f))
      /\ c.confidence = confidence(f, mean, profiles)
  BY DEF explain_cluster
<1> HIDE DEF c, f
<1>2. mean["aggregate"] \in Nat
  BY MeanNat
<1> HIDE DEF mean
<1>3. ~types_are_resolved(rust_syn_profile)
  BY DEF types_are_resolved, rust_syn_profile
<1>4. c.confidence \in Nat
      /\ (c.language = "rust" /\ extractor # "stablemir" => c.confidence <= 85)
  BY <1>1, <1>2, <1>3, ConfidenceCapped
<1>5. Len(c.members) \in Nat /\ c.members[1] \in Nat
  <2>1. c.members[1] = members[1].id
    BY <1>1
  <2>2. PICK n \in Nat : n = Len(members)
    OBVIOUS
  <2>3. c.members = [k \in 1 .. n |-> members[k].id]
    BY <1>1, <2>2
  <2>4. Len([k \in 1 .. n |-> members[k].id]) = n
    BY <2>2
  <2>5. QED
    BY <2>1, <2>2, <2>3, <2>4
<1>6. family_in_profile(c.language, c.family)
  BY <1>1, FamilyFits
<1>7. QED
  BY <1>4, <1>5, <1>6 DEF CandidateFair, Comparable, c

-----------------------------------------------------------------------------
(* What a derive is offered for: a type of the project, by a pattern of    *)
(* the crate that finds something to replace.                              *)
Derived(types, config, f) ==
  \E crate \in curated_crates(config), t \in types :
    \E pat \in curated_derive_patterns(crate, t) :
      /\ pat.impls # {}
      /\ f = make_finding(<<t.id, pat.impls>>, crate, pat.item, "curated",
                          CuratedSelection(config, crate).trust, pat.structural)

(* Advice that names a type and impls is a derive's.                       *)
LEMMA AdviceIsDerived ==
  ASSUME NEW sigs, NEW types, NEW config, NEW f \in match_libraries(sigs, types, config),
         Len(f.local) = 2
  PROVE  Derived(types, config, f)
<1>1. ASSUME NEW s \in sigs, NEW v \in virtual_signatures(config), f \in match_virtual(s, v)
      PROVE  FALSE
  <2>1. f.local = <<s.id>>
    BY <1>1 DEF match_virtual, make_finding
  <2>2. QED
    BY <2>1
<1>2. ASSUME NEW s \in sigs, NEW crate, NEW trust, f \in match_body(crate, s, trust)
      PROVE  FALSE
  <2>1. f.local = <<s.id>>
    BY <1>2 DEF match_body, make_finding
  <2>2. QED
    BY <2>1
<1>3. f \notin tier_a(sigs, config)
  BY <1>1 DEF tier_a
<1>4. PICK crate \in curated_crates(config) :
        f \in tier_b(crate, CuratedSelection(config, crate), sigs, types)
  BY <1>3 DEF match_libraries
<1>5. PICK sel : sel = CuratedSelection(config, crate)
  OBVIOUS
<1>6. f \in tier_b(crate, sel, sigs, types)
  BY <1>4, <1>5
<1>7. PICK t \in types : f \in match_type(crate, t, sel.trust)
  BY <1>2, <1>6 DEF tier_b
<1>8. PICK pat \in curated_derive_patterns(crate, t) :
        /\ pat.impls # {}
        /\ f = make_finding(<<t.id, pat.impls>>, crate, pat.item, "curated",
                            sel.trust, pat.structural)
  BY <1>7 DEF match_type
<1>9. QED
  BY <1>5, <1>8 DEF Derived

(* The fields of advice on a type.                                         *)
LEMMA DerivedFields ==
  ASSUME NEW local, NEW library, NEW item, NEW source, NEW trust, NEW structural,
         NEW f, f = make_finding(local, library, item, source, trust, structural)
  PROVE  f.local = local /\ f.item = item
BY DEF make_finding

(* A pattern of thiserror, and what the patterns of other crates replace.  *)
LEMMA DerivePatterns ==
  ASSUME NEW crate, NEW t, NEW pat \in curated_derive_patterns(crate, t)
  PROVE  /\ crate = "thiserror" =>
              pat = [item |-> "Error", structural |-> 900, impls |-> thiserror_error_check(t)]
         /\ crate # "thiserror" =>
              /\ pat.item # "Error"
              /\ pat.impls \in {derive_more_from_check(t), derive_more_display_check(t),
                               strum_display_check(t), strum_enum_string_check(t)}
<1> DEFINE thiserror ==
             {[item |-> "Error", structural |-> 900, impls |-> thiserror_error_check(t)]}
           derive_more ==
             {[item |-> "From", structural |-> 850, impls |-> derive_more_from_check(t)],
              [item |-> "Display", structural |-> 800, impls |-> derive_more_display_check(t)]}
           strum ==
             {[item |-> "Display", structural |-> 750, impls |-> strum_display_check(t)],
              [item |-> "EnumString", structural |-> 750, impls |-> strum_enum_string_check(t)]}
<1>1. curated_derive_patterns(crate, t)
        = CASE crate = "thiserror" -> thiserror
            [] crate = "derive_more" -> derive_more
            [] crate = "strum" -> strum
            [] OTHER -> {}
  BY Zenon DEF curated_derive_patterns
<1>2. ASSUME NEW x \in derive_more \cup strum
      PROVE  /\ x.item # "Error"
             /\ x.impls \in {derive_more_from_check(t), derive_more_display_check(t),
                            strum_display_check(t), strum_enum_string_check(t)}
  <2>1. CASE x \in derive_more
    BY <2>1
  <2>2. CASE x \in strum
    BY <2>2
  <2>3. QED
    BY <2>1, <2>2
<1>3. ASSUME NEW x \in thiserror
      PROVE  x = [item |-> "Error", structural |-> 900, impls |-> thiserror_error_check(t)]
  OBVIOUS
<1> HIDE DEF thiserror, derive_more, strum
<1>4. /\ crate = "thiserror" => pat \in thiserror
      /\ crate # "thiserror" => pat \in derive_more \cup strum
  BY <1>1
<1>5. QED
  BY <1>2, <1>3, <1>4

(* An error type's Display is offered to one derive only.                  *)
LEMMA AdviceIsFair ==
  ASSUME NEW types, \A a, b \in types : a.id = b.id => a = b,
         NEW sigs, NEW config,
         NEW f \in match_libraries(sigs, types, config),
         NEW g \in match_libraries(sigs, types, config),
         f.item = "Error", Len(f.local) = 2, Len(g.local) = 2,
         f.local[1] = g.local[1], f # g
  PROVE  f.local[2] \cap g.local[2] = {}
<1>1. PICK cf \in curated_crates(config), tf \in types :
        \E pat \in curated_derive_patterns(cf, tf) :
          /\ pat.impls # {}
          /\ f = make_finding(<<tf.id, pat.impls>>, cf, pat.item, "curated",
                              CuratedSelection(config, cf).trust, pat.structural)
  <2>1. Derived(types, config, f)
    BY AdviceIsDerived
  <2>2. QED
    BY <2>1, Zenon DEF Derived
<1>2. PICK pf \in curated_derive_patterns(cf, tf) :
          /\ pf.impls # {}
          /\ f = make_finding(<<tf.id, pf.impls>>, cf, pf.item, "curated",
                              CuratedSelection(config, cf).trust, pf.structural)
  BY <1>1
<1>3. PICK cg \in curated_crates(config), tg \in types :
        \E pat \in curated_derive_patterns(cg, tg) :
          /\ pat.impls # {}
          /\ g = make_finding(<<tg.id, pat.impls>>, cg, pat.item, "curated",
                              CuratedSelection(config, cg).trust, pat.structural)
  <2>1. Derived(types, config, g)
    BY AdviceIsDerived
  <2>2. QED
    BY <2>1, Zenon DEF Derived
<1>4. PICK pg \in curated_derive_patterns(cg, tg) :
          /\ pg.impls # {}
          /\ g = make_finding(<<tg.id, pg.impls>>, cg, pg.item, "curated",
                              CuratedSelection(config, cg).trust, pg.structural)
  BY <1>3
<1>5. f.local = <<tf.id, pf.impls>> /\ f.item = pf.item
  BY <1>2, DerivedFields
<1>6. g.local = <<tg.id, pg.impls>> /\ g.item = pg.item
  BY <1>4, DerivedFields
<1>7. tf = tg
  <2>1. tf.id = tg.id
    BY <1>5, <1>6
  <2>2. QED
    BY <2>1
<1>8. /\ cf = "thiserror" /\ HasImpl(tf, "Error") /\ pf.impls = {"Display", "Error"}
      /\ pf = [item |-> "Error", structural |-> 900, impls |-> thiserror_error_check(tf)]
  <2>1. pf.item = "Error"
    BY <1>5
  <2>2. cf = "thiserror"
    BY <2>1, DerivePatterns
  <2>3. pf = [item |-> "Error", structural |-> 900, impls |-> thiserror_error_check(tf)]
    BY <2>2, DerivePatterns
  <2>4. pf.impls = thiserror_error_check(tf)
    BY <2>3
  <2>5. HasImpl(tf, "Error") /\ pf.impls = {"Display", "Error"}
    BY <1>2, <2>4 DEF thiserror_error_check
  <2>6. QED
    BY <2>2, <2>3, <2>5
<1>9. CASE cg = "thiserror"
  <2>1. pg = pf
    BY <1>7, <1>8, <1>9, DerivePatterns
  <2>2. f = g
    BY <1>2, <1>4, <1>7, <1>8, <1>9, <2>1
  <2>3. QED
    BY <2>2
<1>10. CASE cg # "thiserror"
  <2>1. pg.impls \in {derive_more_from_check(tf), derive_more_display_check(tf),
                      strum_display_check(tf), strum_enum_string_check(tf)}
    BY <1>7, <1>10, DerivePatterns
  <2>2. pg.impls \subseteq {"From", "FromStr"}
    BY <2>1, <1>8 DEF derive_more_from_check, derive_more_display_check, strum_display_check,
                      strum_enum_string_check
  <2>3. pf.impls \cap pg.impls = {}
    BY <1>8, <2>2
  <2>4. QED
    BY <1>5, <1>6, <2>3
<1>11. QED
  BY <1>9, <1>10

-----------------------------------------------------------------------------
(* The signatures kept are of the document under way and of the language   *)
(* asked for.                                                              *)
KeptInv ==
  LET all == docs[1].signatures
  IN  /\ kept \in Seq(Range(all))
      /\ \A i \in DOMAIN kept :
           kept[i].id \in Nat /\ request.language \in {"any", kept[i].language}

(* What an analysis returns: finitely many candidates, each of them fair.  *)
OutputFair(o) ==
  /\ IsFiniteSet(o.candidates)
  /\ \A c \in o.candidates : CandidateFair(c, o.extractor)

OutputsInv == \E S : outputs \in Seq(S) /\ \A o \in S : OutputFair(o)

FindingsInv ==
  /\ SimilarInv
  /\ phase \in {"link", "explain"} => KeptInv
  /\ phase = "explain" => clusters \in SUBSET SUBSET DOMAIN kept
  /\ OutputsInv
  /\ phase = "libraries" => CandidatesFair /\ {"candidates", "library"} \subseteq DOMAIN report
  /\ ReportFair

(* The filter keeps signatures of the document that pass it.               *)
LEMMA ScoreFilters ==
  ASSUME DocsInv, Score
  PROVE  KeptInv'
<1> DEFINE all == docs[1].signatures
           passing == {k \in DOMAIN all : Passes(all[k])}
<1>1. /\ request \in Request /\ request' = request /\ docs' = docs /\ docs # <<>>
      /\ docs \in Seq(Documents(request))
  BY DEF DocsInv, Score
<1>2. all \in SignatureLists(request)
  <2>1. docs[1] \in Documents(request)
    BY <1>1
  <2>2. QED
    BY <2>1, DocumentLists
<1>3. all \in Seq(Range(all)) /\ \A a \in Range(all) : a.id \in Nat
  BY <1>1, <1>2, RequestAssumption
<1>4. kept' = Chosen(all, passing)
  BY Zenon DEF Score
<1>5. all' = all
  BY <1>1
<1>6. passing \in SUBSET DOMAIN all
  OBVIOUS
<1>7. \A k \in passing : all[k] \in Range(all) /\ request.language \in {"any", all[k].language}
  BY DEF Range, Passes
<1> HIDE DEF all, passing
<1>8. /\ kept' \in Seq(Range(all))
      /\ \A i \in DOMAIN kept' : \E k \in passing : kept'[i] = all[k]
  BY <1>3, <1>4, <1>6, ChosenIsList
<1>9. \A i \in DOMAIN kept' :
        kept'[i].id \in Nat /\ request.language \in {"any", kept'[i].language}
  BY <1>3, <1>7, <1>8
<1>10. QED
  BY <1>1, <1>5, <1>8, <1>9 DEF KeptInv, all

(* The profiles at hand include that of a language that was kept.          *)
LEMMA ProfilePresent ==
  ASSUME NEW i \in DOMAIN kept, KeptInv, docs[1].signatures \in Seq(Range(docs[1].signatures)),
         kept[i].language = "rust", docs[1].extractor # "stablemir"
  PROVE  rust_syn_profile \in profiles_present
<1> DEFINE all == docs[1].signatures
<1>1. kept[i] \in Range(all) /\ request.language \in {"any", kept[i].language}
  BY DEF KeptInv
<1>2. PICK k \in DOMAIN all : all[k] = kept[i]
  BY <1>1 DEF Range
<1>3. profile_for(all[k].language, docs[1].extractor) = {rust_syn_profile}
  BY <1>2 DEF profile_for, profile_for_language
<1>4. k \in {j \in DOMAIN all : request.language \in {"any", all[j].language}}
  BY <1>1, <1>2
<1>5. QED
  BY <1>3, <1>4 DEF profiles_present

(* The set of the values of a function on a finite set is finite.          *)
LEMMA FiniteValues ==
  ASSUME NEW f, IsFiniteSet(DOMAIN f), f = [x \in DOMAIN f |-> f[x]]
  PROVE  IsFiniteSet(Range(f))
<1>1. f \in Surjection(DOMAIN f, Range(f))
  BY DEF Surjection, Range
<1>2. QED
  BY <1>1, FS_Surjection

(* Each cluster of a document is explained fairly.                         *)
LEMMA ExplainKeeps ==
  ASSUME SimilarInv, KeptInv, clusters \in SUBSET SUBSET DOMAIN kept, OutputsInv, Explain
  PROVE  OutputsInv'
<1> DEFINE all == docs[1].signatures
           Scored(c) == [p \in Inside(DOMAIN weights, c) |-> weights[p]]
           Said(c) == explain_cluster(Members(c), Scored(c), profiles_present)
           made == [extractor |-> docs[1].extractor,
                    candidates |-> {Said(c) : c \in clusters},
                    compared |-> Cardinality(DOMAIN weights),
                    rejected |-> rejected,
                    profiles |-> profiles_present]
<1>1. phase = "explain" /\ outputs' = Append(outputs, made)
  BY Zenon DEF Explain
<1>2. WeightsInv /\ docs # <<>> /\ DocsInv /\ ClustersAsPromised
  BY <1>1 DEF SimilarInv
<1>3. all \in Seq(Range(all))
  <2>1. docs[1] \in Documents(request) /\ request \in Request
    BY <1>2 DEF DocsInv
  <2>2. QED
    BY <2>1, DocumentLists, RequestAssumption
<1>4. PICK n \in Nat : n = Len(kept) /\ DOMAIN kept = 1 .. n
  BY <1>2 DEF WeightsInv
<1>5. IsFiniteSet(1 .. n)
  BY FS_Interval
<1>6. IsFiniteSet(DOMAIN weights)
  <2>1. DOMAIN weights \in SUBSET ((1 .. n) \X (1 .. n))
    BY <1>2, <1>4 DEF WeightsInv, Pairs
  <2>2. IsFiniteSet((1 .. n) \X (1 .. n))
    BY <1>5, FS_Product
  <2>3. QED
    BY <2>1, <2>2, FS_Subset
<1>7. ASSUME NEW c \in clusters
      PROVE  CandidateFair(Said(c), docs[1].extractor)
  <2>1. c \in SUBSET DOMAIN kept /\ Cardinality(c) >= 2
    BY <1>1, <1>2 DEF ClustersAsPromised
  <2>2. Cardinality(c) \in Nat
    <3>1. IsFiniteSet(c)
      BY <1>4, <1>5, <2>1, FS_Subset
    <3>2. QED
      BY <3>1, FS_CardinalityType
  <2>3. PICK members : members = Members(c)
    OBVIOUS
  <2>4. /\ members \in Seq(Range(all)) /\ Len(members) = Cardinality(c)
        /\ \A i \in DOMAIN members : \E k \in c : members[i] = kept[k]
    <3>1. kept \in Seq(Range(all))
      BY DEF KeptInv
    <3> HIDE DEF all
    <3>2. QED
      BY <2>1, <2>3, <3>1, ChosenIsList DEF Members
  <2>5. Len(members) \in Nat /\ DOMAIN members = 1 .. Len(members) /\ 1 \in DOMAIN members
    BY <2>1, <2>2, <2>4
  <2>6. PICK k \in c : members[1] = kept[k]
    BY <2>4, <2>5
  <2>7. /\ members[1].id \in Nat
        /\ members[1].language = "rust" /\ docs[1].extractor # "stablemir"
             => rust_syn_profile \in profiles_present
    BY <1>3, <2>1, <2>6, ProfilePresent DEF KeptInv
  <2>8. PICK P : P = Inside(DOMAIN weights, c)
    OBVIOUS
  <2>9. IsFiniteSet(P) /\ P \subseteq DOMAIN weights
    BY <1>6, <2>8, FS_Subset DEF Inside
  <2>10. PICK scored : scored = [p \in P |-> weights[p]]
    OBVIOUS
  <2>11. DOMAIN scored = P /\ \A p \in P : scored[p].aggregate \in Nat
    BY <1>2, <2>9, <2>10 DEF WeightsInv
  <2>12. CandidateFair(explain_cluster(members, scored, profiles_present), docs[1].extractor)
    BY <2>5, <2>7, <2>9, <2>11, ExplainFair
  <2>13. QED
    BY <2>3, <2>8, <2>10, <2>12
<1> HIDE DEF Said
<1>8. IsFiniteSet({Said(c) : c \in clusters})
  <2>1. IsFiniteSet(clusters)
    <3>1. IsFiniteSet(SUBSET (1 .. n))
      BY <1>5, FS_SUBSET
    <3>2. QED
      BY <1>4, <3>1, FS_Subset
  <2> DEFINE f == [c \in clusters |-> Said(c)]
  <2>2. DOMAIN f = clusters /\ f = [c \in DOMAIN f |-> f[c]]
    OBVIOUS
  <2>3. Range(f) = {Said(c) : c \in clusters}
    BY DEF Range
  <2> HIDE DEF f
  <2>4. QED
    BY <2>1, <2>2, <2>3, FiniteValues
<1>9. OutputFair(made)
  BY <1>7, <1>8 DEF OutputFair
<1> HIDE DEF made
<1>10. PICK S : outputs \in Seq(S) /\ \A o \in S : OutputFair(o)
  BY DEF OutputsInv
<1>11. outputs' \in Seq(S \cup {made})
  <2>1. outputs \in Seq(S \cup {made})
    BY <1>10
  <2>2. QED
    BY <1>1, <2>1
<1>12. \A o \in S \cup {made} : OutputFair(o)
  BY <1>9, <1>10
<1>13. QED
  BY <1>11, <1>12 DEF OutputsInv

-----------------------------------------------------------------------------
(* Merged, the analyses lose nothing and are fair. *)
LEMMA MergeKeeps ==
  ASSUME OutputsInv, MergeOutputs
  PROVE  /\ CandidatesFair' /\ OutputsInv'
         /\ {"candidates", "library"} \subseteq DOMAIN report'
         /\ report'.library = {}
<1> DEFINE of == [i \in DOMAIN outputs |-> outputs[i].candidates]
<1>1. PICK found : found = UNION {outputs[i].candidates : i \in DOMAIN outputs}
  OBVIOUS
<1>2. PICK seq : seq = sort_and_number_findings(found)
  OBVIOUS
<1>3. /\ report'.candidates = seq /\ report'.library = {}
      /\ {"candidates", "library"} \subseteq DOMAIN report'
  BY <1>1, <1>2 DEF MergeOutputs
<1>4. PICK S : outputs \in Seq(S) /\ \A o \in S : OutputFair(o)
  BY DEF OutputsInv
<1>5. \A i \in DOMAIN outputs : OutputFair(outputs[i])
  BY <1>4
<1>6. \A i \in DOMAIN outputs : \A c \in outputs[i].candidates :
        CandidateFair(c, outputs[i].extractor)
  BY <1>5 DEF OutputFair
<1>7. IsFiniteSet(found)
  <2>1. IsFiniteSet(DOMAIN outputs)
    <3>1. DOMAIN outputs = 1 .. Len(outputs) /\ Len(outputs) \in Nat
      BY <1>4
    <3>2. QED
      BY <3>1, FS_Interval
  <2>2. DOMAIN of = DOMAIN outputs /\ of = [i \in DOMAIN of |-> of[i]]
    OBVIOUS
  <2>3. Range(of) = {outputs[i].candidates : i \in DOMAIN outputs}
    BY DEF Range
  <2> HIDE DEF of
  <2>4. IsFiniteSet({outputs[i].candidates : i \in DOMAIN outputs})
    BY <2>1, <2>2, <2>3, FiniteValues
  <2>5. \A T \in {outputs[i].candidates : i \in DOMAIN outputs} : IsFiniteSet(T)
    BY <1>5 DEF OutputFair
  <2>6. QED
    BY <1>1, <2>4, <2>5, FS_UNION
<1>8. \A c \in found : Comparable(c)
  BY <1>1, <1>6 DEF CandidateFair
<1>9. /\ Range(seq) = found
      /\ \A i, j \in DOMAIN seq : i < j => seq[i].confidence >= seq[j].confidence
  BY <1>2, <1>7, <1>8, FindingsSorted
<1>10. outputs' = outputs
  BY DEF MergeOutputs
<1>11. \A k \in DOMAIN outputs : outputs[k].candidates \subseteq found
  BY <1>1
<1>12. ASSUME NEW c \in found
       PROVE  LET from == {k \in DOMAIN outputs : c \in outputs[k].candidates}
              IN  /\ from # {}
                  /\ family_in_profile(c.language, c.family)
                  /\ \A k \in from : c.language = "rust" /\ outputs[k].extractor # "stablemir"
                                       => c.confidence <= 85
  BY <1>1, <1>6 DEF CandidateFair
<1>13. CandidatesFair'
  BY <1>3, <1>9, <1>10, <1>11, <1>12 DEF CandidatesFair
<1>14. QED
  BY <1>3, <1>10, <1>13 DEF OutputsInv

(* The advice is fair, and what was merged stays as it is. *)
LEMMA AdviseKeeps ==
  ASSUME DocsInv, OutputsInv, CandidatesFair,
         {"candidates", "library"} \subseteq DOMAIN report, AdviseLibraries
  PROVE  CandidatesFair' /\ AdviceFair' /\ OutputsInv'
<1>1. PICK types : types = IF request.structural # <<>> THEN {} ELSE request.types
  OBVIOUS
<1>2. PICK found : found = match_libraries(LocalRust, types, request.libraries)
  OBVIOUS
<1>3. report' = [report EXCEPT !.library = found,
                               !.profiles = report.profiles \cup attach_profiles(found)]
  BY <1>1, <1>2 DEF AdviseLibraries
<1>4. report'.candidates = report.candidates /\ report'.library = found
  BY <1>3
<1>5. outputs' = outputs
  BY DEF AdviseLibraries
<1>6. \A a, b \in types : a.id = b.id => a = b
  BY <1>1, RequestAssumption DEF DocsInv
<1>7. ASSUME NEW f \in found, NEW g \in found, f.item = "Error",
             Len(f.local) = 2, Len(g.local) = 2, f.local[1] = g.local[1], f # g
      PROVE  f.local[2] \cap g.local[2] = {}
  BY <1>2, <1>6, <1>7, AdviceIsFair
<1>8. AdviceFair'
  BY <1>4, <1>7 DEF AdviceFair
<1>9. CandidatesFair'
  BY <1>4, <1>5 DEF CandidatesFair
<1>10. QED
  BY <1>5, <1>8, <1>9 DEF OutputsInv

(* The command starts with nothing found. *)
LEMMA FindingsStart ==
  ASSUME SimilarInit
  PROVE  FindingsInv
<1>1. SimilarInv
  BY SimilarStarts
<1>2. phase = "collect" /\ outputs = <<>>
  BY DEF SimilarInit
<1>3. OutputsInv
  <2>1. outputs \in Seq({})
    BY <1>2
  <2>2. QED
    BY <2>1 DEF OutputsInv
<1>4. QED
  BY <1>1, <1>2, <1>3 DEF FindingsInv, ReportFair

(* Every step of the command keeps its findings fair. *)
LEMMA FindingsSteps ==
  ASSUME FindingsInv, [SimilarNext]_similar_vars
  PROVE  FindingsInv'
<1>1. SimilarInv /\ SimilarInv' /\ OutputsInv
  BY SimilarSteps DEF FindingsInv
<1>2. CASE Collect \/ Fail
  <2>1. phase' \in {"analyze", "failed"} /\ outputs' = outputs
    BY <1>2 DEF Collect, Fail
  <2>2. QED
    BY <1>1, <2>1 DEF FindingsInv, OutputsInv, ReportFair
<1>3. CASE Score
  <2>1. phase' = "link" /\ outputs' = outputs
    BY <1>3 DEF Score
  <2>2. KeptInv'
    BY <1>1, <1>3, ScoreFilters DEF SimilarInv
  <2>3. QED
    BY <1>1, <2>1, <2>2 DEF FindingsInv, OutputsInv, ReportFair
<1>4. CASE Link
  <2>1. phase = "link" /\ phase' = "link" /\ UNCHANGED <<request, docs, kept, outputs>>
    BY <1>4 DEF Link, doc_vars
  <2>2. KeptInv'
    BY <2>1 DEF FindingsInv, KeptInv
  <2>3. QED
    BY <1>1, <2>1, <2>2 DEF FindingsInv, OutputsInv, ReportFair
<1>5. CASE Refine
  <2>1. phase = "link" /\ phase' = "explain" /\ UNCHANGED <<request, docs, kept, outputs>>
    BY <1>5 DEF Refine
  <2>2. clusters' \in SUBSET SUBSET DOMAIN kept'
    BY <1>1, <1>5, <2>1, RefineKeeps DEF SimilarInv
  <2>3. KeptInv'
    BY <2>1 DEF FindingsInv, KeptInv
  <2>4. QED
    BY <1>1, <2>1, <2>2, <2>3 DEF FindingsInv, OutputsInv, ReportFair
<1>6. CASE Explain
  <2>1. phase = "explain" /\ phase' = "analyze"
    BY <1>6 DEF Explain
  <2>2. OutputsInv'
    BY <1>6, <2>1, ExplainKeeps DEF FindingsInv
  <2>3. QED
    BY <1>1, <2>1, <2>2 DEF FindingsInv, ReportFair
<1>7. CASE MergeOutputs
  <2>1. phase' \in {"done", "libraries"}
    BY <1>7 DEF MergeOutputs
  <2>2. /\ CandidatesFair' /\ OutputsInv'
        /\ {"candidates", "library"} \subseteq DOMAIN report'
        /\ report'.library = {}
    BY <1>1, <1>7, MergeKeeps
  <2>3. AdviceFair'
    BY <2>2 DEF AdviceFair
  <2>4. QED
    BY <1>1, <2>1, <2>2, <2>3 DEF FindingsInv, ReportFair
<1>8. CASE AdviseLibraries
  <2>1. phase = "libraries" /\ phase' = "done"
    BY <1>8 DEF AdviseLibraries
  <2>2. CandidatesFair' /\ AdviceFair' /\ OutputsInv'
    BY <1>8, <2>1, AdviseKeeps DEF FindingsInv, SimilarInv
  <2>3. QED
    BY <1>1, <2>1, <2>2 DEF FindingsInv, ReportFair
<1>9. CASE UNCHANGED similar_vars
  <2>1. UNCHANGED <<request, docs, kept, clusters, outputs, report, phase>>
    BY <1>9 DEF similar_vars, doc_vars
  <2>2. QED
    BY <1>1, <2>1 DEF FindingsInv, KeptInv, OutputsInv, ReportFair, CandidatesFair, AdviceFair
<1>10. QED
  BY <1>2, <1>3, <1>4, <1>5, <1>6, <1>7, <1>8, <1>9 DEF SimilarNext

(* Whatever is asked for and however many documents there are: the merged  *)
(* document loses no finding, lists them in falling confidence, holds a    *)
(* Rust finding under the cap unless its types were resolved, suggests no  *)
(* family the language lacks, and offers an error type's Display to one    *)
(* derive only (libraries.rs:879-881).                                     *)
THEOREM ReportsAreFair == SimilarSpec => []ReportFair
<1>1. SimilarInit => FindingsInv
  BY FindingsStart
<1>2. FindingsInv /\ [SimilarNext]_similar_vars => FindingsInv'
  BY FindingsSteps
<1>3. FindingsInv => ReportFair
  BY DEF FindingsInv
<1>4. QED
  BY <1>1, <1>2, <1>3, PTL DEF SimilarSpec
=============================================================================
