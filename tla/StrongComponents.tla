-------------------------- MODULE StrongComponents --------------------------
(***************************************************************************)
(* strongly_connected_components and condense                              *)
(* (crates/hinzu-core/src/graph/mod.rs): Tarjan's search with an explicit  *)
(* work stack.  An iteration of its loop is an Open, when the frame on top *)
(* is new, followed by a Descend, a Skip or a Close.                       *)
(*                                                                         *)
(* A frame's position in its list of children is kept as the set of those  *)
(* before it: the list is in the order of the BTreeSet.                    *)
(***************************************************************************)
EXTENDS DependencyGraph, Naturals, Sequences, SequencesExt

CONSTANTS Node   \* the keys of the adjacency map, numbered in their order

VARIABLES
  adj,           \* the argument: node -> the nodes it depends on
  counter,       \* the next discovery number
  index,         \* discovery number of the nodes discovered so far
  lowlink,       \* their low links
  on_stack,      \* the nodes with on_stack[n] = true
  tarjan_stack,
  work,          \* frames <<node, the children before the position>>
  components     \* what has been found, in order

vars == <<adj, counter, index, lowlink, on_stack, tarjan_stack, work, components>>

Discovered == DOMAIN index

TypeOK ==
  /\ adj \in [Node -> SUBSET Node]
  /\ Discovered \subseteq Node
  /\ counter \in Nat
  /\ index \in [Discovered -> 0 .. counter - 1]
  /\ lowlink \in [Discovered -> 0 .. counter - 1]
  /\ on_stack \subseteq Discovered
  /\ tarjan_stack \in Seq(Node)
  /\ work \in Seq(Node \X SUBSET Node)
  /\ components \in Seq(SUBSET Node)

Init ==
  /\ adj \in [Node -> SUBSET Node]
  /\ counter = 0
  /\ index = [n \in {} |-> 0]
  /\ lowlink = [n \in {} |-> 0]
  /\ on_stack = {}
  /\ tarjan_stack = <<>>
  /\ work = <<>>
  /\ components = <<>>

-----------------------------------------------------------------------------
LesserOf(i, j) == IF i < j THEN i ELSE j

With(f, n, value) ==
  [m \in DOMAIN f \cup {n} |-> IF m = n THEN value ELSE f[m]]

top == Last(work)

(* The children of v at the position and after it. *)
succ(v, seen) == adj[v] \ seen

Advanced(w) == Append(Front(work), <<top[1], top[2] \cup {w}>>)

(* for start in 0..n: the next start that has no index yet. *)
StartAt(start) ==
  /\ work = <<>>
  /\ start \notin Discovered
  /\ \A n \in Node : n < start => n \in Discovered
  /\ work' = <<<<start, {}>>>>
  /\ UNCHANGED <<adj, counter, index, lowlink, on_stack, tarjan_stack, components>>

(* pos == 0, for the first time: a frame is looked at again only with a    *)
(* later position or, without any child, to be closed.                     *)
Open ==
  /\ work # <<>>
  /\ top[1] \notin Discovered
  /\ LET v == top[1]
     IN  /\ index' = With(index, v, counter)
         /\ lowlink' = With(lowlink, v, counter)
         /\ tarjan_stack' = Append(tarjan_stack, v)
         /\ on_stack' = on_stack \cup {v}
  /\ counter' = counter + 1
  /\ UNCHANGED <<adj, work, components>>

(* The frame on top has been opened and has a child left to look at. *)
Looks(w) ==
  /\ work # <<>>
  /\ top[1] \in Discovered
  /\ w \in succ(top[1], top[2])
  /\ \A u \in succ(top[1], top[2]) : w <= u

Descend(w) ==
  /\ Looks(w)
  /\ w \notin Discovered
  /\ work' = Append(Advanced(w), <<w, {}>>)
  /\ UNCHANGED <<adj, counter, index, lowlink, on_stack, tarjan_stack, components>>

Skip(w) ==
  /\ Looks(w)
  /\ w \in Discovered
  /\ lowlink' = IF w \in on_stack
                THEN [lowlink EXCEPT ![top[1]] = LesserOf(@, index[w])]
                ELSE lowlink
  /\ work' = Advanced(w)
  /\ UNCHANGED <<adj, counter, index, on_stack, tarjan_stack, components>>

(* The part of the stack that is popped with v. *)
PoppedWith(v) ==
  LET at == CHOOSE i \in DOMAIN tarjan_stack : tarjan_stack[i] = v
  IN  SubSeq(tarjan_stack, at, Len(tarjan_stack))

(* The root of a component takes it off the stack. *)
Emit(v) ==
  LET popped == PoppedWith(v)
  IN  /\ components' = Append(components, ToSet(popped))
      /\ on_stack' = on_stack \ ToSet(popped)
      /\ tarjan_stack' =
           SubSeq(tarjan_stack, 1, Len(tarjan_stack) - Len(popped))

(* Mutant: the parent does not inherit the low link of a finished child. *)
LinkParent_Forgotten(v, below) == lowlink' = lowlink

LinkParent(v, below) ==
  lowlink' = IF below = <<>> THEN lowlink
             ELSE LET parent == Last(below)[1]
                  IN  [lowlink EXCEPT ![parent] = LesserOf(@, lowlink[v])]

(* The frame on top is exhausted: a root of a component emits it. *)
Close ==
  /\ work # <<>>
  /\ LET v == top[1]
     IN  /\ v \in Discovered
         /\ succ(v, top[2]) = {}
         /\ IF lowlink[v] = index[v] THEN Emit(v)
            ELSE UNCHANGED <<components, on_stack, tarjan_stack>>
         /\ LinkParent(v, Front(work))
  /\ work' = Front(work)
  /\ UNCHANGED <<adj, counter, index>>

Next ==
  \/ \E n \in Node : StartAt(n) \/ Descend(n) \/ Skip(n)
  \/ Open
  \/ Close

Finished == work = <<>> /\ Discovered = Node

Spec == Init /\ [][Next]_vars /\ WF_vars(Next)

-----------------------------------------------------------------------------
Emitted(i) == UNION {components[j] : j \in 1 .. i}

(* "The returned components are in dependencies-first order": at any time, *)
(* whatever a component depends on is in it or in an earlier one.          *)
DependenciesFirst ==
  \A i \in DOMAIN components : \A v \in components[i] :
    adj[v] \subseteq Emitted(i)

(* "strongly-connected components": a component is all of a cycle.         *)
WholeCycles ==
  \A i \in DOMAIN components : \A v \in components[i] :
    components[i] = CycleOf(adj, v)
=============================================================================
