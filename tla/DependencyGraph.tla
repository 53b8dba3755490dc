-------------------------- MODULE DependencyGraph --------------------------
(***************************************************************************)
(* Adjacency maps "n depends on adj[n]" (crates/hinzu-core/src/graph) and  *)
(* what a cycle and an order mean for them, without any search.            *)
(***************************************************************************)

(* The nodes m needs, itself among them: those in every set that holds m   *)
(* and what its members depend on.                                         *)
Needs(adj, m) ==
  {n \in DOMAIN adj : \A S \in SUBSET DOMAIN adj :
     (m \in S /\ \A x \in S : adj[x] \subseteq S) => n \in S}

(* The strongly connected component of n. *)
CycleOf(adj, n) == {m \in Needs(adj, n) : n \in Needs(adj, m)}

(* Whatever is left to port, something of it can be ported next. *)
Acyclic(adj) ==
  \A S \in SUBSET DOMAIN adj :
    S # {} => \E n \in S : adj[n] \cap S = {}
=============================================================================
