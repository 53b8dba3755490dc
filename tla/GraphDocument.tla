---------------------------- MODULE GraphDocument ----------------------------
(***************************************************************************)
(* The dependency graph document (crates/hinzu-core/src/graph): built from *)
(* facts, restricted to a closure, cut down to one package, concatenated.  *)
(*                                                                         *)
(* A path or an id is the sequence of its segments: <<"ai", "src", "a.ts">>*)
(* is the file ai/src/a.ts, <<"ai", "src", "a", "run">> the id             *)
(* ai/src/a#run, <<"node:fs", "read">> the external id node:fs::read.      *)
(* Labels (root, language, notes) are left out; the number of a cycle is   *)
(* replaced by its members, an order of emission by the set emitted (see   *)
(* StrongComponents for the order).                                        *)
(*                                                                         *)
(* Facts are a record [defs, edges, roots]: definitions map an id to its   *)
(* metadata [display, file, loc], edges are a sequence.                    *)
(***************************************************************************)
EXTENDS Naturals, SequencesExt

CONSTANTS None   \* no metadata (an external node), no cycle

(* The function f, which TLC then evaluates once and not at every use. *)
Table(f) == CHOOSE g \in {f} : g = f

(* The nodes of S and all they depend on. *)
Reach(adj, S) ==
  LET within[n \in Nat] ==
        IF n = 0 THEN S
        ELSE LET near == within[n - 1]
             IN  near \cup UNION {adj[x] : x \in near \cap DOMAIN adj}
  IN  within[Cardinality(DOMAIN adj)]

transitive_count(n, adj) == Cardinality(Reach(adj, {n}) \ {n})

(* condense: the cycle a node is on, when it is on one with another node.  *)
scc_of(adj, n) ==
  LET cycle == {m \in Reach(adj, {n}) : n \in Reach(adj, {m})}
  IN  IF cycle = {n} THEN None ELSE cycle

package_of(id) == Head(id)

-----------------------------------------------------------------------------
Internal(nodes) == {n \in DOMAIN nodes : nodes[n] # None}

full_deps(nodes, edges) ==
  Table([n \in DOMAIN nodes |->
           {e.to : e \in {x \in ToSet(edges) : x.from = n /\ x.to # n}}])

int_deps(nodes, edges) ==
  LET full == full_deps(nodes, edges)
  IN  Table([n \in Internal(nodes) |-> full[n] \cap Internal(nodes)])

symbol_nodes(nodes, edges, effect_roots) ==
  LET full == full_deps(nodes, edges)
      int  == int_deps(nodes, edges)
  IN  Table([n \in DOMAIN nodes |->
         [meta |-> nodes[n],
          external |-> nodes[n] = None,
          fan_in |-> Cardinality({m \in DOMAIN nodes : n \in full[m]}),
          fan_out |-> Cardinality(full[n]),
          transitive_dep_count |-> transitive_count(n, full),
          is_leaf |-> n \in DOMAIN int => int[n] = {},
          effect_roots |-> IF nodes[n] = None THEN {} ELSE effect_roots[n],
          external_packages |-> {package_of(m) : m \in full[n] \ Internal(nodes)},
          scc |-> IF n \in DOMAIN int THEN scc_of(int, n) ELSE None]])

(* The file pairs that the edge e projects onto. *)
Projects(nodes, e, p, q) ==
  /\ {e.from, e.to} \subseteq Internal(nodes)
  /\ nodes[e.from].file = p
  /\ nodes[e.to].file = q
  /\ p # q

Files(nodes) == {nodes[n].file : n \in Internal(nodes)}

file_edges(nodes, edges) ==
  LET across(p, q) == SelectSeq(edges, LAMBDA e : Projects(nodes, e, p, q))
      pairs == {pq \in Files(nodes) \X Files(nodes) : across(pq[1], pq[2]) # <<>>}
  IN  Table([pq \in pairs |->
         [call_edge_count |-> Len(across(pq[1], pq[2])),
          has_unknown |-> \E e \in ToSet(across(pq[1], pq[2])) : e.resolution = "unresolved"]])

deps_of_files(nodes, edges) ==
  LET pairs == DOMAIN file_edges(nodes, edges)
  IN  Table([p \in Files(nodes) |-> {q \in Files(nodes) : <<p, q>> \in pairs}])

file_nodes(nodes, edges, symbols) ==
  LET deps == deps_of_files(nodes, edges)
      members(p) == {n \in Internal(nodes) : nodes[n].file = p}
  IN  Table([p \in Files(nodes) |->
         [symbol_count |-> Cardinality(members(p)),
          loc |-> MapThenSumSet(LAMBDA n : nodes[n].loc, members(p)),
          fan_in |-> Cardinality({q \in Files(nodes) : p \in deps[q]}),
          fan_out |-> Cardinality(deps[p]),
          transitive_dep_count |-> transitive_count(p, deps),
          is_leaf |-> deps[p] = {},
          effect_roots |-> UNION {symbols[n].effect_roots : n \in members(p)},
          external_packages |-> UNION {symbols[n].external_packages : n \in members(p)},
          scc |-> scc_of(deps, p)]])

(* Derived purely from the nodes and edges; effect_roots of the internal.  *)
assembled(nodes, edges, effect_roots) ==
  LET symbols == symbol_nodes(nodes, edges, effect_roots)
      int == int_deps(nodes, edges)
      deps == deps_of_files(nodes, edges)
  IN  [symbols |-> symbols,
       edges |-> edges,
       files |-> file_nodes(nodes, edges, symbols),
       file_edges |-> file_edges(nodes, edges),
       unknown_edge_count |-> Len(SelectSeq(edges, LAMBDA e : e.provenance = "unknown")),
       symbol_leaves |-> {n \in Internal(nodes) : int[n] = {}},
       file_leaves |-> {p \in Files(nodes) : deps[p] = {}}]

assemble_graph(nodes, edges, effect_roots) ==
  assembled(Table(nodes), Table(edges), Table(effect_roots))

-----------------------------------------------------------------------------
(* effects::propagate, by its meaning: what a symbol reaches over edges    *)
(* other than Type edges (see NaiveEngine).                                *)
propagated(facts, id) ==
  LET ids == DOMAIN facts.defs \cup {r.symbol : r \in facts.roots}
               \cup UNION {{e.caller, e.callee} : e \in ToSet(facts.edges)}
      used == Table([n \in ids |-> {e.callee : e \in {x \in ToSet(facts.edges) :
                                                  x.caller = n /\ x.kind # "type"}}])
  IN  {r.effect : r \in {x \in facts.roots : x.symbol \in Reach(used, {id})}}

provenance(facts, e) ==
  IF e.callee \in DOMAIN facts.defs THEN "resolved"
  ELSE IF \/ e.resolution = "unresolved"
          \/ [symbol |-> e.callee, effect |-> "Unknown"] \in facts.roots
  THEN "unknown" ELSE "external"

build_graph(facts) ==
  LET ends  == UNION {{e.caller, e.callee} : e \in ToSet(facts.edges)}
      nodes == [n \in DOMAIN facts.defs \cup ends |->
                  IF n \in DOMAIN facts.defs THEN facts.defs[n] ELSE None]
      edges == [i \in DOMAIN facts.edges |->
                  LET e == facts.edges[i]
                  IN  [from |-> e.caller, to |-> e.callee, kind |-> e.kind,
                       resolution |-> e.resolution, provenance |-> provenance(facts, e),
                       evidence |-> e.evidence]]
  IN  assemble_graph(nodes, edges, [n \in DOMAIN facts.defs |-> propagated(facts, n)])

-----------------------------------------------------------------------------
dependency_closure(graph, roots) ==
  Reach([n \in DOMAIN graph.symbols |->
           {e.to : e \in {x \in ToSet(graph.edges) : x.from = n}}], roots)

filter_to_closure(graph, roots) ==
  LET kept  == dependency_closure(graph, roots) \cap DOMAIN graph.symbols
      nodes == [n \in kept |-> graph.symbols[n].meta]
  IN  assemble_graph(nodes,
                     SelectSeq(graph.edges, LAMBDA e : e.from \in kept /\ e.to \in kept),
                     [n \in Internal(nodes) |-> graph.symbols[n].effect_roots])

(* The first graph that defines the id, else the first that has it.        *)
Author(graphs, id) ==
  LET Has(i) == id \in DOMAIN graphs[i].symbols
      defining == {i \in DOMAIN graphs : Has(i) /\ graphs[i].symbols[id].meta # None}
  IN  IF defining # {} THEN Min(defining) ELSE Min({i \in DOMAIN graphs : Has(i)})

-----------------------------------------------------------------------------
(* format!("{}/", rel).  The package that lies at the union root itself    *)
(* has the prefix "/", which no relative path starts with.                 *)
HasPrefix(path, rel) == rel # <<>> /\ IsStrictPrefix(rel, path)

strip(path, rel) ==
  IF HasPrefix(path, rel) THEN SubSeq(path, Len(rel) + 1, Len(path)) ELSE path

(* Mutant: the ends of the edges keep their old ids. *)
reroot_subgraph_OldEnds(graph, rel) ==
  LET kept == {n \in DOMAIN graph.symbols :
                 /\ ~ graph.symbols[n].external
                 /\ HasPrefix(graph.symbols[n].meta.file, rel)}
      old(m) == CHOOSE n \in kept : strip(n, rel) = m
      nodes == [m \in {strip(n, rel) : n \in kept} |->
                  [graph.symbols[old(m)].meta EXCEPT !.file = strip(@, rel)]]
  IN  assemble_graph(nodes,
                     SelectSeq(graph.edges, LAMBDA e : e.from \in kept /\ e.to \in kept),
                     [m \in DOMAIN nodes |-> graph.symbols[old(m)].effect_roots])

reroot_subgraph(graph, rel) ==
  LET kept == {n \in DOMAIN graph.symbols :
                 /\ ~ graph.symbols[n].external
                 /\ HasPrefix(graph.symbols[n].meta.file, rel)}
      old(m) == CHOOSE n \in kept : strip(n, rel) = m
      nodes == [m \in {strip(n, rel) : n \in kept} |->
                  [graph.symbols[old(m)].meta EXCEPT !.file = strip(@, rel)]]
      inside == SelectSeq(graph.edges, LAMBDA e : e.from \in kept /\ e.to \in kept)
  IN  assemble_graph(nodes,
                     [i \in DOMAIN inside |->
                        [inside[i] EXCEPT !.from = strip(@, rel), !.to = strip(@, rel)]],
                     [m \in DOMAIN nodes |-> graph.symbols[old(m)].effect_roots])

(* merge_target_graphs: a plain concatenation, of which only symbols and   *)
(* edges are read, and external symbols are passed over: an id that is     *)
(* defined somewhere counts as where it is defined first.                  *)
merge_target_graphs(graphs) ==
  LET ids == UNION {DOMAIN graphs[i].symbols : i \in DOMAIN graphs}
      place == Table([n \in ids |-> Author(graphs, n)])
  IN  [symbols |-> Table([n \in ids |-> graphs[place[n]].symbols[n]]),
       place |-> place,
       edges |-> FlattenSeq([i \in DOMAIN graphs |-> graphs[i].edges])]

-----------------------------------------------------------------------------
(* A pattern starts and ends where a segment does. *)
HasFragment(seq, pattern) ==
  \E i \in 0 .. Len(seq) - Len(pattern) : SubSeq(seq, i + 1, i + Len(pattern)) = pattern

(* The tiers of resolve_one, from exact to broad. *)
Tiers(graph, pattern) ==
  LET ids == DOMAIN graph.symbols
      symbol(n) == graph.symbols[n]
  IN  << {n \in ids : n = pattern},
         {n \in ids : \/ IsSuffix(pattern, n)
                      \/ ~ symbol(n).external /\ <<symbol(n).meta.display>> = pattern},
         {n \in ids : HasFragment(n, pattern)},
         {n \in ids : ~ symbol(n).external /\ HasFragment(symbol(n).meta.file, pattern)} >>

resolve_one(graph, pattern) ==
  LET answered == {i \in 1 .. 4 : Tiers(graph, pattern)[i] # {}}
  IN  IF answered = {} THEN {} ELSE Tiers(graph, pattern)[Min(answered)]

(* None: some pattern matches nothing, an error. *)
resolve_roots(graph, patterns) ==
  IF \E p \in patterns : resolve_one(graph, p) = {} THEN None
  ELSE UNION {resolve_one(graph, p) : p \in patterns}
=============================================================================
