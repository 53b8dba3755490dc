------------------------------ MODULE PortMatch -----------------------------
(***************************************************************************)
(* Which target symbol a source symbol became                              *)
(* (crates/hinzu-core/src/portdiff/mod.rs): the names of both sides are    *)
(* brought to one spelling, source files are mapped onto target modules,   *)
(* and every source symbol is looked up tier by tier.                      *)
(*                                                                         *)
(* Graphs are documents of GraphDocument: an id is the sequence of its     *)
(* segments, the last one being the leaf; a path is the sequence of its    *)
(* segments without the extension.  How a name is   *)
(* written is given by constants.  Votes are counted in twelfths, which is *)
(* exact up to four modules.                                               *)
(***************************************************************************)
EXTENDS GraphDocument

CONSTANTS Precedes(_, _), \* the order of ids as text
          TextLength(_),  \* the bytes of an id as text
          CaseOf,         \* of a leaf: "screaming", "pascal" or "other"
          Snake,          \* a leaf, or a path segment, in snake case
          MethodOf,       \* the method of a leaf Type.method, else the leaf
          Synthetic,      \* leaves of closures, constants, callbacks, ...
          TraitImpls      \* the first segments <Type as Trait> of target ids

(* The fields of a configuration `rules` of one package:                   *)
(*   source_src_prefix  a path, target_src_prefix  a sequence of paths,    *)
(*   keep_pascal_types, keep_screaming_consts, ported_threshold <<n, d>>,  *)
(*   cluster_vote_retain <<n, d>>, native_files, package.                  *)

Inside(prefix, path) == IsStrictPrefix(prefix, path)
Below(prefix, path) == SubSeq(path, Len(prefix) + 1, Len(path))

norm_leaf(leaf, rules) ==
  IF \/ rules.keep_screaming_consts /\ CaseOf[leaf] = "screaming"
     \/ rules.keep_pascal_types /\ CaseOf[leaf] = "pascal"
  THEN leaf ELSE Snake[leaf]

source_file_to_module(file, rules) ==
  LET rest == IF Inside(rules.source_src_prefix, file)
              THEN Below(rules.source_src_prefix, file) ELSE file
  IN  [i \in DOMAIN rest |-> Snake[rest[i]]]

(* crates/<crate>/src of a file of that shape, else the empty path. *)
GenericCrateSrc(file) ==
  IF Len(file) > 3 /\ file[1] = "crates" /\ file[3] = "src"
  THEN SubSeq(file, 1, 3) ELSE <<>>

target_file_to_module(file, rules) ==
  LET given  == SelectSeq(rules.target_src_prefix, LAMBDA p : Inside(p, file))
      module == Below(IF given # <<>> THEN given[1] ELSE GenericCrateSrc(file), file)
  IN  IF Len(module) > 1 /\ Last(module) = "mod" THEN Front(module) ELSE module

target_file_in_primary_crate(file, rules) ==
  rules.target_src_prefix # <<>> => Inside(rules.target_src_prefix[1], file)

under_prefix(module, prefix) == IsPrefix(prefix, module)

-----------------------------------------------------------------------------
(* S as a sequence, in the order of a set of pairs. *)
Sorted(S, order) ==
  [i \in 1 .. Cardinality(S) |->
     CHOOSE n \in S : Cardinality({m \in S : <<m, n>> \in order}) = i - 1]

(* That Precedes is an order of these ids. *)
OrdersText(ids) ==
  /\ \A a, b \in ids : Precedes(a, b) => ~ Precedes(b, a)
  /\ \A a, b \in ids : a # b => Precedes(a, b) \/ Precedes(b, a)
  /\ \A a, b, c \in ids : Precedes(a, b) /\ Precedes(b, c) => Precedes(a, c)

InOrder(ids) == Sorted(ids, {mn \in ids \X ids : Precedes(mn[1], mn[2])})

(* The target symbols that can be matched: graph by graph, in the order of *)
(* their ids.                                                              *)
TargetIndex(target_graph, rules) ==
  LET symbol(n) == target_graph.symbols[n]
      ids == {n \in DOMAIN target_graph.symbols :
                /\ ~ symbol(n).external
                /\ Head(symbol(n).meta.file) = "crates"
                /\ Last(n) \notin Synthetic}
      entry(n) == [id |-> n,
                   module |-> target_file_to_module(symbol(n).meta.file, rules),
                   leaf |-> norm_leaf(Last(n), rules),
                   is_impl |-> Head(n) \in TraitImpls,
                   primary |-> target_file_in_primary_crate(symbol(n).meta.file, rules),
                   file |-> symbol(n).meta.file]
      place(n) == target_graph.place[n]
      order == Sorted(ids, {mn \in ids \X ids :
                              \/ place(mn[1]) < place(mn[2])
                              \/ place(mn[1]) = place(mn[2]) /\ Precedes(mn[1], mn[2])})
  IN  Table([i \in DOMAIN order |-> entry(order[i])])

source_files(source_graph, rules) ==
  {p \in DOMAIN source_graph.files : Inside(rules.source_src_prefix, p)}

InSource(n, source_graph, rules) ==
  /\ ~ source_graph.symbols[n].external
  /\ Inside(rules.source_src_prefix, source_graph.symbols[n].meta.file)

(* The source symbols that can be matched, and those left out of the count.*)
SourceSymbols(source_graph, rules) ==
  {n \in DOMAIN source_graph.symbols :
     InSource(n, source_graph, rules) /\ Last(n) \notin Synthetic}

SyntheticExcluded(source_graph, rules) ==
  {n \in DOMAIN source_graph.symbols :
     InSource(n, source_graph, rules) /\ Last(n) \in Synthetic}

match_name(n, rules) == norm_leaf(MethodOf[Last(n)], rules)

-----------------------------------------------------------------------------
Modules(index) == {t.module : t \in ToSet(index)}

ModulePrefixes(index) == UNION {{SubSeq(m, 1, i) : i \in 1 .. Len(m)} : m \in Modules(index)}

(* Where a prefix, hence the module it was first seen in, stands.          *)
FirstSeen(index, prefix) == Min({i \in DOMAIN index : under_prefix(index[i].module, prefix)})

(* A leaf that lands in k modules casts a vote of 1/k for each.            *)
Votes(index, leaves) ==
  LET lands(leaf) == {t.module : t \in {x \in ToSet(index) : x.leaf = leaf}}
      of(m) == {leaf \in leaves : m \in lands(leaf)}
  IN  Table([m \in Modules(index) |->
         SumFunction([leaf \in of(m) |-> 12 \div Cardinality(lands(leaf))])])

(* Deepest, then most votes, then narrowest, then seen first. *)
IsBetter(index, mass, p, q) ==
  LET breadth(x) == Cardinality({m \in Modules(index) : under_prefix(m, x)})
      rank(x) == <<0 - Len(x), 0 - mass[x], breadth(x), FirstSeen(index, x)>>
      differ == {i \in 1 .. 4 : rank(p)[i] # rank(q)[i]}
  IN  differ # {} => rank(p)[Min(differ)] < rank(q)[Min(differ)]

Unmapped == [subtree |-> None, method |-> None]

Clustered(index, leaves, rules) ==
  LET votes == Votes(index, leaves)
      mass  == Table([p \in ModulePrefixes(index) |->
                  SumFunctionOnSet(votes, {m \in Modules(index) : under_prefix(m, p)})])
      most  == Max({mass[p] : p \in ModulePrefixes(index)})
      kept  == {p \in ModulePrefixes(index) :
                  /\ mass[p] > 0
                  /\ rules.cluster_vote_retain[2] * mass[p] >= rules.cluster_vote_retain[1] * most}
      best  == CHOOSE p \in kept : \A q \in kept : IsBetter(index, mass, p, q)
  IN  IF kept # {} /\ 2 * mass[best] >= 12
      THEN [subtree |-> best, method |-> "graph-cluster"] ELSE Unmapped

map_source_file(file, index, leaves, rules) ==
  LET module == source_file_to_module(file, rules)
  IN  IF module \in Modules(index) THEN [subtree |-> module, method |-> "exact"]
      ELSE IF \E m \in Modules(index) : under_prefix(m, module)
      THEN [subtree |-> module, method |-> "exact-subtree"]
      ELSE IF leaves = {} \/ index = <<>> THEN Unmapped ELSE Clustered(index, leaves, rules)

-----------------------------------------------------------------------------
(* An inherent definition before a trait's, then the shortest id, then the *)
(* first in the order of text.                                             *)
pick_rep(index, cands) ==
  LET inherent == {i \in cands : ~ index[i].is_impl}
      pool == IF inherent = {} THEN cands ELSE inherent
      bytes(i) == TextLength(index[i].id)
  IN  CHOOSE i \in pool : \A j \in pool \ {i} :
        \/ bytes(i) < bytes(j)
        \/ bytes(i) = bytes(j) /\ Precedes(index[i].id, index[j].id)

(* The candidates of each tier, the strongest first. *)
Candidates(index, module, leaf, subtree) ==
  LET named == {i \in DOMAIN index : index[i].leaf = leaf}
  IN  << [tier |-> "exact_module", of |-> {i \in named : index[i].module = module}],
         [tier |-> "subtree",
          of |-> {i \in named : subtree # None /\ under_prefix(index[i].module, subtree)}],
         [tier |-> "global_name", of |-> {i \in named : Last(index[i].module) = Last(module)}],
         [tier |-> "global_name", of |-> named] >>

FirstOf(index, tiers) ==
  LET hits == {k \in DOMAIN tiers : tiers[k].of # {}}
      first == tiers[Min(hits)]
  IN  IF hits = {} THEN [tier |-> "unmatched", at |-> None]
      ELSE [tier |-> first.tier, at |-> pick_rep(index, first.of)]

(* Mutant: a bare name elsewhere is no match. *)
match_symbol_NoBareLeaf(index, module, leaf, subtree) ==
  FirstOf(index, SubSeq(Candidates(index, module, leaf, subtree), 1, 3))

match_symbol(index, module, leaf, subtree) ==
  FirstOf(index, Candidates(index, module, leaf, subtree))

FileMap(source_graph, index, rules) ==
  Table([p \in source_files(source_graph, rules) |->
     map_source_file(p, index,
                     {match_name(n, rules) : n \in {x \in SourceSymbols(source_graph, rules) :
                                                     source_graph.symbols[x].meta.file = p}},
                     rules)])

Matches(source_graph, index, file_map, rules) ==
  Table([n \in SourceSymbols(source_graph, rules) |->
     LET file == source_graph.symbols[n].meta.file
     IN  match_symbol(index, source_file_to_module(file, rules), match_name(n, rules),
                      file_map[file].subtree)])

-----------------------------------------------------------------------------
(* Of a matched symbol: how many of its calls of matched symbols the       *)
(* target symbol makes too.                                                *)
GraphConfirm(source_graph, target_graph, index, matches, rules) ==
  LET calls(n) == SelectSeq(source_graph.edges, LAMBDA e :
                    e.from = n /\ e.to \in DOMAIN matches /\ matches[e.to].tier # "unmatched")
      made(n) == {t.leaf : t \in {x \in ToSet(index) : \E e \in ToSet(target_graph.edges) :
                                    e.from = index[matches[n].at].id /\ e.to = x.id}}
      hit(n) == Len(SelectSeq(calls(n), LAMBDA e : match_name(e.to, rules) \in made(n)))
  IN  Table([n \in {x \in DOMAIN matches : matches[x].tier # "unmatched"} |->
         [evaluable |-> calls(n) # <<>>,
          confirmed |-> calls(n) # <<>> /\ 2 * hit(n) >= Len(calls(n))]])
=============================================================================
