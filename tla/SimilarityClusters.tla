------------------------- MODULE SimilarityClusters -------------------------
(***************************************************************************)
(* From linked signatures to reported clusters (similarity/mod.rs): groups *)
(* of a union-find forest, the cohesion gate, and the split of a loose     *)
(* group at the higher bar.  Members are positions; an edge carries the    *)
(* similarity of its two ends, weights maps a pair to it.                  *)
(*                                                                         *)
(* Then what is said of a cluster (similarity/explain.rs): the mean of its *)
(* scores, what its members share and where they differ, the abstraction   *)
(* they suggest, how sure the analysis is and what speaks against it.  The *)
(* wording is left out: a feature, an axis or a doubt is a name.           *)
(***************************************************************************)
EXTENDS SimilarityScore, Functions

(* What find returns in a forest. *)
root_of(parent) ==
  LET up[m \in DOMAIN parent] == IF parent[m] = m THEN m ELSE up[parent[m]]
  IN  up

groups_of(parent) ==
  {{m \in DOMAIN parent : root_of(parent)[m] = r} :
     r \in {m \in DOMAIN parent : parent[m] = m}}

Inside(edges, members) == {e \in edges : e[1] \in members /\ e[2] \in members}

(* The mean over the edges there are. *)
cluster_cohesion_OfEdges(members, edges, weights) ==
  IF edges = {} THEN 0
  ELSE SumFunctionOnSet(weights, edges) \div Cardinality(edges)

(* Edge weights over all pairs there could be, so an unscored pair or one  *)
(* below the threshold counts as zero.                                     *)
cluster_cohesion(members, edges, weights) ==
  LET n == Cardinality(members)
  IN  (2 * SumFunctionOnSet(weights, edges)) \div (n * (n - 1))

(* The groups that the edges at the bar still connect: the local forest of *)
(* split_by_threshold, by what it computes.                                *)
split_by_threshold(members, edges, weights, bar) ==
  LET strong == {e \in edges : weights[e] >= bar}
      uncut == {S \in SUBSET members : \A e \in strong : e[1] \in S <=> e[2] \in S}
  IN  {{n \in members : \A S \in uncut : m \in S => n \in S} : m \in members}

(* refine_cohesive: a dense group is reported; a loose one is split at the *)
(* bar and its parts of two or more refined in turn.  Counted as rejected  *)
(* is a loose group the bar does not separate, or separates into single    *)
(* members only.  No part is larger than the group less one, which bounds  *)
(* the depth.                                                              *)
refine_cohesive(component, edges, weights, bar) ==
  LET outcome[members \in SUBSET component] ==
        LET inside == Inside(edges, members)
            parts == split_by_threshold(members, inside, weights, bar)
            solid == {p \in parts : Cardinality(p) >= 2}
        IN  IF Cardinality(members) < 2 THEN [clusters |-> {}, rejected |-> 0]
            ELSE IF cluster_cohesion(members, inside, weights) >= bar
            THEN [clusters |-> {members}, rejected |-> 0]
            ELSE IF Cardinality(parts) <= 1 \/ solid = {}
            THEN [clusters |-> {}, rejected |-> 1]
            ELSE [clusters |-> UNION {outcome[p].clusters : p \in solid},
                  rejected |-> SumFunction([p \in solid |-> outcome[p].rejected])]
  IN  outcome[component]
-----------------------------------------------------------------------------
SYNTACTIC_CONFIDENCE_CAP == 850

(* Accum: each signal averaged over the pairs that were scored. *)
Signals == {"aggregate", "shingle_jaccard", "type_shape", "call_seq", "cfg", "histogram"}

mean_scores(scored) ==
  [signal \in Signals |->
     IF DOMAIN scored = {} THEN 0
     ELSE SumFunction([p \in DOMAIN scored |-> scored[p][signal]])
            \div Cardinality(DOMAIN scored)]

Alike(members, f(_)) == \A a, b \in members : f(a) = f(b)

ClusterFeatures(members) ==
  [cfg_identical |-> Alike(members, LAMBDA m : m.cfg),
   types_identical |-> Alike(members, LAMBDA m : m.type_shape),
   calls_identical |-> Alike(members, LAMBDA m : m.call_sequence),
   arity_identical |-> Alike(members, LAMBDA m : m.arity),
   calls_same_shape |-> Alike(members, LAMBDA m : Len(m.call_sequence)),
   any_macro |-> \E m \in members : m.has_macro,
   file_count |-> Cardinality({m.file : m \in members}),
   min_token_len |-> Min({m.token_len : m \in members}),
   max_token_len |-> Max({m.token_len : m \in members}),
   count |-> Cardinality(members)]

shared_features(f, members) ==
  LET found == {x \in {"control flow", "types", "calls", "arity"} :
                  CASE x = "control flow" -> f.cfg_identical
                    [] x = "types" -> f.types_identical
                    [] x = "calls" -> f.calls_identical
                                        /\ \A m \in members : m.call_sequence # <<>>
                    [] x = "arity" -> f.arity_identical}
  IN  IF found = {} THEN {"fingerprint"} ELSE found

differences(f) ==
  LET found == {x \in {"types", "callees", "calls", "arity", "size"} :
                  CASE x = "types" -> ~f.types_identical
                    [] x = "callees" -> ~f.calls_identical /\ f.calls_same_shape
                    [] x = "calls" -> ~f.calls_identical /\ ~f.calls_same_shape
                    [] x = "arity" -> ~f.arity_identical
                    [] x = "size" -> f.min_token_len # f.max_token_len}
  IN  IF found = {} THEN {"none"} ELSE found

-----------------------------------------------------------------------------
abstraction_case(f) ==
  CASE f.calls_identical /\ f.types_identical /\ f.cfg_identical -> "NearDuplicate"
    [] f.calls_identical /\ f.cfg_identical /\ ~f.types_identical -> "TypesVary"
    [] f.cfg_identical /\ f.arity_identical /\ f.calls_same_shape
         /\ ~f.calls_identical -> "CalleesVary"
    [] OTHER -> IF f.count >= 3 /\ f.cfg_identical THEN "Boilerplate" ELSE "Diffuse"

(* Without a profile there is nothing to contradict. *)
family_in_profile(language, family) ==
  \A p \in profile_for_language(language) : family \in p.families

(* The family for a case in a language, never one its profile leaves out. *)
family_for(language, shape) ==
  LET shipped == language \in {"rust", "typescript"}
      routed == CASE shape = "TypesVary" /\ shipped -> "generic_function"
                  [] shape = "CalleesVary" /\ language = "rust" -> "enum_dispatch"
                  [] shape = "CalleesVary" /\ language = "typescript" ->
                       "higher_order_function"
                  [] shape = "Boilerplate" /\ language = "rust" -> "macro_rules"
                  [] shape = "Boilerplate" /\ language = "typescript" ->
                       "object_driven_definition"
                  [] OTHER -> "helper_function"
  IN  IF family_in_profile(language, routed) THEN routed ELSE "helper_function"

-----------------------------------------------------------------------------
ShellsOnly(mean) == mean["call_seq"] < 340 /\ mean["shingle_jaccard"] > 600

counter_evidence(f, mean) ==
  {x \in {"small", "files", "types", "macros", "shells only", "structural only"} :
     CASE x = "small" -> f.min_token_len < 16
       [] x = "files" -> f.file_count > 1
       [] x = "types" -> ~f.types_identical
       [] x = "macros" -> f.any_macro
       [] x = "shells only" -> ShellsOnly(mean)
       [] x = "structural only" -> TRUE}

(* Confidence in hundredths: the mean similarity under the cap of what the *)
(* profiles resolve, less a share for each doubt.  Computed in millionths. *)
confidence(f, mean, profiles) ==
  LET types_resolved == \A p \in profiles : types_are_resolved(p)
      capped == 1000 * (IF types_resolved THEN mean["aggregate"]
                        ELSE Smaller(mean["aggregate"], SYNTACTIC_CONFIDENCE_CAP))
      Dock(c, doubt, percent) == IF doubt THEN (c * percent) \div 100 ELSE c
      small == Dock(capped, f.min_token_len < Smaller(f.max_token_len, 24), 90)
      macros == Dock(small, f.any_macro, 90)
      files == Dock(macros, f.file_count > 1, 95)
      shells == Dock(files, ShellsOnly(mean), 90)
  IN  (shells + 5000) \div 10000

(* What each profile cites: its first limitation, and those that touch     *)
(* what the members differ in.                                             *)
finding_profile(f, profiles) ==
  UNION {{<<p.extractor, i>> : i \in
            {j \in DOMAIN p.limitations :
               \/ j = 1
               \/ "type" \in p.limitations[j] /\ ~f.types_identical
               \/ "Macro" \in p.limitations[j] /\ f.any_macro
               \/ "Call" \in p.limitations[j] /\ ~f.calls_identical}} :
         p \in profiles}

(* members: the signatures in the order of the document; scored: the score *)
(* of each of their pairs that was compared.                               *)
explain_cluster(members, scored, profiles) ==
  LET sigs == {members[k] : k \in DOMAIN members}
      f == ClusterFeatures(sigs)
      mean == mean_scores(scored)
  IN  [members |-> [k \in DOMAIN members |-> members[k].id],
       language |-> members[1].language,
       similarity |-> mean["aggregate"],
       shared |-> shared_features(f, sigs),
       differences |-> differences(f),
       family |-> family_for(members[1].language, abstraction_case(f)),
       confidence |-> confidence(f, mean, profiles),
       counter_evidence |-> counter_evidence(f, mean),
       limitations |-> finding_profile(f, profiles)]
=============================================================================
