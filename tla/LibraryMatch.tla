---------------------------- MODULE LibraryMatch ----------------------------
(***************************************************************************)
(* The advice to adopt a library (similarity/libraries.rs with the CLI's   *)
(* library_config.rs and library_rustdoc.rs).  Tier A compares local       *)
(* signatures with those of a library's rustdoc, tier B recognises         *)
(* hand-written impls that a derive replaces and loops that a combinator   *)
(* replaces.  Trust, fidelity and confidence are hundredths.  A trait impl *)
(* is [name, match_self, wrapping], a type [id, is_enum, traits].          *)
(***************************************************************************)
EXTENDS SimilarityScore

min_virtual_match == 600

fidelity(source) == IF source = "rustdoc" THEN 90 ELSE 70

(* Trust times structure times fidelity, at most 0.95, to two decimals. *)
library_confidence(trust, structural, source) ==
  (Smaller(trust * structural * fidelity(source), 9500000) + 50000) \div 100000

make_finding(local, library, item, source, trust, structural) ==
  [local |-> local, library |-> library, item |-> item, source |-> source,
   confidence |-> library_confidence(trust, structural, source)]

-----------------------------------------------------------------------------
(* Tier A, matched by signature: the one mode the program constructs.      *)
arity_similarity(a, b) ==
  Whole - Share(Smaller(6, Distance(a.params, b.params)
                             + Distance(a.generics, b.generics)), 6)

(* A generic combinator is reinvented by a generic function only, and the  *)
(* results have to agree exactly.                                          *)
match_virtual(local, vsig) ==
  LET structural ==
        (7 * type_shape_similarity(local.type_shape, vsig.type_shape)
           + 3 * arity_similarity(local.arity, vsig.arity)) \div 10
  IN  IF \/ vsig.arity.generics >= 2 /\ local.arity.generics = 0
         \/ local.type_shape.result # vsig.type_shape.result
         \/ structural < min_virtual_match
      THEN {}
      ELSE {make_finding(<<local.id>>, vsig.library, vsig.item, "rustdoc",
                         vsig.trust, structural)}

-----------------------------------------------------------------------------
(* Tier B: the impls each derive predicate finds replaceable, {} for none. *)
HasImpl(facts, trait) == \E i \in DOMAIN facts.traits : facts.traits[i].name = trait

find_display_match(facts) ==
  \E i \in DOMAIN facts.traits :
    facts.traits[i].name = "Display" /\ facts.traits[i].match_self

thiserror_error_check(facts) ==
  IF HasImpl(facts, "Display") /\ HasImpl(facts, "Error") THEN {"Display", "Error"} ELSE {}

derive_more_from_check(facts) ==
  IF \E i \in DOMAIN facts.traits :
       facts.traits[i].name = "From" /\ facts.traits[i].wrapping
  THEN {"From"} ELSE {}

derive_more_display_check(facts) ==
  IF ~HasImpl(facts, "Error") /\ find_display_match(facts) THEN {"Display"} ELSE {}

(* Without deferring to thiserror. *)
strum_display_check_Eager(facts) ==
  IF facts.is_enum /\ find_display_match(facts) THEN {"Display"} ELSE {}

strum_display_check(facts) ==
  IF facts.is_enum /\ ~HasImpl(facts, "Error") /\ find_display_match(facts)
  THEN {"Display"} ELSE {}

strum_enum_string_check(facts) ==
  IF facts.is_enum /\ HasImpl(facts, "FromStr") THEN {"FromStr"} ELSE {}

(* The patterns shipped for a crate: item, how alike a match counts, and   *)
(* the impls it would replace.                                             *)
curated_derive_patterns(crate, facts) ==
  CASE crate = "thiserror" ->
         {[item |-> "Error", structural |-> 900, impls |-> thiserror_error_check(facts)]}
    [] crate = "derive_more" ->
         {[item |-> "From", structural |-> 850, impls |-> derive_more_from_check(facts)],
          [item |-> "Display", structural |-> 800,
           impls |-> derive_more_display_check(facts)]}
    [] crate = "strum" ->
         {[item |-> "Display", structural |-> 750, impls |-> strum_display_check(facts)],
          [item |-> "EnumString", structural |-> 750,
           impls |-> strum_enum_string_check(facts)]}
    [] OTHER -> {}

match_type(crate, facts, trust) ==
  {make_finding(<<facts.id, pat.impls>>, crate, pat.item, "curated", trust, pat.structural) :
     pat \in {p \in curated_derive_patterns(crate, facts) : p.impls # {}}}

itertools_process_results_check(s) ==
  /\ s.cfg[loop_count] > 0
  /\ s.cfg[try_count] > 0
  /\ \E k \in DOMAIN s.call_sequence :
       s.call_sequence[k] \in {"push", "insert", "extend", "push_str"}

match_body(crate, s, trust) ==
  IF crate = "itertools" /\ itertools_process_results_check(s)
  THEN {make_finding(<<s.id>>, crate, "process_results", "curated", trust, 700)}
  ELSE {}

-----------------------------------------------------------------------------
(* library_config.rs: the curated crates with what is active of each.  Two *)
(* entries of one crate add up, the trust of the later one counts.         *)
Entries(config, crate) ==
  {i \in DOMAIN config : config[i].source = "curated" /\ config[i].crate = crate}

CuratedSelection(config, crate) ==
  LET kinds == UNION {config[i].kinds : i \in Entries(config, crate)}
  IN  [trust |-> config[Max(Entries(config, crate))].trust,
       derive |-> "derive" \in kinds,
       function |-> kinds \cap {"function", "trait"} # {}]

curated_crates(config) ==
  {config[i].crate : i \in {j \in DOMAIN config : config[j].source = "curated"}}

(* What reading the rustdoc of the entries yields: the requested items that*)
(* are functions there, at the trust of the entry.                         *)
virtual_signatures(config) ==
  UNION {{[library |-> config[i].crate, item |-> v.item, trust |-> config[i].trust,
           type_shape |-> v.type_shape, arity |-> v.arity] :
            v \in {w \in config[i].rustdoc : w.item \in config[i].items}} :
         i \in {j \in DOMAIN config : config[j].source = "rustdoc"}}

(* Tier A scores every local signature against every virtual one, tier B   *)
(* runs what is active of a crate over the local types and functions.      *)
tier_a(sigs, config) ==
  UNION {match_virtual(s, v) : s \in sigs, v \in virtual_signatures(config)}

tier_b(crate, sel, sigs, types) ==
  (IF sel.derive THEN UNION {match_type(crate, facts, sel.trust) : facts \in types} ELSE {})
    \cup (IF sel.function THEN UNION {match_body(crate, s, sel.trust) : s \in sigs} ELSE {})

match_libraries(sigs, types, config) ==
  tier_a(sigs, config)
    \cup UNION {tier_b(crate, CuratedSelection(config, crate), sigs, types) :
                  crate \in curated_crates(config)}
=============================================================================
