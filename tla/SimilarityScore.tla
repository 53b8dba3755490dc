-------------------------- MODULE SimilarityScore --------------------------
(***************************************************************************)
(* Structural signatures and their pairwise similarity (similarity/mod.rs, *)
(* profile.rs).  A similarity is a number of thousandths, each quotient    *)
(* rounded down.  A signature is a record of what the analysis reads: its  *)
(* id is its rank among the symbol ids, a shingle is a number, a callee or *)
(* an erased type is a name, the six counts of the control-flow skeleton   *)
(* are a tuple.                                                            *)
(***************************************************************************)
EXTENDS Integers, Sequences, FiniteSets, FiniteSetsExt

Whole == 1000
Share(part, all) == (Whole * part) \div all
Larger(a, b) == IF a >= b THEN a ELSE b
Smaller(a, b) == IF a <= b THEN a ELSE b
Distance(a, b) == Larger(a, b) - Smaller(a, b)

\* Places of the counts in a control-flow skeleton.
branch_count == 1
match_arms == 2
loop_count == 3
try_count == 4
Skeleton == 1 .. 6

Count(histogram, kind) ==
  IF kind \in DOMAIN histogram THEN histogram[kind] ELSE 0

stmt_total(s) ==
  MapThenSumSet(LAMBDA k : s.stmt_histogram[k], DOMAIN s.stmt_histogram)

-----------------------------------------------------------------------------
(* The five signals.                                                       *)
jaccard(a, b) ==
  IF a \cup b = {} THEN Whole
  ELSE Share(Cardinality(a \cap b), Cardinality(a \cup b))

(* One minus the distance of the skeletons over their common envelope.     *)
cfg_similarity(a, b) ==
  LET apart == MapThenSumSet(LAMBDA k : Distance(a[k], b[k]), Skeleton)
      envelope == MapThenSumSet(LAMBDA k : Larger(a[k], b[k]), Skeleton)
  IN  IF envelope = 0 THEN Whole ELSE Whole - Share(apart, envelope)

(* Parameters agree place by place, results as a whole.                    *)
type_shape_similarity(a, b) ==
  LET longest == Larger(Len(a.params), Len(b.params))
      agreeing == {k \in (DOMAIN a.params) \cap (DOMAIN b.params) :
                     a.params[k] = b.params[k]}
      params == IF longest = 0 THEN Whole
                ELSE Share(Cardinality(agreeing), longest)
  IN  (7 * params + (IF a.result = b.result THEN 3 * Whole ELSE 0)) \div 10

(* The longest common subsequence, by prefixes. *)
lcs_len(a, b) ==
  LET lcs[i \in 0 .. Len(a), j \in 0 .. Len(b)] ==
        IF i = 0 \/ j = 0 THEN 0
        ELSE IF a[i] = b[j] THEN lcs[i - 1, j - 1] + 1
        ELSE Larger(lcs[i - 1, j], lcs[i, j - 1])
  IN  lcs[Len(a), Len(b)]

call_sequence_similarity(a, b) ==
  IF Len(a) + Len(b) = 0 THEN Whole
  ELSE Share(2 * lcs_len(a, b), Len(a) + Len(b))

(* The cosine, as the root of its square. *)
histogram_cosine(a, b) ==
  LET Product(f, g) ==
        MapThenSumSet(LAMBDA k : Count(f, k) * Count(g, k), DOMAIN f \cup DOMAIN g)
      square == (Whole * Whole * Product(a, b) * Product(a, b))
                  \div (Product(a, a) * Product(b, b))
  IN  IF a = <<>> /\ b = <<>> THEN Whole
      ELSE IF Product(a, a) * Product(b, b) = 0 THEN 0
      ELSE CHOOSE r \in 0 .. Whole : r * r <= square /\ square < (r + 1) * (r + 1)

score_pair(a, b) ==
  LET shingle == jaccard(a.shingles, b.shingles)
      type_shape == type_shape_similarity(a.type_shape, b.type_shape)
      call_seq == call_sequence_similarity(a.call_sequence, b.call_sequence)
      cfg == cfg_similarity(a.cfg, b.cfg)
      histogram == histogram_cosine(a.stmt_histogram, b.stmt_histogram)
  IN  [aggregate |-> (40 * shingle + 20 * type_shape + 15 * call_seq
                        + 15 * cfg + 10 * histogram) \div 100,
       shingle_jaccard |-> shingle, type_shape |-> type_shape,
       call_seq |-> call_seq, cfg |-> cfg, histogram |-> histogram]

-----------------------------------------------------------------------------
(* Which pairs are scored at all.                                          *)
band(value, width) == value \div width

coarse_key(s) ==
  <<band(s.arity.params, 2), band(s.cfg[branch_count] + s.cfg[match_arms], 3),
    Smaller(s.cfg[loop_count], 3), band(s.token_len, 20)>>

(* MinHash and LSH: equal sets of shingles share every band, disjoint ones *)
(* share none (short of a 64-bit collision), and any others may share one. *)
MustShareBand(a, b) == a.shingles # {} /\ a.shingles = b.shingles
MayShareBand(a, b) == a.shingles \cap b.shingles # {}

Positions(sigs) ==
  {p \in (DOMAIN sigs) \X (DOMAIN sigs) : p[1] < p[2]}

(* The pairs of positions that get scored, if the bands shared beyond those*)
(* of equal sets are the ones of lucky.                                    *)
candidate_pairs(sigs, lucky) ==
  {p \in Positions(sigs) :
     \/ coarse_key(sigs[p[1]]) = coarse_key(sigs[p[2]])
     \/ MustShareBand(sigs[p[1]], sigs[p[2]])
     \/ p \in lucky}

(* What lucky may be. *)
BandLuck(sigs) ==
  SUBSET {p \in Positions(sigs) :
            /\ MayShareBand(sigs[p[1]], sigs[p[2]])
            /\ p \notin candidate_pairs(sigs, {})}

-----------------------------------------------------------------------------
(* profile.rs: the capability cards that are shipped.  A limitation is the *)
(* set of the topics its text touches.                                     *)
RustFamilies ==
  {"helper_function", "generic_function", "trait", "macro_rules", "proc_macro_derive",
   "builder", "enum_dispatch", "generated_declaration"}

rust_syn_profile ==
  [language |-> "rust", extractor |-> "syn", types_resolved |-> "syntactic",
   families |-> RustFamilies,
   limitations |-> <<{"type"}, {"Macro"}, {"type"}, {"Call"}, {}>>]

rust_stablemir_profile ==
  [language |-> "rust", extractor |-> "stablemir", types_resolved |-> "yes",
   families |-> RustFamilies,
   limitations |-> <<{"type"}, {"type"}, {}, {}, {"type"}>>]

ts_tsc_profile ==
  [language |-> "typescript", extractor |-> "tsc-checker", types_resolved |-> "yes",
   families |-> {"helper_function", "generic_function", "higher_order_function",
                 "mapped_type", "conditional_type", "shared_schema", "decorator",
                 "object_driven_definition", "generated_client", "generated_declaration"},
   limitations |-> <<{"type"}, {"type"}, {"type", "Call"}, {"type"}, {}>>]

rustdoc_source_profile ==
  [language |-> "rust", extractor |-> "rustdoc", types_resolved |-> "partial",
   families |-> {"adopt_library"}, limitations |-> <<{"type"}, {"type"}, {}, {}>>]

curated_pattern_profile ==
  [language |-> "rust", extractor |-> "curated-pattern", types_resolved |-> "syntactic",
   families |-> {"adopt_library"}, limitations |-> <<{}, {}, {}, {}, {}>>]

(* A language without an extractor of its own has none; an unknown Rust    *)
(* extractor counts as the syntactic one.                                  *)
profile_for_language(language) ==
  CASE language = "rust" -> {rust_syn_profile}
    [] language = "typescript" -> {ts_tsc_profile}
    [] OTHER -> {}

profile_for(language, extractor) ==
  IF language = "rust" /\ extractor = "stablemir" THEN {rust_stablemir_profile}
  ELSE profile_for_language(language)

types_are_resolved(profile) == profile.types_resolved = "yes"
=============================================================================
