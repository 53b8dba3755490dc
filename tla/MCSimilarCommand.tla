-------------------------- MODULE MCSimilarCommand --------------------------
(***************************************************************************)
(* Small instances of SimilarCommand.                                      *)
(***************************************************************************)
EXTENDS SimilarCommand, TLC

CONSTANT MaxSignatures   \* the largest Rust project

Sig(id, language, shingles, calls, params, tokens) ==
  [id |-> id, language |-> language, file |-> id % 2, shingles |-> shingles,
   call_sequence |-> calls, token_len |-> tokens, has_macro |-> id = 7,
   cfg |-> <<1, 0, 1, 1, 0, 1>>, stmt_histogram |-> ("call" :> 2 @@ "if" :> 1),
   arity |-> [params |-> Len(params), results |-> 1, generics |-> IF id = 3 THEN 2 ELSE 0],
   type_shape |-> [params |-> params, result |-> "Result"]]

(* Two duplicates, a chain of look-alikes that ends in a pair with other   *)
(* types, and one too small to count.  3 and 4 are of another size band.   *)
RustPool ==
  {Sig(1, "rust", 1 .. 6, <<"get", "push">>, <<"_">>, 30),
   Sig(2, "rust", 1 .. 6, <<"get", "push">>, <<"_">>, 30),
   Sig(3, "rust", 4 .. 9, <<"find">>, <<"_">>, 45),
   Sig(4, "rust", 6 .. 11, <<"find">>, <<"_">>, 45),
   Sig(5, "rust", 8 .. 13, <<"open">>, <<"_">>, 30),
   Sig(6, "rust", 10 .. 15, <<"insert">>, <<"_">>, 22),
   Sig(7, "rust", 10 .. 15, <<"insert">>, <<"Vec">>, 30),
   Sig(8, "rust", 1 .. 6, <<"get", "push">>, <<"_">>, 9)}

TsProject(n) ==
  <<Sig(10 * n + 1, "typescript", 1 .. 6, <<"map">>, <<"_">>, 30),
    Sig(10 * n + 2, "typescript", 1 .. 6, <<"filter">>, <<"_">>, 30),
    Sig(10 * n + 3, "typescript", 1 .. 7, <<"get">>, <<"_">>, 30)>>

GoDocument == <<Sig(41, "go", 1 .. 6, <<"get">>, <<"_">>, 30),
                Sig(42, "go", 1 .. 6, <<"get">>, <<"_">>, 30)>>

ById(a, b) == a.id < b.id
Ascending(S) == InOrder(S, ById)
Descending(S) == LET seq == Ascending(S) IN [i \in DOMAIN seq |-> seq[Len(seq) + 1 - i]]

RustProjects == {S \in SUBSET RustPool : Cardinality(S) \in 2 .. MaxSignatures}

Impl(name, match_self, wrapping) ==
  [name |-> name, match_self |-> match_self, wrapping |-> wrapping]

ErrorEnum == [id |-> 51, is_enum |-> TRUE,
              traits |-> <<Impl("Display", TRUE, FALSE), Impl("Error", FALSE, FALSE),
                           Impl("From", FALSE, TRUE)>>]
PlainEnum == [id |-> 52, is_enum |-> TRUE,
              traits |-> <<Impl("Display", TRUE, FALSE), Impl("FromStr", FALSE, FALSE)>>]

Curated(crate, kinds, trust) ==
  [source |-> "curated", crate |-> crate, kinds |-> kinds, trust |-> trust,
   items |-> {}, rustdoc |-> {}]

process_results ==
  [item |-> "process_results", type_shape |-> [params |-> <<"_", "_">>, result |-> "Result"],
   arity |-> [params |-> 2, results |-> 1, generics |-> 2]]

Libraries ==
  {<<Curated("thiserror", {"derive"}, 90), Curated("derive_more", {"derive"}, 80),
     Curated("strum", {"derive"}, 70)>>,
   <<Curated("itertools", {"function"}, 50), Curated("itertools", {"derive"}, 100),
     [Curated("itertools", {}, 60) EXCEPT !.source = "rustdoc",
        !.items = {"process_results"}, !.rustdoc = {process_results}]>>}

Plain == [structural |-> <<>>, rust |-> <<>>, ts |-> <<>>, types |-> {}, libraries |-> <<>>,
          rust_extractor |-> "auto", language |-> "any", min_similarity |-> 550,
          min_cohesion |-> 600, min_size |-> 12, min_statements |-> 2]

(* Every small Rust project, in either order; mixed projects under every   *)
(* extractor with advice on libraries; documents given as files; nothing.  *)
Requests ==
  {[Plain EXCEPT !.rust = order, !.rust_extractor = "syn", !.min_cohesion = bar] :
     order \in {Ascending(S) : S \in RustProjects} \cup {Descending(S) : S \in RustProjects},
     bar \in {600, 850}}
  \cup
  {[Plain EXCEPT !.rust = Ascending({s \in RustPool : s.id \in ids}),
                 !.ts = [n \in 1 .. projects |-> TsProject(n)],
                 !.rust_extractor = extractor, !.language = language,
                 !.types = {ErrorEnum, PlainEnum}, !.libraries = libs] :
     ids \in {{1, 2, 3}, {6, 7, 8}}, projects \in 0 .. 2,
     extractor \in {"auto", "syn", "stablemir"}, language \in {"any", "rust"},
     libs \in Libraries \cup {<<>>}}
  \cup
  {[Plain EXCEPT !.structural = <<doc>>, !.libraries = libs] :
     doc \in {[extractor |-> "stablemir",
               signatures |-> Ascending({s \in RustPool : s.id \in {1, 2, 3}})],
              [extractor |-> "go-ast", signatures |-> GoDocument]},
     libs \in Libraries}
  \cup {Plain}
=============================================================================
