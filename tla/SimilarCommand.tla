--------------------------- MODULE SimilarCommand ---------------------------
(***************************************************************************)
(* The similar command (hinzu-cli/src/similar_cmd.rs over                  *)
(* similarity/mod.rs): collect one document of signatures per project,     *)
(* analyze each on its own -- link the pairs over the threshold in a       *)
(* union-find forest, refine its groups, explain the clusters --, merge    *)
(* what was found and add the advice on libraries.                         *)
(***************************************************************************)
EXTENDS UnionFind, SimilarityClusters, LibraryMatch

CONSTANT Request   \* the invocations and projects considered

(* The lists of signatures an invocation may meet, and the documents.      *)
SignatureLists(r) ==
  {r.rust} \cup Range(r.ts) \cup {doc.signatures : doc \in Range(r.structural)}

Documents(r) ==
  Range(r.structural)
    \cup [extractor : {"stablemir", "syn", "tsc-checker"}, signatures : {r.rust} \cup Range(r.ts)]

(* Lists are finite, the extractor is one of three, an id is the rank of   *)
(* its symbol, what is known of a type is in one place (library_extract.rs *)
(* keys it by file and name), and a similarity is a number of thousandths, *)
(* as the bars are (negative ones let all pass).                           *)
ASSUME RequestAssumption ==
  \A r \in Request :
    /\ r.ts \in Seq(Range(r.ts)) /\ r.structural \in Seq(Range(r.structural))
    /\ r.rust_extractor \in {"auto", "syn", "stablemir"}
    /\ r.min_similarity \in Int /\ r.min_cohesion \in Int
    /\ \A a, b \in r.types : a.id = b.id => a = b
    /\ \A list \in SignatureLists(r) :
         /\ list \in Seq(Range(list))
         /\ \A a, b \in Range(list) : a.id \in Nat /\ score_pair(a, b).aggregate \in Nat

VARIABLES request,    \* the invocation
          phase,      \* how far the command is
          docs,       \* documents still to be analyzed, the first one under way
          kept,       \* its signatures past the filter, in order
          weights,    \* the compared pairs of their positions -> score
          clusters,   \* the clusters its groups were refined into
          rejected,   \* and how many loose groups were rejected
          outputs,    \* the analyses made, one record a document
          report      \* the merged document

doc_vars == <<kept, weights, clusters, rejected>>
similar_vars == <<request, phase, docs, doc_vars, outputs, report, forest_vars>>

NoReport == [candidates |-> <<>>, library |-> {}, compared |-> 0, rejected |-> 0,
             profiles |-> {}]

SimilarInit ==
  /\ request \in Request
  /\ phase = "collect"
  /\ docs = <<>> /\ kept = <<>> /\ weights = <<>>
  /\ clusters = {} /\ rejected = 0
  /\ outputs = <<>> /\ report = NoReport
  /\ ForestInit

-----------------------------------------------------------------------------
(* The extractors a Rust document may come from: auto falls back on the    *)
(* syntactic one, stablemir never does.                                    *)
RustExtractors ==
  CASE request.rust_extractor = "stablemir" -> {"stablemir"}
    [] request.rust_extractor = "syn" -> {"syn"}
    [] request.rust_extractor = "auto" -> {"stablemir", "syn"}

RustDocuments ==
  IF request.rust = <<>> THEN {<<>>}
  ELSE {<<[extractor |-> e, signatures |-> request.rust]>> : e \in RustExtractors}

TsDocuments ==
  [i \in DOMAIN request.ts |->
     [extractor |-> "tsc-checker", signatures |-> request.ts[i]]]

(* collect_signature_docs: the given document alone, or the Rust project   *)
(* and every TypeScript project.                                           *)
Collect ==
  /\ phase = "collect"
  /\ docs' \in IF request.structural # <<>> THEN {request.structural}
               ELSE {d \o TsDocuments : d \in RustDocuments}
  /\ docs' # <<>>
  /\ phase' = "analyze"
  /\ UNCHANGED <<request, doc_vars, outputs, report, forest_vars>>

(* No project found, a document or a configuration that cannot be read, an *)
(* extractor that fails: the command ends with an error.                   *)
Fail ==
  /\ phase \in {"collect", "libraries"}
  /\ phase' = "failed"
  /\ UNCHANGED <<request, docs, doc_vars, outputs, report, forest_vars>>

-----------------------------------------------------------------------------
(* Long enough, and of the language asked for. *)
Passes(s) ==
  /\ request.language \in {"any", s.language}
  /\ s.token_len >= request.min_size
  /\ stmt_total(s) >= request.min_statements

(* A set in an order that is total on it. *)
InOrder(S, Before(_, _)) ==
  [i \in 1 .. Cardinality(S) |->
     CHOOSE x \in S : Cardinality({y \in S : Before(y, x)}) = i - 1]

(* What is at the positions in S. *)
Chosen(seq, S) == [k \in 1 .. Cardinality(S) |-> seq[InOrder(S, <)[k]]]

(* The order pairs are scored and united in. *)
Lexical(p, q) == p[1] < q[1] \/ (p[1] = q[1] /\ p[2] < q[2])

OverThreshold(scored) == {p \in DOMAIN scored : scored[p].aggregate >= request.min_similarity}

(* analyze up to the unions: filter, pick the pairs, score each once. *)
Score ==
  /\ phase = "analyze"
  /\ docs # <<>>
  /\ LET all == docs[1].signatures
         sigs == Chosen(all, {k \in DOMAIN all : Passes(all[k])})
     IN  \E lucky \in BandLuck(sigs) :
           LET scored == [p \in candidate_pairs(sigs, lucky) |->
                            score_pair(sigs[p[1]], sigs[p[2]])]
           IN  /\ kept' = sigs
               /\ weights' = scored
               /\ Begin(Len(sigs), InOrder(OverThreshold(scored), Lexical))
  /\ clusters' = {}
  /\ rejected' = 0
  /\ phase' = "link"
  /\ UNCHANGED <<request, docs, outputs, report>>

Link ==
  /\ phase = "link"
  /\ ForestStep
  /\ UNCHANGED <<request, phase, docs, doc_vars, outputs, report>>

aggregate == [p \in DOMAIN weights |-> weights[p].aggregate]

(* Every group of two or more, refined with the edges inside it. *)
Refine ==
  /\ phase = "link"
  /\ links = <<>>
  /\ LET Outcome(g) == refine_cohesive(g, Inside(OverThreshold(weights), g),
                                       aggregate, request.min_cohesion)
         outcome == [g \in {h \in groups_of(parent) : Cardinality(h) >= 2} |-> Outcome(g)]
     IN  /\ clusters' = UNION {outcome[g].clusters : g \in DOMAIN outcome}
         /\ rejected' = SumFunction([g \in DOMAIN outcome |-> outcome[g].rejected])
  /\ phase' = "explain"
  /\ UNCHANGED <<request, docs, kept, weights, outputs, report, forest_vars>>

Members(c) == Chosen(kept, c)

(* sort_and_number_findings: surest first, then largest, then by the first *)
(* member, findings that tie in any one order; the place is the number.    *)
comes_before(a, b) ==
  \/ a.confidence > b.confidence
  \/ /\ a.confidence = b.confidence
     /\ \/ Len(a.members) > Len(b.members)
        \/ Len(a.members) = Len(b.members) /\ a.members[1] < b.members[1]

sort_and_number_findings(found) ==
  CHOOSE seq \in [1 .. Cardinality(found) -> found] :
    /\ Range(seq) = found
    /\ \A i, j \in DOMAIN seq : i < j => ~comes_before(seq[j], seq[i])

(* The profiles of the languages that pass the filter on languages. *)
profiles_present ==
  LET sigs == docs[1].signatures
  IN  UNION {profile_for(sigs[k].language, docs[1].extractor) :
               k \in {i \in DOMAIN sigs : request.language \in {"any", sigs[i].language}}}

(* The rest of analyze: what it returns for this document. *)
Explain ==
  /\ phase = "explain"
  /\ LET Scored(c) == [p \in Inside(DOMAIN weights, c) |-> weights[p]]
     IN  outputs' = Append(outputs,
           [extractor |-> docs[1].extractor,
            candidates |-> {explain_cluster(Members(c), Scored(c), profiles_present) :
                              c \in clusters},
            compared |-> Cardinality(DOMAIN weights),
            rejected |-> rejected,
            profiles |-> profiles_present])
  /\ docs' = Tail(docs)
  /\ phase' = "analyze"
  /\ UNCHANGED <<request, doc_vars, report, forest_vars>>

-----------------------------------------------------------------------------
(* merge_similarity_outputs: everything found, numbered afresh. *)
MergeOutputs ==
  /\ phase = "analyze"
  /\ docs = <<>>
  /\ report' =
       [candidates |->
          sort_and_number_findings(UNION {outputs[i].candidates : i \in DOMAIN outputs}),
        library |-> {},
        compared |-> MapThenSumSet(LAMBDA i : outputs[i].compared, DOMAIN outputs),
        rejected |-> MapThenSumSet(LAMBDA i : outputs[i].rejected, DOMAIN outputs),
        profiles |-> UNION {outputs[i].profiles : i \in DOMAIN outputs}]
  /\ phase' = IF request.libraries = <<>> THEN "done" ELSE "libraries"
  /\ UNCHANGED <<request, docs, doc_vars, outputs, forest_vars>>

(* The Rust signatures, filtered or not, the library tier looks at. *)
LocalRust ==
  LET sigs == IF request.structural # <<>> THEN request.structural[1].signatures
              ELSE request.rust
  IN  {sigs[k] : k \in {i \in DOMAIN sigs : sigs[i].language = "rust"}}

attach_profiles(found) ==
  {p \in {rustdoc_source_profile, curated_pattern_profile} :
     \E f \in found : f.source = IF p = rustdoc_source_profile THEN "rustdoc" ELSE "curated"}

(* library_tier::run: no type is read when the signatures were given; the  *)
(* profiles of the sources of what is advised are added.                   *)
AdviseLibraries ==
  /\ phase = "libraries"
  /\ LET types == IF request.structural # <<>> THEN {} ELSE request.types
         found == match_libraries(LocalRust, types, request.libraries)
     IN  report' = [report EXCEPT !.library = found,
                                  !.profiles = @ \cup attach_profiles(found)]
  /\ phase' = "done"
  /\ UNCHANGED <<request, docs, doc_vars, outputs, forest_vars>>

SimilarNext ==
  Collect \/ Fail \/ Score \/ Link \/ Refine \/ Explain \/ MergeOutputs \/ AdviseLibraries

SimilarSpec == SimilarInit /\ [][SimilarNext]_similar_vars

-----------------------------------------------------------------------------
(* What refine_cohesive promises of a document, said of the pairs over the *)
(* threshold and nothing else: a reported cluster hangs together and meets *)
(* the gate, no two share a member, no pair at the gate itself is cut by a *)
(* cluster's edge; a component that meets the gate is reported whole, and  *)
(* one of which nothing is reported is counted, never silently trimmed     *)
(* (mod.rs:928-930).                                                       *)
Linked(edges, members) ==
  \A S \in SUBSET members :
    S # {} /\ S # members =>
      \E e \in Inside(edges, members) : (e[1] \in S) # (e[2] \in S)

Components(edges) ==
  {S \in SUBSET DOMAIN kept :
     /\ S # {} /\ Linked(edges, S)
     /\ \A e \in edges : e[1] \in S <=> e[2] \in S}

MeetsGate(edges, members) ==
  2 * SumFunctionOnSet(aggregate, Inside(edges, members))
    >= request.min_cohesion * Cardinality(members) * (Cardinality(members) - 1)

ClustersAsPromised ==
  phase = "explain" =>
    LET edges == OverThreshold(weights)
        components == {S \in Components(edges) : Cardinality(S) >= 2}
        Silent(S) == \A c \in clusters : c \cap S = {}
    IN  /\ \A c \in clusters :
             /\ Cardinality(c) >= 2 /\ Linked(edges, c) /\ MeetsGate(edges, c)
             /\ \A d \in clusters : c = d \/ c \cap d = {}
             /\ \A e \in edges : aggregate[e] >= request.min_cohesion
                                   => (e[1] \in c <=> e[2] \in c)
        /\ \A S \in components : MeetsGate(edges, S) => S \in clusters
        /\ Cardinality({S \in components : Silent(S)}) <= rejected
        /\ rejected = 0 => \A S \in components : ~Silent(S)

(* The merged document is fair about its findings: none is lost, each is   *)
(* from one document, in the order of falling confidence; a family is one  *)
(* its language has, a Rust finding is under the cap unless its types were *)
(* resolved, whatever else the document holds; and an error type's Display *)
(* is offered to one derive only (libraries.rs:879-881 "a redundant second *)
(* one"), where what replaces impls names the type and the impls.          *)
CandidatesFair ==
  /\ \A k \in DOMAIN outputs : outputs[k].candidates \subseteq Range(report.candidates)
  /\ \A i, j \in DOMAIN report.candidates : i < j =>
       report.candidates[i].confidence >= report.candidates[j].confidence
  /\ \A c \in Range(report.candidates) :
       LET from == {k \in DOMAIN outputs : c \in outputs[k].candidates}
       IN  /\ from # {}
           /\ family_in_profile(c.language, c.family)
           /\ \A k \in from :
                c.language = "rust" /\ outputs[k].extractor # "stablemir"
                  => c.confidence <= 85

AdviceFair ==
  \A f, g \in report.library :
    /\ f.item = "Error" /\ Len(f.local) = 2 /\ Len(g.local) = 2
    /\ f.local[1] = g.local[1] /\ f # g
    => f.local[2] \cap g.local[2] = {}

ReportFair == phase = "done" => CandidatesFair /\ AdviceFair
=============================================================================
