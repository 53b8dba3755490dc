---------------------------- MODULE PolicyCheck ----------------------------
(***************************************************************************)
(* The decisions of a check, as pure operators.                            *)
(*                                                                         *)
(* First root seeding (crates/hinzu-core/src/roots.rs): which callees of   *)
(* the extracted facts become effect roots, and which of them become       *)
(* Unknown because neither a body nor an annotation accounts for them.     *)
(* Symbol names are matched by the code as strings; here what matters of a *)
(* name is given as constants: its crate, what is left of it without       *)
(* generic arguments, and whether it lies in the trusted standard library. *)
(* A seed table is a record                                                *)
(*   rule : which effect the most specific matching rule gives a symbol,   *)
(*   pure : the symbols a "pure" annotation matches.                       *)
(*                                                                         *)
(* Then the policy (crates/hinzu-core/src/policy.rs): which definitions    *)
(* are flagged, for which effect, and whether the finding fails the run.   *)
(* A region document is a record [name, specificity, forbid, allow]; the   *)
(* specificity of a file is the length of the longest glob that matches    *)
(* it, 0 when none does.  A policy document is a record                    *)
(* [on_unknown, ignore, regions, table, component]; the table is the seed  *)
(* table that hinzu.toml overlays on the built-in annotations, component   *)
(* the configuration of the named rule in rules.rs.                        *)
(***************************************************************************)
EXTENDS FactGraph, FiniteSets

CONSTANTS
  Unknown,       \* Effect::Unknown
  NoEffect,      \* no rule matches the symbol
  Crate,         \* crate names
  CrateOf,       \* leading_crate
  Name,          \* names without generic arguments
  strip_generics,\* the name of a symbol without generic arguments
  Baseline       \* the symbols of the trusted-pure baseline

ASSUME SeedsAssumption ==
  /\ Unknown \in Effect
  /\ NoEffect \notin Effect
  /\ CrateOf \in [Symbol -> Crate]
  /\ strip_generics \in [Symbol -> Name]
  /\ Baseline \subseteq Symbol

(* Effect::REAL *)
RealEffect == Effect \ {Unknown}

SeedTable == [rule : [Symbol -> RealEffect \cup {NoEffect}], pure : SUBSET Symbol]

-----------------------------------------------------------------------------
CarryingEdges(edges) == {e \in edges : carries_effects(e.kind)}

(* RootSeeds::seed: a root for every callee a rule matches.                *)
seed(table, edges, roots) ==
  roots \cup {[symbol |-> e.callee, effect |-> table.rule[e.callee]] :
                e \in {x \in CarryingEdges(edges) : table.rule[x.callee] # NoEffect}}

(* SeenCallees::contains: by id, by name without generics, or by crate.    *)
seen(defs, callee) ==
  \/ callee \in defs
  \/ \E d \in defs : strip_generics[d] = strip_generics[callee]
  \/ \E d \in defs : CrateOf[d] = CrateOf[callee]

(* RootSeeds::classify_foreign: an explicit annotation, then a rule, then  *)
(* the baseline.                                                           *)
classify_foreign(table, callee) ==
  IF callee \in table.pure THEN "pure"
  ELSE IF table.rule[callee] # NoEffect THEN "effect"
  ELSE IF callee \in Baseline THEN "pure" ELSE "unknown"

(* Mutant: a callee that was seen is resolved, whatever the call site.     *)
IsUnknown_SeenFirst(table, defs, roots, edge) ==
  /\ ~ seen(defs, edge.callee)
  /\ ~ \E r \in roots : r.symbol = edge.callee /\ r.effect # Unknown
  /\ edge.resolution = "unresolved" \/ classify_foreign(table, edge.callee) = "unknown"

(* The decision seed_unknowns takes for one edge, given the roots seeded   *)
(* so far.                                                                 *)
IsUnknown(table, defs, roots, edge) ==
  \/ edge.resolution = "unresolved"
  \/ /\ ~ seen(defs, edge.callee)
     /\ ~ \E r \in roots : r.symbol = edge.callee /\ r.effect # Unknown
     /\ classify_foreign(table, edge.callee) = "unknown"

(* RootSeeds::seed_unknowns *)
seed_unknowns(table, defs, edges, roots) ==
  LET seeded == seed(table, edges, roots)
  IN  seeded \cup {[symbol |-> e.callee, effect |-> Unknown] :
                     e \in {x \in CarryingEdges(edges) : IsUnknown(table, defs, seeded, x)}}

-----------------------------------------------------------------------------
(* The policy.                                                             *)
CONSTANTS
  File, NoFile, RegionName,
  RenderSensitive   \* DEFAULT_FORBIDDEN of the rule for components

(* No definitions row: a symbol the facts hold no body for.                *)
ASSUME FileAssumption == NoFile \notin File

(* Walks that come by no symbol twice.                                     *)
SimplePaths ==
  {q \in UNION {[1 .. n -> Symbol] : n \in 1 .. Cardinality(Symbol)} :
     \A i, j \in DOMAIN q : q[i] = q[j] => i = j}

OnUnknown == {"fail", "warn", "ignore"}

RegionDoc == [name : RegionName, specificity : [File -> Nat],
              forbid : SUBSET Effect, allow : SUBSET Effect]

(* [rules]: does `enable` list effect-in-component, and its `forbid`.      *)
RuleConfig == [enabled : BOOLEAN, forbid : SUBSET Effect]

PolicyDoc == [on_unknown : OnUnknown, ignore : SUBSET File,
              regions : SUBSET RegionDoc, table : SeedTable,
              component : RuleConfig]

(* RegionDoc::forbidden_effects, and when it is an error.                  *)
IsContradictory(region) == region.forbid # {} /\ region.allow # {}

forbidden_effects(region) ==
  IF region.allow = {} THEN region.forbid ELSE RealEffect \ region.allow

(* parse_effects: uncertainty is no category a region can name.            *)
NamesUnknown(region) == Unknown \in region.forbid \cup region.allow

(* PolicyDoc::into_policy succeeds.                                        *)
Parses(doc) ==
  \A r \in doc.regions : ~ IsContradictory(r) /\ ~ NamesUnknown(r)

(* Mutant: every region whose globs match governs.                         *)
governing_regions_All(doc, file) ==
  {r \in doc.regions : r.specificity[file] > 0}

(* Policy::governing_regions: the regions tied for the longest match.      *)
governing_regions(doc, file) ==
  {r \in doc.regions :
     /\ r.specificity[file] > 0
     /\ \A q \in doc.regions : q.specificity[file] <= r.specificity[file]}

(* The flavor of an Unknown finding: was the callee at the end of the      *)
(* evidence path the target of an unresolved call?                         *)
flavor(edges, evidence) ==
  IF /\ evidence # <<>>
     /\ \E x \in edges : /\ x.callee = evidence[Len(evidence)]
                        /\ x.resolution = "unresolved"
  THEN "target" ELSE "effect"

Finding(s, region, e, evidence, kind, severity) ==
  [symbol |-> s, region |-> region.name, effect |-> e, evidence |-> evidence,
   kind |-> kind, severity |-> severity]

(* The forbidden effects that the summary of s reaches.                    *)
ForbiddenFindings(s, region, report) ==
  {Finding(s, region, e, report.evidence[s][e], "forbidden", "error") :
     e \in forbidden_effects(region) \cap report.effects[s]}

(* The uncertainty that a region which forbids anything cannot certify.    *)
UnknownFindings(doc, s, region, edges, report) ==
  IF /\ doc.on_unknown # "ignore"
     /\ forbidden_effects(region) # {}
     /\ Unknown \in report.effects[s]
  THEN {Finding(s, region, Unknown, report.evidence[s][Unknown],
                flavor(edges, report.evidence[s][Unknown]),
                IF doc.on_unknown = "fail" THEN "error" ELSE "warning")}
  ELSE {}

(* policy::check, and the rule that runs it on every check: `defs` maps    *)
(* each symbol to its file, or to NoFile.                                  *)
check(defs, edges, report, doc) ==
  UNION {UNION {ForbiddenFindings(s, region, report)
                  \cup UnknownFindings(doc, s, region, edges, report) :
                  region \in governing_regions(doc, defs[s])} :
           s \in {d \in Symbol : defs[d] \in File \ doc.ignore}}

-----------------------------------------------------------------------------
(* effect-in-component: a component may not reach a forbidden effect while *)
(* it renders.  `unmarked` holds the uses that are no seam; a seam leads   *)
(* into an effect hook or an event handler, which run later.               *)
DefaultForbidden == RealEffect \cap RenderSensitive

(* EffectInComponentConfig::from_table: an empty list means the default.   *)
from_table(rule) ==
  LET named == rule.forbid \cap RealEffect
  IN  IF named = {} THEN DefaultForbidden ELSE named

(* The facts as the render path sees them.                                 *)
render_forward_adjacency(fs) == [edges |-> fs.unmarked, roots |-> fs.roots]

(* The symbols with a forbidden root.                                      *)
forbidden_syms(fs, forbidden) ==
  {r.symbol : r \in {x \in fs.roots : x.effect \in forbidden}}

(* shortest_path_to_roots: any of the shortest walks from s to a target.   *)
ShortestPaths(fs, s, targets) ==
  {q \in SimplePaths :
     /\ q[1] = s
     /\ \A i \in 1 .. Len(q) - 1 : q[i + 1] \in uses_of(fs, q[i])
     /\ q[Len(q)] \in targets
     /\ IsShortest(fs, s, targets, q)}

(* EffectInComponentRule::check: a finding for each component with such a  *)
(* path; one of the forbidden effects at its end is named.                 *)
RenderFindings(fs, doc) ==
  LET forbidden == from_table(doc.component)
      targets == forbidden_syms(fs, forbidden)
      graph == render_forward_adjacency(fs)
  IN  {[symbol |-> t[1], region |-> "render", effect |-> t[2], evidence |-> t[3],
        kind |-> "component", severity |-> "error"] :
         t \in {u \in fs.components \X forbidden \X SimplePaths :
                 /\ fs.defs[u[1]] \in File \ doc.ignore
                 /\ u[3] \in ShortestPaths(graph, u[1], targets)
                 /\ [symbol |-> u[3][Len(u[3])], effect |-> u[2]] \in fs.roots}}

(* RuleEngine::run: the effect regions, then the named rule when it is     *)
(* enabled, with one finding for each component it flags.                  *)
Verdicts(fs, report, doc) ==
  LET always == check(fs.defs, fs.edges, report, doc)
      named == IF doc.component.enabled THEN RenderFindings(fs, doc) ELSE {}
      flagged == {n.symbol : n \in named}
  IN  {always \cup picks :
         picks \in {S \in SUBSET named :
                      /\ Cardinality(S) = Cardinality(flagged)
                      /\ {n.symbol : n \in S} = flagged}}
=============================================================================
