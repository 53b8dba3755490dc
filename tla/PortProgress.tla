----------------------------- MODULE PortProgress ---------------------------
(***************************************************************************)
(* A port under way, and hinzu port-diff run on it (crates/hinzu-cli,      *)
(* main.rs port_diff_cmd, port_diff_all, port_diff_cross_from).            *)
(*                                                                         *)
(* A team writes and removes target code, marks source files as verified   *)
(* in the conformance manifest and changes the source; it runs the command *)
(* with --compare against the report it saved last, and saves the new one. *)
(* The source is read by an adapter that is taken as faithful; the target  *)
(* crates are built one after another by the Rust driver, whose facts      *)
(* collect in a directory of the process.  Nothing is cached between runs. *)
(***************************************************************************)
EXTENDS PortReport

CONSTANTS
  Config,         \* [packages |-> from names to [source_dir, crates], naming]
  ProjectDirs,     \* the directories an adapter recognises as a project
  SourceFacts,    \* versions of the source, as facts over the whole tree
  Writable,       \* target symbols that may get written: [id, file]
  Calls,          \* the pairs <<a, b>> of target ids: a calls b, once written
  Verifiable,     \* pairs <<package, file>> that may be marked native
  Requests,       \* what is run, see Report
  MaxEdits        \* bound: edits between two runs

(* There are finitely many packages and definitions, and three ways to ask.*)
(* Text is ordered; a path defines one target symbol at most.              *)
ASSUME ProgressAssumption ==
  /\ IsFiniteSet(DOMAIN Config.packages)
  /\ \A p \in DOMAIN Config.packages : Config.packages[p].crates \in Seq(STRING)
  /\ Config.ported_threshold \in Nat \X Nat
  /\ 1 \in DOMAIN SourceFacts
  /\ \A version \in DOMAIN SourceFacts : IsFiniteSet(DOMAIN SourceFacts[version].defs)
  /\ \A req \in Requests : \/ req.kind = "package" /\ req.package \in DOMAIN Config.packages
                           \/ req.kind \in {"all", "from"}
  /\ OrdersText({s.id : s \in Writable}) /\ OrdersText({<<p>> : p \in DOMAIN Config.packages})
  /\ \A s, t \in Writable : s.id = t.id => s = t
  /\ \A s \in Writable : [display |-> Last(s.id), loc |-> 1, file |-> s.file] # None

VARIABLES
  source,    \* the version of the source
  written,   \* the subset of Writable that exists
  native,    \* the subset of Verifiable that is marked
  request,   \* what this team runs
  baseline,  \* the report saved last, None before the first
  compared,  \* of the run that just ended: [before, delta, edits]
  edits      \* the edits since the last run

progress_vars == <<source, written, native, request, baseline, compared, edits>>

-----------------------------------------------------------------------------
Packages == DOMAIN Config.packages

(* ResolvedPackage: the source directory and the rules of a package.       *)
source_path(p) == Config.packages[p].source_dir

(* The files that the conformance manifest lists as native in package p.   *)
load_native_files(p, marked) == {v[2] : v \in {x \in marked : x[1] = p}}

resolve(p, marked) ==
  [source_src_prefix |-> Config.naming.source_src_prefix,
   target_src_prefix |->
     [i \in DOMAIN Config.packages[p].crates |-> <<"crates", Config.packages[p].crates[i], "src">>],
   keep_pascal_types |-> Config.naming.keep_pascal_types,
   keep_screaming_consts |-> Config.naming.keep_screaming_consts,
   ported_threshold |-> Config.ported_threshold,
   cluster_vote_retain |-> Config.cluster_vote_retain,
   native_files |-> load_native_files(p, marked),
   package |-> p]

(* What an adapter extracts under dir from the facts of the whole tree:    *)
(* paths and ids relative to it, whatever lies elsewhere being external.   *)
FactsUnder(facts, dir) ==
  LET Local(n) == n \in DOMAIN facts.defs /\ IsPrefix(dir, facts.defs[n].file)
      name(n) == IF Local(n) THEN SubSeq(n, Len(dir) + 1, Len(n)) ELSE n
      local == {n \in DOMAIN facts.defs : Local(n)}
      inside == SelectSeq(facts.edges, LAMBDA e : Local(e.caller))
      of(m) == CHOOSE n \in local : name(n) = m
  IN  [defs |-> [m \in {name(n) : n \in local} |->
                   [facts.defs[of(m)] EXCEPT !.file = SubSeq(@, Len(dir) + 1, Len(@))]],
       edges |-> [i \in DOMAIN inside |->
                    [inside[i] EXCEPT !.caller = name(@), !.callee = name(@)]],
       roots |-> {[r EXCEPT !.symbol = name(@)] : r \in facts.roots}]

build_graph_from_source(facts, dir) == build_graph(FactsUnder(facts, dir))

(* What merge_facts_dir reads when these crates were built.  Each of them  *)
(* also holds code of no name (see Synthetic), so it is never empty, which *)
(* would be an error.                                                      *)
CrateFacts(code, crates) ==
  LET mine == {s \in code : s.file[2] \in crates}
      Exists(n, S) == \E s \in S : s.id = n
      calls == SelectSeq(Calls, LAMBDA c : Exists(c[1], mine) /\ Exists(c[2], code))
  IN  [defs |-> [n \in {s.id : s \in mine} |->
                   [display |-> Last(n), loc |-> 1,
                    file |-> (CHOOSE s \in mine : s.id = n).file]],
       edges |-> [i \in DOMAIN calls |->
                    [caller |-> calls[i][1], callee |-> calls[i][2], kind |-> "call",
                     resolution |-> "resolved", evidence |-> i]],
       roots |-> {}]

(* Building a crate builds all that it depends on.                         *)
BuiltWith(crate) ==
  LET crates == {s.id[1] : s \in Writable}
      uses == [c \in crates |-> {d \in crates : \E x \in ToSet(Calls) : x[1][1] = c /\ x[2][1] = d}]
  IN  Reach(uses, {crate})

(* tempdir_for_facts is named by the process and never emptied: an         *)
(* extraction finds the facts of all crates that the run has built so far. *)
FactsDir(crates) == UNION {BuiltWith(c) : c \in ToSet(crates)}

(* One graph for every crate, when the crates `before` are built.          *)
crate_graphs(crates, code, before) ==
  [i \in DOMAIN crates |->
     build_graph(CrateFacts(code, FactsDir(before \o SubSeq(crates, 1, i))))]

extract_target_graph_live(p, code, before) ==
  merge_target_graphs(crate_graphs(Config.packages[p].crates, code, before))

-----------------------------------------------------------------------------
(* PlanOpts::default(), which every caller here passes: small groups are   *)
(* merged, below this size.                                                *)
max_loc == 200

(* A group is the set of its files. *)
Adjacent(graph, G, H) == \E p \in G, q \in H : <<p, q>> \in DOMAIN graph.file_edges

Condensed(graph, parts) ==
  Table([G \in parts |-> {H \in parts \ {G} : Adjacent(graph, G, H)}])

Layerable(graph, parts) ==
  \E adj \in {Condensed(graph, parts)} : \A G \in parts : G \notin Reach(adj, adj[G])

Size(graph, G) == MapThenSumSet(LAMBDA p : graph.files[p].loc, G)

(* Of the smallest paths of two groups. *)
ListedBefore(G, H) == Precedes(InOrder(G)[1], InOrder(H)[1])

Merged(parts, G, H) == (parts \ {G, H}) \cup {G \cup H}

(* The pairs of neighbours that may become one group; the first is small,  *)
(* as both together are.                                                   *)
Mergeable(graph, parts) ==
  {pair \in parts \X parts :
     /\ pair[1] # pair[2]
     /\ Adjacent(graph, pair[1], pair[2]) \/ Adjacent(graph, pair[2], pair[1])
     /\ Size(graph, pair[1]) + Size(graph, pair[2]) < max_loc
     /\ Layerable(graph, Merged(parts, pair[1], pair[2]))}

(* The one that comes first in the order of the paths. *)
Foremost(pairs) ==
  {a \in pairs : \A b \in pairs \ {a} :
     IF a[1] = b[1] THEN ListedBefore(a[2], b[2]) ELSE ListedBefore(a[1], b[1])}

(* One iteration merges it, for as long as there is one. *)
coalesce(graph, groups) ==
  LET settle[parts \in SUBSET SUBSET DOMAIN graph.files] ==
        LET next == {Merged(parts, pair[1], pair[2]) : pair \in Foremost(Mergeable(graph, parts))}
        IN  IF next = {} THEN parts ELSE settle[CHOOSE more \in next : TRUE]
  IN  settle[groups]

(* Cycles and single files, coalesced. *)
PlanGroups(graph) ==
  LET cycle(p) == graph.files[p].scc
  IN  coalesce(graph, {IF cycle(p) = None THEN {p} ELSE cycle(p) : p \in DOMAIN graph.files})

(* topo_waves: as early as the groups a group depends on allow. *)
group_wave(adj) ==
  LET wave[G \in DOMAIN adj] == IF adj[G] = {} THEN 0 ELSE 1 + Max({wave[H] : H \in adj[G]})
  IN  wave

(* The wave of every file, that of its group (how groups and waves come    *)
(* about: PortPlan).                                                       *)
build_plan(graph) ==
  LET FileWave(waves) ==
        [p \in DOMAIN graph.files |-> waves[CHOOSE G \in DOMAIN waves : p \in G]]
  IN  CHOOSE plan \in {Table(FileWave(waves)) :
        waves \in {Table(group_wave(Condensed(graph, parts))) : parts \in {PlanGroups(graph)}}} : TRUE

-----------------------------------------------------------------------------
NamesOf(packages) ==
  LET order == InOrder({<<p>> : p \in packages}) IN [i \in DOMAIN order |-> order[i][1]]

PackageNames == NamesOf(Packages)

(* The crates that a run over `packages` builds before it comes to p.      *)
CratesBefore(p, packages) ==
  LET names == NamesOf(packages)
      place == CHOOSE i \in DOMAIN names : names[i] = p
  IN  FlattenSeq([i \in 1 .. place - 1 |-> Config.packages[names[i]].crates])

(* Every crate that a package names belongs to it, to the last of several. *)
owning_override ==
  LET naming(crate) == {i \in DOMAIN PackageNames :
                          crate \in ToSet(Config.packages[PackageNames[i]].crates)}
  IN  [crate \in UNION {ToSet(Config.packages[p].crates) : p \in Packages} |->
         PackageNames[Max(naming(crate))]]

(* The crates of all packages, in the order of the packages. *)
AllCrates ==
  FlattenSeq([i \in DOMAIN PackageNames |-> Config.packages[PackageNames[i]].crates])

port_diff_all(facts, code, marked, merge_check) ==
  LET union_target == merge_target_graphs(crate_graphs(AllCrates, code, <<>>))
      Whole(p, graph) ==
        port_diff(graph, build_plan(graph),
                  IF merge_check THEN union_target
                  ELSE extract_target_graph_live(p, code, CratesBefore(p, Packages)),
                  resolve(p, marked))
  IN  aggregate(Table([p \in Packages |-> Whole(p, build_graph_from_source(facts, source_path(p)))]),
                owning_override)

(* --from: the closure of the symbols that the patterns name, or an error. *)
scope_to_closure(graph, patterns) ==
  LET roots == resolve_roots(graph, patterns)
  IN  IF patterns = {} THEN graph
      ELSE IF roots = None THEN None ELSE filter_to_closure(graph, roots)

(* Without --all: one package. *)
port_diff_cmd(facts, code, marked, p, patterns) ==
  LET Scoped(graph) ==
        IF graph = None THEN None
        ELSE port_diff(graph, build_plan(graph), extract_target_graph_live(p, code, <<>>),
                       resolve(p, marked))
  IN  Scoped(scope_to_closure(build_graph_from_source(facts, source_path(p)), patterns))

(* The nearest directory above all packages that is a project. *)
find_union_root ==
  LET base == LongestCommonPrefix({source_path(p) : p \in Packages})
      up == {SubSeq(base, 1, i) : i \in 0 .. Len(base)} \cap ProjectDirs
  IN  IF up = {} THEN base ELSE CHOOSE d \in up : \A e \in up : Len(e) <= Len(d)

RelativeTo(root, p) == SubSeq(source_path(p), Len(root) + 1, Len(source_path(p)))

(* The files of the closure that are routed to package p.                  *)
closure_files(closure, root, p) ==
  {f \in DOMAIN closure.files : HasPrefix(f, RelativeTo(root, p))}

port_diff_cross_from(facts, code, marked, patterns) ==
  LET root == find_union_root
      Sliced(p, slice, spanned) ==
        port_diff(slice, build_plan(slice),
                  extract_target_graph_live(p, code, CratesBefore(p, spanned)), resolve(p, marked))
      Spanning(roots, closure, spanned) ==
        IF spanned = {} THEN None
        ELSE rooted_aggregate(roots, closure,
               Table([p \in spanned |->
                  Sliced(p, reroot_subgraph(closure, RelativeTo(root, p)), spanned)]))
      Rooted(roots, closure) ==
        IF roots = None THEN None
        ELSE Spanning(roots, closure, {p \in Packages : closure_files(closure, root, p) # {}})
      Over(union) == Rooted(resolve_roots(union, patterns), scope_to_closure(union, patterns))
  IN  Over(build_graph_from_source(facts, root))

(* What a request answers, None for an error. *)
Report(version, code, marked, req) ==
  LET facts == SourceFacts[version]
  IN  CASE req.kind = "package" -> port_diff_cmd(facts, code, marked, req.package, req.from)
        [] req.kind = "all" -> port_diff_all(facts, code, marked, req.merge_check)
        [] req.kind = "from" -> port_diff_cross_from(facts, code, marked, req.from)

(* --compare, in the shape of what was asked for. *)
emit_delta(before, after, req) ==
  CASE req.kind = "package" -> diff_reports(before, after)
    [] req.kind = "all" -> diff_multi_reports(before, after)
    [] req.kind = "from" -> diff_cross_reports(before, after)

-----------------------------------------------------------------------------
ProgressInit ==
  /\ source = 1
  /\ written = {}
  /\ native = {}
  /\ request \in Requests
  /\ baseline = None
  /\ compared = None
  /\ edits = {}

Edited(edit) ==
  /\ Cardinality(edits) < MaxEdits
  /\ edits' = edits \cup {edit}
  /\ compared' = None

Write(s) ==
  /\ s \notin written
  /\ written' = written \cup {s}
  /\ Edited([wrote |-> s])
  /\ UNCHANGED <<source, native, request, baseline>>

Delete(s) ==
  /\ s \in written
  /\ written' = written \ {s}
  /\ Edited([removed |-> s])
  /\ UNCHANGED <<source, native, request, baseline>>

Verify(v) ==
  /\ v \notin native
  /\ native' = native \cup {v}
  /\ Edited([verified |-> v])
  /\ UNCHANGED <<source, written, request, baseline>>

ChangeSource(version) ==
  /\ version # source
  /\ source' = version
  /\ Edited([changed |-> version])
  /\ UNCHANGED <<written, native, request, baseline>>

(* The first run only saves its report; a failed one saves nothing.        *)
PortDiff ==
  /\ baseline = None \/ edits # {}
  /\ \E report \in {Report(source, written, native, request)} \ {None} :
       /\ baseline' = report
       /\ compared' = IF baseline = None THEN None
                      ELSE [before |-> baseline, edits |-> edits,
                            delta |-> emit_delta(baseline, report, request)]
  /\ edits' = {}
  /\ UNCHANGED <<source, written, native, request>>

ProgressNext ==
  \/ \E s \in Writable : Write(s) \/ Delete(s)
  \/ \E v \in Verifiable : Verify(v)
  \/ \E version \in DOMAIN SourceFacts : ChangeSource(version)
  \/ PortDiff

ProgressSpec == ProgressInit /\ [][ProgressNext]_progress_vars

-----------------------------------------------------------------------------
(* A report package by package, and its totals, whatever was asked for.    *)
Packaged(report) ==
  IF request.kind = "package" THEN [p \in {request.package} |-> report] ELSE report.packages
Totals(report) == IF request.kind = "package" THEN report.overall ELSE report.totals

(* The port as the last run saw it moved only by code that was added.      *)
OnlyWrote == \A e \in compared.edits : DOMAIN e = {"wrote"}

(* Writing target code never loses a match, and takes no file back to a    *)
(* lower band, except to RELOCATED or from there.                          *)
PortingNeverRegresses ==
  compared # None /\ OnlyWrote =>
    /\ compared.delta.totals.symbols_matched_delta >= 0
    /\ \A f \in DOMAIN compared.delta.files :
         LET row == compared.delta.files[f]
         IN  \/ row.direction \in {"unchanged", "advanced"}
             \/ "RELOCATED" \in {row.band_before, row.band_after}

(* What a delta says of every band adds up: files before plus net movement *)
(* are files after, in every report the files of bands, waves and tiers    *)
(* are the files and symbols of the totals.                                *)
PortAddsUp ==
  compared # None =>
    LET moved == compared.delta.totals
    IN  /\ \A b \in Bands : Totals(compared.before).bands[b] + moved.band_net_movement[b]
                              = Totals(baseline).bands[b]
        /\ moved.direction["added"] - moved.direction["removed"]
             = Totals(baseline).source_files_total - Totals(compared.before).source_files_total
        /\ \A p \in DOMAIN Packaged(baseline) :
             LET report == Packaged(baseline)[p]
                 total(g) == SumFunction([w \in DOMAIN report.waves |-> report.waves[w][g]])
                 landed(f) == SumFunction([t \in DOMAIN report.files[f].contributions |->
                                             report.files[f].contributions[t].total_matched])
             IN  /\ total("files") = report.overall.source_files_total
                 /\ total("symbols_matched") = report.overall.symbols_matched
                 /\ SumFunction([f \in DOMAIN report.files |-> landed(f)])
                      = report.overall.symbols_matched

(* The ready frontier follows the plan: a file that is alone unfinished in *)
(* the first unfinished wave has nothing left to wait for, so some file is *)
(* ready.  (Several of one wave may be a cycle, of which none is.)  The    *)
(* plan merges small files, so a file may wait for one of its own wave.    *)
FrontierFollowsPlan ==
  baseline # None =>
    \A p \in DOMAIN Packaged(baseline) :
      LET report == Packaged(baseline)[p]
          left(w) == report.waves[w].files - report.waves[w].bands["DONE"]
                       - report.waves[w].bands["PORTED"]
          unfinished == {w \in DOMAIN report.waves : left(w) > 0}
      IN  unfinished # {} /\ left(Min(unfinished)) = 1 => report.ready_frontier # {}

(* A rooted view says of a file that is in the closure as a whole what the *)
(* view of its whole package says of it, provided that the closure spans   *)
(* the packages before its own: an --all run has built their crates, whose *)
(* facts are still in the directory.                                       *)
FromAgreesWithAll ==
  request.kind = "from" /\ baseline # None /\ edits = {} =>
    LET all == port_diff_all(SourceFacts[source], written, native, FALSE)
        judged(entry) == <<entry.band, entry.matched_symbols, entry.evaluable, entry.confirmed,
                           entry.mapped_target, entry.tier_breakdown, entry.contributions>>
        spanned == DOMAIN Packaged(baseline)
    IN  \A p \in {q \in spanned : CratesBefore(q, spanned) = CratesBefore(q, Packages)} :
          LET slice == Packaged(baseline)[p].files
              whole == all.packages[p].files
          IN  \A f \in DOMAIN slice :
                slice[f].total_symbols = whole[f].total_symbols
                  => judged(slice[f]) = judged(whole[f])
=============================================================================
