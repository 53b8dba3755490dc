------------------------------ MODULE PortReport ----------------------------
(***************************************************************************)
(* The port-progress report of a package, of all packages, and the         *)
(* difference between two of them (crates/hinzu-core/src/portdiff).        *)
(*                                                                         *)
(* A list of the report that is indexed by a path, a wave or a pair of     *)
(* files is a function; the order in which it is printed is left out, and  *)
(* so are percentages.                                                     *)
(***************************************************************************)
EXTENDS PortMatch, Integers

Bands == {"DONE", "PORTED", "RELOCATED", "STARTED", "NOT-STARTED"}

ASSUME BandsAssumption ==
  None \notin Bands \cup {"exact", "exact-subtree", "graph-cluster"}

MatchTiers == {"exact_module", "subtree", "global_name", "unmatched"}

(* How many of the files of S are in each band. *)
BandCounts(band_of, S) == [b \in Bands |-> Cardinality({p \in S : band_of[p] = b})]

TierCounts(matches, S) == [t \in MatchTiers |-> Cardinality({n \in S : matches[n].tier = t})]

-----------------------------------------------------------------------------
classify_band(is_native, total, matched, has_mapped, rules) ==
  IF is_native THEN "DONE"
  ELSE IF total > 0 /\ rules.ported_threshold[2] * matched >= rules.ported_threshold[1] * total
  THEN "PORTED"
  ELSE IF matched >= 1 \/ has_mapped THEN "STARTED" ELSE "NOT-STARTED"

(* A port that went mostly into a secondary crate. *)
IsRelocated(resolved, index, matches) ==
  2 * Cardinality({n \in resolved : ~ index[matches[n].at].primary}) > Cardinality(resolved)

(* One row for every target file that the resolved symbols landed in.      *)
target_file_contributions(resolved, index, matches) ==
  LET into(f) == {n \in resolved : index[matches[n].at].file = f}
      strong(f) == {n \in into(f) : matches[n].tier \in {"exact_module", "subtree"}}
  IN  [f \in {index[matches[n].at].file : n \in resolved} |->
         [strong_matched |-> Cardinality(strong(f)), total_matched |-> Cardinality(into(f))]]

(* The row of one source file; a file has a method if it has a subtree.   *)
FileEntry(syms, is_native, mapped, fan_in, index, matches, confirm, rules) ==
  LET resolved  == {n \in syms : matches[n].tier # "unmatched"}
      evaluable == {n \in resolved : confirm[n].evaluable}
      band == classify_band(is_native, Cardinality(syms), Cardinality(resolved),
                            mapped.method # None, rules)
  IN  [band |-> IF band \in {"PORTED", "STARTED"} /\ IsRelocated(resolved, index, matches)
                THEN "RELOCATED" ELSE band,
       total_symbols |-> Cardinality(syms),
       matched_symbols |-> Cardinality(resolved),
       evaluable |-> Cardinality(evaluable),
       confirmed |-> Cardinality({n \in evaluable : confirm[n].confirmed}),
       mapped_target |-> mapped.subtree,
       map_method |-> mapped.method,
       contributions |-> target_file_contributions(resolved, index, matches),
       tier_breakdown |-> TierCounts(matches, syms),
       fan_in |-> fan_in]

(* The files of each wave of the plan that has any. *)
WaveBands(files, wave_of) ==
  LET in(w) == {p \in DOMAIN files : wave_of[p] = w}
  IN  [w \in {wave_of[p] : p \in DOMAIN files} |->
         [files |-> Cardinality(in(w)),
          bands |-> BandCounts([p \in DOMAIN files |-> files[p].band], in(w)),
          symbols_total |-> SumFunction([p \in in(w) |-> files[p].total_symbols]),
          symbols_matched |-> SumFunction([p \in in(w) |-> files[p].matched_symbols])]]

SourceDeps(p, source_graph, files) ==
  {q \in DOMAIN files : q # p /\ <<p, q>> \in DOMAIN source_graph.file_edges}

(* Mutant: what was relocated is not offered again. *)
IsReady_NotRelocated(p, source_graph, files) ==
  /\ files[p].band \notin {"DONE", "PORTED", "RELOCATED"}
  /\ \A q \in SourceDeps(p, source_graph, files) : files[q].band \in {"DONE", "PORTED"}

IsReady(p, source_graph, files) ==
  /\ files[p].band \notin {"DONE", "PORTED"}
  /\ \A q \in SourceDeps(p, source_graph, files) : files[q].band \in {"DONE", "PORTED"}

naive_vs_graph(files) ==
  [naive_files_matched |-> Cardinality({p \in DOMAIN files : files[p].map_method = "exact"}),
   graph_files_matched |-> Cardinality({p \in DOMAIN files : files[p].band # "NOT-STARTED"}),
   recovered_files |-> {p \in DOMAIN files :
                          files[p].map_method \in {"graph-cluster", "exact-subtree"}}]

-----------------------------------------------------------------------------
is_substantial(c) ==
  \/ c.strong_matched >= 2
  \/ c.total_matched >= 3 /\ c.strong_matched >= 1
  \/ c.total_matched >= 4

crate_of(target_file) ==
  IF Len(target_file) > 1 /\ target_file[1] = "crates" THEN target_file[2] ELSE None

contributions_from_files(files, package) ==
  UNION {{[source_file |-> p, package |-> package, target_file |-> t,
           strong_matched |-> files[p].contributions[t].strong_matched,
           total_matched |-> files[p].contributions[t].total_matched] :
             t \in DOMAIN files[p].contributions} : p \in DOMAIN files}

(* The package that most of the contributions to a crate come from; the    *)
(* first by name of several.                                               *)
Plurality(substantial, crate) ==
  LET into == {c \in substantial : c.package # None /\ crate_of(c.target_file) = crate}
      share(p) == Cardinality({c \in into : c.package = p})
      most == {c.package : c \in {x \in into : \A y \in into : share(x.package) >= share(y.package)}}
  IN  CHOOSE p \in most : \A q \in most \ {p} : Precedes(<<p>>, <<q>>)

(* owning_override: a partial function from crates to packages.            *)
owning(substantial, owning_override, crate) ==
  IF crate \in DOMAIN owning_override THEN owning_override[crate]
  ELSE Plurality(substantial, crate)

(* Distinct source files only: of one path in two packages the first       *)
(* package's stays (the contributions come package by package).            *)
DistinctSources(cs) ==
  {c \in cs : \A d \in cs : d.source_file = c.source_file /\ d # c
                              => Precedes(<<c.package>>, <<d.package>>)}

from_contributions(contributions, owning_override) ==
  LET substantial == {c \in contributions : is_substantial(c)}
      into(t) == DistinctSources({c \in substantial : c.target_file = t})
      merged == {t \in {c.target_file : c \in substantial} : Cardinality(into(t)) >= 2}
      owner(c) == owning(substantial, owning_override, crate_of(c.target_file))
      placed == {c \in substantial : c.package # None /\ crate_of(c.target_file) # None}
  IN  [file_merges |->
         [t \in merged |->
            [contributors |-> into(t),
             cross_package |-> Cardinality({c.package : c \in into(t)} \ {None}) >= 2]],
       misplacements |-> {c \in placed : owner(c) # c.package}]

-----------------------------------------------------------------------------
(* wave_of: the wave of every file of the plan.  The ready frontier is     *)
(* printed up to its first 25 files.                                       *)
PortDiffReport(source_graph, wave_of, matches, confirm, files, rules) ==
  LET own == {crate_of(x) : x \in ToSet(rules.target_src_prefix)}
  IN  [overall |->
         [source_files_total |-> Cardinality(DOMAIN files),
          symbols_total |-> Cardinality(DOMAIN matches),
          symbols_synthetic_excluded |-> Cardinality(SyntheticExcluded(source_graph, rules)),
          symbols_matched |-> Cardinality(DOMAIN confirm),
          tier_counts |-> TierCounts(matches, DOMAIN matches),
          evaluable |-> Cardinality({n \in DOMAIN confirm : confirm[n].evaluable}),
          confirmed |-> Cardinality({n \in DOMAIN confirm : confirm[n].confirmed}),
          bands |-> BandCounts([p \in DOMAIN files |-> files[p].band], DOMAIN files)],
       files |-> files,
       waves |-> WaveBands(files, wave_of),
       ready_frontier |-> {p \in DOMAIN files : IsReady(p, source_graph, files)},
       naive_vs_graph |-> naive_vs_graph(files),
       native_modules |-> Cardinality(rules.native_files),
       merges |-> from_contributions(
                    contributions_from_files(files, rules.package),
                    [c \in own |-> rules.package])]

(* One pass after the other, each over the results of those before.        *)
port_diff(source_graph, wave_of, target_graph, rules) ==
  LET SymbolsOf(matches, p) == {n \in DOMAIN matches : source_graph.symbols[n].meta.file = p}
      Judge(index, map, matches, confirm) ==
        PortDiffReport(source_graph, wave_of, matches, confirm,
                       Table([p \in DOMAIN map |->
                          FileEntry(SymbolsOf(matches, p), p \in rules.native_files, map[p],
                                    source_graph.files[p].fan_in, index, matches, confirm, rules)]),
                       rules)
      Confirm(index, map, matches) ==
        Judge(index, map, matches, GraphConfirm(source_graph, target_graph, index, matches, rules))
      Match(index, map) == Confirm(index, map, Matches(source_graph, index, map, rules))
      Map(index) == Match(index, FileMap(source_graph, index, rules))
  IN  Map(TargetIndex(target_graph, rules))

-----------------------------------------------------------------------------
add_reports(reports) ==
  LET overall == [p \in DOMAIN reports |-> reports[p].overall]
      total(field) == SumFunction([p \in DOMAIN reports |-> overall[p][field]])
  IN  [source_files_total |-> total("source_files_total"),
       bands |-> [b \in Bands |-> SumFunction([p \in DOMAIN reports |-> overall[p].bands[b]])],
       symbols_total |-> total("symbols_total"),
       symbols_matched |-> total("symbols_matched"),
       conformance_native |-> SumFunction([p \in DOMAIN reports |-> reports[p].native_modules])]

(* reports: a function from packages.  MultiPackageReport.                 *)
aggregate(reports, owning_override) ==
  [packages |-> reports,
   totals |-> add_reports(reports),
   merges |-> from_contributions(
                UNION {contributions_from_files(reports[p].files, p) : p \in DOMAIN reports},
                owning_override)]

(* RootedCrossPackageReport. *)
rooted_aggregate(roots, closure, slices) ==
  [roots |-> roots,
   closure_symbols |-> Cardinality({n \in DOMAIN closure.symbols : ~ closure.symbols[n].external}),
   closure_files |-> Cardinality(DOMAIN closure.files),
   packages |-> slices,
   totals |-> add_reports(slices)]

-----------------------------------------------------------------------------
band_rank(b) ==
  CASE b = "NOT-STARTED" -> 0 [] b = "STARTED" -> 1 [] b = "RELOCATED" -> 2
    [] b = "PORTED" -> 3 [] b = "DONE" -> 4

(* One row for every file of either report; None: not in that report.      *)
diff_file_lists(baseline, current) ==
  LET band(files, p) == IF p \in DOMAIN files THEN files[p].band ELSE None
      Direction(b, c) ==
        CASE b = None -> "added"
          [] c = None -> "removed"
          [] OTHER -> IF band_rank(c) > band_rank(b) THEN "advanced"
                      ELSE IF band_rank(c) < band_rank(b) THEN "regressed" ELSE "unchanged"
  IN  Table([p \in DOMAIN baseline \cup DOMAIN current |->
         [band_before |-> band(baseline, p), band_after |-> band(current, p),
          direction |-> Direction(band(baseline, p), band(current, p))]])

(* Mutant: removed files do not count against their band.                  *)
band_net_movement_NoRemoved(rows) ==
  [b \in Bands |->
     Cardinality({p \in DOMAIN rows : rows[p].band_after = b})
     - Cardinality({p \in DOMAIN rows : rows[p].band_before = b /\ rows[p].band_after # None})]

band_net_movement(rows) ==
  [b \in Bands |->
     Cardinality({p \in DOMAIN rows : rows[p].band_after = b})
     - Cardinality({p \in DOMAIN rows : rows[p].band_before = b})]

totals_from(rows, before, after) ==
  LET directed(d) == {p \in DOMAIN rows : rows[p].direction = d}
      moved == directed("advanced") \cup directed("regressed")
  IN  [direction |-> [d \in {"advanced", "regressed", "unchanged", "added", "removed"} |->
                        Cardinality(directed(d))],
       transitions |-> [bc \in {<<rows[p].band_before, rows[p].band_after>> : p \in moved} |->
                          Cardinality({p \in moved :
                                         <<rows[p].band_before, rows[p].band_after>> = bc})],
       band_net_movement |-> band_net_movement(rows),
       symbols_matched_delta |-> after - before]

verdict(totals) ==
  CASE totals.direction["advanced"] > 0 -> IF totals.direction["regressed"] > 0 THEN "mixed" ELSE "forward"
    [] OTHER -> IF totals.direction["regressed"] > 0 THEN "backward" ELSE "no_change"

finish(rows, totals) == [verdict |-> verdict(totals), totals |-> totals, files |-> rows]

diff_reports(baseline, current) ==
  LET rows == diff_file_lists(baseline.files, current.files)
  IN  finish(rows, totals_from(rows, baseline.overall.symbols_matched,
                               current.overall.symbols_matched))

(* Packages are paired by name; one that a side lacks is empty there.      *)
diff_packaged(baseline, current) ==
  LET files(reports, p) == IF p \in DOMAIN reports THEN reports[p].files ELSE <<>>
      rows(p) == diff_file_lists(files(baseline, p), files(current, p))
      of == Table([p \in DOMAIN baseline \cup DOMAIN current |-> rows(p)])
      pairs == UNION {{<<p, f>> : f \in DOMAIN of[p]} : p \in DOMAIN of}
  IN  Table([pf \in pairs |-> of[pf[1]][pf[2]]])

diff_multi_reports(baseline, current) ==
  LET rows == diff_packaged(baseline.packages, current.packages)
  IN  finish(rows, totals_from(rows, baseline.totals.symbols_matched,
                               current.totals.symbols_matched))

(* Of a rooted report too only the packages and the totals are read.       *)
diff_cross_reports(baseline, current) == diff_multi_reports(baseline, current)
=============================================================================
