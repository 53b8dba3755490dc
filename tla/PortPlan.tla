------------------------------ MODULE PortPlan ------------------------------
(***************************************************************************)
(* build_plan (crates/hinzu-core/src/plan.rs): the files of a dependency   *)
(* graph are put into groups (a cycle of files is one group, small groups  *)
(* next to each other are merged while nothing becomes cyclic), and the    *)
(* groups into waves.                                                      *)
(*                                                                         *)
(* A file is a number, its place in the order of paths.  The working index *)
(* of a group is opaque to the code but for equality; it is the smallest   *)
(* file of the group it is minted for.                                     *)
(***************************************************************************)
EXTENDS DependencyGraph, Naturals, FiniteSets, FiniteSetsExt

CONSTANTS File,           \* the files of the graph's file rollup
          Project,        \* what may be planned: file_deps, loc, coalesce_small
          max_group_loc   \* PlanOpts

ASSUME FileAssumption == IsFiniteSet(File) /\ File \subseteq Nat
ASSUME ProjectAssumption ==
  Project \subseteq [file_deps : SUBSET (File \X File),
                     loc : [File -> Nat],
                     coalesce_small : BOOLEAN]
ASSUME MaxGroupLocAssumption == max_group_loc \in Nat

VARIABLES
  project,    \* the arguments: the file rollup and the options
  phase,      \* "graph", "coalesce", "layer", "done", "panic"
  groups,     \* working index -> the member files
  group_of,   \* file -> working index
  is_cycle,   \* the groups whose is_cycle flag is set
  pending,    \* topo_waves: group -> unresolved dependencies
  ready,      \* topo_waves: resolvable groups, taken in some order
  wave,       \* topo_waves: resolved group -> its wave
  group_id    \* group -> N of its public id "group:N"

vars == <<project, phase, groups, group_of, is_cycle, pending, ready, wave, group_id>>

file_deps == project.file_deps

(* The dependencies of each file: what the file condensation is built on.  *)
FileDeps == [f \in File |-> {g \in File : <<f, g>> \in file_deps}]

-----------------------------------------------------------------------------
(* group_deps: an edge between files of different groups. *)
group_deps(gs, of, edges) ==
  [g \in DOMAIN gs |->
     {h \in DOMAIN gs \ {g} : \E p \in edges : of[p[1]] = g /\ of[p[2]] = h}]

deps == group_deps(groups, group_of, file_deps)

min_path(g) == Min(groups[g])

group_loc(g) == MapThenSumSet(LAMBDA f : project.loc[f], groups[g])

(* Two groups with the files of h retagged to g. *)
MergedGroups(g, h) ==
  [x \in DOMAIN groups \ {h} |->
     IF x = g THEN groups[g] \cup groups[h] ELSE groups[x]]

Retagged(g, h) ==
  [f \in File |-> IF f \in groups[h] THEN g ELSE group_of[f]]

(* Mutant: only a dependency in both directions is taken for a cycle.      *)
merge_keeps_dag_Pairwise(g, h) ==
  LET merged == group_deps(MergedGroups(g, h), Retagged(g, h), file_deps)
  IN  \A x \in DOMAIN merged : \A y \in merged[x] : x \notin merged[y]

(* topo_waves of the merged groups is Some: every group gets a wave, which *)
(* is so exactly when they are acyclic (see Layered).                      *)
merge_keeps_dag(g, h) ==
  Acyclic(group_deps(MergedGroups(g, h), Retagged(g, h), file_deps))

(* A small group g and a neighbour h it may absorb. *)
CanMerge(g, h) ==
  /\ group_loc(g) < max_group_loc
  /\ h \in deps[g] \/ g \in deps[h]
  /\ group_loc(g) + group_loc(h) < max_group_loc
  /\ merge_keeps_dag(g, h)

(* Candidates in the order of their smallest path, then their neighbours.  *)
IsChosen(g, h) ==
  /\ CanMerge(g, h)
  /\ \A x, y \in DOMAIN groups :
       CanMerge(x, y) =>
         \/ min_path(g) < min_path(x)
         \/ g = x /\ min_path(h) <= min_path(y)

-----------------------------------------------------------------------------
Init ==
  /\ project \in Project
  /\ \A f \in File : <<f, f>> \notin file_deps
  /\ phase = "graph"
  /\ groups = [g \in {} |-> {}]
  /\ group_of = [f \in {} |-> 0]
  /\ is_cycle = {}
  /\ pending = [g \in {} |-> 0]
  /\ ready = {}
  /\ wave = [g \in {} |-> 0]
  /\ group_id = [g \in {} |-> 0]

(* Each of the given cycles is a group, every other file one of its own.   *)
FormGroups(sccs) ==
  LET singles == {{f} : f \in File \ UNION sccs}
      all     == sccs \cup singles
      index   == {Min(G) : G \in all}
  IN  /\ phase = "graph"
      /\ groups' = [g \in index |-> CHOOSE G \in all : g \in G]
      /\ group_of' = [f \in File |-> Min(CHOOSE G \in all : f \in G)]
      /\ is_cycle' = {Min(G) : G \in sccs}
      /\ phase' = "coalesce"
      /\ UNCHANGED <<project, pending, ready, wave, group_id>>

(* The file_sccs of the graph: its cycles of more than one file. *)
file_sccs == {C \in {CycleOf(FileDeps, f) : f \in File} : C # {Min(C)}}

(* Mutant: the cycle flag of the absorbed group is lost.                   *)
Merge_DropsFlag(g, h) ==
  /\ phase = "coalesce"
  /\ project.coalesce_small
  /\ IsChosen(g, h)
  /\ groups' = MergedGroups(g, h)
  /\ group_of' = Retagged(g, h)
  /\ is_cycle' = is_cycle \ {h}
  /\ UNCHANGED <<project, phase, pending, ready, wave, group_id>>

(* An iteration of coalesce that has chosen a pair. *)
Merge(g, h) ==
  /\ phase = "coalesce"
  /\ project.coalesce_small
  /\ IsChosen(g, h)
  /\ groups' = MergedGroups(g, h)
  /\ group_of' = Retagged(g, h)
  /\ is_cycle' = IF h \in is_cycle THEN (is_cycle \ {h}) \cup {g} ELSE is_cycle
  /\ UNCHANGED <<project, phase, pending, ready, wave, group_id>>

(* Nothing (more) to merge: topo_waves counts what each group waits for.   *)
StartLayering ==
  /\ phase = "coalesce"
  /\ project.coalesce_small =>
       \A g, h \in DOMAIN groups : ~CanMerge(g, h)
  /\ pending' = [g \in DOMAIN groups |-> Cardinality(deps[g])]
  /\ ready' = {g \in DOMAIN groups : deps[g] = {}}
  /\ phase' = "layer"
  /\ UNCHANGED <<project, groups, group_of, is_cycle, wave, group_id>>

(* w = 1 + the latest wave of the dependencies, 0 without any. *)
IsWaveAfter(w, D) ==
  /\ \A d \in D : wave[d] < w
  /\ w = 0 \/ \E d \in D : w = wave[d] + 1

(* Mutant: a group is put right behind some dependency, not the latest.    *)
Resolve_AnyDep(g) ==
  /\ phase = "layer"
  /\ g \in ready
  /\ \E w \in 0 .. Cardinality(File) :
       /\ IF deps[g] = {} THEN w = 0 ELSE \E d \in deps[g] : w = wave[d] + 1
       /\ wave' = [x \in DOMAIN wave \cup {g} |-> IF x = g THEN w ELSE wave[x]]
  /\ pending' = [h \in DOMAIN groups |->
                   IF g \in deps[h] THEN pending[h] - 1 ELSE pending[h]]
  /\ ready' = (ready \ {g}) \cup {h \in DOMAIN groups : g \in deps[h] /\ pending[h] = 1}
  /\ UNCHANGED <<project, phase, groups, group_of, is_cycle, group_id>>

(* A ready group gets its wave; who waited for it last becomes ready. *)
Resolve(g) ==
  /\ phase = "layer"
  /\ g \in ready
  /\ \E w \in 0 .. Cardinality(File) :
       /\ IsWaveAfter(w, deps[g])
       /\ wave' = [x \in DOMAIN wave \cup {g} |-> IF x = g THEN w ELSE wave[x]]
  /\ pending' = [h \in DOMAIN groups |->
                   IF g \in deps[h] THEN pending[h] - 1 ELSE pending[h]]
  /\ ready' = (ready \ {g}) \cup {h \in DOMAIN groups : g \in deps[h] /\ pending[h] = 1}
  /\ UNCHANGED <<project, phase, groups, group_of, is_cycle, group_id>>

(* Mutant: the public ids follow the paths only.                           *)
ComesBefore_PathOnly(g, h) == min_path(g) < min_path(h)

(* The order of the public ids: by wave, then by smallest path. *)
ComesBefore(g, h) ==
  \/ wave[g] < wave[h]
  \/ wave[g] = wave[h] /\ min_path(g) < min_path(h)

(* .expect("group condensation is a DAG"), then the ids. *)
Number ==
  /\ phase = "layer"
  /\ ready = {}
  /\ IF DOMAIN wave = DOMAIN groups
     THEN /\ group_id' = [g \in DOMAIN groups |->
                            Cardinality({h \in DOMAIN groups : ComesBefore(h, g)})]
          /\ phase' = "done"
     ELSE phase' = "panic" /\ UNCHANGED group_id
  /\ UNCHANGED <<project, groups, group_of, is_cycle, pending, ready, wave>>

Next ==
  \/ FormGroups(file_sccs)
  \/ \E g, h \in DOMAIN groups : Merge(g, h)
  \/ StartLayering
  \/ \E g \in ready : Resolve(g)
  \/ Number

Spec == Init /\ [][Next]_vars /\ WF_vars(Next)

-----------------------------------------------------------------------------
Index == DOMAIN groups

TypeOK ==
  /\ project \in Project
  /\ phase \in {"graph", "coalesce", "layer", "done", "panic"}
  /\ Index \subseteq File
  /\ groups \in [Index -> SUBSET File]
  /\ phase # "graph" => group_of \in [File -> Index]
  /\ is_cycle \subseteq Index
  /\ DOMAIN wave \subseteq Index
  /\ wave \in [DOMAIN wave -> Nat]
  /\ phase \in {"layer", "done", "panic"} => pending \in [Index -> Nat]
  /\ ready \subseteq Index
  /\ phase = "done" => group_id \in [Index -> Nat]

(* The two maps of the code agree in every step of the merging: each file  *)
(* is in exactly one group, the one group_of names.                        *)
GroupsPartition ==
  phase # "graph" =>
    /\ \A g \in Index : groups[g] = {f \in File : group_of[f] = g}
    /\ \A g \in Index : groups[g] # {}

(* "Files in the same file-level dependency cycle must share a group", and *)
(* merging never breaks them up.                                           *)
CyclesStayTogether ==
  phase # "graph" =>
    \A f \in File : \A g \in CycleOf(FileDeps, f) : group_of[f] = group_of[g]

(* The reason "cycle" is reported exactly for the groups that hold one.    *)
CycleFlagHonest ==
  phase # "graph" =>
    \A g \in Index :
      g \in is_cycle <=> \E f \in groups[g] : CycleOf(FileDeps, f) # {f}

(* "Two groups are never merged if the union would reach" the ceiling: a   *)
(* group at or above it is one cycle or one file.                          *)
SizeLimit ==
  phase # "graph" =>
    \A g \in Index :
      group_loc(g) >= max_group_loc =>
        \A f \in groups[g] : groups[g] = CycleOf(FileDeps, f)

(* What a group claims is so, through all merging: every file is in the one*)
(* group it is tagged with, a cycle is flagged and a flag means a cycle,   *)
(* and only a cycle or a single file reaches the ceiling.                  *)
GroupsHonest == GroupsPartition /\ CycleFlagHonest /\ SizeLimit

(* A resolved group comes strictly after everything it depends on, in the  *)
(* earliest wave this allows: each wave is what the previous ones unlock.  *)
WavesFollowDeps ==
  \A g \in DOMAIN wave :
    /\ deps[g] \subseteq DOMAIN wave
    /\ IsWaveAfter(wave[g], deps[g])

(* The expect of build_plan never fires. *)
NeverPanics == phase # "panic"

(* Porting group by group in the order of the public ids, no file is ever  *)
(* ported before one it depends on, unless the two share a group; and no   *)
(* id is used twice.                                                       *)
IdsArePortOrder ==
  phase = "done" =>
    /\ \A g, h \in Index : group_id[g] = group_id[h] => g = h
    /\ \A p \in file_deps :
         \/ group_of[p[1]] = group_of[p[2]]
         \/ group_id[group_of[p[2]]] < group_id[group_of[p[1]]]
=============================================================================
