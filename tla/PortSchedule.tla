---------------------------- MODULE PortSchedule ----------------------------
(***************************************************************************)
(* The plan command: the condensation of the file graph is computed by the *)
(* search of StrongComponents (condense, called by assemble_graph), and    *)
(* what it emits is what PortPlan forms its groups from.                   *)
(***************************************************************************)
EXTENDS PortPlan, Sequences

VARIABLES counter, index, lowlink, on_stack, tarjan_stack, work, components

search_vars ==
  <<counter, index, lowlink, on_stack, tarjan_stack, work, components>>

Search == INSTANCE StrongComponents WITH Node <- File, adj <- FileDeps

(* condense: the components of more than one node. *)
reported_groups ==
  {components[i] : i \in {j \in DOMAIN components : Cardinality(components[j]) > 1}}

ScheduleInit == Init /\ Search!Init

SearchStep == UNCHANGED vars /\ Search!Next

(* assemble_graph has finished, build_plan starts. *)
HandOver ==
  /\ Search!Finished
  /\ FormGroups(reported_groups)
  /\ UNCHANGED search_vars

PlanStep ==
  /\ \/ \E g, h \in DOMAIN groups : Merge(g, h)
     \/ StartLayering
     \/ \E g \in ready : Resolve(g)
     \/ Number
  /\ UNCHANGED search_vars

ScheduleNext == SearchStep \/ HandOver \/ PlanStep

ScheduleSpec ==
  ScheduleInit /\ [][ScheduleNext]_<<vars, search_vars>>
               /\ WF_<<vars, search_vars>>(ScheduleNext)

-----------------------------------------------------------------------------
(* A component is emitted after everything it depends on, which is what    *)
(* layering and closure count on (graph/mod.rs: "The returned components   *)
(* are in **dependencies-first** order").                                  *)
DependenciesFirst == Search!DependenciesFirst

(* Planned from what the search emits, a plan is one that PortPlan allows: *)
(* its groups start out as the cycles of the graph, and it is made.        *)
ImplementsPortPlan == Init /\ [][Next]_vars /\ <>(phase = "done")
=============================================================================
