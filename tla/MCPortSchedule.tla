--------------------------- MODULE MCPortSchedule ---------------------------
(***************************************************************************)
(* Small instances of PortSchedule.                                        *)
(***************************************************************************)
EXTENDS PortSchedule

CONSTANTS MaxEdges,   \* how many dependencies between files
          Sizes       \* the lines of code of the files, as sequences

Links == {p \in File \X File : p[1] # p[2]}

Graphs == UNION {kSubset(k, Links) : k \in 0 .. MaxEdges}

(* Every size with coalescing, one without. *)
Projects ==
  [file_deps : Graphs, loc : Sizes, coalesce_small : {TRUE}]
    \cup [file_deps : Graphs, loc : {[f \in File |-> 1]}, coalesce_small : {FALSE}]

SizeProfiles == {[f \in File |-> 1], [f \in File |-> IF f = 2 THEN 3 ELSE 1]}
=============================================================================
