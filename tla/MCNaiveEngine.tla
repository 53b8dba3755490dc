--------------------------- MODULE MCNaiveEngine ---------------------------
(***************************************************************************)
(* Small instances of NaiveEngine.                                         *)
(***************************************************************************)
EXTENDS NaiveEngine

CONSTANTS
  Small,       \* three symbols: every graph over them
  a, b, c, d,  \* four symbols: every acyclic graph over them
  fs           \* the only effect of the acyclic graphs

Link(p, k) == [caller |-> p[1], callee |-> p[2], kind |-> k,
               resolution |-> IF k = "call" THEN "call" ELSE "reference"]

Pairs == {p \in Small \X Small : p[1] # p[2]}

(* Every mix of calls and signature dependencies, cycles included; one     *)
(* symbol refers to itself as well.                                        *)
MixedGraphs ==
  {{Link(p, "call") : p \in C \ T} \cup {Link(p, "type") : p \in T}
     \cup {Link(<<a, a>>, "reference")} :
     <<C, T>> \in {ct \in (SUBSET Pairs) \X (SUBSET Pairs) : ct[2] \subseteq ct[1]}}

FewRoots == {R \in SUBSET EffectRoot : /\ Cardinality(R) <= 2
                                       /\ \A r \in R : r.symbol \in Small}

(* The four symbols in the order a, b, c, d; roots of one effect anywhere  *)
(* in the last three.                                                      *)
Downhill ==
  {<<a, b>>, <<a, c>>, <<a, d>>, <<b, c>>, <<b, d>>, <<c, d>>}

AcyclicGraphs == {{Link(p, "call") : p \in C} : C \in SUBSET Downhill}

LoneEffectRoots == {{[symbol |-> s, effect |-> fs] : s \in R} : R \in SUBSET {b, c, d}}

EngineFactSets ==
  [edges : MixedGraphs, roots : FewRoots]
    \cup [edges : AcyclicGraphs, roots : LoneEffectRoots]
=============================================================================
