--------------------------- MODULE MCDbspEngine ---------------------------
(***************************************************************************)
(* Small instances of the engine with its evidence walks.                  *)
(***************************************************************************)
EXTENDS ExplainedEngine

CONSTANTS
  Core,        \* the symbols of the graphs in which everything is mixed
  Recursive,   \* the symbols that refer to themselves
  Typed,       \* a symbol with signature dependencies only
  Roots        \* the root of the largest graphs

LinkPairs(S) == {p \in S \X S : p[1] # p[2]}

Link(p, k) == [caller |-> p[1], callee |-> p[2], kind |-> k,
               resolution |-> IF k = "call" THEN "call" ELSE "reference"]

SelfUses == {Link(<<s, s>>, "reference") : s \in Recursive}

(* Every graph of calls and references.                                    *)
CallGraphs ==
  {{Link(p, "call") : p \in C} \cup SelfUses : C \in SUBSET LinkPairs(Core)}

(* Every mix of calls and signature dependencies.                          *)
MixedGraphs ==
  {{Link(p, "call") : p \in C \ T} \cup {Link(p, "type") : p \in T} \cup SelfUses :
     <<C, T>> \in {ct \in (SUBSET LinkPairs(Core)) \X (SUBSET LinkPairs(Core)) :
                     ct[2] \subseteq ct[1]}}

(* Every graph on all symbols, with few kinds.                             *)
WideGraphs ==
  {{Link(p, IF p[1] \in Typed THEN "type" ELSE "call") : p \in C} :
     C \in SUBSET LinkPairs(Symbol)}

RootSets(n) ==
  {R \in SUBSET [symbol : Core, effect : Effect] : Cardinality(R) <= n}

EveryFactSet ==
  [edges : CallGraphs, roots : RootSets(2)]
    \cup [edges : MixedGraphs, roots : RootSets(1) \ {{}}]
    \cup [edges : WideGraphs, roots : {{[symbol |-> s, effect |-> e] : s \in Roots} :
                                        e \in {CHOOSE e \in Effect : TRUE}}]

=============================================================================
