----------------------------- MODULE DbspEngine -----------------------------
(***************************************************************************)
(* DbspEngine (crates/hinzu-dbsp/src/lib.rs): the engine the command line  *)
(* runs by default.  A recursive circuit computes the set of               *)
(* <<function, effect>> pairs, then each pair is given an evidence path by *)
(* shortest_path_to_roots.                                                 *)
(*                                                                         *)
(* The circuit itself is the DBSP library: it is modelled as the rounds of *)
(* its recursive scope, one action per round, until a round adds nothing.  *)
(* The walk is modelled by what EvidenceWalk shows of it: some shortest    *)
(* path along the forward adjacency, or None when there is none.           *)
(***************************************************************************)
EXTENDS FactGraph, FiniteSets

CONSTANTS FactSets,   \* the fact sets the engine may be asked about
          Pending     \* the caller of the engine has no result yet

ASSUME FactsAssumption == FactSets \subseteq FactSet
ASSUME FiniteAssumption == IsFiniteSet(Symbol) /\ IsFiniteSet(Effect)
ASSUME PendingAssumption == Pending \notin EffectSummaries

VARIABLES
  facts,       \* the argument: &FactSet
  phase,       \* "load", "iterate", "attach", "returned"
  edge_set,    \* the (caller, callee) pairs fed to the circuit
  pairs,       \* the (func, effect) relation, then effect_pairs' result
  unattached,  \* the pairs summaries_from_pairs has not visited
  effects,     \* summaries[s].effects
  evidence     \* summaries[s].evidence[e], <<>> when there is none

vars == <<facts, phase, edge_set, pairs, unattached, effects, evidence>>

TypeOK ==
  /\ facts \in FactSet
  /\ phase \in {"load", "iterate", "attach", "returned"}
  /\ edge_set \subseteq Symbol \X Symbol
  /\ pairs \subseteq Symbol \X Effect
  /\ unattached \subseteq pairs
  /\ effects \in [Symbol -> SUBSET Effect]
  /\ evidence \in [Symbol -> [Effect -> Seq(Symbol)]]

-----------------------------------------------------------------------------
Init ==
  /\ facts \in FactSets
  /\ phase = "load"
  /\ edge_set = {}
  /\ pairs = {}
  /\ unattached = {}
  /\ effects = [s \in Symbol |-> {}]
  /\ evidence = [s \in Symbol |-> [e \in Effect |-> <<>>]]

(* The edge input of the circuit, deduplicated.  The loop of effect_pairs  *)
(* runs over all facts.edges: it does not ask whether an edge carries      *)
(* effects.                                                                *)
CircuitEdges(fs) == {<<e.caller, e.callee>> : e \in fs.edges}

LoadInputs ==
  /\ phase = "load"
  /\ edge_set' = CircuitEdges(facts)
  /\ phase' = "iterate"
  /\ UNCHANGED <<facts, pairs, unattached, effects, evidence>>

(* Mutant: the edges are indexed by caller: effects flow to the callees.   *)
Round_Forward(P) ==
  {q \in Symbol \X Effect :
     \E caller \in Symbol : <<caller, q[1]>> \in edge_set /\ <<caller, q[2]>> \in P}
    \cup {<<r.symbol, r.effect>> : r \in facts.roots}

(* build_circuit: join on callee = func, union with the roots, distinct.   *)
Round(P) ==
  {q \in Symbol \X Effect :
     \E callee \in Symbol : <<q[1], callee>> \in edge_set /\ <<callee, q[2]>> \in P}
    \cup {<<r.symbol, r.effect>> : r \in facts.roots}

(* Mutant: the recursive scope is evaluated once.                          *)
Iterate_Once ==
  /\ phase = "iterate"
  /\ pairs' = Round(pairs)
  /\ phase' = "attach"
  /\ unattached' = pairs'
  /\ UNCHANGED <<facts, edge_set, effects, evidence>>

Iterate ==
  /\ phase = "iterate"
  /\ pairs' = Round(pairs)
  /\ IF pairs' = pairs
     THEN phase' = "attach" /\ unattached' = pairs
     ELSE UNCHANGED <<phase, unattached>>
  /\ UNCHANGED <<facts, edge_set, effects, evidence>>

(* What shortest_path_to_roots may return for func and an effect: the      *)
(* empty path stands for None.                                             *)
UsePaths(fs, func, targets) ==
  {p \in UNION {[1 .. n -> Symbol] : n \in 1 .. Cardinality(Symbol)} :
     /\ p[1] = func
     /\ p[Len(p)] \in targets
     /\ \A i \in 1 .. Len(p) - 1 : p[i + 1] \in uses_of(fs, p[i])}

shortest_path_to_roots(fs, func, targets) ==
  LET paths == UsePaths(fs, func, targets)
  IN  IF paths = {} THEN {<<>>}
      ELSE {p \in paths : \A q \in paths : Len(p) <= Len(q)}

(* One iteration of summaries_from_pairs.                                  *)
Attach(pair) ==
  LET func == pair[1]
      eff  == pair[2]
  IN  /\ phase = "attach"
      /\ pair \in unattached
      /\ unattached' = unattached \ {pair}
      /\ effects' = [effects EXCEPT ![func] = @ \cup {eff}]
      /\ \E path \in shortest_path_to_roots(facts, func, RootsOf(facts, eff)) :
           evidence' = [evidence EXCEPT ![func][eff] = path]
      /\ UNCHANGED <<facts, phase, edge_set, pairs>>

Return ==
  /\ phase = "attach"
  /\ unattached = {}
  /\ phase' = "returned"
  /\ UNCHANGED <<facts, edge_set, pairs, unattached, effects, evidence>>

Next ==
  \/ LoadInputs
  \/ Iterate
  \/ \E pair \in unattached : Attach(pair)
  \/ Return

(* A single-threaded function runs until it returns.                       *)
Spec == Init /\ [][Next]_vars /\ WF_vars(Next)

-----------------------------------------------------------------------------
returned == phase = "returned"

(* The engine fails closed: whatever the facts, and although the evidence  *)
(* walk may find nothing, every effect a symbol carries is in its set.     *)
NeverUnderReports ==
  returned => \A s \in Symbol, e \in Effect : Carries(facts, s, e) => e \in effects[s]

(* An evidence path is attached exactly to the effects that a symbol       *)
(* really carries, whatever pairs the circuit derived: evidence is drawn   *)
(* from the forward adjacency, which leaves Type edges out.                *)
EvidenceIffCarried ==
  returned => \A s \in Symbol, e \in Effect :
    IF Carries(facts, s, e)
    THEN IsEvidencePath(facts, s, e, evidence[s][e])
    ELSE evidence[s][e] = <<>>

(* The effect set of every symbol is the reference engine's (the tests of  *)
(* hinzu-dbsp: "The effect *set* per function must match the reference     *)
(* engine exactly").                                                       *)
MatchesReference ==
  returned => effects = CarriedEffects(facts)

(* On facts without signature dependencies the engine keeps the promise of *)
(* the trait: the report it returns is the closure, with honest evidence;  *)
(* and whatever the facts, it returns.                                     *)
CallsOnly == \A x \in facts.edges : x.kind # "type"
Abstract == INSTANCE EffectEngine WITH
  report <- IF returned /\ CallsOnly
            THEN [effects |-> effects, evidence |-> evidence]
            ELSE Pending
ImplementsTrait ==
  Abstract!Init /\ [][Abstract!Next]_(Abstract!vars) /\ <>returned
=============================================================================
