---------------------------- MODULE NaiveEngine ----------------------------
(***************************************************************************)
(* NaiveEngine, the reference engine: the free function `propagate` of     *)
(* crates/hinzu-core/src/effects.rs, a multi-source worklist search over   *)
(* the reverse call/use graph.                                             *)
(*                                                                         *)
(* One action per iteration of its two loops: SeedRoot for the seeding     *)
(* loop, PopFront for the worklist loop (all callers of the popped symbol  *)
(* are updated from one snapshot), Return when the worklist has drained.   *)
(* The code walks the roots, and the callers of a symbol, in the order     *)
(* the fact vectors list them; the adapter chooses that order, so the      *)
(* model allows every order.                                               *)
(***************************************************************************)
EXTENDS FactGraph, FiniteSets

CONSTANTS FactSets,   \* the fact sets the engine may be asked about
          Pending     \* the caller of the engine has no result yet

ASSUME FactsAssumption == FactSets \subseteq FactSet
ASSUME FiniteAssumption == IsFiniteSet(Symbol) /\ IsFiniteSet(Effect)
ASSUME PendingAssumption == Pending \notin EffectSummaries

VARIABLES
  facts,      \* the argument: &FactSet
  unseeded,   \* the roots the seeding loop has not visited
  effects,    \* summaries[s].effects, {} when s has no summary
  evidence,   \* summaries[s].evidence[e], <<>> when there is none
  work,       \* the VecDeque of symbols whose callers must be revisited
  returned    \* propagate has returned

vars == <<facts, unseeded, effects, evidence, work, returned>>

TypeOK ==
  /\ facts \in FactSet
  /\ unseeded \subseteq facts.roots
  /\ effects \in [Symbol -> SUBSET Effect]
  /\ evidence \in [Symbol -> [Effect -> Seq(Symbol)]]
  /\ work \in Seq(Symbol)
  /\ returned \in BOOLEAN

-----------------------------------------------------------------------------
Init ==
  /\ facts \in FactSets
  /\ unseeded = facts.roots
  /\ effects = [s \in Symbol |-> {}]
  /\ evidence = [s \in Symbol |-> [e \in Effect |-> <<>>]]
  /\ work = <<>>
  /\ returned = FALSE

(* Mutant: a symbol that already has a summary is not seeded again.        *)
SeedRoot_OncePerSymbol(r) ==
  /\ r \in unseeded
  /\ unseeded' = unseeded \ {r}
  /\ IF effects[r.symbol] # {}
     THEN UNCHANGED <<effects, evidence, work>>
     ELSE /\ effects' = [effects EXCEPT ![r.symbol] = {r.effect}]
          /\ evidence' = [evidence EXCEPT ![r.symbol][r.effect] = <<r.symbol>>]
          /\ work' = Append(work, r.symbol)
  /\ UNCHANGED <<facts, returned>>

(* Seed the summary of a root's symbol with its effect and the one-symbol  *)
(* path, and enqueue the symbol, even when the effect was there already.   *)
SeedRoot(r) ==
  /\ r \in unseeded
  /\ unseeded' = unseeded \ {r}
  /\ effects' = [effects EXCEPT ![r.symbol] = @ \cup {r.effect}]
  /\ evidence' = IF r.effect \in effects[r.symbol]
                 THEN evidence
                 ELSE [evidence EXCEPT ![r.symbol][r.effect] = <<r.symbol>>]
  /\ work' = Append(work, r.symbol)
  /\ UNCHANGED <<facts, returned>>

(* Mutant: only a caller without a summary is queued.                      *)
Learners_Newcomers(sym) ==
  {c \in callers_of(facts, sym) : effects[c] = {} /\ effects[sym] # {}}

(* The callers that learn an effect from sym: `changed` in the inner loop. *)
Learners(sym) ==
  {c \in callers_of(facts, sym) : ~ (effects[sym] \subseteq effects[c])}

(* Every order in which a finite set can be pushed, each member once.      *)
Orders(S) ==
  {q \in [1 .. Cardinality(S) -> S] : \A s \in S : \E i \in DOMAIN q : q[i] = s}

(* Mutant: the caller is put at the wrong end of the path.                 *)
ExtendedEvidence_Appended(sym) ==
  [c \in Symbol |->
    [e \in Effect |->
      IF c \in callers_of(facts, sym) /\ e \in effects[sym] \ effects[c]
      THEN evidence[sym][e] \o <<c>>
      ELSE evidence[c][e]]]

(* Mutant: the latest path found replaces the first.                       *)
ExtendedEvidence_Overwritten(sym) ==
  [c \in Symbol |->
    [e \in Effect |->
      IF c \in callers_of(facts, sym) /\ e \in effects[sym]
      THEN <<c>> \o evidence[sym][e]
      ELSE evidence[c][e]]]

(* What a caller's evidence becomes: the first path found is kept.         *)
ExtendedEvidence(sym) ==
  [c \in Symbol |->
    [e \in Effect |->
      IF /\ c \in callers_of(facts, sym)
         /\ e \in effects[sym] \ effects[c]
      THEN <<c>> \o evidence[sym][e]
      ELSE evidence[c][e]]]

(* One iteration of the worklist loop.                                     *)
PopFront ==
  /\ unseeded = {}
  /\ work # <<>>
  /\ LET sym == Head(work)
     IN  /\ effects' = [c \in Symbol |->
                          IF c \in callers_of(facts, sym)
                          THEN effects[c] \cup effects[sym]
                          ELSE effects[c]]
         /\ evidence' = ExtendedEvidence(sym)
         /\ \E pushed \in Orders(Learners(sym)) : work' = Tail(work) \o pushed
  /\ UNCHANGED <<facts, unseeded, returned>>

Return ==
  /\ unseeded = {}
  /\ work = <<>>
  /\ ~ returned
  /\ returned' = TRUE
  /\ UNCHANGED <<facts, unseeded, effects, evidence, work>>

Next ==
  \/ \E r \in unseeded : SeedRoot(r)
  \/ PopFront
  \/ Return

(* A single-threaded function runs until it returns.                       *)
Spec == Init /\ [][Next]_vars /\ WF_vars(Next)

-----------------------------------------------------------------------------
(* Everything a summary claims is backed: for each reported effect the     *)
(* evidence is a chain of uses from the symbol to a root of that effect,   *)
(* at every moment of the search, and an unreported effect has no          *)
(* evidence.  (effects.rs: "each with one evidence path: the caller chain  *)
(* from this callable down to the effectful root".)                        *)
EvidenceSound ==
  \A s \in Symbol, e \in Effect :
    IF e \in effects[s]
    THEN IsEvidencePath(facts, s, e, evidence[s][e])
    ELSE evidence[s][e] = <<>>

(* An evidence path never goes round a cycle of the call graph: no symbol  *)
(* occurs twice on it, whatever order the worklist took.                   *)
EvidenceAcyclic ==
  \A s \in Symbol, e \in Effect :
    LET path == evidence[s][e]
    IN  \A i, j \in 1 .. Len(path) : path[i] = path[j] => i = j

(* Nothing is forgotten: a caller that lacks an effect of its callee has   *)
(* the callee still queued, and a root not yet reflected in its own        *)
(* summary is still to be seeded.                                          *)
WorklistCovers ==
  /\ \A s \in Symbol : \A c \in callers_of(facts, s) :
       effects[s] \subseteq effects[c] \/ \E i \in 1 .. Len(work) : work[i] = s
  /\ \A r \in facts.roots \ unseeded : r.effect \in effects[r.symbol]

(* When it returns, the engine reports the least fixed point: every effect *)
(* reachable through carrying edges, and none through Type edges alone.    *)
ReturnsClosure ==
  returned => effects = CarriedEffects(facts)

(* The engine keeps the promise of the trait.                              *)
Abstract == INSTANCE EffectEngine WITH
  report <- IF returned THEN [effects |-> effects, evidence |-> evidence]
            ELSE Pending
ImplementsTrait == Abstract!Spec
=============================================================================
