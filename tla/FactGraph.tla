----------------------------- MODULE FactGraph -----------------------------
(***************************************************************************)
(* The fact schema (crates/hinzu-core/src/facts.rs) as far as effect       *)
(* propagation reads it, and what "transitively reachable effect" means.   *)
(*                                                                         *)
(* A fact set holds edges "caller uses callee" and roots "this symbol      *)
(* performs this effect".  Symbols and effects are opaque values; the      *)
(* order and multiplicity of the two vectors of the code are abstracted    *)
(* to sets: the engines that read them are specified for every order.      *)
(***************************************************************************)
EXTENDS Naturals, Sequences

CONSTANTS Symbol,   \* SymbolId: the callables and the types of a program
          Effect    \* the effect categories, Unknown among them

(* enum EdgeKind *)
EdgeKind == {"call", "reference", "type"}

(* EdgeKind::carries_effects *)
carries_effects(kind) == kind \in {"call", "reference"}

(* enum EdgeResolution: how the adapter resolved an edge *)
EdgeResolution == {"call", "reference", "value-flow", "unresolved"}

(* struct Edge, struct EffectRoot, struct FactSet *)
Edge == [caller : Symbol, callee : Symbol, kind : EdgeKind,
         resolution : EdgeResolution]
EffectRoot == [symbol : Symbol, effect : Effect]
FactSet == [edges : SUBSET Edge, roots : SUBSET EffectRoot]

(* EffectSummary for every symbol: an absent summary is one without        *)
(* effects, an absent evidence entry the empty path.                       *)
EffectSummaries == [effects  : [Symbol -> SUBSET Effect],
                    evidence : [Symbol -> [Effect -> Seq(Symbol)]]]

-----------------------------------------------------------------------------
(* The reverse adjacency `propagate` builds: who may be charged with what  *)
(* `callee` does.  Type edges are left out.                                *)
callers_of(facts, callee) ==
  {e.caller : e \in {x \in facts.edges : /\ x.callee = callee
                                         /\ carries_effects(x.kind)}}

(* Mutant: forward_adjacency without its filter.                           *)
uses_of_EveryKind(facts, caller) ==
  {e.callee : e \in {x \in facts.edges : x.caller = caller}}

(* forward_adjacency: the symbols a caller uses, Type edges left out.      *)
uses_of(facts, caller) ==
  {e.callee : e \in {x \in facts.edges : /\ x.caller = caller
                                         /\ carries_effects(x.kind)}}

(* The symbols a root declares to perform `effect`.                        *)
RootsOf(facts, effect) ==
  {r.symbol : r \in {x \in facts.roots : x.effect = effect}}

-----------------------------------------------------------------------------
(***************************************************************************)
(* The reference meaning of an effect summary, independent of any engine   *)
(* and of the adjacency maps above.  A set of symbols is closed for an     *)
(* effect when it holds the effect's roots and whoever uses a member at    *)
(* run time; the symbols that carry the effect are those in every closed   *)
(* set (the least fixed point).                                            *)
(***************************************************************************)
Uses(facts, s, t) ==
  \E e \in facts.edges : e.caller = s /\ e.callee = t /\ e.kind # "type"

IsClosed(facts, effect, S) ==
  /\ \A r \in facts.roots : r.effect = effect => r.symbol \in S
  /\ \A s \in Symbol, t \in S : Uses(facts, s, t) => s \in S

Carries(facts, s, effect) ==
  \A S \in SUBSET Symbol : IsClosed(facts, effect, S) => s \in S

CarriedEffects(facts) ==
  [s \in Symbol |-> {e \in Effect : Carries(facts, s, e)}]

(* A chain of uses from s to a symbol of `targets`.                        *)
IsUsePath(facts, s, targets, path) ==
  /\ path # <<>>
  /\ path[1] = s
  /\ \A i \in 1 .. Len(path) - 1 : Uses(facts, path[i], path[i + 1])
  /\ path[Len(path)] \in targets

(* What a reader may conclude from an evidence path for <<s, effect>>.     *)
IsEvidencePath(facts, s, effect, path) ==
  IsUsePath(facts, s, RootsOf(facts, effect), path)

(* The symbols at most n uses away from a member of `targets`.             *)
WithinHops(facts, targets) ==
  LET near[n \in Nat] ==
        IF n = 0 THEN targets
        ELSE near[n - 1] \cup
               {s \in Symbol : \E t \in near[n - 1] : Uses(facts, s, t)}
  IN  near

IsShortest(facts, s, targets, path) ==
  \A n \in 0 .. Len(path) - 2 : s \notin WithinHops(facts, targets)[n]
=============================================================================
