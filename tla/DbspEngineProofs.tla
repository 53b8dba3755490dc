-------------------------- MODULE DbspEngineProofs --------------------------
(***************************************************************************)
(* What the default engine guarantees for every finite set of symbols and  *)
(* every fact set: it never reports fewer effects than the reference       *)
(* meaning, and without signature dependencies it reports exactly the      *)
(* carried effects.  Its breadth-first walks come back with a shortest     *)
(* chain of uses, and with None only when there is none; so the engine     *)
(* with its walks, step by step, keeps all of it.                          *)
(***************************************************************************)
EXTENDS ExplainedEngine, FiniteSetTheorems, TLAPS

(* The inductive invariant: the circuit holds the edges of the facts, has  *)
(* reached a fixed point when it hands over, and the summaries are the     *)
(* pairs visited so far.                                                   *)
InputsFed ==
  /\ phase # "load" => edge_set = CircuitEdges(facts)
  /\ phase = "load" => pairs = {}

FixedPoint == phase \in {"attach", "returned"} => Round(pairs) = pairs

SummariesArePairs ==
  /\ phase \in {"attach", "returned"} =>
       \A s \in Symbol, e \in Effect :
         e \in effects[s] <=> <<s, e>> \in pairs \ unattached
  /\ phase \in {"load", "iterate"} => effects = [s \in Symbol |-> {}] /\ unattached = {}
  /\ phase = "returned" => unattached = {}

(* No round of the circuit over-derives: each derived pair is reachable    *)
(* through the edges the circuit was fed, whatever their kind.             *)
RoundsStayReachable ==
  \A p \in pairs : \A S \in SUBSET Symbol :
    /\ RootsOf(facts, p[2]) \subseteq S
    /\ \A link \in edge_set : link[2] \in S => link[1] \in S
    => p[1] \in S

DbspInv ==
  /\ TypeOK
  /\ InputsFed
  /\ FixedPoint
  /\ RoundsStayReachable
  /\ SummariesArePairs

(* The circuit's edges and roots are between symbols.                      *)
LEMMA InputTypes ==
  ASSUME TypeOK
  PROVE  /\ CircuitEdges(facts) \subseteq Symbol \X Symbol
         /\ \A r \in facts.roots : r.symbol \in Symbol /\ r.effect \in Effect
         /\ \A x \in facts.edges : x.caller \in Symbol /\ x.callee \in Symbol
BY DEF TypeOK, CircuitEdges, FactSet, Edge, EffectRoot

(* What a round derives.                                                   *)
LEMMA RoundDerives ==
  ASSUME TypeOK, NEW s \in Symbol, NEW e \in Effect
  PROVE  <<s, e>> \in Round(pairs) <=>
           \/ \E callee \in Symbol : <<s, callee>> \in edge_set /\ <<callee, e>> \in pairs
           \/ s \in RootsOf(facts, e)
<1>1. <<s, e>> \in {<<r.symbol, r.effect>> : r \in facts.roots} <=> s \in RootsOf(facts, e)
  BY DEF RootsOf
<1>2. QED
  BY <1>1 DEF Round

LEMMA RoundTypes ==
  ASSUME TypeOK
  PROVE  Round(pairs) \subseteq Symbol \X Effect
BY InputTypes DEF Round

(* Members of a set that is closed under the circuit's edges are all a     *)
(* round adds.                                                             *)
LEMMA RoundStays ==
  ASSUME TypeOK, RoundsStayReachable,
         NEW q \in Round(pairs), NEW S \in SUBSET Symbol,
         RootsOf(facts, q[2]) \subseteq S,
         \A link \in edge_set : link[2] \in S => link[1] \in S
  PROVE  q[1] \in S
<1>1. q \in Symbol \X Effect /\ q = <<q[1], q[2]>> /\ q[1] \in Symbol /\ q[2] \in Effect
  BY RoundTypes
<1>2. CASE q[1] \in RootsOf(facts, q[2])
  BY <1>2
<1>3. CASE \E callee \in Symbol : <<q[1], callee>> \in edge_set /\ <<callee, q[2]>> \in pairs
  <2>1. PICK callee \in Symbol : <<q[1], callee>> \in edge_set /\ <<callee, q[2]>> \in pairs
    BY <1>3
  <2>2. callee \in S
    BY <2>1 DEF RoundsStayReachable
  <2>3. QED
    BY <2>1, <2>2
<1>4. QED
  BY <1>1, <1>2, <1>3, RoundDerives

LEMMA DbspInit == Init => DbspInv
<1> SUFFICES ASSUME Init PROVE DbspInv
  OBVIOUS
<1>1. <<>> \in Seq(Symbol)
  OBVIOUS
<1>2. evidence \in [Symbol -> [Effect -> Seq(Symbol)]]
  BY <1>1 DEF Init
<1>3. TypeOK
  BY <1>2, FactsAssumption DEF Init, TypeOK
<1>4. QED
  BY <1>3 DEF Init, DbspInv, InputsFed, FixedPoint, RoundsStayReachable, SummariesArePairs

-----------------------------------------------------------------------------
LEMMA LoadInputsInv == DbspInv /\ LoadInputs => DbspInv'
<1> SUFFICES ASSUME DbspInv, LoadInputs PROVE DbspInv'
  OBVIOUS
<1>1. TypeOK /\ phase = "load" /\ phase' = "iterate" /\ edge_set' = CircuitEdges(facts)
      /\ UNCHANGED <<facts, pairs, unattached, effects, evidence>>
  BY DEF DbspInv, LoadInputs
<1>2. TypeOK'
  BY <1>1, InputTypes DEF TypeOK
<1>3. pairs = {}
  BY <1>1 DEF DbspInv, InputsFed
<1>4. QED
  BY <1>1, <1>2, <1>3 DEF DbspInv, InputsFed, FixedPoint, RoundsStayReachable,
                          SummariesArePairs, CircuitEdges

LEMMA IterateInv == DbspInv /\ Iterate => DbspInv'
<1> SUFFICES ASSUME DbspInv, Iterate PROVE DbspInv'
  OBVIOUS
<1>1. /\ TypeOK /\ InputsFed /\ RoundsStayReachable /\ SummariesArePairs
      /\ phase = "iterate" /\ pairs' = Round(pairs)
      /\ UNCHANGED <<facts, edge_set, effects, evidence>>
  BY DEF DbspInv, Iterate
<1>2. /\ phase' \in {"iterate", "attach"}
      /\ phase' = "attach" => pairs' = pairs /\ unattached' = pairs
      /\ phase' = "iterate" => unattached' = {}
      /\ effects = [s \in Symbol |-> {}]
  BY <1>1 DEF Iterate, SummariesArePairs
<1>3. pairs' \subseteq Symbol \X Effect
  BY <1>1, RoundTypes
<1>4. TypeOK'
  BY <1>1, <1>2, <1>3 DEF TypeOK
<1>5. InputsFed'
  BY <1>1, <1>2 DEF InputsFed, CircuitEdges
<1>6. FixedPoint'
  <2>1. phase' = "attach" => Round(pairs)' = Round(pairs)
    <3> SUFFICES ASSUME phase' = "attach" PROVE Round(pairs)' = Round(pairs)
      OBVIOUS
    <3>1. pairs' = pairs /\ facts' = facts /\ edge_set' = edge_set
      BY <1>1, <1>2
    <3>2. QED
      BY <3>1 DEF Round
  <2>2. QED
    BY <1>1, <1>2, <2>1 DEF FixedPoint
<1>7. RoundsStayReachable'
  <2>1. \A q \in pairs' : \A S \in SUBSET Symbol :
          /\ RootsOf(facts, q[2]) \subseteq S
          /\ \A link \in edge_set : link[2] \in S => link[1] \in S
          => q[1] \in S
    BY <1>1, RoundStays
  <2>2. QED
    BY <1>1, <2>1 DEF RoundsStayReachable, RootsOf
<1>8. SummariesArePairs'
  BY <1>1, <1>2 DEF SummariesArePairs
<1>9. QED
  BY <1>4, <1>5, <1>6, <1>7, <1>8 DEF DbspInv

(* An evidence path is a sequence of symbols, or empty.                    *)
LEMMA PathTypes ==
  ASSUME NEW fs, NEW func, NEW ends, NEW path \in shortest_path_to_roots(fs, func, ends)
  PROVE  path \in Seq(Symbol)
<1>1. path = <<>> \/ path \in UsePaths(fs, func, ends)
  BY DEF shortest_path_to_roots
<1>2. ASSUME path \in UsePaths(fs, func, ends)
      PROVE  path \in Seq(Symbol)
  <2>1. Cardinality(Symbol) \in Nat
    BY FiniteAssumption, FS_CardinalityType
  <2>2. PICK n \in 1 .. Cardinality(Symbol) : path \in [1 .. n -> Symbol]
    BY <1>2 DEF UsePaths
  <2>3. QED
    BY <2>1, <2>2
<1>3. <<>> \in Seq(Symbol)
  OBVIOUS
<1>4. QED
  BY <1>1, <1>2, <1>3

LEMMA AttachInv ==
  ASSUME DbspInv, NEW chosen \in unattached, Attach(chosen)
  PROVE  DbspInv'
<1>1. /\ TypeOK /\ SummariesArePairs
      /\ phase = "attach" /\ unattached' = unattached \ {chosen}
      /\ effects' = [effects EXCEPT ![chosen[1]] = @ \cup {chosen[2]}]
      /\ UNCHANGED <<facts, phase, edge_set, pairs>>
  BY DEF DbspInv, Attach
<1>2. chosen = <<chosen[1], chosen[2]>> /\ chosen[1] \in Symbol /\ chosen[2] \in Effect /\ chosen \in pairs
  BY <1>1 DEF TypeOK
<1>3. PICK path \in shortest_path_to_roots(facts, chosen[1], RootsOf(facts, chosen[2])) :
        evidence' = [evidence EXCEPT ![chosen[1]][chosen[2]] = path]
  BY DEF Attach
<1>4. path \in Seq(Symbol)
  BY PathTypes
<1>5. TypeOK'
  <2>1. effects' \in [Symbol -> SUBSET Effect]
    BY <1>1, <1>2 DEF TypeOK
  <2>2. evidence' \in [Symbol -> [Effect -> Seq(Symbol)]]
    BY <1>1, <1>2, <1>3, <1>4 DEF TypeOK
  <2>3. QED
    BY <1>1, <2>1, <2>2 DEF TypeOK
<1>6. SummariesArePairs'
  <2>1. ASSUME NEW s \in Symbol, NEW e \in Effect
        PROVE  e \in effects'[s] <=> <<s, e>> \in pairs \ unattached'
    <3>1. e \in effects[s] <=> <<s, e>> \in pairs \ unattached
      BY <1>1 DEF SummariesArePairs
    <3>2. e \in effects'[s] <=> e \in effects[s] \/ (s = chosen[1] /\ e = chosen[2])
      BY <1>1, <1>2 DEF TypeOK
    <3>3. <<s, e>> = chosen <=> (s = chosen[1] /\ e = chosen[2])
      BY <1>2
    <3>4. QED
      BY <1>1, <1>2, <3>1, <3>2, <3>3
  <2>2. QED
    BY <1>1, <2>1 DEF SummariesArePairs
<1>7. InputsFed' /\ FixedPoint' /\ RoundsStayReachable'
  BY <1>1 DEF DbspInv, InputsFed, FixedPoint, RoundsStayReachable, CircuitEdges, Round, RootsOf
<1>8. QED
  BY <1>5, <1>6, <1>7 DEF DbspInv

LEMMA ReturnInv == DbspInv /\ Return => DbspInv'
<1> SUFFICES ASSUME DbspInv, Return PROVE DbspInv'
  OBVIOUS
<1>1. /\ phase = "attach" /\ phase' = "returned" /\ unattached = {}
      /\ UNCHANGED <<facts, edge_set, pairs, unattached, effects, evidence>>
  BY DEF Return
<1>2. TypeOK' /\ SummariesArePairs'
  BY <1>1 DEF DbspInv, TypeOK, SummariesArePairs
<1>3. InputsFed' /\ FixedPoint' /\ RoundsStayReachable'
  BY <1>1 DEF DbspInv, InputsFed, FixedPoint, RoundsStayReachable, CircuitEdges, Round, RootsOf
<1>4. QED
  BY <1>2, <1>3 DEF DbspInv

LEMMA DbspStep == DbspInv /\ [Next]_vars => DbspInv'
<1> SUFFICES ASSUME DbspInv, [Next]_vars PROVE DbspInv'
  OBVIOUS
<1>1. CASE LoadInputs
  BY <1>1, LoadInputsInv
<1>2. CASE Iterate
  BY <1>2, IterateInv
<1>3. CASE \E chosen \in unattached : Attach(chosen)
  BY <1>3, AttachInv
<1>4. CASE Return
  BY <1>4, ReturnInv
<1>5. CASE UNCHANGED vars
  <2>1. TypeOK' /\ SummariesArePairs'
    BY <1>5 DEF vars, DbspInv, TypeOK, SummariesArePairs
  <2>2. phase' = phase /\ pairs' = pairs /\ facts' = facts /\ edge_set' = edge_set
    BY <1>5 DEF vars
  <2>3. InputsFed' /\ FixedPoint'
    <3>1. Round(pairs)' = Round(pairs) /\ CircuitEdges(facts)' = CircuitEdges(facts)
      BY <2>2 DEF Round, CircuitEdges
    <3>2. QED
      BY <2>2, <3>1 DEF DbspInv, InputsFed, FixedPoint
  <2>4. RoundsStayReachable'
    BY <2>2 DEF DbspInv, RoundsStayReachable, RootsOf
  <2>5. QED
    BY <2>1, <2>3, <2>4 DEF DbspInv
<1>6. QED
  BY <1>1, <1>2, <1>3, <1>4, <1>5 DEF Next

LEMMA DbspInvariant == Spec => []DbspInv
BY DbspInit, DbspStep, PTL DEF Spec

-----------------------------------------------------------------------------
(* DbspEngine: every variable keeps its type.                              *)
THEOREM DbspTypeCorrect == Spec => []TypeOK
<1>1. DbspInv => TypeOK
  BY DEF DbspInv
<1>2. QED
  BY <1>1, DbspInvariant, PTL

(* The pairs of a finished circuit, for one effect, are closed under       *)
(* run-time use.                                                           *)
LEMMA ReportedClosed ==
  ASSUME DbspInv, returned, NEW e \in Effect
  PROVE  IsClosed(facts, e, {s \in Symbol : e \in effects[s]})
<1>1. /\ TypeOK /\ edge_set = CircuitEdges(facts) /\ Round(pairs) = pairs
      /\ \A s \in Symbol : e \in effects[s] <=> <<s, e>> \in pairs
  BY DEF DbspInv, returned, InputsFed, FixedPoint, SummariesArePairs
<1>2. ASSUME NEW r \in facts.roots, r.effect = e
      PROVE  r.symbol \in Symbol /\ e \in effects[r.symbol]
  <2>1. r.symbol \in Symbol /\ r.symbol \in RootsOf(facts, e)
    BY <1>1, <1>2, InputTypes DEF RootsOf
  <2>2. QED
    BY <1>1, <2>1, RoundDerives
<1>3. ASSUME NEW s \in Symbol, NEW t \in Symbol, e \in effects[t], Uses(facts, s, t)
      PROVE  e \in effects[s]
  <2>1. <<s, t>> \in edge_set
    BY <1>1, <1>3 DEF Uses, CircuitEdges
  <2>2. QED
    BY <1>1, <1>3, <2>1, RoundDerives
<1>4. QED
  BY <1>2, <1>3 DEF IsClosed

(* DbspEngine::propagate: whatever the facts, every effect a symbol        *)
(* carries is in its reported set.                                         *)
THEOREM FailsClosed == Spec => []NeverUnderReports
<1>1. DbspInv => NeverUnderReports
  BY ReportedClosed DEF NeverUnderReports, Carries
<1>2. QED
  BY <1>1, DbspInvariant, PTL

(* Without signature dependencies no pair is derived too many.             *)
LEMMA NothingButCarried == DbspInv => (CallsOnly => MatchesReference)
<1>1. ASSUME DbspInv, CallsOnly, returned
      PROVE  effects = CarriedEffects(facts)
  <2>1. /\ TypeOK /\ RoundsStayReachable /\ edge_set = CircuitEdges(facts)
        /\ \A s \in Symbol, e \in Effect : e \in effects[s] <=> <<s, e>> \in pairs
    BY <1>1 DEF DbspInv, returned, InputsFed, SummariesArePairs
  <2>2. ASSUME NEW s \in Symbol, NEW e \in Effect, e \in effects[s],
               NEW S \in SUBSET Symbol, IsClosed(facts, e, S)
        PROVE  s \in S
    <3>1. RootsOf(facts, e) \subseteq S
      BY <2>2 DEF IsClosed, RootsOf
    <3>2. \A link \in edge_set : link[2] \in S => link[1] \in S
      <4> SUFFICES ASSUME NEW x \in facts.edges, x.callee \in S
                   PROVE  x.caller \in S
        BY <2>1 DEF CircuitEdges
      <4>1. Uses(facts, x.caller, x.callee) /\ x.caller \in Symbol
        BY <1>1, <2>1, InputTypes DEF CallsOnly, Uses
      <4>2. QED
        BY <2>2, <4>1 DEF IsClosed
    <3>3. <<s, e>> \in pairs
      BY <2>1, <2>2
    <3>4. <<s, e>>[1] = s /\ <<s, e>>[2] = e
      OBVIOUS
    <3>5. QED
      BY <2>1, <3>1, <3>2, <3>3, <3>4 DEF RoundsStayReachable
  <2>3. ASSUME NEW s \in Symbol, NEW e \in Effect
        PROVE  e \in effects[s] <=> Carries(facts, s, e)
    BY <1>1, <2>2, ReportedClosed DEF Carries
  <2>4. effects \in [Symbol -> SUBSET Effect]
    BY <2>1 DEF TypeOK
  <2>5. \A s \in Symbol : effects[s] = {e \in Effect : Carries(facts, s, e)}
    BY <2>3, <2>4
  <2>6. QED
    BY <2>4, <2>5 DEF CarriedEffects
<1>2. QED
  BY <1>1 DEF MatchesReference

(* hinzu-dbsp: "The effect *set* per function must match the reference     *)
(* engine exactly"; it does so on facts without signature dependencies.    *)
THEOREM MatchesOnCalls == Spec => [](CallsOnly => MatchesReference)
BY NothingButCarried, DbspInvariant, PTL

-----------------------------------------------------------------------------
(***************************************************************************)
(* The evidence.  Whoever carries an effect has a chain of uses down to a  *)
(* root of it that visits no symbol twice, and so one among those that     *)
(* UsePaths ranges over.                                                   *)
(***************************************************************************)
LEMMA UsedSymbols ==
  ASSUME NEW fs \in FactSet, NEW s
  PROVE  \A t : t \in uses_of(fs, s) <=> Uses(fs, s, t)
BY DEF uses_of, Uses, carries_effects, FactSet, Edge, EdgeKind

LEMMA UsesBetweenSymbols ==
  ASSUME NEW fs \in FactSet, NEW s, NEW t, Uses(fs, s, t)
  PROVE  s \in Symbol /\ t \in Symbol
BY DEF Uses, FactSet, Edge

(* A chain of n symbols from s to a target, each using the next.           *)
IsChain(fs, s, T, n, p) ==
  /\ p \in [1 .. n -> Symbol]
  /\ p[1] = s
  /\ p[n] \in T
  /\ \A i \in 1 .. n - 1 : Uses(fs, p[i], p[i + 1])

VisitsOnce(n, p) == \A i, j \in 1 .. n : p[i] = p[j] => i = j

(* UsePaths are the chains that are no longer than there are symbols.      *)
LEMMA ChainsAreUsePaths ==
  ASSUME NEW fs \in FactSet, NEW s, NEW T, NEW n \in 1 .. Cardinality(Symbol), NEW p
  PROVE  IsChain(fs, s, T, n, p) <=> p \in UsePaths(fs, s, T) /\ Len(p) = n
<1>1. Cardinality(Symbol) \in Nat /\ n \in Nat
  BY FiniteAssumption, FS_CardinalityType
<1>2. \A m \in 1 .. Cardinality(Symbol) : \A q \in [1 .. m -> Symbol] : Len(q) = m
  BY <1>1
<1>3. ASSUME IsChain(fs, s, T, n, p)
      PROVE  p \in UsePaths(fs, s, T) /\ Len(p) = n
  <2>1. p \in [1 .. n -> Symbol] /\ Len(p) = n
    BY <1>2, <1>3 DEF IsChain
  <2>2. \A i \in 1 .. Len(p) - 1 : p[i + 1] \in uses_of(fs, p[i])
    BY <1>3, <2>1, UsedSymbols DEF IsChain
  <2>3. QED
    BY <1>3, <2>1, <2>2 DEF IsChain, UsePaths
<1>4. ASSUME p \in UsePaths(fs, s, T), Len(p) = n
      PROVE  IsChain(fs, s, T, n, p)
  <2>1. PICK m \in 1 .. Cardinality(Symbol) : p \in [1 .. m -> Symbol]
    BY <1>4 DEF UsePaths
  <2>2. m = n
    BY <1>2, <1>4, <2>1
  <2>3. \A i \in 1 .. n - 1 : Uses(fs, p[i], p[i + 1])
    BY <1>4, UsedSymbols DEF UsePaths
  <2>4. p \in [1 .. n -> Symbol] /\ p[1] = s /\ p[n] \in T
    BY <1>4, <2>1, <2>2 DEF UsePaths
  <2>5. QED
    BY <2>3, <2>4 DEF IsChain
<1>5. QED
  BY <1>3, <1>4

(* Every one of them is as long as some chain.                             *)
LEMMA UsePathIsChain ==
  ASSUME NEW fs \in FactSet, NEW s, NEW T, NEW p \in UsePaths(fs, s, T)
  PROVE  /\ Len(p) \in 1 .. Cardinality(Symbol)
         /\ IsChain(fs, s, T, Len(p), p)
<1>1. Cardinality(Symbol) \in Nat
  BY FiniteAssumption, FS_CardinalityType
<1>2. PICK m \in 1 .. Cardinality(Symbol) : p \in [1 .. m -> Symbol]
  BY DEF UsePaths
<1>3. Len(p) = m
  BY <1>1, <1>2
<1>4. QED
  BY <1>2, <1>3, ChainsAreUsePaths

(* A chain that visits no symbol twice is not longer than there are symbols. *)
LEMMA SimpleChainIsShort ==
  ASSUME NEW n \in Nat, NEW p \in [1 .. n -> Symbol], VisitsOnce(n, p)
  PROVE  n <= Cardinality(Symbol)
<1>1. p \in Injection(1 .. n, Symbol)
  BY DEF VisitsOnce, Injection, IsInjective
<1>2. Cardinality(1 .. n) <= Cardinality(Symbol)
  BY <1>1, FiniteAssumption, FS_Injection
<1>3. Cardinality(1 .. n) = n
  <2>1. Cardinality(1 .. n) = IF 1 > n THEN 0 ELSE n - 1 + 1
    BY FS_Interval
  <2>2. QED
    BY <2>1
<1>4. QED
  BY <1>2, <1>3

(* A caller put before such a chain, or the rest of the chain from it on.  *)
LEMMA CallerHasChain ==
  ASSUME NEW fs \in FactSet, NEW T, NEW s, NEW t, Uses(fs, s, t),
         NEW n \in Nat \ {0}, NEW p, IsChain(fs, t, T, n, p), VisitsOnce(n, p)
  PROVE  \E m \in Nat \ {0} : \E q : IsChain(fs, s, T, m, q) /\ VisitsOnce(m, q)
<1>1. /\ p \in [1 .. n -> Symbol] /\ p[1] = t /\ p[n] \in T
      /\ \A i \in 1 .. n - 1 : Uses(fs, p[i], p[i + 1])
  BY DEF IsChain
<1>2. CASE \E k \in 1 .. n : p[k] = s
  <2>1. PICK k \in 1 .. n : p[k] = s
    BY <1>2
  <2> DEFINE m == n - k + 1
             q == [i \in 1 .. m |-> p[i + k - 1]]
  <2>2. m \in Nat \ {0} /\ \A i \in 1 .. m : i + k - 1 \in 1 .. n
    BY <2>1
  <2>3. q \in [1 .. m -> Symbol] /\ q[1] = s /\ q[m] = p[n]
    BY <1>1, <2>1, <2>2
  <2>4. ASSUME NEW i \in 1 .. m - 1
        PROVE  Uses(fs, q[i], q[i + 1])
    <3>1. i + k - 1 \in 1 .. n - 1 /\ i \in 1 .. m /\ i + 1 \in 1 .. m
      BY <2>1, <2>4
    <3>2. q[i] = p[i + k - 1] /\ q[i + 1] = p[(i + k - 1) + 1]
      BY <3>1
    <3>3. QED
      BY <1>1, <3>1, <3>2
  <2>5. VisitsOnce(m, q)
    <3>1. ASSUME NEW i \in 1 .. m, NEW j \in 1 .. m, q[i] = q[j]
          PROVE  i = j
      <4>1. p[i + k - 1] = p[j + k - 1]
        BY <3>1
      <4>2. i + k - 1 = j + k - 1
        BY <2>2, <4>1 DEF VisitsOnce
      <4>3. QED
        BY <2>1, <4>2
    <3>2. QED
      BY <3>1 DEF VisitsOnce
  <2> HIDE DEF m, q
  <2>6. IsChain(fs, s, T, m, q)
    BY <1>1, <2>3, <2>4 DEF IsChain
  <2>7. QED
    BY <2>2, <2>5, <2>6
<1>3. CASE \A k \in 1 .. n : p[k] # s
  <2> DEFINE m == n + 1
             q == [i \in 1 .. m |-> IF i = 1 THEN s ELSE p[i - 1]]
  <2>1. m \in Nat \ {0} /\ \A i \in 2 .. m : i - 1 \in 1 .. n /\ i # 1 /\ i \in 1 .. m
    OBVIOUS
  <2>2. q[1] = s /\ \A i \in 2 .. m : q[i] = p[i - 1]
    OBVIOUS
  <2>3. q \in [1 .. m -> Symbol]
    BY <1>1, <2>1, UsesBetweenSymbols
  <2>4. q[m] = p[n]
    <3>1. m \in 2 .. m /\ m - 1 = n
      OBVIOUS
    <3>2. QED
      BY <2>2, <3>1
  <2>5. ASSUME NEW i \in 1 .. m - 1
        PROVE  Uses(fs, q[i], q[i + 1])
    <3>1. i + 1 \in 2 .. m /\ (i + 1) - 1 = i
      BY <2>5
    <3>2. q[i + 1] = p[i]
      BY <2>2, <3>1
    <3>3. CASE i = 1
      BY <1>1, <2>2, <3>2, <3>3
    <3>4. CASE i # 1
      <4>1. i \in 2 .. m /\ i - 1 \in 1 .. n - 1 /\ (i - 1) + 1 = i
        BY <2>5, <3>4
      <4>2. q[i] = p[i - 1]
        BY <2>2, <4>1
      <4>3. Uses(fs, p[i - 1], p[(i - 1) + 1])
        BY <1>1, <4>1
      <4>4. QED
        BY <3>2, <4>1, <4>2, <4>3
    <3>5. QED
      BY <3>3, <3>4
  <2> HIDE DEF q
  <2>6. VisitsOnce(m, q)
    <3>1. ASSUME NEW i \in 1 .. m, NEW j \in 1 .. m, q[i] = q[j]
          PROVE  i = j
      <4>1. \A k \in 1 .. m : k = 1 \/ k \in 2 .. m
        OBVIOUS
      <4>2. CASE i = 1 /\ j # 1
        BY <1>3, <2>1, <2>2, <3>1, <4>1, <4>2
      <4>3. CASE i # 1 /\ j = 1
        BY <1>3, <2>1, <2>2, <3>1, <4>1, <4>3
      <4>4. CASE i # 1 /\ j # 1
        <5>1. i \in 2 .. m /\ j \in 2 .. m
          BY <4>1, <4>4
        <5>2. p[i - 1] = p[j - 1] /\ i - 1 \in 1 .. n /\ j - 1 \in 1 .. n
          BY <2>1, <2>2, <3>1, <5>1
        <5>3. i - 1 = j - 1
          BY <5>2 DEF VisitsOnce
        <5>4. QED
          BY <5>1, <5>3
      <4>5. QED
        BY <4>2, <4>3, <4>4
    <3>2. QED
      BY <3>1 DEF VisitsOnce
  <2>7. IsChain(fs, s, T, m, q)
    BY <1>1, <2>2, <2>3, <2>4, <2>5 DEF IsChain
  <2> HIDE DEF m
  <2>8. QED
    BY <2>1, <2>6, <2>7
<1>4. QED
  BY <1>2, <1>3

(* Whoever carries an effect has a path to a root of it.                   *)
LEMMA CarriersHavePaths ==
  ASSUME NEW fs \in FactSet, NEW s, NEW e, Carries(fs, s, e)
  PROVE  UsePaths(fs, s, RootsOf(fs, e)) # {}
<1> DEFINE T == RootsOf(fs, e)
           Has(x) == \E n \in Nat \ {0} : \E p : IsChain(fs, x, T, n, p) /\ VisitsOnce(n, p)
           S == {x \in Symbol : Has(x)}
<1>1. ASSUME NEW r \in fs.roots, r.effect = e
      PROVE  r.symbol \in S
  <2> DEFINE p == [i \in 1 .. 1 |-> r.symbol]
  <2>1. r.symbol \in Symbol /\ r.symbol \in T
    BY <1>1 DEF FactSet, EffectRoot, RootsOf
  <2>2. IsChain(fs, r.symbol, T, 1, p) /\ VisitsOnce(1, p)
    BY <2>1 DEF IsChain, VisitsOnce
  <2>3. QED
    BY <2>1, <2>2
<1>2. ASSUME NEW x \in Symbol, NEW y \in S, Uses(fs, x, y)
      PROVE  x \in S
  <2>1. PICK n \in Nat \ {0} : \E p : IsChain(fs, y, T, n, p) /\ VisitsOnce(n, p)
    BY <1>2
  <2>2. PICK p : IsChain(fs, y, T, n, p) /\ VisitsOnce(n, p)
    BY <2>1
  <2> HIDE DEF T
  <2>3. Has(x)
    BY <1>2, <2>2, CallerHasChain
  <2>4. QED
    BY <2>3
<1>3. IsClosed(fs, e, S)
  BY <1>1, <1>2 DEF IsClosed
<1>4. s \in S
  <2> HIDE DEF S
  <2>1. S \in SUBSET Symbol
    BY DEF S
  <2>2. QED
    BY <1>3, <2>1 DEF Carries
<1>5. PICK n \in Nat \ {0} : \E p : IsChain(fs, s, T, n, p) /\ VisitsOnce(n, p)
  BY <1>4
<1>6. PICK p : IsChain(fs, s, T, n, p) /\ VisitsOnce(n, p)
  BY <1>5
<1>7. n \in 1 .. Cardinality(Symbol)
  <2>1. n <= Cardinality(Symbol)
    BY <1>6, SimpleChainIsShort DEF IsChain
  <2>2. Cardinality(Symbol) \in Nat
    BY FiniteAssumption, FS_CardinalityType
  <2>3. QED
    BY <2>1, <2>2
<1>8. QED
  BY <1>6, <1>7, ChainsAreUsePaths

(* A chain crosses out of every set that holds its start but not its end.  *)
LEMMA ChainCrosses ==
  ASSUME NEW n \in Nat \ {0}, NEW p, NEW S, p[1] \in S, p[n] \notin S
  PROVE  \E i \in 1 .. n - 1 : p[i] \in S /\ p[i + 1] \notin S
<1> DEFINE Out == {i \in 1 .. n : p[i] \notin S}
<1>1. Out \in SUBSET Nat /\ n \in Out
  OBVIOUS
<1>2. PICK m \in Out : \A i \in Out : m <= i
  <2> HIDE DEF Out
  <2>1. PICK m \in Out : \A i \in Out : <<i, m>> \notin OpToRel(<, Nat)
    BY <1>1, NatLessThanWellFounded, WFMin
  <2>2. \A i \in Out : ~(i < m)
    BY <1>1, <2>1 DEF OpToRel
  <2>3. QED
    BY <1>1, <2>2
<1>3. m # 1 /\ m \in 1 .. n /\ p[m] \notin S
  OBVIOUS
<1>4. m - 1 \in 1 .. n - 1 /\ (m - 1) + 1 = m /\ m - 1 \in 1 .. n /\ ~(m <= m - 1)
  BY <1>3
<1>5. p[m - 1] \in S
  BY <1>2, <1>4
<1>6. QED
  BY <1>3, <1>4, <1>5

(* Who has a path to a root of an effect carries it.                       *)
LEMMA PathsAreCarried ==
  ASSUME NEW fs \in FactSet, NEW s, NEW e, NEW p \in UsePaths(fs, s, RootsOf(fs, e))
  PROVE  Carries(fs, s, e) /\ IsEvidencePath(fs, s, e, p)
<1> DEFINE n == Len(p)
<1>1. n \in Nat \ {0} /\ IsChain(fs, s, RootsOf(fs, e), n, p)
  <2>1. Cardinality(Symbol) \in Nat
    BY FiniteAssumption, FS_CardinalityType
  <2>2. QED
    BY <2>1, UsePathIsChain
<1>2. p \in Seq(Symbol) /\ p # <<>>
  BY <1>1 DEF IsChain
<1> HIDE DEF n
<1>3. ASSUME NEW S \in SUBSET Symbol, IsClosed(fs, e, S), s \notin S
      PROVE  FALSE
  <2>1. p[n] \in S
    BY <1>1, <1>3 DEF IsChain, IsClosed, RootsOf
  <2>2. p[1] \in Symbol \ S /\ p[n] \notin Symbol \ S
    BY <1>1, <1>3, <2>1 DEF IsChain
  <2>3. PICK i \in 1 .. n - 1 : p[i] \in Symbol \ S /\ p[i + 1] \notin Symbol \ S
    BY <1>1, <2>2, ChainCrosses
  <2>4. Uses(fs, p[i], p[i + 1]) /\ p[i + 1] \in Symbol
    BY <1>1, <2>3, UsesBetweenSymbols DEF IsChain
  <2>5. QED
    BY <1>3, <2>3, <2>4 DEF IsClosed
<1>4. IsEvidencePath(fs, s, e, p)
  BY <1>1, <1>2 DEF IsEvidencePath, IsUsePath, IsChain, n
<1>5. QED
  BY <1>3, <1>4 DEF Carries

-----------------------------------------------------------------------------
(***************************************************************************)
(* What is attached: a visited pair has what the walk may return for it,   *)
(* every other pair has nothing.                                           *)
(***************************************************************************)
Visited == IF phase \in {"attach", "returned"} THEN pairs \ unattached ELSE {}

EvidenceIsWalked ==
  \A s \in Symbol, e \in Effect :
    IF <<s, e>> \in Visited
    THEN evidence[s][e] \in shortest_path_to_roots(facts, s, RootsOf(facts, e))
    ELSE evidence[s][e] = <<>>

AttachedInv == DbspInv /\ EvidenceIsWalked

LEMMA AttachedInit == Init => AttachedInv
BY DbspInit DEF Init, AttachedInv, EvidenceIsWalked, Visited

(* The facts never change.                                                 *)
LEMMA WalkUnprimed ==
  ASSUME facts' = facts
  PROVE  \A s, e : shortest_path_to_roots(facts, s, RootsOf(facts, e))'
                     = shortest_path_to_roots(facts, s, RootsOf(facts, e))
BY DEF shortest_path_to_roots, UsePaths, RootsOf, uses_of

LEMMA AttachAttached ==
  ASSUME AttachedInv, NEW chosen \in unattached, Attach(chosen)
  PROVE  EvidenceIsWalked'
<1>1. /\ TypeOK /\ EvidenceIsWalked
      /\ phase = "attach" /\ unattached' = unattached \ {chosen}
      /\ UNCHANGED <<facts, phase, edge_set, pairs>>
  BY DEF AttachedInv, DbspInv, Attach
<1>2. chosen = <<chosen[1], chosen[2]>> /\ chosen[1] \in Symbol /\ chosen[2] \in Effect /\ chosen \in pairs
  BY <1>1 DEF TypeOK
<1>3. PICK path \in shortest_path_to_roots(facts, chosen[1], RootsOf(facts, chosen[2])) :
        evidence' = [evidence EXCEPT ![chosen[1]][chosen[2]] = path]
  BY DEF Attach
<1>4. \A s \in Symbol, e \in Effect :
        evidence'[s][e] = IF s = chosen[1] /\ e = chosen[2] THEN path ELSE evidence[s][e]
  BY <1>1, <1>2, <1>3 DEF TypeOK
<1>5. Visited' = Visited \cup {chosen}
  BY <1>1, <1>2 DEF Visited
<1>6. ASSUME NEW s \in Symbol, NEW e \in Effect
      PROVE  IF <<s, e>> \in Visited'
             THEN evidence'[s][e] \in shortest_path_to_roots(facts, s, RootsOf(facts, e))
             ELSE evidence'[s][e] = <<>>
  <2>1. <<s, e>> = chosen <=> s = chosen[1] /\ e = chosen[2]
    BY <1>2
  <2>2. CASE s = chosen[1] /\ e = chosen[2]
    BY <1>3, <1>4, <1>5, <2>1, <2>2
  <2>3. CASE ~(s = chosen[1] /\ e = chosen[2])
    <3>1. evidence'[s][e] = evidence[s][e] /\ (<<s, e>> \in Visited' <=> <<s, e>> \in Visited)
      BY <1>4, <1>5, <2>1, <2>3
    <3>2. QED
      BY <1>1, <3>1 DEF EvidenceIsWalked
  <2>4. QED
    BY <2>2, <2>3
<1>7. QED
  BY <1>1, <1>6, WalkUnprimed DEF EvidenceIsWalked

LEMMA AttachedStep == AttachedInv /\ [Next]_vars => AttachedInv'
<1> SUFFICES ASSUME AttachedInv, [Next]_vars PROVE AttachedInv'
  OBVIOUS
<1>1. DbspInv'
  BY DbspStep DEF AttachedInv
<1>2. CASE \E chosen \in unattached : Attach(chosen)
  BY <1>1, <1>2, AttachAttached DEF AttachedInv
<1>3. CASE LoadInputs \/ Iterate \/ Return \/ UNCHANGED vars
  <2>1. UNCHANGED <<facts, evidence>>
    BY <1>3 DEF LoadInputs, Iterate, Return, vars
  <2>2. Visited' = Visited
    BY <1>3 DEF LoadInputs, Iterate, Return, vars, Visited
  <2>3. QED
    BY <1>1, <2>1, <2>2, WalkUnprimed DEF AttachedInv, EvidenceIsWalked
<1>4. QED
  BY <1>2, <1>3 DEF Next

LEMMA AttachedInvariant == Spec => []AttachedInv
BY AttachedInit, AttachedStep, PTL DEF Spec

(* A path is found for exactly the effects that are carried.               *)
LEMMA WalkFinds ==
  ASSUME NEW fs \in FactSet, NEW s, NEW e,
         NEW path \in shortest_path_to_roots(fs, s, RootsOf(fs, e))
  PROVE  IF Carries(fs, s, e) THEN IsEvidencePath(fs, s, e, path) ELSE path = <<>>
<1>1. CASE Carries(fs, s, e)
  <2>1. path \in UsePaths(fs, s, RootsOf(fs, e))
    BY <1>1, CarriersHavePaths DEF shortest_path_to_roots
  <2>2. QED
    BY <1>1, <2>1, PathsAreCarried
<1>2. CASE ~Carries(fs, s, e)
  <2>1. UsePaths(fs, s, RootsOf(fs, e)) = {}
    BY <1>2, PathsAreCarried
  <2>2. QED
    BY <1>2, <2>1 DEF shortest_path_to_roots
<1>3. QED
  BY <1>1, <1>2

LEMMA AttachedIsHonest == AttachedInv => NeverUnderReports /\ EvidenceIffCarried
<1> SUFFICES ASSUME AttachedInv PROVE NeverUnderReports /\ EvidenceIffCarried
  OBVIOUS
<1>1. NeverUnderReports
  BY ReportedClosed DEF AttachedInv, NeverUnderReports, Carries
<1>2. ASSUME returned, NEW s \in Symbol, NEW e \in Effect
      PROVE  IF Carries(facts, s, e)
             THEN IsEvidencePath(facts, s, e, evidence[s][e])
             ELSE evidence[s][e] = <<>>
  <2>1. facts \in FactSet /\ EvidenceIsWalked
    BY DEF AttachedInv, DbspInv, TypeOK
  <2>2. <<s, e>> \in Visited <=> e \in effects[s]
    BY <1>2 DEF AttachedInv, DbspInv, SummariesArePairs, Visited, returned
  <2>3. CASE <<s, e>> \in Visited
    BY <2>1, <2>3, WalkFinds DEF EvidenceIsWalked
  <2>4. CASE <<s, e>> \notin Visited
    BY <1>1, <1>2, <2>1, <2>2, <2>4 DEF NeverUnderReports, EvidenceIsWalked
  <2>5. QED
    BY <2>3, <2>4
<1>3. QED
  BY <1>1, <1>2 DEF EvidenceIffCarried

(* summaries_from_pairs: whatever pairs the circuit derived, an effect has *)
(* an evidence path if and only if the symbol really carries it, and the   *)
(* path leads along run-time uses to a root of the effect.                 *)
THEOREM EvidenceMeansCarried == Spec => []EvidenceIffCarried
BY AttachedIsHonest, AttachedInvariant, PTL

-----------------------------------------------------------------------------
(***************************************************************************)
(* Refinement: on facts without signature dependencies the report, read    *)
(* off on return, is what the trait promises.                              *)
(***************************************************************************)
LEMMA SameSummaries == Abstract!EffectSummaries = EffectSummaries
BY DEF Abstract!EffectSummaries, EffectSummaries

LEMMA SameClosure == ASSUME NEW fs PROVE Abstract!CarriedEffects(fs) = CarriedEffects(fs)
BY DEF Abstract!CarriedEffects, Abstract!Carries, Abstract!IsClosed, Abstract!Uses,
       CarriedEffects, Carries, IsClosed, Uses

LEMMA SameEvidence ==
  ASSUME NEW fs, NEW s, NEW e, NEW path, IsEvidencePath(fs, s, e, path)
  PROVE  Abstract!IsEvidencePath(fs, s, e, path)
<1>1. Abstract!RootsOf(fs, e) = RootsOf(fs, e)
  BY DEF Abstract!RootsOf, RootsOf
<1>2. \A t, u : Abstract!Uses(fs, t, u) <=> Uses(fs, t, u)
  BY DEF Abstract!Uses, Uses
<1>3. QED
  BY <1>1, <1>2 DEF Abstract!IsEvidencePath, Abstract!IsUsePath, IsEvidencePath, IsUsePath

(* Return shows the report, no other step is seen.                         *)
LEMMA EngineStepRefines ==
  ASSUME AttachedInv, EvidenceIffCarried', (CallsOnly => MatchesReference)', [Next]_vars
  PROVE  [Abstract!Next]_(Abstract!vars)
<1> DEFINE rep == [effects |-> effects, evidence |-> evidence]
           report == IF returned /\ CallsOnly THEN rep ELSE Pending
<1>1. CASE Return /\ CallsOnly
  <2>1. /\ ~ returned /\ returned' /\ CallsOnly'
        /\ facts' = facts /\ effects' = effects /\ evidence' = evidence
    BY <1>1 DEF Return, returned, CallsOnly
  <2>2. rep \in EffectSummaries
    BY DEF AttachedInv, DbspInv, TypeOK, EffectSummaries
  <2>3. effects = CarriedEffects(facts)
    BY <2>1 DEF MatchesReference
  <2>4. Abstract!HonestEvidence(facts, rep)
    <3>1. rep.effects = effects /\ rep.evidence = evidence
      OBVIOUS
    <3> HIDE DEF rep
    <3>2. ASSUME NEW s \in Symbol, NEW e \in Effect
          PROVE  IF e \in effects[s]
                 THEN Abstract!IsEvidencePath(facts, s, e, evidence[s][e])
                 ELSE evidence[s][e] = <<>>
      <4>1. IF Carries(facts, s, e)
            THEN IsEvidencePath(facts, s, e, evidence[s][e])
            ELSE evidence[s][e] = <<>>
        BY <2>1 DEF EvidenceIffCarried
      <4>2. e \in effects[s] <=> Carries(facts, s, e)
        BY <2>3 DEF CarriedEffects
      <4>3. QED
        BY <4>1, <4>2, SameEvidence
    <3>3. QED
      BY <3>1, <3>2 DEF Abstract!HonestEvidence
  <2>5. report = Pending /\ report' = rep
    BY <2>1
  <2>6. rep.effects = CarriedEffects(facts)
    BY <2>3
  <2> HIDE DEF rep, report
  <2>7. /\ report' \in Abstract!EffectSummaries
        /\ (report').effects = Abstract!CarriedEffects(facts)
        /\ Abstract!HonestEvidence(facts, report')
    BY <2>2, <2>4, <2>5, <2>6, SameSummaries, SameClosure
  <2>8. Abstract!propagate
    BY <2>1, <2>5, <2>7 DEF Abstract!propagate, report, rep
  <2>9. QED
    BY <2>8 DEF Abstract!Next
<1>2. CASE Return /\ ~CallsOnly
  <2>1. facts' = facts /\ CallsOnly' = CallsOnly
    BY <1>2 DEF Return, CallsOnly
  <2>2. QED
    BY <1>2, <2>1 DEF Abstract!vars
<1>3. CASE LoadInputs \/ Iterate \/ (\E chosen \in unattached : Attach(chosen))
  <2>1. facts' = facts /\ ~returned /\ ~returned'
    <3>1. CASE LoadInputs
      BY <3>1 DEF LoadInputs, returned
    <3>2. CASE Iterate
      BY <3>2 DEF Iterate, returned
    <3>3. CASE \E chosen \in unattached : Attach(chosen)
      BY <3>3 DEF Attach, returned
    <3>4. QED
      BY <1>3, <3>1, <3>2, <3>3
  <2>2. QED
    BY <2>1 DEF Abstract!vars
<1>4. CASE UNCHANGED vars
  BY <1>4 DEF vars, Abstract!vars, returned, CallsOnly
<1>5. QED
  BY <1>1, <1>2, <1>3, <1>4 DEF Next

(* The default engine implements the trait's promise on facts without      *)
(* signature dependencies (safety part).                                   *)
THEOREM ImplementsOnCalls == Spec => Abstract!Init /\ [][Abstract!Next]_(Abstract!vars)
<1>1. Init => Abstract!Init
  BY DEF Init, Abstract!Init, returned
<1>2. QED
  BY <1>1, EngineStepRefines, AttachedInvariant, EvidenceMeansCarried, MatchesOnCalls,
     PTL DEF Spec

-----------------------------------------------------------------------------
(***************************************************************************)
(* Levels: how many symbols the shortest chain from s to x has.            *)
(***************************************************************************)
Levels(fs, s, x) == {n \in Nat \ {0} : \E p : IsChain(fs, s, {x}, n, p)}

Level(fs, s, x) == CHOOSE n \in Levels(fs, s, x) : \A m \in Levels(fs, s, x) : n <= m

(* A nonempty set of numbers has a least element.                          *)
LEMMA LeastOf ==
  ASSUME NEW S \in SUBSET Nat, S # {}
  PROVE  \E m \in S : \A n \in S : m <= n
<1>1. PICK m \in S : \A n \in S : <<n, m>> \notin OpToRel(<, Nat)
  BY NatLessThanWellFounded, WFMin
<1>2. \A n \in S : ~(n < m)
  BY <1>1 DEF OpToRel
<1>3. QED
  BY <1>2

LEMMA LevelIsLeast ==
  ASSUME NEW fs, NEW s, NEW x, Levels(fs, s, x) # {}
  PROVE  /\ Level(fs, s, x) \in Levels(fs, s, x)
         /\ Level(fs, s, x) \in Nat \ {0}
         /\ \A m \in Levels(fs, s, x) : Level(fs, s, x) <= m
<1>1. Levels(fs, s, x) \in SUBSET Nat /\ \A m \in Levels(fs, s, x) : m \in Nat \ {0}
  BY DEF Levels
<1>2. \E n \in Levels(fs, s, x) : \A m \in Levels(fs, s, x) : n <= m
  BY <1>1, LeastOf
<1>3. QED
  BY <1>1, <1>2 DEF Level

(* The first symbols of a chain are a chain.                               *)
LEMMA PrefixLevels ==
  ASSUME NEW fs, NEW s, NEW T, NEW n \in Nat \ {0}, NEW p, IsChain(fs, s, T, n, p),
         NEW k \in 1 .. n
  PROVE  k \in Levels(fs, s, p[k])
<1> DEFINE q == [i \in 1 .. k |-> p[i]]
<1>1. \A i \in 1 .. k : i \in 1 .. n
  OBVIOUS
<1>2. \A i \in 1 .. k - 1 : i \in 1 .. n - 1 /\ i \in 1 .. k /\ i + 1 \in 1 .. k
  OBVIOUS
<1>3. q \in [1 .. k -> Symbol]
  BY <1>1 DEF IsChain
<1>4. \A i \in 1 .. k - 1 : Uses(fs, q[i], q[i + 1])
  BY <1>2 DEF IsChain
<1>5. q[1] = s /\ q[k] = p[k]
  BY DEF IsChain
<1> HIDE DEF q
<1>6. IsChain(fs, s, {p[k]}, k, q)
  BY <1>3, <1>4, <1>5 DEF IsChain
<1>7. QED
  BY <1>6 DEF Levels

(* One more use makes a chain longer.                                      *)
LEMMA NextLevel ==
  ASSUME NEW fs \in FactSet, NEW s, NEW x, NEW y, Uses(fs, x, y), NEW n \in Levels(fs, s, x)
  PROVE  n + 1 \in Levels(fs, s, y)
<1>1. n \in Nat \ {0}
  BY DEF Levels
<1>2. PICK p : IsChain(fs, s, {x}, n, p)
  BY DEF Levels
<1> DEFINE q == [i \in 1 .. n + 1 |-> IF i = n + 1 THEN y ELSE p[i]]
<1>3. q \in [1 .. n + 1 -> Symbol]
  <2>1. y \in Symbol /\ \A i \in 1 .. n + 1 : i # n + 1 => i \in 1 .. n
    BY <1>1, UsesBetweenSymbols
  <2>2. QED
    BY <1>2, <2>1 DEF IsChain
<1>4. q[1] = s /\ q[n + 1] = y
  BY <1>1, <1>2 DEF IsChain
<1>5. ASSUME NEW i \in 1 .. (n + 1) - 1
      PROVE  Uses(fs, q[i], q[i + 1])
  <2>1. i \in 1 .. n /\ q[i] = p[i]
    BY <1>1
  <2>2. CASE i = n
    <3>1. p[n] = x /\ q[i + 1] = y
      BY <1>1, <1>2, <2>2 DEF IsChain
    <3>2. QED
      BY <2>1, <2>2, <3>1
  <2>3. CASE i # n
    <3>1. i \in 1 .. n - 1 /\ q[i + 1] = p[i + 1]
      BY <1>1, <2>1, <2>3
    <3>2. QED
      BY <1>2, <2>1, <3>1 DEF IsChain
  <2>4. QED
    BY <2>2, <2>3
<1> HIDE DEF q
<1>6. IsChain(fs, s, {y}, n + 1, q)
  BY <1>3, <1>4, <1>5 DEF IsChain
<1>7. QED
  BY <1>1, <1>6 DEF Levels

(* The start is the one symbol on the first level.                         *)
LEMMA FirstLevel ==
  ASSUME NEW fs, NEW s \in Symbol
  PROVE  /\ Level(fs, s, s) = 1 /\ Levels(fs, s, s) # {}
         /\ \A x : 1 \in Levels(fs, s, x) => x = s
<1>1. 1 \in Levels(fs, s, s)
  <2> DEFINE p == [i \in 1 .. 1 |-> s]
  <2>1. IsChain(fs, s, {s}, 1, p)
    BY DEF IsChain
  <2>2. QED
    BY <2>1 DEF Levels
<1>2. Level(fs, s, s) = 1
  BY <1>1, LevelIsLeast
<1>3. \A x : 1 \in Levels(fs, s, x) => x = s
  BY DEF Levels, IsChain
<1>4. QED
  BY <1>1, <1>2, <1>3

-----------------------------------------------------------------------------
(***************************************************************************)
(* reconstruct_path: the function it follows the predecessors with is      *)
(* defined on all numbers.                                                 *)
(***************************************************************************)
IsBack(pre, end, f) == f = [n \in Nat |-> IF n = 0 THEN end ELSE pre[f[n - 1]]]

(* Its first values.                                                       *)
IsBackTo(pre, end, n, f) == f[0] = end /\ \A k \in 1 .. n : f[k] = pre[f[k - 1]]

LEMMA BackAgrees ==
  ASSUME NEW pre, NEW end, NEW n \in Nat, NEW m \in Nat,
         NEW f, NEW g, IsBackTo(pre, end, n, f), IsBackTo(pre, end, m, g),
         NEW k \in Nat, k <= n, k <= m
  PROVE  f[k] = g[k]
<1> DEFINE Bad == {i \in Nat : i <= n /\ i <= m /\ f[i] # g[i]}
<1>1. ASSUME Bad # {}
      PROVE  FALSE
  <2>1. PICK i \in Bad : \A j \in Bad : i <= j
    <3>1. Bad \in SUBSET Nat
      OBVIOUS
    <3> HIDE DEF Bad
    <3>2. QED
      BY <1>1, <3>1, LeastOf
  <2>2. i \in Nat /\ i <= n /\ i <= m /\ f[i] # g[i]
    OBVIOUS
  <2>3. i # 0
    BY <2>2 DEF IsBackTo
  <2>4. i \in 1 .. n /\ i \in 1 .. m /\ i - 1 \in Nat /\ i - 1 <= n /\ i - 1 <= m /\ ~(i <= i - 1)
    BY <2>2, <2>3
  <2>5. f[i - 1] = g[i - 1]
    BY <2>1, <2>4
  <2>6. f[i] = pre[f[i - 1]] /\ g[i] = pre[g[i - 1]]
    BY <2>4 DEF IsBackTo
  <2>7. QED
    BY <2>2, <2>5, <2>6
<1>2. QED
  BY <1>1

LEMMA BackExists ==
  ASSUME NEW pre, NEW end
  PROVE  IsBack(pre, end, CHOOSE f : IsBack(pre, end, f))
<1> DEFINE Good(n) == \E f : IsBackTo(pre, end, n, f)
           Bad == {n \in Nat : ~Good(n)}
<1>1. ASSUME Bad # {}
      PROVE  FALSE
  <2>1. PICK n \in Bad : \A j \in Bad : n <= j
    <3>1. Bad \in SUBSET Nat
      OBVIOUS
    <3> HIDE DEF Bad
    <3>2. QED
      BY <1>1, <3>1, LeastOf
  <2>2. n \in Nat /\ ~Good(n)
    OBVIOUS
  <2>3. CASE n = 0
    <3> DEFINE f == [k \in {0} |-> end]
    <3>1. IsBackTo(pre, end, 0, f)
      BY DEF IsBackTo
    <3>2. QED
      BY <2>2, <2>3, <3>1
  <2>4. CASE n # 0
    <3>1. n - 1 \in Nat /\ ~(n <= n - 1)
      BY <2>2, <2>4
    <3>2. Good(n - 1)
      BY <2>1, <3>1
    <3>3. PICK g : IsBackTo(pre, end, n - 1, g)
      BY <3>2
    <3> DEFINE f == [k \in 0 .. n |-> IF k = n THEN pre[g[n - 1]] ELSE g[k]]
    <3>4. f[0] = end
      BY <2>2, <2>4, <3>3 DEF IsBackTo
    <3>5. ASSUME NEW k \in 1 .. n
          PROVE  f[k] = pre[f[k - 1]]
      <4>1. k \in 0 .. n /\ k - 1 \in 0 .. n /\ k - 1 # n /\ f[k - 1] = g[k - 1]
        BY <2>2
      <4>2. CASE k = n
        BY <4>1, <4>2
      <4>3. CASE k # n
        <5>1. k \in 1 .. n - 1
          BY <2>2, <4>3
        <5>2. f[k] = g[k] /\ g[k] = pre[g[k - 1]]
          BY <3>3, <4>1, <4>3, <5>1 DEF IsBackTo
        <5>3. QED
          BY <4>1, <5>2
      <4>4. QED
        BY <4>2, <4>3
    <3> HIDE DEF f
    <3>6. IsBackTo(pre, end, n, f)
      BY <3>4, <3>5 DEF IsBackTo
    <3>7. QED
      BY <2>2, <3>6
  <2>5. QED
    BY <2>3, <2>4
<1>2. \A n \in Nat : IsBackTo(pre, end, n, CHOOSE f : IsBackTo(pre, end, n, f))
  BY <1>1
<1> DEFINE part(n) == CHOOSE f : IsBackTo(pre, end, n, f)
           back == [n \in Nat |-> part(n)[n]]
<1> HIDE DEF part
<1>3. ASSUME NEW n \in Nat
      PROVE  back[n] = IF n = 0 THEN end ELSE pre[back[n - 1]]
  <2>1. IsBackTo(pre, end, n, part(n))
    BY <1>2 DEF part
  <2>2. CASE n = 0
    BY <2>1, <2>2 DEF IsBackTo
  <2>3. CASE n # 0
    <3>1. n - 1 \in Nat /\ n \in 1 .. n /\ n - 1 <= n /\ n - 1 <= n - 1
      BY <2>3
    <3>2. IsBackTo(pre, end, n - 1, part(n - 1))
      BY <1>2, <3>1 DEF part
    <3>3. part(n)[n - 1] = part(n - 1)[n - 1]
      BY <2>1, <3>1, <3>2, BackAgrees
    <3>4. part(n)[n] = pre[part(n)[n - 1]]
      BY <2>1, <3>1 DEF IsBackTo
    <3>5. QED
      BY <2>3, <3>1, <3>3, <3>4
  <2>4. QED
    BY <2>2, <2>3
<1>4. back = [n \in Nat |-> back[n]]
  OBVIOUS
<1> HIDE DEF back
<1>5. back = [n \in Nat |-> IF n = 0 THEN end ELSE pre[back[n - 1]]]
  BY <1>3, <1>4
<1>6. IsBack(pre, end, back)
  BY <1>5 DEF IsBack
<1>7. QED
  BY <1>6

(* A predecessor map that leads every symbol of S one level up, inside S.  *)
IsTree(fs, s, S, pre) ==
  \A x \in S :
    /\ Levels(fs, s, x) # {}
    /\ x # s => /\ pre[x] \in S
                /\ Uses(fs, pre[x], x)
                /\ Level(fs, s, x) = Level(fs, s, pre[x]) + 1

(* Following it, each hop is one level up: the start is met after as many  *)
(* hops as the level says, and not before.                                 *)
LEMMA BackClimbs ==
  ASSUME NEW fs, NEW s \in Symbol, NEW S \in SUBSET Symbol, s \in S,
         NEW pre, IsTree(fs, s, S, pre), NEW end \in S, NEW f, IsBack(pre, end, f),
         NEW n, n = Level(fs, s, end)
  PROVE  /\ n \in Nat \ {0}
         /\ \A k \in 0 .. n - 1 : f[k] \in S /\ Level(fs, s, f[k]) = n - k
         /\ \A k \in 0 .. n - 1 : f[k] = s <=> k = n - 1
         /\ \A k \in 1 .. n - 1 : f[k] = pre[f[k - 1]]
<1> DEFINE D(x) == Level(fs, s, x)
<1>1. \A x \in S : D(x) \in Nat \ {0} /\ D(x) \in Levels(fs, s, x)
  BY LevelIsLeast DEF IsTree
<1>2. n \in Nat \ {0}
  BY <1>1
<1>3. \A x \in S : D(x) = 1 <=> x = s
  <2>1. D(s) = 1 /\ \A x : 1 \in Levels(fs, s, x) => x = s
    BY FirstLevel
  <2>2. QED
    BY <1>1, <2>1
<1>4. f[0] = end /\ \A k \in Nat \ {0} : f[k] = pre[f[k - 1]]
  <2>1. \A k \in Nat : f[k] = IF k = 0 THEN end ELSE pre[f[k - 1]]
    BY Zenon DEF IsBack
  <2>2. QED
    BY <2>1
<1>5. \A x \in S : x # s => pre[x] \in S /\ D(x) = D(pre[x]) + 1
  BY DEF IsTree
<1> DEFINE Bad == {k \in 0 .. n - 1 : ~(f[k] \in S /\ D(f[k]) = n - k)}
<1>6. n = D(end)
  OBVIOUS
<1> HIDE DEF D
<1>7. ASSUME Bad # {}
      PROVE  FALSE
  <2>1. PICK k \in Bad : \A j \in Bad : k <= j
    <3>1. Bad \in SUBSET Nat
      BY <1>2
    <3> HIDE DEF Bad
    <3>2. QED
      BY <1>7, <3>1, LeastOf
  <2>2. k \in 0 .. n - 1 /\ ~(f[k] \in S /\ D(f[k]) = n - k)
    OBVIOUS
  <2>3. k # 0
    BY <1>2, <1>4, <1>6, <2>2
  <2>4. k - 1 \in 0 .. n - 1 /\ ~(k <= k - 1) /\ k \in Nat \ {0}
    BY <1>2, <2>2, <2>3
  <2>5. f[k - 1] \in S /\ D(f[k - 1]) = n - (k - 1)
    BY <2>1, <2>4
  <2>6. n - (k - 1) # 1
    BY <1>2, <2>2, <2>4
  <2>7. f[k - 1] # s
    BY <1>3, <2>5, <2>6
  <2>8. f[k] \in S /\ D(f[k - 1]) = D(f[k]) + 1
    BY <1>4, <1>5, <2>4, <2>5, <2>7
  <2>9. D(f[k]) \in Nat
    BY <1>1, <2>8
  <2>10. D(f[k]) = n - k
    BY <1>2, <2>2, <2>4, <2>5, <2>8, <2>9
  <2>11. QED
    BY <2>2, <2>8, <2>10
<1>8. \A k \in 0 .. n - 1 : f[k] \in S /\ D(f[k]) = n - k
  BY <1>7
<1>9. \A k \in 0 .. n - 1 : f[k] = s <=> k = n - 1
  <2>1. ASSUME NEW k \in 0 .. n - 1
        PROVE  n - k = 1 <=> k = n - 1
    BY <1>2
  <2>2. QED
    BY <1>3, <1>8, <2>1
<1>10. \A k \in 1 .. n - 1 : f[k] = pre[f[k - 1]]
  BY <1>2, <1>4
<1>11. QED
  BY <1>2, <1>8, <1>9, <1>10 DEF D

(* Read backwards, the hops are a shortest chain, and there are no more    *)
(* symbols on it than there are.                                           *)
LEMMA BackIsChain ==
  ASSUME NEW fs, NEW s \in Symbol, NEW S \in SUBSET Symbol, s \in S,
         NEW pre, IsTree(fs, s, S, pre), NEW end \in S, NEW T, end \in T,
         NEW f, IsBack(pre, end, f), NEW n, n = Level(fs, s, end)
  PROVE  /\ n \in 1 .. Cardinality(Symbol)
         /\ IsChain(fs, s, T, n, [i \in 1 .. n |-> f[n - i]])
<1>1. /\ n \in Nat \ {0}
      /\ \A k \in 0 .. n - 1 : f[k] \in S /\ Level(fs, s, f[k]) = n - k
      /\ \A k \in 0 .. n - 1 : f[k] = s <=> k = n - 1
      /\ \A k \in 1 .. n - 1 : f[k] = pre[f[k - 1]]
  <2>1. n \in Nat \ {0}
    BY BackClimbs
  <2>2. \A k \in 0 .. n - 1 : f[k] \in S /\ Level(fs, s, f[k]) = n - k
    BY BackClimbs
  <2>3. \A k \in 0 .. n - 1 : f[k] = s <=> k = n - 1
    BY BackClimbs
  <2>4. \A k \in 1 .. n - 1 : f[k] = pre[f[k - 1]]
    BY BackClimbs
  <2>5. QED
    BY <2>1, <2>2, <2>3, <2>4
<1> DEFINE q == [i \in 1 .. n |-> f[n - i]]
<1>2. \A i \in 1 .. n : n - i \in 0 .. n - 1 /\ n - (n - i) = i
  BY <1>1
<1>3. q \in [1 .. n -> Symbol]
  BY <1>1, <1>2
<1>4. VisitsOnce(n, q)
  <2>1. \A i \in 1 .. n : Level(fs, s, q[i]) = i
    <3> TAKE i \in 1 .. n
    <3>1. q[i] = f[n - i]
      OBVIOUS
    <3> HIDE DEF q
    <3>2. Level(fs, s, f[n - i]) = n - (n - i)
      BY <1>1, <1>2
    <3>3. QED
      BY <1>2, <3>1, <3>2
  <2> HIDE DEF q
  <2>2. QED
    BY <2>1 DEF VisitsOnce
<1>5. q[1] = s
  <2>1. 1 \in 1 .. n /\ n - 1 \in 0 .. n - 1
    BY <1>1
  <2>2. QED
    BY <1>1, <2>1
<1>6. q[n] \in T
  <2>1. n \in 1 .. n /\ n - n = 0
    BY <1>1
  <2>2. f[0] = end
    <3>1. 0 \in Nat
      OBVIOUS
    <3>2. QED
      BY <3>1, Zenon DEF IsBack
  <2>3. QED
    BY <2>1, <2>2
<1>7. ASSUME NEW i \in 1 .. n - 1
      PROVE  Uses(fs, q[i], q[i + 1])
  <2>1. /\ i \in 1 .. n /\ i + 1 \in 1 .. n
        /\ n - i \in 1 .. n - 1 /\ (n - i) - 1 = n - (i + 1)
        /\ n - (i + 1) \in 0 .. n - 1 /\ n - (i + 1) # n - 1
    BY <1>1
  <2>2. q[i] = f[n - i] /\ q[i + 1] = f[n - (i + 1)]
    BY <2>1
  <2> HIDE DEF q
  <2>3. f[n - i] = pre[f[n - (i + 1)]]
    BY <1>1, <2>1
  <2>4. f[n - (i + 1)] \in S /\ f[n - (i + 1)] # s
    BY <1>1, <2>1
  <2>5. QED
    BY <2>2, <2>3, <2>4 DEF IsTree
<1> HIDE DEF q
<1>8. n <= Cardinality(Symbol)
  BY <1>1, <1>3, <1>4, SimpleChainIsShort
<1>9. IsChain(fs, s, T, n, q)
  BY <1>3, <1>5, <1>6, <1>7 DEF IsChain
<1>10. Cardinality(Symbol) \in Nat
  BY FiniteAssumption, FS_CardinalityType
<1>11. QED
  BY <1>1, <1>8, <1>9, <1>10 DEF q

LEMMA SameCardinality == Walk!Cardinality(Symbol) = Cardinality(Symbol)
BY DEF Walk!Cardinality, Cardinality

(* reconstruct_path yields that chain.                                     *)
LEMMA ReconstructIsChain ==
  ASSUME NEW fs, start \in Symbol, NEW S \in SUBSET Symbol, start \in S,
         NEW pre, IsTree(fs, start, S, pre), NEW end \in S, NEW T, end \in T,
         NEW len, len = Level(fs, start, end)
  PROVE  /\ len \in 1 .. Cardinality(Symbol)
         /\ IsChain(fs, start, T, len, Walk!reconstruct_path(pre, end))
<1> DEFINE back[n \in Nat] == IF n = 0 THEN end ELSE pre[back[n - 1]]
           hops == CHOOSE n \in 0 .. Walk!Cardinality(Symbol) :
                     /\ back[n] = start
                     /\ \A m \in 0 .. n - 1 : back[m] # start
<1>1. Walk!reconstruct_path(pre, end) = [i \in 1 .. hops + 1 |-> back[hops + 1 - i]]
  BY Zenon DEF Walk!reconstruct_path
<1>2. IsBack(pre, end, back)
  <2>1. \E f : IsBack(pre, end, f)
    BY BackExists
  <2>2. back = [k \in Nat |-> IF k = 0 THEN end ELSE pre[back[k - 1]]]
    BY <2>1 DEF IsBack
  <2>3. QED
    BY <2>2, Zenon DEF IsBack
<1> DEFINE ends(h) == back[h] = start /\ \A m \in 0 .. h - 1 : back[m] # start
<1> HIDE DEF back
<1>3. /\ len \in Nat \ {0}
      /\ \A k \in 0 .. len - 1 : back[k] = start <=> k = len - 1
  BY <1>2, BackClimbs
<1>4. len \in 1 .. Cardinality(Symbol) /\ IsChain(fs, start, T, len, [i \in 1 .. len |-> back[len - i]])
  BY <1>2, BackIsChain
<1>5. Cardinality(Symbol) \in Nat
  BY FiniteAssumption, FS_CardinalityType
<1>6. len - 1 \in 0 .. Cardinality(Symbol) /\ ends(len - 1)
  <2>1. len - 1 \in 0 .. Cardinality(Symbol) /\ len - 1 \in 0 .. len - 1
    BY <1>3, <1>4, <1>5
  <2>2. \A m \in 0 .. (len - 1) - 1 : m \in 0 .. len - 1 /\ m # len - 1
    BY <1>3
  <2>3. QED
    BY <1>3, <2>1, <2>2
<1>7. ASSUME NEW h \in 0 .. Cardinality(Symbol), ends(h)
      PROVE  h = len - 1
  <2>1. h \in Nat /\ len - 1 \in Nat
    BY <1>3, <1>5
  <2>2. CASE h > len - 1
    <3>1. len - 1 \in 0 .. h - 1
      BY <2>1, <2>2
    <3>2. QED
      BY <1>6, <1>7, <3>1
  <2>3. CASE h <= len - 1
    <3>1. h \in 0 .. len - 1
      BY <2>1, <2>3
    <3>2. QED
      BY <1>3, <1>7, <3>1
  <2>4. QED
    BY <2>1, <2>2, <2>3
<1>8. hops = len - 1
  BY <1>6, <1>7, SameCardinality
<1> HIDE DEF hops
<1>9. hops + 1 = len /\ \A i \in 1 .. len : hops + 1 - i = len - i
  BY <1>3, <1>8
<1>10. Walk!reconstruct_path(pre, end) = [i \in 1 .. len |-> back[len - i]]
  BY <1>1, <1>9
<1>11. QED
  BY <1>4, <1>10

-----------------------------------------------------------------------------
(***************************************************************************)
(* The walk in progress.  The symbols seen form a tree of shortest chains, *)
(* the queue holds them level by level starting from the level of `node`,  *)
(* and whoever is not waiting in it has had all its uses looked at, but    *)
(* for those of `node` that are still to do.                               *)
(***************************************************************************)
InQueue(x) == \E i \in 1 .. Len(queue) : queue[i] = x

LevelByLevel ==
  /\ queue \in Seq(Symbol)
  /\ \A i \in 1 .. Len(queue) :
       /\ queue[i] \in seen
       /\ Level(facts, start, node) <= Level(facts, start, queue[i])
       /\ Level(facts, start, queue[i]) <= Level(facts, start, node) + 1
  /\ \A i, j \in 1 .. Len(queue) :
       i < j => Level(facts, start, queue[i]) <= Level(facts, start, queue[j])

LookedAt ==
  \A x \in seen : InQueue(x) \/ \A y : Uses(facts, x, y) => y \in seen \/ (x = node /\ y \in todo)

BreadthInv ==
  /\ start \in seen /\ node \in seen /\ seen \in SUBSET Symbol
  /\ targets \cap seen = {}
  /\ \A y \in todo : Uses(facts, node, y)
  /\ prev \in [Symbol -> Symbol \cup {NoSymbol}]
  /\ IsTree(facts, start, seen, prev)
  /\ LevelByLevel
  /\ LookedAt

(* The walk that has returned: None when there is no chain, or a shortest. *)
WalkDone ==
  IF result = None
  THEN UsePaths(facts, start, targets) = {}
  ELSE /\ result \in UsePaths(facts, start, targets)
       /\ \A q \in UsePaths(facts, start, targets) : Len(result) <= Len(q)

WalkInv ==
  pair # NoPair =>
    /\ phase = "attach" /\ pair \in unattached
    /\ start = pair[1] /\ targets = RootsOf(facts, pair[2])
    /\ result = Pending => BreadthInv
    /\ result # Pending => WalkDone

ExplainedInv == AttachedInv /\ WalkInv

(* The levels of the symbols seen are numbers.                             *)
LEMMA SeenLevels ==
  ASSUME BreadthInv
  PROVE  \A x \in seen : /\ Level(facts, start, x) \in Nat \ {0}
                         /\ Level(facts, start, x) \in Levels(facts, start, x)
BY LevelIsLeast DEF BreadthInv, IsTree

(* A chain meets symbols that were not seen only below the level of        *)
(* `node`, and only while there is something left to look at.              *)
LEMMA Frontier ==
  ASSUME BreadthInv, NEW T, NEW n \in Nat \ {0}, NEW p, IsChain(facts, start, T, n, p),
         NEW k \in 1 .. n, p[k] \notin seen
  PROVE  k >= Level(facts, start, node) + 1 /\ (todo # {} \/ queue # <<>>)
<1>1. p[1] = start /\ start \in seen /\ k \in Nat \ {0}
  BY DEF IsChain, BreadthInv
<1>2. PICK i \in 1 .. k - 1 : p[i] \in seen /\ p[i + 1] \notin seen
  BY <1>1, ChainCrosses
<1>3. Uses(facts, p[i], p[i + 1])
  BY <1>2 DEF IsChain
<1>4. i \in Levels(facts, start, p[i]) /\ i \in Nat
  <2>1. i \in 1 .. n
    OBVIOUS
  <2>2. QED
    BY <2>1, PrefixLevels
<1>5. Level(facts, start, p[i]) <= i /\ Level(facts, start, p[i]) \in Nat
  BY <1>4, LevelIsLeast
<1>6. Level(facts, start, node) \in Nat
  BY SeenLevels DEF BreadthInv
<1>7. /\ Level(facts, start, node) <= Level(facts, start, p[i])
      /\ todo # {} \/ queue # <<>>
  <2>1. CASE InQueue(p[i])
    <3>1. queue # <<>>
      BY <2>1 DEF InQueue
    <3>2. QED
      BY <2>1, <3>1 DEF InQueue, BreadthInv, LevelByLevel
  <2>2. CASE ~InQueue(p[i])
    <3>1. p[i] = node /\ p[i + 1] \in todo
      BY <1>2, <1>3, <2>2 DEF BreadthInv, LookedAt
    <3>2. QED
      BY <1>6, <3>1
  <2>3. QED
    BY <2>1, <2>2
<1> HIDE DEF Level
<1>8. QED
  BY <1>2, <1>4, <1>5, <1>6, <1>7

(* So a new callee of `node` is one level further down.                    *)
LEMMA CalleeLevel ==
  ASSUME facts \in FactSet, BreadthInv, NEW y \in todo \ seen
  PROVE  /\ Level(facts, start, y) = Level(facts, start, node) + 1
         /\ Levels(facts, start, y) # {}
<1>1. node \in seen /\ Uses(facts, node, y)
  BY DEF BreadthInv
<1>2. Level(facts, start, node) \in Nat /\ Level(facts, start, node) + 1 \in Levels(facts, start, y)
  BY <1>1, SeenLevels, NextLevel
<1>3. ASSUME NEW m \in Levels(facts, start, y)
      PROVE  m >= Level(facts, start, node) + 1
  <2>1. m \in Nat \ {0}
    BY DEF Levels
  <2>2. PICK p : IsChain(facts, start, {y}, m, p)
    BY DEF Levels
  <2>3. p[m] = y /\ m \in 1 .. m
    BY <2>1, <2>2 DEF IsChain
  <2>4. QED
    BY <2>1, <2>2, <2>3, Frontier
<1>4. /\ Level(facts, start, y) \in Levels(facts, start, y)
      /\ Level(facts, start, y) \in Nat
      /\ Level(facts, start, y) <= Level(facts, start, node) + 1
  BY <1>2, LevelIsLeast
<1>5. Level(facts, start, y) >= Level(facts, start, node) + 1
  BY <1>3, <1>4
<1>6. QED
  BY <1>2, <1>4, <1>5

(* Recorded with `node` as its predecessor, it joins the tree.             *)
LEMMA CalleeJoins ==
  ASSUME facts \in FactSet, BreadthInv, NEW y \in todo \ seen
  PROVE  /\ y \in Symbol /\ seen \cup {y} \in SUBSET Symbol
         /\ [prev EXCEPT ![y] = node] \in [Symbol -> Symbol \cup {NoSymbol}]
         /\ IsTree(facts, start, seen \cup {y}, [prev EXCEPT ![y] = node])
<1>1. /\ start \in seen /\ node \in seen /\ seen \in SUBSET Symbol /\ Uses(facts, node, y)
      /\ prev \in [Symbol -> Symbol \cup {NoSymbol}]
  BY DEF BreadthInv
<1>2. y \in Symbol
  BY <1>1, UsesBetweenSymbols
<1> DEFINE pre == [prev EXCEPT ![y] = node]
<1>3. pre \in [Symbol -> Symbol \cup {NoSymbol}]
  BY <1>1, <1>2
<1>4. pre[y] = node /\ \A x \in seen : pre[x] = prev[x]
  BY <1>1, <1>2
<1> HIDE DEF pre
<1>5. ASSUME NEW x \in seen
      PROVE  /\ Levels(facts, start, x) # {}
             /\ x # start => /\ pre[x] \in seen
                             /\ Uses(facts, pre[x], x)
                             /\ Level(facts, start, x) = Level(facts, start, pre[x]) + 1
  BY <1>4 DEF BreadthInv, IsTree
<1>6. IsTree(facts, start, seen \cup {y}, pre)
  BY <1>1, <1>4, <1>5, CalleeLevel DEF IsTree
<1>7. QED
  BY <1>1, <1>2, <1>3, <1>6 DEF pre

-----------------------------------------------------------------------------
(* The steps of the walk.                                                  *)
LEMMA SameUses == ASSUME NEW fs, NEW s PROVE Walk!uses_of(fs, s) = uses_of(fs, s)
BY DEF Walk!uses_of, Walk!carries_effects, uses_of, carries_effects

(* The call: the start is the whole tree, or the answer.                   *)
LEMMA CallStarts ==
  ASSUME facts \in FactSet, facts' = facts, NEW s \in Symbol, NEW R, Walk!Call(s, R)
  PROVE  /\ start' = s /\ targets' = R
         /\ result' = Pending => BreadthInv'
         /\ result' # Pending => WalkDone'
<1>1. /\ start' = s /\ targets' = R /\ prev' = [t \in Symbol |-> NoSymbol]
      /\ seen' = {s} /\ queue' = <<s>> /\ node' = s /\ todo' = {}
      /\ result' = IF s \in R THEN <<s>> ELSE Pending
  BY DEF Walk!Call
<1>2. CASE s \in R
  <2>1. result' = <<s>> /\ <<s>> \in Seq(Symbol) /\ Len(<<s>>) = 1
    BY <1>1, <1>2
  <2>2. result' # Pending /\ result' # None
    BY <2>1, WalkAssumption
  <2>3. IsChain(facts, s, R, 1, <<s>>)
    <3>1. <<s>> \in [1 .. 1 -> Symbol] /\ <<s>>[1] = s
      OBVIOUS
    <3>2. QED
      BY <1>2, <3>1 DEF IsChain
  <2>4. 1 \in 1 .. Cardinality(Symbol)
    <3>1. VisitsOnce(1, <<s>>) /\ <<s>> \in [1 .. 1 -> Symbol]
      BY DEF VisitsOnce
    <3>2. 1 <= Cardinality(Symbol)
      BY <3>1, SimpleChainIsShort
    <3>3. Cardinality(Symbol) \in Nat
      BY FiniteAssumption, FS_CardinalityType
    <3>4. QED
      BY <3>2, <3>3
  <2>5. <<s>> \in UsePaths(facts, s, R)
    BY <2>3, <2>4, ChainsAreUsePaths
  <2>6. \A q \in UsePaths(facts, s, R) : 1 <= Len(q)
    <3>1. Cardinality(Symbol) \in Nat
      BY FiniteAssumption, FS_CardinalityType
    <3>2. QED
      BY <3>1, UsePathIsChain
  <2>7. UsePaths(facts, start, targets)' = UsePaths(facts, s, R)
    BY <1>1 DEF UsePaths, uses_of
  <2>8. WalkDone'
    BY <2>1, <2>2, <2>5, <2>6, <2>7 DEF WalkDone
  <2>9. QED
    BY <1>1, <2>2, <2>8
<1>3. CASE s \notin R
  <2>1. result' = Pending
    BY <1>1, <1>3
  <2>2. (targets \cap seen = {})'
    BY <1>1, <1>3
  <2>3. IsTree(facts, start, seen, prev)'
    BY <1>1, FirstLevel DEF IsTree
  <2>4. LevelByLevel'
    <3>1. Level(facts, s, s) \in Nat /\ Len(queue') = 1 /\ queue' \in Seq(Symbol) /\ queue'[1] = s
      BY <1>1, FirstLevel
    <3>2. \A i \in 1 .. 1 : i = 1
      OBVIOUS
    <3> HIDE DEF Level
    <3>3. QED
      BY <1>1, <3>1, <3>2 DEF LevelByLevel
  <2>5. LookedAt'
    <3>1. Len(queue') = 1 /\ queue'[1] = s /\ 1 \in 1 .. 1
      BY <1>1
    <3>2. QED
      BY <1>1, <3>1 DEF LookedAt, InQueue
  <2>6. BreadthInv'
    BY <1>1, <2>2, <2>3, <2>4, <2>5 DEF BreadthInv
  <2>7. QED
    BY <1>1, <2>1, <2>6
<1>4. QED
  BY <1>2, <1>3

LEMMA PopFrontKeeps ==
  ASSUME facts \in FactSet, BreadthInv, facts' = facts, Walk!PopFront
  PROVE  BreadthInv' /\ result' = Pending
<1>1. /\ result = Pending /\ todo = {} /\ queue # <<>>
      /\ node' = Head(queue) /\ queue' = Tail(queue)
      /\ UNCHANGED <<facts, start, targets, prev, seen, result>>
  BY DEF Walk!PopFront
<1>2. \A y : y \in todo' <=> Uses(facts, node', y)
  BY <1>1, SameUses, UsedSymbols DEF Walk!PopFront
<1>3. /\ queue \in Seq(Symbol) /\ Len(queue) \in Nat \ {0} /\ node' = queue[1]
      /\ queue' \in Seq(Symbol) /\ Len(queue') = Len(queue) - 1
      /\ \A i \in 1 .. Len(queue') : queue'[i] = queue[i + 1]
  BY <1>1 DEF BreadthInv, LevelByLevel
<1>4. /\ 1 \in 1 .. Len(queue)
      /\ \A i \in 1 .. Len(queue') : i + 1 \in 1 .. Len(queue) /\ 1 < i + 1
  BY <1>3
<1>5. node' \in seen
  BY <1>3, <1>4 DEF BreadthInv, LevelByLevel
<1>6. /\ Level(facts, start, node) \in Nat /\ Level(facts, start, node') \in Nat
      /\ \A i \in 1 .. Len(queue) : Level(facts, start, queue[i]) \in Nat
  BY <1>5, SeenLevels DEF BreadthInv, LevelByLevel
<1>7. LevelByLevel'
  <2>1. ASSUME NEW i \in 1 .. Len(queue')
        PROVE  /\ queue'[i] \in seen
               /\ Level(facts, start, node') <= Level(facts, start, queue'[i])
               /\ Level(facts, start, queue'[i]) <= Level(facts, start, node') + 1
    <3>1. /\ queue[i + 1] \in seen
          /\ Level(facts, start, queue[1]) <= Level(facts, start, queue[i + 1])
          /\ Level(facts, start, queue[i + 1]) <= Level(facts, start, node) + 1
          /\ Level(facts, start, node) <= Level(facts, start, queue[1])
          /\ Level(facts, start, queue[i + 1]) \in Nat
      BY <1>4, <1>6 DEF BreadthInv, LevelByLevel
    <3> HIDE DEF Level
    <3>2. QED
      BY <1>3, <1>6, <3>1
  <2>2. ASSUME NEW i \in 1 .. Len(queue'), NEW j \in 1 .. Len(queue'), i < j
        PROVE  Level(facts, start, queue'[i]) <= Level(facts, start, queue'[j])
    <3>1. i + 1 < j + 1 /\ i + 1 \in 1 .. Len(queue) /\ j + 1 \in 1 .. Len(queue)
      BY <1>3, <1>4, <2>2
    <3>2. QED
      BY <1>3, <3>1 DEF BreadthInv, LevelByLevel
  <2>3. QED
    BY <1>1, <1>3, <2>1, <2>2 DEF LevelByLevel
<1>8. LookedAt'
  <2>1. ASSUME NEW x \in seen
        PROVE  InQueue(x)' \/ \A y : Uses(facts, x, y) => y \in seen \/ (x = node' /\ y \in todo')
    <3>1. CASE x = node'
      BY <1>2, <3>1
    <3>2. CASE x # node' /\ InQueue(x)
      <4>1. PICK i \in 1 .. Len(queue) : queue[i] = x
        BY <3>2 DEF InQueue
      <4>2. i # 1
        BY <1>3, <3>2, <4>1
      <4>3. i - 1 \in 1 .. Len(queue') /\ (i - 1) + 1 = i
        BY <1>3, <4>2
      <4>4. queue'[i - 1] = x
        BY <1>3, <4>1, <4>3
      <4>5. QED
        BY <4>3, <4>4 DEF InQueue
    <3>3. CASE ~InQueue(x)
      BY <1>1, <3>3 DEF BreadthInv, LookedAt
    <3>4. QED
      BY <3>1, <3>2, <3>3
  <2>2. QED
    BY <1>1, <2>1 DEF LookedAt
<1>9. QED
  BY <1>1, <1>2, <1>5, <1>7, <1>8 DEF BreadthInv

LEMMA SkipCalleeKeeps ==
  ASSUME BreadthInv, facts' = facts, NEW y \in todo, Walk!SkipCallee(y)
  PROVE  BreadthInv' /\ result' = Pending
<1>1. /\ result = Pending /\ y \in seen /\ todo' = todo \ {y}
      /\ UNCHANGED <<facts, start, targets, prev, seen, queue, node, result>>
  BY DEF Walk!SkipCallee
<1>2. LevelByLevel' /\ LookedAt'
  BY <1>1 DEF BreadthInv, LevelByLevel, LookedAt, InQueue
<1>3. QED
  BY <1>1, <1>2 DEF BreadthInv

LEMMA ReachCalleeKeeps ==
  ASSUME facts \in FactSet, BreadthInv, facts' = facts, NEW y \in todo, Walk!ReachCallee(y)
  PROVE  (result' = Pending => BreadthInv') /\ (result' # Pending => WalkDone')
<1>1. /\ result = Pending /\ y \in todo \ seen /\ todo' = todo \ {y}
      /\ seen' = seen \cup {y} /\ prev' = [prev EXCEPT ![y] = node]
      /\ UNCHANGED <<facts, start, targets, node>>
  BY DEF Walk!ReachCallee
<1>2. /\ y \in Symbol /\ seen' \in SUBSET Symbol
      /\ prev' \in [Symbol -> Symbol \cup {NoSymbol}]
      /\ IsTree(facts, start, seen', prev')
  BY <1>1, CalleeJoins
<1>3. /\ Level(facts, start, y) = Level(facts, start, node) + 1
      /\ Level(facts, start, node) \in Nat
  BY <1>1, CalleeLevel, SeenLevels DEF BreadthInv
<1>4. CASE y \in targets
  <2> DEFINE path == Walk!reconstruct_path(prev', y)
             len == Level(facts, start, y)
  <2>1. result' = path
    BY <1>4 DEF Walk!ReachCallee
  <2>2. len \in 1 .. Cardinality(Symbol) /\ IsChain(facts, start, targets, len, path)
    BY <1>1, <1>2, <1>4, ReconstructIsChain DEF BreadthInv
  <2> HIDE DEF path
  <2>3. path \in UsePaths(facts, start, targets) /\ Len(path) = len
    BY <2>2, ChainsAreUsePaths
  <2>4. ASSUME NEW q \in UsePaths(facts, start, targets)
        PROVE  len <= Len(q)
    <3>1. Len(q) \in Nat \ {0} /\ IsChain(facts, start, targets, Len(q), q)
      <4>1. Cardinality(Symbol) \in Nat
        BY FiniteAssumption, FS_CardinalityType
      <4>2. QED
        BY <4>1, UsePathIsChain
    <3>2. q[Len(q)] \notin seen /\ Len(q) \in 1 .. Len(q)
      BY <3>1 DEF IsChain, BreadthInv
    <3>3. QED
      BY <1>3, <3>1, <3>2, Frontier
  <2>5. path # Pending /\ path # None
    <3>1. path \in Seq(Symbol)
      BY <2>2 DEF IsChain
    <3>2. QED
      BY <3>1, WalkAssumption
  <2> HIDE DEF len
  <2>6. UsePaths(facts, start, targets)' = UsePaths(facts, start, targets)
    BY <1>1 DEF UsePaths, uses_of
  <2>7. WalkDone'
    BY <2>1, <2>3, <2>4, <2>5, <2>6 DEF WalkDone
  <2>8. QED
    BY <2>1, <2>5, <2>7
<1>5. CASE y \notin targets
  <2>1. queue' = Append(queue, y) /\ result' = result
    BY <1>5 DEF Walk!ReachCallee
  <2>2. /\ queue \in Seq(Symbol) /\ Len(queue) \in Nat
        /\ queue' \in Seq(Symbol) /\ Len(queue') = Len(queue) + 1
        /\ queue'[Len(queue')] = y
        /\ \A i \in 1 .. Len(queue') : i # Len(queue') => i \in 1 .. Len(queue)
        /\ \A i \in 1 .. Len(queue) : queue'[i] = queue[i] /\ i \in 1 .. Len(queue')
    BY <1>2, <2>1 DEF BreadthInv, LevelByLevel
  <2>3. LevelByLevel'
    <3>1. ASSUME NEW i \in 1 .. Len(queue')
          PROVE  /\ queue'[i] \in seen'
                 /\ Level(facts, start, node) <= Level(facts, start, queue'[i])
                 /\ Level(facts, start, queue'[i]) <= Level(facts, start, node) + 1
      <4>1. CASE i = Len(queue')
        <5> HIDE DEF Level
        <5>1. QED
          BY <1>1, <1>3, <2>2, <4>1
      <4>2. CASE i # Len(queue')
        BY <1>1, <2>2, <4>2 DEF BreadthInv, LevelByLevel
      <4>3. QED
        BY <4>1, <4>2
    <3>2. ASSUME NEW i \in 1 .. Len(queue'), NEW j \in 1 .. Len(queue'), i < j
          PROVE  Level(facts, start, queue'[i]) <= Level(facts, start, queue'[j])
      <4>1. i \in 1 .. Len(queue)
        BY <2>2, <3>2
      <4>2. CASE j = Len(queue')
        <5>1. queue'[j] = y /\ queue'[i] = queue[i]
          BY <2>2, <4>1, <4>2
        <5>2. Level(facts, start, queue[i]) <= Level(facts, start, node) + 1
          BY <4>1 DEF BreadthInv, LevelByLevel
        <5>3. QED
          BY <1>3, <5>1, <5>2
      <4>3. CASE j # Len(queue')
        <5>1. j \in 1 .. Len(queue)
          BY <2>2, <4>3
        <5>2. queue'[i] = queue[i] /\ queue'[j] = queue[j]
          BY <2>2, <4>1, <5>1
        <5>3. QED
          BY <3>2, <4>1, <5>1, <5>2 DEF BreadthInv, LevelByLevel
      <4>4. QED
        BY <4>2, <4>3
    <3>3. QED
      BY <1>1, <2>2, <3>1, <3>2 DEF LevelByLevel
  <2>4. LookedAt'
    <3>1. ASSUME NEW x \in seen'
          PROVE  InQueue(x)' \/ \A z : Uses(facts, x, z) => z \in seen' \/ (x = node /\ z \in todo')
      <4>1. CASE x = y
        <5>1. Len(queue') \in 1 .. Len(queue')
          BY <2>2
        <5>2. QED
          BY <2>2, <4>1, <5>1 DEF InQueue
      <4>2. CASE InQueue(x)
        BY <2>2, <4>2 DEF InQueue
      <4>3. CASE x # y /\ ~InQueue(x)
        BY <1>1, <4>3 DEF BreadthInv, LookedAt
      <4>4. QED
        BY <4>1, <4>2, <4>3
    <3>2. QED
      BY <1>1, <3>1 DEF LookedAt
  <2>5. BreadthInv'
    <3>1. /\ (start \in seen /\ node \in seen /\ seen \in SUBSET Symbol)'
          /\ (targets \cap seen = {})' /\ (\A z \in todo : Uses(facts, node, z))'
      BY <1>1, <1>2, <1>5 DEF BreadthInv
    <3>2. QED
      BY <1>1, <1>2, <2>3, <2>4, <3>1 DEF BreadthInv
  <2>6. QED
    BY <1>1, <2>1, <2>5
<1>6. QED
  BY <1>4, <1>5

(* Nothing left to look at: no symbol outside `seen` is on any chain.      *)
LEMMA GiveUpMeansNoPath ==
  ASSUME facts \in FactSet, BreadthInv, facts' = facts, Walk!GiveUp
  PROVE  result' # Pending /\ WalkDone'
<1>1. /\ todo = {} /\ queue = <<>> /\ result' = None
      /\ UNCHANGED <<facts, start, targets>>
  BY DEF Walk!GiveUp
<1>2. ASSUME NEW q \in UsePaths(facts, start, targets)
      PROVE  FALSE
  <2>1. Len(q) \in Nat \ {0} /\ IsChain(facts, start, targets, Len(q), q)
    <3>1. Cardinality(Symbol) \in Nat
      BY FiniteAssumption, FS_CardinalityType
    <3>2. QED
      BY <3>1, UsePathIsChain
  <2>2. q[Len(q)] \notin seen /\ Len(q) \in 1 .. Len(q)
    BY <2>1 DEF IsChain, BreadthInv
  <2>3. QED
    BY <1>1, <2>1, <2>2, Frontier
<1>3. UsePaths(facts, start, targets)' = UsePaths(facts, start, targets)
  BY <1>1 DEF UsePaths, uses_of
<1>4. QED
  BY <1>1, <1>2, <1>3, WalkAssumption DEF WalkDone

-----------------------------------------------------------------------------
(***************************************************************************)
(* The engine with its walks.                                              *)
(***************************************************************************)
LEMMA ExplainedStarts == ExplainedInit => ExplainedInv
BY AttachedInit DEF ExplainedInit, ExplainedInv, WalkInv

(* Everything but the pair and its walk is as DbspEngine would have it.    *)
LEMMA WalkOnKeeps ==
  ASSUME ExplainedInv, WalkOn
  PROVE  UNCHANGED vars /\ WalkInv'
<1>1. /\ pair # NoPair /\ facts \in FactSet
      /\ UNCHANGED <<phase, edge_set, pairs, unattached, effects, evidence, pair>>
  BY DEF WalkOn, ExplainedInv, AttachedInv, DbspInv, TypeOK
<1>2. /\ phase = "attach" /\ pair \in unattached
      /\ start = pair[1] /\ targets = RootsOf(facts, pair[2])
      /\ result = Pending => BreadthInv
  BY <1>1 DEF ExplainedInv, WalkInv
<1>3. PICK y \in todo \cup {pair} : \/ Walk!PopFront
                                    \/ y \in todo /\ Walk!SkipCallee(y)
                                    \/ y \in todo /\ Walk!ReachCallee(y)
                                    \/ Walk!GiveUp
  BY DEF WalkOn, Walk!Next
<1>4. UNCHANGED <<facts, start, targets>> /\ result = Pending
  BY <1>3 DEF Walk!PopFront, Walk!SkipCallee, Walk!ReachCallee, Walk!GiveUp
<1>5. (result' = Pending => BreadthInv') /\ (result' # Pending => WalkDone')
  BY <1>1, <1>2, <1>3, <1>4, PopFrontKeeps, SkipCalleeKeeps, ReachCalleeKeeps, GiveUpMeansNoPath
<1>6. RootsOf(facts, pair[2])' = RootsOf(facts, pair[2])
  BY <1>1, <1>4 DEF RootsOf
<1>7. QED
  BY <1>1, <1>2, <1>4, <1>5, <1>6 DEF vars, WalkInv

LEMMA ExplainKeeps ==
  ASSUME ExplainedInv, Explain
  PROVE  UNCHANGED vars /\ WalkInv'
<1>1. /\ phase = "attach" /\ unattached # {} /\ UNCHANGED vars
      /\ pair' = CHOOSE p \in unattached : TRUE
      /\ Walk!Call(pair'[1], RootsOf(facts, pair'[2]))
  <2>1. \A s, e : Walk!RootsOf(s, e) = RootsOf(s, e)
    BY DEF Walk!RootsOf, RootsOf
  <2>2. QED
    BY <2>1 DEF Explain
<1>2. facts' = facts /\ phase' = "attach" /\ unattached' = unattached
  BY <1>1 DEF vars
<1>3. pair' \in unattached
  BY <1>1
<1>4. facts \in FactSet /\ pair'[1] \in Symbol
  BY <1>3 DEF ExplainedInv, AttachedInv, DbspInv, TypeOK
<1>5. /\ start' = pair'[1] /\ targets' = RootsOf(facts, pair'[2])
      /\ (result' = Pending => BreadthInv') /\ (result' # Pending => WalkDone')
  BY <1>1, <1>2, <1>4, CallStarts
<1>6. RootsOf(facts, pair[2])' = RootsOf(facts, pair'[2])
  BY <1>2 DEF RootsOf
<1>7. QED
  BY <1>1, <1>2, <1>3, <1>5, <1>6 DEF WalkInv

(* What the walk has come back with is what DbspEngine asks for.           *)
LEMMA RecordAttaches ==
  ASSUME ExplainedInv, Record
  PROVE  \E p \in unattached : Attach(p)
<1>1. /\ pair # NoPair /\ result # Pending
      /\ unattached' = unattached \ {pair}
      /\ effects' = [effects EXCEPT ![pair[1]] = @ \cup {pair[2]}]
      /\ evidence' = IF result = None THEN evidence
                     ELSE [evidence EXCEPT ![pair[1]][pair[2]] = result]
      /\ UNCHANGED <<facts, phase, edge_set, pairs>>
  BY DEF Record
<1>2. /\ phase = "attach" /\ pair \in unattached
      /\ start = pair[1] /\ targets = RootsOf(facts, pair[2]) /\ WalkDone
  BY <1>1 DEF ExplainedInv, WalkInv
<1>3. TypeOK /\ EvidenceIsWalked
  BY DEF ExplainedInv, AttachedInv, DbspInv
<1>4. pair = <<pair[1], pair[2]>> /\ pair[1] \in Symbol /\ pair[2] \in Effect
  BY <1>2, <1>3 DEF TypeOK
<1> DEFINE path == IF result = None THEN <<>> ELSE result
<1>5. path \in shortest_path_to_roots(facts, pair[1], RootsOf(facts, pair[2]))
  BY <1>2 DEF WalkDone, shortest_path_to_roots
<1>6. evidence' = [evidence EXCEPT ![pair[1]][pair[2]] = path]
  <2>1. CASE result = None
    <3>1. <<pair[1], pair[2]>> \notin Visited
      BY <1>2, <1>4 DEF Visited
    <3>2. evidence[pair[1]][pair[2]] = <<>>
      BY <1>3, <1>4, <3>1 DEF EvidenceIsWalked
    <3>3. QED
      BY <1>1, <1>3, <1>4, <2>1, <3>2 DEF TypeOK
  <2>2. CASE result # None
    BY <1>1, <2>2
  <2>3. QED
    BY <2>1, <2>2
<1> HIDE DEF path
<1>7. Attach(pair)
  BY <1>1, <1>2, <1>5, <1>6 DEF Attach
<1>8. QED
  BY <1>2, <1>7

LEMMA ExplainedStep ==
  ASSUME ExplainedInv, [ExplainedNext]_<<vars, pair, walk>>
  PROVE  [Next]_vars /\ ExplainedInv'
<1>1. AttachedInv
  BY DEF ExplainedInv
<1>2. CASE Compute
  <2>1. [Next]_vars
    BY <1>2 DEF Compute, Next
  <2>2. pair = NoPair
    BY <1>2 DEF Compute, LoadInputs, Iterate, Return, ExplainedInv, WalkInv
  <2>3. WalkInv'
    BY <1>2, <2>2 DEF Compute, WalkInv
  <2>4. QED
    BY <1>1, <2>1, <2>3, AttachedStep DEF ExplainedInv
<1>3. CASE Explain
  BY <1>1, <1>3, ExplainKeeps, AttachedStep DEF ExplainedInv
<1>4. CASE WalkOn
  BY <1>1, <1>4, WalkOnKeeps, AttachedStep DEF ExplainedInv
<1>5. CASE Record
  <2>1. [Next]_vars
    BY <1>5, RecordAttaches DEF Next
  <2>2. WalkInv'
    BY <1>5 DEF Record, WalkInv
  <2>3. QED
    BY <1>1, <2>1, <2>2, AttachedStep DEF ExplainedInv
<1>6. CASE UNCHANGED <<vars, pair, walk>>
  <2>1. UNCHANGED vars /\ UNCHANGED <<pair, walk>>
    BY <1>6
  <2>2. WalkInv'
    BY <2>1 DEF ExplainedInv, WalkInv, vars, walk, BreadthInv, LevelByLevel, LookedAt, InQueue,
                WalkDone, UsePaths, uses_of, RootsOf
  <2>3. QED
    BY <1>1, <2>1, <2>2, AttachedStep DEF ExplainedInv
<1>7. QED
  BY <1>2, <1>3, <1>4, <1>5, <1>6 DEF ExplainedNext

LEMMA ExplainedInvariant == ExplainedSpec => []ExplainedInv
BY ExplainedStarts, ExplainedStep, PTL DEF ExplainedSpec

(* The walks of summaries_from_pairs do what DbspEngine takes them to do:  *)
(* however a breadth-first walk goes, the path it reconstructs is a chain  *)
(* of run-time uses from the symbol to a root of the effect with the       *)
(* fewest hops, and it gives up only when there is none.                   *)
THEOREM WalksAreShortest == ExplainedSpec => WalksExplain
BY ExplainedInvariant, ExplainedStep, PTL DEF ExplainedSpec, WalksExplain

(* So the engine with its walks fails closed, attaches an evidence path    *)
(* exactly to what a symbol carries, and reports the reference engine's    *)
(* effect sets when there are no signature dependencies.                   *)
THEOREM ExplainedIsHonest ==
  ExplainedSpec =>
    [](NeverUnderReports /\ EvidenceIffCarried /\ (CallsOnly => MatchesReference))
<1>1. ExplainedInv => NeverUnderReports /\ EvidenceIffCarried /\ (CallsOnly => MatchesReference)
  BY AttachedIsHonest, NothingButCarried DEF ExplainedInv, AttachedInv
<1>2. QED
  BY <1>1, ExplainedInvariant, PTL

(* And with its walks it implements the trait's promise on such facts      *)
(* (safety part).                                                          *)
THEOREM ExplainedImplementsOnCalls ==
  ExplainedSpec => Abstract!Init /\ [][Abstract!Next]_(Abstract!vars)
<1>1. ExplainedInit => Abstract!Init
  BY DEF ExplainedInit, Init, Abstract!Init, returned
<1>2. ASSUME ExplainedInv, EvidenceIffCarried', (CallsOnly => MatchesReference)',
             [ExplainedNext]_<<vars, pair, walk>>
      PROVE  [Abstract!Next]_(Abstract!vars)
  BY <1>2, ExplainedStep, EngineStepRefines DEF ExplainedInv
<1>3. QED
  BY <1>1, <1>2, ExplainedInvariant, ExplainedIsHonest, PTL DEF ExplainedSpec
=============================================================================
