------------------------- MODULE NaiveEngineProofs -------------------------
(***************************************************************************)
(* What NaiveEngine guarantees for every finite set of symbols and every   *)
(* fact set: its evidence is genuine and acyclic, its worklist forgets     *)
(* nothing, what it returns is the least fixed point, and each of its      *)
(* steps is a step of the abstract EffectEngine or a stutter.              *)
(***************************************************************************)
EXTENDS NaiveEngine, SequenceTheorems, FiniteSetTheorems, TLAPS

(* callers_of is the run-time use relation read backwards, and stays       *)
(* within the symbols.                                                     *)
LEMMA CallersAreUsers ==
  ASSUME NEW fs \in FactSet, NEW t \in Symbol
  PROVE  /\ callers_of(fs, t) \subseteq Symbol
         /\ \A s : s \in callers_of(fs, t) <=> Uses(fs, s, t)
BY DEF callers_of, Uses, carries_effects, FactSet, Edge, EdgeKind

(* An order of a finite set lists exactly its members.                     *)
LEMMA OrdersList ==
  ASSUME NEW S, IsFiniteSet(S), NEW q \in Orders(S)
  PROVE  /\ q \in Seq(S)
         /\ \A s \in S : \E i \in 1 .. Len(q) : q[i] = s
<1>1. Cardinality(S) \in Nat
  BY FS_CardinalityType
<1>2. q \in [1 .. Cardinality(S) -> S]
  BY DEF Orders
<1>3. q \in Seq(S) /\ Len(q) = Cardinality(S)
  BY <1>1, <1>2
<1>4. QED
  BY <1>1, <1>2, <1>3 DEF Orders

(* The symbols that learn an effect are symbols, and finitely many.        *)
LEMMA LearnersFinite ==
  ASSUME TypeOK, NEW sym \in Symbol
  PROVE  Learners(sym) \subseteq Symbol /\ IsFiniteSet(Learners(sym))
<1>1. Learners(sym) \subseteq Symbol
  BY CallersAreUsers DEF Learners, TypeOK
<1>2. QED
  BY <1>1, FS_Subset, FiniteAssumption

-----------------------------------------------------------------------------
(* Type correctness: the variables keep their types.                       *)
LEMMA InitTypeOK == Init => TypeOK
<1> SUFFICES ASSUME Init PROVE TypeOK
  OBVIOUS
<1>1. facts \in FactSet
  BY FactsAssumption DEF Init
<1>2. <<>> \in Seq(Symbol)
  OBVIOUS
<1>3. evidence \in [Symbol -> [Effect -> Seq(Symbol)]]
  BY <1>2 DEF Init
<1>4. effects \in [Symbol -> SUBSET Effect]
  BY DEF Init
<1>5. QED
  BY <1>1, <1>2, <1>3, <1>4 DEF Init, TypeOK

(* Each step keeps the types: one case per action.                         *)
LEMMA NextTypeOK == TypeOK /\ [Next]_vars => TypeOK'
<1> SUFFICES ASSUME TypeOK, [Next]_vars PROVE TypeOK'
  OBVIOUS
<1>1. ASSUME NEW r \in unseeded, SeedRoot(r) PROVE TypeOK'
  <2>1. r.symbol \in Symbol /\ r.effect \in Effect
    BY DEF TypeOK, FactSet, EffectRoot
  <2>2. work' \in Seq(Symbol)
    BY <1>1, <2>1 DEF SeedRoot, TypeOK
  <2>3. <<r.symbol>> \in Seq(Symbol)
    BY <2>1
  <2>4. evidence' \in [Symbol -> [Effect -> Seq(Symbol)]]
    BY <1>1, <2>1, <2>3 DEF SeedRoot, TypeOK
  <2>5. effects' \in [Symbol -> SUBSET Effect]
    BY <1>1, <2>1 DEF SeedRoot, TypeOK
  <2>6. QED
    BY <1>1, <2>2, <2>4, <2>5 DEF SeedRoot, TypeOK
<1>2. CASE PopFront
  <2> DEFINE sym == Head(work)
  <2>1. sym \in Symbol /\ Tail(work) \in Seq(Symbol)
    BY <1>2 DEF PopFront, TypeOK
  <2>2. effects' \in [Symbol -> SUBSET Effect]
    BY <1>2, <2>1 DEF PopFront, TypeOK
  <2>3. ASSUME NEW c \in Symbol, NEW e \in Effect
        PROVE  <<c>> \o evidence[sym][e] \in Seq(Symbol)
    BY <2>1 DEF TypeOK
  <2>4. evidence' \in [Symbol -> [Effect -> Seq(Symbol)]]
    <3>1. evidence' = ExtendedEvidence(sym)
      BY <1>2 DEF PopFront
    <3>2. QED
      BY <3>1, <2>3 DEF ExtendedEvidence, TypeOK
  <2>5. work' \in Seq(Symbol)
    <3>1. PICK pushed \in Orders(Learners(sym)) : work' = Tail(work) \o pushed
      BY <1>2 DEF PopFront
    <3>2. pushed \in Seq(Symbol)
      BY <2>1, LearnersFinite, OrdersList, SeqMonotonic
    <3>3. QED
      BY <2>1, <3>1, <3>2
  <2>6. QED
    BY <1>2, <2>2, <2>4, <2>5 DEF PopFront, TypeOK
<1>3. CASE Return
  BY <1>3 DEF Return, TypeOK
<1>4. CASE UNCHANGED vars
  BY <1>4 DEF vars, TypeOK
<1>5. QED
  BY <1>1, <1>2, <1>3, <1>4 DEF Next

(* Type correctness of the reference engine.                               *)
THEOREM TypeCorrect == Spec => []TypeOK
BY InitTypeOK, NextTypeOK, PTL DEF Spec

-----------------------------------------------------------------------------
(***************************************************************************)
(* The evidence.  EvidenceSound is inductive once the symbols on a path    *)
(* are known to carry the effect too: the caller that is prepended did not *)
(* carry it yet, which is why no path ever visits a symbol twice.          *)
(***************************************************************************)
PathCarries ==
  \A s \in Symbol, e \in Effect :
    \A i \in 1 .. Len(evidence[s][e]) :
      /\ evidence[s][e][i] \in Symbol
      /\ e \in effects[evidence[s][e][i]]

EvidenceInv == EvidenceSound /\ PathCarries /\ EvidenceAcyclic

(* The one-symbol path a root is seeded with.                              *)
LEMMA SeedPath ==
  ASSUME NEW fs \in FactSet, NEW r \in fs.roots
  PROVE  IsEvidencePath(fs, r.symbol, r.effect, <<r.symbol>>)
BY DEF IsEvidencePath, IsUsePath, RootsOf

(* Prepending a user of the first symbol to an evidence path.              *)
LEMMA ExtendPath ==
  ASSUME NEW fs \in FactSet, NEW s \in Symbol, NEW c \in Symbol,
         Uses(fs, c, s), NEW e \in Effect, NEW p \in Seq(Symbol),
         IsEvidencePath(fs, s, e, p)
  PROVE  /\ <<c>> \o p \in Seq(Symbol)
         /\ Len(<<c>> \o p) = Len(p) + 1
         /\ (<<c>> \o p)[1] = c
         /\ \A i \in 2 .. Len(p) + 1 : (<<c>> \o p)[i] = p[i - 1]
         /\ IsEvidencePath(fs, c, e, <<c>> \o p)
<1> DEFINE q == <<c>> \o p
<1>1. /\ q \in Seq(Symbol)
      /\ Len(q) = Len(p) + 1
      /\ q[1] = c
      /\ \A i \in 2 .. Len(p) + 1 : q[i] = p[i - 1]
  OBVIOUS
<1>2. Len(p) \in Nat /\ Len(p) >= 1 /\ p[1] = s
  BY DEF IsEvidencePath, IsUsePath
<1>3. q[Len(q)] \in RootsOf(fs, e)
  BY <1>1, <1>2 DEF IsEvidencePath, IsUsePath
<1>4. ASSUME NEW i \in 1 .. Len(q) - 1 PROVE Uses(fs, q[i], q[i + 1])
  <2>1. CASE i = 1
    BY <1>1, <1>2, <2>1
  <2>2. CASE i # 1
    <3>1. i - 1 \in 1 .. Len(p) - 1 /\ i \in 2 .. Len(p) + 1 /\ i + 1 \in 2 .. Len(p) + 1
      BY <1>1, <1>2, <2>2
    <3>2. Uses(fs, p[i - 1], p[(i - 1) + 1])
      BY <3>1 DEF IsEvidencePath, IsUsePath
    <3>3. q[i] = p[i - 1] /\ q[i + 1] = p[(i + 1) - 1] /\ (i + 1) - 1 = (i - 1) + 1
      BY <1>1, <3>1
    <3>4. QED
      BY <3>2, <3>3
  <2>3. QED
    BY <2>1, <2>2
<1>5. q # <<>>
  BY <1>1, <1>2
<1>6. QED
  BY <1>1, <1>3, <1>4, <1>5 DEF IsEvidencePath, IsUsePath

(* Nothing is reported at first, so there is no evidence to be wrong.      *)
LEMMA InitEvidenceInv == Init => EvidenceInv
BY DEF Init, EvidenceInv, EvidenceSound, PathCarries, EvidenceAcyclic

(* Seeding gives a root's symbol the one-symbol path, or nothing new.      *)
LEMMA SeedEvidenceInv ==
  ASSUME TypeOK, EvidenceInv, NEW r \in unseeded, SeedRoot(r)
  PROVE  EvidenceInv'
<1>1. facts \in FactSet /\ r \in facts.roots /\ r.symbol \in Symbol /\ r.effect \in Effect
  BY DEF TypeOK, FactSet, EffectRoot
<1>2. facts' = facts
  BY DEF SeedRoot
<1>3. \A s \in Symbol : /\ effects[s] \subseteq effects'[s]
                        /\ s # r.symbol => effects'[s] = effects[s]
  BY <1>1 DEF SeedRoot, TypeOK
<1>4. effects'[r.symbol] = effects[r.symbol] \cup {r.effect}
  BY <1>1 DEF SeedRoot, TypeOK
<1>5. ASSUME NEW s \in Symbol, NEW e \in Effect
      PROVE  \/ evidence'[s][e] = evidence[s][e] /\ (e \in effects'[s] <=> e \in effects[s])
             \/ /\ s = r.symbol /\ e = r.effect
                /\ e \in effects'[s]
                /\ evidence'[s][e] = <<r.symbol>>
  <2>1. CASE s = r.symbol /\ e = r.effect /\ r.effect \notin effects[r.symbol]
    <3>1. evidence' = [evidence EXCEPT ![r.symbol][r.effect] = <<r.symbol>>]
      BY <2>1 DEF SeedRoot
    <3>2. QED
      BY <1>1, <1>4, <2>1, <3>1 DEF TypeOK
  <2>2. CASE s = r.symbol /\ e = r.effect /\ r.effect \in effects[r.symbol]
    BY <1>4, <2>2 DEF SeedRoot
  <2>3. CASE ~ (s = r.symbol /\ e = r.effect)
    <3>1. evidence'[s][e] = evidence[s][e]
      BY <1>1, <2>3 DEF SeedRoot, TypeOK
    <3>2. e \in effects'[s] <=> e \in effects[s]
      BY <1>1, <1>3, <1>4, <2>3 DEF TypeOK
    <3>3. QED
      BY <3>1, <3>2
  <2>4. QED
    BY <2>1, <2>2, <2>3
<1>6. EvidenceSound'
  <2> SUFFICES ASSUME NEW s \in Symbol, NEW e \in Effect
               PROVE  IF e \in effects'[s]
                      THEN IsEvidencePath(facts', s, e, evidence'[s][e])
                      ELSE evidence'[s][e] = <<>>
    BY DEF EvidenceSound
  <2>1. IF e \in effects[s] THEN IsEvidencePath(facts, s, e, evidence[s][e])
                            ELSE evidence[s][e] = <<>>
    BY DEF EvidenceInv, EvidenceSound
  <2>2. IsEvidencePath(facts, r.symbol, r.effect, <<r.symbol>>)
    BY <1>1, SeedPath
  <2>3. QED
    BY <1>2, <1>5, <2>1, <2>2
<1>7. PathCarries'
  <2> SUFFICES ASSUME NEW s \in Symbol, NEW e \in Effect,
                      NEW i \in 1 .. Len(evidence'[s][e])
               PROVE  /\ evidence'[s][e][i] \in Symbol
                      /\ e \in effects'[evidence'[s][e][i]]
    BY DEF PathCarries
  <2>1. CASE evidence'[s][e] = evidence[s][e]
    BY <1>3, <2>1 DEF EvidenceInv, PathCarries
  <2>2. CASE s = r.symbol /\ e = r.effect /\ evidence'[s][e] = <<r.symbol>>
    BY <1>1, <1>4, <2>2
  <2>3. QED
    BY <1>5, <2>1, <2>2
<1>8. EvidenceAcyclic'
  <2> SUFFICES ASSUME NEW s \in Symbol, NEW e \in Effect
               PROVE  \A i, j \in 1 .. Len(evidence'[s][e]) :
                        evidence'[s][e][i] = evidence'[s][e][j] => i = j
    BY DEF EvidenceAcyclic
  <2>1. CASE evidence'[s][e] = evidence[s][e]
    BY <2>1 DEF EvidenceInv, EvidenceAcyclic
  <2>2. CASE evidence'[s][e] = <<r.symbol>>
    BY <2>2
  <2>3. QED
    BY <1>5, <2>1, <2>2
<1>9. QED
  BY <1>6, <1>7, <1>8 DEF EvidenceInv

(* A caller's new evidence extends that of the popped symbol.              *)
LEMMA PopEvidenceInv ==
  ASSUME TypeOK, EvidenceInv, PopFront
  PROVE  EvidenceInv'
<1> DEFINE sym == Head(work)
<1>1. facts \in FactSet /\ facts' = facts /\ sym \in Symbol
  BY DEF PopFront, TypeOK
<1>2. \A c \in Symbol : effects'[c] = IF c \in callers_of(facts, sym)
                                      THEN effects[c] \cup effects[sym]
                                      ELSE effects[c]
  BY DEF PopFront
<1>3. ASSUME NEW c \in Symbol, NEW e \in Effect
      PROVE  \/ /\ evidence'[c][e] = evidence[c][e]
                /\ e \in effects'[c] <=> e \in effects[c]
             \/ /\ Uses(facts, c, sym)
                /\ e \in effects[sym] /\ e \notin effects[c] /\ e \in effects'[c]
                /\ evidence'[c][e] = <<c>> \o evidence[sym][e]
  <2>1. evidence' = ExtendedEvidence(sym)
    BY DEF PopFront
  <2>2. c \in callers_of(facts, sym) <=> Uses(facts, c, sym)
    BY <1>1, CallersAreUsers
  <2>3. CASE c \in callers_of(facts, sym) /\ e \in effects[sym] \ effects[c]
    BY <1>2, <2>1, <2>2, <2>3 DEF ExtendedEvidence
  <2>4. CASE ~ (c \in callers_of(facts, sym) /\ e \in effects[sym] \ effects[c])
    <3>1. evidence'[c][e] = evidence[c][e]
      BY <2>1, <2>4 DEF ExtendedEvidence
    <3>2. e \in effects'[c] <=> e \in effects[c]
      BY <1>2, <2>4
    <3>3. QED
      BY <3>1, <3>2
  <2>5. QED
    BY <2>3, <2>4
<1>4. ASSUME NEW c \in Symbol, NEW e \in Effect,
             Uses(facts, c, sym), e \in effects[sym],
             evidence'[c][e] = <<c>> \o evidence[sym][e]
      PROVE  /\ IsEvidencePath(facts, c, e, evidence'[c][e])
             /\ Len(evidence'[c][e]) = Len(evidence[sym][e]) + 1
             /\ Len(evidence[sym][e]) \in Nat
             /\ evidence'[c][e][1] = c
             /\ \A i \in 2 .. Len(evidence[sym][e]) + 1 :
                  evidence'[c][e][i] = evidence[sym][e][i - 1]
  <2>1. IsEvidencePath(facts, sym, e, evidence[sym][e])
    BY <1>1, <1>4 DEF EvidenceInv, EvidenceSound
  <2>2. evidence[sym][e] \in Seq(Symbol)
    BY <1>1 DEF TypeOK
  <2>3. Len(evidence[sym][e]) \in Nat
    BY <2>2
  <2>4. QED
    BY <1>1, <1>4, <2>1, <2>2, <2>3, ExtendPath
<1>5. EvidenceSound'
  <2> SUFFICES ASSUME NEW s \in Symbol, NEW e \in Effect
               PROVE  IF e \in effects'[s]
                      THEN IsEvidencePath(facts', s, e, evidence'[s][e])
                      ELSE evidence'[s][e] = <<>>
    BY DEF EvidenceSound
  <2>1. IF e \in effects[s] THEN IsEvidencePath(facts, s, e, evidence[s][e])
                            ELSE evidence[s][e] = <<>>
    BY DEF EvidenceInv, EvidenceSound
  <2>2. CASE evidence'[s][e] = evidence[s][e] /\ (e \in effects'[s] <=> e \in effects[s])
    <3>1. CASE e \in effects[s]
      BY <1>1, <2>1, <2>2, <3>1
    <3>2. CASE e \notin effects[s]
      BY <2>1, <2>2, <3>2
    <3>3. QED
      BY <3>1, <3>2
  <2>3. CASE /\ Uses(facts, s, sym) /\ e \in effects[sym] /\ e \in effects'[s]
             /\ evidence'[s][e] = <<s>> \o evidence[sym][e]
    BY <1>1, <1>4, <2>3
  <2>4. QED
    BY <1>3, <2>2, <2>3
<1>6. PathCarries'
  <2> SUFFICES ASSUME NEW s \in Symbol, NEW e \in Effect,
                      NEW i \in 1 .. Len(evidence'[s][e])
               PROVE  /\ evidence'[s][e][i] \in Symbol
                      /\ e \in effects'[evidence'[s][e][i]]
    BY DEF PathCarries
  <2>1. \A t \in Symbol : effects[t] \subseteq effects'[t]
    BY <1>2
  <2>2. CASE evidence'[s][e] = evidence[s][e]
    BY <2>1, <2>2 DEF EvidenceInv, PathCarries
  <2>3. CASE /\ Uses(facts, s, sym) /\ e \in effects[sym] /\ e \in effects'[s]
             /\ evidence'[s][e] = <<s>> \o evidence[sym][e]
    <3>1. CASE i = 1
      BY <1>4, <2>3, <3>1
    <3>2. CASE i # 1
      <4>1. i \in 2 .. Len(evidence[sym][e]) + 1 /\ i - 1 \in 1 .. Len(evidence[sym][e])
        BY <1>4, <2>3, <3>2
      <4>2. evidence'[s][e][i] = evidence[sym][e][i - 1]
        BY <1>4, <2>3, <4>1
      <4>3. QED
        BY <1>1, <2>1, <4>1, <4>2 DEF EvidenceInv, PathCarries
    <3>3. QED
      BY <3>1, <3>2
  <2>4. QED
    BY <1>3, <2>2, <2>3
<1>7. EvidenceAcyclic'
  <2> SUFFICES ASSUME NEW s \in Symbol, NEW e \in Effect
               PROVE  \A i, j \in 1 .. Len(evidence'[s][e]) :
                        evidence'[s][e][i] = evidence'[s][e][j] => i = j
    BY DEF EvidenceAcyclic
  <2>1. CASE evidence'[s][e] = evidence[s][e]
    BY <2>1 DEF EvidenceInv, EvidenceAcyclic
  <2>2. CASE /\ Uses(facts, s, sym) /\ e \in effects[sym] /\ e \notin effects[s]
             /\ evidence'[s][e] = <<s>> \o evidence[sym][e]
    <3> DEFINE p == evidence[sym][e]
               q == evidence'[s][e]
    <3>1. /\ Len(q) = Len(p) + 1
          /\ Len(p) \in Nat
          /\ q[1] = s
          /\ \A i \in 2 .. Len(p) + 1 : q[i] = p[i - 1]
      BY <1>4, <2>2
    <3>2. \A i \in 1 .. Len(p) : p[i] # s
      BY <1>1, <2>2 DEF EvidenceInv, PathCarries
    <3>3. \A i, j \in 1 .. Len(p) : p[i] = p[j] => i = j
      BY <1>1 DEF EvidenceInv, EvidenceAcyclic
    <3>4. ASSUME NEW i \in 1 .. Len(q), NEW j \in 1 .. Len(q), q[i] = q[j]
          PROVE  i = j
      <4>1. CASE i = 1 /\ j = 1
        BY <4>1
      <4>2. CASE i # 1 /\ j = 1
        <5>1. i \in 2 .. Len(p) + 1 /\ i - 1 \in 1 .. Len(p)
          BY <3>1, <4>2
        <5>2. QED
          BY <3>1, <3>2, <3>4, <4>2, <5>1
      <4>3. CASE i = 1 /\ j # 1
        <5>1. j \in 2 .. Len(p) + 1 /\ j - 1 \in 1 .. Len(p)
          BY <3>1, <4>3
        <5>2. QED
          BY <3>1, <3>2, <3>4, <4>3, <5>1
      <4>4. CASE i # 1 /\ j # 1
        <5>1. /\ i \in 2 .. Len(p) + 1 /\ i - 1 \in 1 .. Len(p)
              /\ j \in 2 .. Len(p) + 1 /\ j - 1 \in 1 .. Len(p)
          BY <3>1, <4>4
        <5>2. i - 1 = j - 1
          BY <3>1, <3>3, <3>4, <5>1
        <5>3. QED
          BY <5>1, <5>2
      <4>5. QED
        BY <4>1, <4>2, <4>3, <4>4
    <3>5. QED
      BY <3>4
  <2>3. QED
    BY <1>3, <2>1, <2>2
<1>8. QED
  BY <1>5, <1>6, <1>7 DEF EvidenceInv

(* Each step keeps every path genuine, simple and carrying its effect.     *)
LEMMA NextEvidenceInv == TypeOK /\ EvidenceInv /\ [Next]_vars => EvidenceInv'
<1>1. ASSUME EvidenceInv, UNCHANGED <<facts, effects, evidence>> PROVE EvidenceInv'
  BY <1>1 DEF EvidenceInv, EvidenceSound, PathCarries, EvidenceAcyclic
<1>2. QED
  BY <1>1, SeedEvidenceInv, PopEvidenceInv DEF Next, Return, vars

(* At every step, each reported effect is backed by a chain of run-time    *)
(* uses that ends in a root of that effect.                                *)
THEOREM EvidenceIsSound == Spec => []EvidenceSound
<1>1. EvidenceInv => EvidenceSound
  BY DEF EvidenceInv
<1>2. QED
  BY <1>1, InitEvidenceInv, NextEvidenceInv, TypeCorrect, PTL DEF Spec

(* At every step, no evidence path visits a symbol twice.                  *)
THEOREM EvidenceIsAcyclic == Spec => []EvidenceAcyclic
<1>1. EvidenceInv => EvidenceAcyclic
  BY DEF EvidenceInv
<1>2. QED
  BY <1>1, InitEvidenceInv, NextEvidenceInv, TypeCorrect, PTL DEF Spec

-----------------------------------------------------------------------------
(***************************************************************************)
(* The worklist.  WorklistCovers is inductive on its own: a symbol whose   *)
(* effects grow is queued by the same step.                                *)
(***************************************************************************)
(* At first there are no effects to hand on and no visited roots.          *)
LEMMA InitWorklistCovers == Init => WorklistCovers
BY DEF Init, WorklistCovers

Queued(s) == \E i \in 1 .. Len(work) : work[i] = s

(* Whoever still lacks an effect of its callee has that callee queued.     *)
LEMMA NextWorklistCovers == TypeOK /\ WorklistCovers /\ [Next]_vars => WorklistCovers'
<1> SUFFICES ASSUME TypeOK, WorklistCovers, [Next]_vars PROVE WorklistCovers'
  OBVIOUS
<1>0. facts \in FactSet /\ \A s \in Symbol : callers_of(facts, s) \subseteq Symbol
  BY CallersAreUsers DEF TypeOK
<1>1. ASSUME NEW r \in unseeded, SeedRoot(r) PROVE WorklistCovers'
  <2>1. r.symbol \in Symbol /\ r.effect \in Effect
    BY DEF TypeOK, FactSet, EffectRoot
  <2>2. \A s \in Symbol : effects'[s] = IF s = r.symbol THEN effects[s] \cup {r.effect}
                                                        ELSE effects[s]
    BY <1>1, <2>1 DEF SeedRoot, TypeOK
  <2>3. /\ Len(work') = Len(work) + 1
        /\ Len(work) \in Nat
        /\ \A i \in 1 .. Len(work) : work'[i] = work[i]
        /\ work'[Len(work) + 1] = r.symbol
    BY <1>1, <2>1, AppendProperties DEF SeedRoot, TypeOK
  <2>4. \A s \in Symbol : Queued(s) => Queued(s)'
    BY <2>3 DEF Queued
  <2>5. Queued(r.symbol)'
    BY <2>3 DEF Queued
  <2>6. ASSUME NEW s \in Symbol, NEW c \in callers_of(facts, s)
        PROVE  effects'[s] \subseteq effects'[c] \/ Queued(s)'
    <3>1. CASE s = r.symbol
      BY <2>5, <3>1
    <3>2. CASE s # r.symbol
      <4>1. effects[s] \subseteq effects[c] \/ Queued(s)
        BY DEF WorklistCovers, Queued
      <4>2. effects'[s] = effects[s] /\ effects[c] \subseteq effects'[c]
        BY <1>0, <2>2, <3>2
      <4>3. QED
        BY <2>4, <4>1, <4>2
    <3>3. QED
      BY <3>1, <3>2
  <2>7. ASSUME NEW q \in facts.roots \ unseeded'
        PROVE  q.effect \in effects'[q.symbol]
    <3>1. q.symbol \in Symbol
      BY DEF TypeOK, FactSet, EffectRoot
    <3>2. CASE q = r
      BY <2>1, <2>2, <3>2
    <3>3. CASE q # r
      BY <1>1, <2>2, <3>1, <3>3 DEF SeedRoot, WorklistCovers
    <3>4. QED
      BY <3>2, <3>3
  <2>8. QED
    BY <1>1, <2>6, <2>7 DEF WorklistCovers, Queued, SeedRoot
<1>2. CASE PopFront
  <2> DEFINE sym == Head(work)
             rest == Tail(work)
  <2>1. sym \in Symbol /\ rest \in Seq(Symbol) /\ work \in Seq(Symbol) /\ work # <<>>
    BY <1>2 DEF PopFront, TypeOK
  <2>2. \A c \in Symbol : effects'[c] = IF c \in callers_of(facts, sym)
                                        THEN effects[c] \cup effects[sym]
                                        ELSE effects[c]
    BY <1>2 DEF PopFront
  <2>3. PICK pushed \in Orders(Learners(sym)) : work' = rest \o pushed
    BY <1>2 DEF PopFront
  <2>4. /\ pushed \in Seq(Symbol)
        /\ \A s \in Learners(sym) : \E i \in 1 .. Len(pushed) : pushed[i] = s
    BY <2>1, LearnersFinite, OrdersList, SeqMonotonic
  <2>5. /\ Len(rest) \in Nat /\ Len(pushed) \in Nat
        /\ Len(work') = Len(rest) + Len(pushed)
        /\ \A i \in 1 .. Len(rest) + Len(pushed) :
             work'[i] = IF i <= Len(rest) THEN rest[i] ELSE pushed[i - Len(rest)]
    BY <2>1, <2>3, <2>4, ConcatProperties
  <2>6. ASSUME NEW s \in Learners(sym) PROVE Queued(s)'
    <3>1. PICK i \in 1 .. Len(pushed) : pushed[i] = s
      BY <2>4
    <3>2. /\ Len(rest) + i \in 1 .. Len(work')
          /\ ~ (Len(rest) + i <= Len(rest))
          /\ (Len(rest) + i) - Len(rest) = i
      BY <2>5
    <3>3. work'[Len(rest) + i] = s
      BY <2>5, <3>1, <3>2
    <3>4. QED
      BY <3>2, <3>3 DEF Queued
  <2>7. ASSUME NEW s \in Symbol, s # sym, Queued(s) PROVE Queued(s)'
    <3>1. PICK i \in 1 .. Len(work) : work[i] = s
      BY <2>7 DEF Queued
    <3>2. work[1] = sym /\ Len(rest) = Len(work) - 1 /\ \A j \in 1 .. Len(rest) : rest[j] = work[j + 1]
      BY <2>1, HeadTailProperties
    <3>3. i # 1
      BY <2>7, <3>1, <3>2
    <3>4. i - 1 \in 1 .. Len(rest) /\ (i - 1) + 1 = i /\ Len(work) \in Nat
      BY <2>1, <3>2, <3>3
    <3>5. rest[i - 1] = s
      BY <3>1, <3>2, <3>4
    <3>6. i - 1 \in 1 .. Len(work') /\ work'[i - 1] = s
      BY <2>5, <3>4, <3>5
    <3>7. QED
      BY <3>6 DEF Queued
  <2>8. ASSUME NEW s \in Symbol, NEW c \in callers_of(facts, s)
        PROVE  effects'[s] \subseteq effects'[c] \/ Queued(s)'
    <3>0. c \in Symbol
      BY <1>0
    <3>1. CASE s \in Learners(sym)
      BY <2>6, <3>1
    <3>2. CASE s \notin Learners(sym)
      <4>1. effects'[s] = effects[s]
        BY <2>2, <3>2 DEF Learners
      <4>2. effects[c] \subseteq effects'[c]
        BY <2>2, <3>0
      <4>3. CASE s = sym
        BY <2>2, <3>0, <4>1, <4>3
      <4>4. CASE s # sym
        <5>1. effects[s] \subseteq effects[c] \/ Queued(s)
          BY DEF WorklistCovers, Queued
        <5>2. QED
          BY <2>7, <4>1, <4>2, <4>4, <5>1
      <4>5. QED
        BY <4>3, <4>4
    <3>3. QED
      BY <3>1, <3>2
  <2>9. ASSUME NEW q \in facts.roots \ unseeded
        PROVE  q.effect \in effects'[q.symbol]
    <3>1. q.symbol \in Symbol
      BY DEF TypeOK, FactSet, EffectRoot
    <3>2. q.effect \in effects[q.symbol]
      BY DEF WorklistCovers
    <3>3. QED
      BY <2>2, <3>1, <3>2
  <2>10. QED
    BY <1>2, <2>8, <2>9 DEF WorklistCovers, Queued, PopFront
<1>3. CASE Return
  BY <1>3 DEF Return, WorklistCovers
<1>4. CASE UNCHANGED vars
  BY <1>4 DEF vars, WorklistCovers
<1>5. QED
  BY <1>1, <1>2, <1>3, <1>4 DEF Next

(* A caller that lacks an effect of its callee always has the callee       *)
(* queued, and every visited root is in its own summary.                   *)
THEOREM WorklistForgetsNothing == Spec => []WorklistCovers
BY InitWorklistCovers, NextWorklistCovers, TypeCorrect, PTL DEF Spec

-----------------------------------------------------------------------------
(***************************************************************************)
(* The result.  Every reported effect is carried (it lies in every closed  *)
(* set), and when the worklist is empty the symbols reported for an effect *)
(* form a closed set: together, the least fixed point.                     *)
(***************************************************************************)
OnlyCarried == \A s \in Symbol : \A e \in effects[s] : Carries(facts, s, e)

Drained == returned => unseeded = {} /\ work = <<>>

ResultInv == OnlyCarried /\ Drained

(* A root's symbol carries the root's effect.                              *)
LEMMA CarriesRoot ==
  ASSUME NEW fs \in FactSet, NEW r \in fs.roots
  PROVE  Carries(fs, r.symbol, r.effect)
BY DEF Carries, IsClosed

(* Whoever uses a symbol that carries an effect carries it.                *)
LEMMA CarriesUser ==
  ASSUME NEW fs \in FactSet, NEW s \in Symbol, NEW t \in Symbol, NEW e,
         Uses(fs, s, t), Carries(fs, t, e)
  PROVE  Carries(fs, s, e)
BY DEF Carries, IsClosed

(* At first nothing is over-reported.                                      *)
LEMMA InitResultInv == Init => ResultInv
BY DEF Init, ResultInv, OnlyCarried, Drained

(* No step reports an effect that is not carried.                          *)
LEMMA NextResultInv == TypeOK /\ ResultInv /\ [Next]_vars => ResultInv'
<1> SUFFICES ASSUME TypeOK, ResultInv, [Next]_vars PROVE ResultInv'
  OBVIOUS
<1>1. ASSUME NEW r \in unseeded, SeedRoot(r) PROVE ResultInv'
  <2>1. facts \in FactSet /\ r \in facts.roots /\ r.symbol \in Symbol
    BY DEF TypeOK, FactSet, EffectRoot
  <2>2. \A s \in Symbol : effects'[s] = IF s = r.symbol THEN effects[s] \cup {r.effect}
                                                        ELSE effects[s]
    BY <1>1, <2>1 DEF SeedRoot, TypeOK
  <2>3. OnlyCarried'
    BY <1>1, <2>1, <2>2, CarriesRoot DEF SeedRoot, ResultInv, OnlyCarried
  <2>4. Drained'
    BY <1>1 DEF SeedRoot, ResultInv, Drained
  <2>5. QED
    BY <2>3, <2>4 DEF ResultInv
<1>2. CASE PopFront
  <2> DEFINE sym == Head(work)
  <2>1. facts \in FactSet /\ sym \in Symbol /\ facts' = facts
    BY <1>2 DEF PopFront, TypeOK
  <2>2. ASSUME NEW s \in Symbol, NEW e \in effects'[s] PROVE Carries(facts, s, e)
    <3>1. CASE e \in effects[s]
      BY <3>1 DEF ResultInv, OnlyCarried
    <3>2. CASE e \notin effects[s]
      <4>1. s \in callers_of(facts, sym) /\ e \in effects[sym]
        BY <1>2, <3>2 DEF PopFront
      <4>2. Uses(facts, s, sym) /\ Carries(facts, sym, e)
        BY <2>1, <4>1, CallersAreUsers DEF ResultInv, OnlyCarried
      <4>3. QED
        BY <2>1, <4>2, CarriesUser
    <3>3. QED
      BY <3>1, <3>2
  <2>3. OnlyCarried'
    BY <2>1, <2>2 DEF OnlyCarried
  <2>4. Drained'
    BY <1>2 DEF PopFront, ResultInv, Drained
  <2>5. QED
    BY <2>3, <2>4 DEF ResultInv
<1>3. CASE Return
  BY <1>3 DEF Return, ResultInv, OnlyCarried, Drained
<1>4. CASE UNCHANGED vars
  BY <1>4 DEF vars, ResultInv, OnlyCarried, Drained
<1>5. QED
  BY <1>1, <1>2, <1>3, <1>4 DEF Next

(* With the worklist drained, reported and carried effects coincide.       *)
LEMMA ClosureReached ==
  TypeOK /\ WorklistCovers /\ ResultInv => ReturnsClosure
<1> SUFFICES ASSUME TypeOK, WorklistCovers, ResultInv, returned
             PROVE  effects = CarriedEffects(facts)
  BY DEF ReturnsClosure
<1>1. facts \in FactSet /\ unseeded = {} /\ work = <<>>
  BY DEF TypeOK, ResultInv, Drained
<1>2. ASSUME NEW s \in Symbol, NEW e \in Effect, Carries(facts, s, e)
      PROVE  e \in effects[s]
  <2> DEFINE S == {t \in Symbol : e \in effects[t]}
  <2>1. \A r \in facts.roots : r.effect = e => r.symbol \in S
    BY <1>1 DEF WorklistCovers, FactSet, EffectRoot
  <2>2. ASSUME NEW t \in Symbol, NEW u \in S, Uses(facts, t, u) PROVE t \in S
    <3>1. t \in callers_of(facts, u)
      BY <1>1, <2>2, CallersAreUsers
    <3>2. effects[u] \subseteq effects[t]
      BY <1>1, <3>1 DEF WorklistCovers
    <3>3. QED
      BY <3>2
  <2>3. IsClosed(facts, e, S)
    BY <2>1, <2>2 DEF IsClosed
  <2>4. QED
    BY <1>2, <2>3 DEF Carries
<1>3. \A s \in Symbol : effects[s] = {e \in Effect : Carries(facts, s, e)}
  BY <1>2 DEF TypeOK, ResultInv, OnlyCarried
<1>4. QED
  BY <1>3 DEF CarriedEffects, TypeOK

(* What the engine returns is the least fixed point: exactly the effects   *)
(* reachable through edges that carry effects.                             *)
THEOREM ResultIsClosure == Spec => []ReturnsClosure
BY InitResultInv, NextResultInv, ClosureReached, TypeCorrect, WorklistForgetsNothing,
   PTL DEF Spec

-----------------------------------------------------------------------------
(***************************************************************************)
(* Refinement: with the report read off when the engine has returned, the  *)
(* first state is one of EffectEngine and each step is propagate or a      *)
(* stutter.                                                                *)
(***************************************************************************)
(* The vocabulary of the abstract module is this module's own.             *)
LEMMA SameSummaries == Abstract!EffectSummaries = EffectSummaries
BY DEF Abstract!EffectSummaries, EffectSummaries

(* Both modules mean the same by an effect that is carried.                *)
LEMMA SameClosure == ASSUME NEW fs PROVE Abstract!CarriedEffects(fs) = CarriedEffects(fs)
BY DEF Abstract!CarriedEffects, Abstract!Carries, Abstract!IsClosed, Abstract!Uses,
       CarriedEffects, Carries, IsClosed, Uses

(* A genuine evidence path is one to the abstract module too.              *)
LEMMA SameEvidence ==
  ASSUME NEW fs, NEW s, NEW e, NEW path, IsEvidencePath(fs, s, e, path)
  PROVE  Abstract!IsEvidencePath(fs, s, e, path)
<1>1. Abstract!RootsOf(fs, e) = RootsOf(fs, e)
  BY DEF Abstract!RootsOf, RootsOf
<1>2. \A t, u : Abstract!Uses(fs, t, u) <=> Uses(fs, t, u)
  BY DEF Abstract!Uses, Uses
<1>3. QED
  BY <1>1, <1>2 DEF Abstract!IsEvidencePath, Abstract!IsUsePath, IsEvidencePath, IsUsePath

(* Return is the abstract step, the others change nothing visible.         *)
LEMMA StepRefines ==
  /\ TypeOK /\ EvidenceInv
  /\ TypeOK' /\ ReturnsClosure' /\ ResultInv
  /\ [Next]_vars
  => [Abstract!Next]_(Abstract!vars)
<1> SUFFICES ASSUME TypeOK, EvidenceInv, TypeOK', ReturnsClosure', ResultInv, [Next]_vars
             PROVE  [Abstract!Next]_(Abstract!vars)
  OBVIOUS
<1> DEFINE rep == [effects |-> effects, evidence |-> evidence]
<1>1. CASE Return
  <2>1. /\ ~ returned /\ returned'
        /\ facts' = facts /\ effects' = effects /\ evidence' = evidence
    BY <1>1 DEF Return
  <2>2. rep \in EffectSummaries
    BY DEF TypeOK, EffectSummaries
  <2>3. rep.effects = CarriedEffects(facts)
    BY <2>1 DEF ReturnsClosure
  <2>4. Abstract!HonestEvidence(facts, rep)
    <3>1. rep.effects = effects /\ rep.evidence = evidence
      OBVIOUS
    <3> HIDE DEF rep
    <3>2. ASSUME NEW s \in Symbol, NEW e \in Effect
          PROVE  IF e \in effects[s]
                 THEN Abstract!IsEvidencePath(facts, s, e, evidence[s][e])
                 ELSE evidence[s][e] = <<>>
      BY SameEvidence DEF EvidenceInv, EvidenceSound
    <3>3. QED
      BY <3>1, <3>2 DEF Abstract!HonestEvidence
  <2> DEFINE report == IF returned THEN rep ELSE Pending
  <2>5. report = Pending /\ report' = rep
    BY <2>1
  <2> HIDE DEF rep, report
  <2>6. /\ report' \in Abstract!EffectSummaries
        /\ (report').effects = Abstract!CarriedEffects(facts)
        /\ Abstract!HonestEvidence(facts, report')
    BY <2>2, <2>3, <2>4, <2>5, SameSummaries, SameClosure
  <2>7. Abstract!propagate
    BY <2>1, <2>5, <2>6 DEF Abstract!propagate, report, rep
  <2>8. QED
    BY <2>7 DEF Abstract!Next
<1>2. CASE (\E r \in unseeded : SeedRoot(r)) \/ PopFront
  <2>1. facts' = facts /\ returned' = returned
    BY <1>2 DEF SeedRoot, PopFront
  <2>2. ~ returned
    BY <1>2 DEF ResultInv, Drained, PopFront
  <2>3. QED
    BY <2>1, <2>2 DEF Abstract!vars
<1>3. CASE UNCHANGED vars
  BY <1>3 DEF vars, Abstract!vars
<1>4. QED
  BY <1>1, <1>2, <1>3 DEF Next

(* The reference engine implements the trait's promise (safety part).      *)
THEOREM ImplementsEffectEngine == Spec => Abstract!Init /\ [][Abstract!Next]_(Abstract!vars)
<1>1. Init => Abstract!Init
  BY DEF Init, Abstract!Init
<1>2. QED
  BY <1>1, StepRefines, InitEvidenceInv, NextEvidenceInv, InitResultInv, NextResultInv,
     TypeCorrect, ResultIsClosure, PTL DEF Spec

=============================================================================
