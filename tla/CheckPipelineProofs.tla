------------------------ MODULE CheckPipelineProofs ------------------------
(***************************************************************************)
(* What a check guarantees for every program, every hinzu.toml, any number *)
(* of processes and every point at which they may die: a success certifies *)
(* the program it was given, and the persisted summaries never exceed the  *)
(* persisted facts, and a check on its own leaves them in step.            *)
(***************************************************************************)
EXTENDS CheckPipeline, FiniteSetTheorems, TLAPS

-----------------------------------------------------------------------------
(***************************************************************************)
(* Carrying an effect.                                                     *)
(***************************************************************************)
LEMMA RootCarries ==
  ASSUME NEW fs, NEW e, NEW r \in fs.roots, r.effect = e
  PROVE  Carries(fs, r.symbol, e)
BY DEF Carries, IsClosed

LEMMA CallerCarries ==
  ASSUME NEW fs, NEW e, NEW s \in Symbol, NEW t \in Symbol, Uses(fs, s, t), Carries(fs, t, e)
  PROVE  Carries(fs, s, e)
BY DEF Carries, IsClosed

(* More uses and more roots charge more.                                   *)
LEMMA CarriesFollows ==
  ASSUME NEW fs, NEW more, fs.roots \subseteq more.roots,
         \A a, b \in Symbol : Uses(fs, a, b) => Uses(more, a, b),
         NEW s, NEW e, Carries(fs, s, e)
  PROVE  Carries(more, s, e)
BY DEF Carries, IsClosed

LEMMA CarriesMore ==
  ASSUME NEW fs, NEW more, fs.edges \subseteq more.edges, fs.roots \subseteq more.roots,
         NEW s, NEW e, Carries(fs, s, e)
  PROVE  Carries(more, s, e)
<1>1. \A a, b \in Symbol : Uses(fs, a, b) => Uses(more, a, b)
  BY DEF Uses
<1>2. QED
  BY <1>1, CarriesFollows

LEMMA CircuitUses ==
  ASSUME NEW fs, fs.edges \subseteq Edge, NEW x \in fs.edges
  PROVE  Uses(Circuit(fs), x.caller, x.callee)
<1> DEFINE y == [x EXCEPT !.kind = "call"]
<1>1. y \in Circuit(fs).edges /\ y.caller = x.caller /\ y.callee = x.callee /\ y.kind = "call"
  BY DEF Circuit, Edge
<1> HIDE DEF y
<1>2. QED
  BY <1>1 DEF Uses

(* The circuit derives whatever is carried.                                *)
LEMMA CircuitCarries ==
  ASSUME NEW fs, fs.edges \subseteq Edge, NEW s, NEW e, Carries(fs, s, e)
  PROVE  Carries(Circuit(fs), s, e)
<1>1. \A a, b \in Symbol : Uses(fs, a, b) => Uses(Circuit(fs), a, b)
  BY CircuitUses DEF Uses
<1>2. fs.roots \subseteq Circuit(fs).roots
  BY DEF Circuit
<1>3. QED
  BY <1>1, <1>2, CarriesFollows

(* What is carried is charged to one of the roots.                         *)
LEMMA SomeRootCharges ==
  ASSUME NEW fs, fs.roots \subseteq EffectRoot, NEW s \in Symbol, NEW e, Carries(fs, s, e)
  PROVE  \E r \in fs.roots : r.effect = e /\ Charges(fs.edges, s, r.symbol, e)
<1> DEFINE alone(r) == [edges |-> fs.edges, roots |-> {[symbol |-> r.symbol, effect |-> e]}]
           S == {t \in Symbol : \E r \in fs.roots : r.effect = e /\ Carries(alone(r), t, e)}
<1>1. ASSUME NEW r \in fs.roots, r.effect = e
      PROVE  r.symbol \in S
  <2> DEFINE q == [symbol |-> r.symbol, effect |-> e]
  <2>1. q \in alone(r).roots /\ q.symbol = r.symbol /\ q.effect = e
    OBVIOUS
  <2> HIDE DEF q, alone
  <2>2. Carries(alone(r), r.symbol, e)
    BY <2>1, RootCarries
  <2>3. QED
    BY <1>1, <2>2 DEF EffectRoot
<1>2. ASSUME NEW a \in Symbol, NEW b \in S, Uses(fs, a, b)
      PROVE  a \in S
  <2>1. PICK r \in fs.roots : r.effect = e /\ Carries(alone(r), b, e)
    OBVIOUS
  <2>2. Uses(alone(r), a, b)
    BY <1>2 DEF Uses
  <2> HIDE DEF alone
  <2>3. Carries(alone(r), a, e)
    BY <2>1, <2>2, CallerCarries
  <2>4. QED
    BY <2>1, <2>3
<1>3. s \in S
  <2> HIDE DEF S
  <2>1. S \in SUBSET Symbol
    BY DEF S
  <2>2. IsClosed(fs, e, S)
    BY <1>1, <1>2 DEF IsClosed
  <2>3. QED
    BY <2>1, <2>2 DEF Carries
<1>4. QED
  BY <1>3 DEF Charges

LEMMA CallerUses ==
  ASSUME NEW x \in Edge, NEW fs, x \in fs.edges, x \in CarryingEdges({x})
  PROVE  Uses(fs, x.caller, x.callee)
BY DEF Uses, CarryingEdges, carries_effects

-----------------------------------------------------------------------------
(***************************************************************************)
(* Seeding leaves nothing out.  Hypothesis: a symbol without a body is not *)
(* taken for one with a body because its crate or its name without generic *)
(* arguments is the same.                                                  *)
(***************************************************************************)
NamesTellApart ==
  \A program \in Programs, s \in Symbol :
    program.defs[s] = NoFile => ~ seen(Defined(program.defs), s)

Callees(edges) == {x.callee : x \in CarryingEdges(edges)}

LEMMA CarryingCallee ==
  ASSUME NEW edges \in SUBSET Edge, NEW x \in edges, x.kind # "type"
  PROVE  x \in CarryingEdges(edges) /\ x.callee \in Callees(edges)
BY DEF CarryingEdges, Callees, carries_effects, Edge, EdgeKind

LEMMA SeededIs ==
  ASSUME NEW program \in Programs, NEW doc
  PROVE  /\ Seeded(program, doc).defs = program.defs
         /\ Seeded(program, doc).components = program.components
         /\ Seeded(program, doc).edges = program.edges
         /\ Seeded(program, doc).unmarked = program.unmarked
         /\ Seeded(program, doc).roots =
              IF doc.on_unknown = "ignore"
              THEN seed(doc.table, program.edges, program.roots)
              ELSE seed_unknowns(doc.table, Defined(program.defs), program.edges, program.roots)
BY PipelineAssumption DEF Seeded, Extracted

(* The roots of the program are seeded, and so is what a rule says of a    *)
(* callee, and Unknown for a callee that nothing accounts for.             *)
LEMMA SeedsCoverCallees ==
  ASSUME NamesTellApart,
         NEW program \in Programs, NEW doc \in Documents, doc.on_unknown = "fail",
         NEW r \in Truth(program, doc.table).roots,
         \/ r \in program.roots
         \/ r.symbol \in Callees(program.edges)
  PROVE  \/ r \in Seeded(program, doc).roots
         \/ [symbol |-> r.symbol, effect |-> Unknown] \in Seeded(program, doc).roots
<1> DEFINE table == doc.table
           seeded == seed(table, program.edges, program.roots)
           all == seed_unknowns(table, Defined(program.defs), program.edges, program.roots)
<1>1. Seeded(program, doc).roots = all /\ seeded \subseteq all /\ program.roots \subseteq seeded
  BY SeededIs DEF seed_unknowns, seed
<1>2. /\ program.edges \in SUBSET Edge /\ program.roots \in SUBSET EffectRoot
      /\ table.rule \in [Symbol -> RealEffect \cup {NoEffect}]
      /\ program.defs \in [Symbol -> File \cup {NoFile}]
  BY PipelineAssumption DEF Extracted, PolicyDoc, SeedTable
<1>3. CASE r \in program.roots
  BY <1>1, <1>3
<1>4. CASE r \notin program.roots
  <2>1. r.symbol \in Callees(program.edges)
    BY <1>4
  <2>2. PICK x \in CarryingEdges(program.edges) : x.callee = r.symbol
    BY <2>1 DEF Callees
  <2>3. \/ r \in EffectRoot /\ program.defs[r.symbol] = NoFile /\ r.effect = table.rule[r.symbol]
        \/ r \in EffectRoot /\ r.symbol \in Unaccounted(program, table)
    BY <1>4 DEF Truth
  <2>4. r = [symbol |-> r.symbol, effect |-> r.effect] /\ r.symbol \in Symbol /\ r.effect \in Effect
    BY <2>3 DEF EffectRoot
  <2>5. CASE r.effect = table.rule[r.symbol]
    <3>1. table.rule[x.callee] # NoEffect
      BY <2>2, <2>4, <2>5, SeedsAssumption
    <3>2. [symbol |-> x.callee, effect |-> table.rule[x.callee]] \in seeded
      BY <2>2, <3>1 DEF seed
    <3>3. QED
      BY <1>1, <2>2, <2>4, <2>5, <3>2
  <2>6. CASE r.symbol \in Unaccounted(program, table)
    <3>1. \E y \in CarryingEdges(program.edges) :
            y.callee = r.symbol /\ IsUnknown(table, Defined(program.defs), seeded, y)
      <4>1. CASE \E y \in program.edges :
                   y.callee = r.symbol /\ y.kind # "type" /\ y.resolution = "unresolved"
        BY <1>2, <4>1, CarryingCallee DEF IsUnknown
      <4>2. CASE /\ program.defs[r.symbol] = NoFile
                 /\ \A q \in program.roots : q.symbol = r.symbol => q.effect = Unknown
                 /\ table.rule[r.symbol] = NoEffect
                 /\ r.symbol \notin table.pure \cup Baseline
        <5>1. ~ seen(Defined(program.defs), x.callee)
          BY <2>2, <2>4, <4>2 DEF NamesTellApart
        <5>2. ASSUME NEW q \in seeded, q.symbol = x.callee
              PROVE  q.effect = Unknown
          <6>1. q \in program.roots
            BY <2>2, <4>2, <5>2 DEF seed
          <6>2. QED
            BY <2>2, <4>2, <5>2, <6>1
        <5>3. classify_foreign(table, x.callee) = "unknown"
          BY <2>2, <4>2 DEF classify_foreign
        <5>4. IsUnknown(table, Defined(program.defs), seeded, x)
          BY <5>1, <5>2, <5>3 DEF IsUnknown
        <5>5. QED
          BY <2>2, <5>4
      <4>3. QED
        BY <2>6, <4>1, <4>2 DEF Unaccounted
    <3> HIDE DEF seeded
    <3>2. [symbol |-> r.symbol, effect |-> Unknown] \in all
      BY <3>1 DEF seed_unknowns, seeded
    <3>3. QED
      BY <1>1, <3>2
  <2>7. QED
    BY <2>3, <2>5, <2>6
<1>5. QED
  BY <1>3, <1>4

(* So facts that hold at least what was seeded say of every definition     *)
(* what it may do, or that they do not know.                               *)
LEMMA SeedsCoverTruth ==
  ASSUME NamesTellApart,
         NEW program \in Programs, NEW doc \in Documents, doc.on_unknown = "fail",
         NEW fs, program.edges \subseteq fs.edges, Seeded(program, doc).roots \subseteq fs.roots,
         NEW d \in Symbol, program.defs[d] # NoFile,
         NEW e \in RealEffect, Carries(Truth(program, doc.table), d, e)
  PROVE  Carries(fs, d, e) \/ Carries(fs, d, Unknown)
<1> DEFINE truth == Truth(program, doc.table)
           Charged(s) == Carries(fs, s, e) \/ Carries(fs, s, Unknown)
           Aside(s) == program.defs[s] = NoFile /\ s \notin Callees(program.edges)
           S == {s \in Symbol : Charged(s) \/ Aside(s)}
<1>1. program.edges \in SUBSET Edge /\ program.roots \in SUBSET EffectRoot
  BY PipelineAssumption DEF Extracted
<1>2. ASSUME NEW r \in truth.roots, r.effect = e
      PROVE  r.symbol \in S
  <2>1. r \in EffectRoot
    BY <1>1 DEF Truth
  <2>2. CASE r \in program.roots \/ r.symbol \in Callees(program.edges)
    <3>1. \/ r \in fs.roots
          \/ [symbol |-> r.symbol, effect |-> Unknown] \in fs.roots
      BY <2>2, SeedsCoverCallees
    <3>2. Charged(r.symbol)
      <4>1. CASE r \in fs.roots
        BY <1>2, <4>1, RootCarries
      <4>2. CASE [symbol |-> r.symbol, effect |-> Unknown] \in fs.roots
        <5> DEFINE u == [symbol |-> r.symbol, effect |-> Unknown]
        <5>1. u.symbol = r.symbol /\ u.effect = Unknown /\ u \in fs.roots
          BY <4>2
        <5> HIDE DEF u
        <5>2. QED
          BY <5>1, RootCarries
      <4>3. QED
        BY <3>1, <4>1, <4>2
    <3> HIDE DEF Charged
    <3>3. QED
      BY <2>1, <3>2 DEF EffectRoot
  <2>3. CASE r \notin program.roots /\ r.symbol \notin Callees(program.edges)
    <3>1. program.defs[r.symbol] = NoFile
      <4>1. CASE r.symbol \in Unaccounted(program, doc.table)
        BY <1>1, <2>3, <4>1, CarryingCallee DEF Unaccounted
      <4>2. QED
        BY <2>3, <4>1 DEF Truth
    <3>2. QED
      BY <2>1, <2>3, <3>1 DEF EffectRoot
  <2>4. QED
    BY <2>2, <2>3
<1>3. ASSUME NEW s \in Symbol, NEW t \in S, Uses(truth, s, t)
      PROVE  s \in S
  <2>1. PICK x \in program.edges : x.caller = s /\ x.callee = t /\ x.kind # "type"
    BY <1>3 DEF Uses, Truth
  <2>2. t \in Callees(program.edges) /\ t \in Symbol
    BY <1>1, <1>3, <2>1, CarryingCallee
  <2>3. Charged(t)
    BY <1>3, <2>2
  <2>4. Uses(fs, s, t)
    BY <2>1 DEF Uses
  <2>5. Charged(s)
    BY <2>2, <2>3, <2>4, CallerCarries
  <2> HIDE DEF Charged
  <2>6. QED
    BY <2>5
<1>4. IsClosed(truth, e, S)
  BY <1>2, <1>3 DEF IsClosed
<1>5. d \in S
  <2> HIDE DEF S
  <2>1. S \in SUBSET Symbol
    BY DEF S
  <2>2. QED
    BY <1>4, <2>1 DEF Carries
<1>6. QED
  BY <1>5

(* And policy::check reports a definition that carries a forbidden effect  *)
(* or an unknown one.                                                      *)
LEMMA CheckFlags ==
  ASSUME NEW doc \in Documents, Parses(doc), doc.on_unknown = "fail",
         NEW defs \in [Symbol -> File \cup {NoFile}], NEW edges, NEW rep,
         NEW region \in doc.regions, NEW d \in Symbol, Governs(doc, region, defs[d]),
         NEW e \in RealEffect, Forbids(region, e),
         e \in rep.effects[d] \/ Unknown \in rep.effects[d]
  PROVE  \E f \in check(defs, edges, rep, doc) : f.severity = "error"
<1>1. doc \in PolicyDoc /\ \A q \in doc.regions : q.specificity \in [File -> Nat]
  BY PipelineAssumption DEF PolicyDoc, RegionDoc
<1>2. defs[d] \in File \ doc.ignore
  BY DEF Governs
<1>3. region \in governing_regions(doc, defs[d])
  <2>1. \A q \in doc.regions : q.specificity[defs[d]] <= region.specificity[defs[d]]
    BY <1>1, <1>2 DEF Governs
  <2>2. QED
    BY <2>1 DEF Governs, governing_regions
<1>4. e \in forbidden_effects(region)
  BY DEF Parses, IsContradictory, Forbids, forbidden_effects
<1>5. \E f \in ForbiddenFindings(d, region, rep) \cup UnknownFindings(doc, d, region, edges, rep) :
        f.severity = "error"
  <2>1. CASE e \in rep.effects[d]
    <3>1. Finding(d, region, e, rep.evidence[d][e], "forbidden", "error")
            \in ForbiddenFindings(d, region, rep)
      BY <1>4, <2>1 DEF ForbiddenFindings
    <3>2. Finding(d, region, e, rep.evidence[d][e], "forbidden", "error").severity = "error"
      BY DEF Finding
    <3>3. QED
      BY <3>1, <3>2
  <2>2. CASE Unknown \in rep.effects[d]
    <3> DEFINE path == rep.evidence[d][Unknown]
               found == Finding(d, region, Unknown, path, flavor(edges, path), "error")
    <3>1. UnknownFindings(doc, d, region, edges, rep) = {found}
      BY <1>4, <2>2 DEF UnknownFindings
    <3>2. found.severity = "error"
      BY DEF Finding
    <3>3. QED
      BY <3>1, <3>2
  <2>3. QED
    BY <2>1, <2>2
<1>6. QED
  BY <1>2, <1>3, <1>5 DEF check

-----------------------------------------------------------------------------
(***************************************************************************)
(* The fold of Reports gives every way to choose an honest path for each   *)
(* pair that is carried.                                                   *)
(***************************************************************************)
ChoicesOn(fs, s) == {c \in [s -> SimplePaths] : \A se \in s : c[se] \in Honest(fs, se)}

Picked(s) == CHOOSE x \in s : TRUE

OneMore(fs, x, partial) == {Explained(cq[1], x, cq[2]) : cq \in partial \X Honest(fs, x)}

IsFold(fs, S, fold) ==
  fold = [s \in SUBSET S |->
            IF s = {} THEN {<<>>} ELSE OneMore(fs, Picked(s), fold[s \ {Picked(s)}])]

LEMMA EvidenceChoicesFolds ==
  ASSUME NEW fs
  PROVE  EvidenceChoices(fs) =
           (CHOOSE fold : IsFold(fs, Carried(fs), fold))[Carried(fs)]
BY DEF EvidenceChoices, FoldSet, MapThenFoldSet, IsFold, OneMore, Picked

(* One more pair: a choice for the others and an honest path for it.       *)
LEMMA ChoicesGrow ==
  ASSUME NEW fs, NEW s, NEW x \in s
  PROVE  ChoicesOn(fs, s) = OneMore(fs, x, ChoicesOn(fs, s \ {x}))
<1> DEFINE grown == OneMore(fs, x, ChoicesOn(fs, s \ {x}))
<1>1. ASSUME NEW c \in ChoicesOn(fs, s)
      PROVE  c \in grown
  <2> DEFINE rest == [t \in s \ {x} |-> c[t]]
             pair == <<rest, c[x]>>
  <2>1. rest \in ChoicesOn(fs, s \ {x}) /\ c[x] \in Honest(fs, x)
    BY DEF ChoicesOn
  <2>2. c = Explained(rest, x, c[x])
    BY DEF ChoicesOn, Explained
  <2>3. pair \in ChoicesOn(fs, s \ {x}) \X Honest(fs, x) /\ pair[1] = rest /\ pair[2] = c[x]
    BY <2>1
  <2> HIDE DEF pair, rest
  <2>4. QED
    BY <2>2, <2>3 DEF OneMore
<1>2. ASSUME NEW d \in ChoicesOn(fs, s \ {x}), NEW q \in Honest(fs, x)
      PROVE  Explained(d, x, q) \in ChoicesOn(fs, s)
  BY DEF ChoicesOn, Explained, Honest
<1>3. QED
  BY <1>1, <1>2 DEF OneMore

LEMMA ChoicesOnNothing ==
  ASSUME NEW fs
  PROVE  ChoicesOn(fs, {}) = {<<>>}
<1>1. <<>> \in [{} -> SimplePaths]
  OBVIOUS
<1>2. \A c \in [{} -> SimplePaths] : c = <<>>
  OBVIOUS
<1>3. QED
  BY <1>1, <1>2 DEF ChoicesOn

LEMMA PickedIn ==
  ASSUME NEW s, s # {}
  PROVE  Picked(s) \in s
BY DEF Picked

(* What the equation says of a set of pairs.                               *)
LEMMA IsFoldAt ==
  ASSUME NEW fs, NEW S, NEW fold, IsFold(fs, S, fold), NEW s \in SUBSET S
  PROVE  fold[s] = IF s = {} THEN {<<>>}
                   ELSE OneMore(fs, Picked(s), fold[s \ {Picked(s)}])
BY Zenon DEF IsFold

(* Among the subsets of a finite set, some are smallest.                   *)
LEMMA MinimalSubset ==
  ASSUME NEW D, IsFiniteSet(D), NEW Bad \in SUBSET SUBSET D, Bad # {}
  PROVE  \E T \in Bad : \A U \in Bad : U \subseteq T => U = T
<1>1. Bad \subseteq FiniteSubsetsOf(D)
  BY FS_Subset DEF FiniteSubsetsOf
<1>2. PICK T \in Bad : \A U \in Bad : <<U, T>> \notin StrictSubsetOrdering(D)
  BY <1>1, FS_StrictSubsetOrderingWellFounded, WFMin
<1>3. \A U \in Bad : U \subseteq T => U = T
  BY <1>2 DEF StrictSubsetOrdering
<1>4. QED
  BY <1>3

LEMMA CarriedIsFinite ==
  ASSUME NEW fs
  PROVE  IsFiniteSet(Carried(fs))
<1>1. IsFiniteSet(Symbol \X Effect)
  BY FiniteAssumption, FS_Product
<1>2. QED
  BY <1>1, FS_Subset DEF Carried

LEMMA EvidenceChoicesAre ==
  ASSUME NEW fs
  PROVE  EvidenceChoices(fs) = ChoicesOn(fs, Carried(fs))
<1> DEFINE S == Carried(fs)
           all == [s \in SUBSET S |-> ChoicesOn(fs, s)]
           iter == CHOOSE fold : IsFold(fs, S, fold)
<1>1. IsFold(fs, S, all)
  <2>1. ASSUME NEW s \in SUBSET S
        PROVE  ChoicesOn(fs, s) =
                 IF s = {} THEN {<<>>} ELSE OneMore(fs, Picked(s), all[s \ {Picked(s)}])
    <3>1. all[s \ {Picked(s)}] = ChoicesOn(fs, s \ {Picked(s)})
      OBVIOUS
    <3> HIDE DEF all
    <3>2. CASE s = {}
      BY <3>2, ChoicesOnNothing
    <3>3. CASE s # {}
      BY <3>1, <3>3, PickedIn, ChoicesGrow
    <3>4. QED
      BY <3>2, <3>3
  <2>2. QED
    BY <2>1 DEF IsFold
<1>2. IsFold(fs, S, iter)
  BY <1>1
<1> HIDE DEF iter
<1> DEFINE Bad == {s \in SUBSET S : iter[s] # ChoicesOn(fs, s)}
<1>3. ASSUME Bad # {}
      PROVE  FALSE
  <2>1. PICK s \in Bad : \A u \in Bad : u \subseteq s => u = s
    <3>1. Bad \in SUBSET SUBSET S
      OBVIOUS
    <3> HIDE DEF Bad, S
    <3>2. QED
      BY <1>3, <3>1, CarriedIsFinite, MinimalSubset DEF S
  <2>2. s \in SUBSET S /\ iter[s] # ChoicesOn(fs, s)
    OBVIOUS
  <2>3. s # {}
    BY <1>2, <2>2, IsFoldAt, ChoicesOnNothing
  <2>4. Picked(s) \in s
    BY <2>3, PickedIn
  <2>5. iter[s \ {Picked(s)}] = ChoicesOn(fs, s \ {Picked(s)})
    BY <2>1, <2>2, <2>4
  <2>6. iter[s] = OneMore(fs, Picked(s), iter[s \ {Picked(s)}])
    BY <1>2, <2>2, <2>3, IsFoldAt
  <2>7. QED
    BY <2>2, <2>4, <2>5, <2>6, ChoicesGrow
<1>4. iter[S] = ChoicesOn(fs, S)
  BY <1>3
<1>5. QED
  BY <1>4, EvidenceChoicesFolds DEF iter

(* So an engine's answer has what is carried in the facts it is fed, an    *)
(* honest path for each effect that is really carried, and none for        *)
(* another.                                                                *)
LEMMA ReportsAreHonest ==
  ASSUME NEW fs, NEW engine, NEW rep \in Reports(fs, engine)
  PROVE  /\ rep.effects = CarriedEffects(Fed(fs, engine))
         /\ rep.evidence \in [Symbol -> [Effect -> SimplePaths \cup {<<>>}]]
         /\ \A se \in Carried(fs) : rep.evidence[se[1]][se[2]] \in Honest(fs, se)
         /\ \A se \in (Symbol \X Effect) \ Carried(fs) : rep.evidence[se[1]][se[2]] = <<>>
         /\ Reported(rep) = Carried(Fed(fs, engine))
<1> DEFINE fed == Fed(fs, engine)
<1>1. PICK c \in ChoicesOn(fs, Carried(fs)) :
        rep = [effects |-> CarriedEffects(fed),
               evidence |-> [s \in Symbol |-> [e \in Effect |->
                 IF <<s, e>> \in DOMAIN c THEN c[<<s, e>>] ELSE <<>>]]]
  BY EvidenceChoicesAre DEF Reports
<1> HIDE DEF fed
<1>2. rep.effects = CarriedEffects(fed)
  BY <1>1
<1>3. \A s \in Symbol, e \in Effect :
        rep.evidence[s][e] = IF <<s, e>> \in Carried(fs) THEN c[<<s, e>>] ELSE <<>>
  BY <1>1 DEF ChoicesOn
<1>4. \A se \in Carried(fs) : c[se] \in Honest(fs, se) /\ c[se] \in SimplePaths
  BY <1>1 DEF ChoicesOn
<1>5. rep.evidence \in [Symbol -> [Effect -> SimplePaths \cup {<<>>}]]
  BY <1>1, <1>4 DEF ChoicesOn
<1>6. \A se \in Carried(fs) : rep.evidence[se[1]][se[2]] \in Honest(fs, se)
  BY <1>3, <1>4 DEF Carried
<1>7. \A se \in (Symbol \X Effect) \ Carried(fs) : rep.evidence[se[1]][se[2]] = <<>>
  BY <1>3
<1>8. Reported(rep) = Carried(fed)
  <2>1. \A se \in Symbol \X Effect :
          se[2] \in rep.effects[se[1]] <=> Carries(fed, se[1], se[2])
    <3>1. ASSUME NEW se \in Symbol \X Effect
          PROVE  se[2] \in rep.effects[se[1]] <=> Carries(fed, se[1], se[2])
      <4>1. rep.effects[se[1]] = {e \in Effect : Carries(fed, se[1], e)}
        BY <1>2 DEF CarriedEffects
      <4>2. QED
        BY <4>1
    <3>2. QED
      BY <3>1
  <2>2. QED
    BY <2>1 DEF Reported, Carried
<1>9. QED
  BY <1>2, <1>5, <1>6, <1>7, <1>8 DEF fed

(* No engine misses an effect that is carried.                             *)
LEMMA CarriedIsReported ==
  ASSUME NEW fs, fs.edges \subseteq Edge, NEW engine, NEW rep \in Reports(fs, engine)
  PROVE  /\ Carried(fs) \subseteq Reported(rep)
         /\ \A s \in Symbol, e \in Effect : Carries(fs, s, e) => e \in rep.effects[s]
<1>1. Carried(fs) \subseteq Carried(Fed(fs, engine))
  BY CircuitCarries DEF Fed, Carried
<1>2. Carried(fs) \subseteq Reported(rep)
  BY <1>1, ReportsAreHonest
<1>3. ASSUME NEW s \in Symbol, NEW e \in Effect, Carries(fs, s, e)
      PROVE  e \in rep.effects[s]
  <2>1. <<s, e>> \in Carried(fs)
    BY <1>3 DEF Carried
  <2>2. QED
    BY <1>2, <2>1 DEF Reported
<1>4. QED
  BY <1>2, <1>3

-----------------------------------------------------------------------------
(***************************************************************************)
(* The pieces of an evidence path: none exactly for the empty path.        *)
(***************************************************************************)
(* Natural numbers: a nonempty set of them has a least element.            *)
LEMMA LeastNatural ==
  ASSUME NEW S \in SUBSET Nat, S # {}
  PROVE  \E m \in S : \A n \in S : m <= n
<1>1. PICK m \in S : \A n \in S : <<n, m>> \notin OpToRel(<, Nat)
  BY NatLessThanWellFounded, WFMin
<1>2. \A n \in S : ~(n < m)
  BY <1>1 DEF OpToRel
<1>3. QED
  BY <1>2

IsFlat(seqs, k, flat) ==
  flat = [i \in 1 .. k |-> IF i = 1 THEN seqs[i] ELSE flat[i - 1] \o seqs[i]]

LEMMA FlatGrows ==
  ASSUME NEW seqs, NEW k \in Nat, NEW flat, IsFlat(seqs, k, flat)
  PROVE  \E more : IsFlat(seqs, k + 1, more)
<1> DEFINE more == [i \in 1 .. k + 1 |->
                     IF i <= k THEN flat[i]
                     ELSE IF i = 1 THEN seqs[i] ELSE flat[i - 1] \o seqs[i]]
<1>1. ASSUME NEW i \in 1 .. k + 1
      PROVE  more[i] = IF i = 1 THEN seqs[i] ELSE more[i - 1] \o seqs[i]
  <2>1. CASE i <= k
    <3>1. flat[i] = IF i = 1 THEN seqs[i] ELSE flat[i - 1] \o seqs[i]
      <4>1. i \in 1 .. k
        BY <2>1
      <4>2. QED
        BY <4>1 DEF IsFlat
    <3>2. QED
      BY <2>1, <3>1
  <2>2. CASE i = k + 1
    BY <2>2
  <2>3. QED
    BY <2>1, <2>2
<1>2. more = [i \in 1 .. k + 1 |-> more[i]]
  OBVIOUS
<1> HIDE DEF more
<1>3. IsFlat(seqs, k + 1, more)
  BY <1>1, <1>2 DEF IsFlat
<1>4. QED
  BY <1>3

LEMMA FlatExists ==
  ASSUME NEW seqs, NEW n \in Nat
  PROVE  \E flat : IsFlat(seqs, n, flat)
<1> DEFINE Bad == {k \in Nat : ~ \E flat : IsFlat(seqs, k, flat)}
<1>1. ASSUME Bad # {}
      PROVE  FALSE
  <2>1. PICK k \in Bad : \A l \in Bad : k <= l
    BY <1>1, LeastNatural
  <2>2. CASE k = 0
    <3>1. <<>> = [i \in 1 .. 0 |-> IF i = 1 THEN seqs[i] ELSE <<>>[i - 1] \o seqs[i]]
      OBVIOUS
    <3>2. IsFlat(seqs, 0, <<>>)
      BY <3>1 DEF IsFlat
    <3>3. QED
      BY <2>2, <3>2
  <2>3. CASE k # 0
    <3>1. k - 1 \in Nat /\ k - 1 \notin Bad /\ (k - 1) + 1 = k
      BY <2>1, <2>3
    <3>2. PICK flat : IsFlat(seqs, k - 1, flat)
      BY <3>1
    <3>3. \E more : IsFlat(seqs, k, more)
      BY <3>1, <3>2, FlatGrows
    <3>4. QED
      BY <3>3
  <2>4. QED
    BY <2>2, <2>3
<1>2. QED
  BY <1>1

LEMMA FlatIsNotEmpty ==
  ASSUME NEW T, NEW n \in Nat \ {0}, NEW seqs, \A i \in 1 .. n : seqs[i] \in Seq(T) \ {<<>>},
         NEW flat, IsFlat(seqs, n, flat)
  PROVE  flat[n] # <<>>
<1> DEFINE Bad == {k \in Nat : k \in 1 .. n /\ flat[k] \notin Seq(T) \ {<<>>}}
<1>1. ASSUME Bad # {}
      PROVE  FALSE
  <2>1. PICK k \in Bad : \A l \in Bad : k <= l
    BY <1>1, LeastNatural
  <2>2. flat[k] = IF k = 1 THEN seqs[k] ELSE flat[k - 1] \o seqs[k]
    BY DEF IsFlat
  <2>3. CASE k = 1
    BY <2>2, <2>3
  <2>4. CASE k # 1
    <3>1. k - 1 \in Nat /\ k - 1 \in 1 .. n /\ k - 1 \notin Bad
      BY <2>1, <2>4
    <3>2. flat[k - 1] \in Seq(T) /\ seqs[k] \in Seq(T) /\ seqs[k] # <<>>
      BY <3>1
    <3>3. flat[k - 1] \o seqs[k] \in Seq(T)
      BY <3>2
    <3>4. Len(flat[k - 1] \o seqs[k]) = Len(flat[k - 1]) + Len(seqs[k]) /\ Len(seqs[k]) > 0
      BY <3>2
    <3>5. flat[k - 1] \o seqs[k] # <<>>
      BY <3>2, <3>3, <3>4
    <3>6. QED
      BY <2>2, <2>4, <3>3, <3>5
  <2>5. QED
    BY <2>3, <2>4
<1>2. QED
  BY <1>1

(* The empty path has no pieces, every other has some.                     *)
LEMMA NoPieces == Pieces(<<>>) = <<>>
BY DEF Pieces, FlattenSeq

LEMMA SomePieces ==
  ASSUME NEW n \in Nat \ {0}, NEW q \in [1 .. n -> Symbol]
  PROVE  Pieces(q) # <<>>
<1> DEFINE names == [i \in DOMAIN q |-> SplitName[q[i]]]
<1>1. /\ names \in Seq(Seq(STRING)) /\ Len(names) = n
      /\ \A i \in 1 .. n : names[i] \in Seq(STRING) \ {<<>>}
  BY PipelineAssumption
<1> HIDE DEF names
<1>2. FlattenSeq(names) = (CHOOSE flat : IsFlat(names, n, flat))[n]
  BY <1>1 DEF FlattenSeq, IsFlat
<1>3. IsFlat(names, n, CHOOSE flat : IsFlat(names, n, flat))
  BY FlatExists
<1>4. FlattenSeq(names) # <<>>
  BY <1>1, <1>2, <1>3, FlatIsNotEmpty
<1>5. QED
  BY <1>4 DEF Pieces, names

-----------------------------------------------------------------------------
(***************************************************************************)
(* The types of the variables.                                             *)
(***************************************************************************)
PCs == {"idle", "refused", "seeded", "inserted", "definitions", "edges", "loaded", "written",
        "done"}

Row == [symbol : Symbol, effect : Effect, evidence_path : {Pieces(q) : q \in SimplePaths \cup {<<>>}}]

Tables ==
  {t \in [definitions : [Symbol -> File \cup {NoFile}], is_component : SUBSET Symbol,
          edges : SUBSET Edge, unmarked : SUBSET Edge, effect_roots : SUBSET EffectRoot,
          effect_summaries : SUBSET Row] :
     t.is_component \subseteq Defined(t.definitions) /\ t.unmarked \subseteq t.edges}

Facts ==
  {fs \in Extracted : fs.components \subseteq Defined(fs.defs) /\ fs.unmarked \subseteq fs.edges}

Inputs == [program : Programs, doc : Documents, engine : Engine]

(* The process runs `check` on some input.                                 *)
Begins(p) ==
  \E program \in Programs, doc \in Documents, engine \in Engine : Begin(p, program, doc, engine)

Answers == [effects : [Symbol -> SUBSET Effect],
            evidence : [Symbol -> [Effect -> SimplePaths \cup {<<>>}]]]

IsFinding(n) == n.symbol \in Symbol /\ n.severity \in {"error", "warning"}

Typed ==
  /\ stores \in [Stores -> Tables]
  /\ pc \in [Process -> PCs]
  /\ input \in [Process -> Inputs \cup {NoInput}]
  /\ facts \in [Process -> Facts]
  /\ report \in [Process -> Answers]
  /\ findings = [p \in Process |-> findings[p]]
  /\ \A p \in Process : \A n \in findings[p] : IsFinding(n)
  /\ \A p \in Process : pc[p] # "idle" => input[p] \in Inputs

LEMMA TypedIsTypeOK == Typed => TypeOK
<1> SUFFICES ASSUME Typed PROVE TypeOK
  OBVIOUS
<1>1. ASSUME NEW st \in DOMAIN stores
      PROVE  /\ stores[st].definitions \in [Symbol -> File \cup {NoFile}]
             /\ stores[st].unmarked \subseteq stores[st].edges
             /\ stores[st].is_component \subseteq Defined(stores[st].definitions)
             /\ stores[st].edges \subseteq Edge
             /\ stores[st].effect_roots \subseteq EffectRoot
             /\ \A r \in stores[st].effect_summaries : r.symbol \in Symbol /\ r.effect \in Effect
  <2>1. stores[st] \in Tables
    BY DEF Typed
  <2>2. QED
    BY <2>1 DEF Tables, Row
<1>2. ASSUME NEW p \in Process
      PROVE  /\ pc[p] \in AtRest \cup {"seeded", "inserted", "definitions", "edges", "loaded", "written"}
             /\ input[p] # NoInput =>
                  /\ input[p].program \in Programs
                  /\ input[p].doc \in Documents
                  /\ input[p].engine \in Engine
             /\ facts[p] \in Extracted
             /\ report[p].effects \in [Symbol -> SUBSET Effect]
             /\ \A n \in findings[p] : n.symbol \in Symbol /\ n.severity \in {"error", "warning"}
  BY DEF Typed, PCs, AtRest, Inputs, Facts, Answers, IsFinding
<1>3. QED
  BY <1>1, <1>2 DEF TypeOK

LEMMA EmptyIsTyped ==
  EmptyTables \in Tables /\ NoFacts \in Facts /\ NoReport \in Answers
<1>1. EmptyTables \in Tables
  BY DEF EmptyTables, Tables
<1>2. NoFacts \in Facts
  BY DEF NoFacts, Facts, Extracted
<1>3. NoReport \in Answers
  BY DEF NoReport, Answers
<1>4. QED
  BY <1>1, <1>2, <1>3

LEMMA StoreOfIn ==
  ASSUME NEW p \in Process
  PROVE  StoreOf(p) \in Stores
BY DEF Stores

LEMMA StoresWithoutTyped ==
  ASSUME stores \in [Stores -> Tables], NEW p \in Process
  PROVE  StoresWithout(p) \in [Stores -> Tables]
BY EmptyIsTyped DEF StoresWithout, Stores, StoreOf

LEMMA ProgramsAreFacts ==
  ASSUME NEW program \in Programs
  PROVE  program \in Facts
BY PipelineAssumption DEF Facts, Defined, Extracted

LEMMA SeededIsFacts ==
  ASSUME NEW program \in Programs, NEW doc \in Documents
  PROVE  Seeded(program, doc) \in Facts
<1> DEFINE roots == Seeded(program, doc).roots
<1>1. program \in Extracted /\ program \in Facts /\ doc \in PolicyDoc
  BY ProgramsAreFacts, PipelineAssumption
<1>2. /\ program.edges \in SUBSET Edge /\ program.roots \in SUBSET EffectRoot
      /\ doc.table.rule \in [Symbol -> RealEffect \cup {NoEffect}]
  BY <1>1 DEF Extracted, PolicyDoc, SeedTable
<1>3. seed(doc.table, program.edges, program.roots) \subseteq EffectRoot
  BY <1>2, SeedsAssumption DEF seed, CarryingEdges, EffectRoot, Edge, RealEffect
<1>4. seed_unknowns(doc.table, Defined(program.defs), program.edges, program.roots)
        \subseteq EffectRoot
  BY <1>2, <1>3, SeedsAssumption DEF seed_unknowns, CarryingEdges, EffectRoot, Edge
<1>5. roots \subseteq EffectRoot
  BY <1>3, <1>4, SeededIs
<1>6. Seeded(program, doc) = [program EXCEPT !.roots = roots]
  BY <1>1 DEF Seeded, Extracted
<1> HIDE DEF roots
<1>7. QED
  BY <1>1, <1>5, <1>6 DEF Facts, Extracted, Defined

LEMMA InsertTyped ==
  ASSUME NEW t \in Tables, NEW fs \in Facts
  PROVE  /\ insert_facts(t, fs) \in Tables
         /\ insert_facts(t, fs).definitions = Upserted(t.definitions, fs)
         /\ insert_facts(t, fs).is_component = (t.is_component \ Defined(fs.defs)) \cup fs.components
         /\ insert_facts(t, fs).edges = t.edges \cup fs.edges
         /\ insert_facts(t, fs).unmarked = t.unmarked \cup fs.unmarked
         /\ insert_facts(t, fs).effect_roots = t.effect_roots \cup fs.roots
         /\ insert_facts(t, fs).effect_summaries = t.effect_summaries
<1> DEFINE u == insert_facts(t, fs)
<1>1. /\ t \in [definitions : [Symbol -> File \cup {NoFile}], is_component : SUBSET Symbol,
                edges : SUBSET Edge, unmarked : SUBSET Edge, effect_roots : SUBSET EffectRoot,
                effect_summaries : SUBSET Row]
      /\ t.is_component \subseteq Defined(t.definitions) /\ t.unmarked \subseteq t.edges
      /\ fs \in Extracted
      /\ fs.components \subseteq Defined(fs.defs) /\ fs.unmarked \subseteq fs.edges
  BY DEF Tables, Facts
<1>2. /\ u.definitions = Upserted(t.definitions, fs)
      /\ u.is_component = (t.is_component \ Defined(fs.defs)) \cup fs.components
      /\ u.edges = t.edges \cup fs.edges
      /\ u.unmarked = t.unmarked \cup fs.unmarked
      /\ u.effect_roots = t.effect_roots \cup fs.roots
      /\ u.effect_summaries = t.effect_summaries
  BY <1>1 DEF insert_facts
<1>3. Upserted(t.definitions, fs) \in [Symbol -> File \cup {NoFile}]
  BY <1>1 DEF Upserted, Extracted
<1>4. (t.is_component \ Defined(fs.defs)) \cup fs.components
        \subseteq Defined(Upserted(t.definitions, fs))
  BY <1>1 DEF Upserted, Extracted, Defined
<1>5. /\ t.edges \cup fs.edges \in SUBSET Edge /\ t.unmarked \cup fs.unmarked \in SUBSET Edge
      /\ t.effect_roots \cup fs.roots \in SUBSET EffectRoot
      /\ (t.is_component \ Defined(fs.defs)) \cup fs.components \in SUBSET Symbol
  BY <1>1 DEF Extracted
<1>6. u \in [definitions : [Symbol -> File \cup {NoFile}], is_component : SUBSET Symbol,
            edges : SUBSET Edge, unmarked : SUBSET Edge, effect_roots : SUBSET EffectRoot,
            effect_summaries : SUBSET Row]
  BY <1>1, <1>3, <1>5 DEF insert_facts
<1> HIDE DEF u
<1>7. u \in Tables
  BY <1>1, <1>2, <1>4, <1>6 DEF Tables
<1>8. QED
  BY <1>2, <1>7 DEF u

LEMMA WriteTyped ==
  ASSUME NEW t \in Tables, NEW fs \in Facts, NEW engine, NEW rep \in Reports(fs, engine)
  PROVE  /\ write_summaries(t, rep) \in Tables
         /\ write_summaries(t, rep).definitions = t.definitions
         /\ write_summaries(t, rep).is_component = t.is_component
         /\ write_summaries(t, rep).edges = t.edges
         /\ write_summaries(t, rep).unmarked = t.unmarked
         /\ write_summaries(t, rep).effect_roots = t.effect_roots
         /\ write_summaries(t, rep).effect_summaries = Rows(rep)
<1>1. Rows(rep) \in SUBSET Row
  <2>1. ASSUME NEW se \in Reported(rep)
        PROVE  /\ se[1] \in Symbol /\ se[2] \in Effect
               /\ rep.evidence[se[1]][se[2]] \in SimplePaths \cup {<<>>}
    BY ReportsAreHonest DEF Reported
  <2>2. QED
    BY <2>1 DEF Rows, Row
<1>2. write_summaries(t, rep) = [t EXCEPT !.effect_summaries = Rows(rep)]
  BY DEF write_summaries, Tables
<1>3. t \in [definitions : [Symbol -> File \cup {NoFile}], is_component : SUBSET Symbol,
             edges : SUBSET Edge, unmarked : SUBSET Edge, effect_roots : SUBSET EffectRoot,
             effect_summaries : SUBSET Row]
  BY DEF Tables
<1>4. QED
  BY <1>1, <1>2, <1>3 DEF Tables, Defined

LEMMA ReportsTyped ==
  ASSUME NEW fs, NEW engine, NEW rep \in Reports(fs, engine)
  PROVE  rep \in Answers
<1>1. rep = [effects |-> rep.effects, evidence |-> rep.evidence]
  BY DEF Reports
<1>2. rep.effects \in [Symbol -> SUBSET Effect]
  <2>1. CarriedEffects(Fed(fs, engine)) \in [Symbol -> SUBSET Effect]
    BY DEF CarriedEffects
  <2>2. QED
    BY <2>1, ReportsAreHonest
<1>3. QED
  BY <1>1, <1>2, ReportsAreHonest DEF Answers

(* A verdict holds every finding of the policy, and those of the rule for  *)
(* components it picked.                                                   *)
LEMMA VerdictsAre ==
  ASSUME NEW fs, NEW rep, NEW doc, NEW verdict \in Verdicts(fs, rep, doc)
  PROVE  /\ check(fs.defs, fs.edges, rep, doc) \subseteq verdict
         /\ \A n \in verdict :
              \/ n \in check(fs.defs, fs.edges, rep, doc)
              \/ doc.component.enabled /\ n \in RenderFindings(fs, doc)
<1> DEFINE always == check(fs.defs, fs.edges, rep, doc)
           named == IF doc.component.enabled THEN RenderFindings(fs, doc) ELSE {}
<1>1. \E picks \in SUBSET named : verdict = always \cup picks
  <2> HIDE DEF always
  <2>1. QED
    BY DEF Verdicts, always
<1>2. QED
  BY <1>1

LEMMA CheckFindingIs ==
  ASSUME NEW defs, NEW edges, NEW rep, NEW doc, NEW n \in check(defs, edges, rep, doc)
  PROVE  \E s \in Symbol : \E region \in governing_regions(doc, defs[s]) :
           /\ defs[s] \in File \ doc.ignore
           /\ n \in ForbiddenFindings(s, region, rep)
                      \cup UnknownFindings(doc, s, region, edges, rep)
BY DEF check

IsRenderFinding(fs, doc, n, t) ==
  /\ n = [symbol |-> t[1], region |-> "render", effect |-> t[2], evidence |-> t[3],
          kind |-> "component", severity |-> "error"]
  /\ fs.defs[t[1]] \in File \ doc.ignore
  /\ t[3] \in ShortestPaths(render_forward_adjacency(fs), t[1],
                            forbidden_syms(fs, from_table(doc.component)))
  /\ [symbol |-> t[3][Len(t[3])], effect |-> t[2]] \in fs.roots

LEMMA RenderFindingIs ==
  ASSUME NEW fs, NEW doc, NEW n \in RenderFindings(fs, doc)
  PROVE  \E t \in fs.components \X from_table(doc.component) \X SimplePaths :
           IsRenderFinding(fs, doc, n, t)
BY DEF RenderFindings, IsRenderFinding

LEMMA VerdictsTyped ==
  ASSUME NEW fs \in Facts, NEW rep, NEW doc, NEW verdict \in Verdicts(fs, rep, doc),
         NEW n \in verdict
  PROVE  IsFinding(n)
<1>1. CASE n \in check(fs.defs, fs.edges, rep, doc)
  <2>1. PICK s \in Symbol : \E region \in governing_regions(doc, fs.defs[s]) :
          n \in ForbiddenFindings(s, region, rep)
                  \cup UnknownFindings(doc, s, region, fs.edges, rep)
    BY <1>1, CheckFindingIs
  <2> PICK region \in governing_regions(doc, fs.defs[s]) :
          n \in ForbiddenFindings(s, region, rep)
                  \cup UnknownFindings(doc, s, region, fs.edges, rep)
    BY <2>1
  <2>2. CASE n \in ForbiddenFindings(s, region, rep)
    BY <2>2 DEF ForbiddenFindings, Finding, IsFinding
  <2>3. CASE n \in UnknownFindings(doc, s, region, fs.edges, rep)
    <3> DEFINE path == rep.evidence[s][Unknown]
    <3>1. n = Finding(s, region, Unknown, path, flavor(fs.edges, path),
                      IF doc.on_unknown = "fail" THEN "error" ELSE "warning")
      BY <2>3 DEF UnknownFindings
    <3>2. QED
      BY <3>1 DEF Finding, IsFinding
  <2>4. QED
    BY <2>1, <2>2, <2>3
<1>2. CASE n \in RenderFindings(fs, doc)
  <2>1. PICK t \in fs.components \X from_table(doc.component) \X SimplePaths :
          IsRenderFinding(fs, doc, n, t)
    BY <1>2, RenderFindingIs
  <2>2. t[1] \in Symbol
    BY DEF Facts, Extracted
  <2>3. QED
    BY <2>1, <2>2 DEF IsFinding, IsRenderFinding
<1>3. QED
  BY <1>1, <1>2, VerdictsAre

LEMMA TypedInit == Init => Typed
<1> SUFFICES ASSUME Init PROVE Typed
  OBVIOUS
<1>1. /\ stores \in [Stores -> Tables]
      /\ facts \in [Process -> Facts]
      /\ report \in [Process -> Answers]
  BY EmptyIsTyped DEF Init
<1>2. /\ pc \in [Process -> PCs]
      /\ input \in [Process -> Inputs \cup {NoInput}]
      /\ findings = [p \in Process |-> findings[p]]
      /\ \A p \in Process : \A n \in findings[p] : IsFinding(n)
      /\ \A p \in Process : pc[p] # "idle" => input[p] \in Inputs
  BY DEF Init, PCs
<1>3. QED
  BY <1>1, <1>2 DEF Typed

LEMMA TypedStep == Typed /\ [Next]_vars => Typed'
<1> SUFFICES ASSUME Typed, Next PROVE Typed'
  BY DEF Typed, vars
<1> USE DEF PCs
<1>1. ASSUME NEW p \in Process, NEW program \in Programs, NEW doc \in Documents,
             NEW engine \in Engine, Begin(p, program, doc, engine)
      PROVE  Typed'
  <2>1. [program |-> program, doc |-> doc, engine |-> engine] \in Inputs
    BY DEF Inputs
  <2>2. facts' \in [Process -> Facts]
    BY <1>1, SeededIsFacts, EmptyIsTyped DEF Begin, Start, Refuse, Typed
  <2>3. stores' \in [Stores -> Tables]
    BY <1>1, StoresWithoutTyped DEF Begin, Start, Refuse, Typed
  <2>4. report' \in [Process -> Answers]
    BY <1>1, EmptyIsTyped DEF Begin, Start, Refuse, Typed
  <2>5. pc' \in [Process -> PCs] /\ input' \in [Process -> Inputs \cup {NoInput}]
    BY <1>1, <2>1 DEF Begin, Start, Refuse, Typed
  <2>6. /\ findings' = [q \in Process |-> findings'[q]]
        /\ \A q \in Process : \A n \in findings'[q] : IsFinding(n)
    BY <1>1 DEF Begin, Start, Refuse, Typed
  <2>7. \A q \in Process : pc'[q] # "idle" => input'[q] \in Inputs
    BY <1>1, <2>1 DEF Begin, Start, Refuse, Typed
  <2>8. QED
    BY <2>2, <2>3, <2>4, <2>5, <2>6, <2>7 DEF Typed, IsFinding
<1>2. ASSUME NEW p \in Process, InsertFacts(p)
      PROVE  Typed'
  <2>1. stores' \in [Stores -> Tables]
    BY <1>2, StoreOfIn, InsertTyped DEF InsertFacts, Typed
  <2>2. QED
    BY <1>2, <2>1 DEF InsertFacts, Typed, IsFinding
<1>3. ASSUME NEW p \in Process, LoadDefinitions(p) \/ LoadEdges(p) \/ LoadRoots(p)
      PROVE  Typed'
  <2>1. stores[StoreOf(p)] \in Tables /\ facts[p] \in Facts
    BY StoreOfIn DEF Typed
  <2>2. facts' \in [Process -> Facts]
    <3>1. CASE LoadDefinitions(p)
      BY <2>1, <3>1 DEF LoadDefinitions, Typed, Tables, Facts, Extracted
    <3>2. CASE LoadEdges(p)
      BY <2>1, <3>2 DEF LoadEdges, Typed, Tables, Facts, Extracted
    <3>3. CASE LoadRoots(p)
      BY <2>1, <3>3 DEF LoadRoots, Typed, Tables, Facts, Extracted
    <3>4. QED
      BY <1>3, <3>1, <3>2, <3>3
  <2>3. QED
    BY <1>3, <2>2 DEF LoadDefinitions, LoadEdges, LoadRoots, Typed, IsFinding
<1>4. ASSUME NEW p \in Process, WriteSummaries(p)
      PROVE  Typed'
  <2>1. PICK rep \in Reports(facts[p], input[p].engine) :
          /\ report' = [report EXCEPT ![p] = rep]
          /\ stores' = [stores EXCEPT ![StoreOf(p)] = write_summaries(@, rep)]
    BY <1>4 DEF WriteSummaries
  <2>2. stores' \in [Stores -> Tables]
    BY <2>1, StoreOfIn, WriteTyped DEF Typed
  <2>3. report' \in [Process -> Answers]
    BY <2>1, ReportsTyped DEF Typed
  <2>4. QED
    BY <1>4, <2>2, <2>3 DEF WriteSummaries, Typed, IsFinding
<1>5. ASSUME NEW p \in Process, Conclude(p)
      PROVE  Typed'
  <2>1. PICK verdict \in Verdicts(facts[p], report[p], input[p].doc) :
          findings' = [findings EXCEPT ![p] = verdict]
    BY <1>5 DEF Conclude
  <2>2. \A n \in verdict : IsFinding(n)
    BY VerdictsTyped DEF Typed
  <2>3. /\ findings' = [q \in Process |-> findings'[q]]
        /\ \A q \in Process : \A n \in findings'[q] : IsFinding(n)
    BY <2>1, <2>2 DEF Typed
  <2>4. QED
    BY <1>5, <2>3 DEF Conclude, Typed, IsFinding
<1>6. ASSUME NEW p \in Process, Die(p)
      PROVE  Typed'
  <2>1. stores' \in [Stores -> Tables]
    BY <1>6, StoresWithoutTyped DEF Die, Typed
  <2>2. QED
    BY <1>6, <2>1, EmptyIsTyped DEF Die, Typed, IsFinding
<1>7. QED
  BY <1>1, <1>2, <1>3, <1>4, <1>5, <1>6 DEF Next, Continue

LEMMA TypedAlways == Spec => []Typed
BY TypedInit, TypedStep, PTL DEF Spec

(* Whatever the programs and however often checks run, die and overlap:    *)
(* every table and every process holds what it was made for, a component   *)
(* row has its definitions row, and a seam mark is on a stored edge.       *)
THEOREM TypeCorrect == Spec => []TypeOK
BY TypedAlways, TypedIsTypeOK, PTL

-----------------------------------------------------------------------------
(***************************************************************************)
(* How the steps of one check change the store of another.                 *)
(***************************************************************************)
LEMMA OthersKeepTheirStore ==
  ASSUME Typed, NEW p \in Process, stores' = StoresWithout(p), NEW q \in Process, q # p
  PROVE  stores'[StoreOf(q)] = stores[StoreOf(q)]
BY PipelineAssumption DEF Typed, StoresWithout, StoreOf

LEMMA InsertGrows ==
  ASSUME Typed, NEW p \in Process, InsertFacts(p), NEW st \in Stores
  PROVE  /\ stores[st].edges \subseteq stores'[st].edges
         /\ stores[st].unmarked \subseteq stores'[st].unmarked
         /\ stores[st].effect_roots \subseteq stores'[st].effect_roots
         /\ stores'[st].effect_summaries = stores[st].effect_summaries
<1>1. stores[StoreOf(p)] \in Tables /\ facts[p] \in Facts
  BY StoreOfIn DEF Typed
<1>2. CASE st = StoreOf(p)
  <2>1. stores'[st] = insert_facts(stores[st], facts[p])
    BY <1>2, StoreOfIn DEF InsertFacts, Typed
  <2>2. QED
    BY <1>1, <1>2, <2>1, InsertTyped
<1>3. CASE st # StoreOf(p)
  BY <1>3 DEF InsertFacts, Typed
<1>4. QED
  BY <1>2, <1>3

LEMMA WriteKeepsFacts ==
  ASSUME Typed, NEW p \in Process, WriteSummaries(p), NEW st \in Stores
  PROVE  /\ stores'[st].definitions = stores[st].definitions
         /\ stores'[st].is_component = stores[st].is_component
         /\ stores'[st].edges = stores[st].edges
         /\ stores'[st].unmarked = stores[st].unmarked
         /\ stores'[st].effect_roots = stores[st].effect_roots
<1>1. stores[StoreOf(p)] \in Tables /\ facts[p] \in Facts
  BY StoreOfIn DEF Typed
<1>2. PICK rep \in Reports(facts[p], input[p].engine) :
        stores' = [stores EXCEPT ![StoreOf(p)] = write_summaries(@, rep)]
  BY DEF WriteSummaries
<1>3. CASE st = StoreOf(p)
  <2>1. stores'[st] = write_summaries(stores[st], rep)
    BY <1>2, <1>3, StoreOfIn DEF Typed
  <2>2. QED
    BY <1>1, <1>3, <2>1, WriteTyped
<1>4. CASE st # StoreOf(p)
  BY <1>2, <1>4 DEF Typed
<1>5. QED
  BY <1>3, <1>4

-----------------------------------------------------------------------------
(***************************************************************************)
(* The summaries never exceed the facts.                                   *)
(***************************************************************************)
InTables(t) == [edges |-> t.edges, roots |-> t.effect_roots]

RowBacked(t, r) ==
  IF r.evidence_path = <<>>
  THEN Carries(Circuit(InTables(t)), r.symbol, r.effect)
  ELSE \E q \in SimplePaths :
         /\ Pieces(q) = r.evidence_path
         /\ IsEvidencePath(InTables(t), r.symbol, r.effect, q)

TablesBacked(t) == \A r \in t.effect_summaries : RowBacked(t, r)

(* What a check has read is still in its store when it writes.             *)
Backed ==
  /\ \A p \in Process :
       /\ pc[p] \in {"edges", "loaded"} => facts[p].edges \subseteq stores[StoreOf(p)].edges
       /\ pc[p] = "loaded" => facts[p].roots \subseteq stores[StoreOf(p)].effect_roots
  /\ \A st \in Stores : TablesBacked(stores[st])

LEMMA EvidenceStays ==
  ASSUME NEW fs, NEW more, fs.edges \subseteq more.edges, fs.roots \subseteq more.roots,
         NEW s, NEW e, NEW q, IsEvidencePath(fs, s, e, q)
  PROVE  IsEvidencePath(more, s, e, q)
BY DEF IsEvidencePath, IsUsePath, Uses, RootsOf

LEMMA BackedStays ==
  ASSUME NEW t, NEW u, TablesBacked(t), t.edges \subseteq u.edges,
         t.effect_roots \subseteq u.effect_roots, u.effect_summaries = t.effect_summaries
  PROVE  TablesBacked(u)
<1> DEFINE old == InTables(t)
           new == InTables(u)
<1>1. old.edges \subseteq new.edges /\ old.roots \subseteq new.roots
  BY DEF InTables
<1>2. /\ Circuit(old).edges \subseteq Circuit(new).edges
      /\ Circuit(old).roots \subseteq Circuit(new).roots
  BY <1>1 DEF Circuit
<1> HIDE DEF old, new
<1>3. ASSUME NEW s, NEW e, NEW q, IsEvidencePath(old, s, e, q)
      PROVE  IsEvidencePath(new, s, e, q)
  BY <1>1, <1>3, EvidenceStays
<1>4. ASSUME NEW s, NEW e, Carries(Circuit(old), s, e)
      PROVE  Carries(Circuit(new), s, e)
  BY <1>2, <1>4, CarriesMore
<1>5. QED
  BY <1>3, <1>4 DEF TablesBacked, RowBacked, old, new

LEMMA RowsAreBacked ==
  ASSUME NEW fs, fs.edges \subseteq Edge, NEW engine, NEW rep \in Reports(fs, engine),
         NEW t, t.effect_summaries = Rows(rep),
         fs.edges \subseteq t.edges, fs.roots \subseteq t.effect_roots
  PROVE  TablesBacked(t)
<1> SUFFICES ASSUME NEW r \in Rows(rep) PROVE RowBacked(t, r)
  BY DEF TablesBacked
<1> DEFINE stored == InTables(t)
<1>1. PICK se \in Reported(rep) :
        r = [symbol |-> se[1], effect |-> se[2],
             evidence_path |-> Pieces(rep.evidence[se[1]][se[2]])]
  BY DEF Rows
<1>2. /\ fs.edges \subseteq stored.edges /\ fs.roots \subseteq stored.roots
      /\ Circuit(fs).edges \subseteq Circuit(stored).edges
      /\ Circuit(fs).roots \subseteq Circuit(stored).roots
  BY DEF InTables, Circuit
<1> HIDE DEF stored
<1>3. se \in Carried(Fed(fs, engine)) /\ se \in Symbol \X Effect
  BY ReportsAreHonest DEF Reported
<1>4. Carries(Circuit(stored), se[1], se[2])
  <2>1. Carries(Circuit(fs), se[1], se[2])
    BY <1>3, CircuitCarries DEF Carried, Fed
  <2>2. QED
    BY <1>2, <2>1, CarriesMore
<1>5. CASE se \in Carried(fs)
  <2>1. rep.evidence[se[1]][se[2]] \in Honest(fs, se)
    BY <1>5, ReportsAreHonest
  <2>2. IsEvidencePath(stored, se[1], se[2], rep.evidence[se[1]][se[2]])
    BY <1>2, <2>1, EvidenceStays DEF Honest
  <2>3. QED
    BY <1>1, <1>4, <2>1, <2>2 DEF RowBacked, Honest, stored
<1>6. CASE se \notin Carried(fs)
  <2>1. r.evidence_path = <<>>
    BY <1>1, <1>3, <1>6, NoPieces, ReportsAreHonest
  <2>2. QED
    BY <1>1, <1>4, <2>1 DEF RowBacked, stored
<1>7. QED
  BY <1>5, <1>6

LEMMA BackedInit == Init => Backed
<1> SUFFICES ASSUME Init PROVE Backed
  OBVIOUS
<1>1. \A st \in Stores : stores[st].effect_summaries = {}
  BY DEF Init, EmptyTables
<1>2. QED
  BY <1>1 DEF Init, Backed, TablesBacked

LEMMA BackedStep == Typed /\ Backed /\ [Next]_vars => Backed'
<1> SUFFICES ASSUME Typed, Backed, Next PROVE Backed'
  BY DEF Backed, TablesBacked, RowBacked, vars
<1> DEFINE Read(q) ==
             /\ pc[q] \in {"edges", "loaded"} => facts[q].edges \subseteq stores[StoreOf(q)].edges
             /\ pc[q] = "loaded" => facts[q].roots \subseteq stores[StoreOf(q)].effect_roots
<1>1. ASSUME NEW p \in Process, stores' = StoresWithout(p),
             pc' = [pc EXCEPT ![p] = pc'[p]], pc'[p] \in {"idle", "refused", "seeded"},
             facts' = [facts EXCEPT ![p] = facts'[p]]
      PROVE  Backed'
  <2>1. ASSUME NEW q \in Process
        PROVE  Read(q)'
    <3>1. CASE q = p
      BY <1>1, <3>1 DEF Typed
    <3>2. CASE q # p
      BY <1>1, <3>2, OthersKeepTheirStore DEF Typed, Backed
    <3>3. QED
      BY <3>1, <3>2
  <2>2. ASSUME NEW st \in Stores
        PROVE  TablesBacked(stores'[st])
    <3>1. stores'[st] = stores[st] \/ stores'[st] = EmptyTables
      BY <1>1 DEF StoresWithout, Typed
    <3>2. TablesBacked(EmptyTables)
      BY DEF TablesBacked, EmptyTables
    <3>3. QED
      BY <3>1, <3>2 DEF Backed
  <2>3. QED
    BY <2>1, <2>2 DEF Backed, TablesBacked, RowBacked
<1>2. ASSUME NEW p \in Process, InsertFacts(p)
      PROVE  Backed'
  <2>1. ASSUME NEW q \in Process
        PROVE  Read(q)'
    BY <1>2, InsertGrows, StoreOfIn DEF InsertFacts, Typed, Backed
  <2>2. ASSUME NEW st \in Stores
        PROVE  TablesBacked(stores'[st])
    BY <1>2, InsertGrows, BackedStays DEF Backed
  <2>3. QED
    BY <2>1, <2>2 DEF Backed, TablesBacked, RowBacked
<1>3. ASSUME NEW p \in Process, LoadDefinitions(p) \/ LoadEdges(p) \/ LoadRoots(p)
      PROVE  Backed'
  <2>1. stores' = stores
    BY <1>3 DEF LoadDefinitions, LoadEdges, LoadRoots
  <2>2. stores[StoreOf(p)] \in Tables /\ facts[p] \in Facts
    BY StoreOfIn DEF Typed
  <2>3. ASSUME NEW q \in Process
        PROVE  Read(q)'
    <3>1. CASE q = p
      <4>1. CASE LoadDefinitions(p)
        BY <2>1, <3>1, <4>1 DEF LoadDefinitions, Typed
      <4>2. CASE LoadEdges(p)
        BY <2>1, <2>2, <3>1, <4>2 DEF LoadEdges, Typed, Facts, Extracted
      <4>3. CASE LoadRoots(p)
        BY <2>1, <2>2, <3>1, <4>3 DEF LoadRoots, Typed, Backed, Facts, Extracted
      <4>4. QED
        BY <1>3, <4>1, <4>2, <4>3
    <3>2. CASE q # p
      BY <1>3, <2>1, <3>2 DEF LoadDefinitions, LoadEdges, LoadRoots, Typed, Backed
    <3>3. QED
      BY <3>1, <3>2
  <2>4. QED
    BY <2>1, <2>3 DEF Backed, TablesBacked, RowBacked
<1>4. ASSUME NEW p \in Process, WriteSummaries(p)
      PROVE  Backed'
  <2>1. ASSUME NEW q \in Process
        PROVE  Read(q)'
    BY <1>4, WriteKeepsFacts, StoreOfIn DEF WriteSummaries, Typed, Backed
  <2>2. ASSUME NEW st \in Stores
        PROVE  TablesBacked(stores'[st])
    <3>1. PICK rep \in Reports(facts[p], input[p].engine) :
            stores' = [stores EXCEPT ![StoreOf(p)] = write_summaries(@, rep)]
      BY <1>4 DEF WriteSummaries
    <3>2. CASE st = StoreOf(p)
      <4>1. stores[st] \in Tables /\ facts[p] \in Facts /\ pc[p] = "loaded"
        BY <1>4 DEF Typed, WriteSummaries
      <4>2. stores'[st] = write_summaries(stores[st], rep)
        BY <3>1, <3>2 DEF Typed
      <4>3. /\ stores'[st].effect_summaries = Rows(rep)
            /\ stores'[st].edges = stores[st].edges
            /\ stores'[st].effect_roots = stores[st].effect_roots
        BY <4>1, <4>2, WriteTyped
      <4>4. /\ facts[p].edges \subseteq stores'[st].edges
            /\ facts[p].roots \subseteq stores'[st].effect_roots
        BY <3>2, <4>1, <4>3 DEF Backed
      <4>5. QED
        BY <4>1, <4>3, <4>4, RowsAreBacked DEF Facts, Extracted
    <3>3. CASE st # StoreOf(p)
      BY <3>1, <3>3 DEF Typed, Backed
    <3>4. QED
      BY <3>2, <3>3
  <2>3. QED
    BY <2>1, <2>2 DEF Backed, TablesBacked, RowBacked
<1>5. ASSUME NEW p \in Process, Conclude(p)
      PROVE  Backed'
  BY <1>5 DEF Conclude, Typed, Backed, TablesBacked, RowBacked
<1>6. ASSUME NEW p \in Process, NEW program \in Programs, NEW doc \in Documents,
             NEW engine \in Engine, Begin(p, program, doc, engine)
      PROVE  Backed'
  <2>1. /\ stores' = StoresWithout(p)
        /\ pc' = [pc EXCEPT ![p] = pc'[p]] /\ pc'[p] \in {"idle", "refused", "seeded"}
        /\ facts' = [facts EXCEPT ![p] = facts'[p]]
    BY <1>6 DEF Begin, Start, Refuse, Typed
  <2>2. QED
    BY <1>1, <2>1
<1>7. ASSUME NEW p \in Process, Die(p)
      PROVE  Backed'
  <2>1. /\ stores' = StoresWithout(p)
        /\ pc' = [pc EXCEPT ![p] = pc'[p]] /\ pc'[p] \in {"idle", "refused", "seeded"}
        /\ facts' = [facts EXCEPT ![p] = facts'[p]]
    BY <1>7 DEF Die, Typed
  <2>2. QED
    BY <1>1, <2>1
<1>8. QED
  BY <1>2, <1>3, <1>4, <1>5, <1>6, <1>7 DEF Next, Continue

LEMMA BackedIsSummariesBacked == Typed /\ Backed => SummariesBacked
<1> SUFFICES ASSUME Typed, Backed, NEW st \in DOMAIN stores,
                    NEW r \in load_summaries(stores[st].effect_summaries)
             PROVE  IF r.evidence = <<>>
                    THEN Carries(Circuit(StoredFacts(st)), r.symbol, r.effect)
                    ELSE \E q \in SimplePaths :
                           /\ Pieces(q) = r.evidence
                           /\ IsEvidencePath(StoredFacts(st), r.symbol, r.effect, q)
  BY DEF SummariesBacked
<1>1. PICK row \in stores[st].effect_summaries :
        r = [symbol |-> row.symbol, effect |-> row.effect, evidence |-> row.evidence_path]
  BY DEF load_summaries
<1>2. RowBacked(stores[st], row)
  BY DEF Typed, Backed, TablesBacked
<1>3. QED
  BY <1>1, <1>2 DEF RowBacked, InTables, StoredFacts

(* At any moment, between the two transactions of a check, after a crash   *)
(* there, and while other checks write to the same file, every persisted   *)
(* summary is supported by the persisted facts: one with an evidence path  *)
(* by that chain of uses, one without by the edges the default engine is   *)
(* fed, signatures among them (store.rs, write_summaries after             *)
(* insert_facts; hinzu-dbsp lib.rs, effect_pairs).                         *)
THEOREM SummariesNeverExceedFacts == Spec => []SummariesBacked
<1>1. Init => Backed
  BY BackedInit
<1>2. Typed /\ Backed /\ [Next]_vars => Backed'
  BY BackedStep
<1>3. QED
  BY <1>1, <1>2, TypedAlways, BackedIsSummariesBacked, PTL DEF Spec

-----------------------------------------------------------------------------
(***************************************************************************)
(* A success certifies the program.  Hypothesis: when processes share the  *)
(* file of --db, no two of their revisions have a definition in different  *)
(* files; else one check could read where the other says it is.  The rule  *)
(* for components needs them to agree on which of those are components.    *)
(***************************************************************************)
FilesStay ==
  \/ \A p \in Process : Lone(p)
  \/ \A a, b \in Programs : \A s \in Defined(a.defs) \cap Defined(b.defs) :
       a.defs[s] = b.defs[s]

ComponentsStay ==
  \/ \A p \in Process : Lone(p)
  \/ \A a, b \in Programs : Defined(a.defs) \cap b.components \subseteq a.components

(* What process p found in its program and hinzu.toml.                     *)
Own(p) == Seeded(input[p].program, input[p].doc)

Agrees(defs, components, own) ==
  /\ \A s \in Defined(own.defs) : defs[s] = own.defs[s]
  /\ ComponentsStay => own.components \subseteq components

(* A report has at least the effects that its facts carry.                 *)
MissesNothing(rep, fs) ==
  \A s \in Symbol, e \in Effect : Carries(fs, s, e) => e \in rep.effects[s]

(* From its store a check reads no less than it wrote, and each definition *)
(* where it is; what follows is computed from that.                        *)
CoversFacts(p) ==
  /\ pc[p] = "seeded" => facts[p] = Own(p)
  /\ pc[p] \in {"definitions", "edges", "loaded", "written", "done"} =>
       Agrees(facts[p].defs, facts[p].components, Own(p))
  /\ pc[p] \in {"edges", "loaded", "written", "done"} =>
       Own(p).edges \subseteq facts[p].edges /\ Own(p).unmarked \subseteq facts[p].unmarked
  /\ pc[p] \in {"loaded", "written", "done"} => Own(p).roots \subseteq facts[p].roots
  /\ pc[p] \in {"written", "done"} => MissesNothing(report[p], facts[p])
  /\ pc[p] = "done" => findings[p] \in Verdicts(facts[p], report[p], input[p].doc)

StoreAgrees(t, own) == Agrees(t.definitions, t.is_component, own)

CoversStore(p) ==
  /\ pc[p] = "inserted" => StoreAgrees(stores[StoreOf(p)], Own(p))
  /\ pc[p] \in {"inserted", "definitions"} =>
       /\ Own(p).edges \subseteq stores[StoreOf(p)].edges
       /\ Own(p).unmarked \subseteq stores[StoreOf(p)].unmarked
  /\ pc[p] \in {"inserted", "definitions", "edges"} =>
       Own(p).roots \subseteq stores[StoreOf(p)].effect_roots

Covers(p) ==
  pc[p] \notin {"idle", "refused"} => Parses(input[p].doc) /\ CoversFacts(p) /\ CoversStore(p)

Covered == \A p \in Process : Covers(p)

(* A process is not disturbed while its store only grows.                  *)
LEMMA CoversStays ==
  ASSUME NEW q \in Process, Covers(q),
         pc'[q] = pc[q], input'[q] = input[q], facts'[q] = facts[q], report'[q] = report[q],
         findings'[q] = findings[q],
         stores[StoreOf(q)].edges \subseteq stores'[StoreOf(q)].edges,
         stores[StoreOf(q)].unmarked \subseteq stores'[StoreOf(q)].unmarked,
         stores[StoreOf(q)].effect_roots \subseteq stores'[StoreOf(q)].effect_roots,
         pc[q] = "inserted" => StoreAgrees(stores'[StoreOf(q)], Own(q))
  PROVE  Covers(q)'
<1>1. Own(q)' = Own(q)
  BY DEF Own
<1>2. pc[q] \notin {"idle", "refused"} => CoversFacts(q)'
  BY <1>1 DEF Covers, CoversFacts
<1>3. pc[q] \notin {"idle", "refused"} => CoversStore(q)'
  BY <1>1 DEF Covers, CoversStore
<1>4. QED
  BY <1>2, <1>3 DEF Covers

(* What an insert leaves of the definitions of another check.              *)
LEMMA InsertAgrees ==
  ASSUME FilesStay, Typed, Covered, NEW p \in Process, InsertFacts(p),
         NEW q \in Process, q # p, pc[q] = "inserted"
  PROVE  StoreAgrees(stores'[StoreOf(q)], Own(q))
<1>1. StoreAgrees(stores[StoreOf(q)], Own(q))
  BY DEF Covered, Covers, CoversStore
<1>2. CASE StoreOf(p) # StoreOf(q)
  BY <1>1, <1>2, StoreOfIn DEF InsertFacts, Typed
<1>3. CASE StoreOf(p) = StoreOf(q)
  <2>1. ~ \A c \in Process : Lone(c)
    BY <1>3 DEF Lone
  <2>2. \A a, b \in Programs : \A s \in Defined(a.defs) \cap Defined(b.defs) :
          a.defs[s] = b.defs[s]
    BY <2>1 DEF FilesStay
  <2>3. /\ input[p].program \in Programs /\ input[q].program \in Programs
        /\ facts[p] = Own(p) /\ facts[p] \in Facts /\ stores[StoreOf(p)] \in Tables
    BY StoreOfIn DEF InsertFacts, Typed, Inputs, Covered, Covers, CoversFacts
  <2>4. Own(p).defs = input[p].program.defs /\ Own(q).defs = input[q].program.defs
    BY <2>3, SeededIs DEF Own
  <2>5. stores'[StoreOf(q)] = insert_facts(stores[StoreOf(q)], facts[p])
    BY <1>3, StoreOfIn DEF InsertFacts, Typed
  <2>6. LET t == stores[StoreOf(q)] u == stores'[StoreOf(q)]
        IN  /\ u.definitions = Upserted(t.definitions, facts[p])
            /\ u.is_component = (t.is_component \ Defined(facts[p].defs)) \cup facts[p].components
    BY <1>3, <2>3, <2>5, InsertTyped
  <2>7. ASSUME NEW s \in Defined(Own(q).defs)
        PROVE  Upserted(stores[StoreOf(q)].definitions, facts[p])[s] = Own(q).defs[s]
    BY <1>1, <2>2, <2>3, <2>4 DEF Upserted, StoreAgrees, Agrees, Defined
  <2>8. ASSUME ComponentsStay, NEW s \in Own(q).components
        PROVE  s \in stores'[StoreOf(q)].is_component
    <3>1. /\ Own(p).components = input[p].program.components
          /\ Own(q).components = input[q].program.components
      BY <2>3, SeededIs DEF Own
    <3>2. Defined(Own(p).defs) \cap Own(q).components \subseteq Own(p).components
      BY <2>1, <2>3, <2>4, <2>8, <3>1 DEF ComponentsStay
    <3>3. s \in stores[StoreOf(q)].is_component
      BY <1>1, <2>8 DEF StoreAgrees, Agrees
    <3>4. QED
      BY <2>3, <2>6, <3>2, <3>3
  <2>9. QED
    BY <2>6, <2>7, <2>8 DEF StoreAgrees, Agrees
<1>4. QED
  BY <1>2, <1>3

LEMMA CoveredStep == ASSUME FilesStay PROVE Typed /\ Covered /\ [Next]_vars => Covered'
<1> SUFFICES ASSUME FilesStay, Typed, Covered, [Next]_vars PROVE Covered'
  OBVIOUS
<1>1. ASSUME NEW p \in Process, NEW program \in Programs, NEW doc \in Documents,
             NEW engine \in Engine, Begin(p, program, doc, engine), NEW q \in Process
      PROVE  Covers(q)'
  <2>1. stores' = StoresWithout(p)
    BY <1>1 DEF Begin, Start, Refuse
  <2>2. CASE q = p
    <3>1. CASE Refuse(p, program, doc, engine)
      BY <2>2, <3>1 DEF Refuse, Typed, Covers
    <3>2. CASE Start(p, program, doc, engine)
      <4>1. /\ pc'[p] = "seeded" /\ input'[p] = [program |-> program, doc |-> doc, engine |-> engine]
            /\ facts'[p] = Seeded(program, doc) /\ Parses(doc)
        BY <3>2 DEF Start, Typed
      <4>2. Own(p)' = facts'[p]
        BY <4>1 DEF Own
      <4>3. QED
        BY <2>2, <4>1, <4>2 DEF Covers, CoversFacts, CoversStore
    <3>3. QED
      BY <1>1, <3>1, <3>2 DEF Begin
  <2>3. CASE q # p
    <3>1. stores'[StoreOf(q)] = stores[StoreOf(q)]
      BY <2>1, <2>3, OthersKeepTheirStore
    <3>2. Covers(q)
      BY DEF Covered
    <3>3. /\ pc'[q] = pc[q] /\ input'[q] = input[q] /\ facts'[q] = facts[q]
          /\ report'[q] = report[q] /\ findings'[q] = findings[q]
      BY <1>1, <2>3 DEF Begin, Start, Refuse, Typed
    <3>4. pc[q] = "inserted" => StoreAgrees(stores[StoreOf(q)], Own(q))
      BY <3>2 DEF Covers, CoversStore
    <3>5. QED
      BY <3>1, <3>2, <3>3, <3>4, CoversStays
  <2>4. QED
    BY <2>2, <2>3
<1>2. ASSUME NEW p \in Process, Die(p), NEW q \in Process
      PROVE  Covers(q)'
  <2>1. CASE q = p
    BY <1>2, <2>1 DEF Die, Typed, Covers
  <2>2. CASE q # p
    <3>1. stores'[StoreOf(q)] = stores[StoreOf(q)]
      BY <1>2, <2>2, OthersKeepTheirStore DEF Die
    <3>2. Covers(q)
      BY DEF Covered
    <3>3. /\ pc'[q] = pc[q] /\ input'[q] = input[q] /\ facts'[q] = facts[q]
          /\ report'[q] = report[q] /\ findings'[q] = findings[q]
      BY <1>2, <2>2 DEF Die, Typed
    <3>4. pc[q] = "inserted" => StoreAgrees(stores[StoreOf(q)], Own(q))
      BY <3>2 DEF Covers, CoversStore
    <3>5. QED
      BY <3>1, <3>2, <3>3, <3>4, CoversStays
  <2>3. QED
    BY <2>1, <2>2
<1>3. ASSUME NEW p \in Process, InsertFacts(p), NEW q \in Process
      PROVE  Covers(q)'
  <2>1. CASE q = p
    <3>1. /\ facts[p] = Own(p) /\ facts[p] \in Facts /\ stores[StoreOf(p)] \in Tables
          /\ Parses(input[p].doc)
      BY <1>3, StoreOfIn DEF InsertFacts, Typed, Covered, Covers, CoversFacts
    <3>2. stores'[StoreOf(p)] = insert_facts(stores[StoreOf(p)], facts[p])
      BY <1>3, StoreOfIn DEF InsertFacts, Typed
    <3>3. /\ stores'[StoreOf(p)].definitions = Upserted(stores[StoreOf(p)].definitions, facts[p])
          /\ facts[p].components \subseteq stores'[StoreOf(p)].is_component
          /\ facts[p].edges \subseteq stores'[StoreOf(p)].edges
          /\ facts[p].unmarked \subseteq stores'[StoreOf(p)].unmarked
          /\ facts[p].roots \subseteq stores'[StoreOf(p)].effect_roots
      BY <3>1, <3>2, InsertTyped
    <3>4. StoreAgrees(stores'[StoreOf(p)], Own(p))
      BY <3>1, <3>3 DEF StoreAgrees, Agrees, Upserted, Defined
    <3>5. Own(p)' = Own(p) /\ pc'[p] = "inserted" /\ input'[p] = input[p]
      BY <1>3 DEF Own, InsertFacts, Typed
    <3>6. CoversStore(p)'
      BY <3>1, <3>3, <3>4, <3>5 DEF CoversStore
    <3>7. CoversFacts(p)'
      BY <3>5 DEF CoversFacts
    <3>8. QED
      BY <2>1, <3>1, <3>5, <3>6, <3>7 DEF Covers
  <2>2. CASE q # p
    <3>1. /\ stores[StoreOf(q)].edges \subseteq stores'[StoreOf(q)].edges
          /\ stores[StoreOf(q)].unmarked \subseteq stores'[StoreOf(q)].unmarked
          /\ stores[StoreOf(q)].effect_roots \subseteq stores'[StoreOf(q)].effect_roots
      BY <1>3, StoreOfIn, InsertGrows
    <3>2. Covers(q)
      BY DEF Covered
    <3>3. /\ pc'[q] = pc[q] /\ input'[q] = input[q] /\ facts'[q] = facts[q]
          /\ report'[q] = report[q] /\ findings'[q] = findings[q]
      BY <1>3, <2>2 DEF InsertFacts, Typed
    <3>4. pc[q] = "inserted" => StoreAgrees(stores'[StoreOf(q)], Own(q))
      BY <1>3, <2>2, InsertAgrees
    <3>5. QED
      BY <3>1, <3>2, <3>3, <3>4, CoversStays
  <2>3. QED
    BY <2>1, <2>2
<1>4. ASSUME NEW p \in Process, LoadDefinitions(p) \/ LoadEdges(p) \/ LoadRoots(p),
             NEW q \in Process
      PROVE  Covers(q)'
  <2>1. stores' = stores /\ input' = input /\ Covers(q)
    BY <1>4 DEF LoadDefinitions, LoadEdges, LoadRoots, Covered
  <2>2. CASE q = p
    <3>1. Own(p)' = Own(p)
      BY <2>1 DEF Own
    <3>2. /\ Parses(input[p].doc) /\ CoversFacts(p) /\ CoversStore(p)
          /\ facts[p] \in Facts
      BY <1>4, <2>1, <2>2 DEF LoadDefinitions, LoadEdges, LoadRoots, Typed, Covers
    <3>3. CASE LoadDefinitions(p)
      <4>1. pc[p] = "inserted" /\ pc'[p] = "definitions"
        BY <3>3 DEF LoadDefinitions, Typed
      <4>2. /\ facts'[p].defs = stores[StoreOf(p)].definitions
            /\ facts'[p].components = stores[StoreOf(p)].is_component
        BY <3>2, <3>3 DEF LoadDefinitions, Typed, Facts, Extracted
      <4>3. QED
        BY <2>1, <2>2, <3>1, <3>2, <4>1, <4>2
           DEF Covers, CoversFacts, CoversStore, StoreAgrees
    <3>4. CASE LoadEdges(p)
      <4>1. pc[p] = "definitions" /\ pc'[p] = "edges"
        BY <3>4 DEF LoadEdges, Typed
      <4>2. /\ facts'[p].defs = facts[p].defs /\ facts'[p].components = facts[p].components
            /\ facts'[p].edges = stores[StoreOf(p)].edges
            /\ facts'[p].unmarked = stores[StoreOf(p)].unmarked
        BY <3>2, <3>4 DEF LoadEdges, Typed, Facts, Extracted
      <4>3. QED
        BY <2>1, <2>2, <3>1, <3>2, <4>1, <4>2 DEF Covers, CoversFacts, CoversStore
    <3>5. CASE LoadRoots(p)
      <4>1. pc[p] = "edges" /\ pc'[p] = "loaded"
        BY <3>5 DEF LoadRoots, Typed
      <4>2. /\ facts'[p].defs = facts[p].defs /\ facts'[p].components = facts[p].components
            /\ facts'[p].edges = facts[p].edges /\ facts'[p].unmarked = facts[p].unmarked
            /\ facts'[p].roots = stores[StoreOf(p)].effect_roots
        BY <3>2, <3>5 DEF LoadRoots, Typed, Facts, Extracted
      <4>3. QED
        BY <2>1, <2>2, <3>1, <3>2, <4>1, <4>2 DEF Covers, CoversFacts, CoversStore
    <3>6. QED
      BY <1>4, <3>3, <3>4, <3>5
  <2>3. CASE q # p
    <3>1. /\ pc'[q] = pc[q] /\ facts'[q] = facts[q]
          /\ report'[q] = report[q] /\ findings'[q] = findings[q]
      BY <1>4, <2>3 DEF LoadDefinitions, LoadEdges, LoadRoots, Typed
    <3>2. pc[q] = "inserted" => StoreAgrees(stores[StoreOf(q)], Own(q))
      BY <2>1 DEF Covers, CoversStore
    <3>3. QED
      BY <2>1, <3>1, <3>2, CoversStays
  <2>4. QED
    BY <2>2, <2>3
<1>5. ASSUME NEW p \in Process, WriteSummaries(p), NEW q \in Process
      PROVE  Covers(q)'
  <2>1. Covers(q) /\ input' = input /\ facts' = facts /\ findings' = findings
    BY <1>5 DEF WriteSummaries, Covered
  <2>2. CASE q = p
    <3>1. Own(p)' = Own(p)
      BY <2>1 DEF Own
    <3>2. Parses(input[p].doc) /\ CoversFacts(p) /\ pc[p] = "loaded" /\ pc'[p] = "written"
      BY <1>5, <2>1, <2>2 DEF WriteSummaries, Typed, Covers
    <3>3. report'[p] \in Reports(facts[p], input[p].engine)
      BY <1>5 DEF WriteSummaries, Typed
    <3>4. MissesNothing(report'[p], facts[p])
      <4>1. facts[p].edges \subseteq Edge
        BY DEF Typed, Facts, Extracted
      <4>2. QED
        BY <3>3, <4>1, CarriedIsReported DEF MissesNothing
    <3>5. QED
      BY <2>1, <2>2, <3>1, <3>2, <3>4 DEF Covers, CoversFacts, CoversStore
  <2>3. CASE q # p
    <3>1. /\ stores'[StoreOf(q)].definitions = stores[StoreOf(q)].definitions
          /\ stores'[StoreOf(q)].is_component = stores[StoreOf(q)].is_component
          /\ stores'[StoreOf(q)].edges = stores[StoreOf(q)].edges
          /\ stores'[StoreOf(q)].unmarked = stores[StoreOf(q)].unmarked
          /\ stores'[StoreOf(q)].effect_roots = stores[StoreOf(q)].effect_roots
      BY <1>5, StoreOfIn, WriteKeepsFacts
    <3>2. pc'[q] = pc[q] /\ report'[q] = report[q]
      BY <1>5, <2>3 DEF WriteSummaries, Typed
    <3>3. pc[q] = "inserted" => StoreAgrees(stores'[StoreOf(q)], Own(q))
      BY <2>1, <3>1 DEF Covers, CoversStore, StoreAgrees
    <3>4. QED
      BY <2>1, <3>1, <3>2, <3>3, CoversStays
  <2>4. QED
    BY <2>2, <2>3
<1>6. ASSUME NEW p \in Process, Conclude(p), NEW q \in Process
      PROVE  Covers(q)'
  <2>1. /\ Covers(q) /\ stores' = stores /\ input' = input /\ facts' = facts
        /\ report' = report
    BY <1>6 DEF Conclude, Covered
  <2>2. CASE q = p
    <3>1. Own(p)' = Own(p)
      BY <2>1 DEF Own
    <3>2. Parses(input[p].doc) /\ CoversFacts(p) /\ pc[p] = "written" /\ pc'[p] = "done"
      BY <1>6, <2>1, <2>2 DEF Conclude, Typed, Covers
    <3>3. findings'[p] \in Verdicts(facts[p], report[p], input[p].doc)
      BY <1>6 DEF Conclude, Typed
    <3>4. QED
      BY <2>1, <2>2, <3>1, <3>2, <3>3 DEF Covers, CoversFacts, CoversStore
  <2>3. CASE q # p
    <3>1. pc'[q] = pc[q] /\ findings'[q] = findings[q]
      BY <1>6, <2>3 DEF Conclude, Typed
    <3>2. pc[q] = "inserted" => StoreAgrees(stores[StoreOf(q)], Own(q))
      BY <2>1 DEF Covers, CoversStore
    <3>3. QED
      BY <2>1, <3>1, <3>2, CoversStays
  <2>4. QED
    BY <2>2, <2>3
<1>7. ASSUME UNCHANGED vars, NEW q \in Process
      PROVE  Covers(q)'
  <2>1. Covers(q)
    BY DEF Covered
  <2>2. pc[q] = "inserted" => StoreAgrees(stores[StoreOf(q)], Own(q))
    BY <2>1 DEF Covers, CoversStore
  <2>3. QED
    BY <1>7, <2>1, <2>2, CoversStays DEF vars
<1>8. QED
  BY <1>1, <1>2, <1>3, <1>4, <1>5, <1>6, <1>7 DEF Next, Continue, Covered

LEMMA CoveredIsCertified ==
  ASSUME NamesTellApart PROVE Typed /\ Covered => Certified
<1> SUFFICES ASSUME NamesTellApart, Typed, Covered, NEW p \in Process, ExitsZero(p),
                    input[p].doc.on_unknown = "fail",
                    NEW region \in input[p].doc.regions, NEW d \in Symbol, NEW e \in RealEffect,
                    Governs(input[p].doc, region, input[p].program.defs[d]),
                    Forbids(region, e),
                    Carries(Truth(input[p].program, input[p].doc.table), d, e)
             PROVE  FALSE
  BY DEF Certified
<1> DEFINE program == input[p].program
           doc == input[p].doc
<1>1. /\ program \in Programs /\ doc \in Documents /\ Parses(doc) /\ CoversFacts(p)
      /\ pc[p] = "done" /\ facts[p] \in Facts
  BY DEF ExitsZero, Typed, Inputs, Covered, Covers
<1>2. /\ Own(p).defs = program.defs /\ Own(p).edges = program.edges
      /\ Own(p) = Seeded(program, doc)
  BY <1>1, SeededIs DEF Own
<1>3. program.defs[d] # NoFile /\ facts[p].defs[d] = program.defs[d]
  BY <1>1, <1>2 DEF Governs, CoversFacts, Agrees, Defined
<1>4. program.edges \subseteq facts[p].edges /\ Seeded(program, doc).roots \subseteq facts[p].roots
  BY <1>1, <1>2 DEF CoversFacts
<1>5. Carries(facts[p], d, e) \/ Carries(facts[p], d, Unknown)
  BY <1>1, <1>3, <1>4, SeedsCoverTruth
<1>6. e \in report[p].effects[d] \/ Unknown \in report[p].effects[d]
  BY <1>1, <1>5, SeedsAssumption DEF CoversFacts, MissesNothing, RealEffect
<1>7. \E n \in check(facts[p].defs, facts[p].edges, report[p], doc) : n.severity = "error"
  <2>1. facts[p].defs \in [Symbol -> File \cup {NoFile}]
    BY <1>1 DEF Facts, Extracted
  <2>2. Governs(doc, region, facts[p].defs[d])
    BY <1>3
  <2>3. QED
    BY <1>1, <1>6, <2>1, <2>2, CheckFlags
<1>8. check(facts[p].defs, facts[p].edges, report[p], doc) \subseteq findings[p]
  BY <1>1, VerdictsAre DEF CoversFacts
<1>9. QED
  BY <1>7, <1>8 DEF ExitsZero

(* Fail closed, for every program, every hinzu.toml, any number of         *)
(* processes and whatever earlier or concurrent checks left in the store:  *)
(* a check with on_unknown = "fail" that exits with success has certified  *)
(* the program it was given (main.rs, check; lib.rs, check_facts), as long *)
(* as a foreign symbol is not taken for a local one because of its name    *)
(* and a shared store never holds a definition under another file.         *)
THEOREM FailClosed == ASSUME NamesTellApart, FilesStay PROVE Spec => []Certified
<1>1. Init => Covered
  BY DEF Init, Covered, Covers
<1>2. Typed /\ Covered /\ [Next]_vars => Covered'
  BY CoveredStep
<1>3. Typed /\ Covered => Certified
  BY CoveredIsCertified
<1>4. QED
  BY <1>1, <1>2, <1>3, TypedAlways, PTL DEF Spec

-----------------------------------------------------------------------------
(***************************************************************************)
(* What a fresh store may raise.  Hypothesis: extractors declare no *)
(* root to be Unknown (only a hand-written facts file could).              *)
(***************************************************************************)
OwnRootsKnown == \A program \in Programs : \A r \in program.roots : r.effect # Unknown

(* Every seeded root has a reason.                                         *)
LEMMA SeededRootsHaveReasons ==
  ASSUME OwnRootsKnown, NEW program \in Programs, NEW doc \in Documents,
         NEW r \in Seeded(program, doc).roots
  PROVE  /\ r \in EffectRoot
         /\ r.effect # Unknown => KnownEnd(program, doc.table, r.symbol, r.effect)
         /\ r.effect = Unknown => r.symbol \in Unaccounted(program, doc.table)
<1> DEFINE table == doc.table
           seeded == seed(table, program.edges, program.roots)
<1>1. /\ program.edges \in SUBSET Edge /\ program.roots \in SUBSET EffectRoot
      /\ table.rule \in [Symbol -> RealEffect \cup {NoEffect}]
  BY PipelineAssumption DEF Extracted, PolicyDoc, SeedTable
<1>2. r \in EffectRoot
  BY SeededIsFacts DEF Facts, Extracted
<1>3. ASSUME NEW q \in seeded
      PROVE  q.effect # Unknown /\ KnownEnd(program, table, q.symbol, q.effect)
  <2>1. CASE q \in program.roots
    <3>1. q = [symbol |-> q.symbol, effect |-> q.effect]
      BY <1>1, <2>1 DEF EffectRoot
    <3>2. QED
      BY <2>1, <3>1 DEF OwnRootsKnown, KnownEnd
  <2>2. CASE q \notin program.roots
    <3>1. PICK x \in CarryingEdges(program.edges) :
            table.rule[x.callee] # NoEffect /\ q = [symbol |-> x.callee, effect |-> table.rule[x.callee]]
      BY <2>2 DEF seed
    <3>2. x.callee \in Symbol
      BY <1>1 DEF CarryingEdges, Edge
    <3>3. table.rule[x.callee] \in RealEffect
      BY <1>1, <3>1, <3>2
    <3>4. QED
      BY <3>1, <3>3 DEF KnownEnd, RealEffect
  <2>3. QED
    BY <2>1, <2>2
<1>4. CASE r \in seeded
  BY <1>2, <1>3, <1>4
<1>5. CASE r \notin seeded
  <2>1. PICK x \in CarryingEdges(program.edges) :
          /\ IsUnknown(table, Defined(program.defs), seeded, x)
          /\ r = [symbol |-> x.callee, effect |-> Unknown]
    <3>1. r \in seed_unknowns(table, Defined(program.defs), program.edges, program.roots)
      BY <1>5, SeededIs
    <3>2. r \in seeded \cup
            {[symbol |-> y.callee, effect |-> Unknown] :
               y \in {x \in CarryingEdges(program.edges) :
                       IsUnknown(table, Defined(program.defs), seeded, x)}}
      BY <3>1 DEF seed_unknowns
    <3> HIDE DEF seeded
    <3>3. QED
      BY <1>5, <3>2
  <2>2. /\ x \in program.edges /\ x.callee \in Symbol /\ x.kind # "type"
        /\ r.symbol = x.callee /\ r.effect = Unknown
    BY <1>1, <2>1 DEF CarryingEdges, Edge, carries_effects
  <2>3. CASE x.resolution = "unresolved"
    BY <1>2, <2>2, <2>3 DEF Unaccounted
  <2>4. CASE x.resolution # "unresolved"
    <3>1. /\ ~ seen(Defined(program.defs), x.callee)
          /\ ~ \E q \in seeded : q.symbol = x.callee /\ q.effect # Unknown
          /\ classify_foreign(table, x.callee) = "unknown"
      BY <2>1, <2>4 DEF IsUnknown
    <3>2. program.defs[x.callee] = NoFile
      BY <2>2, <3>1 DEF seen, Defined
    <3>3. \A q \in program.roots : q.symbol = x.callee => q.effect = Unknown
      BY <3>1 DEF seed
    <3>4. table.rule[x.callee] = NoEffect /\ x.callee \notin table.pure \cup Baseline
      BY <3>1 DEF classify_foreign
    <3>5. QED
      BY <1>2, <2>2, <3>2, <3>3, <3>4 DEF Unaccounted
  <2>5. QED
    BY <2>3, <2>4
<1>6. QED
  BY <1>4, <1>5

(* The facts of a check whose store held nothing else.                     *)
Same(fs, own) ==
  /\ fs.defs = own.defs /\ fs.components = own.components
  /\ fs.edges = own.edges /\ fs.unmarked = own.unmarked
  /\ fs.roots = own.roots

LEMMA PolicyFindingsAreReal ==
  ASSUME OwnRootsKnown, NEW program \in Programs, NEW doc \in Documents, Parses(doc),
         NEW fs, Same(fs, Seeded(program, doc)), NEW engine, NEW rep \in Reports(fs, engine),
         NEW n \in check(fs.defs, fs.edges, rep, doc)
  PROVE  \/ FindingIsReal(n, program, doc)
         \/ engine = "dbsp" /\ FindingIsLeaked(n, program, doc)
<1>1. fs.defs = program.defs /\ fs.edges = program.edges /\ fs.roots = Seeded(program, doc).roots
  BY SeededIs DEF Same
<1> PICK s \in Symbol : \E region \in governing_regions(doc, fs.defs[s]) :
        /\ fs.defs[s] \in File \ doc.ignore
        /\ n \in ForbiddenFindings(s, region, rep)
                   \cup UnknownFindings(doc, s, region, fs.edges, rep)
  BY CheckFindingIs
<1>2. PICK region \in governing_regions(doc, fs.defs[s]) :
        /\ fs.defs[s] \in File \ doc.ignore
        /\ n \in ForbiddenFindings(s, region, rep)
                   \cup UnknownFindings(doc, s, region, fs.edges, rep)
  OBVIOUS
<1>3. doc \in PolicyDoc /\ region \in doc.regions
  BY <1>2, PipelineAssumption DEF governing_regions
<1>4. Governs(doc, region, program.defs[s])
  <2>1. \A q \in doc.regions : q.specificity[fs.defs[s]] \in Nat
    BY <1>2, <1>3 DEF PolicyDoc, RegionDoc
  <2>2. /\ region.specificity[fs.defs[s]] > 0
        /\ \A q \in doc.regions : q.specificity[fs.defs[s]] <= region.specificity[fs.defs[s]]
    BY <1>2 DEF governing_regions
  <2>3. \A q \in doc.regions : ~(q.specificity[fs.defs[s]] > region.specificity[fs.defs[s]])
    BY <1>3, <2>1, <2>2
  <2>4. QED
    BY <1>1, <1>2, <2>2, <2>3, FileAssumption DEF Governs
<1>5. ASSUME NEW e \in Effect, Carries(fs, s, e)
      PROVE  /\ IsUsePath(program, s, Symbol, rep.evidence[s][e])
             /\ Declared(program, doc.table, rep.evidence[s][e][Len(rep.evidence[s][e])], e)
  <2> DEFINE q == rep.evidence[s][e]
             se == <<s, e>>
  <2>1. se \in Carried(fs) /\ se[1] = s /\ se[2] = e
    BY <1>5 DEF Carried
  <2>2. q \in Honest(fs, se)
    BY <2>1, ReportsAreHonest
  <2> HIDE DEF q
  <2>3. IsEvidencePath(fs, s, e, q)
    BY <2>1, <2>2 DEF Honest
  <2>4. PICK r \in fs.roots : r.effect = e /\ r.symbol = q[Len(q)]
    BY <2>3 DEF IsEvidencePath, IsUsePath, RootsOf
  <2>5. r \in EffectRoot /\ Declared(program, doc.table, q[Len(q)], e)
    BY <1>1, <2>4, SeededRootsHaveReasons DEF Declared
  <2>6. IsUsePath(program, s, Symbol, q)
    BY <1>1, <2>3, <2>4, <2>5 DEF IsEvidencePath, IsUsePath, Uses, EffectRoot
  <2>7. QED
    BY <2>5, <2>6 DEF q
<1>6. rep.effects[s] \subseteq Effect
  BY ReportsTyped DEF Answers
<1>7. IsGoverned(n, program, doc) /\ n.symbol = s /\ n.effect \in rep.effects[s]
      /\ n.evidence = rep.evidence[s][n.effect]
      /\ \/ n.kind = "forbidden" /\ n.effect # Unknown
         \/ n.kind = flavor(program.edges, n.evidence) /\ n.effect = Unknown
  <2>1. CASE n \in ForbiddenFindings(s, region, rep)
    <3>1. PICK e \in forbidden_effects(region) \cap rep.effects[s] :
            n = Finding(s, region, e, rep.evidence[s][e], "forbidden", "error")
      BY <2>1 DEF ForbiddenFindings
    <3>2. e # Unknown
      BY <1>3 DEF Parses, NamesUnknown, forbidden_effects, RealEffect
    <3>3. /\ n.symbol = s /\ n.region = region.name /\ n.effect = e /\ n.kind = "forbidden"
          /\ n.evidence = rep.evidence[s][e]
      BY <3>1 DEF Finding
    <3>4. QED
      BY <1>3, <1>4, <3>1, <3>2, <3>3 DEF IsGoverned
  <2>2. CASE n \in UnknownFindings(doc, s, region, fs.edges, rep)
    <3> DEFINE q == rep.evidence[s][Unknown]
    <3>1. /\ Unknown \in rep.effects[s]
          /\ n = Finding(s, region, Unknown, q, flavor(fs.edges, q),
                         IF doc.on_unknown = "fail" THEN "error" ELSE "warning")
      BY <2>2 DEF UnknownFindings
    <3> HIDE DEF q
    <3>2. /\ n.symbol = s /\ n.region = region.name /\ n.effect = Unknown
          /\ n.kind = flavor(program.edges, q) /\ n.evidence = q
      BY <1>1, <3>1 DEF Finding
    <3>3. QED
      BY <1>3, <1>4, <3>1, <3>2 DEF IsGoverned, q
  <2>3. QED
    BY <1>2, <2>1, <2>2
<1> DEFINE e == n.effect
           q == n.evidence
<1>8. CASE Carries(fs, s, e)
  <2>1. IsUsePath(program, s, Symbol, q) /\ Declared(program, doc.table, q[Len(q)], e)
    BY <1>5, <1>6, <1>7, <1>8
  <2>2. n.kind # "component"
    BY <1>7 DEF flavor
  <2>3. (flavor(program.edges, q) = "target") <=>
          \E x \in program.edges : x.callee = q[Len(q)] /\ x.resolution = "unresolved"
    BY <2>1 DEF flavor, IsUsePath
  <2>4. QED
    BY <1>7, <2>1, <2>2, <2>3 DEF FindingIsReal
<1>9. CASE ~ Carries(fs, s, e)
  <2> DEFINE se == <<s, e>>
  <2>1. se \in (Symbol \X Effect) \ Carried(fs) /\ se \in Reported(rep) /\ se[1] = s /\ se[2] = e
    BY <1>6, <1>7, <1>9 DEF Carried, Reported
  <2> HIDE DEF se
  <2>2. q = <<>>
    BY <1>7, <2>1, ReportsAreHonest
  <2>3. Carries(Fed(fs, engine), s, e)
    BY <2>1, ReportsAreHonest DEF Carried
  <2>4. engine = "dbsp" /\ Carries(Circuit(fs), s, e)
    BY <1>9, <2>3 DEF Fed
  <2>5. /\ fs.roots \subseteq EffectRoot
        /\ Circuit(fs).roots = fs.roots /\ Circuit(fs).edges = Circuit(program).edges
    BY <1>1, SeededRootsHaveReasons DEF Circuit
  <2>6. PICK r \in fs.roots : r.effect = e /\ Charges(Circuit(fs).edges, s, r.symbol, e)
    BY <2>4, <2>5, SomeRootCharges
  <2>7. r.symbol \in Symbol /\ Declared(program, doc.table, r.symbol, e)
    BY <1>1, <2>5, <2>6, SeededRootsHaveReasons DEF Declared, EffectRoot
  <2>8. ~ Charges(program.edges, s, r.symbol, e)
    <3> DEFINE alone == [edges |-> program.edges, roots |-> {[symbol |-> r.symbol, effect |-> e]}]
    <3>1. [symbol |-> r.symbol, effect |-> e] = r
      BY <2>5, <2>6 DEF EffectRoot
    <3>2. alone.edges \subseteq fs.edges /\ alone.roots \subseteq fs.roots
      BY <1>1, <3>1
    <3> HIDE DEF alone
    <3>3. ~ Carries(alone, s, e)
      BY <1>9, <3>2, CarriesMore
    <3>4. QED
      BY <3>3 DEF Charges, alone
  <2>9. n.kind \notin {"component", "target"}
    BY <1>7, <2>2 DEF flavor
  <2>10. QED
    BY <1>7, <2>2, <2>4, <2>5, <2>6, <2>7, <2>8, <2>9 DEF FindingIsLeaked
<1>10. QED
  BY <1>8, <1>9

LEMMA SimplePathIs ==
  ASSUME NEW q \in SimplePaths
  PROVE  q \in Seq(Symbol) /\ Len(q) \in Nat \ {0} /\ q # <<>> /\ q[Len(q)] \in Symbol
<1>1. Cardinality(Symbol) \in Nat
  BY FiniteAssumption, FS_CardinalityType
<1>2. PICK n \in 1 .. Cardinality(Symbol) : q \in [1 .. n -> Symbol]
  BY DEF SimplePaths
<1>3. n \in Nat \ {0}
  BY <1>1
<1>4. q \in Seq(Symbol) /\ Len(q) = n
  BY <1>2, <1>3
<1>5. QED
  BY <1>2, <1>3, <1>4

LEMMA RenderFindingsAreReal ==
  ASSUME OwnRootsKnown, NEW program \in Programs, NEW doc \in Documents,
         doc.component.enabled,
         NEW fs, Same(fs, Seeded(program, doc)), NEW n \in RenderFindings(fs, doc)
  PROVE  RenderFindingIsReal(n, program, doc)
<1>1. /\ fs.defs = program.defs /\ fs.components = program.components
      /\ fs.unmarked = program.unmarked /\ fs.roots = Seeded(program, doc).roots
  BY SeededIs DEF Same
<1>2. PICK t \in fs.components \X from_table(doc.component) \X SimplePaths :
        IsRenderFinding(fs, doc, n, t)
  BY RenderFindingIs
<1> DEFINE q == t[3]
<1>3. /\ n.symbol = t[1] /\ n.effect = t[2] /\ n.evidence = q /\ n.kind = "component"
      /\ fs.defs[t[1]] \in File \ doc.ignore
      /\ q \in ShortestPaths(render_forward_adjacency(fs), t[1],
                             forbidden_syms(fs, from_table(doc.component)))
      /\ [symbol |-> q[Len(q)], effect |-> t[2]] \in fs.roots
  BY <1>2 DEF IsRenderFinding
<1>4. /\ t[1] \in program.components /\ t[2] \in from_table(doc.component) /\ q \in SimplePaths
  BY <1>1
<1> HIDE DEF q
<1>5. t[2] # Unknown
  BY <1>4 DEF from_table, DefaultForbidden, RealEffect
<1>6. IsUsePath(RenderGraph(program, doc.table), t[1], Symbol, q)
  <2>1. /\ q[1] = t[1]
        /\ \A i \in 1 .. Len(q) - 1 : q[i + 1] \in uses_of(render_forward_adjacency(fs), q[i])
    BY <1>3 DEF ShortestPaths
  <2>2. ASSUME NEW i \in 1 .. Len(q) - 1
        PROVE  Uses(RenderGraph(program, doc.table), q[i], q[i + 1])
    BY <1>1, <2>1 DEF uses_of, render_forward_adjacency, carries_effects, Uses, RenderGraph
  <2>3. QED
    BY <1>4, <2>1, <2>2, SimplePathIs DEF IsUsePath
<1>7. KnownEnd(program, doc.table, q[Len(q)], t[2])
  <2> DEFINE r == [symbol |-> q[Len(q)], effect |-> t[2]]
  <2>1. r \in Seeded(program, doc).roots /\ r.symbol = q[Len(q)] /\ r.effect = t[2]
    BY <1>1, <1>3
  <2> HIDE DEF r
  <2>2. QED
    BY <1>5, <2>1, SeededRootsHaveReasons
<1>8. QED
  BY <1>1, <1>3, <1>4, <1>6, <1>7 DEF RenderFindingIsReal

(* A process with a store of its own reads what it wrote, nothing else.    *)
Exact(p) ==
  /\ pc[p] = "seeded" => facts[p] = Own(p) /\ stores[p] = EmptyTables
  /\ pc[p] \notin {"idle", "refused", "seeded"} =>
       /\ stores[p].definitions = Own(p).defs
       /\ stores[p].is_component = Own(p).components
       /\ stores[p].edges = Own(p).edges
       /\ stores[p].unmarked = Own(p).unmarked
       /\ stores[p].effect_roots = Own(p).roots
  /\ pc[p] \in {"definitions", "edges", "loaded", "written", "done"} =>
       facts[p].defs = Own(p).defs /\ facts[p].components = Own(p).components
  /\ pc[p] \in {"edges", "loaded", "written", "done"} =>
       facts[p].edges = Own(p).edges /\ facts[p].unmarked = Own(p).unmarked
  /\ pc[p] \in {"loaded", "written", "done"} => facts[p].roots = Own(p).roots
  /\ pc[p] \in {"written", "done"} => report[p] \in Reports(facts[p], input[p].engine)
  /\ pc[p] = "done" => findings[p] \in Verdicts(facts[p], report[p], input[p].doc)

AllExact ==
  \A p \in InMemory :
    pc[p] \notin {"idle", "refused"} => Parses(input[p].doc) /\ Exact(p)

(* Nobody else touches that store.                                         *)
LEMMA OwnStore ==
  ASSUME Typed, NEW p \in Process, NEW q \in InMemory, q # p, NEW program, NEW doc, NEW engine,
         Begin(p, program, doc, engine) \/ Continue(p)
  PROVE  stores'[q] = stores[q]
<1>1. StoreOf(p) # q /\ q \in Process /\ StoreOf(q) = q
  BY PipelineAssumption DEF StoreOf
<1>2. CASE stores' = StoresWithout(p)
  BY <1>1, <1>2, OthersKeepTheirStore
<1>3. CASE stores' = stores
  BY <1>3
<1>4. CASE InsertFacts(p)
  BY <1>1, <1>4 DEF InsertFacts, Typed
<1>5. CASE WriteSummaries(p)
  BY <1>1, <1>5 DEF WriteSummaries, Typed
<1>6. QED
  BY <1>2, <1>3, <1>4, <1>5
     DEF Begin, Start, Refuse, Continue, LoadDefinitions, LoadEdges, LoadRoots, Conclude, Die

LEMMA ExactStays ==
  ASSUME NEW q, Exact(q),
         pc'[q] = pc[q], input'[q] = input[q], facts'[q] = facts[q], report'[q] = report[q],
         findings'[q] = findings[q], stores'[q] = stores[q]
  PROVE  Exact(q)'
<1>1. Own(q)' = Own(q)
  BY DEF Own
<1>2. QED
  BY <1>1 DEF Exact

LEMMA ExactInsert ==
  ASSUME Typed, NEW p \in InMemory, InsertFacts(p), Exact(p)
  PROVE  Exact(p)'
<1>1. p \in Process /\ StoreOf(p) = p
  BY PipelineAssumption DEF StoreOf
<1>2. /\ pc[p] = "seeded" /\ pc'[p] = "inserted" /\ Own(p)' = Own(p)
      /\ facts[p] = Own(p) /\ facts[p] \in Facts /\ stores[p] = EmptyTables
  BY <1>1 DEF InsertFacts, Typed, Exact, Own
<1>3. stores'[p] = insert_facts(EmptyTables, Own(p))
  BY <1>1, <1>2, StoreOfIn DEF InsertFacts, Typed
<1>4. /\ stores'[p].definitions = Upserted(EmptyTables.definitions, Own(p))
      /\ stores'[p].is_component = (EmptyTables.is_component \ Defined(Own(p).defs)) \cup Own(p).components
      /\ stores'[p].edges = EmptyTables.edges \cup Own(p).edges
      /\ stores'[p].unmarked = EmptyTables.unmarked \cup Own(p).unmarked
      /\ stores'[p].effect_roots = EmptyTables.effect_roots \cup Own(p).roots
  BY <1>2, <1>3, EmptyIsTyped, InsertTyped
<1>5. Own(p).defs \in [Symbol -> File \cup {NoFile}]
  BY <1>2 DEF Facts, Extracted
<1>6. Upserted(EmptyTables.definitions, Own(p)) = Own(p).defs
  BY <1>5 DEF Upserted, EmptyTables
<1>7. /\ EmptyTables.is_component = {} /\ EmptyTables.edges = {}
      /\ EmptyTables.unmarked = {} /\ EmptyTables.effect_roots = {}
  BY DEF EmptyTables
<1>8. /\ stores'[p].definitions = Own(p).defs
      /\ stores'[p].is_component = Own(p).components
      /\ stores'[p].edges = Own(p).edges
      /\ stores'[p].unmarked = Own(p).unmarked
      /\ stores'[p].effect_roots = Own(p).roots
  BY <1>4, <1>6, <1>7
<1>9. QED
  BY <1>2, <1>8 DEF Exact

LEMMA ExactLoad ==
  ASSUME Typed, NEW p \in InMemory, LoadDefinitions(p) \/ LoadEdges(p) \/ LoadRoots(p), Exact(p)
  PROVE  Exact(p)'
<1>1. p \in Process /\ StoreOf(p) = p
  BY PipelineAssumption DEF StoreOf
<1>2. stores' = stores /\ input' = input /\ Own(p)' = Own(p) /\ facts[p] \in Facts
  BY <1>1 DEF LoadDefinitions, LoadEdges, LoadRoots, Own, Typed
<1>3. CASE LoadDefinitions(p)
  <2>1. pc[p] = "inserted" /\ pc'[p] = "definitions"
    BY <1>1, <1>3 DEF LoadDefinitions, Typed
  <2>2. facts'[p].defs = stores[p].definitions /\ facts'[p].components = stores[p].is_component
    BY <1>1, <1>2, <1>3 DEF LoadDefinitions, Typed, Facts, Extracted
  <2>3. QED
    BY <1>2, <2>1, <2>2 DEF Exact
<1>4. CASE LoadEdges(p)
  <2>1. pc[p] = "definitions" /\ pc'[p] = "edges"
    BY <1>1, <1>4 DEF LoadEdges, Typed
  <2>2. /\ facts'[p].defs = facts[p].defs /\ facts'[p].components = facts[p].components
        /\ facts'[p].edges = stores[p].edges /\ facts'[p].unmarked = stores[p].unmarked
    BY <1>1, <1>2, <1>4 DEF LoadEdges, Typed, Facts, Extracted
  <2>3. QED
    BY <1>2, <2>1, <2>2 DEF Exact
<1>5. CASE LoadRoots(p)
  <2>1. pc[p] = "edges" /\ pc'[p] = "loaded"
    BY <1>1, <1>5 DEF LoadRoots, Typed
  <2>2. /\ facts'[p].defs = facts[p].defs /\ facts'[p].components = facts[p].components
        /\ facts'[p].edges = facts[p].edges /\ facts'[p].unmarked = facts[p].unmarked
        /\ facts'[p].roots = stores[p].effect_roots
    BY <1>1, <1>2, <1>5 DEF LoadRoots, Typed, Facts, Extracted
  <2>3. QED
    BY <1>2, <2>1, <2>2 DEF Exact
<1>6. QED
  BY <1>3, <1>4, <1>5

LEMMA ExactStep == Typed /\ AllExact /\ [Next]_vars => AllExact'
<1> SUFFICES ASSUME Typed, AllExact, Next PROVE AllExact'
  BY DEF AllExact, Exact, Own, vars
<1> SUFFICES ASSUME NEW q \in InMemory, pc'[q] \notin {"idle", "refused"}
             PROVE  Parses(input'[q].doc) /\ Exact(q)'
  BY DEF AllExact
<1>1. PICK p \in Process :
        \/ Begins(p)
        \/ Continue(p)
  BY DEF Begins, Next
<1>2. q \in Process /\ StoreOf(q) = q
  BY PipelineAssumption DEF StoreOf
<1>3. CASE q # p
  <2>1. stores'[q] = stores[q]
    BY <1>1, <1>3, OwnStore DEF Begins
  <2>2. /\ pc'[q] = pc[q] /\ input'[q] = input[q] /\ facts'[q] = facts[q]
        /\ report'[q] = report[q] /\ findings'[q] = findings[q]
    <3>1. CASE Begins(p)
      BY <1>2, <1>3, <3>1 DEF Begins, Begin, Start, Refuse, Typed
    <3>2. CASE InsertFacts(p) \/ LoadDefinitions(p) \/ LoadEdges(p) \/ LoadRoots(p)
      BY <1>2, <1>3, <3>2 DEF InsertFacts, LoadDefinitions, LoadEdges, LoadRoots, Typed
    <3>3. CASE WriteSummaries(p) \/ Conclude(p) \/ Die(p)
      BY <1>2, <1>3, <3>3 DEF WriteSummaries, Conclude, Die, Typed
    <3>4. QED
      BY <1>1, <3>1, <3>2, <3>3 DEF Continue
  <2>3. Parses(input[q].doc) /\ Exact(q)
    BY <2>2 DEF AllExact
  <2>4. QED
    BY <2>1, <2>2, <2>3, ExactStays
<1>4. CASE q = p
  <2>1. ASSUME NEW program \in Programs, NEW doc \in Documents, NEW engine \in Engine,
               Begin(p, program, doc, engine)
        PROVE  Parses(input'[q].doc) /\ Exact(q)'
    <3>1. Start(p, program, doc, engine)
      BY <1>2, <1>4, <2>1 DEF Begin, Refuse, Typed
    <3>2. /\ pc'[q] = "seeded" /\ input'[q] = [program |-> program, doc |-> doc, engine |-> engine] /\ Parses(doc)
          /\ facts'[q] = Seeded(program, doc) /\ stores'[q] = EmptyTables
      BY <1>2, <1>4, <3>1, StoreOfIn DEF Start, StoresWithout, Typed
    <3>3. Own(q)' = facts'[q]
      BY <3>2 DEF Own
    <3>4. QED
      BY <3>2, <3>3 DEF Exact
  <2>3. CASE InsertFacts(p)
    BY <1>4, <2>3, ExactInsert DEF InsertFacts, AllExact
  <2>4. CASE LoadDefinitions(p) \/ LoadEdges(p) \/ LoadRoots(p)
    BY <1>4, <2>4, ExactLoad DEF LoadDefinitions, LoadEdges, LoadRoots, AllExact
  <2>5. CASE WriteSummaries(p)
    <3>1. /\ pc[q] = "loaded" /\ pc'[q] = "written" /\ Own(q)' = Own(q) /\ input'[q] = input[q]
          /\ facts'[q] = facts[q] /\ Parses(input[q].doc) /\ Exact(q)
      BY <1>2, <1>4, <2>5 DEF WriteSummaries, Typed, Own, AllExact
    <3>2. report'[q] \in Reports(facts[q], input[q].engine)
      BY <1>2, <1>4, <2>5 DEF WriteSummaries, Typed
    <3>3. /\ stores'[q].definitions = stores[q].definitions
          /\ stores'[q].is_component = stores[q].is_component
          /\ stores'[q].edges = stores[q].edges
          /\ stores'[q].unmarked = stores[q].unmarked
          /\ stores'[q].effect_roots = stores[q].effect_roots
      <4>1. q \in Stores
        BY PipelineAssumption DEF Stores, StoreOf
      <4>2. QED
        BY <1>4, <2>5, <4>1, WriteKeepsFacts
    <3>4. QED
      BY <3>1, <3>2, <3>3 DEF Exact
  <2>6. CASE Conclude(p)
    <3>1. /\ pc[q] = "written" /\ pc'[q] = "done" /\ Own(q)' = Own(q) /\ input'[q] = input[q]
          /\ facts' = facts /\ stores' = stores /\ report' = report
          /\ Parses(input[q].doc) /\ Exact(q)
      BY <1>2, <1>4, <2>6 DEF Conclude, Typed, Own, AllExact
    <3>2. findings'[q] \in Verdicts(facts[q], report[q], input[q].doc)
      BY <1>2, <1>4, <2>6 DEF Conclude, Typed
    <3>3. QED
      BY <3>1, <3>2 DEF Exact
  <2>7. CASE Die(p)
    BY <1>2, <1>4, <2>7 DEF Die, Typed
  <2>8. QED
    BY <1>1, <2>1, <2>3, <2>4, <2>5, <2>6, <2>7 DEF Begins, Continue
<1>5. QED
  BY <1>3, <1>4

LEMMA ExactIsReal ==
  ASSUME OwnRootsKnown PROVE Typed /\ AllExact => AlarmsAreReal
<1> SUFFICES ASSUME OwnRootsKnown, Typed, AllExact, NEW p \in InMemory,
                    NEW n \in findings[p], pc[p] = "done"
             PROVE  \/ FindingIsReal(n, input[p].program, input[p].doc)
                    \/ RenderFindingIsReal(n, input[p].program, input[p].doc)
                    \/ input[p].engine = "dbsp" /\ FindingIsLeaked(n, input[p].program, input[p].doc)
  BY DEF AlarmsAreReal
<1>1. /\ p \in Process /\ input[p].program \in Programs /\ input[p].doc \in Documents
      /\ Parses(input[p].doc) /\ Exact(p)
  BY PipelineAssumption DEF Typed, Inputs, AllExact
<1>2. /\ Same(facts[p], Own(p)) /\ report[p] \in Reports(facts[p], input[p].engine)
      /\ findings[p] \in Verdicts(facts[p], report[p], input[p].doc)
  BY <1>1 DEF Exact, Same
<1>3. CASE n \in check(facts[p].defs, facts[p].edges, report[p], input[p].doc)
  BY <1>1, <1>2, <1>3, PolicyFindingsAreReal DEF Own
<1>4. CASE input[p].doc.component.enabled /\ n \in RenderFindings(facts[p], input[p].doc)
  BY <1>1, <1>2, <1>4, RenderFindingsAreReal DEF Own
<1>5. QED
  BY <1>2, <1>3, <1>4, VerdictsAre

(* Without --db, however many checks run: a finding with a chain is no     *)
(* false alarm.  It names a definition of this program governed by the     *)
(* region it quotes, or a component of it, and shows a chain of this       *)
(* program's uses to a symbol that is declared to do it, or that nothing   *)
(* accounts for (policy.rs, check; rules.rs, EffectInComponentRule::check; *)
(* roots.rs, seed_unknowns).  With --engine naive there is no other, and   *)
(* without it the others have no chain and each is an effect that reaches  *)
(* the definition only through signatures (hinzu-dbsp lib.rs,              *)
(* summaries_from_pairs).                                                  *)
THEOREM FreshAlarmsAreReal == ASSUME OwnRootsKnown PROVE Spec => []AlarmsAreReal
<1>1. Init => AllExact
  BY PipelineAssumption DEF Init, AllExact
<1>2. Typed /\ AllExact /\ [Next]_vars => AllExact'
  BY ExactStep
<1>3. Typed /\ AllExact => AlarmsAreReal
  BY ExactIsReal
<1>4. QED
  BY <1>1, <1>2, <1>3, TypedAlways, PTL DEF Spec

-----------------------------------------------------------------------------
(***************************************************************************)
(* Whatever is reachable has a shortest path, so the rule for components   *)
(* finds one for each component that reaches a forbidden effect.           *)
(***************************************************************************)
IsWalk(fs, s, targets, m, p) ==
  /\ p \in [0 .. m -> Symbol] /\ p[0] = s /\ p[m] \in targets
  /\ \A i \in 0 .. m - 1 : Uses(fs, p[i], p[i + 1])

Walkable(fs, targets, n) ==
  {s \in Symbol : \E m \in 0 .. n : \E p : IsWalk(fs, s, targets, m, p)}

LEMMA WalkableZero ==
  ASSUME NEW fs, NEW targets \in SUBSET Symbol
  PROVE  Walkable(fs, targets, 0) = targets
<1>1. ASSUME NEW s \in targets
      PROVE  s \in Walkable(fs, targets, 0)
  <2> DEFINE p == [i \in 0 .. 0 |-> s]
  <2>1. IsWalk(fs, s, targets, 0, p)
    BY DEF IsWalk
  <2> HIDE DEF p
  <2>2. QED
    BY <2>1 DEF Walkable
<1>2. ASSUME NEW s \in Walkable(fs, targets, 0)
      PROVE  s \in targets
  BY DEF Walkable, IsWalk
<1>3. QED
  BY <1>1, <1>2

LEMMA WalkTail ==
  ASSUME NEW fs, NEW targets, NEW m \in Nat \ {0}, NEW s, NEW p, IsWalk(fs, s, targets, m, p)
  PROVE  /\ Uses(fs, s, p[1]) /\ p[1] \in Symbol
         /\ IsWalk(fs, p[1], targets, m - 1, [i \in 0 .. m - 1 |-> p[i + 1]])
<1> DEFINE q == [i \in 0 .. m - 1 |-> p[i + 1]]
<1>1. p \in [0 .. m -> Symbol] /\ p[0] = s /\ p[m] \in targets
  BY DEF IsWalk
<1>2. \A i \in 0 .. m - 1 : Uses(fs, p[i], p[i + 1])
  BY DEF IsWalk
<1>3. q \in [0 .. m - 1 -> Symbol] /\ q[0] = p[1] /\ q[m - 1] = p[m]
  BY <1>1
<1>4. ASSUME NEW i \in 0 .. (m - 1) - 1
      PROVE  Uses(fs, q[i], q[i + 1])
  <2>1. i + 1 \in 0 .. m - 1 /\ q[i] = p[i + 1] /\ q[i + 1] = p[(i + 1) + 1]
    OBVIOUS
  <2> HIDE DEF q
  <2>2. QED
    BY <1>2, <2>1
<1>5. Uses(fs, s, p[1]) /\ p[1] \in Symbol
  <2>1. 0 \in 0 .. m - 1 /\ 0 + 1 = 1 /\ 1 \in 0 .. m
    OBVIOUS
  <2>2. Uses(fs, p[0], p[0 + 1])
    BY <1>2, <2>1
  <2>3. QED
    BY <1>1, <2>1, <2>2
<1> HIDE DEF q
<1>6. IsWalk(fs, p[1], targets, m - 1, q)
  BY <1>1, <1>3, <1>4 DEF IsWalk
<1>7. QED
  BY <1>5, <1>6 DEF q

LEMMA WalkOn ==
  ASSUME NEW fs, NEW targets, NEW m \in Nat, NEW s \in Symbol, NEW t, NEW p,
         IsWalk(fs, t, targets, m, p), Uses(fs, s, t)
  PROVE  IsWalk(fs, s, targets, m + 1, [i \in 0 .. m + 1 |-> IF i = 0 THEN s ELSE p[i - 1]])
<1> DEFINE q == [i \in 0 .. m + 1 |-> IF i = 0 THEN s ELSE p[i - 1]]
<1>1. p \in [0 .. m -> Symbol] /\ p[0] = t /\ p[m] \in targets
  BY DEF IsWalk
<1>2. \A i \in 0 .. m - 1 : Uses(fs, p[i], p[i + 1])
  BY DEF IsWalk
<1>3. \A i \in 0 .. m + 1 : q[i] \in Symbol
  <2>1. ASSUME NEW i \in 0 .. m + 1, i # 0
        PROVE  i - 1 \in 0 .. m
    BY <2>1
  <2>2. QED
    BY <1>1, <2>1
<1>4. q \in [0 .. m + 1 -> Symbol] /\ q[0] = s /\ q[m + 1] = p[m]
  BY <1>3
<1>5. ASSUME NEW i \in 0 .. (m + 1) - 1
      PROVE  Uses(fs, q[i], q[i + 1])
  <2>1. CASE i = 0
    <3>1. q[i] = s /\ q[i + 1] = p[0]
      BY <2>1
    <3> HIDE DEF q
    <3>2. QED
      BY <1>1, <3>1
  <2>2. CASE i # 0
    <3>1. i - 1 \in 0 .. m - 1 /\ q[i] = p[i - 1] /\ q[i + 1] = p[(i - 1) + 1]
      BY <2>2
    <3> HIDE DEF q
    <3>2. QED
      BY <1>2, <3>1
  <2>3. QED
    BY <2>1, <2>2
<1> HIDE DEF q
<1>6. IsWalk(fs, s, targets, m + 1, q)
  BY <1>1, <1>4, <1>5 DEF IsWalk
<1>7. QED
  BY <1>6 DEF q

LEMMA WalkableGrows ==
  ASSUME NEW fs, NEW targets, NEW n \in Nat \ {0}
  PROVE  Walkable(fs, targets, n) =
           Walkable(fs, targets, n - 1)
             \cup {s \in Symbol : \E t \in Walkable(fs, targets, n - 1) : Uses(fs, s, t)}
<1> DEFINE before == Walkable(fs, targets, n - 1)
<1>1. ASSUME NEW s \in Walkable(fs, targets, n), s \notin before
      PROVE  \E t \in before : Uses(fs, s, t)
  <2>1. PICK m, p : m \in 0 .. n /\ IsWalk(fs, s, targets, m, p)
    BY DEF Walkable
  <2>2. m = n
    BY <1>1, <2>1 DEF Walkable
  <2>3. Uses(fs, s, p[1]) /\ p[1] \in Symbol /\ \E q : IsWalk(fs, p[1], targets, n - 1, q)
    BY <2>1, <2>2, WalkTail
  <2>4. p[1] \in before
    BY <2>3 DEF Walkable
  <2>5. QED
    BY <2>3, <2>4
<1>2. ASSUME NEW s \in Symbol, NEW t \in before, Uses(fs, s, t)
      PROVE  s \in Walkable(fs, targets, n)
  <2> PICK m \in 0 .. n - 1 : \E p : IsWalk(fs, t, targets, m, p)
    BY DEF Walkable
  <2>1. PICK p : IsWalk(fs, t, targets, m, p)
    OBVIOUS
  <2>2. \E q : IsWalk(fs, s, targets, m + 1, q)
    <3>1. m \in Nat
      OBVIOUS
    <3>2. QED
      BY <1>2, <2>1, <3>1, WalkOn
  <2>3. m + 1 \in 0 .. n
    OBVIOUS
  <2>4. QED
    BY <2>2, <2>3 DEF Walkable
<1>3. before \subseteq Walkable(fs, targets, n)
  <2>1. 0 .. n - 1 \subseteq 0 .. n
    OBVIOUS
  <2>2. QED
    BY <2>1 DEF Walkable
<1>4. Walkable(fs, targets, n) \subseteq Symbol
  BY DEF Walkable
<1> HIDE DEF before
<1>5. Walkable(fs, targets, n) = before \cup {s \in Symbol : \E t \in before : Uses(fs, s, t)}
  BY <1>1, <1>2, <1>3, <1>4
<1>6. QED
  BY <1>5 DEF before

HopsMore(fs, near) == near \cup {s \in Symbol : \E t \in near : Uses(fs, s, t)}

IsNear(fs, targets, near) ==
  near = [n \in Nat |-> IF n = 0 THEN targets ELSE HopsMore(fs, near[n - 1])]

LEMMA WithinHopsIs ==
  ASSUME NEW fs, NEW targets
  PROVE  WithinHops(fs, targets) = CHOOSE near : IsNear(fs, targets, near)
BY DEF WithinHops, IsNear, HopsMore

(* The symbols within n hops are those with a walk of at most n steps.     *)
LEMMA HopsAreWalks ==
  ASSUME NEW fs, NEW targets \in SUBSET Symbol
  PROVE  \A n \in Nat : WithinHops(fs, targets)[n] = Walkable(fs, targets, n)
<1> DEFINE all == [n \in Nat |-> Walkable(fs, targets, n)]
           near == CHOOSE f : IsNear(fs, targets, f)
<1>1. IsNear(fs, targets, all)
  <2>1. ASSUME NEW n \in Nat
        PROVE  Walkable(fs, targets, n) =
                 IF n = 0 THEN targets ELSE HopsMore(fs, all[n - 1])
    <3>1. CASE n = 0
      BY <3>1, WalkableZero
    <3>2. CASE n # 0
      <4>1. n - 1 \in Nat /\ n \in Nat \ {0} /\ all[n - 1] = Walkable(fs, targets, n - 1)
        BY <3>2
      <4> HIDE DEF all
      <4>2. QED
        BY <3>2, <4>1, WalkableGrows DEF HopsMore
    <3>3. QED
      BY <3>1, <3>2
  <2>2. QED
    BY <2>1 DEF IsNear
<1>2. IsNear(fs, targets, near)
  BY <1>1
<1> HIDE DEF near
<1>3. \A n \in Nat : near[n] = IF n = 0 THEN targets ELSE HopsMore(fs, near[n - 1])
  BY <1>2 DEF IsNear
<1> DEFINE Bad == {n \in Nat : near[n] # Walkable(fs, targets, n)}
<1>4. ASSUME Bad # {}
      PROVE  FALSE
  <2>1. PICK n \in Bad : \A k \in Bad : n <= k
    <3>1. Bad \in SUBSET Nat
      OBVIOUS
    <3> HIDE DEF Bad
    <3>2. QED
      BY <1>4, <3>1, LeastNatural
  <2>2. n \in Nat /\ near[n] # Walkable(fs, targets, n)
    OBVIOUS
  <2>3. n # 0
    BY <1>3, <2>2, WalkableZero
  <2>4. n - 1 \in Nat /\ n - 1 \notin Bad
    BY <2>1, <2>2, <2>3
  <2>5. near[n - 1] = Walkable(fs, targets, n - 1)
    BY <2>4
  <2>6. near[n] = HopsMore(fs, near[n - 1])
    BY <1>3, <2>2, <2>3
  <2>7. QED
    BY <2>2, <2>3, <2>5, <2>6, WalkableGrows DEF HopsMore
<1>5. QED
  BY <1>4, WithinHopsIs DEF near

(* A walk that comes by a symbol twice can be cut.                         *)
LEMMA WalkCut ==
  ASSUME NEW fs, NEW targets, NEW m \in Nat, NEW s, NEW p, IsWalk(fs, s, targets, m, p),
         NEW i \in 0 .. m, NEW j \in 0 .. m, i < j, p[i] = p[j]
  PROVE  IsWalk(fs, s, targets, m - (j - i),
                [k \in 0 .. m - (j - i) |-> IF k <= i THEN p[k] ELSE p[k + (j - i)]])
<1> DEFINE c == j - i
           l == m - c
           q == [k \in 0 .. l |-> IF k <= i THEN p[k] ELSE p[k + c]]
<1>1. p \in [0 .. m -> Symbol] /\ p[0] = s /\ p[m] \in targets
  BY DEF IsWalk
<1>2. \A k \in 0 .. m - 1 : Uses(fs, p[k], p[k + 1])
  BY DEF IsWalk
<1>3. /\ c \in Nat \ {0} /\ l \in Nat /\ l + c = m /\ i <= l /\ i + c = j
      /\ \A k \in 0 .. l : k \in 0 .. m /\ k + c \in 0 .. m
      /\ \A k \in 0 .. l - 1 : /\ k \in 0 .. l /\ k + 1 \in 0 .. l /\ k \in 0 .. m - 1
                               /\ k + c \in 0 .. m - 1 /\ (k + c) + 1 = (k + 1) + c
  OBVIOUS
<1>4. \A k \in 0 .. l : k <= i => q[k] = p[k]
  OBVIOUS
<1>5. \A k \in 0 .. l : i <= k => q[k] = p[k + c]
  <2>1. ASSUME NEW k \in 0 .. l, i <= k
        PROVE  q[k] = p[k + c]
    <3>1. CASE k = i
      BY <1>3, <3>1
    <3>2. CASE k # i
      <4>1. ~(k <= i)
        BY <2>1, <3>2
      <4>2. QED
        BY <4>1
    <3>3. QED
      BY <3>1, <3>2
  <2>2. QED
    BY <2>1
<1>6. q \in [0 .. l -> Symbol]
  <2>1. \A k \in 0 .. l : q[k] \in Symbol
    BY <1>1, <1>3
  <2>2. QED
    BY <2>1
<1> HIDE DEF q
<1>7. q[0] = s /\ q[l] \in targets
  <2>1. 0 \in 0 .. l /\ 0 <= i /\ l \in 0 .. l
    BY <1>3
  <2>2. QED
    BY <1>1, <1>3, <1>4, <1>5, <2>1
<1> HIDE DEF l, c
<1>8. ASSUME NEW k \in 0 .. l - 1
      PROVE  Uses(fs, q[k], q[k + 1])
  <2>1. /\ k \in 0 .. l /\ k + 1 \in 0 .. l /\ k \in 0 .. m - 1
        /\ k + c \in 0 .. m - 1 /\ (k + c) + 1 = (k + 1) + c
    BY <1>3
  <2>2. CASE k + 1 <= i
    <3>1. k <= i
      BY <2>2
    <3>2. QED
      BY <1>2, <1>4, <2>1, <2>2, <3>1
  <2>3. CASE ~(k + 1 <= i)
    <3>1. i <= k /\ i <= k + 1
      BY <1>3, <2>3
    <3>2. q[k] = p[k + c] /\ q[k + 1] = p[(k + c) + 1]
      BY <1>5, <2>1, <3>1
    <3>3. QED
      BY <1>2, <2>1, <3>2
  <2>4. QED
    BY <2>2, <2>3
<1>9. IsWalk(fs, s, targets, l, q)
  BY <1>6, <1>7, <1>8 DEF IsWalk
<1>10. QED
  BY <1>9 DEF q, l, c

LEMMA ShortestWalk ==
  ASSUME NEW fs, NEW targets, NEW d \in Symbol, NEW m \in Nat, d \in Walkable(fs, targets, m)
  PROVE  \E k \in Nat : \E p :
           /\ IsWalk(fs, d, targets, k, p)
           /\ \A n \in Nat : n < k => d \notin Walkable(fs, targets, n)
           /\ \A i, j \in 0 .. k : p[i] = p[j] => i = j
<1> DEFINE K == {k \in Nat : d \in Walkable(fs, targets, k)}
<1>1. PICK k \in K : \A n \in K : k <= n
  <2>1. K \in SUBSET Nat /\ K # {}
    OBVIOUS
  <2> HIDE DEF K
  <2>2. QED
    BY <2>1, LeastNatural
<1>2. k \in Nat /\ \A n \in Nat : n < k => d \notin Walkable(fs, targets, n)
  BY <1>1
<1> PICK l \in 0 .. k : \E p : IsWalk(fs, d, targets, l, p)
  BY DEF Walkable
<1>3. PICK p : IsWalk(fs, d, targets, l, p)
  OBVIOUS
<1>4. d \in Walkable(fs, targets, l) /\ l \in Nat
  <2>1. l \in 0 .. l
    BY <1>2
  <2>2. QED
    BY <1>2, <1>3, <2>1 DEF Walkable
<1>5. l = k
  BY <1>2, <1>3, <1>4
<1>6. ASSUME NEW i \in 0 .. k, NEW j \in 0 .. k, i < j, p[i] = p[j]
      PROVE  FALSE
  <2>1. \E q : IsWalk(fs, d, targets, k - (j - i), q)
    BY <1>2, <1>3, <1>5, <1>6, WalkCut
  <2>2. k - (j - i) \in Nat /\ k - (j - i) < k
    BY <1>2, <1>6
  <2> DEFINE c == k - (j - i)
  <2> HIDE DEF c
  <2>3. c \in 0 .. c
    BY <2>2 DEF c
  <2>4. d \in Walkable(fs, targets, c)
    BY <2>1, <2>3 DEF Walkable, c
  <2>5. QED
    BY <1>2, <2>2, <2>4 DEF c
<1>7. ASSUME NEW i \in 0 .. k, NEW j \in 0 .. k, p[i] = p[j]
      PROVE  i = j
  <2>1. i \in Nat /\ j \in Nat
    BY <1>2
  <2>2. ~(i < j) /\ ~(j < i)
    BY <1>6, <1>7
  <2>3. QED
    BY <2>1, <2>2
<1>8. QED
  BY <1>2, <1>3, <1>5, <1>7

LEMMA ShortestPathExists ==
  ASSUME NEW fs, fs.edges \subseteq Edge, NEW targets \in SUBSET Symbol, NEW d \in Symbol,
         NEW m \in Nat, d \in Walkable(fs, targets, m)
  PROVE  \E q : q \in ShortestPaths(fs, d, targets)
<1> PICK k \in Nat : \E p :
        /\ IsWalk(fs, d, targets, k, p)
        /\ \A n \in Nat : n < k => d \notin Walkable(fs, targets, n)
        /\ \A i, j \in 0 .. k : p[i] = p[j] => i = j
  BY ShortestWalk
<1>1. PICK p :
        /\ IsWalk(fs, d, targets, k, p)
        /\ \A n \in Nat : n < k => d \notin Walkable(fs, targets, n)
        /\ \A i, j \in 0 .. k : p[i] = p[j] => i = j
  OBVIOUS
<1>2. /\ p \in [0 .. k -> Symbol] /\ p[0] = d /\ p[k] \in targets
      /\ \A i \in 0 .. k - 1 : Uses(fs, p[i], p[i + 1])
  BY <1>1 DEF IsWalk
<1>3. k + 1 <= Cardinality(Symbol) /\ Cardinality(Symbol) \in Nat
  <2>1. IsFiniteSet(0 .. k) /\ Cardinality(0 .. k) = k + 1
    BY FS_Interval
  <2>2. ~(Cardinality(Symbol) < Cardinality(0 .. k))
    BY <1>1, <1>2, <2>1, FS_PigeonHole, FiniteAssumption
  <2>3. QED
    BY <2>1, <2>2, FiniteAssumption, FS_CardinalityType
<1> DEFINE q == [i \in 1 .. k + 1 |-> p[i - 1]]
<1>4. \A i \in 1 .. k + 1 : i - 1 \in 0 .. k /\ q[i] = p[i - 1]
  OBVIOUS
<1>5. q \in [1 .. k + 1 -> Symbol] /\ Len(q) = k + 1 /\ DOMAIN q = 1 .. k + 1
  <2>1. q \in [1 .. k + 1 -> Symbol]
    BY <1>2, <1>4
  <2> HIDE DEF q
  <2>2. q \in Seq(Symbol) /\ Len(q) = k + 1
    BY <2>1
  <2>3. QED
    BY <2>1, <2>2
<1> HIDE DEF q
<1>6. q \in SimplePaths
  <2>1. k + 1 \in 1 .. Cardinality(Symbol)
    BY <1>3
  <2>2. \A i, j \in DOMAIN q : q[i] = q[j] => i = j
    <3>1. ASSUME NEW i \in 1 .. k + 1, NEW j \in 1 .. k + 1, q[i] = q[j]
          PROVE  i = j
      <4>1. i - 1 = j - 1
        BY <1>1, <1>4, <3>1
      <4>2. QED
        BY <4>1
    <3>2. QED
      BY <1>5, <3>1
  <2>3. QED
    BY <1>5, <2>1, <2>2 DEF SimplePaths
<1>7. q[1] = d /\ q[Len(q)] \in targets
  <2>1. 1 \in 1 .. k + 1 /\ 1 - 1 = 0 /\ k + 1 \in 1 .. k + 1 /\ (k + 1) - 1 = k
    OBVIOUS
  <2>2. QED
    BY <1>2, <1>4, <1>5, <2>1
<1>8. ASSUME NEW i \in 1 .. Len(q) - 1
      PROVE  q[i + 1] \in uses_of(fs, q[i])
  <2>1. /\ i \in 1 .. k + 1 /\ i + 1 \in 1 .. k + 1 /\ i - 1 \in 0 .. k - 1
        /\ (i + 1) - 1 = (i - 1) + 1
    BY <1>5
  <2>2. Uses(fs, q[i], q[i + 1])
    BY <1>2, <1>4, <2>1
  <2>3. PICK x \in fs.edges : x.caller = q[i] /\ x.callee = q[i + 1] /\ x.kind # "type"
    BY <2>2 DEF Uses
  <2>4. carries_effects(x.kind)
    BY <2>3 DEF carries_effects, Edge, EdgeKind
  <2>5. QED
    BY <2>3, <2>4 DEF uses_of
<1>9. IsShortest(fs, d, targets, q)
  <2>1. ASSUME NEW n \in 0 .. Len(q) - 2
        PROVE  d \notin WithinHops(fs, targets)[n]
    <3>1. n \in Nat /\ n < k
      BY <1>5
    <3>2. QED
      BY <1>1, <3>1, HopsAreWalks
  <2>2. QED
    BY <2>1 DEF IsShortest
<1>10. QED
  BY <1>6, <1>7, <1>8, <1>9 DEF ShortestPaths

(* A use path is a walk. *)
LEMMA UsePathWalks ==
  ASSUME NEW fs, NEW targets, NEW d \in Symbol, NEW q \in SimplePaths,
         IsUsePath(fs, d, targets, q)
  PROVE  \E m \in Nat : d \in Walkable(fs, targets, m)
<1> DEFINE m == Len(q) - 1
           p == [i \in 0 .. m |-> q[i + 1]]
<1>1. q \in Seq(Symbol) /\ Len(q) \in Nat \ {0}
  BY SimplePathIs
<1>2. m \in Nat /\ Len(q) = m + 1 /\ \A i \in 0 .. m : i + 1 \in 1 .. Len(q)
  BY <1>1
<1>3. /\ q[1] = d /\ q[Len(q)] \in targets
      /\ \A i \in 1 .. Len(q) - 1 : Uses(fs, q[i], q[i + 1])
  BY DEF IsUsePath
<1>4. p \in [0 .. m -> Symbol] /\ p[0] = d /\ p[m] \in targets
  <2>1. \A i \in 0 .. m : p[i] \in Symbol
    BY <1>1, <1>2
  <2>2. p[0] = q[1] /\ p[m] = q[Len(q)]
    BY <1>1
  <2>3. QED
    BY <1>3, <2>1, <2>2
<1>5. ASSUME NEW i \in 0 .. m - 1
      PROVE  Uses(fs, p[i], p[i + 1])
  <2>1. i + 1 \in 1 .. Len(q) - 1 /\ p[i] = q[i + 1] /\ p[i + 1] = q[(i + 1) + 1]
    BY <1>1
  <2> HIDE DEF p
  <2>2. QED
    BY <1>3, <2>1
<1> HIDE DEF p, m
<1>6. IsWalk(fs, d, targets, m, p)
  BY <1>3, <1>4, <1>5 DEF IsWalk
<1>7. m \in 0 .. m
  BY <1>2
<1>8. QED
  BY <1>2, <1>6, <1>7 DEF Walkable

LEMMA RenderFindingExists ==
  ASSUME NEW fs \in Facts, NEW doc \in Documents, NEW d \in fs.components,
         fs.defs[d] \notin doc.ignore, NEW q \in SimplePaths,
         IsUsePath(render_forward_adjacency(fs), d,
                   forbidden_syms(fs, from_table(doc.component)), q)
  PROVE  \E n \in RenderFindings(fs, doc) : n.symbol = d /\ n.severity = "error"
<1> DEFINE graph == render_forward_adjacency(fs)
           forbidden == from_table(doc.component)
           targets == forbidden_syms(fs, forbidden)
<1>1. /\ fs.roots \subseteq EffectRoot /\ fs.unmarked \subseteq Edge /\ d \in Symbol
      /\ fs.defs[d] \in File
  BY DEF Facts, Extracted, Defined
<1>2. graph.edges \subseteq Edge
  BY <1>1 DEF render_forward_adjacency
<1>3. targets \in SUBSET Symbol
  BY <1>1 DEF forbidden_syms, EffectRoot
<1> HIDE DEF graph
<1>4. PICK path : path \in ShortestPaths(graph, d, targets)
  <2> HIDE DEF targets
  <2>1. IsUsePath(graph, d, targets, q)
    BY DEF graph, targets
  <2>2. PICK m \in Nat : d \in Walkable(graph, targets, m)
    BY <1>1, <2>1, UsePathWalks
  <2>3. QED
    BY <1>1, <1>2, <1>3, <2>2, ShortestPathExists
<1>5. path \in SimplePaths /\ path[Len(path)] \in targets
  BY <1>4 DEF ShortestPaths
<1>6. PICK r \in fs.roots : r.effect \in forbidden /\ r.symbol = path[Len(path)]
  BY <1>5 DEF forbidden_syms
<1>7. r = [symbol |-> path[Len(path)], effect |-> r.effect]
  BY <1>1, <1>6 DEF EffectRoot
<1> DEFINE t == <<d, r.effect, path>>
           n == [symbol |-> t[1], region |-> "render", effect |-> t[2], evidence |-> t[3],
                 kind |-> "component", severity |-> "error"]
<1>8. /\ t \in fs.components \X forbidden \X SimplePaths
      /\ t[1] = d /\ t[2] = r.effect /\ t[3] = path
  BY <1>5, <1>6
<1> HIDE DEF t
<1>9. n \in RenderFindings(fs, doc)
  BY <1>1, <1>4, <1>6, <1>7, <1>8 DEF RenderFindings, graph
<1>10. n.symbol = d /\ n.severity = "error"
  BY <1>8
<1>11. QED
  BY <1>9, <1>10

(* The rules of hinzu.toml are about what components use: an annotation of *)
(* a component that nobody uses is no root (seed looks at callees).        *)
ComponentsUnannotated ==
  \A program \in Programs, doc \in Documents : \A d \in program.components :
    doc.table.rule[d] = NoEffect

LEMMA EndIsSeeded ==
  ASSUME ComponentsUnannotated, NEW program \in Programs, NEW doc \in Documents,
         NEW d \in program.components, NEW e \in from_table(doc.component),
         NEW q \in SimplePaths, IsUsePath(RenderGraph(program, doc.table), d, Symbol, q),
         KnownEnd(program, doc.table, q[Len(q)], e)
  PROVE  [symbol |-> q[Len(q)], effect |-> e] \in Seeded(program, doc).roots
<1> DEFINE table == doc.table
           last == q[Len(q)]
           seeded == seed(table, program.edges, program.roots)
<1>1. seeded \subseteq Seeded(program, doc).roots
  BY SeededIs DEF seed_unknowns
<1>2. program.edges \in SUBSET Edge /\ program.unmarked \subseteq program.edges
  BY PipelineAssumption DEF Extracted
<1>3. CASE [symbol |-> last, effect |-> e] \in program.roots
  BY <1>1, <1>3 DEF seed
<1>4. CASE table.rule[last] = e
  <2>1. Len(q) \in Nat \ {0} /\ q[1] = d
    BY SimplePathIs DEF IsUsePath
  <2>2. e \in Effect
    BY DEF from_table, DefaultForbidden, RealEffect
  <2>3. Len(q) # 1
    BY <1>4, <2>1, <2>2, SeedsAssumption DEF ComponentsUnannotated
  <2>4. Len(q) - 1 \in 1 .. Len(q) - 1 /\ (Len(q) - 1) + 1 = Len(q)
    <3>1. \A n \in Nat \ {0} : n # 1 => n - 1 \in 1 .. n - 1 /\ (n - 1) + 1 = n
      OBVIOUS
    <3> HIDE DEF table, last, seeded
    <3>2. QED
      BY <2>1, <2>3, <3>1
  <2>5. Uses(RenderGraph(program, table), q[Len(q) - 1], last)
    BY <2>4 DEF IsUsePath
  <2>6. PICK x \in program.unmarked : x.callee = last /\ x.kind # "type"
    BY <2>5 DEF Uses, RenderGraph
  <2>7. x \in CarryingEdges(program.edges)
    BY <1>2, <2>6, CarryingCallee
  <2> HIDE DEF last
  <2>8. [symbol |-> last, effect |-> e] \in seeded
    BY <1>4, <2>2, <2>6, <2>7, SeedsAssumption DEF seed
  <2>9. QED
    BY <1>1, <2>8 DEF last
<1>5. QED
  BY <1>3, <1>4 DEF KnownEnd

LEMMA CoveredIsRendering ==
  ASSUME ComponentsStay, ComponentsUnannotated PROVE Typed /\ Covered => RenderingCertified
<1> SUFFICES ASSUME ComponentsStay, ComponentsUnannotated, Typed, Covered,
                    NEW p \in Process, ExitsZero(p), input[p].doc.component.enabled,
                    NEW d \in input[p].program.components,
                    input[p].program.defs[d] \notin input[p].doc.ignore,
                    NEW e \in from_table(input[p].doc.component), NEW q \in SimplePaths,
                    IsUsePath(RenderGraph(input[p].program, input[p].doc.table), d, Symbol, q),
                    KnownEnd(input[p].program, input[p].doc.table, q[Len(q)], e)
             PROVE  FALSE
  BY DEF RenderingCertified, RendersForbidden
<1> DEFINE program == input[p].program
           doc == input[p].doc
           fs == facts[p]
<1>1. /\ program \in Programs /\ doc \in Documents /\ CoversFacts(p)
      /\ pc[p] = "done" /\ fs \in Facts
  BY DEF ExitsZero, Typed, Inputs, Covered, Covers
<1>2. /\ Own(p).defs = program.defs /\ Own(p).components = program.components
      /\ Own(p).unmarked = program.unmarked /\ Own(p) = Seeded(program, doc)
  BY <1>1, SeededIs DEF Own
<1>3. program.defs[d] # NoFile /\ d \in Symbol
  BY <1>1, PipelineAssumption DEF Extracted
<1>4. fs.defs[d] = program.defs[d] /\ d \in fs.components
  BY <1>1, <1>2, <1>3 DEF CoversFacts, Agrees, Defined
<1>5. program.unmarked \subseteq fs.unmarked /\ Seeded(program, doc).roots \subseteq fs.roots
  BY <1>1, <1>2 DEF CoversFacts
<1>6. q[Len(q)] \in forbidden_syms(fs, from_table(doc.component))
  <2> DEFINE r == [symbol |-> q[Len(q)], effect |-> e]
  <2>1. r \in fs.roots /\ r.symbol = q[Len(q)] /\ r.effect = e
    BY <1>1, <1>5, EndIsSeeded
  <2> HIDE DEF r
  <2>2. QED
    BY <2>1 DEF forbidden_syms
<1>7. IsUsePath(render_forward_adjacency(fs), d,
                forbidden_syms(fs, from_table(doc.component)), q)
  <2>1. \A i \in 1 .. Len(q) - 1 : Uses(render_forward_adjacency(fs), q[i], q[i + 1])
    BY <1>5 DEF IsUsePath, Uses, RenderGraph, render_forward_adjacency
  <2>2. QED
    BY <1>6, <2>1 DEF IsUsePath
<1>8. PICK n \in RenderFindings(fs, doc) : n.symbol = d /\ n.severity = "error"
  BY <1>1, <1>4, <1>7, RenderFindingExists
<1>9. findings[p] \in Verdicts(fs, report[p], doc)
  BY <1>1 DEF CoversFacts
<1>10. PICK picks \in SUBSET RenderFindings(fs, doc) :
         /\ picks \subseteq findings[p]
         /\ {k.symbol : k \in picks} = {k.symbol : k \in RenderFindings(fs, doc)}
  BY <1>9 DEF Verdicts
<1>11. PICK k \in picks : k.symbol = d
  BY <1>8, <1>10
<1>12. k.severity = "error"
  <2> HIDE DEF fs, doc
  <2>1. k \in RenderFindings(fs, doc)
    BY <1>10, <1>11
  <2>2. PICK t \in fs.components \X from_table(doc.component) \X SimplePaths :
               IsRenderFinding(fs, doc, k, t)
    BY <2>1, RenderFindingIs
  <2>3. QED
    BY <2>2 DEF IsRenderFinding
<1>13. QED
  BY <1>10, <1>12 DEF ExitsZero

(* A success of the rule for components certifies rendering, for every     *)
(* program and store: no component outside the ignored files reaches a     *)
(* forbidden effect by uses that are not all behind a seam (rules.rs,      *)
(* EffectInComponentRule::check, whose search finds a path whenever there  *)
(* is one).                                                                *)
THEOREM RenderingIsCertified ==
  ASSUME FilesStay, ComponentsStay, ComponentsUnannotated PROVE Spec => []RenderingCertified
<1>1. Init => Covered
  BY DEF Init, Covered, Covers
<1>2. Typed /\ Covered /\ [Next]_vars => Covered'
  BY CoveredStep
<1>3. Typed /\ Covered => RenderingCertified
  BY CoveredIsRendering
<1>4. QED
  BY <1>1, <1>2, <1>3, TypedAlways, PTL DEF Spec

-----------------------------------------------------------------------------
(***************************************************************************)
(* A check that has its store to itself, because it is in memory or nobody *)
(* else is given the same --db, leaves it settled.                         *)
(***************************************************************************)
Pairs(rows) == {<<r.symbol, r.effect>> : r \in rows}

Explaining(rows) == {r \in rows : r.evidence_path # <<>>}

SettledTables(t, engine) ==
  /\ Pairs(Explaining(t.effect_summaries)) = Carried(InTables(t))
  /\ Pairs(t.effect_summaries) = Carried(Fed(InTables(t), engine))
  /\ Cardinality(t.effect_summaries) = Cardinality(Pairs(t.effect_summaries))

(* What it has read is still the whole of its store when it writes.        *)
Undisturbed(p) ==
  LET t == stores[StoreOf(p)]
  IN  /\ pc[p] \in {"edges", "loaded"} => facts[p].edges = t.edges
      /\ pc[p] = "loaded" => facts[p].roots = t.effect_roots
      /\ pc[p] \in {"written", "done"} => SettledTables(t, input[p].engine)

LEMMA CarriedBySame ==
  ASSUME NEW fs, NEW gs, fs.edges = gs.edges, fs.roots = gs.roots
  PROVE  Carried(fs) = Carried(gs)
BY DEF Carried, Carries, IsClosed, Uses

(* An answer has one row for each pair that is derived, and the rows with  *)
(* an evidence path are those of the pairs that are carried.               *)
LEMMA RowsAreSettled ==
  ASSUME NEW fs, fs.edges \subseteq Edge, NEW engine, NEW rep \in Reports(fs, engine)
  PROVE  /\ Pairs(Explaining(Rows(rep))) = Carried(fs)
         /\ Pairs(Rows(rep)) = Carried(Fed(fs, engine))
         /\ Cardinality(Rows(rep)) = Cardinality(Pairs(Rows(rep)))
<1> DEFINE RowOf(se) == [symbol |-> se[1], effect |-> se[2],
                         evidence_path |-> Pieces(rep.evidence[se[1]][se[2]])]
           fed == Fed(fs, engine)
           toRow == [se \in Carried(fed) |-> RowOf(se)]
<1>1. /\ Reported(rep) = Carried(fed) /\ Carried(fed) \subseteq Symbol \X Effect
      /\ Carried(fs) \subseteq Carried(fed)
  BY ReportsAreHonest, CarriedIsReported DEF Carried
<1>2. ASSUME NEW se \in Carried(fed)
      PROVE  RowOf(se).evidence_path # <<>> <=> se \in Carried(fs)
  <2> DEFINE q == rep.evidence[se[1]][se[2]]
  <2>1. CASE se \in Carried(fs)
    <3>1. q \in SimplePaths
      BY <2>1, ReportsAreHonest DEF Honest
    <3>2. PICK n \in Nat \ {0} : q \in [1 .. n -> Symbol]
      <4>1. PICK m \in 1 .. Cardinality(Symbol) : q \in [1 .. m -> Symbol]
        BY <3>1 DEF SimplePaths
      <4>2. m \in Nat \ {0}
        BY FiniteAssumption, FS_CardinalityType
      <4>3. QED
        BY <4>1, <4>2
    <3> HIDE DEF q
    <3>3. QED
      BY <2>1, <3>2, SomePieces DEF q
  <2>2. CASE se \notin Carried(fs)
    BY <1>1, <2>2, NoPieces, ReportsAreHonest
  <2>3. QED
    BY <2>1, <2>2
<1> HIDE DEF fed
<1>3. Rows(rep) = {RowOf(se) : se \in Carried(fed)}
  BY <1>1 DEF Rows
<1>4. ASSUME NEW se \in Carried(fed)
      PROVE  <<RowOf(se).symbol, RowOf(se).effect>> = se
  BY <1>1
<1> HIDE DEF RowOf
<1>5. Pairs(Rows(rep)) = Carried(fed)
  BY <1>3, <1>4 DEF Pairs
<1>6. Pairs(Explaining(Rows(rep))) = Carried(fs)
  BY <1>1, <1>2, <1>3, <1>4 DEF Pairs, Explaining
<1>7. ExistsBijection(Carried(fed), Rows(rep))
  <2>1. toRow \in [Carried(fed) -> Rows(rep)]
    BY <1>3
  <2>2. \A a, b \in Carried(fed) : toRow[a] = toRow[b] => a = b
    BY <1>4
  <2>3. \A r \in Rows(rep) : \E se \in Carried(fed) : toRow[se] = r
    BY <1>3
  <2> HIDE DEF toRow
  <2>4. toRow \in Bijection(Carried(fed), Rows(rep))
    BY <2>1, <2>2, <2>3 DEF Bijection, Injection, Surjection, IsInjective
  <2>5. QED
    BY <2>4 DEF ExistsBijection
<1>8. QED
  BY <1>5, <1>6, <1>7, CarriedIsFinite, FS_Bijection DEF fed

LEMMA UndisturbedSettles ==
  ASSUME NEW p, Undisturbed(p)
  PROVE  LeavesSettled(p)
BY DEF Undisturbed, SettledTables, Pairs, Explaining, InTables, LeavesSettled, StoredFacts

(* Nobody else touches its store.                                          *)
LEMMA LoneStore ==
  ASSUME Typed, NEW p \in Process, NEW q \in Process, q # p, Lone(p), NEW program, NEW doc,
         NEW engine, Begin(q, program, doc, engine) \/ Continue(q)
  PROVE  stores'[StoreOf(p)] = stores[StoreOf(p)]
<1>1. StoreOf(q) # StoreOf(p) /\ StoreOf(p) \in Stores
  BY StoreOfIn DEF Lone
<1>2. CASE stores' = StoresWithout(q)
  BY <1>2, OthersKeepTheirStore
<1>3. CASE stores' = stores
  BY <1>3
<1>4. CASE InsertFacts(q)
  BY <1>1, <1>4 DEF InsertFacts, Typed
<1>5. CASE WriteSummaries(q)
  BY <1>1, <1>5 DEF WriteSummaries, Typed
<1>6. QED
  BY <1>2, <1>3, <1>4, <1>5
     DEF Begin, Start, Refuse, Continue, LoadDefinitions, LoadEdges, LoadRoots, Conclude, Die

LEMMA UndisturbedStep ==
  ASSUME NEW p \in Process, Lone(p)
  PROVE  Typed /\ Undisturbed(p) /\ [Next]_vars => Undisturbed(p)'
<1> SUFFICES ASSUME Typed, Undisturbed(p), Next PROVE Undisturbed(p)'
  BY DEF Undisturbed, SettledTables, Pairs, Explaining, InTables, Fed, vars
<1> DEFINE own == StoreOf(p)
<1>1. PICK q \in Process :
        \/ Begins(q)
        \/ Continue(q)
  BY DEF Begins, Next
<1>2. own \in Stores /\ stores[own] \in Tables /\ facts[p] \in Facts
  BY StoreOfIn DEF Typed
<1>3. CASE q # p
  <2>1. stores'[own] = stores[own]
    BY <1>1, <1>3, LoneStore DEF Begins
  <2>2. pc'[p] = pc[p] /\ facts'[p] = facts[p] /\ input'[p] = input[p]
    <3>1. CASE Begins(q)
      BY <1>3, <3>1 DEF Begins, Begin, Start, Refuse, Typed
    <3>2. CASE InsertFacts(q) \/ LoadDefinitions(q) \/ LoadEdges(q) \/ LoadRoots(q)
      BY <1>3, <3>2 DEF InsertFacts, LoadDefinitions, LoadEdges, LoadRoots, Typed
    <3>3. CASE WriteSummaries(q) \/ Conclude(q) \/ Die(q)
      BY <1>3, <3>3 DEF WriteSummaries, Conclude, Die, Typed
    <3>4. QED
      BY <1>1, <3>1, <3>2, <3>3 DEF Continue
  <2>3. QED
    BY <2>1, <2>2 DEF Undisturbed, SettledTables, Pairs, Explaining, InTables, Fed
<1>4. CASE q = p
  <2>1. CASE \/ Begins(p)
             \/ InsertFacts(p) \/ LoadDefinitions(p) \/ Die(p)
    <3>1. pc'[p] \in {"seeded", "refused", "inserted", "definitions", "idle"}
      BY <2>1 DEF Begins, Begin, Start, Refuse, InsertFacts, LoadDefinitions, Die, Typed
    <3>2. QED
      BY <3>1 DEF Undisturbed
  <2>2. CASE LoadEdges(p)
    <3>1. pc'[p] = "edges" /\ stores' = stores /\ facts'[p].edges = stores[own].edges
      BY <1>2, <2>2 DEF LoadEdges, Typed, Facts, Extracted
    <3>2. QED
      BY <3>1 DEF Undisturbed
  <2>3. CASE LoadRoots(p)
    <3>1. /\ pc[p] = "edges" /\ pc'[p] = "loaded" /\ stores' = stores
          /\ facts'[p].edges = facts[p].edges /\ facts'[p].roots = stores[own].effect_roots
      BY <1>2, <2>3 DEF LoadRoots, Typed, Facts, Extracted
    <3>2. QED
      BY <3>1 DEF Undisturbed
  <2>4. CASE WriteSummaries(p)
    <3>1. PICK rep \in Reports(facts[p], input[p].engine) :
            stores' = [stores EXCEPT ![own] = write_summaries(@, rep)]
      BY <2>4 DEF WriteSummaries
    <3>2. /\ pc[p] = "loaded" /\ pc'[p] = "written"
          /\ facts'[p] = facts[p] /\ input'[p] = input[p]
      BY <2>4 DEF WriteSummaries, Typed
    <3>3. stores'[own] = write_summaries(stores[own], rep)
      BY <1>2, <3>1 DEF Typed
    <3>4. /\ stores'[own].effect_summaries = Rows(rep)
          /\ stores'[own].edges = facts[p].edges
          /\ stores'[own].effect_roots = facts[p].roots
      BY <1>2, <3>2, <3>3, WriteTyped DEF Undisturbed
    <3> DEFINE stored == InTables(stores'[own])
    <3>5. /\ Carried(stored) = Carried(facts[p])
          /\ Carried(Fed(stored, input[p].engine)) = Carried(Fed(facts[p], input[p].engine))
      <4>1. stored.edges = facts[p].edges /\ stored.roots = facts[p].roots
        BY <3>4 DEF InTables
      <4> HIDE DEF stored
      <4>2. Circuit(stored) = Circuit(facts[p])
        BY <4>1 DEF Circuit
      <4>3. QED
        BY <4>1, <4>2, CarriedBySame DEF Fed
    <3>6. facts[p].edges \subseteq Edge
      BY <1>2 DEF Facts, Extracted
    <3>7. /\ Pairs(Explaining(Rows(rep))) = Carried(facts[p])
          /\ Pairs(Rows(rep)) = Carried(Fed(facts[p], input[p].engine))
          /\ Cardinality(Rows(rep)) = Cardinality(Pairs(Rows(rep)))
      BY <3>1, <3>6, RowsAreSettled
    <3>8. SettledTables(stores'[own], input[p].engine)
      BY <3>4, <3>5, <3>7 DEF SettledTables
    <3>9. QED
      BY <3>2, <3>8 DEF Undisturbed, SettledTables, Pairs, Explaining, InTables, Fed
  <2>5. CASE Conclude(p)
    <3>1. pc[p] = "written" /\ pc'[p] = "done" /\ stores' = stores /\ input' = input
      BY <2>5 DEF Conclude, Typed
    <3>2. QED
      BY <3>1 DEF Undisturbed, SettledTables, Pairs, Explaining, InTables, Fed
  <2>6. QED
    BY <1>1, <1>4, <2>1, <2>2, <2>3, <2>4, <2>5 DEF Continue
<1>5. QED
  BY <1>3, <1>4

(* A check that shares its store with no other leaves one summary row with *)
(* an evidence path for each effect the persisted facts carry, whatever    *)
(* earlier checks died between insert_facts and write_summaries and        *)
(* whatever the older revisions left behind (store.rs; lib.rs,             *)
(* check_facts).  With --engine naive there is no other row; the default   *)
(* engine adds one without a path for each effect that leaks through Type  *)
(* edges (hinzu-dbsp lib.rs, summaries_from_pairs).                        *)
THEOREM LoneChecksSettle == Spec => []Settled
<1> DEFINE Inv == \A p \in Process : Lone(p) => Undisturbed(p)
<1>1. Init => Inv
  BY DEF Init, Undisturbed
<1>2. Typed /\ Inv /\ [Next]_vars => Inv'
  BY UndisturbedStep DEF Lone
<1>3. Inv => Settled
  BY UndisturbedSettles DEF Settled
<1> HIDE DEF Inv
<1>4. QED
  BY <1>1, <1>2, <1>3, TypedAlways, PTL DEF Spec
=============================================================================
