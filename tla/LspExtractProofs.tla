-------------------------- MODULE LspExtractProofs --------------------------
(***************************************************************************)
(* What the language-server extractor guarantees for every project and     *)
(* every server, cold, slow or dying: its variables keep their types, and  *)
(* no edge dangles.  When no request is lost its facts are those of the    *)
(* project, and a file whose definitions were lost is not taken for pure.  *)
(***************************************************************************)
EXTENDS LspExtract, FiniteSetTheorems, TLAPS

-----------------------------------------------------------------------------
(* The operators.                                                          *)

(* A set of natural numbers that is not empty has a minimum.               *)
LEMMA MinIs ==
  ASSUME NEW S \in SUBSET Nat, S # {}
  PROVE  Min(S) \in S /\ \A n \in S : Min(S) <= n
<1>1. PICK m \in S : \A n \in S : <<n, m>> \notin OpToRel(<, Nat)
  BY NatLessThanWellFounded, WFMin
<1>2. \A n \in S : ~(n < m)
  BY <1>1 DEF OpToRel
<1>3. \A n \in S : m <= n
  BY <1>2
<1>4. QED
  BY <1>3 DEF Min

LEMMA FilesAre == Files \subseteq Nat /\ Files \subseteq DOMAIN Symbols /\ IsFiniteSet(Files)
<1> DEFINE Sources == {x \in Entries : x.is_file /\ ~Excluded(x)}
           PathOf == [x \in Sources |-> x.file]
<1>1. Files \subseteq Nat /\ Files \subseteq DOMAIN Symbols
  BY ProjectAssumption DEF Files
<1>2. IsFiniteSet(Sources)
  BY ProjectAssumption, FS_Subset
<1>3. Files = {e.file : e \in Sources}
  BY DEF Files
<1>4. PathOf \in Surjection(Sources, Files)
  BY <1>3 DEF Surjection
<1>5. IsFiniteSet(Files)
  BY <1>2, <1>4, FS_Surjection
<1>6. QED
  BY <1>1, <1>5

LEMMA SymbolsAre ==
  ASSUME NEW f \in DOMAIN Symbols
  PROVE  /\ DOMAIN Symbols[f] \subseteq Nat
         /\ \A i \in DOMAIN Symbols[f] :
              Symbols[f][i].lo \in Nat /\ Symbols[f][i].hi \in Nat /\ Symbols[f][i].sel \in Nat
         /\ Callables(f) \subseteq Nesting(f)
         /\ Nesting(f) \subseteq DOMAIN Symbols[f]
         /\ Symbols[f] = <<>> <=> DOMAIN Symbols[f] = {}
<1> DEFINE Symbol == [name : STRING, kind : STRING, lo : Nat, hi : Nat, sel : Nat, up : Nat]
<1>1. Symbols[f] \in Seq(Symbol)
  BY ProjectAssumption
<1>2. \A s \in Symbol : s.lo \in Nat /\ s.hi \in Nat /\ s.sel \in Nat
  OBVIOUS
<1> HIDE DEF Symbol
<1>3. /\ DOMAIN Symbols[f] = 1 .. Len(Symbols[f]) /\ Len(Symbols[f]) \in Nat
      /\ \A i \in DOMAIN Symbols[f] : Symbols[f][i] \in Symbol
      /\ Symbols[f] = <<>> <=> Len(Symbols[f]) = 0
  BY <1>1
<1>4. DOMAIN Symbols[f] \subseteq Nat /\ (Symbols[f] = <<>> <=> DOMAIN Symbols[f] = {})
  BY <1>3
<1>5. Callables(f) \subseteq Nesting(f) /\ Nesting(f) \subseteq DOMAIN Symbols[f]
  BY DEF Callables, Nesting, Nests
<1>6. QED
  BY <1>2, <1>3, <1>4, <1>5

(* What is innermost is one of those it is looked for among.               *)
LEMMA InnermostIn ==
  ASSUME NEW f \in DOMAIN Symbols, NEW among \in SUBSET DOMAIN Symbols[f], NEW line \in Nat
  PROVE  Innermost(f, among, line) \subseteq among
<1> DEFINE E == {i \in among : Symbols[f][i].lo <= line /\ line <= Symbols[f][i].hi}
           N == {i \in E : \A j \in E : Width(Symbols[f][i]) <= Width(Symbols[f][j])}
           Widths == {Width(Symbols[f][i]) : i \in E}
<1>1. Innermost(f, among, line) = IF E = {} THEN {} ELSE {Min(N)}
  BY DEF Innermost
<1>2. CASE E = {}
  BY <1>1, <1>2
<1>3. CASE E # {}
  <2>1. \A i \in E : Width(Symbols[f][i]) \in Nat
    BY SymbolsAre DEF Width
  <2>2. Widths \in SUBSET Nat /\ Widths # {}
    BY <1>3, <2>1
  <2>a. \A n \in Widths : Min(Widths) <= n
    BY <2>2, MinIs
  <2>b. Min(Widths) \in Widths
    BY <2>2, MinIs
  <2>3. PICK i \in E : Width(Symbols[f][i]) = Min(Widths)
    BY <2>b
  <2>4. i \in N
    BY <2>a, <2>3
  <2>5. N \in SUBSET Nat
    BY SymbolsAre
  <2>6. Min(N) \in N
    BY <2>4, <2>5, MinIs
  <2>7. QED
    BY <1>1, <1>3, <2>6
<1>4. QED
  BY <1>2, <1>3

(* The first of the anchors is one of them.                                *)
LEMMA FirstAnchorIn ==
  ASSUME NEW anchors, anchors # {},
         \A a \in anchors : \E f \in Files : \E i \in Callables(f) : a = <<f, i>>
  PROVE  FirstAnchor(anchors) \in anchors
<1> DEFINE file == Min({a[1] : a \in anchors})
           here == {i \in Callables(file) : <<file, i>> \in anchors}
<1>1. {a[1] : a \in anchors} \in SUBSET Nat /\ {a[1] : a \in anchors} # {}
  BY FilesAre
<1>2. file \in {a[1] : a \in anchors}
  BY <1>1, MinIs
<1>3. PICK a \in anchors : a[1] = file
  BY <1>2
<1>4. PICK f \in Files : \E i \in Callables(f) : a = <<f, i>>
  OBVIOUS
<1>5. PICK i \in Callables(f) : a = <<f, i>>
  BY <1>4
<1>6. f = file /\ i \in here
  BY <1>3, <1>5
<1>7. here \in SUBSET Nat
  BY <1>6, FilesAre, SymbolsAre
<1>8. Min(here) \in here
  BY <1>6, <1>7, MinIs
<1>9. FirstAnchor(anchors) = <<file, Min(here)>>
  BY DEF FirstAnchor
<1>10. QED
  BY <1>8, <1>9

(* The token of a name is a node of the tree.                              *)
LEMMA TokenIn ==
  ASSUME NEW tree, DOMAIN tree \subseteq Nat, NEW n \in DOMAIN tree
  PROVE  Token(tree, n) \in DOMAIN tree
<1> DEFINE Property == {k \in DOMAIN tree : tree[k].up = n /\ tree[k].field = "attribute"}
<1>1. Property # {} => Min(Property) \in Property
  BY MinIs
<1>2. Token(tree, n) = IF tree[n].kind = "attribute" /\ Property # {} THEN Min(Property) ELSE n
  BY DEF Token
<1>3. QED
  BY <1>1, <1>2

-----------------------------------------------------------------------------
(* Types.                                                                  *)
Running == phase \in {"defs", "calls", "refs", "closing"}

Caller == (UNION {{Id(f, i) : i \in Callables(f)} : f \in Files}) \cup {ModuleId(f) : f \in Files}

UseType == [caller : Caller, kind : {"call", "reference"}, file : DOMAIN Symbols, line : Nat]

(* What is still to be visited is there to be visited.                     *)
WorkTyped ==
  /\ phase \in {"defs", "refs"} => work \subseteq Files
  /\ phase = "calls" => \A a \in work : \E f \in collected : \E i \in Callables(f) : a = <<f, i>>
  /\ phase = "refs" => Python /\ work # {} /\ sites \subseteq Sites(Syntax[Min(work)])
  /\ Running => Files # {}

TypeOK ==
  /\ phase \in {"start", "defs", "calls", "refs", "closing", "done", "failed", "hung"}
  /\ WorkTyped
  /\ uses \in Seq(UseType)
  /\ uses # <<>> => phase \in {"calls", "refs", "hung"}
  /\ collected \subseteq Files /\ modules \subseteq Files
  /\ item \in BOOLEAN /\ module_used \in BOOLEAN /\ alive \in BOOLEAN
  /\ DOMAIN target_syms \subseteq DOMAIN Symbols
  /\ \A f \in DOMAIN target_syms : target_syms[f] \in BOOLEAN
  /\ losses \in 0 .. MaxLosses

(* The first use, and what is left after it.                               *)
LEMMA UseTyped ==
  ASSUME TypeOK, uses # <<>>
  PROVE  /\ Use \in UseType
         /\ Tail(uses) \in Seq(UseType)
         /\ Len(uses) \in Nat /\ Len(uses) > 0 /\ DOMAIN uses = 1 .. Len(uses)
         /\ DOMAIN Tail(uses) = 1 .. Len(uses) - 1
         /\ Use = uses[1]
         /\ \A k \in DOMAIN Tail(uses) : k + 1 \in DOMAIN uses /\ Tail(uses)[k] = uses[k + 1]
<1>1. uses \in Seq(UseType)
  BY DEF TypeOK
<1> HIDE DEF TypeOK
<1>2. QED
  BY <1>1 DEF Use

LEMMA RequestsTyped ==
  ASSUME TypeOK,
         \/ \E has : Answered(has)
         \/ \E n, has : GivenUp(n, has)
         \/ NoRequest
  PROVE  alive' \in BOOLEAN /\ losses' \in 0 .. MaxLosses
BY LossesAssumption DEF TypeOK, Answered, GivenUp, NoRequest

LEMMA FileIn ==
  ASSUME TypeOK, phase = "refs"
  PROVE  /\ File \in work /\ File \in Files /\ File \in DOMAIN Symbols /\ Python
         /\ sites \subseteq DOMAIN Syntax[File]
<1>1. work \in SUBSET Nat /\ work # {} /\ work \subseteq Files
  BY FilesAre DEF TypeOK, WorkTyped
<1>2. File \in work
  BY <1>1, MinIs DEF File
<1>3. QED
  BY <1>1, <1>2, FilesAre DEF TypeOK, WorkTyped, File, Sites

LEMMA SiteIn ==
  ASSUME TypeOK, phase = "refs", sites # {}
  PROVE  /\ Site \in sites /\ Site \in DOMAIN Syntax[File]
         /\ Node.line \in Nat
         /\ Token(Syntax[File], Site) \in DOMAIN Syntax[File]
         /\ Syntax[File][Token(Syntax[File], Site)].to \subseteq Place
<1>1. DOMAIN Syntax[File] \subseteq Nat
  BY FileIn, ProjectAssumption
<1>2. Site \in sites /\ Site \in DOMAIN Syntax[File]
  BY <1>1, FileIn, MinIs DEF Site
<1>3. QED
  BY <1>1, <1>2, FileIn, TokenIn, ProjectAssumption DEF Node

LEMMA CallersAre ==
  /\ \A f \in Files : \A i \in Callables(f) : Id(f, i) \in Caller
  /\ \A f \in Files : ModuleId(f) \in Caller
<1>1. ASSUME NEW f \in Files, NEW i \in Callables(f) PROVE Id(f, i) \in Caller
  <2> DEFINE Of(g) == {Id(g, j) : j \in Callables(g)}
  <2>1. Id(f, i) \in Of(f)
    OBVIOUS
  <2> HIDE DEF Of
  <2>2. Of(f) \in {Of(g) : g \in Files}
    OBVIOUS
  <2>3. Id(f, i) \in UNION {Of(g) : g \in Files}
    BY <2>1, <2>2
  <2>4. QED
    BY <2>3 DEF Of, Caller
<1>2. ASSUME NEW f \in Files PROVE ModuleId(f) \in Caller
  <2>1. ModuleId(f) \in {ModuleId(g) : g \in Files}
    OBVIOUS
  <2>2. QED
    BY <2>1, Zenon DEF Caller
<1>3. QED
  BY <1>1, <1>2

LEMMA CallsTyped ==
  ASSUME NEW f \in Files, NEW i \in Callables(f)
  PROVE  CallsAt(<<f, i>>) \in Seq(UseType)
<1> DEFINE calls == OutgoingCalls[<<f, Symbols[f][i].sel>>]
<1>1. calls \in Seq(Place)
  BY ProjectAssumption
<1>2. DOMAIN calls = 1 .. Len(calls) /\ Len(calls) \in Nat /\ \A k \in DOMAIN calls : calls[k] \in Place
  BY <1>1
<1>3. \A k \in DOMAIN calls : calls[k].file \in DOMAIN Symbols /\ calls[k].line \in Nat
  BY <1>2 DEF Place
<1>4. Id(f, i) \in Caller
  BY CallersAre
<1>5. CallsAt(<<f, i>>) = [k \in DOMAIN calls |-> [caller |-> Id(f, i), kind |-> "call",
                                                  file |-> calls[k].file, line |-> calls[k].line]]
  BY DEF CallsAt
<1> HIDE DEF calls
<1>6. \A k \in DOMAIN calls : [caller |-> Id(f, i), kind |-> "call",
                               file |-> calls[k].file, line |-> calls[k].line] \in UseType
  BY <1>3, <1>4 DEF UseType
<1>7. QED
  BY <1>2, <1>5, <1>6

(* Who is around a site, and so who uses what the site names.              *)
LEMMA EnclosingIn ==
  ASSUME TypeOK, phase = "refs", sites # {}
  PROVE  /\ Enclosing \subseteq Callables(File)
         /\ Enclosing # {} => File \in collected
<1>1. Callables(File) \in SUBSET DOMAIN Symbols[File]
  BY FileIn, SymbolsAre
<1>2. Innermost(File, Callables(File), Node.line) \subseteq Callables(File)
  BY <1>1, FileIn, SiteIn, InnermostIn
<1>3. QED
  BY <1>2 DEF Enclosing, DefAt

LEMMA UseAtTyped ==
  ASSUME TypeOK, phase = "refs", sites # {}, NEW place \in Place
  PROVE  /\ UseAt(place) \in UseType
         /\ \/ UseAt(place).caller = ModuleId(File)
            \/ \E i \in Callables(File) : UseAt(place).caller = Id(File, i) /\ File \in collected
<1>1. place.file \in DOMAIN Symbols /\ place.line \in Nat
  BY DEF Place
<1>2. \/ UseAt(place).caller = ModuleId(File)
      \/ \E i \in Callables(File) : UseAt(place).caller = Id(File, i) /\ File \in collected
  BY EnclosingIn DEF UseAt
<1>3. UseAt(place).caller \in Caller
  BY <1>2, FileIn, CallersAre
<1>4. UseAt(place) \in UseType
  <2>1. UseAt(place) = [caller |-> UseAt(place).caller, kind |-> "reference",
                        file |-> place.file, line |-> place.line]
    BY DEF UseAt
  <2>2. QED
    BY <1>1, <1>3, <2>1 DEF UseType
<1>5. QED
  BY <1>2, <1>4

LEMMA TypedInit == Init => TypeOK
<1> SUFFICES ASSUME Init PROVE TypeOK
  OBVIOUS
<1>1. DOMAIN target_syms = {} /\ uses \in Seq(UseType) /\ uses = <<>> /\ losses \in 0 .. MaxLosses
  BY LossesAssumption DEF Init
<1>2. WorkTyped
  BY DEF Init, WorkTyped, Running
<1>3. QED
  BY <1>1, <1>2 DEF Init, TypeOK

LEMMA TypedStep == TypeOK /\ [Next]_vars => TypeOK'
<1> SUFFICES ASSUME TypeOK, [Next]_vars PROVE TypeOK'
  OBVIOUS
<1> USE DEF progress, facts, NoRequest
<1>0. \A has : Answered(has) => alive' \in BOOLEAN /\ losses' \in 0 .. MaxLosses
  BY RequestsTyped
<1>00. \A n, has : GivenUp(n, has) => alive' \in BOOLEAN /\ losses' \in 0 .. MaxLosses
  BY RequestsTyped
<1>1. CASE Open
  BY <1>0, <1>00, <1>1 DEF Open, TypeOK, WorkTyped, Running, Answered
<1>2. CASE Collect
  <2>1. CASE UNCHANGED <<progress, facts, alive, losses>>
    BY <2>1 DEF TypeOK, WorkTyped, Running
  <2>2. CASE ~UNCHANGED <<progress, facts, alive, losses>>
    <3>1. alive' \in BOOLEAN /\ losses' \in 0 .. MaxLosses
      BY <1>0, <1>00, <1>2, <2>2 DEF Collect, Retried
    <3>2. phase = "defs" /\ work # {} /\ work \subseteq Files
      BY <1>2 DEF Collect, TypeOK, WorkTyped
    <3>3. Min(work) \in Files
      BY <3>2, FilesAre, MinIs
    <3>4. /\ collected' \in {collected, collected \cup {Min(work)}} /\ work' = work \ {Min(work)}
          /\ UNCHANGED <<phase, item, sites, uses, modules, module_used, target_syms>>
      BY <1>2, <2>2 DEF Collect, Retried
    <3>5. QED
      BY <3>1, <3>2, <3>3, <3>4 DEF TypeOK, WorkTyped, Running
  <2>3. QED
    BY <2>1, <2>2
<1>3. CASE StartCalls
  <2>1. \A a \in work' : \E f \in collected : \E i \in Callables(f) : a = <<f, i>>
    BY <1>3 DEF StartCalls, Anchors
  <2>2. QED
    BY <1>3, <2>1 DEF StartCalls, TypeOK, WorkTyped, Running
<1>4. CASE Prepare
  <2>1. CASE UNCHANGED <<progress, facts, alive, losses>>
    BY <2>1 DEF TypeOK, WorkTyped, Running
  <2>2. CASE ~UNCHANGED <<progress, facts, alive, losses>>
    <3>1. alive' \in BOOLEAN /\ losses' \in 0 .. MaxLosses
      BY <1>0, <1>00, <1>4, <2>2 DEF Prepare, Retried
    <3>2. /\ item' \in BOOLEAN /\ phase = "calls" /\ work' \subseteq work
          /\ UNCHANGED <<phase, sites, uses, facts>>
      BY <1>4, <2>2 DEF Prepare, Retried, NextAnchor
    <3>3. QED
      BY <3>1, <3>2 DEF TypeOK, WorkTyped, Running
  <2>3. QED
    BY <2>1, <2>2
<1>5. CASE Outgoing
  <2>1. phase = "calls" /\ work # {} /\ collected \subseteq Files
    BY <1>5 DEF Outgoing, TypeOK
  <2>2. \A a \in work : \E f \in collected : \E i \in Callables(f) : a = <<f, i>>
    BY <2>1 DEF TypeOK, WorkTyped
  <2>3. FirstAnchor(work) \in work
    BY <2>1, <2>2, FirstAnchorIn
  <2>4. PICK f \in Files : \E i \in Callables(f) : FirstAnchor(work) = <<f, i>>
    BY <2>1, <2>2, <2>3
  <2>5. CallsAt(FirstAnchor(work)) \in Seq(UseType)
    BY <2>4, CallsTyped
  <2>6. uses' \in Seq(UseType)
    BY <1>5, <2>5 DEF Outgoing, TypeOK
  <2>7. /\ item' \in BOOLEAN /\ work' \subseteq work /\ UNCHANGED <<phase, sites, facts>>
    BY <1>5 DEF Outgoing, NextAnchor
  <2>8. alive' \in BOOLEAN /\ losses' \in 0 .. MaxLosses
    BY <1>0, <1>00, <1>5 DEF Outgoing
  <2>9. QED
    BY <2>1, <2>6, <2>7, <2>8 DEF TypeOK, WorkTyped, Running
<1>6. CASE BuildTargetIndex
  <2>1. CASE UNCHANGED <<progress, facts, alive, losses>>
    BY <2>1 DEF TypeOK, WorkTyped, Running
  <2>2. CASE ~UNCHANGED <<progress, facts, alive, losses>>
    <3>1. alive' \in BOOLEAN /\ losses' \in 0 .. MaxLosses
      BY <1>0, <1>00, <1>6, <2>2 DEF BuildTargetIndex, Retried
    <3>2. Use.file \in DOMAIN Symbols
      BY <1>6, UseTyped DEF BuildTargetIndex, UseType
    <3>3. /\ \E there \in BOOLEAN :
               target_syms' = [f \in DOMAIN target_syms \cup {Use.file} |->
                                 IF f = Use.file THEN there ELSE target_syms[f]]
          /\ UNCHANGED <<progress, collected, modules, module_used>>
      BY <1>6, <2>2 DEF BuildTargetIndex, Retried
    <3>4. DOMAIN target_syms' \subseteq DOMAIN Symbols /\ \A f \in DOMAIN target_syms' : target_syms'[f] \in BOOLEAN
      BY <3>2, <3>3 DEF TypeOK
    <3>5. QED
      BY <3>1, <3>3, <3>4 DEF TypeOK, WorkTyped, Running
  <2>3. QED
    BY <2>1, <2>2
<1>7. CASE Classify
  <2>1. module_used' \in BOOLEAN /\ uses' = Tail(uses) /\ uses # <<>>
    BY <1>7 DEF Classify, TypeOK
  <2>2. uses' \in Seq(UseType)
    BY <2>1, UseTyped
  <2>3. UNCHANGED <<phase, work, item, sites, collected, modules, target_syms, alive, losses>>
    BY <1>7 DEF Classify
  <2>4. QED
    BY <2>1, <2>2, <2>3 DEF TypeOK, WorkTyped, Running
<1>8. CASE StartRefs
  <2>1. CASE Python
    <3>1. work' # {} /\ work' \subseteq Files /\ sites' \subseteq Sites(Syntax[Min(work')])
      BY <1>8, <2>1 DEF StartRefs, TypeOK, WorkTyped, Running
    <3>2. QED
      BY <1>8, <2>1, <3>1 DEF StartRefs, TypeOK, WorkTyped, Running
  <2>2. CASE ~Python
    BY <1>8, <2>2 DEF StartRefs, TypeOK, WorkTyped, Running
  <2>3. QED
    BY <2>1, <2>2
<1>9. CASE SkipSite
  BY <1>9 DEF SkipSite, NextSite, TypeOK, WorkTyped, Running
<1>10. CASE ResolveSite
  <2>1. phase = "refs" /\ sites # {} /\ uses = <<>>
    BY <1>10 DEF ResolveSite
  <2>2. \A p \in Syntax[File][Token(Syntax[File], Site)].to : UseAt(p) \in UseType
    BY <2>1, SiteIn, UseAtTyped
  <2> DEFINE places == Syntax[File][Token(Syntax[File], Site)].to
  <2>a. places # {} => UseAt(CHOOSE p \in places : TRUE) \in UseType
    BY <2>2
  <2>b. \/ uses' = uses
        \/ uses' = IF places = {} THEN <<>> ELSE <<UseAt(CHOOSE p \in places : TRUE)>>
    BY <1>10 DEF ResolveSite
  <2> HIDE DEF places
  <2>c. uses \in Seq(UseType) /\ <<>> \in Seq(UseType)
    BY <2>1 DEF TypeOK
  <2>d. \A u \in UseType : <<u>> \in Seq(UseType)
    OBVIOUS
  <2>3. uses' \in Seq(UseType)
    BY <2>a, <2>b, <2>c, <2>d
  <2>4. alive' \in BOOLEAN /\ losses' \in 0 .. MaxLosses
    BY <1>0, <1>00, <1>10 DEF ResolveSite
  <2>5. sites' \subseteq sites /\ UNCHANGED <<phase, work, item, facts>>
    BY <1>10 DEF ResolveSite, NextSite
  <2>6. QED
    BY <2>1, <2>3, <2>4, <2>5 DEF TypeOK, WorkTyped, Running
<1>11. CASE NextFile
  <2>1. File \in Files
    BY <1>11, FileIn DEF NextFile
  <2>2. modules' \subseteq Files /\ module_used' \in BOOLEAN
    BY <1>11, <2>1 DEF NextFile, TypeOK
  <2>3. work' \subseteq work /\ UNCHANGED <<item, uses, collected, target_syms, alive, losses>>
    BY <1>11 DEF NextFile
  <2>4. CASE work' = {}
    BY <1>11, <2>2, <2>3, <2>4 DEF NextFile, TypeOK, WorkTyped, Running
  <2>5. CASE work' # {}
    <3>1. phase' = "refs" /\ sites' = Sites(Syntax[Min(work')])
      BY <1>11, <2>5 DEF NextFile
    <3>2. QED
      BY <1>11, <2>2, <2>3, <2>5, <3>1 DEF NextFile, TypeOK, WorkTyped, Running
  <2>6. QED
    BY <2>4, <2>5
<1>12. CASE Finish
  BY <1>12 DEF Finish, TypeOK, WorkTyped, Running
<1>13. CASE Hang
  BY <1>13 DEF Hang, TypeOK, WorkTyped, Running
<1>14. CASE UNCHANGED vars
  BY <1>14 DEF vars, TypeOK, WorkTyped, Running
<1>15. QED
  BY <1>1, <1>2, <1>3, <1>4, <1>5, <1>6, <1>7, <1>8, <1>9, <1>10, <1>11, <1>12, <1>13, <1>14 DEF Next

LEMMA TypedAlways == Spec => []TypeOK
BY TypedInit, TypedStep, PTL DEF Spec

(* The variables keep their types, and what is still to be visited is      *)
(* always a file of the project or a callable whose definition was         *)
(* collected (Extractor::run, collect_calls and collect_references).       *)
THEOREM TypeCorrect == Spec => []TypeOK
BY TypedAlways

-----------------------------------------------------------------------------
(* No edge dangles.                                                        *)

LEMMA DefinitionsAre ==
  /\ \A f \in collected : \A i \in Callables(f) : Id(f, i) \in Definitions
  /\ \A f \in modules : ModuleId(f) \in Definitions
<1>1. ASSUME NEW f \in collected, NEW i \in Callables(f) PROVE Id(f, i) \in Definitions
  <2> DEFINE Of(g) == {Id(g, j) : j \in Callables(g)}
  <2>1. Id(f, i) \in Of(f)
    OBVIOUS
  <2> HIDE DEF Of
  <2>2. Of(f) \in {Of(g) : g \in collected}
    OBVIOUS
  <2>3. Id(f, i) \in UNION {Of(g) : g \in collected}
    BY <2>1, <2>2
  <2>4. QED
    BY <2>3 DEF Of, Definitions
<1>2. ASSUME NEW f \in modules PROVE ModuleId(f) \in Definitions
  <2>1. ModuleId(f) \in {ModuleId(g) : g \in modules}
    OBVIOUS
  <2>2. QED
    BY <2>1, Zenon DEF Definitions
<1>3. QED
  BY <1>1, <1>2

(* In the reference pass a definition of the <module> node of the file is  *)
(* still to come, and comes if module_used is set.                         *)
ToCome(c) == phase \in {"refs", "hung"} /\ c = ModuleId(File)

UsesStart == \A k \in DOMAIN uses : uses[k].caller \in Definitions \/ ToCome(uses[k].caller)

Ends ==
  /\ \A e \in edges : /\ e.caller \in Definitions \/ (ToCome(e.caller) /\ module_used)
                      /\ "file" \in DOMAIN e.callee => e.callee \in Definitions
  /\ UsesStart

(* The callee of a use has a definition, if it is a symbol of the project. *)
LEMMA CalleeDefined ==
  ASSUME TypeOK, NEW u \in UseType, NEW c \in Callee(u), "file" \in DOMAIN c
  PROVE  c \in Definitions
<1>1. u.file \in DOMAIN Symbols /\ u.line \in Nat
  BY DEF UseType
<1>2. CASE Owned(u.file)
  <2>1. c \in LocalCallee(u)
    BY <1>2 DEF Callee
  <2>2. CASE DefAt(u.file, u.line) # {}
    <3>1. u.file \in collected /\ DefAt(u.file, u.line) = Innermost(u.file, Callables(u.file), u.line)
      BY <2>2 DEF DefAt
    <3>2. Callables(u.file) \in SUBSET DOMAIN Symbols[u.file]
      BY <1>1, SymbolsAre
    <3>3. DefAt(u.file, u.line) \subseteq Callables(u.file)
      BY <1>1, <3>1, <3>2, InnermostIn
    <3>4. c \in {Id(u.file, i) : i \in DefAt(u.file, u.line)}
      BY <2>1, <2>2 DEF LocalCallee
    <3>5. QED
      BY <3>1, <3>3, <3>4, DefinitionsAre
  <2>3. CASE DefAt(u.file, u.line) = {}
    BY <2>1, <2>3 DEF LocalCallee
  <2>4. QED
    BY <2>2, <2>3
<1>3. CASE ~Owned(u.file)
  <2>1. c = ExternalSymbol(u)
    BY <1>3 DEF Callee
  <2>2. DOMAIN ExternalSymbol(u) = {"base", "qual"}
    BY DEF ExternalSymbol
  <2>3. QED
    BY <2>1, <2>2
<1>4. QED
  BY <1>2, <1>3

(* Definitions stay, and so do the ends of the edges.                      *)
LEMMA EndsStay ==
  ASSUME Ends, collected \subseteq collected', modules \subseteq modules',
         UNCHANGED <<phase, module_used, edges>>, phase \in {"refs", "hung"} => UNCHANGED work,
         UsesStart'
  PROVE  Ends'
<1>1. Definitions \subseteq Definitions'
  BY DEF Definitions
<1>2. \A c : ToCome(c) => ToCome(c)'
  BY DEF ToCome, File
<1>3. QED
  BY <1>1, <1>2 DEF Ends

LEMMA EndsInit == Init => Ends
<1> SUFFICES ASSUME Init PROVE Ends
  OBVIOUS
<1>1. edges = {} /\ DOMAIN uses = {}
  BY DEF Init
<1>2. QED
  BY <1>1 DEF Ends, UsesStart

(* A hung extractor keeps its edges, and adds none.                        *)
LEMMA EndsHang ==
  ASSUME TypeOK, Ends, Hang
  PROVE  Ends'
<1>1. UNCHANGED <<edges, uses, collected, modules, module_used, work>> /\ phase' = "hung"
  BY DEF Hang, facts
<1>2. Definitions' = Definitions /\ File' = File
  BY <1>1 DEF Definitions, File
<1>3. \A c : ToCome(c) => ToCome(c)'
  BY <1>1, <1>2 DEF ToCome
<1>4. QED
  BY <1>1, <1>2, <1>3 DEF Ends, UsesStart

LEMMA EndsStep == TypeOK /\ Ends /\ [Next]_vars => Ends'
<1> SUFFICES ASSUME TypeOK, Ends, [Next]_vars PROVE Ends'
  OBVIOUS
<1>a. ASSUME UNCHANGED <<phase, work, uses, modules, module_used, edges>>, collected \subseteq collected'
      PROVE  Ends'
  <2>1. Definitions \subseteq Definitions'
    BY <1>a DEF Definitions
  <2>2. UsesStart'
    BY <1>a, <2>1 DEF Ends, UsesStart, ToCome, File
  <2>3. QED
    BY <1>a, <2>2, EndsStay
<1>b. ASSUME UNCHANGED <<edges, modules>>, collected \subseteq collected', uses' = <<>>, phase \notin {"refs", "hung"}
      PROVE  Ends'
  <2>1. Definitions \subseteq Definitions'
    BY <1>b DEF Definitions
  <2>2. DOMAIN uses' = {}
    BY <1>b
  <2>3. QED
    BY <1>b, <2>1, <2>2 DEF Ends, UsesStart, ToCome
<1>c. ASSUME UNCHANGED <<progress, facts, alive, losses>> PROVE Ends'
  BY <1>a, <1>c DEF progress, facts
<1>1. CASE Open
  <2>1. uses = <<>> /\ phase = "start"
    BY <1>1 DEF Open, TypeOK
  <2>2. QED
    BY <1>1, <1>b, <2>1 DEF Open, facts
<1>2. CASE Collect
  <2>1. uses = <<>> /\ phase = "defs"
    BY <1>2 DEF Collect, TypeOK
  <2>2. QED
    BY <1>2, <1>b, <1>c, <2>1 DEF Collect, Retried, progress, facts
<1>3. CASE StartCalls
  <2>1. uses = <<>> /\ phase = "defs"
    BY <1>3 DEF StartCalls, TypeOK
  <2>2. QED
    BY <1>3, <1>b, <2>1 DEF StartCalls, facts
<1>4. CASE Prepare
  <2>1. uses = <<>> /\ phase = "calls"
    BY <1>4 DEF Prepare
  <2>2. QED
    BY <1>4, <1>b, <1>c, <2>1 DEF Prepare, Retried, NextAnchor, progress, facts
<1>5. CASE Outgoing
  <2>1. phase = "calls" /\ work # {}
    BY <1>5 DEF Outgoing
  <2>2. \A a \in work : \E f \in collected : \E i \in Callables(f) : a = <<f, i>>
    BY <2>1 DEF TypeOK, WorkTyped
  <2>3. FirstAnchor(work) \in work
    BY <2>1, <2>2, FirstAnchorIn DEF TypeOK
  <2>4. PICK f \in collected : \E i \in Callables(f) : FirstAnchor(work) = <<f, i>>
    BY <2>2, <2>3
  <2>5. PICK i \in Callables(f) : FirstAnchor(work) = <<f, i>>
    BY <2>4
  <2>6. \A k \in DOMAIN CallsAt(FirstAnchor(work)) : CallsAt(FirstAnchor(work))[k].caller = Id(f, i)
    BY <2>5 DEF CallsAt
  <2>7. UNCHANGED <<phase, facts>> /\ uses' \in {uses, CallsAt(FirstAnchor(work))}
    BY <1>5 DEF Outgoing, NextAnchor
  <2>8. Definitions' = Definitions
    BY <2>7 DEF Definitions, facts
  <2>9. UsesStart'
    BY <2>1, <2>6, <2>7, <2>8, DefinitionsAre DEF Ends, UsesStart, ToCome
  <2>10. QED
    BY <2>1, <2>7, <2>9, EndsStay DEF facts
<1>6. CASE BuildTargetIndex
  BY <1>6, <1>a, <1>c DEF BuildTargetIndex, Retried, progress
<1>7. CASE Classify
  <2>1. uses # <<>> /\ Use \in UseType /\ Use = uses[1] /\ 1 \in DOMAIN uses
    BY <1>7, UseTyped DEF Classify
  <2>2. /\ uses' = Tail(uses) /\ edges' = edges \cup Edges(Use)
        /\ module_used' = (module_used \/ (ModuleCaller(Use) /\ Callee(Use) # {}))
        /\ UNCHANGED <<phase, work, collected, modules>>
    BY <1>7 DEF Classify
  <2>3. Definitions' = Definitions /\ \A c : ToCome(c)' = ToCome(c)
    BY <2>2 DEF Definitions, ToCome, File
  <2>4. UsesStart'
    BY <2>1, <2>2, <2>3, UseTyped DEF Ends, UsesStart
  <2>5. Use.caller \in Definitions \/ ToCome(Use.caller)
    BY <2>1 DEF Ends, UsesStart
  <2>6. ASSUME NEW e \in Edges(Use)
        PROVE  /\ e.caller \in Definitions' \/ (ToCome(e.caller)' /\ module_used')
               /\ "file" \in DOMAIN e.callee => e.callee \in Definitions'
    <3>1. PICK c \in Callee(Use) \ {Use.caller} : e = [caller |-> Use.caller, callee |-> c, kind |-> Use.kind]
      BY <2>6 DEF Edges
    <3>2. e.caller = Use.caller /\ e.callee = c /\ Callee(Use) # {}
      BY <3>1
    <3>3. "file" \in DOMAIN e.callee => e.callee \in Definitions'
      BY <2>1, <2>3, <3>1, <3>2, CalleeDefined
    <3>4. ToCome(Use.caller) => ModuleCaller(Use)
      BY DEF ToCome, ModuleCaller, ModuleId
    <3>5. QED
      BY <2>2, <2>3, <2>5, <3>2, <3>3, <3>4
  <2>7. QED
    BY <2>2, <2>3, <2>4, <2>6 DEF Ends
<1>8. CASE StartRefs
  BY <1>8, <1>b DEF StartRefs, facts
<1>9. CASE SkipSite
  BY <1>9, <1>a DEF SkipSite, NextSite, facts
<1>10. CASE ResolveSite
  <2>1. phase = "refs" /\ sites # {} /\ uses = <<>> /\ UNCHANGED <<phase, work, facts>>
    BY <1>10 DEF ResolveSite, NextSite
  <2> DEFINE places == Syntax[File][Token(Syntax[File], Site)].to
  <2>2. \/ uses' = <<>>
        \/ places # {} /\ uses' = <<UseAt(CHOOSE p \in places : TRUE)>>
    BY <1>10, <2>1 DEF ResolveSite
  <2>3. places \subseteq Place
    BY <2>1, SiteIn
  <2>4. Definitions' = Definitions /\ \A c : ToCome(c)' = ToCome(c)
    BY <2>1 DEF Definitions, ToCome, File, facts
  <2>5. \A p \in places : UseAt(p).caller \in Definitions \/ ToCome(UseAt(p).caller)
    BY <2>1, <2>3, UseAtTyped, DefinitionsAre DEF ToCome
  <2> HIDE DEF places
  <2>6. UsesStart'
    <3>1. CASE uses' = <<>>
      BY <3>1 DEF UsesStart
    <3>2. ASSUME NEW p \in places, uses' = <<UseAt(p)>> PROVE UsesStart'
      <4>1. DOMAIN uses' = {1} /\ uses'[1] = UseAt(p)
        BY <3>2
      <4>2. \A k \in DOMAIN uses' : uses'[k].caller \in Definitions \/ ToCome(uses'[k].caller)
        BY <2>5, <4>1
      <4>3. QED
        BY <2>4, <4>2 DEF UsesStart
    <3>3. QED
      BY <2>2, <3>1, <3>2
  <2>7. QED
    BY <2>1, <2>6, EndsStay DEF facts
<1>11. CASE NextFile
  <2>1. phase = "refs" /\ uses' = <<>> /\ UNCHANGED <<collected, edges>>
    BY <1>11 DEF NextFile
  <2>2. modules' = modules \cup (IF module_used THEN {File} ELSE {})
    BY <1>11 DEF NextFile
  <2>3. Definitions \subseteq Definitions' /\ DOMAIN uses' = {}
    BY <2>1, <2>2 DEF Definitions
  <2>4. module_used => ModuleId(File) \in Definitions'
    <3>1. (\A f \in modules : ModuleId(f) \in Definitions)'
      BY DefinitionsAre, PTL
    <3>2. QED
      BY <2>2, <3>1
  <2>5. QED
    BY <2>1, <2>3, <2>4 DEF Ends, UsesStart, ToCome
<1>12. CASE Finish
  <2>1. uses = <<>> /\ phase = "closing"
    BY <1>12 DEF Finish, TypeOK
  <2>2. QED
    BY <1>12, <1>b, <2>1 DEF Finish, facts
<1>13. CASE Hang
  BY <1>13, EndsHang
<1>14. CASE UNCHANGED vars
  BY <1>14, <1>a DEF vars, progress, facts
<1>15. QED
  BY <1>1, <1>2, <1>3, <1>4, <1>5, <1>6, <1>7, <1>8, <1>9, <1>10, <1>11, <1>12, <1>13, <1>14 DEF Next

(* Whatever the server loses, every edge starts at a definition the facts  *)
(* hold, and ends at one or outside the project: the <module> node of a    *)
(* file is defined when anything hangs on it (Extractor::into_facts,       *)
(* classify_and_emit and collect_references).                              *)
THEOREM NoEdgeDangles == Spec => []EndsAreDefined
<1>1. Init => TypeOK /\ Ends
  BY TypedInit, EndsInit
<1>2. TypeOK /\ Ends /\ [Next]_vars => (TypeOK /\ Ends)'
  BY TypedStep, EndsStep
<1>3. Ends => EndsAreDefined
  BY DEF Ends, ToCome, EndsAreDefined
<1>4. QED
  BY <1>1, <1>2, <1>3, PTL DEF Spec

-----------------------------------------------------------------------------
(* How a use is read.                                                      *)

(* Where names are apart, at most one definition is named on a line, and   *)
(* it is the innermost of all that are around the line.                    *)
LEMMA KnownOne ==
  ASSUME NamesApart, NEW f \in DOMAIN Symbols, NEW line,
         NEW i \in Known(f, line), NEW j \in Known(f, line)
  PROVE  i = j
<1>1. i \in Nesting(f) /\ j \in Nesting(f) /\ Symbols[f][i].sel = Symbols[f][j].sel
  BY DEF Known
<1>2. QED
  BY <1>1 DEF NamesApart

LEMMA InnermostNamed ==
  ASSUME NamesApart, NEW f \in DOMAIN Symbols, NEW line \in Nat,
         NEW among \in SUBSET Nesting(f), NEW i \in Known(f, line), i \in among
  PROVE  Innermost(f, among, line) = {i}
<1> DEFINE E == {k \in among : Symbols[f][k].lo <= line /\ line <= Symbols[f][k].hi}
           N == {k \in E : \A j \in E : Width(Symbols[f][k]) <= Width(Symbols[f][j])}
<1>1. Innermost(f, among, line) = IF E = {} THEN {} ELSE {Min(N)}
  BY DEF Innermost
<1>2. i \in Nesting(f) /\ Symbols[f][i].sel = line
  BY DEF Known
<1>3. i \in E
  BY <1>2 DEF NamesApart
<1>4. \A j \in E : Width(Symbols[f][j]) \in Int
  BY SymbolsAre DEF Width
<1>5. \A j \in E : j # i => Width(Symbols[f][i]) < Width(Symbols[f][j])
  BY <1>2 DEF NamesApart
<1>6. i \in N
  BY <1>3, <1>4, <1>5
<1>7. \A k \in N : k = i
  BY <1>3, <1>4, <1>5
<1>8. N = {i} /\ N \in SUBSET Nat
  BY <1>6, <1>7, SymbolsAre
<1>9. Min(N) = i
  BY <1>8, MinIs
<1>10. QED
  BY <1>1, <1>3, <1>9

(* The files whose definitions were asked for in vain.                     *)
Lost == {f \in Files \ collected : Symbols[f] # <<>> /\ (phase = "defs" => f \notin work)}

(* The symbols cached for a file are those of the file.                    *)
Visible == \A f \in DOMAIN target_syms : target_syms[f] <=> Symbols[f] # <<>>

(* A use that the code can read for what it is.                            *)
Readable(u) == ~Misread(u) /\ (Owned(u.file) => Lost = {})

(* The symbols of the file are cached if the use needs them.               *)
Cached(u) == ~Owned(u.file) \/ DefAt(u.file, u.line) = {} => u.file \in DOMAIN target_syms

LEMMA QualnameKnown ==
  ASSUME NamesApart, Visible, NEW f \in DOMAIN target_syms, f \in DOMAIN Symbols, NEW line \in Nat
  PROVE  /\ \A i \in Known(f, line) : QualnameAt(f, line) = {Quals(f)[i]}
         /\ Innermost(f, Nesting(f), line) = {} => QualnameAt(f, line) = {}
<1>1. ASSUME NEW i \in Known(f, line) PROVE QualnameAt(f, line) = {Quals(f)[i]}
  <2>1. i \in Nesting(f)
    BY DEF Known
  <2>2. Innermost(f, Nesting(f), line) = {i}
    BY <2>1, InnermostNamed
  <2>3. target_syms[f]
    BY <2>1, SymbolsAre DEF Visible
  <2>4. QED
    BY <2>2, <2>3 DEF QualnameAt
<1>2. QED
  BY <1>1 DEF QualnameAt

LEMMA ExternalRead ==
  ASSUME NamesApart, Visible, NEW u \in UseType, ~Owned(u.file), Readable(u), Cached(u)
  PROVE  /\ ExternalSymbol(u) = TrueSymbol(u)
         /\ ExternalEffect(u) = TrueEffect(u)
         /\ Callee(u) = TrueCallee(u)
<1>1. u.file \in DOMAIN Symbols /\ u.line \in Nat /\ u.file \in DOMAIN target_syms
  BY DEF UseType, Cached
<1>2. CASE Known(u.file, u.line) = {}
  <2>1. QualnameAt(u.file, u.line) = {}
    BY <1>1, <1>2, QualnameKnown DEF Readable, Misread
  <2>2. QED
    BY <1>2, <2>1 DEF ExternalSymbol, TrueSymbol, ExternalEffect, TrueEffect, Callee, TrueCallee, TrustedPure
<1>3. CASE Known(u.file, u.line) # {}
  <2> DEFINE i == CHOOSE k \in Known(u.file, u.line) : TRUE
  <2>1. i \in Known(u.file, u.line)
    BY <1>3
  <2>2. QualnameAt(u.file, u.line) = {Quals(u.file)[i]}
    BY <1>1, <2>1, QualnameKnown
  <2>3. ExternalSymbol(u) = TrueSymbol(u)
    BY <1>3, <2>2 DEF ExternalSymbol, TrueSymbol
  <2>4. ExternalEffect(u) = TrueEffect(u)
    BY <2>3 DEF ExternalEffect, TrueEffect
  <2>5. QED
    BY <2>3, <2>4 DEF Callee, TrueCallee, TrustedPure
<1>4. QED
  BY <1>2, <1>3

LEMMA DefinitionNamed ==
  ASSUME NEW f, NEW q, [file |-> f, qual |-> q] \in Definitions
  PROVE  f \in collected /\ \E i \in Callables(f) : Quals(f)[i] = q
<1> DEFINE d == [file |-> f, qual |-> q]
<1>1. \A g : d # ModuleId(g)
  <2>1. DOMAIN d = {"file", "qual"}
    OBVIOUS
  <2>2. \A g : DOMAIN ModuleId(g) = {"file", "module"}
    BY DEF ModuleId
  <2>3. QED
    BY <2>1, <2>2
<1>2. d \in UNION {{Id(g, i) : i \in Callables(g)} : g \in collected}
  BY <1>1, Zenon DEF Definitions
<1>3. \E g \in collected : \E i \in Callables(g) : d = Id(g, i)
  BY <1>2
<1>4. QED
  BY <1>3 DEF Id

LEMMA TrueLocal ==
  ASSUME NamesApart, NEW u \in UseType, Owned(u.file)
  PROVE  /\ u.file \notin Files \/ Known(u.file, u.line) = {} => TrueCallee(u) = {}
         /\ \A i \in Known(u.file, u.line) : u.file \in Files =>
              TrueCallee(u) = IF i \in Callables(u.file) THEN {Id(u.file, i)} ELSE InitOf(u.file, i)
<1> DEFINE K == {k \in Known(u.file, u.line) : u.file \in Files}
           At(i) == IF i \in Callables(u.file) THEN {Id(u.file, i)} ELSE InitOf(u.file, i)
<1>1. TrueCallee(u) = UNION {At(i) : i \in K}
  BY DEF TrueCallee
<1>2. ASSUME u.file \notin Files \/ Known(u.file, u.line) = {} PROVE TrueCallee(u) = {}
  <2>1. K = {}
    BY <1>2
  <2> HIDE DEF K, At
  <2>2. QED
    BY <1>1, <2>1
<1>3. ASSUME NEW i \in Known(u.file, u.line), u.file \in Files PROVE TrueCallee(u) = At(i)
  <2>1. u.file \in DOMAIN Symbols
    BY DEF UseType
  <2>2. \A k \in Known(u.file, u.line) : k = i
    BY <2>1, KnownOne
  <2>3. K = {i}
    BY <1>3, <2>2
  <2> HIDE DEF K, At
  <2>4. QED
    BY <1>1, <2>3
<1>4. QED
  BY <1>2, <1>3

LEMMA LocalRead ==
  ASSUME TypeOK, NamesApart, Visible, phase # "defs", NEW u \in UseType,
         Owned(u.file), Readable(u), Cached(u)
  PROVE  Callee(u) = TrueCallee(u)
<1> DEFINE f == u.file
           K == Known(u.file, u.line)
<1>1. f \in DOMAIN Symbols /\ u.line \in Nat
  BY DEF UseType
<1>2. f \in Files /\ K # {} => f \in collected
  <2>1. Lost = {}
    BY DEF Readable
  <2>2. K # {} => Symbols[f] # <<>>
    BY <1>1, SymbolsAre DEF Known
  <2>3. QED
    BY <2>1, <2>2 DEF Lost
<1>3. collected \subseteq Files
  BY DEF TypeOK
<1>4. Callee(u) = LocalCallee(u)
  BY DEF Callee
<1>5. ~Misread(u)
  BY DEF Readable
<1>6. Callables(f) \in SUBSET Nesting(f)
  BY <1>1, SymbolsAre
<1>7. ASSUME DefAt(f, u.line) = {}, NEW i \in K
      PROVE  LocalCallee(u) = {[file |-> f, qual |-> Append(Quals(f)[i], "__init__")]} \cap Definitions
  <2>1. QualnameAt(f, u.line) = {Quals(f)[i]}
    BY <1>1, <1>7, QualnameKnown DEF Cached
  <2>2. QED
    BY <1>7, <2>1 DEF LocalCallee
<1>8. CASE f \notin Files /\ K # {}
  <2>1. DefAt(f, u.line) = {}
    BY <1>3, <1>8 DEF DefAt
  <2>2. PICK i \in K : TRUE
    BY <1>8
  <2>3. LocalCallee(u) = {[file |-> f, qual |-> Append(Quals(f)[i], "__init__")]} \cap Definitions
    BY <1>7, <2>1
  <2>4. LocalCallee(u) = {}
    BY <1>3, <1>8, <2>3, DefinitionNamed
  <2>5. QED
    BY <1>4, <1>8, <2>4, TrueLocal
<1>9. CASE K = {}
  <2>1. Innermost(f, Nesting(f), u.line) = {} /\ Around(f, u.line) = {}
    BY <1>5, <1>9 DEF Misread
  <2>2. DefAt(f, u.line) = {}
    BY <2>1 DEF DefAt, Around
  <2>3. QualnameAt(f, u.line) = {}
    BY <1>1, <2>1, <2>2, QualnameKnown DEF Cached
  <2>4. LocalCallee(u) = {}
    BY <2>2, <2>3 DEF LocalCallee
  <2>5. QED
    BY <1>4, <1>9, <2>4, TrueLocal
<1>10. ASSUME f \in Files, NEW i \in K, i \in Callables(f) PROVE Callee(u) = TrueCallee(u)
  <2>1. Innermost(f, Callables(f), u.line) = {i}
    BY <1>1, <1>6, <1>10, InnermostNamed
  <2>2. DefAt(f, u.line) = {i}
    BY <1>2, <1>10, <2>1 DEF DefAt
  <2>3. LocalCallee(u) = {Id(f, i)}
    BY <2>2 DEF LocalCallee
  <2>4. TrueCallee(u) = {Id(f, i)}
    BY <1>10, TrueLocal
  <2>5. QED
    BY <1>4, <2>3, <2>4
<1>11. ASSUME f \in Files, NEW i \in K, i \notin Callables(f) PROVE Callee(u) = TrueCallee(u)
  <2> DEFINE q == Append(Quals(f)[i], "__init__")
             x == [file |-> f, qual |-> q]
  <2>1. K \cap Callables(f) = {}
    BY <1>1, <1>11, KnownOne
  <2>2. Around(f, u.line) = {}
    BY <1>5, <2>1 DEF Misread
  <2>3. DefAt(f, u.line) = {}
    BY <2>2 DEF DefAt, Around
  <2>4. LocalCallee(u) = {x} \cap Definitions
    BY <1>7, <1>11, <2>3
  <2>5. TrueCallee(u) = InitOf(f, i)
    BY <1>11, TrueLocal
  <2>6. InitOf(f, i) = {Id(f, k) : k \in {c \in Callables(f) : Quals(f)[c] = q}}
    BY DEF InitOf
  <2>7. \A c \in Callables(f) : Quals(f)[c] = q => Id(f, c) = x
    BY DEF Id
  <2> HIDE DEF q
  <2>8. CASE \E c \in Callables(f) : Quals(f)[c] = q
    <3>1. PICK c \in Callables(f) : Quals(f)[c] = q
      BY <2>8
    <3>2. Id(f, c) \in Definitions
      BY <1>2, <1>11, DefinitionsAre
    <3>3. x \in Definitions
      BY <2>7, <3>1, <3>2
    <3>4. InitOf(f, i) = {x}
      BY <2>6, <2>7, <3>1
    <3>5. QED
      BY <1>4, <2>4, <2>5, <3>3, <3>4
  <2>9. CASE ~\E c \in Callables(f) : Quals(f)[c] = q
    <3>1. x \notin Definitions
      BY <2>9, DefinitionNamed
    <3>2. InitOf(f, i) = {}
      BY <2>6, <2>9
    <3>3. QED
      BY <1>4, <2>4, <2>5, <3>1, <3>2
  <2>10. QED
    BY <2>8, <2>9
<1>12. QED
  BY <1>8, <1>9, <1>10, <1>11

(* A use the code can read for what it is has the callee it should have.   *)
LEMMA RightlyRead ==
  ASSUME TypeOK, NamesApart, Visible, phase # "defs", NEW u \in UseType, Readable(u), Cached(u)
  PROVE  Edges(u) = TrueEdges(u)
BY ExternalRead, LocalRead DEF Edges, TrueEdges

-----------------------------------------------------------------------------
(* What was lost.  Every file whose definitions were lost took a failed    *)
(* request; a server is clean as long as no other request failed.          *)

Early ==
  /\ phase \in {"start", "defs"} => edges = {} /\ DOMAIN roots = {} /\ DOMAIN target_syms = {}
  /\ phase = "start" => collected = {} /\ losses = 0
  /\ phase = "defs" => collected \cap work = {}
  /\ item => phase \in {"calls", "hung"} /\ work # {} /\ uses = <<>>
  /\ Running /\ losses = 0 => alive

Counted == Running /\ alive => Cardinality(Lost) <= losses

Clean == Running /\ alive /\ losses = Cardinality(Lost)

(* What a request does to the server.                                      *)
LEMMA ServerMoves ==
  ASSUME TypeOK, [Next]_vars, Running, Running'
  PROVE  /\ alive' => alive
         /\ losses' \in {losses, losses + 1}
         /\ losses' = losses => alive' = alive
<1> DEFINE Moves == /\ alive' => alive
                    /\ losses' \in {losses, losses + 1}
                    /\ losses' = losses => alive' = alive
<1>0. alive \in BOOLEAN /\ alive' \in BOOLEAN /\ losses \in Nat
  BY TypedStep, LossesAssumption DEF TypeOK
<1>a. ASSUME alive' = alive /\ losses' = losses PROVE Moves
  BY <1>0, <1>a
<1>b. ASSUME NEW n, NEW has, GivenUp(n, has) PROVE Moves
  <2>1. \/ alive' = alive /\ losses' = losses
        \/ alive /\ losses' = losses + 1
    BY <1>b DEF GivenUp
  <2>2. QED
    BY <1>0, <1>a, <2>1
<1>c. ASSUME NEW has, Answered(has) PROVE Moves
  BY <1>a, <1>c DEF Answered
<1>d. ASSUME NEW n, Retried(n) PROVE Moves
  BY <1>a, <1>d DEF Retried
<1> SUFFICES Moves
  OBVIOUS
<1> HIDE DEF Moves
<1>1. CASE Open
  BY <1>1 DEF Open, Running
<1>2. CASE Collect
  BY <1>2, <1>b, <1>c, <1>d DEF Collect
<1>3. CASE Prepare
  BY <1>3, <1>b, <1>c, <1>d DEF Prepare
<1>4. CASE Outgoing
  BY <1>4, <1>b, <1>c DEF Outgoing
<1>5. CASE BuildTargetIndex
  BY <1>5, <1>b, <1>c, <1>d DEF BuildTargetIndex
<1>6. CASE ResolveSite
  BY <1>6, <1>b, <1>c DEF ResolveSite
<1>7. CASE Finish \/ Hang
  BY <1>7 DEF Finish, Hang, Running
<1>8. CASE StartCalls \/ Classify \/ StartRefs \/ SkipSite \/ NextFile \/ UNCHANGED vars
  <2>1. alive' = alive /\ losses' = losses
    BY <1>8 DEF StartCalls, Classify, StartRefs, SkipSite, NextFile, NoRequest, vars
  <2>2. QED
    BY <1>a, <2>1
<1>9. QED
  BY <1>1, <1>2, <1>3, <1>4, <1>5, <1>6, <1>7, <1>8 DEF Next

LEMMA EarlyInit == Init => Early
<1> SUFFICES ASSUME Init PROVE Early
  OBVIOUS
<1>1. DOMAIN roots = {} /\ DOMAIN target_syms = {}
  BY DEF Init
<1>2. QED
  BY <1>1 DEF Init, Early, Running

LEMMA EarlyStep == TypeOK /\ Early /\ [Next]_vars => Early'
<1> SUFFICES ASSUME TypeOK, Early, [Next]_vars PROVE Early'
  OBVIOUS
<1>0. Running' /\ losses' = 0 => alive'
  <2>1. CASE Running
    BY <2>1, ServerMoves DEF Early, TypeOK
  <2>2. CASE ~Running /\ Running'
    <3>1. CASE Open
      BY <2>2, <3>1 DEF Open, Answered, GivenUp, Running, Early
    <3>2. CASE ~Open
      BY <2>2, <3>2 DEF Next, Collect, StartCalls, Prepare, Outgoing, BuildTargetIndex, Classify,
           StartRefs, SkipSite, ResolveSite, NextFile, Finish, Hang, Running, vars, progress, TypeOK
    <3>3. QED
      BY <3>1, <3>2
  <2>3. QED
    BY <2>1, <2>2
<1> USE DEF progress, facts
<1>a. ASSUME UNCHANGED <<progress, facts>>, losses' = losses PROVE Early'
  BY <1>0, <1>a DEF Early
<1>b. ASSUME phase' \in {"calls", "refs", "closing"}, item' = FALSE PROVE Early'
  BY <1>0, <1>b DEF Early
<1>1. CASE Open
  <2>1. item' = FALSE
    BY <1>1 DEF Open, Early, TypeOK
  <2>2. QED
    BY <1>0, <1>1, <2>1 DEF Open, Early
<1>2. CASE Collect
  <2>1. CASE UNCHANGED <<progress, facts>> /\ losses' = losses
    BY <2>1, <1>a
  <2>2. CASE ~(UNCHANGED <<progress, facts>> /\ losses' = losses)
    <3>1. /\ phase = "defs" /\ collected' \in {collected, collected \cup {Min(work)}}
          /\ work' = work \ {Min(work)} /\ UNCHANGED <<phase, item, edges, roots, target_syms>>
      BY <1>2, <2>2 DEF Collect, Retried
    <3>2. QED
      BY <1>0, <3>1 DEF Early
  <2>3. QED
    BY <2>1, <2>2
<1>3. CASE StartCalls
  <2>1. item' = FALSE
    BY <1>3 DEF StartCalls, Early, TypeOK
  <2>2. QED
    BY <1>3, <1>b, <2>1 DEF StartCalls
<1>4. CASE Prepare
  <2>1. CASE item' = FALSE
    BY <1>4, <1>a, <1>b, <2>1 DEF Prepare, NextAnchor, Retried
  <2>2. CASE item' # FALSE
    BY <1>0, <1>4, <1>a, <2>2 DEF Prepare, NextAnchor, Retried, Early
  <2>3. QED
    BY <2>1, <2>2
<1>5. CASE Outgoing
  BY <1>5, <1>b DEF Outgoing, NextAnchor
<1>6. CASE BuildTargetIndex
  <2>1. phase \in {"calls", "refs"} /\ item = FALSE
    BY <1>6 DEF BuildTargetIndex, TypeOK, Early
  <2>2. QED
    BY <1>6, <1>b, <2>1 DEF BuildTargetIndex, Retried
<1>7. CASE Classify
  <2>1. phase \in {"calls", "refs"} /\ item = FALSE
    BY <1>7 DEF Classify, TypeOK, Early
  <2>2. QED
    BY <1>7, <1>b, <2>1 DEF Classify
<1>8. CASE StartRefs
  <2>1. item' = FALSE
    BY <1>8 DEF StartRefs, Early, TypeOK
  <2>2. QED
    BY <1>8, <1>b, <2>1 DEF StartRefs
<1>9. CASE SkipSite \/ ResolveSite \/ NextFile
  <2>1. item' = FALSE
    BY <1>9 DEF SkipSite, ResolveSite, NextFile, NextSite, Early, TypeOK
  <2>2. QED
    BY <1>9, <1>b, <2>1 DEF SkipSite, ResolveSite, NextFile, NextSite
<1>10. CASE Finish
  <2>1. item' = FALSE
    BY <1>10 DEF Finish, Early, TypeOK
  <2>2. QED
    BY <1>10, <2>1 DEF Finish, Early, Running
<1>11. CASE Hang
  BY <1>11 DEF Hang, Early, Running
<1>12. CASE UNCHANGED vars
  BY <1>12, <1>a DEF vars
<1>13. QED
  BY <1>1, <1>2, <1>3, <1>4, <1>5, <1>6, <1>7, <1>8, <1>9, <1>10, <1>11, <1>12 DEF Next

(* A file is lost when the request for its definitions fails; after that   *)
(* pass nothing more is lost, and nothing is found again.                  *)
LEMMA LostMoves ==
  ASSUME TypeOK, Early, [Next]_vars, Running, Running'
  PROVE  \/ Lost' = Lost
         \/ \E f \in Files \ Lost : /\ phase = "defs" /\ Lost' = Lost \cup {f}
                                    /\ alive => losses' = losses + 1
<1>a. ASSUME UNCHANGED <<phase, work, collected>> PROVE Lost' = Lost
  BY <1>a DEF Lost
<1>b. ASSUME UNCHANGED collected, phase # "defs", phase' # "defs" PROVE Lost' = Lost
  BY <1>b DEF Lost
<1> USE DEF progress, facts
<1>1. CASE Open
  BY <1>1 DEF Open, Running
<1>2. CASE Collect
  <2> DEFINE f == Min(work)
             has == Symbols[f] # <<>>
  <2>1. phase = "defs" /\ work # {} /\ work \subseteq Files
    BY <1>2 DEF Collect, TypeOK, WorkTyped
  <2>2. f \in work /\ f \in Files
    BY <2>1, FilesAre, MinIs
  <2>3. CASE Retried(4)
    BY <1>a, <2>3 DEF Retried
  <2>4. CASE /\ Answered(has) /\ collected' = collected \cup {f}
             /\ work' = work \ {f} /\ phase' = phase
    BY <2>1, <2>2, <2>4 DEF Lost
  <2>5. CASE GivenUp(4, has) /\ UNCHANGED <<phase, collected>> /\ work' = work \ {f}
    <3>1. f \notin Lost /\ f \notin collected
      BY <2>1, <2>2 DEF Lost, Early
    <3>2. CASE has
      <4>1. Lost' = Lost \cup {f}
        BY <2>1, <2>2, <2>5, <3>1, <3>2 DEF Lost
      <4>2. alive => losses' = losses + 1
        BY <2>5, <3>2 DEF GivenUp
      <4>3. QED
        BY <2>1, <2>2, <3>1, <4>1, <4>2
    <3>3. CASE ~has
      <4>1. Lost' = Lost
        BY <2>1, <2>2, <2>5, <3>1, <3>3 DEF Lost
      <4>2. QED
        BY <4>1
    <3>4. QED
      BY <3>2, <3>3
  <2>6. QED
    BY <1>2, <2>3, <2>4, <2>5 DEF Collect
<1>3. CASE StartCalls
  BY <1>3 DEF StartCalls, Lost
<1>4. CASE Prepare \/ Outgoing \/ StartRefs \/ SkipSite \/ ResolveSite \/ NextFile
  <2>1. UNCHANGED collected /\ phase # "defs" /\ phase' # "defs"
    BY <1>4 DEF Prepare, Outgoing, StartRefs, SkipSite, ResolveSite, NextFile, Retried, NextAnchor, NextSite
  <2>2. QED
    BY <1>b, <2>1
<1>5. CASE BuildTargetIndex \/ Classify
  <2>1. UNCHANGED <<phase, work, collected>>
    BY <1>5 DEF BuildTargetIndex, Classify, Retried
  <2>2. QED
    BY <1>a, <2>1
<1>6. CASE Finish \/ Hang
  BY <1>6 DEF Finish, Hang, Running
<1>7. CASE UNCHANGED vars
  BY <1>7, <1>a DEF vars
<1>8. QED
  BY <1>1, <1>2, <1>3, <1>4, <1>5, <1>6, <1>7 DEF Next

LEMMA LostFinite ==
  /\ IsFiniteSet(Lost) /\ Cardinality(Lost) \in Nat
  /\ Cardinality(Lost) = 0 <=> Lost = {}
  /\ \A f \in Files \ Lost : Cardinality(Lost \cup {f}) = Cardinality(Lost) + 1
<1>1. IsFiniteSet(Lost)
  BY FilesAre, FS_Subset DEF Lost
<1>2. QED
  BY <1>1, FS_CardinalityType, FS_EmptySet, FS_AddElement

LEMMA CountedInit == Init => Counted
BY DEF Init, Counted, Running

LEMMA CountedStep == TypeOK /\ Early /\ Counted /\ [Next]_vars => Counted'
<1> SUFFICES ASSUME TypeOK, Early, Counted, [Next]_vars, Running', alive'
             PROVE  Cardinality(Lost)' <= losses'
  BY DEF Counted
<1>1. losses \in Nat /\ losses' \in Nat /\ TypeOK'
  BY LossesAssumption, TypedStep DEF TypeOK
<1>2. CASE Running
  <2>1. alive /\ losses' \in {losses, losses + 1} /\ Cardinality(Lost) <= losses
    BY <1>2, ServerMoves DEF Counted
  <2>2. CASE Lost' = Lost
    <3>1. Cardinality(Lost)' = Cardinality(Lost)
      BY <2>2
    <3>2. QED
      BY <1>1, <2>1, <3>1, LostFinite
  <2>3. ASSUME NEW f \in Files \ Lost, Lost' = Lost \cup {f}, losses' = losses + 1
        PROVE  Cardinality(Lost)' <= losses'
    <3>1. Cardinality(Lost)' = Cardinality(Lost) + 1
      BY <2>3, LostFinite
    <3>2. QED
      BY <1>1, <2>1, <2>3, <3>1, LostFinite
  <2>4. QED
    BY <1>2, <2>1, <2>2, <2>3, LostMoves
<1>3. CASE ~Running
  <2>1. Open
    BY <1>3 DEF Next, Collect, StartCalls, Prepare, Outgoing, BuildTargetIndex, Classify,
         StartRefs, SkipSite, ResolveSite, NextFile, Finish, Hang, Running, vars, progress, TypeOK
  <2>2. phase' = "defs" /\ work' = Files /\ collected' = collected
    BY <1>3, <2>1 DEF Open, Running, facts
  <2>3. Lost' = {}
    BY <2>2 DEF Lost
  <2>4. Cardinality(Lost)' = 0
    BY <2>3, FS_EmptySet
  <2>5. QED
    BY <1>1, <2>4
<1>4. QED
  BY <1>2, <1>3

(* Who is clean now has always been.                                       *)
LEMMA CleanBefore ==
  ASSUME TypeOK, Early, Counted, [Next]_vars, Running, Clean'
  PROVE  /\ Clean
         /\ Lost' = {} => Lost = {}
         /\ phase # "defs" => losses' = losses
<1>1. losses \in Nat /\ losses' \in Nat /\ alive' \in BOOLEAN /\ alive \in BOOLEAN
  BY LossesAssumption, TypedStep DEF TypeOK
<1>2. Running' /\ alive' /\ losses' = Cardinality(Lost)'
  BY DEF Clean
<1>3. alive /\ losses' \in {losses, losses + 1} /\ Cardinality(Lost) <= losses
  BY <1>2, ServerMoves DEF Counted
<1>4. CASE Lost' = Lost
  <2>1. Cardinality(Lost)' = Cardinality(Lost)
    BY <1>4
  <2>2. losses = Cardinality(Lost) /\ losses' = losses
    BY <1>1, <1>2, <1>3, <2>1, LostFinite
  <2>3. QED
    BY <1>3, <1>4, <2>2 DEF Clean
<1>5. ASSUME NEW f \in Files \ Lost, Lost' = Lost \cup {f}, losses' = losses + 1
      PROVE  Clean /\ Lost' # {}
  <2>1. Cardinality(Lost)' = Cardinality(Lost) + 1
    BY <1>5, LostFinite
  <2>2. Cardinality(Lost) \in Nat /\ losses + 1 = Cardinality(Lost) + 1
    BY <1>2, <1>5, <2>1, LostFinite
  <2>3. losses = Cardinality(Lost)
    BY <1>1, <2>2
  <2>4. QED
    BY <1>3, <1>5, <2>3 DEF Clean
<1>6. QED
  BY <1>2, <1>3, <1>4, <1>5, LostMoves

-----------------------------------------------------------------------------
(* What a clean run has found.                                             *)

Waiting(u) == \E k \in DOMAIN uses : uses[k] = u

(* What the use stands for is among the facts, if the code can read it.    *)
UseDone(u) ==
  Readable(u) => /\ TrueEdges(u) \subseteq edges
                 /\ TrueEffect(u) # {} => TrueSymbol(u) \in DOMAIN roots

Seen(u) == UseDone(u) \/ Waiting(u)

(* Every call of a callable that has been visited was seen.                *)
SeenCalls ==
  phase \in {"calls", "refs", "closing"} =>
    \A f \in collected : \A i \in Callables(f) :
      ~(phase = "calls" /\ <<f, i>> \in work) =>
        \A k \in DOMAIN CallsAt(<<f, i>>) : Seen(CallsAt(<<f, i>>)[k])

(* Who uses the name at a site, and what is left to the call pass, as the  *)
(* definitions that were collected have it.                                *)
CallerAt(f, n) ==
  IF DefAt(f, Syntax[f][n].line) = {} THEN ModuleId(f)
  ELSE Id(f, CHOOSE i \in DefAt(f, Syntax[f][n].line) : TRUE)

SiteUse(f, n, place) ==
  [caller |-> CallerAt(f, n), kind |-> "reference", file |-> place.file, line |-> place.line]

LeftAt(f, n) == IsCallee(Syntax[f], n) /\ DefAt(f, Syntax[f][n].line) # {}

Passed(f, n) == phase = "closing" \/ f \notin work \/ (f = File /\ n \notin sites)

PlacesOf(f, n) == Syntax[f][Token(Syntax[f], n)].to

(* Every name at a site that has been visited was seen.                    *)
SeenRefs ==
  Python /\ phase \in {"refs", "closing"} =>
    \A f \in Files : \A n \in Sites(Syntax[f]) :
      Passed(f, n) /\ ~LeftAt(f, n) => \A p \in PlacesOf(f, n) : Seen(SiteUse(f, n, p))

(* When nothing was lost, nothing is among the facts that no use of the    *)
(* project accounts for, nor any that is overlooked.                       *)
ReadUses == ProjectUses \ Overlooked

EdgeAccounted(e) ==
  \E u \in ReadUses : IF Misread(u) THEN u.caller = e.caller ELSE e \in TrueEdges(u)

RootAccounted(s) ==
  \E u \in ReadUses :
    \/ TrueEffect(u) # {} /\ TrueSymbol(u) = s
    \/ Misread(u) /\ HasPackage(u.file) /\ s.base = PackageOf(u.file)

Accounted ==
  Lost = {} => /\ \A e \in edges : EdgeAccounted(e)
               /\ \A s \in DOMAIN roots : RootAccounted(s)
               /\ \A k \in DOMAIN uses : uses[k] \in ReadUses

Found == Visible /\ SeenCalls /\ SeenRefs /\ Accounted

LEMMA UseDoneStays ==
  ASSUME edges \subseteq edges', DOMAIN roots \subseteq DOMAIN roots', Lost' = {} => Lost = {},
         NEW u, UseDone(u)
  PROVE  UseDone(u)'
<1>1. Readable(u)' => Readable(u)
  BY DEF Readable
<1>2. QED
  BY <1>1 DEF UseDone

(* A step that adds to the uses, or takes none away, leaves what was seen. *)
LEMMA SeenStays ==
  ASSUME edges \subseteq edges', DOMAIN roots \subseteq DOMAIN roots', Lost' = {} => Lost = {},
         uses = <<>> \/ uses' = uses, NEW u, Seen(u)
  PROVE  Seen(u)'
<1>1. Waiting(u) => Waiting(u)'
  BY DEF Waiting
<1>2. UseDone(u) => UseDone(u)'
  BY UseDoneStays
<1>3. QED
  BY <1>1, <1>2 DEF Seen

(* The uses of the project.                                                *)
LEMMA CallUsesAre ==
  ASSUME NEW u
  PROVE  u \in CallUses <=>
           \E f \in Files : \E i \in Callables(f) : \E k \in DOMAIN CallsAt(<<f, i>>) :
             u = CallsAt(<<f, i>>)[k]
<1> DEFINE All == UNION {Anchors(f) : f \in Files}
<1>1. CallUses = UNION {ToSet(CallsAt(a)) : a \in All}
  BY DEF CallUses
<1>2. \A a : a \in All <=> \E f \in Files : a \in Anchors(f)
  OBVIOUS
<1>3. \A a : a \in All <=> \E f \in Files : \E i \in Callables(f) : a = <<f, i>>
  BY <1>2 DEF Anchors
<1> HIDE DEF All
<1>4. u \in CallUses <=> \E a \in All : u \in ToSet(CallsAt(a))
  BY <1>1
<1>5. \A a \in All : u \in ToSet(CallsAt(a)) <=> \E k \in DOMAIN CallsAt(a) : u = CallsAt(a)[k]
  BY DEF ToSet
<1>6. u \in CallUses <=> \E a \in All : \E k \in DOMAIN CallsAt(a) : u = CallsAt(a)[k]
  BY <1>4, <1>5
<1>7. ASSUME u \in CallUses
      PROVE  \E f \in Files : \E i \in Callables(f) : \E k \in DOMAIN CallsAt(<<f, i>>) :
               u = CallsAt(<<f, i>>)[k]
  <2>1. PICK a \in All : \E k \in DOMAIN CallsAt(a) : u = CallsAt(a)[k]
    BY <1>6, <1>7
  <2>2. PICK f \in Files : \E i \in Callables(f) : a = <<f, i>>
    BY <1>3
  <2>3. QED
    BY <2>1, <2>2
<1>8. ASSUME NEW f \in Files, NEW i \in Callables(f), NEW k \in DOMAIN CallsAt(<<f, i>>),
             u = CallsAt(<<f, i>>)[k]
      PROVE  u \in CallUses
  <2>1. <<f, i>> \in All
    BY <1>3
  <2>2. QED
    BY <1>6, <1>8, <2>1
<1>9. QED
  BY <1>7, <1>8

(* The sites are the names used, without those no pass looks at.           *)
LEMMA SitesAre ==
  ASSUME NEW tree
  PROVE  Sites(tree) = NamesUsed(tree) \ Skipped(tree)
<1>1. ASSUME NEW n \in DOMAIN tree
      PROVE  IsSite(tree, n) /\ tree[n].up # 0 => ~TypedDefault(tree[tree[n].up].kind, tree[n].field)
  BY DEF IsSite, CalleePlace, ValuePlace, TypedDefault
<1>2. QED
  BY <1>1 DEF Sites, Reached, IsSite, NamesUsed, Skipped

(* The names in use at a site, and their uses.                             *)
RefSites(f) == RefNames(f) \ Skipped(Syntax[f])
SiteUses == UNION {RefUses(f, RefSites(f)) : f \in Files}

LEMMA RefSitesAre ==
  ASSUME NEW f
  PROVE  RefSites(f) = {n \in Sites(Syntax[f]) :
                          IsCallee(Syntax[f], n) => Around(f, Syntax[f][n].line) = {}}
BY SitesAre DEF RefSites, RefNames

LEMMA SiteUsesAre ==
  ASSUME NEW u
  PROVE  u \in SiteUses <=>
           \E f \in Files : \E n \in RefSites(f) : \E p \in PlacesOf(f, n) : u = RefUse(f, n, p)
<1> DEFINE Here(f, n) == {RefUse(f, n, p) : p \in Syntax[f][Token(Syntax[f], n)].to}
           In(f) == UNION {Here(f, n) : n \in RefSites(f)}
<1>1. SiteUses = UNION {In(f) : f \in Files}
  BY DEF SiteUses, RefUses
<1>2. \A f, n : u \in Here(f, n) <=> \E p \in PlacesOf(f, n) : u = RefUse(f, n, p)
  BY DEF PlacesOf
<1> HIDE DEF Here
<1>3. \A f : u \in In(f) <=> \E n \in RefSites(f) : u \in Here(f, n)
  OBVIOUS
<1> HIDE DEF In
<1>4. u \in SiteUses <=> \E f \in Files : u \in In(f)
  BY <1>1
<1>5. QED
  BY <1>2, <1>3, <1>4

(* What the extractor is to find: the calls, and the uses at the sites.    *)
LEMMA ReadUsesAre ==
  ASSUME NEW u
  PROVE  u \in ReadUses <=> u \in CallUses \/ (Python /\ u \in SiteUses)
<1> DEFINE Used(f) == RefUses(f, RefNames(f))
           AtSites(f) == RefUses(f, RefSites(f))
<1>1. \A f : AtSites(f) \subseteq Used(f)
  BY DEF RefUses, RefSites
<1> HIDE DEF Used, AtSites
<1>2. SiteUses = UNION {AtSites(f) : f \in Files}
  BY DEF SiteUses, AtSites
<1>3. SiteUses \subseteq UNION {Used(f) : f \in Files}
  BY <1>1, <1>2
<1>4. ProjectUses = CallUses \cup IF Python THEN UNION {Used(f) : f \in Files} ELSE {}
  BY DEF ProjectUses, Used
<1>5. Overlooked = ProjectUses \ (CallUses \cup SiteUses)
  BY DEF Overlooked, SiteUses, RefSites
<1> HIDE DEF Used
<1>6. QED
  BY <1>3, <1>4, <1>5 DEF ReadUses

(* When nothing was lost, what is around a site is what should be.         *)
LEMMA DefAtTrue ==
  ASSUME phase # "defs", Lost = {}, NEW f \in Files, NEW line \in Nat
  PROVE  DefAt(f, line) = Around(f, line)
<1>1. CASE f \in collected
  BY <1>1 DEF DefAt, Around
<1>2. CASE f \notin collected
  <2>1. Symbols[f] = <<>> /\ f \in DOMAIN Symbols
    BY <1>2, FilesAre DEF Lost
  <2>2. Callables(f) = {}
    BY <2>1, SymbolsAre
  <2>3. Around(f, line) = {}
    BY <2>1, <2>2, InnermostIn DEF Around
  <2>4. QED
    BY <1>2, <2>3 DEF DefAt
<1>3. QED
  BY <1>1, <1>2

LEMMA SitesTrue ==
  ASSUME phase # "defs", Lost = {}, Python, NEW f \in Files, NEW n \in Sites(Syntax[f])
  PROVE  /\ n \in RefSites(f) <=> ~LeftAt(f, n)
         /\ \A p : SiteUse(f, n, p) = RefUse(f, n, p)
<1>1. Syntax[f][n].line \in Nat
  BY ProjectAssumption DEF Sites
<1>2. DefAt(f, Syntax[f][n].line) = Around(f, Syntax[f][n].line)
  BY <1>1, DefAtTrue
<1>3. QED
  BY <1>2, RefSitesAre DEF LeftAt, SiteUse, CallerAt, RefUse

-----------------------------------------------------------------------------
(* A clean step keeps what was found, action by action.                    *)

(* A step that leaves the pass where it is and forgets no use.             *)
LEMMA SeenCallsStay ==
  ASSUME SeenCalls, UNCHANGED <<phase, work, collected>>, \A u : Seen(u) => Seen(u)'
  PROVE  SeenCalls'
BY DEF SeenCalls

LEMMA SeenRefsStay ==
  ASSUME SeenRefs, UNCHANGED <<phase, work, sites, collected>>, \A u : Seen(u) => Seen(u)'
  PROVE  SeenRefs'
BY DEF SeenRefs, Passed, File, LeftAt, DefAt, SiteUse, CallerAt

LEMMA FoundStays ==
  ASSUME Found, UNCHANGED <<phase, work, sites, uses, collected, edges, roots>>, Visible'
  PROVE  Found'
<1>1. Lost' = Lost
  BY DEF Lost
<1>2. \A u : Seen(u) => Seen(u)'
  BY <1>1, SeenStays
<1>3. Accounted'
  BY <1>1 DEF Found, Accounted
<1>4. QED
  BY <1>2, <1>3, SeenCallsStay, SeenRefsStay DEF Found

(* Where nothing is lost, a request that has an answer gets it.            *)
LEMMA NoneGivenUp ==
  ASSUME TypeOK, Clean, losses' = losses, NEW n, NEW has, GivenUp(n, has)
  PROVE  ~has
<1>1. losses \in Nat /\ losses' # losses + 1
  BY LossesAssumption DEF TypeOK
<1>2. alive
  BY DEF Clean
<1>3. QED
  BY <1>1, <1>2 DEF GivenUp

LEMMA FoundOutgoing ==
  ASSUME TypeOK, Early, Clean, Found, losses' = losses, Outgoing
  PROVE  Found'
<1>1. /\ phase = "calls" /\ work # {} /\ uses = <<>>
      /\ UNCHANGED <<phase, collected, edges, roots, target_syms>>
      /\ work' = work \ {FirstAnchor(work)}
  BY DEF Outgoing, NextAnchor, facts, Early
<1>2. uses' = CallsAt(FirstAnchor(work))
  BY NoneGivenUp DEF Outgoing
<1>3. \A a \in work : \E f \in collected : \E i \in Callables(f) : a = <<f, i>>
  BY <1>1 DEF TypeOK, WorkTyped
<1>4. collected \subseteq Files
  BY DEF TypeOK
<1>5. FirstAnchor(work) \in work
  BY <1>1, <1>3, <1>4, FirstAnchorIn
<1>6. PICK f \in collected : \E i \in Callables(f) : FirstAnchor(work) = <<f, i>>
  BY <1>3, <1>5
<1>7. PICK i \in Callables(f) : FirstAnchor(work) = <<f, i>>
  BY <1>6
<1>8. Lost' = Lost
  BY <1>1 DEF Lost
<1>9. \A u : Seen(u) => Seen(u)'
  BY <1>1, <1>8, SeenStays
<1>10. \A k \in DOMAIN CallsAt(<<f, i>>) : Seen(CallsAt(<<f, i>>)[k])'
  BY <1>2, <1>7 DEF Seen, Waiting
<1>11. SeenCalls'
  <2> SUFFICES ASSUME NEW g \in collected, NEW j \in Callables(g), <<g, j>> \notin work',
                      NEW k \in DOMAIN CallsAt(<<g, j>>)
               PROVE  Seen(CallsAt(<<g, j>>)[k])'
    BY <1>1 DEF SeenCalls
  <2>1. CASE <<g, j>> = <<f, i>>
    BY <1>10, <2>1
  <2>2. CASE <<g, j>> # <<f, i>>
    <3>1. <<g, j>> \notin work
      BY <1>1, <1>7, <2>2
    <3>2. Seen(CallsAt(<<g, j>>)[k])
      BY <1>1, <3>1 DEF Found, SeenCalls
    <3>3. QED
      BY <1>9, <3>2
  <2>3. QED
    BY <2>1, <2>2
<1>12. \A k \in DOMAIN uses' : uses'[k] \in ReadUses
  BY <1>2, <1>4, <1>7, CallUsesAre, ReadUsesAre
<1>13. Accounted'
  BY <1>1, <1>8, <1>12 DEF Found, Accounted
<1>14. QED
  BY <1>1, <1>11, <1>13 DEF Found, SeenRefs, Visible

LEMMA FoundClassify ==
  ASSUME NamesApart, TypeOK, Clean, Found, Classify
  PROVE  Found'
<1>1. /\ uses # <<>> /\ edges' = edges \cup Edges(Use) /\ roots' = WithRoot(Use)
      /\ uses' = Tail(uses) /\ UNCHANGED <<phase, work, sites, collected, target_syms>>
      /\ NeedsSymbols => Use.file \in DOMAIN target_syms
  BY DEF Classify
<1>2. Use \in UseType /\ phase # "defs" /\ Cached(Use)
  BY <1>1, UseTyped DEF TypeOK, Cached, NeedsSymbols
<1>3. Lost' = Lost
  BY <1>1 DEF Lost
<1>4. /\ DOMAIN roots' = DOMAIN roots \cup (IF Rooted(Use) THEN {ExternalSymbol(Use)} ELSE {})
  BY <1>1 DEF WithRoot
<1>5. Visible
  BY DEF Found
<1>6. PICK v : v = Use
  OBVIOUS
<1>7. UseDone(v)'
  <2> SUFFICES ASSUME Readable(v)
               PROVE  /\ TrueEdges(v) \subseteq edges'
                      /\ TrueEffect(v) # {} => TrueSymbol(v) \in DOMAIN roots'
    BY <1>3 DEF UseDone, Readable
  <2>1. TrueEdges(v) \subseteq edges'
    BY <1>1, <1>2, <1>5, <1>6, RightlyRead
  <2>2. ASSUME TrueEffect(v) # {} PROVE TrueSymbol(v) \in DOMAIN roots'
    <3>1. ~Owned(v.file)
      BY <2>2 DEF TrueEffect
    <3>2. ExternalSymbol(v) = TrueSymbol(v) /\ ExternalEffect(v) = TrueEffect(v)
      BY <1>2, <1>5, <1>6, <3>1, ExternalRead
    <3>3. Rooted(Use)
      BY <1>6, <2>2, <3>1, <3>2 DEF Rooted
    <3>4. QED
      BY <1>4, <1>6, <3>2, <3>3
  <2>3. QED
    BY <2>1, <2>2
<1>8. ASSUME NEW u, Seen(u) PROVE Seen(u)'
  <2>1. CASE UseDone(u)
    <3>1. UseDone(u)'
      BY <1>1, <1>3, <1>4, <2>1, UseDoneStays
    <3>2. QED
      BY <3>1 DEF Seen
  <2>2. ASSUME NEW k \in DOMAIN uses, uses[k] = u PROVE Seen(u)'
    <3>1. CASE k = 1
      <4>1. u = v
        BY <1>1, <1>6, <2>2, <3>1, UseTyped
      <4>2. QED
        BY <1>7, <4>1 DEF Seen
    <3>2. CASE k # 1
      <4>1. k - 1 \in DOMAIN Tail(uses) /\ Tail(uses)[k - 1] = u
        BY <1>1, <2>2, <3>2, UseTyped
      <4>2. QED
        BY <1>1, <4>1 DEF Seen, Waiting
    <3>3. QED
      BY <3>1, <3>2
  <2>3. QED
    BY <1>8, <2>1, <2>2 DEF Seen, Waiting
<1>9. Accounted'
  <2> SUFFICES ASSUME Lost = {}
               PROVE  /\ \A e \in edges' : EdgeAccounted(e)
                      /\ \A s \in DOMAIN roots' : RootAccounted(s)
                      /\ \A k \in DOMAIN uses' : uses'[k] \in ReadUses
    BY <1>3 DEF Accounted
  <2>1. /\ \A e \in edges : EdgeAccounted(e)
        /\ \A s \in DOMAIN roots : RootAccounted(s)
        /\ \A k \in DOMAIN uses : uses[k] \in ReadUses
    BY DEF Found, Accounted
  <2>2. v \in ReadUses
    BY <1>1, <1>6, <2>1, UseTyped
  <2>3. \A k \in DOMAIN uses' : uses'[k] \in ReadUses
    BY <1>1, <2>1, UseTyped
  <2>4. ASSUME NEW e \in Edges(v) PROVE EdgeAccounted(e)
    <3>1. CASE Misread(v)
      <4>1. e.caller = v.caller
        BY DEF Edges
      <4>2. QED
        BY <2>2, <3>1, <4>1 DEF EdgeAccounted
    <3>2. CASE ~Misread(v)
      <4>1. Readable(v)
        BY <3>2 DEF Readable
      <4>2. e \in TrueEdges(v)
        BY <1>2, <1>5, <1>6, <4>1, RightlyRead
      <4>3. QED
        BY <2>2, <3>2, <4>2 DEF EdgeAccounted
    <3>3. QED
      BY <3>1, <3>2
  <2>5. ASSUME Rooted(v) PROVE RootAccounted(ExternalSymbol(v))
    <3>1. ~Owned(v.file) /\ ExternalEffect(v) # {} /\ HasPackage(v.file)
      BY <2>5 DEF Rooted, ExternalEffect
    <3>2. CASE Misread(v)
      <4>1. ExternalSymbol(v).base = PackageOf(v.file)
        BY <3>1 DEF ExternalSymbol
      <4>2. QED
        BY <2>2, <3>1, <3>2, <4>1 DEF RootAccounted
    <3>3. CASE ~Misread(v)
      <4>1. Readable(v)
        BY <3>3 DEF Readable
      <4>2. ExternalSymbol(v) = TrueSymbol(v) /\ ExternalEffect(v) = TrueEffect(v)
        BY <1>2, <1>5, <1>6, <3>1, <4>1, ExternalRead
      <4>3. QED
        BY <2>2, <3>1, <4>2 DEF RootAccounted
    <3>4. QED
      BY <3>2, <3>3
  <2>6. QED
    BY <1>1, <1>4, <1>6, <2>1, <2>3, <2>4, <2>5
<1>10. QED
  BY <1>1, <1>8, <1>9, SeenCallsStay, SeenRefsStay DEF Found, Visible

LEMMA SiteUseHere ==
  /\ LeftAt(File, Site) <=> LeftToCalls
  /\ \A p : SiteUse(File, Site, p) = UseAt(p)
BY DEF LeftAt, LeftToCalls, SiteUse, CallerAt, UseAt, Enclosing, Node

(* Past a site, whatever it names was seen, or is left to the call pass.   *)
LEMMA FoundSite ==
  ASSUME TypeOK, Found, phase = "refs", sites # {}, uses = <<>>, NextSite,
         UNCHANGED <<collected, edges, roots, target_syms>>,
         LeftToCalls \/ \A v : (\E p \in PlacesOf(File, Site) : v = UseAt(p)) => Waiting(v)',
         Lost = {} => \A k \in DOMAIN uses' : uses'[k] \in ReadUses
  PROVE  Found'
<1>1. UNCHANGED <<phase, work>> /\ sites' = sites \ {Site}
  BY DEF NextSite
<1>2. Lost' = Lost
  BY <1>1 DEF Lost
<1>3. \A u : Seen(u) => Seen(u)'
  BY <1>2, SeenStays
<1>4. \A f, n : /\ LeftAt(f, n)' = LeftAt(f, n)
                /\ \A p : SiteUse(f, n, p)' = SiteUse(f, n, p)
                /\ Passed(f, n)' => Passed(f, n) \/ (f = File /\ n = Site)
  BY <1>1 DEF LeftAt, DefAt, SiteUse, CallerAt, Passed, File
<1>5. SeenRefs'
  <2> SUFFICES ASSUME NEW f \in Files, NEW n \in Sites(Syntax[f]), NEW p \in PlacesOf(f, n),
                      Passed(f, n)', ~LeftAt(f, n), Python
               PROVE  Seen(SiteUse(f, n, p))'
    BY <1>4 DEF SeenRefs
  <2>1. CASE Passed(f, n)
    <3>1. Seen(SiteUse(f, n, p))
      BY <2>1 DEF Found, SeenRefs
    <3>2. PICK v : v = SiteUse(f, n, p)
      OBVIOUS
    <3>3. Seen(v)'
      BY <1>3, <3>1, <3>2
    <3>4. QED
      BY <1>4, <3>2, <3>3
  <2>2. CASE f = File /\ n = Site
    <3>1. PICK v : v = SiteUse(f, n, p)
      OBVIOUS
    <3>2. v = UseAt(p) /\ ~LeftToCalls
      BY <2>2, <3>1, SiteUseHere
    <3>3. Seen(v)'
      BY <2>2, <3>2 DEF Seen
    <3>4. QED
      BY <1>4, <3>1, <3>3
  <2>3. QED
    BY <1>4, <2>1, <2>2
<1>6. Accounted'
  BY <1>2 DEF Found, Accounted
<1>7. QED
  BY <1>1, <1>3, <1>5, <1>6, SeenCallsStay DEF Found, Visible

LEMMA FoundResolve ==
  ASSUME TypeOK, Clean, Found, losses' = losses, ResolveSite
  PROVE  Found'
<1> DEFINE places == Syntax[File][Token(Syntax[File], Site)].to
<1>1. /\ phase = "refs" /\ sites # {} /\ uses = <<>> /\ ~LeftToCalls /\ NextSite
      /\ UNCHANGED <<collected, edges, roots, target_syms>>
  BY DEF ResolveSite, facts
<1>2. uses' = IF places = {} THEN <<>> ELSE <<UseAt(CHOOSE p \in places : TRUE)>>
  BY NoneGivenUp DEF ResolveSite
<1>3. File \in Files /\ Python /\ Token(Syntax[File], Site) \in DOMAIN Syntax[File]
  BY <1>1, FileIn, SiteIn
<1>4. \A p, q \in places : p = q
  BY <1>3, ProjectAssumption
<1>5. Site \in Sites(Syntax[File])
  BY <1>1, SiteIn DEF TypeOK, WorkTyped, File
<1>6. PlacesOf(File, Site) = places
  BY DEF PlacesOf
<1> HIDE DEF places
<1>7. ASSUME NEW v, NEW p \in places, v = UseAt(p) PROVE Waiting(v)' /\ uses' = <<v>>
  <2>1. uses' = <<v>>
    BY <1>2, <1>4, <1>7
  <2>2. 1 \in DOMAIN uses' /\ uses'[1] = v
    BY <2>1
  <2>3. QED
    BY <2>1, <2>2 DEF Waiting
<1>8. ASSUME Lost = {}, NEW k \in DOMAIN uses' PROVE uses'[k] \in ReadUses
  <2>1. PICK p \in places : TRUE
    BY <1>2, <1>8
  <2>2. PICK v : v = UseAt(p)
    OBVIOUS
  <2>3. uses' = <<v>>
    BY <1>7, <2>2
  <2>4. uses'[k] = v
    BY <1>8, <2>3
  <2>5. Site \in RefSites(File) /\ SiteUse(File, Site, p) = RefUse(File, Site, p)
    BY <1>1, <1>3, <1>5, <1>8, SitesTrue, SiteUseHere
  <2>6. v = RefUse(File, Site, p)
    BY <2>2, <2>5, SiteUseHere
  <2>7. v \in SiteUses
    BY <1>3, <1>6, <2>1, <2>5, <2>6, SiteUsesAre
  <2>8. QED
    BY <1>3, <2>4, <2>7, ReadUsesAre
<1>9. QED
  BY <1>1, <1>6, <1>7, <1>8, FoundSite

LEMMA FoundSkip ==
  ASSUME TypeOK, Found, SkipSite
  PROVE  Found'
<1>1. /\ phase = "refs" /\ sites # {} /\ uses = <<>> /\ LeftToCalls /\ NextSite /\ uses' = uses
      /\ UNCHANGED <<collected, edges, roots, target_syms>>
  BY DEF SkipSite, facts
<1>2. \A k \in DOMAIN uses' : uses'[k] \in ReadUses
  BY <1>1
<1>3. QED
  BY <1>1, <1>2, FoundSite

LEMMA FoundNextFile ==
  ASSUME TypeOK, Found, NextFile
  PROVE  Found'
<1>1. /\ phase = "refs" /\ work # {} /\ sites = {} /\ uses = <<>> /\ work' = work \ {File}
      /\ sites' = IF work \ {File} = {} THEN {} ELSE Sites(Syntax[Min(work \ {File})])
      /\ phase' = IF work \ {File} = {} THEN "closing" ELSE "refs"
      /\ UNCHANGED <<uses, collected, target_syms, edges, roots>>
  BY DEF NextFile
<1>2. Lost' = Lost
  BY <1>1 DEF Lost
<1>3. \A u : Seen(u) => Seen(u)'
  BY <1>2, <1>1, SeenStays
<1>4. \A f, n : /\ LeftAt(f, n)' = LeftAt(f, n)
                /\ \A p : SiteUse(f, n, p)' = SiteUse(f, n, p)
  BY <1>1 DEF LeftAt, DefAt, SiteUse, CallerAt
<1>5. ASSUME NEW f \in Files, NEW n \in Sites(Syntax[f]), Passed(f, n)' PROVE Passed(f, n)
  <2>1. CASE f \notin work \/ f = File
    BY <1>1, <2>1 DEF Passed
  <2>2. CASE f \in work /\ f # File
    <3>1. work' # {} /\ f \in work'
      BY <1>1, <2>2
    <3>2. phase' = "refs" /\ sites' = Sites(Syntax[File'])
      BY <1>1, <3>1 DEF File
    <3>3. f = File' /\ n \notin sites'
      BY <1>5, <3>1, <3>2 DEF Passed
    <3>4. QED
      BY <3>2, <3>3
  <2>3. QED
    BY <2>1, <2>2
<1>6. SeenRefs'
  <2> SUFFICES ASSUME NEW f \in Files, NEW n \in Sites(Syntax[f]), NEW p \in PlacesOf(f, n),
                      Passed(f, n)', ~LeftAt(f, n), Python
               PROVE  Seen(SiteUse(f, n, p))'
    BY <1>4 DEF SeenRefs
  <2>1. Seen(SiteUse(f, n, p))
    BY <1>1, <1>5 DEF Found, SeenRefs
  <2>2. PICK v : v = SiteUse(f, n, p)
    OBVIOUS
  <2>3. Seen(v)'
    BY <1>3, <2>1, <2>2
  <2>4. QED
    BY <1>4, <2>2, <2>3
<1>7. SeenCalls'
  BY <1>1, <1>3 DEF Found, SeenCalls
<1>8. Accounted'
  BY <1>1, <1>2 DEF Found, Accounted
<1>9. QED
  BY <1>1, <1>6, <1>7, <1>8 DEF Found, Visible

LEMMA FoundStartRefs ==
  ASSUME TypeOK, Found, StartRefs
  PROVE  Found'
<1>1. /\ phase = "calls" /\ work = {} /\ uses = <<>>
      /\ phase' = IF Python THEN "refs" ELSE "closing"
      /\ Python => work' = Files /\ sites' = Sites(Syntax[Min(Files)])
      /\ UNCHANGED <<uses, collected, target_syms, edges, roots>>
  BY DEF StartRefs, facts
<1>2. Lost' = Lost
  BY <1>1 DEF Lost
<1>3. \A u : Seen(u) => Seen(u)'
  BY <1>1, <1>2, SeenStays
<1>4. SeenCalls'
  BY <1>1, <1>3 DEF Found, SeenCalls
<1>5. SeenRefs'
  <2> SUFFICES ASSUME Python, NEW f \in Files, NEW n \in Sites(Syntax[f])
               PROVE  ~Passed(f, n)'
    BY DEF SeenRefs
  <2>1. phase' = "refs" /\ f \in work' /\ sites' = Sites(Syntax[File'])
    BY <1>1 DEF File
  <2>2. QED
    BY <2>1 DEF Passed
<1>6. Accounted'
  BY <1>1, <1>2 DEF Found, Accounted
<1>7. QED
  BY <1>1, <1>4, <1>5, <1>6 DEF Found, Visible

LEMMA FoundInDefs == TypeOK /\ Early /\ phase \in {"start", "defs"} => Found
<1> SUFFICES ASSUME TypeOK, Early, phase \in {"start", "defs"} PROVE Found
  OBVIOUS
<1>1. uses = <<>> /\ edges = {} /\ DOMAIN roots = {} /\ DOMAIN target_syms = {}
  BY DEF TypeOK, Early
<1>2. QED
  BY <1>1 DEF Found, Visible, SeenCalls, SeenRefs, Accounted

LEMMA FoundStartCalls ==
  ASSUME TypeOK, Early, StartCalls
  PROVE  Found'
<1>1. phase = "defs" /\ phase' = "calls" /\ UNCHANGED <<uses, facts>>
      /\ work' = UNION {Anchors(f) : f \in collected}
  BY DEF StartCalls
<1>2. uses' = <<>> /\ edges' = {} /\ DOMAIN roots' = {} /\ DOMAIN target_syms' = {} /\ collected' = collected
  BY <1>1 DEF TypeOK, Early, facts
<1>3. \A f \in collected : \A i \in Callables(f) : <<f, i>> \in work'
  BY <1>1 DEF Anchors
<1>4. SeenCalls'
  BY <1>1, <1>2, <1>3 DEF SeenCalls
<1>5. QED
  BY <1>1, <1>2, <1>4 DEF Found, Visible, SeenRefs, Accounted

LEMMA FoundIndex ==
  ASSUME TypeOK, Clean, Found, losses' = losses, BuildTargetIndex
  PROVE  Found'
<1> DEFINE has == Symbols[Use.file] # <<>>
           Cache(there) ==
             target_syms' = [f \in DOMAIN target_syms \cup {Use.file} |->
                               IF f = Use.file THEN there ELSE target_syms[f]]
<1>1. UNCHANGED <<phase, work, sites, uses, collected, edges, roots>>
  BY DEF BuildTargetIndex, Retried, progress, facts
<1>2. \/ Answered(has) /\ Cache(TRUE)
      \/ UNCHANGED target_syms
      \/ GivenUp(4, has) /\ Cache(FALSE)
  BY DEF BuildTargetIndex, Retried, facts
<1>3. Visible
  BY DEF Found
<1>4. CASE UNCHANGED target_syms
  BY <1>1, <1>3, <1>4, FoundStays DEF Visible
<1>5. CASE Answered(has) /\ Cache(TRUE)
  <2>1. has
    BY <1>5 DEF Answered
  <2>2. Visible'
    BY <1>3, <1>5, <2>1 DEF Visible
  <2>3. QED
    BY <1>1, <2>2, FoundStays
<1>6. CASE GivenUp(4, has) /\ Cache(FALSE)
  <2>1. ~has
    BY <1>6, NoneGivenUp
  <2>2. Visible'
    BY <1>3, <1>6, <2>1 DEF Visible
  <2>3. QED
    BY <1>1, <2>2, FoundStays
<1>7. QED
  BY <1>2, <1>4, <1>5, <1>6

LEMMA FoundPrepare ==
  ASSUME TypeOK, Clean, Found, losses' = losses, Prepare
  PROVE  Found'
<1>1. ~GivenUp(3, TRUE)
  BY NoneGivenUp
<1>2. UNCHANGED <<phase, work, sites, uses, facts>>
  BY <1>1 DEF Prepare, Retried, progress
<1>3. Visible'
  BY <1>2 DEF Found, Visible, facts
<1>4. QED
  BY <1>2, <1>3, FoundStays DEF facts

CleanFound == Clean => Found

LEMMA CleanFoundStep ==
  ASSUME NamesApart
  PROVE  TypeOK /\ Early /\ Counted /\ CleanFound /\ [Next]_vars => CleanFound'
<1> SUFFICES ASSUME TypeOK, Early, Counted, CleanFound, [Next]_vars, Clean' PROVE Found'
  BY DEF CleanFound
<1>1. TypeOK' /\ Early'
  BY TypedStep, EarlyStep
<1>2. CASE phase' \in {"start", "defs"}
  <2>1. (TypeOK /\ Early /\ phase \in {"start", "defs"} => Found)'
    BY FoundInDefs, PTL
  <2>2. QED
    BY <1>1, <1>2, <2>1
<1>3. CASE phase' \notin {"start", "defs"} /\ phase = "defs"
  <2>1. StartCalls
    BY <1>3 DEF Next, Open, Collect, Prepare, Outgoing, BuildTargetIndex, Classify, StartRefs,
         SkipSite, ResolveSite, NextFile, Finish, Hang, Retried, Clean, Running, vars, progress, TypeOK
  <2>2. QED
    BY <2>1, FoundStartCalls
<1>4. CASE phase' \notin {"start", "defs"} /\ phase # "defs"
  <2>1. Running' /\ phase' # "start" /\ phase' # "defs"
    BY <1>4 DEF Clean
  <2>2. Running
    BY <1>4, <2>1 DEF Next, Open, Collect, StartCalls, Prepare, Outgoing, BuildTargetIndex, Classify,
         StartRefs, SkipSite, ResolveSite, NextFile, Finish, Hang, Running, vars, progress, TypeOK
  <2>3. Clean /\ losses' = losses
    BY <1>4, <2>2, CleanBefore
  <2>4. Found
    BY <2>3 DEF CleanFound
  <2>5. CASE Open \/ Collect \/ StartCalls \/ Finish \/ Hang
    BY <1>4, <2>1, <2>2, <2>5 DEF Open, Collect, StartCalls, Finish, Hang, Running
  <2>6. CASE Prepare
    BY <2>3, <2>4, <2>6, FoundPrepare
  <2>7. CASE Outgoing
    BY <2>3, <2>4, <2>7, FoundOutgoing
  <2>8. CASE BuildTargetIndex
    BY <2>3, <2>4, <2>8, FoundIndex
  <2>9. CASE Classify
    BY <2>3, <2>4, <2>9, FoundClassify
  <2>10. CASE StartRefs
    BY <2>4, <2>10, FoundStartRefs
  <2>11. CASE SkipSite
    BY <2>4, <2>11, FoundSkip
  <2>12. CASE ResolveSite
    BY <2>3, <2>4, <2>12, FoundResolve
  <2>13. CASE NextFile
    BY <2>4, <2>13, FoundNextFile
  <2>14. CASE UNCHANGED vars
    <3>1. Visible'
      BY <2>4, <2>14 DEF Found, Visible, vars, facts
    <3>2. QED
      BY <2>4, <2>14, <3>1, FoundStays DEF vars, progress, facts
  <2>15. QED
    BY <2>5, <2>6, <2>7, <2>8, <2>9, <2>10, <2>11, <2>12, <2>13, <2>14 DEF Next
<1>5. QED
  BY <1>2, <1>3, <1>4

LEMMA CleanFoundAlways ==
  ASSUME NamesApart
  PROVE  Spec => [](TypeOK /\ Early /\ Counted /\ CleanFound)
<1>1. Init => CleanFound
  BY DEF Init, CleanFound, Clean, Running
<1>2. TypeOK /\ Early /\ Counted /\ CleanFound /\ [Next]_vars => (TypeOK /\ Early /\ Counted /\ CleanFound)'
  BY TypedStep, EarlyStep, CountedStep, CleanFoundStep
<1>3. QED
  BY <1>1, <1>2, TypedInit, EarlyInit, CountedInit, PTL DEF Spec

-----------------------------------------------------------------------------
(* What the facts say at the end.                                          *)

(* A clean run that is closing has the facts of every use it could read.   *)
LEMMA CleanDone ==
  ASSUME TypeOK, CleanFound, Clean, phase = "closing"
  PROVE  /\ \A f \in collected : \A i \in Callables(f) : \A k \in DOMAIN CallsAt(<<f, i>>) :
              UseDone(CallsAt(<<f, i>>)[k])
         /\ Python => \A f \in Files : \A n \in Sites(Syntax[f]) :
              ~LeftAt(f, n) => \A p \in PlacesOf(f, n) : UseDone(SiteUse(f, n, p))
<1>1. uses = <<>>
  BY DEF TypeOK
<1>2. \A u : Seen(u) => UseDone(u)
  BY <1>1 DEF Seen, Waiting
<1>3. SeenCalls /\ SeenRefs
  BY DEF CleanFound, Found
<1>4. QED
  BY <1>2, <1>3 DEF SeenCalls, SeenRefs, Passed

(* A Python file whose definitions were lost is not taken for pure.        *)
LEMMA CleanKeepsLostFiles ==
  ASSUME TypeOK, CleanFound
  PROVE  LostFileUnderModule
<1> DEFINE Missing == {f \in Files \ collected : Symbols[f] # <<>>}
           UseIn(f, p) == [caller |-> ModuleId(f), kind |-> "reference", file |-> p.file, line |-> p.line]
<1>1. ASSUME phase = "closing", Python, alive, losses = Cardinality(Missing),
             NEW f \in Missing, NEW n \in Sites(Syntax[f]), NEW p \in PlacesOf(f, n),
             ~Owned(p.file), ~Misread(UseIn(f, p))
      PROVE  TrueEdges(UseIn(f, p)) \subseteq edges
  <2>1. Lost = Missing
    BY <1>1 DEF Lost
  <2>2. Clean
    BY <1>1, <2>1 DEF Clean, Running
  <2>3. f \in Files /\ DefAt(f, Syntax[f][n].line) = {}
    BY <1>1 DEF DefAt
  <2>4. ~LeftAt(f, n) /\ SiteUse(f, n, p) = UseIn(f, p)
    BY <2>3 DEF LeftAt, SiteUse, CallerAt
  <2>5. UseDone(UseIn(f, p))
    BY <1>1, <2>2, <2>3, <2>4, CleanDone
  <2>6. Readable(UseIn(f, p))
    BY <1>1 DEF Readable
  <2>7. QED
    BY <2>5, <2>6 DEF UseDone
<1>2. QED
  BY <1>1, SitesAre DEF LostFileUnderModule, PlacesOf

(* A Python file whose definitions were lost, with nothing else, is not    *)
(* taken for pure: its external uses, those inside its functions too, are  *)
(* edges of its <module> node (Extractor::collect_references).             *)
THEOREM LostFilesShow == ASSUME NamesApart PROVE Spec => []LostFileUnderModule
<1>1. TypeOK /\ CleanFound => LostFileUnderModule
  BY CleanKeepsLostFiles
<1>2. QED
  BY <1>1, CleanFoundAlways, PTL

-----------------------------------------------------------------------------
(* The value of a root is the effect of its symbol.                        *)
RootValues == \A s \in DOMAIN roots : roots[s] \in EffectOf(s.base, s.qual)

LEMMA RootValuesStep == RootValues /\ [Next]_vars => RootValues'
<1> SUFFICES ASSUME RootValues, [Next]_vars PROVE RootValues'
  OBVIOUS
<1>1. CASE Classify
  <2>1. roots' = WithRoot(Use)
    BY <1>1 DEF Classify
  <2>2. ASSUME NEW s \in DOMAIN roots' PROVE roots'[s] \in EffectOf(s.base, s.qual)
    <3>1. CASE s \in DOMAIN roots
      <4>1. roots'[s] = roots[s]
        BY <2>1, <2>2, <3>1 DEF WithRoot
      <4>2. QED
        BY <3>1, <4>1 DEF RootValues
    <3>2. CASE s \notin DOMAIN roots
      <4>1. Rooted(Use) /\ s = ExternalSymbol(Use)
        BY <2>1, <2>2, <3>2 DEF WithRoot
      <4>2. roots'[s] = CHOOSE e \in ExternalEffect(Use) : TRUE
        BY <2>1, <2>2, <3>2 DEF WithRoot
      <4>3. HasPackage(Use.file) /\ ExternalEffect(Use) # {}
        BY <4>1 DEF Rooted, ExternalEffect
      <4>4. s.base = PackageOf(Use.file)
        BY <4>1, <4>3 DEF ExternalSymbol
      <4>5. ExternalEffect(Use) = EffectOf(s.base, s.qual)
        BY <4>1, <4>3, <4>4 DEF ExternalEffect
      <4>6. QED
        BY <4>2, <4>3, <4>5
    <3>3. QED
      BY <3>1, <3>2
  <2>3. QED
    BY <2>2 DEF RootValues
<1>2. CASE ~Classify
  <2>1. UNCHANGED roots
    BY <1>2 DEF Next, Open, Collect, StartCalls, Prepare, Outgoing, BuildTargetIndex, StartRefs,
         SkipSite, ResolveSite, NextFile, Finish, Hang, Retried, vars, facts
  <2>2. QED
    BY <2>1 DEF RootValues
<1>3. QED
  BY <1>1, <1>2

LEMMA OneEffect ==
  ASSUME NEW base, NEW qual, NEW e \in EffectOf(base, qual), NEW g \in EffectOf(base, qual)
  PROVE  e = g
BY DEF EffectOf

(* When no request was lost, the facts are those of the project.           *)
LEMMA CleanIsExact ==
  ASSUME TypeOK, Early, Counted, CleanFound, RootValues
  PROVE  ExactWhenAnswered
<1> SUFFICES ASSUME phase = "closing", losses = 0 PROVE ExactWhenAnswered
  BY DEF ExactWhenAnswered
<1>1. Clean /\ Lost = {}
  <2>1. Running /\ alive
    BY DEF Running, Early
  <2>2. Cardinality(Lost) \in Nat /\ Cardinality(Lost) <= 0
    BY <2>1, LostFinite DEF Counted
  <2>3. Cardinality(Lost) = 0
    BY <2>2
  <2>4. QED
    BY <2>1, <2>3, LostFinite DEF Clean
<1>2. ASSUME NEW u \in ReadUses PROVE UseDone(u)
  <2>1. CASE u \in CallUses
    <3>1. PICK f \in Files : \E i \in Callables(f) : \E k \in DOMAIN CallsAt(<<f, i>>) :
            u = CallsAt(<<f, i>>)[k]
      BY <2>1, CallUsesAre
    <3>2. Symbols[f] # <<>>
      BY <3>1, FilesAre, SymbolsAre
    <3>3. f \in collected
      BY <1>1, <3>2 DEF Lost
    <3>4. QED
      BY <1>1, <3>1, <3>3, CleanDone
  <2>2. CASE Python /\ u \in SiteUses
    <3>1. PICK f \in Files : \E n \in RefSites(f) : \E p \in PlacesOf(f, n) : u = RefUse(f, n, p)
      BY <2>2, SiteUsesAre
    <3>2. PICK n \in RefSites(f) : \E p \in PlacesOf(f, n) : u = RefUse(f, n, p)
      BY <3>1
    <3>3. n \in Sites(Syntax[f])
      BY RefSitesAre
    <3>4. ~LeftAt(f, n) /\ \A p : SiteUse(f, n, p) = RefUse(f, n, p)
      BY <1>1, <2>2, <3>3, SitesTrue
    <3>5. QED
      BY <1>1, <2>2, <3>2, <3>3, <3>4, CleanDone
  <2>3. QED
    BY <1>2, <2>1, <2>2, ReadUsesAre
<1>3. ASSUME NEW u \in ReadUses, ~Misread(u) PROVE Readable(u)
  BY <1>1, <1>3 DEF Readable
<1> DEFINE Plain == {u \in ReadUses : ~Misread(u)}
           Expected == UNION {TrueEdges(u) : u \in Plain}
<1>4. \A e : e \in Expected <=> \E u \in Plain : e \in TrueEdges(u)
  OBVIOUS
<1> HIDE DEF Expected
<1>5. Expected \subseteq edges
  BY <1>2, <1>3, <1>4 DEF UseDone
<1>6. \A e \in edges \ Expected : \E u \in ReadUses : Misread(u) /\ u.caller = e.caller
  BY <1>1, <1>4 DEF CleanFound, Found, Accounted, EdgeAccounted
<1>7. ASSUME NEW u \in Plain, NEW e \in TrueEffect(u) PROVE roots[TrueSymbol(u)] = e
  <2>1. TrueSymbol(u) \in DOMAIN roots
    BY <1>2, <1>3 DEF UseDone
  <2>2. ~Owned(u.file) /\ HasPackage(u.file)
    BY DEF TrueEffect
  <2>3. TrueSymbol(u).base = PackageOf(u.file)
    BY <2>2 DEF TrueSymbol
  <2>4. e \in EffectOf(TrueSymbol(u).base, TrueSymbol(u).qual)
    BY <2>2, <2>3 DEF TrueEffect
  <2>5. QED
    BY <2>1, <2>4, OneEffect DEF RootValues
<1>8. \A s \in DOMAIN roots : \E u \in ReadUses :
        \/ TrueEffect(u) # {} /\ TrueSymbol(u) = s
        \/ Misread(u) /\ HasPackage(u.file) /\ s.base = PackageOf(u.file)
  BY <1>1 DEF CleanFound, Found, Accounted, RootAccounted
<1>9. QED
  BY <1>5, <1>6, <1>7, <1>8 DEF ExactWhenAnswered, Expected, ReadUses

(* Where names are apart, a run in which no request is lost ends with the  *)
(* edges and roots of the project, and no others than those of uses that   *)
(* the code takes for something around what they use (Extractor::          *)
(* classify_and_emit, with def_at, qualname_at and build_target_index).    *)
THEOREM ExactUnlessLost == ASSUME NamesApart PROVE Spec => []ExactWhenAnswered
<1>1. Init => RootValues
  <2> SUFFICES ASSUME Init PROVE RootValues
    OBVIOUS
  <2>1. DOMAIN roots = {}
    BY DEF Init
  <2>2. QED
    BY <2>1 DEF RootValues
<1>2. Spec => []RootValues
  BY <1>1, RootValuesStep, PTL DEF Spec
<1>3. TypeOK /\ Early /\ Counted /\ CleanFound /\ RootValues => ExactWhenAnswered
  BY CleanIsExact
<1>4. QED
  BY <1>2, <1>3, CleanFoundAlways, PTL
=============================================================================
