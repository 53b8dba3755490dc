----------------------------- MODULE LspExtract -----------------------------
(***************************************************************************)
(* The language-server extractor (crates/hinzu-lsp/src/extract.rs): it     *)
(* asks a server, one request at a time, for the definitions of a project, *)
(* the calls of each and the targets of the names used otherwise, and      *)
(* turns the answers into edges and effect roots.                          *)
(*                                                                         *)
(* The project and what a warm server knows of it are constants; a file is *)
(* a number, in path order.  A request is answered, or answered empty by a *)
(* server that is still cold, or fails: at its deadline, or because the    *)
(* server died.  LspClient models the requests themselves; here a request  *)
(* and its reply are one step.  MaxLosses bounds the requests that fail    *)
(* while the server lives.                                                 *)
(***************************************************************************)
EXTENDS Naturals, Sequences, FiniteSets, LspLanguage

CONSTANTS
  Entries,      \* what the globs find: [file, is_file, dirs, suffix]
  ExcludeDirs, ExcludeSuffixes,
  Symbols,      \* file -> its symbols in preorder: [name, kind, lo, hi, sel, up]
  Stem,         \* file -> the name of the file
  OutgoingCalls,\* <<file, line>> -> the uses call hierarchy lists for the symbol named there
  Syntax,       \* file -> its syntax tree, each node with the place it refers to, if any
  Python,       \* language_id = "python"
  MaxLosses

ASSUME LossesAssumption == MaxLosses \in Nat

VARIABLES
  phase,      \* "start", "defs", "calls", "refs", "closing", then "done", "failed" or "hung"
  work,       \* files or anchors still to be visited in this phase, the first one next
  item,       \* prepareCallHierarchy has answered for the first of them
  sites,      \* reference sites of the first file still to be resolved, in their order
  uses,       \* uses found and still to be classified
  tries,      \* attempts of the request under way
  collected,  \* files whose definitions were collected
  modules,    \* files with a <module> definition
  module_used,
  target_syms,\* file -> whether the symbols cached for it are there or empty
  edges, roots,
  alive, losses

progress == <<phase, work, item, sites, uses>>
facts == <<collected, modules, module_used, target_syms, edges, roots>>
vars == <<progress, tries, facts, alive, losses>>

-----------------------------------------------------------------------------
(* The project.                                                            *)
Excluded(e) == e.dirs \cap ExcludeDirs # {} \/ e.suffix \in ExcludeSuffixes

(* discover: the source files; they are visited in ascending order.        *)
Files == {e.file : e \in {x \in Entries : x.is_file /\ ~Excluded(x)}}

(* owned_rel: a file below the root that is in no excluded directory.      *)
Owned(file) == \E e \in Entries : e.file = file /\ e.dirs \cap ExcludeDirs = {}

IsCallable(s) == s.kind \in {"Function", "Method"}
IsContainer(s) == s.kind \in {"Class", "Struct", "Interface", "Enum"}
Nests(s) == IsCallable(s) \/ IsContainer(s)

(* The qualified names of the symbols of a file: a symbol is qualified by  *)
(* the symbols around it that nest.                                        *)
Quals(file) ==
  LET S == Symbols[file]
      outer[i \in DOMAIN S] ==
        IF S[i].up = 0 THEN <<>>
        ELSE LET p == S[i].up
             IN  IF Nests(S[p]) THEN Append(outer[p], S[p].name) ELSE outer[p]
  IN  [i \in DOMAIN S |-> Append(outer[i], S[i].name)]

Id(file, i) == [file |-> file, qual |-> Quals(file)[i]]
ModuleId(file) == [file |-> file, module |-> "<module>"]

Callables(file) == {i \in DOMAIN Symbols[file] : IsCallable(Symbols[file][i])}
Nesting(file) == {i \in DOMAIN Symbols[file] : Nests(Symbols[file][i])}

(* walk_defs leaves one anchor for each callable; they are visited file by *)
(* file, in document order.                                                *)
Anchors(file) == {<<file, i>> : i \in Callables(file)}

Place == [file : DOMAIN Symbols, line : Nat]

(* A node of a syntax tree refers to at most one place.                    *)
ASSUME ProjectAssumption ==
  /\ IsFiniteSet(Entries) /\ \A e \in Entries : e.file \in Nat
  /\ Files \subseteq DOMAIN Symbols
  /\ \A f \in DOMAIN Symbols :
       Symbols[f] \in Seq([name : STRING, kind : STRING, lo : Nat, hi : Nat, sel : Nat, up : Nat])
  /\ \A f \in Files : \A i \in Callables(f) :
       OutgoingCalls[<<f, Symbols[f][i].sel>>] \in Seq(Place)
  /\ Python => \A f \in Files : \A n \in DOMAIN Syntax[f] :
       /\ Syntax[f][n].line \in Nat
       /\ Syntax[f][n].to \subseteq Place
       /\ \A p, q \in Syntax[f][n].to : p = q
  /\ Python => \A f \in Files : DOMAIN Syntax[f] \subseteq Nat

FirstAnchor(anchors) ==
  LET file == Min({a[1] : a \in anchors})
  IN  <<file, Min({i \in Callables(file) : <<file, i>> \in anchors})>>

Definitions ==
  (UNION {{Id(f, i) : i \in Callables(f)} : f \in collected}) \cup {ModuleId(f) : f \in modules}

Width(s) == s.hi - s.lo

(* The narrowest span that encloses the line, the first of its width.      *)
Innermost(file, among, line) ==
  LET S == Symbols[file]
      E == {i \in among : S[i].lo <= line /\ line <= S[i].hi}
  IN  IF E = {} THEN {}
      ELSE {Min({i \in E : \A j \in E : Width(S[i]) <= Width(S[j])})}

(* def_at: the collected callable around a line.                           *)
DefAt(file, line) ==
  IF file \in collected THEN Innermost(file, Callables(file), line) ELSE {}

(* qualname_at: the name of the innermost callable or container, from the  *)
(* cached symbols of the file.                                             *)
QualnameAt(file, line) ==
  IF target_syms[file]
  THEN {Quals(file)[i] : i \in Innermost(file, Nesting(file), line)}
  ELSE {}

-----------------------------------------------------------------------------
(* Requests.                                                               *)

(* A request with n attempts.  It may be answered, which takes a server    *)
(* that has something to say; answered empty, and tried again; or be given *)
(* up: the last attempt was empty, or an attempt failed.                   *)
Answered(has) == alive /\ has /\ tries' = 0 /\ UNCHANGED <<alive, losses>>

(* Mutant: the attempts are counted, but not against a limit.              *)
Retried_Unbounded(n) == alive /\ tries' = (tries + 1) % n
                        /\ UNCHANGED <<progress, facts, alive, losses>>

Retried(n) == alive /\ tries + 1 < n /\ tries' = tries + 1
              /\ UNCHANGED <<progress, facts, alive, losses>>

GivenUp(n, has) ==
  /\ tries' = 0
  /\ \/ ~alive /\ UNCHANGED <<alive, losses>>
     \/ alive /\ ~has /\ tries + 1 = n /\ UNCHANGED <<alive, losses>>
     \/ alive /\ losses < MaxLosses /\ losses' = losses + 1 /\ alive' \in BOOLEAN

NoRequest == tries = 0 /\ UNCHANGED <<tries, alive, losses>>

-----------------------------------------------------------------------------
Init ==
  /\ phase = "start"
  /\ work = {}
  /\ item = FALSE
  /\ sites = {}
  /\ uses = <<>>
  /\ tries = 0
  /\ collected = {}
  /\ modules = {}
  /\ module_used = FALSE
  /\ target_syms = <<>>
  /\ edges = {}
  /\ roots = <<>>
  /\ alive = TRUE
  /\ losses = 0

(* run: without files there is nothing to do.  initialize and didOpen pass *)
(* an error on; settling and the ready probe do not.                       *)
Open ==
  /\ phase = "start"
  /\ UNCHANGED <<item, sites, uses, facts>>
  /\ IF Files = {} THEN phase' = "failed" /\ UNCHANGED <<work, tries, alive, losses>>
     ELSE \/ Answered(TRUE) /\ phase' = "defs" /\ work' = Files
          \/ GivenUp(1, TRUE) /\ phase' = "failed" /\ UNCHANGED work

-----------------------------------------------------------------------------
(* Definitions.                                                            *)
Collect ==
  /\ phase = "defs"
  /\ work # {}
  /\ LET f == Min(work)
         has == Symbols[f] # <<>>
     IN  \/ /\ \/ Answered(has) /\ collected' = collected \cup {f}
               \/ GivenUp(4, has) /\ UNCHANGED collected
            /\ work' = work \ {f}
            /\ UNCHANGED <<phase, item, sites, uses, modules, module_used, target_syms, edges, roots>>
         \/ Retried(4)

StartCalls ==
  /\ phase = "defs"
  /\ work = {}
  /\ phase' = "calls"
  /\ work' = UNION {Anchors(f) : f \in collected}
  /\ NoRequest
  /\ UNCHANGED <<item, sites, uses, facts>>

-----------------------------------------------------------------------------
(* Calls.  A use is [caller, file, line, kind]: who uses what is named at  *)
(* that line of the file.                                                  *)
NextAnchor == work' = work \ {FirstAnchor(work)} /\ item' = FALSE /\ UNCHANGED <<phase, sites>>

Prepare ==
  /\ phase = "calls"
  /\ work # {} /\ ~item /\ uses = <<>>
  /\ UNCHANGED facts
  /\ \/ Answered(TRUE) /\ item' = TRUE /\ UNCHANGED <<phase, work, sites, uses>>
     \/ Retried(3)
     \/ GivenUp(3, TRUE) /\ NextAnchor /\ UNCHANGED uses

CallsAt(anchor) ==
  LET calls == OutgoingCalls[<<anchor[1], Symbols[anchor[1]][anchor[2]].sel>>]
  IN  [k \in DOMAIN calls |-> [caller |-> Id(anchor[1], anchor[2]), kind |-> "call",
                               file |-> calls[k].file, line |-> calls[k].line]]

(* A failed request is read as no calls.                                   *)
Outgoing ==
  /\ phase = "calls"
  /\ work # {} /\ item
  /\ UNCHANGED facts
  /\ \/ Answered(TRUE) /\ uses' = CallsAt(FirstAnchor(work)) /\ NextAnchor
     \/ GivenUp(1, TRUE) /\ UNCHANGED uses /\ NextAnchor

StartRefs ==
  /\ phase = "calls"
  /\ work = {} /\ uses = <<>>
  /\ IF Python
     THEN phase' = "refs" /\ work' = Files /\ sites' = Sites(Syntax[Min(Files)])
     ELSE phase' = "closing" /\ UNCHANGED <<work, sites>>
  /\ NoRequest
  /\ UNCHANGED <<item, uses, facts>>

-----------------------------------------------------------------------------
(* Classification of the first use.                                        *)
Use == Head(uses)

(* The symbols of the file are needed when the target is external, or no   *)
(* collected callable is around it.                                        *)
NeedsSymbols == ~Owned(Use.file) \/ DefAt(Use.file, Use.line) = {}

(* build_target_index: whatever comes back is cached.                      *)
BuildTargetIndex ==
  /\ phase \in {"calls", "refs"} /\ uses # <<>>
  /\ NeedsSymbols /\ Use.file \notin DOMAIN target_syms
  /\ LET has == Symbols[Use.file] # <<>>
         Cache(there) == /\ target_syms' = [f \in DOMAIN target_syms \cup {Use.file} |->
                                               IF f = Use.file THEN there ELSE target_syms[f]]
                         /\ UNCHANGED <<progress, collected, modules, module_used, edges, roots>>
     IN  \/ Answered(has) /\ Cache(TRUE)
         \/ Retried(4)
         \/ GivenUp(4, has) /\ Cache(FALSE)

(* The callee of the use: a collected callable, the tracked __init__ of a  *)
(* local class, nothing, or an external symbol.                            *)
LocalCallee(u) ==
  IF DefAt(u.file, u.line) # {} THEN {Id(u.file, i) : i \in DefAt(u.file, u.line)}
  ELSE {[file |-> u.file, qual |-> Append(q, "__init__")] : q \in QualnameAt(u.file, u.line)}
         \cap Definitions

ExternalSymbol(u) ==
  [base |-> IF HasPackage(u.file) THEN PackageOf(u.file) ELSE <<Stem[u.file]>>,
   qual |-> IF QualnameAt(u.file, u.line) = {} THEN <<Stem[u.file]>>
            ELSE CHOOSE q \in QualnameAt(u.file, u.line) : TRUE]

ExternalEffect(u) ==
  IF HasPackage(u.file) THEN EffectOf(PackageOf(u.file), ExternalSymbol(u).qual) ELSE {}

TrustedPure(u) ==
  ExternalEffect(u) = {} /\ HasPackage(u.file) /\ OriginOf(u.file) = "stdlib"

(* Mutant: whatever has no effect in the map is taken for pure.            *)
Callee_UnknownIsPure(u) ==
  IF Owned(u.file) THEN LocalCallee(u)
  ELSE IF ExternalEffect(u) = {} THEN {} ELSE {ExternalSymbol(u)}

Callee(u) ==
  IF Owned(u.file) THEN LocalCallee(u)
  ELSE IF TrustedPure(u) THEN {} ELSE {ExternalSymbol(u)}

(* add_edge keeps one edge per caller, callee and kind, none to itself.    *)
Edges(u) == {[caller |-> u.caller, callee |-> c, kind |-> u.kind] : c \in Callee(u) \ {u.caller}}

Rooted(u) == ~Owned(u.file) /\ ExternalEffect(u) # {}

(* add_root: the first effect of a symbol stands.                          *)
WithRoot(u) ==
  [s \in DOMAIN roots \cup (IF Rooted(u) THEN {ExternalSymbol(u)} ELSE {}) |->
     IF s \in DOMAIN roots THEN roots[s] ELSE CHOOSE e \in ExternalEffect(u) : TRUE]

ModuleCaller(u) == u.caller = ModuleId(u.caller.file)

(* Mutant: a <module> node is defined only when an effect root attached.   *)
Classify_ModuleOnEffect ==
  /\ phase \in {"calls", "refs"} /\ uses # <<>>
  /\ NeedsSymbols => Use.file \in DOMAIN target_syms
  /\ edges' = edges \cup Edges(Use)
  /\ roots' = WithRoot(Use)
  /\ module_used' = (module_used \/ (ModuleCaller(Use) /\ Rooted(Use)))
  /\ uses' = Tail(uses)
  /\ NoRequest
  /\ UNCHANGED <<phase, work, item, sites, collected, modules, target_syms>>

Classify ==
  /\ phase \in {"calls", "refs"} /\ uses # <<>>
  /\ NeedsSymbols => Use.file \in DOMAIN target_syms
  /\ edges' = edges \cup Edges(Use)
  /\ roots' = WithRoot(Use)
  /\ module_used' = (module_used \/ (ModuleCaller(Use) /\ Callee(Use) # {}))
  /\ uses' = Tail(uses)
  /\ NoRequest
  /\ UNCHANGED <<phase, work, item, sites, collected, modules, target_syms>>

-----------------------------------------------------------------------------
(* References, file by file, site by site.                                 *)
File == Min(work)
Site == Min(sites)
Node == Syntax[File][Site]
Enclosing == DefAt(File, Node.line)

NextSite == sites' = sites \ {Site} /\ UNCHANGED <<phase, work, item>>

(* Mutant: a callee inside any function is left to the call pass.          *)
LeftToCalls_AnyFunction ==
  IsCallee(Syntax[File], Site) /\ Innermost(File, Callables(File), Node.line) # {}

(* A callee inside a collected function is left to the call pass.          *)
LeftToCalls == IsCallee(Syntax[File], Site) /\ Enclosing # {}

SkipSite ==
  /\ phase = "refs" /\ sites # {} /\ uses = <<>>
  /\ LeftToCalls
  /\ NextSite
  /\ NoRequest
  /\ UNCHANGED <<uses, facts>>

UseAt(place) ==
  [caller |-> IF Enclosing = {} THEN ModuleId(File)
              ELSE Id(File, CHOOSE i \in Enclosing : TRUE),
   kind |-> "reference", file |-> place.file, line |-> place.line]

(* A name the server cannot resolve adds nothing.                          *)
ResolveSite ==
  /\ phase = "refs" /\ sites # {} /\ uses = <<>>
  /\ ~LeftToCalls
  /\ LET tree == Syntax[File]
         places == tree[Token(tree, Site)].to
     IN  \/ /\ Answered(TRUE)
            /\ uses' = IF places = {} THEN <<>> ELSE <<UseAt(CHOOSE p \in places : TRUE)>>
         \/ GivenUp(1, TRUE) /\ UNCHANGED uses
  /\ NextSite
  /\ UNCHANGED facts

(* The file is done: it gets its <module> definition if that was used.     *)
NextFile ==
  /\ phase = "refs" /\ work # {} /\ sites = {} /\ uses = <<>>
  /\ modules' = modules \cup (IF module_used THEN {File} ELSE {})
  /\ module_used' = FALSE
  /\ work' = work \ {File}
  /\ sites' = IF work \ {File} = {} THEN {} ELSE Sites(Syntax[Min(work \ {File})])
  /\ phase' = IF work \ {File} = {} THEN "closing" ELSE "refs"
  /\ NoRequest
  /\ UNCHANGED <<item, uses, collected, target_syms, edges, roots>>

(* The server is shut down before the result is looked at.                 *)
Finish ==
  /\ phase = "closing"
  /\ phase' = "done"
  /\ alive' = FALSE
  /\ UNCHANGED <<work, item, sites, uses, tries, facts, losses>>

(* The extractor is about to talk to the server.                           *)
Asking ==
  \/ phase = "start" /\ Files # {}
  \/ phase \in {"defs", "calls"} /\ work # {} /\ uses = <<>>
  \/ phase = "refs" /\ sites # {} /\ uses = <<>> /\ ~LeftToCalls
  \/ phase \in {"calls", "refs"} /\ uses # <<>> /\ NeedsSymbols /\ Use.file \notin DOMAIN target_syms
  \/ phase = "closing"

(* The deadline of a request bounds the wait for its answer, not the write *)
(* of it; nor is there one for the exit of the server.  Either may last as *)
(* long as the server lives and does not do its part.                      *)
Hang ==
  /\ alive
  /\ Asking
  /\ phase' = "hung"
  /\ UNCHANGED <<work, item, sites, uses, tries, facts, alive, losses>>

Next ==
  \/ Open
  \/ Collect \/ StartCalls
  \/ Prepare \/ Outgoing
  \/ BuildTargetIndex \/ Classify
  \/ StartRefs \/ SkipSite \/ ResolveSite \/ NextFile
  \/ Finish
  \/ Hang

(* One thread runs the extractor, and where it cannot go on it hangs: the  *)
(* wait for an answer has a deadline, a write that ends is part of its     *)
(* request, and one that never ends is Hang.                               *)
Spec == Init /\ [][Next]_vars /\ WF_vars(Next)

-----------------------------------------------------------------------------
(* What the project uses, told by symbol and not by line.                  *)
Known(f, line) == {i \in Nesting(f) : Symbols[f][i].sel = line}

CallUses == UNION {ToSet(CallsAt(a)) : a \in UNION {Anchors(f) : f \in Files}}

(* The function a line of a file is in, if every definition is known.      *)
Around(f, line) == Innermost(f, Callables(f), line)

RefUse(f, n, place) ==
  [caller |-> IF Around(f, Syntax[f][n].line) = {} THEN ModuleId(f)
              ELSE Id(f, CHOOSE i \in Around(f, Syntax[f][n].line) : TRUE),
   kind |-> "reference", file |-> place.file, line |-> place.line]

(* The names that are no call made inside a function.                      *)
RefNames(f) ==
  {n \in NamesUsed(Syntax[f]) : IsCallee(Syntax[f], n) => Around(f, Syntax[f][n].line) = {}}

RefUses(f, names) ==
  UNION {{RefUse(f, n, p) : p \in Syntax[f][Token(Syntax[f], n)].to} : n \in names}

ProjectUses == CallUses \cup IF Python THEN UNION {RefUses(f, RefNames(f)) : f \in Files} ELSE {}

(* The uses that no pass looks at.  The header of treesitter.rs counts     *)
(* them in (the callee of a call at module scope, a call argument, a       *)
(* default parameter); handle and classify leave them out.                 *)
Overlooked ==
  ProjectUses \ (CallUses \cup UNION {RefUses(f, RefNames(f) \ Skipped(Syntax[f])) : f \in Files})

(* No two definitions that nest are named on one line, and whatever of them*)
(* is around the name of another spans more lines than that.               *)
NamesApart ==
  \A f \in DOMAIN Symbols : \A i, j \in Nesting(f) :
    LET s == Symbols[f][i]
        t == Symbols[f][j]
    IN  /\ s.lo <= s.sel /\ s.sel <= s.hi
        /\ i # j /\ t.lo <= s.sel /\ s.sel <= t.hi => s.sel # t.sel /\ Width(s) < Width(t)

TrueSymbol(u) ==
  [base |-> IF HasPackage(u.file) THEN PackageOf(u.file) ELSE <<Stem[u.file]>>,
   qual |-> IF Known(u.file, u.line) = {} THEN <<Stem[u.file]>>
            ELSE Quals(u.file)[CHOOSE i \in Known(u.file, u.line) : TRUE]]

TrueEffect(u) ==
  IF ~Owned(u.file) /\ HasPackage(u.file)
  THEN EffectOf(PackageOf(u.file), TrueSymbol(u).qual) ELSE {}

InitOf(f, i) ==
  {Id(f, k) : k \in {c \in Callables(f) : Quals(f)[c] = Append(Quals(f)[i], "__init__")}}

TrueCallee(u) ==
  IF Owned(u.file)
  THEN UNION {IF i \in Callables(u.file) THEN {Id(u.file, i)} ELSE InitOf(u.file, i) :
              i \in {k \in Known(u.file, u.line) : u.file \in Files}}
  ELSE IF TrueEffect(u) = {} /\ HasPackage(u.file) /\ OriginOf(u.file) = "stdlib" THEN {}
  ELSE {TrueSymbol(u)}

TrueEdges(u) ==
  {[caller |-> u.caller, callee |-> c, kind |-> u.kind] : c \in TrueCallee(u) \ {u.caller}}

(* The code takes what is around the target for the target: a function or  *)
(* class that it only is a part of, or the function its class is local to. *)
Misread(u) ==
  \/ /\ Known(u.file, u.line) = {}
     /\ Innermost(u.file, Nesting(u.file), u.line) # {}
  \/ /\ Owned(u.file)
     /\ Known(u.file, u.line) \cap Callables(u.file) = {}
     /\ Around(u.file, u.line) # {}

-----------------------------------------------------------------------------
(* When no request was lost, the edges and roots are those of the project: *)
(* every use of a function, of a class with an __init__ and of an external *)
(* symbol that has an effect or cannot be seen through is an edge, in      *)
(* whatever order the uses come, and nothing else is an edge.  Two kinds   *)
(* of use are excepted: the overlooked ones have no edge, and the misread  *)
(* ones may have another.                                                  *)
ExactWhenAnswered ==
  phase = "closing" /\ losses = 0 =>
    LET Read == ProjectUses \ Overlooked
        Plain == {u \in Read : ~Misread(u)}
        Expected == UNION {TrueEdges(u) : u \in Plain}
    IN  /\ Expected \subseteq edges
        /\ \A e \in edges \ Expected : \E u \in Read : Misread(u) /\ u.caller = e.caller
        /\ \A u \in Plain : \A e \in TrueEffect(u) : roots[TrueSymbol(u)] = e
        /\ \A s \in DOMAIN roots : \E u \in Read :
             \/ TrueEffect(u) # {} /\ TrueSymbol(u) = s
             \/ Misread(u) /\ HasPackage(u.file) /\ s.base = PackageOf(u.file)

(* Whatever was lost on the way, an edge starts at a definition the facts  *)
(* hold, and ends at one or outside the project.                           *)
EndsAreDefined ==
  phase = "closing" =>
    \A e \in edges : /\ e.caller \in Definitions
                     /\ "file" \in DOMAIN e.callee => e.callee \in Definitions

(* A Python file whose definitions were lost, with nothing else, is not    *)
(* taken for pure: its external uses, those inside its functions too, are  *)
(* edges of its <module> node, the names no pass looks at excepted.        *)
LostFileUnderModule ==
  LET Lost == {f \in Files \ collected : Symbols[f] # <<>>}
  IN  phase = "closing" /\ Python /\ alive /\ losses = Cardinality(Lost) =>
        \A f \in Lost : \A n \in NamesUsed(Syntax[f]) \ Skipped(Syntax[f]) :
          \A p \in Syntax[f][Token(Syntax[f], n)].to :
            LET u == [caller |-> ModuleId(f), kind |-> "reference", file |-> p.file, line |-> p.line]
            IN  ~Owned(p.file) /\ ~Misread(u) => TrueEdges(u) \subseteq edges

(* The extractor ends, whatever the server answers, loses or dies of,      *)
(* unless it hangs for ever in one write or wait, with the server alive:   *)
(* it neither asks without end nor hangs on a server that is gone.         *)
Finishes == <>(phase \in {"done", "failed"}) \/ <>[](phase = "hung" /\ alive)

=============================================================================
