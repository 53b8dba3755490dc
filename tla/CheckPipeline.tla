---------------------------- MODULE CheckPipeline ----------------------------
(***************************************************************************)
(* `hinzu check` over a fact store: main.rs `check`, lib.rs `check_facts`  *)
(* and the SQLite store (store.rs), for several processes that run again   *)
(* and again while the program and hinzu.toml are edited.                  *)
(*                                                                         *)
(* Each transaction is one action; load_facts is three, because it issues  *)
(* three SELECTs outside any transaction.  A process may die between any   *)
(* two of them (it is killed, or SQLite answers "busy"), which leaves what *)
(* it had committed.  Processes without --db have a store of their own.    *)
(*                                                                         *)
(* --engine picks the engine.  Both are taken by what their own modules    *)
(* show of them: the reference engine answers with exactly the carried     *)
(* effects (EffectEngine); the default one, whose circuit is fed every     *)
(* edge, also with those that leak through Type edges, which it gives no   *)
(* evidence (DbspEngine).                                                  *)
(***************************************************************************)
EXTENDS PolicyCheck, SequencesExt

CONSTANTS
  Process,    \* the checks that may run at the same time
  InMemory,   \* those run without --db
  Database,   \* the file that --db names, for each of the others
  Programs,   \* what an adapter extracts from each revision
  Documents,  \* the hinzu.toml of each revision
  NoInput,    \* a process that has read nothing
  SplitName   \* a symbol's name, cut at each "->" in it

(* The facts of one extraction: the file of each definition, those that    *)
(* are components, the edges, those without the seam mark, the roots.      *)
Extracted == [defs : [Symbol -> File \cup {NoFile}], components : SUBSET Symbol,
              edges : SUBSET Edge, unmarked : SUBSET Edge,
              roots : SUBSET EffectRoot]

ASSUME FiniteAssumption == IsFiniteSet(Symbol) /\ IsFiniteSet(Effect)

ASSUME PipelineAssumption ==
  /\ InMemory \subseteq Process
  /\ \A p \in Process \ InMemory : Database[p] \notin InMemory
  /\ \A program \in Programs :
       /\ program \in Extracted
       /\ program.unmarked \subseteq program.edges
       /\ \A s \in program.components : program.defs[s] # NoFile
  /\ \A doc \in Documents : doc \in PolicyDoc
  /\ \A s \in Symbol : SplitName[s] \in Seq(STRING) \ {<<>>}

VARIABLES
  stores,    \* the contents of every store
  pc,        \* where each process is
  input,     \* the program and hinzu.toml it has read, and its --engine
  facts,     \* its `facts`: extracted and seeded, then loaded back
  report,    \* the summaries its engine returned
  findings   \* what it reported

vars == <<stores, pc, input, facts, report, findings>>

(* Processes that are given the same --db share a store.                   *)
StoreOf(p) == IF p \in InMemory THEN p ELSE Database[p]

Stores == {StoreOf(p) : p \in Process}

EmptyTables ==
  [definitions |-> [s \in Symbol |-> NoFile], is_component |-> {},
   edges |-> {}, unmarked |-> {}, effect_roots |-> {}, effect_summaries |-> {}]

NoFacts == [defs |-> [s \in Symbol |-> NoFile], components |-> {},
            edges |-> {}, unmarked |-> {}, roots |-> {}]

(* Without --db the store lives and dies with its process.                 *)
StoresWithout(p) ==
  IF p \in InMemory THEN [stores EXCEPT ![p] = EmptyTables] ELSE stores

NoReport == [effects |-> [s \in Symbol |-> {}],
             evidence |-> [s \in Symbol |-> [e \in Effect |-> <<>>]]]

Defined(defs) == {s \in Symbol : defs[s] # NoFile}

-----------------------------------------------------------------------------
(* The summaries as rows: an evidence path is the names of its symbols     *)
(* joined with "->", so a row keeps only the pieces between the arrows.    *)
Pieces(path) == FlattenSeq([i \in DOMAIN path |-> SplitName[path[i]]])

Reported(rep) == {se \in Symbol \X Effect : se[2] \in rep.effects[se[1]]}

Rows(rep) ==
  {[symbol |-> se[1], effect |-> se[2],
    evidence_path |-> Pieces(rep.evidence[se[1]][se[2]])] : se \in Reported(rep)}

(* Store::load_summaries: cut at every arrow; each piece is a name.        *)
load_summaries(rows) ==
  {[symbol |-> r.symbol, effect |-> r.effect, evidence |-> r.evidence_path] : r \in rows}

(* The definition rows after an upsert of those of `fs`.                   *)
Upserted(rows, fs) == [s \in Symbol |-> IF fs.defs[s] # NoFile THEN fs.defs[s] ELSE rows[s]]

(* Mutant: the edges of earlier runs are dropped.                          *)
insert_facts_Replaces(tables, fs) ==
  [tables EXCEPT
     !.definitions = Upserted(@, fs),
     !.is_component = (@ \ Defined(fs.defs)) \cup fs.components,
     !.edges = fs.edges,
     !.unmarked = fs.unmarked,
     !.effect_roots = @ \cup fs.roots]

(* Mutant: a definition that has a row keeps it.                           *)
insert_facts_Ignores(tables, fs) ==
  [tables EXCEPT
     !.definitions = [s \in Symbol |-> IF @[s] # NoFile THEN @[s] ELSE fs.defs[s]],
     !.is_component = @ \cup (fs.components \ Defined(tables.definitions)),
     !.edges = @ \cup fs.edges,
     !.unmarked = @ \cup fs.unmarked,
     !.effect_roots = @ \cup fs.roots]

(* Store::insert_facts: definitions are replaced, edges and roots append.  *)
insert_facts(tables, fs) ==
  [tables EXCEPT
     !.definitions = Upserted(@, fs),
     !.is_component = (@ \ Defined(fs.defs)) \cup fs.components,
     !.edges = @ \cup fs.edges,
     !.unmarked = @ \cup fs.unmarked,
     !.effect_roots = @ \cup fs.roots]

(* Mutant: rows of earlier summaries are left in place.                    *)
write_summaries_Append(tables, rep) ==
  [tables EXCEPT !.effect_summaries = @ \cup Rows(rep)]

(* Store::write_summaries: the earlier rows are deleted.                   *)
write_summaries(tables, rep) ==
  [tables EXCEPT !.effect_summaries = Rows(rep)]

(* enum Engine: what --engine may name.                                    *)
Engine == {"dbsp", "naive"}

(* The facts as the circuit of DbspEngine is fed them: the kind of an edge *)
(* is forgotten, so a Type edge carries effects like a call.               *)
Circuit(fs) == [edges |-> {[x EXCEPT !.kind = "call"] : x \in fs.edges}, roots |-> fs.roots]

(* The facts from which an engine derives the effects.                     *)
Fed(fs, engine) == IF engine = "dbsp" THEN Circuit(fs) ELSE fs

(* What an engine may answer: simple evidence paths, one for each effect   *)
(* that is carried.  The fold is [pairs -> honest paths], pair by pair.    *)
Carried(fs) == {se \in Symbol \X Effect : Carries(fs, se[1], se[2])}

Honest(fs, se) == {q \in SimplePaths : IsEvidencePath(fs, se[1], se[2], q)}

Explained(c, se, q) == [t \in DOMAIN c \cup {se} |-> IF t = se THEN q ELSE c[t]]

EvidenceChoices(fs) ==
  FoldSet(LAMBDA se, partial : {Explained(cq[1], se, cq[2]) : cq \in partial \X Honest(fs, se)},
          {<<>>}, Carried(fs))

(* An effect that only the circuit derives has no path, and no evidence.   *)
Reports(fs, engine) ==
  {[effects |-> CarriedEffects(Fed(fs, engine)),
    evidence |-> [s \in Symbol |-> [e \in Effect |->
                    IF <<s, e>> \in DOMAIN c THEN c[<<s, e>>] ELSE <<>>]]] : c \in EvidenceChoices(fs)}

-----------------------------------------------------------------------------
Init ==
  /\ stores = [st \in Stores |-> EmptyTables]
  /\ pc = [p \in Process |-> "idle"]
  /\ input = [p \in Process |-> NoInput]
  /\ facts = [p \in Process |-> NoFacts]
  /\ report = [p \in Process |-> NoReport]
  /\ findings = [p \in Process |-> {}]

(* main.rs check: extract, read hinzu.toml, seed.                          *)
Seeded(program, doc) ==
  [program EXCEPT !.roots =
     IF doc.on_unknown = "ignore"
     THEN seed(doc.table, program.edges, @)
     ELSE seed_unknowns(doc.table, Defined(program.defs), program.edges, @)]

AtRest == {"idle", "refused", "done"}

(* hinzu.toml does not parse: exit with an error before the store is read. *)
Refuse(p, program, doc, engine) ==
  /\ pc[p] \in AtRest
  /\ ~ Parses(doc)
  /\ pc' = [pc EXCEPT ![p] = "refused"]
  /\ input' = [input EXCEPT ![p] = [program |-> program, doc |-> doc, engine |-> engine]]
  /\ facts' = [facts EXCEPT ![p] = NoFacts]
  /\ report' = [report EXCEPT ![p] = NoReport]
  /\ findings' = [findings EXCEPT ![p] = {}]
  /\ stores' = StoresWithout(p)

Start(p, program, doc, engine) ==
  /\ pc[p] \in AtRest
  /\ Parses(doc)
  /\ pc' = [pc EXCEPT ![p] = "seeded"]
  /\ input' = [input EXCEPT ![p] = [program |-> program, doc |-> doc, engine |-> engine]]
  /\ facts' = [facts EXCEPT ![p] = Seeded(program, doc)]
  /\ report' = [report EXCEPT ![p] = NoReport]
  /\ findings' = [findings EXCEPT ![p] = {}]
  /\ stores' = StoresWithout(p)

(* Store::open, then the transaction of insert_facts.                      *)
InsertFacts(p) ==
  /\ pc[p] = "seeded"
  /\ stores' = [stores EXCEPT ![StoreOf(p)] = insert_facts(@, facts[p])]
  /\ pc' = [pc EXCEPT ![p] = "inserted"]
  /\ UNCHANGED <<input, facts, report, findings>>

(* Store::load_facts: three SELECTs, each its own read transaction.        *)
LoadDefinitions(p) ==
  /\ pc[p] = "inserted"
  /\ facts' = [facts EXCEPT ![p].defs = stores[StoreOf(p)].definitions,
                            ![p].components = stores[StoreOf(p)].is_component]
  /\ pc' = [pc EXCEPT ![p] = "definitions"]
  /\ UNCHANGED <<stores, input, report, findings>>

LoadEdges(p) ==
  /\ pc[p] = "definitions"
  /\ facts' = [facts EXCEPT ![p].edges = stores[StoreOf(p)].edges,
                            ![p].unmarked = stores[StoreOf(p)].unmarked]
  /\ pc' = [pc EXCEPT ![p] = "edges"]
  /\ UNCHANGED <<stores, input, report, findings>>

LoadRoots(p) ==
  /\ pc[p] = "edges"
  /\ facts' = [facts EXCEPT ![p].roots = stores[StoreOf(p)].effect_roots]
  /\ pc' = [pc EXCEPT ![p] = "loaded"]
  /\ UNCHANGED <<stores, input, report, findings>>

(* Propagate, then the transaction of write_summaries.                     *)
WriteSummaries(p) ==
  /\ pc[p] = "loaded"
  /\ \E rep \in Reports(facts[p], input[p].engine) :
       /\ report' = [report EXCEPT ![p] = rep]
       /\ stores' = [stores EXCEPT ![StoreOf(p)] = write_summaries(@, rep)]
  /\ pc' = [pc EXCEPT ![p] = "written"]
  /\ UNCHANGED <<input, facts, findings>>

(* The rules over the shared context; the exit code.                       *)
Conclude(p) ==
  /\ pc[p] = "written"
  /\ \E verdict \in Verdicts(facts[p], report[p], input[p].doc) :
       findings' = [findings EXCEPT ![p] = verdict]
  /\ pc' = [pc EXCEPT ![p] = "done"]
  /\ UNCHANGED <<stores, input, facts, report>>

(* The process is killed, or a statement fails and the check gives up.     *)
Die(p) ==
  /\ pc[p] \notin AtRest
  /\ pc' = [pc EXCEPT ![p] = "idle"]
  /\ input' = [input EXCEPT ![p] = NoInput]
  /\ facts' = [facts EXCEPT ![p] = NoFacts]
  /\ report' = [report EXCEPT ![p] = NoReport]
  /\ stores' = StoresWithout(p)
  /\ UNCHANGED findings

Begin(p, program, doc, engine) ==
  Start(p, program, doc, engine) \/ Refuse(p, program, doc, engine)

Continue(p) ==
  \/ InsertFacts(p)
  \/ LoadDefinitions(p)
  \/ LoadEdges(p)
  \/ LoadRoots(p)
  \/ WriteSummaries(p)
  \/ Conclude(p)
  \/ Die(p)

Next ==
  \E p \in Process :
    \/ \E program \in Programs, doc \in Documents, engine \in Engine :
         Begin(p, program, doc, engine)
    \/ Continue(p)

Spec == Init /\ [][Next]_vars

-----------------------------------------------------------------------------
TypeOK ==
  /\ \A st \in DOMAIN stores :
       /\ stores[st].definitions \in [Symbol -> File \cup {NoFile}]
       /\ stores[st].unmarked \subseteq stores[st].edges
       /\ stores[st].is_component \subseteq Defined(stores[st].definitions)
       /\ stores[st].edges \subseteq Edge
       /\ stores[st].effect_roots \subseteq EffectRoot
       /\ \A r \in stores[st].effect_summaries : r.symbol \in Symbol /\ r.effect \in Effect
  /\ \A p \in Process :
       /\ pc[p] \in AtRest \cup {"seeded", "inserted", "definitions", "edges", "loaded", "written"}
       /\ input[p] # NoInput =>
            /\ input[p].program \in Programs
            /\ input[p].doc \in Documents
            /\ input[p].engine \in Engine
       /\ facts[p] \in Extracted
       /\ report[p].effects \in [Symbol -> SUBSET Effect]
       /\ \A f \in findings[p] : f.symbol \in Symbol /\ f.severity \in {"error", "warning"}

(* What the reader of a verdict relies on, told without the code's own     *)
(* operators.  Nothing accounts for these symbols: an unresolved call goes *)
(* there, or there is no body and nobody vouches for them.                 *)
Unaccounted(program, table) ==
  {s \in Symbol :
     \/ \E x \in program.edges :
          x.callee = s /\ x.kind # "type" /\ x.resolution = "unresolved"
     \/ /\ program.defs[s] = NoFile
        /\ \A r \in program.roots : r.symbol = s => r.effect = Unknown
        /\ table.rule[s] = NoEffect
        /\ s \notin table.pure \cup Baseline}

(* Everything the program may do: an unaccounted symbol may do anything.   *)
Truth(program, table) ==
  [edges |-> program.edges,
   roots |-> program.roots
     \cup {r \in EffectRoot : program.defs[r.symbol] = NoFile /\ r.effect = table.rule[r.symbol]}
     \cup {r \in EffectRoot : r.symbol \in Unaccounted(program, table) /\ r.effect # Unknown}]

Governs(doc, region, file) ==
  /\ file \notin doc.ignore \cup {NoFile}
  /\ region.specificity[file] > 0
  /\ ~ \E q \in doc.regions : q.specificity[file] > region.specificity[file]

Forbids(region, e) ==
  e \in region.forbid \/ (region.allow # {} /\ e \in RealEffect \ region.allow)

ExitsZero(p) == pc[p] = "done" /\ \A f \in findings[p] : f.severity # "error"

(* Fail closed: a check with on_unknown = "fail" that exits with success   *)
(* has certified the program it was given.  No definition that a region    *)
(* governs can do what the region forbids, even if whatever the analyzer   *)
(* could not see does everything.  The verdict is formed on what came back *)
(* from the store, after crashes, older revisions and other processes.     *)
Certified ==
  \A p \in Process :
    ExitsZero(p) /\ input[p].doc.on_unknown = "fail" =>
      LET doc == input[p].doc
          program == input[p].program
      IN  \A region \in doc.regions, d \in Symbol, e \in RealEffect :
            Governs(doc, region, program.defs[d]) /\ Forbids(region, e)
              => ~ Carries(Truth(program, doc.table), d, e)

(* The same promise of the rule for components, which knows nothing of     *)
(* Unknown: after a successful check that enables it, no component of the  *)
(* program reaches a forbidden effect while it renders, by uses that are   *)
(* not all behind a seam.                                                  *)
RenderGraph(program, table) ==
  [edges |-> program.unmarked, roots |-> Truth(program, table).roots]

KnownEnd(program, table, s, e) ==
  \/ [symbol |-> s, effect |-> e] \in program.roots
  \/ table.rule[s] = e

RendersForbidden(d, program, doc) ==
  \E e \in from_table(doc.component), q \in SimplePaths :
    /\ IsUsePath(RenderGraph(program, doc.table), d, Symbol, q)
    /\ KnownEnd(program, doc.table, q[Len(q)], e)

RenderingCertified ==
  \A p \in Process :
    ExitsZero(p) /\ input[p].doc.component.enabled =>
      \A d \in input[p].program.components :
        input[p].program.defs[d] \notin input[p].doc.ignore
          => ~ RendersForbidden(d, input[p].program, input[p].doc)

(* When the store is fresh, a finding with a chain is never a false alarm: *)
(* it names a definition of this program, its region governs that          *)
(* definition's file, its evidence is a chain of uses in this program, and *)
(* the end of the chain is declared to do what the finding says, by the    *)
(* extractor or by a rule (for Unknown: nothing accounts for it, and the   *)
(* flavor is right).  A finding of the rule for components names a         *)
(* component, and its chain goes through no seam.                          *)
(* The reference engine raises no other finding.  The default engine also  *)
(* raises false alarms, and they are exactly these: findings of a region   *)
(* without any chain, for an effect of a symbol that the definition        *)
(* reaches only by way of signatures.                                      *)
Declared(program, table, s, e) ==
  IF e = Unknown THEN s \in Unaccounted(program, table) ELSE KnownEnd(program, table, s, e)

IsGoverned(f, program, doc) ==
  \E region \in doc.regions :
    region.name = f.region /\ Governs(doc, region, program.defs[f.symbol])

FindingIsReal(f, program, doc) ==
  LET last == f.evidence[Len(f.evidence)]
  IN  /\ f.kind # "component"
      /\ IsGoverned(f, program, doc)
      /\ IsUsePath(program, f.symbol, Symbol, f.evidence)
      /\ Declared(program, doc.table, last, f.effect)
      /\ f.effect = Unknown =>
           ((f.kind = "target") <=>
             \E x \in program.edges : x.callee = last /\ x.resolution = "unresolved")

(* Were `last` alone to perform e, these edges would charge s with it.     *)
Charges(edges, s, last, e) ==
  Carries([edges |-> edges, roots |-> {[symbol |-> last, effect |-> e]}], s, e)

FindingIsLeaked(f, program, doc) ==
  /\ f.kind \notin {"component", "target"}
  /\ IsGoverned(f, program, doc)
  /\ f.evidence = <<>>
  /\ \E last \in Symbol :
       /\ Declared(program, doc.table, last, f.effect)
       /\ Charges(Circuit(program).edges, f.symbol, last, f.effect)
       /\ ~ Charges(program.edges, f.symbol, last, f.effect)

RenderFindingIsReal(f, program, doc) ==
  /\ f.kind = "component"
  /\ doc.component.enabled
  /\ f.effect \in from_table(doc.component)
  /\ f.symbol \in program.components
  /\ program.defs[f.symbol] \notin doc.ignore
  /\ IsUsePath(RenderGraph(program, doc.table), f.symbol, Symbol, f.evidence)
  /\ KnownEnd(program, doc.table, f.evidence[Len(f.evidence)], f.effect)

AlarmsAreReal ==
  \A p \in InMemory : \A f \in findings[p] :
    pc[p] = "done" =>
      \/ FindingIsReal(f, input[p].program, input[p].doc)
      \/ RenderFindingIsReal(f, input[p].program, input[p].doc)
      \/ input[p].engine = "dbsp" /\ FindingIsLeaked(f, input[p].program, input[p].doc)

StoredFacts(st) == [edges |-> stores[st].edges, roots |-> stores[st].effect_roots]

(* The persisted summaries never claim what the persisted facts do not     *)
(* support, at any moment: not between the two transactions of a check,    *)
(* not after a crash there, not while other checks write to the same file. *)
(* A row with an evidence path is backed by that chain of stored uses; one *)
(* without, which only the default engine writes, by the stored edges with *)
(* signatures taken for calls.                                             *)
SummariesBacked ==
  \A st \in DOMAIN stores : \A r \in load_summaries(stores[st].effect_summaries) :
    IF r.evidence = <<>>
    THEN Carries(Circuit(StoredFacts(st)), r.symbol, r.effect)
    ELSE \E q \in SimplePaths :
           /\ Pieces(q) = r.evidence
           /\ IsEvidencePath(StoredFacts(st), r.symbol, r.effect, q)

(* A check whose store is its own - it is in memory, or nobody else is     *)
(* given the same --db - leaves it settled, even when earlier ones died    *)
(* halfway (store.rs, insert_facts and write_summaries).  The reference    *)
(* engine leaves one row for each effect the stored facts carry and none   *)
(* besides.  The default engine leaves the same rows, and one more for     *)
(* each effect that leaks through Type edges: those are exactly the rows   *)
(* without an evidence path.                                               *)
Lone(p) == \A q \in Process : StoreOf(q) = StoreOf(p) => q = p

LeavesSettled(p) ==
  pc[p] \in {"written", "done"} =>
    LET rows == stores[StoreOf(p)].effect_summaries
        stored == StoredFacts(StoreOf(p))
        explained == {r \in rows : r.evidence_path # <<>>}
        PairsOf(some) == {<<r.symbol, r.effect>> : r \in some}
    IN  /\ PairsOf(explained) = Carried(stored)
        /\ PairsOf(rows) = Carried(Fed(stored, input[p].engine))
        /\ Cardinality(rows) = Cardinality(PairsOf(rows))

Settled == \A p \in Process : Lone(p) => LeavesSettled(p)
=============================================================================
