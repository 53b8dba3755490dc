---------------------------- MODULE LspLanguage ----------------------------
(***************************************************************************)
(* What the extractor knows of a language: the configuration               *)
(* (crates/hinzu-lsp/src/config.rs), which says which package an external  *)
(* file belongs to and which effect a symbol of the package has, and the   *)
(* syntactic rung (treesitter.rs), which says which names of a Python file *)
(* are uses that call hierarchy does not report.                           *)
(***************************************************************************)
EXTENDS Naturals, Sequences, SequencesExt, FiniteSetsExt, TLC

-----------------------------------------------------------------------------
(* A package is the sequence of its segments, a qualified name a sequence  *)
(* of names.  A row of an annotation table is keyed by <<package, name>>;  *)
(* a row for a whole package has the name Whole.                           *)
CONSTANTS
  Tables,     \* sequence of annotation tables, each a function from keys to effects
  Rules,      \* provenance: sequence of [claims, origin, rejects]
  Inherits    \* package_effects_inherit

Whole == <<>>

(* parse_effect_map: one map of all the tables, a later row in place of an *)
(* earlier one.                                                            *)
EffectMap == FoldLeft(LAMBDA map, table : table @@ map, <<>>, Tables)

(* A rule claims the files its pattern matches, unless the package it      *)
(* makes of them starts with a prefix it refuses.                          *)
Applies(rule, file) ==
  file \in DOMAIN rule.claims /\ rule.claims[file][1] \notin rule.rejects

(* The rule that decides the package of a file: the first that applies.    *)
RuleOf(file) == SelectInSeq(Rules, LAMBDA rule : Applies(rule, file))

HasPackage(file) == RuleOf(file) # 0
PackageOf(file) == Rules[RuleOf(file)].claims[file]
OriginOf(file) == Rules[RuleOf(file)].origin

RowFor(package, qual) ==
  IF <<package, qual>> \in DOMAIN EffectMap THEN <<package, qual>> ELSE <<package, Whole>>

(* The lengths of the prefixes of the package that have a row for the      *)
(* name: the package itself, and its ancestors where effects inherit.      *)
Ancestry(package, qual) ==
  {n \in 1..Len(package) : /\ n = Len(package) \/ Inherits
                           /\ RowFor(SubSeq(package, 1, n), qual) \in DOMAIN EffectMap}

(* The effect of a symbol, if it has one: of the nearest ancestor with a   *)
(* row, and there the row of the name before the row of the package.       *)
EffectOf(package, qual) ==
  IF Ancestry(package, qual) = {} THEN {}
  ELSE {EffectMap[RowFor(SubSeq(package, 1, Max(Ancestry(package, qual))), qual)]}

-----------------------------------------------------------------------------
(* A syntax tree is the sequence of its named nodes in document order, so  *)
(* the nodes below one follow it.  A node has a kind, the field it fills   *)
(* in its parent (None if none), its parent up (0 for the root) and a line.*)
CONSTANT None

NameKinds == {"identifier", "attribute"}
Imports == {"import_statement", "import_from_statement"}

(* The callee of a call.                                                   *)
CalleePlace(parent, field) == parent = "call" /\ field = "function"

(* The places in which a name is used as a value.                          *)
ValuePlace(parent, field) ==
  \/ parent = "argument_list" /\ field = None
  \/ parent \in {"keyword_argument", "default_parameter", "pair"} /\ field = "value"
  \/ parent \in {"assignment", "augmented_assignment"} /\ field = "right"
  \/ parent \in {"return_statement", "list", "tuple", "set", "decorator", "expression_statement"}

IsSite(tree, n) ==
  /\ tree[n].kind \in NameKinds
  /\ tree[n].up # 0
  /\ LET parent == tree[tree[n].up].kind
     IN  CalleePlace(parent, tree[n].field) \/ ValuePlace(parent, tree[n].field)

IsCallee(tree, n) == CalleePlace(tree[tree[n].up].kind, tree[n].field)

(* Node a is above node n: all that lies between them hangs below a.       *)
Above(tree, a, n) == a < n /\ \A k \in (a + 1) .. n : tree[k].up >= a

BelowImport(tree, n) == \E a \in DOMAIN tree : Above(tree, a, n) /\ tree[a].kind \in Imports
BelowSite(tree, n) == \E a \in DOMAIN tree : Above(tree, a, n) /\ IsSite(tree, a)

(* Where walk gets to: not below an import, nor below a name it recorded.  *)
Reached(tree, n) == ~BelowImport(tree, n) /\ ~BelowSite(tree, n)

(* The sites; the walk meets them in ascending order.                      *)
Sites(tree) == {n \in DOMAIN tree : Reached(tree, n) /\ IsSite(tree, n)}

(* The token whose definition is asked for: of a.b.c, the property c.      *)
Token(tree, n) ==
  LET Property == {k \in DOMAIN tree : tree[k].up = n /\ tree[k].field = "attribute"}
  IN  IF tree[n].kind = "attribute" /\ Property # {} THEN Min(Property) ELSE n

-----------------------------------------------------------------------------
(* What the names of a file are used for, whatever the walk makes of them. *)

TypedDefault(parent, field) == parent = "typed_default_parameter" /\ field = "value"

(* The names a program uses: every callee and every value, a default       *)
(* parameter with a type among them, wherever they stand but in an import. *)
NamesUsed(tree) ==
  {n \in DOMAIN tree :
     /\ tree[n].kind \in NameKinds
     /\ tree[n].up # 0
     /\ ~BelowImport(tree, n)
     /\ LET parent == tree[tree[n].up].kind
        IN  \/ CalleePlace(parent, tree[n].field)
            \/ ValuePlace(parent, tree[n].field)
            \/ TypedDefault(parent, tree[n].field)}

(* Those no pass looks at: what stands inside a recorded name, like the f  *)
(* and the g of f(g).run(), and the g of def h(cb: T = g).                 *)
Skipped(tree) ==
  {n \in DOMAIN tree :
     \/ BelowSite(tree, n)
     \/ tree[n].up # 0 /\ TypedDefault(tree[tree[n].up].kind, tree[n].field)}
=============================================================================
