---------------------------- MODULE FluessigExport ----------------------------
(***************************************************************************)
(* The fluessig export of an API report (build_fluessig in                 *)
(* crates/hinzu-core/src/fluessig_api/mod.rs).  The items of the primary   *)
(* package are converted one after the other; then the types of sibling    *)
(* packages that were referred to are pulled in, which may refer to more;  *)
(* then what was minted is folded in, and the ops that return an           *)
(* unsubscribe function, which had to wait until every reference was       *)
(* known, become subscriptions or degrade.                                 *)
(***************************************************************************)
EXTENDS FluessigConverter

CONSTANTS
  Reports,        \* the item lists a primary package may have
  Contexts,       \* the item lists of its sibling packages
  Package,        \* the name of the interface of the free functions
  NameOrder       \* the names of the context's types, in order

VARIABLES
  report,         \* the items of the primary package
  context,        \* the items of the sibling packages
  phase,          \* "items", "context", "fold", "promote" or "done"
  at,             \* the next item
  conv,           \* the converter
  models,         \* the models emitted, in order
  interfaces,     \* the interfaces emitted, in order
  consts,         \* the types of the constants emitted
  enums,          \* the names of the enums emitted
  free_ops,       \* the ops of the free functions
  batch,          \* the context types of this round
  emitted_ctx     \* the context types pulled in

vars == <<report, context, phase, at, conv, models, interfaces, consts, enums, free_ops, batch, emitted_ctx>>

-----------------------------------------------------------------------------
(* The names that resolve. *)

NamesOf(items, Kinds) == {it.name : it \in {x \in ToSet(items) : x.kind \in Kinds}}
Aliases(items, Test(_)) == {it.name : it \in {x \in ToSet(items) : x.kind = "typeAlias" /\ Test(x.alias)}}

ModelKinds == {"interface", "record"}

FirstNamed(items, n, Kinds) ==
  items[CHOOSE i \in DOMAIN items : /\ items[i].name = n /\ items[i].kind \in Kinds
                                    /\ \A j \in 1..i-1 : items[j].name # n \/ items[j].kind \notin Kinds]

LastNamed(items, n, Kinds) == FirstNamed(Reverse(items), n, Kinds)

FieldTypes(it) == [i \in DOMAIN it.fields |-> it.fields[i].type]

primary_names(items) == {it.name : it \in ToSet(items)}

\* A sibling's type of a primary's name is passed over.
Siblings(items, ctx) == SelectSeq(ctx, LAMBDA it : it.name \notin primary_names(items))

\* Of a name that is declared twice, the primary's last declaration counts,
\* and the first of a sibling.
indexable(items, ctx) ==
  LET siblings == Siblings(items, ctx)
      Fields(n) == FieldTypes(IF n \in NamesOf(items, ModelKinds) THEN LastNamed(items, n, ModelKinds)
                              ELSE FirstNamed(siblings, n, ModelKinds))
  IN [n \in NamesOf(items \o siblings, ModelKinds) |-> Fields(n)]

EnumNames(items) == NamesOf(items, {"enum"}) \union Aliases(items, string_literal_union)

UnionNames(items, index, known_enums) ==
  Aliases(items, LAMBDA target : expand_alias_union_members(target, index) # <<>>) \ known_enums

\* A method belongs to the class that receives it or whose identifier its own extends.
IsOurs(class, it) == it.kind = "method" /\ (it.receiver = class.name \/ it.within = class.name)

method_bearing_classes(items) ==
  {c.name : c \in {x \in ToSet(items) : x.kind = "class" /\ \E it \in ToSet(items) : IsOurs(x, it)}}

ResolutionContext(items, ctx) ==
  LET siblings == Siblings(items, ctx)
      index == indexable(items, ctx)
      known_enums == EnumNames(items) \union EnumNames(siblings)
      context_unions == UnionNames(siblings, index, known_enums)
  IN [indexable |-> index,
      known_enums |-> known_enums,
      known_models |-> NamesOf(items \o siblings, ModelKinds),
      known_unions |-> UnionNames(items, index, known_enums) \union context_unions,
      context_names |-> NamesOf(siblings, ModelKinds) \union EnumNames(siblings) \union context_unions,
      known_interfaces |-> method_bearing_classes(items)]

-----------------------------------------------------------------------------
(* The items. *)

Init ==
  /\ report \in Reports /\ context \in Contexts
  /\ phase = "items" /\ at = 1
  /\ conv = NewConverter(ResolutionContext(report, context))
  /\ models = <<>> /\ interfaces = <<>> /\ consts = <<>> /\ free_ops = <<>> /\ batch = <<>>
  /\ enums = EnumNames(report) /\ emitted_ctx = {}

Item == report[at]
AtItem(Kinds) == phase = "items" /\ at <= Len(report) /\ Item.kind \in Kinds

\* A field that is a function is a method of the interface, and no data.
build_model(it, c) ==
  LET Model(built) == [model |-> [name |-> it.name, fields |-> built.fields], c |-> [built.c EXCEPT !.generics = {}]]
  IN Model(ParseFields(SelectSeq(it.fields, LAMBDA f : f.type.k # "arrow"), it.name,
                       [c EXCEPT !.generics = it.generics]))

Tallied_AtOnce(c, op, owner) ==
  LET counted == IF op.degraded THEN [c EXCEPT !.ops_degraded = @ + 1] ELSE [c EXCEPT !.ops_clean = @ + 1]
  IN IF returns_is_callback(op.returns)
     THEN [counted EXCEPT !.candidates =
            Append(@, [interface |-> owner, op |-> op.name,
                       idiom |-> Len(op.params) = 1 /\ returns_is_callback(op.params[1]),
                       param_degraded |-> op.degraded])]
     ELSE counted

\* An op that returns a callback is counted and finished at the end.
Tallied(c, op, owner) ==
  IF returns_is_callback(op.returns)
  THEN [c EXCEPT !.candidates =
         Append(@, [interface |-> owner, op |-> op.name,
                    idiom |-> Len(op.params) = 1 /\ returns_is_callback(op.params[1]),
                    param_degraded |-> op.degraded])]
  ELSE IF op.degraded THEN [c EXCEPT !.ops_degraded = @ + 1]
  ELSE [c EXCEPT !.ops_clean = @ + 1]

\* A function that is declared async has a promise for its rendered result.
build_op(it, owner, c) ==
  LET Counted(op, after) == [op |-> op, c |-> Tallied([after EXCEPT !.generics = {}], op, owner)]
      Op(ret, ps) ==
        Counted([name |-> it.name, params |-> ps.tys, returns |-> ret.ty, shape |-> ret.shape,
                 is_async |-> ret.is_async,
                 degraded |-> ps.degraded \/ (ret.degraded /\ ~returns_is_callback(ret.ty))], ps.c)
      Returning(ret) == Op(ret, ParseParams(it.params, it.name, ret.c))
  IN Returning(parse_op_return(it.ret, it.name \o "Result", [c EXCEPT !.generics = it.generics]))

build_ops(items, owner, c) ==
  FoldLeft(LAMBDA acc, it : AndOp(acc, build_op(it, owner, acc.c)),
           [ops |-> <<>>, c |-> c], items)

ModelItem ==
  /\ AtItem(ModelKinds)
  /\ \E b \in {build_model(Item, conv)} : models' = Append(models, b.model) /\ conv' = b.c
  /\ at' = at + 1
  /\ UNCHANGED <<report, context, phase, interfaces, consts, enums, free_ops, batch, emitted_ctx>>

ClassItem ==
  /\ AtItem({"class"})
  /\ \E b \in {build_ops(SelectSeq(report, LAMBDA it : IsOurs(Item, it)), Item.name, conv)} :
       interfaces' = Append(interfaces, [name |-> Item.name, ops |-> b.ops]) /\ conv' = b.c
  /\ at' = at + 1
  /\ UNCHANGED <<report, context, phase, models, consts, enums, free_ops, batch, emitted_ctx>>

FunctionItem ==
  /\ AtItem({"function"})
  /\ \E b \in {build_op(Item, Package, conv)} : free_ops' = Append(free_ops, b.op) /\ conv' = b.c
  /\ at' = at + 1
  /\ UNCHANGED <<report, context, phase, models, interfaces, consts, enums, batch, emitted_ctx>>

\* A constant without a type is dropped.
ConstItem ==
  /\ AtItem({"const"})
  /\ IF is_untyped_ts_type(Item.type) THEN UNCHANGED <<consts, conv>>
     ELSE \E p \in {parse_type(Item.type, "", conv)} : consts' = Append(consts, p.ty) /\ conv' = p.c
  /\ at' = at + 1
  /\ UNCHANGED <<report, context, phase, models, interfaces, enums, free_ops, batch, emitted_ctx>>

Lifted(it, c) ==
  lift_alias_union(it.name, expand_alias_union_members(it.alias, c.indexable), c)

\* Methods went with their class, enums with the names; the rest is dropped.
OtherItem ==
  /\ AtItem({"method", "enum", "typeAlias", "namespace"})
  /\ conv' = IF Item.kind = "typeAlias" /\ Item.name \in conv.known_unions THEN Lifted(Item, conv) ELSE conv
  /\ at' = at + 1
  /\ UNCHANGED <<report, context, phase, models, interfaces, consts, enums, free_ops, batch, emitted_ctx>>

GroupFreeFunctions ==
  /\ phase = "items" /\ at > Len(report)
  /\ interfaces' = IF free_ops = <<>> THEN interfaces
                   ELSE Append(interfaces, [name |-> Package, ops |-> free_ops])
  /\ phase' = "context"
  /\ UNCHANGED <<report, context, at, conv, models, consts, enums, free_ops, batch, emitted_ctx>>

-----------------------------------------------------------------------------
(* The types of sibling packages. *)

missing_All(c, emitted) == SelectSeq(NameOrder, LAMBDA n : n \in c.context_names \ emitted)

\* The types needed that are not yet emitted.
missing(c, emitted) == SelectSeq(NameOrder, LAMBDA n : n \in c.needed \ emitted)

NextBatch ==
  /\ phase = "context" /\ batch = <<>>
  /\ batch' = missing(conv, emitted_ctx)
  /\ phase' = IF batch' = <<>> THEN "fold" ELSE phase
  /\ UNCHANGED <<report, context, at, conv, models, interfaces, consts, enums, free_ops, emitted_ctx>>

PullContext ==
  /\ phase = "context" /\ batch # <<>>
  /\ LET n == Head(batch)
         siblings == Siblings(report, context)
         Pull(it) == \E b \in {build_model(it, conv)} : models' = Append(models, b.model) /\ conv' = b.c
     IN /\ emitted_ctx' = emitted_ctx \union {n}
        /\ \/ /\ n \in NamesOf(siblings, ModelKinds)
              /\ Pull(FirstNamed(siblings, n, ModelKinds)) /\ UNCHANGED enums
           \/ /\ n \in EnumNames(siblings) \ NamesOf(siblings, ModelKinds)
              /\ enums' = enums \union {n} /\ UNCHANGED <<models, conv>>
           \/ /\ n \notin EnumNames(siblings) \union NamesOf(siblings, ModelKinds)
              /\ conv' = Lifted(FirstNamed(siblings, n, {"typeAlias"}), conv)
              /\ UNCHANGED <<models, enums>>
  /\ batch' = Tail(batch)
  /\ UNCHANGED <<report, context, phase, at, interfaces, consts, free_ops>>

-----------------------------------------------------------------------------
(* What was minted, and the subscriptions. *)

JsError == [name |-> "JsError", fields |-> <<[name |-> "Stack", ty |-> Scalar("string"), nullable |-> TRUE]>>]

\* The documents are sorted by name in the end.
Folded(xs, made) == FoldSet(LAMBDA n, acc : Append(acc, made[n]), xs, DOMAIN made)

Fold ==
  /\ phase = "fold" /\ phase' = "promote"
  /\ models' = Folded(models, [n \in DOMAIN conv.minted |-> [name |-> n, fields |-> conv.minted[n]]])
                \o (IF conv.builtins = {} THEN <<>> ELSE <<JsError>>)
  /\ interfaces' = Folded(interfaces, [n \in DOMAIN conv.handles |-> [name |-> n, ops |-> conv.handles[n]]])
  /\ UNCHANGED <<report, context, at, conv, consts, enums, free_ops, batch, emitted_ctx>>

OpsOf(ifaces) == UNION {ToSet(i.ops) : i \in ToSet(ifaces)}

constructible_interfaces_All(ifaces, ms, cs, classes) == classes

constructible_interfaces(ifaces, ms, cs, classes) ==
  LET OpTypes(op) == {op.returns} \union ToSet(op.params)
      all == UNION {OpTypes(op) : op \in OpsOf(ifaces)}
             \union {f.ty : f \in UNION {ToSet(m.fields) : m \in ToSet(ms)}}
             \union ToSet(cs)
  IN classes \intersect UNION {collect_model_refs(ty) : ty \in all}

\* A change to the first op of a name, on the first interface of a name.
WithOp(ifaces, candidate, promoted) ==
  LET Change(op) == IF promoted THEN [op EXCEPT !.shape = "subscription", !.returns = Void]
                    ELSE [op EXCEPT !.returns = Json]
      First(xs, n) == {i \in DOMAIN xs : xs[i].name = n /\ \A j \in 1..i-1 : xs[j].name # n}
  IN [i \in DOMAIN ifaces |->
       IF i \notin First(ifaces, candidate.interface) THEN ifaces[i]
       ELSE [ifaces[i] EXCEPT !.ops = [o \in DOMAIN @ |->
              IF o \in First(@, candidate.op) THEN Change(@[o]) ELSE @[o]]]]

promote_subscriptions(ifaces, c, constructible) ==
  FoldLeft(LAMBDA acc, k :
             LET promoted == k.idiom /\ k.interface \in constructible
             IN [ifaces |-> WithOp(acc.ifaces, k, promoted),
                 c |-> IF promoted /\ ~k.param_degraded THEN [acc.c EXCEPT !.ops_clean = @ + 1]
                       ELSE [acc.c EXCEPT !.ops_degraded = @ + 1]],
           [ifaces |-> ifaces, c |-> c], c.candidates)

Promote ==
  /\ phase = "promote" /\ phase' = "done"
  /\ LET p == promote_subscriptions(interfaces, conv,
                constructible_interfaces(interfaces, models, consts, conv.known_interfaces))
     IN interfaces' = p.ifaces /\ conv' = p.c
  /\ UNCHANGED <<report, context, at, models, consts, enums, free_ops, batch, emitted_ctx>>

Next ==
  \/ ModelItem \/ ClassItem \/ FunctionItem \/ ConstItem \/ OtherItem \/ GroupFreeFunctions
  \/ NextBatch \/ PullContext \/ Fold \/ Promote

Spec == Init /\ [][Next]_vars

-----------------------------------------------------------------------------
(* What the export promises. *)

RECURSIVE Subterms(_)

\* The rendered types in a rendered type, itself included.
Subterms(t) ==
  LET All(ts) == UNION {Subterms(ts[i]) : i \in DOMAIN ts}
  IN {t} \union
     CASE t.k \in {"gen", "array"} -> Subterms(t.arg)
       [] t.k = "or" -> All(t.members)
       [] t.k = "arrow" -> All(t.params)
       [] t.k = "obj" -> All([i \in DOMAIN t.data |-> t.data[i].type])
       [] t.k = "handle" -> UNION {All(m.params) \union Subterms(m.ret) : m \in ToSet(t.methods)}
       [] OTHER -> {}

ItemTypes(it, index) ==
  LET All(ts) == UNION {Subterms(ts[i]) : i \in DOMAIN ts}
  IN CASE it.kind \in ModelKinds -> All(FieldTypes(it))
       [] it.kind \in {"function", "method"} -> All(it.params) \union Subterms(it.ret)
       [] it.kind = "const" -> Subterms(it.type)
       [] it.kind = "typeAlias" -> All(expand_alias_union_members(it.alias, index))
       [] OTHER -> {}

\* The names an item is written with.
ItemMentions(it, index) == {t.name : t \in {x \in ItemTypes(it, index) : x.k = "name"}}

RECURSIVE AsksForJson(_)

\* any, unknown or object is written where the exported type shows it: what
\* is exported as Json then is no fallback.
AsksForJson(t) ==
  CASE t.k = "prim" -> is_untyped_ts_type(t)
    [] t.k = "array" \/ (t.k = "gen" /\ t.head \in Transparent \union Lists \union Streams) -> AsksForJson(t.arg)
    [] t.k = "or" -> \E i \in DOMAIN t.members : AsksForJson(t.members[i])
    [] t.k = "arrow" -> \E i \in DOMAIN t.params : AsksForJson(t.params[i])
    [] OTHER -> FALSE

\* The ops that are written so, functions and methods or methods of handles.
JsonOnPurpose ==
  LET items == ToSet(report \o Siblings(report, context))
      handles == {t \in UNION {ItemTypes(it, conv.indexable) : it \in items} : t.k = "handle"}
      written == {it \in ToSet(report) : it.kind \in {"function", "method"}}
                   \union UNION {ToSet(t.methods) : t \in handles}
  IN {o.name : o \in {x \in written : \E t \in ToSet(x.params) \union {x.ret} : AsksForJson(t)}}

RECURSIVE Reached(_, _)

\* The sibling types a set of names leads to, name by name.
Reached(names, siblings) ==
  LET more == names \union UNION {ItemMentions(it, conv.indexable) : it \in {x \in ToSet(siblings) : x.name \in names}}
  IN IF more = names THEN names \intersect conv.context_names ELSE Reached(more, siblings)

Defined(ref) ==
  CASE ref.t = "model" -> ref.model \in {m.name : m \in ToSet(models)} \union {i.name : i \in ToSet(interfaces)}
    [] ref.t = "enum" -> ref.enum \in enums
    [] ref.t = "union" -> ref.union \in DOMAIN conv.unions

\* Every type the documents show, but for the members of unions that were
\* synthesized: these keep the name of a model nothing defines.
EmittedTypes ==
  UNION {{op.returns} \union ToSet(op.params) : op \in OpsOf(interfaces)}
  \union {f.ty : f \in UNION {ToSet(m.fields) : m \in ToSet(models)}}
  \union ToSet(consts)
  \union UNION {ToSet(conv.unions[u]) : u \in DOMAIN conv.unions \intersect conv.known_unions}

\* "Emission stays scoped: only the sibling types the primary surface
\* transitively references are pulled into the output" (mod.rs:975-977), and
\* all of them are: what the documents refer to, they define, and no sibling
\* type is in them that the primary's types do not lead to.
ScopedEmission ==
  phase = "done" =>
    /\ \A ty \in EmittedTypes : \A ref \in Refs(ty) : Defined(ref)
    /\ emitted_ctx \subseteq
         Reached(UNION {ItemMentions(it, conv.indexable) : it \in ToSet(report)}, Siblings(report, context))

\* Ops are told apart by their interface and name: no overloads, and no class
\* with the name of the package.
OpsDistinct ==
  /\ \A i, j \in DOMAIN interfaces : interfaces[i].name = interfaces[j].name => i = j
  /\ \A i \in DOMAIN interfaces : \A o, p \in DOMAIN interfaces[i].ops :
       interfaces[i].ops[o].name = interfaces[i].ops[p].name => o = p

\* The coverage the export reports is honest: it counts every op of the
\* document once, the deferred ones and those of minted handles too, and,
\* where ops are told apart by name, counts as clean no op whose signature
\* shows Json, unless it is written with any, unknown or object: that is
\* exported as Json and counts as clean.
OpsCountedHonestly ==
  LET ops == FoldLeft(LAMBDA acc, i : acc \o i.ops, <<>>, interfaces)
      Shows(op) == op.name \notin JsonOnPurpose /\ \E ty \in {op.returns} \union ToSet(op.params) : ShowsJson(ty)
  IN phase = "done" =>
       /\ conv.ops_clean + conv.ops_degraded = Len(ops)
       /\ OpsDistinct => conv.ops_clean <= Len(SelectSeq(ops, LAMBDA op : ~Shows(op)))

\* "Never a subscription fluessig would reject" (mod.rs:1260-1262): where ops
\* are told apart by name, no op of a class or of the package is left with an
\* unsubscribe function for a result, and a subscription takes one callback,
\* has no result, and belongs to a class the surface hands out.
SubscriptionsHaveAHome ==
  (phase = "done" /\ OpsDistinct) =>
    \A i \in {x \in ToSet(interfaces) : x.name \notin DOMAIN conv.handles} : \A op \in ToSet(i.ops) :
      /\ ~returns_is_callback(op.returns)
      /\ op.shape = "subscription" =>
           /\ op.returns = Void /\ Len(op.params) = 1 /\ returns_is_callback(op.params[1])
           /\ i.name \in UNION {ItemMentions(it, conv.indexable) : it \in ToSet(report \o context)}

=============================================================================
