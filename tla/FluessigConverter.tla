-------------------------- MODULE FluessigConverter --------------------------
(***************************************************************************)
(* The converter of the fluessig export                                    *)
(* (crates/hinzu-core/src/fluessig_api/{mod,helpers,mint}.rs).  It parses  *)
(* one rendered type after the other and keeps, between them, what it has  *)
(* learnt and minted: a converter is a record, and parsing returns the     *)
(* exported type, whether a Json fallback was reported, and the converter  *)
(* afterwards.                                                             *)
(*                                                                         *)
(* A rendered TypeScript type is a tree: the split the string helpers find *)
(* at the top level is the root of the tree, so that comments, white space *)
(* and redundant parentheses are gone.  Item, field and parameter names    *)
(* are in PascalCase already.                                              *)
(***************************************************************************)
EXTENDS Naturals, Sequences, SequencesExt, FiniteSets, TLC

-----------------------------------------------------------------------------
(* The rendered types an API report holds. *)

Prim(word) == [k |-> "prim", prim |-> word]            \* string, number, void, any, null, true ...
Lit(value) == [k |-> "lit", lit |-> value]             \* a string literal
Name(n) == [k |-> "name", name |-> n]                  \* a bare identifier
Dotted(n) == [k |-> "dotted", path |-> n]              \* net.Server
Gen(head, arg) == [k |-> "gen", head |-> head, arg |-> arg]
ArrayOf(arg) == [k |-> "array", arg |-> arg]           \* T[]
Or(members) == [k |-> "or", members |-> members]       \* A | B
Arrow(params, ret) == [k |-> "arrow", params |-> params, ret |-> ret]
KeyOf(base) == [k |-> "keyof", base |-> base]          \* X[keyof X]

\* An object literal of data members; a member without a name stands for a
\* call or index signature.
Obj(members) == [k |-> "obj", data |-> members]
Member(name, type, optional) == [name |-> name, type |-> type, optional |-> optional]

\* An object literal all of whose members are method signatures.
Handle(methods) == [k |-> "handle", methods |-> methods]
Method(name, params, ret) == [name |-> name, params |-> params, ret |-> ret]

-----------------------------------------------------------------------------
(* The types of api.json. *)

Scalar(s) == [t |-> "scalar", scalar |-> s]
Json == Scalar("Json")
Void == Scalar("void")
ModelRef(n) == [t |-> "model", model |-> n]
EnumRef(n) == [t |-> "enum", enum |-> n]
UnionRef(n) == [t |-> "union", union |-> n]
Foreign(n) == [t |-> "foreign", foreign |-> n]
List(ty) == [t |-> "list", list |-> ty]
Nullable(ty) == [t |-> "nullable", nullable |-> ty]
Callback(params) == [t |-> "callback", callback |-> params]

-----------------------------------------------------------------------------
(* Tests on rendered types. *)

\* Every keyword is an identifier too: is_ident("string") is true.
is_ident(t) == t.k \in {"name", "prim"}
Word(t) == IF t.k = "name" THEN t.name ELSE t.prim

is_null(t) == t \in {Prim("null"), Prim("undefined")}
is_void_ret(t) == t \in {Prim("void"), Prim("undefined"), Prim("never")}
is_untyped_ts_type(t) == t \in {Prim("any"), Prim("unknown"), Prim("object")}

\* A one-letter name is a type parameter by its spelling.
OneLetter == {"T", "U", "K", "V", "R"}
is_generic_param(n) == n \in OneLetter

\* Host types that are written without their module.
Hosts == ("Server" :> "net.Server") @@ ("AbortSignal" :> "AbortSignal")
builtin_foreign(n) == n \in DOMAIN Hosts

\* Builtins with a shape of their own.
Builtins == ("Error" :> "JsError")

\* What the words of the language are exported as.
ScalarOf(word) ==
  CASE word \in {"string", "Date"} -> Scalar("string")
    [] word \in {"boolean", "true", "false"} -> Scalar("boolean")
    [] word = "number" -> Scalar("float64")
    [] word = "bigint" -> Scalar("int64")
    [] word \in {"void", "undefined", "null", "never"} -> Void
    [] word \in {"any", "unknown", "object"} -> Json
    [] word \in {"Uint8Array", "Buffer", "ArrayBuffer"} -> Scalar("bytes")

-----------------------------------------------------------------------------
(* Tests on exported types. *)

RECURSIVE Refs(_)

\* Every reference in an exported type.
Refs(ty) ==
  CASE ty.t \in {"model", "enum", "union"} -> {ty}
    [] ty.t = "list" -> Refs(ty.list)
    [] ty.t = "nullable" -> Refs(ty.nullable)
    [] ty.t = "callback" -> UNION {Refs(ty.callback[i]) : i \in DOMAIN ty.callback}
    [] OTHER -> {}

\* The models and handles a type hands out (it does not look into unions).
collect_model_refs(ty) == {r.model : r \in {q \in Refs(ty) : q.t = "model"}}

RECURSIVE ShowsJson(_)

\* Whether a type is or holds the Json fallback where its reader sees it.
ShowsJson(ty) ==
  CASE ty = Json -> TRUE
    [] ty.t = "list" -> ShowsJson(ty.list)
    [] ty.t = "nullable" -> ShowsJson(ty.nullable)
    [] ty.t = "callback" -> \E i \in DOMAIN ty.callback : ShowsJson(ty.callback[i])
    [] OTHER -> FALSE

RECURSIVE returns_is_callback(_)

returns_is_callback(ty) ==
  \/ ty.t = "callback"
  \/ ty.t = "nullable" /\ returns_is_callback(ty.nullable)

unwrap_nullable(ty) == IF ty.t = "nullable" THEN ty.nullable ELSE ty

\* The word that names a union's member which is no identifier.
structural_label(ty) == IF ty.t = "scalar" THEN ty.scalar ELSE "Member"

-----------------------------------------------------------------------------
(* The converter. *)

\* The converter over a resolution context, with nothing minted.
NewConverter(context) ==
  context @@ [generics |-> {}, needed |-> {}, unions |-> <<>>, minted |-> <<>>, builtins |-> {},
              handles |-> <<>>, ops_clean |-> 0, ops_degraded |-> 0, candidates |-> <<>>]

Clean(ty, c) == [ty |-> ty, degraded |-> FALSE, c |-> c]
degrade(c) == [ty |-> Json, degraded |-> TRUE, c |-> c]

\* Referring to a type of a sibling package asks for it.
note_ref(c, n) == IF n \in c.context_names THEN [c EXCEPT !.needed = @ \union {n}] ELSE c

-----------------------------------------------------------------------------
(* Identifiers. *)

\* A builtin with a shape of its own is declared as a model, once.
reference_builtin_model(n, c) ==
  Clean(ModelRef(Builtins[n]),
        [c EXCEPT !.known_models = @ \union {Builtins[n]}, !.builtins = @ \union {Builtins[n]}])

\* Whatever is neither external nor a handle stays an honest Json.
resolve_unresolved(n, c) ==
  IF n \in DOMAIN Builtins THEN reference_builtin_model(n, c)
  ELSE IF n \in c.generics \/ is_generic_param(n) THEN degrade(c)
  ELSE IF builtin_foreign(n) THEN Clean(Foreign(Hosts[n]), c)
  ELSE IF n \in c.known_interfaces THEN Clean(ModelRef(n), c)
  ELSE degrade(c)

parse_named(n, c) ==
  IF n \in c.known_enums THEN Clean(EnumRef(n), note_ref(c, n))
  ELSE IF n \in c.known_models THEN Clean(ModelRef(n), note_ref(c, n))
  ELSE IF n \in c.known_unions THEN Clean(UnionRef(n), note_ref(c, n))
  ELSE resolve_unresolved(n, c)

-----------------------------------------------------------------------------
(* Names for what has none. *)

\* The counter a taken name is disambiguated with; no surface comes near it.
MaxSuffix == 9

\* Taken are the names of models and enums: not those of unions, handles'
\* classes or the package's own interface.
unique_minted_name(hint, c) ==
  LET base == IF hint = "" THEN "InlineObject" ELSE hint
      Candidate(i) == IF i = 1 THEN base ELSE base \o ToString(i)
      free == {i \in 1..MaxSuffix : Candidate(i) \notin c.known_models \union c.known_enums}
  IN Candidate(CHOOSE i \in free : \A j \in free : i <= j)

\* An order-independent signature: equal records are one model.
object_signature(fields) == ToSet(fields)

mint_object_model(fields, hint, c) ==
  LET same == {n \in DOMAIN c.minted : object_signature(c.minted[n]) = object_signature(fields)}
      name == unique_minted_name(hint, c)
  IN IF same # {} THEN Clean(ModelRef(CHOOSE n \in same : TRUE), c)
     ELSE Clean(ModelRef(name), [c EXCEPT !.known_models = @ \union {name},
                                          !.minted = (name :> fields) @@ @])

method_set_signature(ops) ==
  {<<o.name, o.params, o.returns, o.is_async, o.shape>> : o \in ToSet(ops)}

\* The ops of a handle count once, however often it is met.
mint_interface(ops, hint, c) ==
  LET same == {n \in DOMAIN c.handles : method_set_signature(c.handles[n]) = method_set_signature(ops)}
      name == unique_minted_name(hint, c)
      bad == Len(SelectSeq(ops, LAMBDA o : o.degraded))
  IN IF same # {} THEN Clean(ModelRef(CHOOSE n \in same : TRUE), c)
     ELSE Clean(ModelRef(name), [c EXCEPT !.known_models = @ \union {name},
                                          !.handles = (name :> ops) @@ @,
                                          !.ops_degraded = @ + bad,
                                          !.ops_clean = @ + Len(ops) - bad])

-----------------------------------------------------------------------------
(* Types. *)

Transparent == {"Promise", "Readonly", "Partial", "Required", "NonNullable", "Awaited"}
Lists == {"Array", "ReadonlyArray", "ReadonlySet", "Set"}
Streams == {"AsyncIterable", "AsyncGenerator", "AsyncIterableIterator"}

RECURSIVE parse_type(_, _, _)

\* One more type parsed after those of acc.
AndType(acc, p) == [tys |-> Append(acc.tys, p.ty), degraded |-> acc.degraded \/ p.degraded, c |-> p.c]

\* Types parsed one after the other, under one hint.
ParseEach(types, hint, c) ==
  FoldLeft(LAMBDA acc, t : AndType(acc, parse_type(t, hint, acc.c)),
           [tys |-> <<>>, degraded |-> FALSE, c |-> c], types)

\* One more field parsed, as p, after those of acc.
AndField(acc, f, p) ==
  [fields |-> Append(acc.fields, [name |-> f.name, ty |-> unwrap_nullable(p.ty),
                                  nullable |-> f.optional \/ p.ty.t = "nullable"]),
   c |-> p.c]

\* Fields parsed one after the other, each under a hint of its own.
ParseFields(fields, hint, c) ==
  FoldLeft(LAMBDA acc, f : AndField(acc, f, parse_type(f.type, hint \o f.name, acc.c)),
           [fields |-> <<>>, c |-> c], fields)

\* A member of a union that is an identifier keeps its name, defined or not.
union_member(t, hint, c) ==
  LET Labelled(p) == [p |-> p, label |-> structural_label(p.ty)]
  IN IF ~is_ident(t) THEN Labelled(parse_type(t, hint, c))
  ELSE [p |-> Clean(IF Word(t) \in c.known_enums THEN EnumRef(Word(t)) ELSE ModelRef(Word(t)),
                    note_ref(c, Word(t))),
        label |-> Word(t)]

synthesize_union(members, hint, c) ==
  LET AndMember(acc, u) ==
        [name |-> acc.name \o (IF acc.name = "" THEN "" ELSE "Or") \o u.label, all |-> AndType(acc.all, u.p)]
      Declared(name, all) ==
        [ty |-> UnionRef(name), degraded |-> all.degraded, c |-> [all.c EXCEPT !.unions = @ @@ (name :> all.tys)]]
      Named(acc) == Declared(acc.name \o "Union", acc.all)
  IN Named(FoldLeft(LAMBDA acc, t : AndMember(acc, union_member(t, hint, acc.all.c)),
                    [name |-> "", all |-> [tys |-> <<>>, degraded |-> FALSE, c |-> c]], members))

parse_union(members, hint, c) ==
  LET rest == SelectSeq(members, LAMBDA m : ~is_null(m))
      inner == CASE rest = <<>> -> Clean(Void, c)
                 [] Len(rest) = 1 -> parse_type(rest[1], hint, c)
                 [] Len(rest) > 1 ->
                      IF \A m \in ToSet(rest) : m.k = "lit" THEN Clean(Scalar("string"), c)
                      ELSE IF ToSet(rest) \subseteq {Prim("true"), Prim("false")} THEN Clean(Scalar("boolean"), c)
                      ELSE synthesize_union(rest, hint, c)
      nullable == rest # <<>> /\ Len(rest) < Len(members)
  IN [inner EXCEPT !.ty = IF nullable THEN Nullable(@) ELSE @]

\* Only a synchronous function without a result is a callback.
parse_function_type(t, hint, c) ==
  LET Called(ps) == [ty |-> Callback(ps.tys), degraded |-> ps.degraded, c |-> ps.c]
  IN IF is_void_ret(t.ret) THEN Called(ParseEach(t.params, hint, c)) ELSE degrade(c)

\* A promise of the result makes the op asynchronous.
parse_op_return(ret, hint, c) ==
  LET stream == ret.k = "gen" /\ ret.head \in Streams
      p == parse_type(IF stream THEN ret.arg ELSE ret, hint, c)
  IN [shape |-> IF stream THEN "stream" ELSE "unary",
      is_async |-> ret.k = "gen" /\ ret.head = "Promise"] @@ p

\* Parameters, each under a hint of its own; a parameter's name is its place.
ParseParams(types, hint, c) ==
  LET Role(i) == hint \o "Arg" \o ToString(i)
      Bare(p) == [p EXCEPT !.ty = unwrap_nullable(@)]
  IN FoldLeft(LAMBDA acc, i : AndType(acc, Bare(parse_type(types[i], Role(i), acc.c))),
              [tys |-> <<>>, degraded |-> FALSE, c |-> c], [i \in 1..Len(types) |-> i])

build_mint_op(m, hint, c) ==
  LET Op(ret, ps) == [op |-> [name |-> m.name, params |-> ps.tys, returns |-> ret.ty, shape |-> ret.shape,
                              is_async |-> ret.is_async, degraded |-> ret.degraded \/ ps.degraded],
                      c |-> ps.c]
      Returning(ret) == Op(ret, ParseParams(m.params, hint \o m.name, ret.c))
  IN Returning(parse_op_return(m.ret, hint \o m.name \o "Result", c))

\* One more op built, as b, after those of acc.
AndOp(acc, b) == [ops |-> Append(acc.ops, b.op), c |-> b.c]

try_mint_method_interface(methods, hint, c) ==
  LET Minted(built) == mint_interface(built.ops, hint, built.c)
  IN Minted(FoldLeft(LAMBDA acc, m : AndOp(acc, build_mint_op(m, hint, acc.c)),
                     [ops |-> <<>>, c |-> c], methods))

\* The members up to the first signature are parsed before it degrades; what
\* degraded inside is not reported outside.
parse_inline_object(members, hint, c) ==
  LET signatures == {i \in DOMAIN members : members[i].name = ""}
      first == CHOOSE i \in signatures : \A j \in signatures : i <= j
      Minted(parsed) == mint_object_model(parsed.fields, hint, parsed.c)
  IN IF members = <<>> THEN degrade(c)
     ELSE IF signatures # {} THEN degrade(ParseFields(SubSeq(members, 1, first - 1), hint, c).c)
     ELSE Minted(ParseFields(members, hint, c))

parse_type(t, hint, c) ==
  LET ListOf(arg) == [parse_type(arg, hint, c) EXCEPT !.ty = List(@)]
  IN CASE t.k = "gen" /\ t.head \in Transparent -> parse_type(t.arg, hint, c)
       [] t.k = "gen" /\ t.head \in Lists -> ListOf(t.arg)
       [] t.k = "gen" /\ t.head \notin Transparent \union Lists -> degrade(c)
       [] t.k = "array" -> ListOf(t.arg)
       [] t.k = "or" -> parse_union(t.members, hint, c)
       [] t.k = "arrow" -> parse_function_type(t, hint, c)
       [] t.k = "obj" -> parse_inline_object(t.data, hint, c)
       [] t.k = "handle" -> try_mint_method_interface(t.methods, hint, c)
       [] t.k = "keyof" -> degrade(c)
       [] t.k = "lit" -> Clean(Scalar("string"), c)
       [] t.k = "prim" -> Clean(ScalarOf(t.prim), c)
       [] t.k = "dotted" -> Clean(Foreign(t.path), c)
       [] t.k = "name" -> parse_named(t.name, c)

-----------------------------------------------------------------------------
(* Aliases that become unions. *)

\* The members a union alias is lifted with, X[keyof X] expanded to the types
\* of X's fields; none when it is not liftable.
expand_alias_union_members(target, indexable) ==
  LET top == IF target.k = "or" THEN target.members ELSE <<target>>
      indexed == {i \in DOMAIN top : top[i].k = "keyof"}
      out == FlattenSeq([i \in DOMAIN top |-> IF i \in indexed THEN indexable[top[i].base] ELSE <<top[i]>>])
  IN IF \E i \in indexed : top[i].base \notin DOMAIN indexable THEN <<>>
     ELSE IF indexed = {} /\ Len(top) < 2 THEN <<>>
     ELSE IF \A m \in ToSet(out) : m.k = "lit" THEN <<>>
     ELSE out

lift_alias_union(name, members, c) ==
  LET Declared(all) == [all.c EXCEPT !.unions = (name :> all.tys) @@ @]
  IN IF name \in DOMAIN c.unions THEN c ELSE Declared(ParseEach(members, "", c))

string_literal_union(target) ==
  /\ target.k = "or"
  /\ \A m \in ToSet(target.members) : m.k = "lit"
=============================================================================
