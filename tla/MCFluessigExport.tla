-------------------------- MODULE MCFluessigExport --------------------------
(***************************************************************************)
(* Small instances of FluessigExport: a package of up to MaxParts parts,   *)
(* in every order, with and without its sibling in scope.                  *)
(***************************************************************************)
EXTENDS FluessigExport

CONSTANT MaxParts   \* how many parts a package has

Field(n, t) == [name |-> n, type |-> t, optional |-> FALSE]
Interface(n, fields) == [kind |-> "interface", name |-> n, fields |-> fields, generics |-> {}]
Alias(n, target) == [kind |-> "typeAlias", name |-> n, alias |-> target]
Const(n, t) == [kind |-> "const", name |-> n, type |-> t]
Bare(kind, n) == [kind |-> kind, name |-> n]
Function(n, params, ret) == [kind |-> "function", name |-> n, params |-> params, ret |-> ret, generics |-> {"Item"}]
MethodOf(class, n, params, ret) ==
  [kind |-> "method", name |-> n, params |-> params, ret |-> ret, generics |-> {}, receiver |-> class, within |-> class]

Listener == Arrow(<<Name("Cmd")>>, Prim("void"))
Unsubscribe == Arrow(<<>>, Prim("void"))
Promise(t) == Gen("Promise", t)

Bus == <<Bare("class", "Bus"), MethodOf("Bus", "On", <<Listener>>, Unsubscribe),
         MethodOf("Bus", "Off", <<Name("Gone"), Prim("string")>>, Prim("void"))>>

\* What a package may be made of: data and unions, calls that mint models and
\* handles (two that differ in a promise only), an op that takes anything, the
\* classes and listeners, and what leads to a subscription.
Parts ==
  { <<Interface("Opts", <<Field("A", Or(<<Name("Cmd"), Prim("null")>>)),
                          Field("Deep", Obj(<<Member("X", Name("Evt"), FALSE),
                                              Member("Y", ArrayOf(Obj(<<Member("X", Prim("number"), TRUE)>>)), FALSE)>>)),
                          Field("Hook", Listener)>>)>>,
    <<Alias("Req", Or(<<Name("Opts"), Name("Mode"), Name("Evt")>>)), Alias("Mode", Or(<<Lit("a"), Lit("b")>>))>>,
    <<Alias("Vals", KeyOf("Map")), Bare("namespace", "Util"),
      Function("Log", <<Prim("unknown")>>,
               Handle(<<Method("Close", <<>>, Promise(Prim("void"))),
                        Method("Send", <<Name("Kind")>>, Gen("Record", Prim("any")))>>))>>,
    <<Function("Spawn", <<Obj(<<Member("X", Prim("number"), TRUE)>>), Or(<<Name("Cmd"), Name("Mode")>>)>>,
               Promise(Handle(<<Method("Close", <<>>, Prim("void")), Method("Send", <<Name("Kind")>>, Gen("Record", Prim("any")))>>)))>>,
    <<Function("Watch", <<Listener, Name("Server")>>, Unsubscribe)>>,
    <<Function("Fail", <<Name("Error"), Name("Item"), Dotted("net.Server")>>,
               Gen("AsyncIterable", Handle(<<Method("Send", <<Name("Kind")>>, Gen("Record", Prim("any"))),
                                             Method("Close", <<>>, Prim("void"))>>)))>>,
    <<Const("Shared", Name("Bus")), Const("Loose", Prim("any"))>>,
    Bus,
    Bus \o <<MethodOf("Bus", "On", <<Prim("string"), Listener>>, Unsubscribe)>>,
    <<Bare("class", "Pkg"), MethodOf("Pkg", "Watch", <<Prim("string")>>, Name("Bus"))>>,
    <<Function("Late", <<Obj(<<Member("X", Name("Hidden"), FALSE), Member("", Prim("string"), FALSE)>>)>>,
               Arrow(<<Name("Bus")>>, Prim("number")))>> }

Sibling ==
  <<Interface("Cmd", <<Field("In", Obj(<<Member("K", Name("Evt"), FALSE)>>))>>),
    Interface("Map", <<Field("A", Name("Cmd")), Field("B", Name("Kind"))>>),
    Interface("Hidden", <<Field("A", Name("Error"))>>),
    Interface("Unused", <<Field("A", Name("Hidden"))>>),
    Interface("Opts", <<Field("A", Name("Unused"))>>),
    Alias("Evt", Or(<<Name("Cmd"), Name("Kind"), Name("Sess")>>)),
    Bare("enum", "Kind"), Bare("class", "Sess")>>

\* The packages of up to MaxParts different parts, in every order.
Packages == {FlattenSeq(s) : s \in UNION {{t \in [1..k -> Parts] : \A i, j \in 1..k : t[i] = t[j] => i = j} : k \in 1..MaxParts}}

Scopes == {<<>>, Sibling}
SiblingNames == <<"Cmd", "Evt", "Hidden", "Kind", "Map", "Opts", "Unused">>
=============================================================================
