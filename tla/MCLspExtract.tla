---------------------------- MODULE MCLspExtract ----------------------------
(***************************************************************************)
(* A small Python project: two modules of its own, a vendored copy below   *)
(* an excluded directory, and four external files.                         *)
(*                                                                         *)
(*   1  store.py   class Store with __init__ and load; outer, with a local *)
(*                 class Local                                             *)
(*   2  main.py    main(make: T = outer), and code at module level         *)
(*   3  vendor/old.py, excluded                                            *)
(*   11 os.pyi     of the standard library, system and getcwd              *)
(*   12 sqlalchemy/engine/create.py, create_engine and class Engine        *)
(*   13 plugin.so.pyi, of no package                                       *)
(*   4  empty.py   without a function, create_engine(system).connect() and *)
(*                 poke() at module level                                  *)
(***************************************************************************)
EXTENDS LspExtract

Entry(f, isFile, dirs, suffix) ==
  [file |-> f, is_file |-> isFile, dirs |-> dirs, suffix |-> suffix]

ProjectEntries == {
  Entry(1, TRUE, {}, ".py"), Entry(2, TRUE, {}, ".py"), Entry(3, TRUE, {"vendor"}, ".py"),
  Entry(4, TRUE, {}, ".py"), Entry(5, FALSE, {}, ".py")}

Sym(name, kind, lo, hi, sel, up) ==
  [name |-> name, kind |-> kind, lo |-> lo, hi |-> hi, sel |-> sel, up |-> up]

ProjectSymbols ==
  1 :> << Sym("Store", "Class", 1, 6, 1, 0), Sym("__init__", "Method", 2, 3, 2, 1),
          Sym("load", "Method", 4, 6, 4, 1), Sym("outer", "Function", 8, 14, 8, 0),
          Sym("Local", "Class", 9, 11, 9, 4), Sym("__init__", "Method", 10, 11, 10, 5),
          Sym("load", "Function", 12, 13, 12, 4) >>
  @@ 2 :> << Sym("main", "Function", 2, 5, 2, 0), Sym("limit", "Variable", 7, 7, 7, 0) >>
  @@ 3 :> << Sym("old", "Function", 1, 3, 1, 0) >>
  @@ 4 :> <<>>
  @@ 11 :> << Sym("system", "Function", 1, 1, 1, 0), Sym("getcwd", "Function", 3, 3, 3, 0) >>
  @@ 12 :> << Sym("create_engine", "Function", 1, 4, 1, 0), Sym("Engine", "Class", 6, 9, 6, 0),
              Sym("connect", "Method", 7, 8, 7, 2) >>
  @@ 13 :> << Sym("poke", "Function", 1, 1, 1, 0) >>

ProjectStem == 3 :> "old" @@ 11 :> "os" @@ 12 :> "create" @@ 13 :> "plugin"

At(f, line) == [file |-> f, line |-> line]

ProjectCalls ==
  <<1, 2>> :> << At(11, 1), At(1, 8) >>            \* Store.__init__ calls os.system and outer
  @@ <<1, 4>> :> << At(11, 3) >>                   \* Store.load calls os.getcwd
  @@ <<1, 8>> :> << At(1, 9), At(1, 12) >>         \* outer makes a Local and calls its load
  @@ <<1, 10>> :> << At(13, 1) >>
  @@ <<1, 12>> :> << At(1, 12) >>                  \* the inner load calls itself
  @@ <<2, 2>> :> << At(1, 1), At(12, 7), At(3, 1), At(12, 7) >>

N(kind, field, up, line, to) == [kind |-> kind, field |-> field, up |-> up, line |-> line, to |-> to]

ProjectSyntax ==
  1 :> << N("module", None, 0, 1, {}), N("function_definition", None, 1, 4, {}),
          N("argument_list", None, 2, 5, {}), N("identifier", None, 3, 5, {At(12, 1)}),
          N("call", None, 2, 6, {}), N("identifier", "function", 5, 6, {At(11, 3)}) >>
  @@ 2 :> << N("module", None, 0, 1, {}),
             N("import_statement", None, 1, 1, {}), N("identifier", "name", 2, 1, {At(11, 1)}),
             N("function_definition", None, 1, 2, {}), N("parameters", "parameters", 4, 2, {}),
             N("typed_default_parameter", None, 5, 2, {}), N("identifier", "value", 6, 2, {At(1, 8)}),
             N("call", None, 4, 3, {}), N("identifier", "function", 8, 3, {At(1, 1)}),
             N("call", None, 4, 4, {}), N("attribute", "function", 10, 4, {}),
             N("identifier", "object", 11, 4, {At(2, 7)}), N("identifier", "attribute", 11, 4, {At(12, 7)}),
             N("expression_statement", None, 1, 7, {}), N("call", None, 14, 7, {}),
             N("identifier", "function", 15, 7, {At(1, 1)}), N("argument_list", "arguments", 15, 7, {}),
             N("identifier", None, 17, 7, {At(2, 2)}), N("identifier", None, 17, 7, {}) >>
  @@ 4 :> << N("module", None, 0, 1, {}), N("call", None, 1, 2, {}),
             N("attribute", "function", 2, 2, {}), N("call", "object", 3, 2, {}),
             N("identifier", "function", 4, 2, {At(12, 1)}), N("argument_list", "arguments", 4, 2, {}),
             N("identifier", None, 6, 2, {At(11, 1)}), N("identifier", "attribute", 3, 2, {At(12, 7)}),
             N("call", None, 1, 3, {}), N("identifier", "function", 9, 3, {At(13, 1)}) >>

(* python.toml, then python-libs.toml, which overrides a row.              *)
ProjectTables == <<
  << <<"os">>, <<"system">> >> :> "process" @@ << <<"sqlalchemy">>, Whole >> :> "net",
  << <<"sqlalchemy">>, <<"create_engine">> >> :> "db"
    @@ << <<"sqlalchemy", "engine">>, Whole >> :> "db" @@ << <<"sqlalchemy">>, Whole >> :> "fs" >>

ProjectRules == <<
  [claims |-> 11 :> <<"os">> @@ 13 :> <<"lib-dynload", "plugin">>, origin |-> "stdlib", rejects |-> {"lib-dynload"}],
  [claims |-> 12 :> <<"sqlalchemy", "engine", "create">>, origin |-> "module", rejects |-> {}] >>

(* The instance meets the premise of the theorem about ExactWhenAnswered,  *)
(* and has uses of each kind that the property excepts.                    *)
ASSUME ApartAssumption == NamesApart
ASSUME ExceptedAssumption ==
  /\ \E u \in ProjectUses \ Overlooked : Misread(u)
  /\ Overlooked =
       {[caller |-> ModuleId(4), kind |-> "reference", file |-> f, line |-> 1] : f \in {11, 12}}
         \cup {[caller |-> Id(2, 1), kind |-> "reference", file |-> 1, line |-> 8]}
=============================================================================
