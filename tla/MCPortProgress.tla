---------------------------- MODULE MCPortProgress --------------------------
(***************************************************************************)
(* Two packages, ai (crates a and ax) and ui (crate u), in one tree.       *)
(***************************************************************************)
EXTENDS PortProgress

Names == << "a", "ai", "app", "ax", "core", "crates", "deep", "f", "g", "h", "init", "misc",
            "node:fs", "read", "src", "run", "run_all", "runAll", "u", "ui", "util", "web-kit",
            "web_kit" >>

Rank == [s \in ToSet(Names) |-> CHOOSE i \in DOMAIN Names : Names[i] = s]

(* Lexicographic. *)
MCPrecedes(a, b) ==
  \/ IsStrictPrefix(a, b)
  \/ \E i \in DOMAIN a \cap DOMAIN b :
       /\ Rank[a[i]] < Rank[b[i]]
       /\ \A j \in 1 .. i - 1 : a[j] = b[j]

(* crate::module::leaf *)
MCTextLength(id) == FoldLeft(LAMBDA n, s : n + Len(s) + 2, 0, id)

MCCaseOf == [s \in ToSet(Names) |-> "other"]
MCSnake == [s \in ToSet(Names) |->
              IF s = "runAll" THEN "run_all" ELSE IF s = "web-kit" THEN "web_kit" ELSE s]
MCMethodOf == [s \in ToSet(Names) |-> s]
MCSynthetic == {"init"}
MCTraitImpls == {}

MCConfig ==
  [packages |-> [ai |-> [source_dir |-> <<"ai">>, crates |-> <<"a", "ax">>],
                 ui |-> [source_dir |-> <<"ui">>, crates |-> <<"u">>]],
   naming |-> [source_src_prefix |-> <<"src">>, keep_pascal_types |-> TRUE,
               keep_screaming_consts |-> TRUE],
   ported_threshold |-> <<6, 10>>,
   cluster_vote_retain |-> <<6, 10>>]

MCProjectDirs == {<<>>, <<"ai">>}

-----------------------------------------------------------------------------
Id(file, leaf) == Append(file, leaf)
AiUtil == <<"ai", "src", "util">>
AiCore == <<"ai", "src", "core">>
AiWeb  == <<"ai", "src", "web-kit">>
UiUtil == <<"ui", "src", "util">>
UiApp  == <<"ui", "src", "app">>
Read   == <<"node:fs", "read">>

(* The lines of a definition, by its file: core and util of ai are merged  *)
(* by the plan, and web-kit is too large to join them; app and util of ui  *)
(* are merged when f of util is outside the closure.                       *)
Lines == (AiUtil :> 40) @@ (AiCore :> 50) @@ (AiWeb :> 30) @@ (UiUtil :> 40) @@ (UiApp :> 150)

Defined(ids) == [n \in ids |-> [display |-> Last(n), file |-> Front(n), loc |-> Lines[Front(n)]]]

Edge(a, b, kind, i) ==
  [caller |-> a, callee |-> b, kind |-> kind, resolution |-> "resolved", evidence |-> i]

Base == {Id(AiUtil, "f"), Id(AiUtil, "g"), Id(AiCore, "h"), Id(AiCore, "runAll"),
         Id(AiWeb, "run"), Id(AiWeb, "init"), Id(UiUtil, "f"), Id(UiUtil, "g"), Id(UiApp, "run")}

BaseEdges == << Edge(Id(AiCore, "h"), Id(AiUtil, "f"), "call", 1),
                Edge(Id(AiCore, "runAll"), Id(AiCore, "h"), "call", 2),
                Edge(Id(AiUtil, "f"), Read, "call", 3),
                Edge(Id(UiApp, "run"), Id(UiUtil, "g"), "call", 4),
                Edge(Id(UiApp, "run"), Id(AiCore, "h"), "call", 5),
                Edge(Id(UiUtil, "g"), Id(AiWeb, "run"), "type", 6),
                Edge(Id(AiWeb, "run"), Id(AiCore, "runAll"), "call", 7) >>

(* The second version has a cycle of files and one file less. *)
MCSourceFacts ==
  << [defs |-> Defined(Base), edges |-> BaseEdges, roots |-> {[symbol |-> Read, effect |-> "Fs"]}],
     [defs |-> Defined(Base \ {Id(UiUtil, "g"), Id(AiWeb, "run"), Id(AiWeb, "init")}),
      edges |-> SubSeq(BaseEdges, 1, 3) \o <<BaseEdges[5],
                   Edge(Id(AiUtil, "g"), Id(AiCore, "h"), "call", 8)>>,
      roots |-> {[symbol |-> Read, effect |-> "Fs"]}] >>

Symbol(id, file) == [id |-> id, file |-> <<"crates", id[1], "src">> \o file]

MCWritable ==
  { Symbol(<<"a", "util", "f">>, <<"util">>),
    Symbol(<<"ax", "deep", "h">>, <<"deep", "core">>),
    Symbol(<<"ax", "deep", "run_all">>, <<"deep", "core">>),
    Symbol(<<"a", "web_kit", "misc">>, <<"web_kit">>),
    Symbol(<<"u", "app", "run">>, <<"app", "mod">>) }

MCCalls == << << <<"ax", "deep", "h">>, <<"a", "util", "f">> >>,
              << <<"ax", "deep", "run_all">>, <<"ax", "deep", "h">> >>,
              << <<"u", "app", "run">>, <<"ax", "deep", "h">> >> >>

MCVerifiable == {<<"ai", <<"src", "util">> >>}

AllOf == [kind |-> "all", merge_check |-> FALSE]
MergeCheck == [kind |-> "all", merge_check |-> TRUE]
OnePackage == [kind |-> "package", package |-> "ai", from |-> {}]
FromApp == [kind |-> "from", from |-> {<<"app", "run">>}]
FromUtil == [kind |-> "from", from |-> {<<"ui", "src", "util", "f">>}]
MCRequests == {AllOf, MergeCheck, OnePackage, FromApp, FromUtil}
=============================================================================
