--------------------------- MODULE MCCheckPipeline ---------------------------
(***************************************************************************)
(* A program of two functions, f in the core and g in the adapters or the  *)
(* core, which use a foreign symbol x nobody knows, a foreign y that a     *)
(* rule declares to do fs, and call through a pointer.  Four scenarios     *)
(* ask about different circumstances; a behaviour stays in one:            *)
(*   alone      one check after another on a file, with crashes            *)
(*   shared     two processes on one file                                  *)
(*   fresh      a store for each run, which therefore is looked at once,   *)
(*              and every document                                         *)
(*   rendering  one check after another, f becomes a component, seams come *)
(*              and go, the rule for components is on or off               *)
(***************************************************************************)
EXTENDS CheckPipeline

CONSTANTS f, g, x, y, fs, net, core, adapters, p, q, r, u,
  Scenarios,  \* those to look at
  Alike       \* foreign symbols whose stripped name is that of f

VARIABLE scenario

Use(a, b, k) == [caller |-> a, callee |-> b, kind |-> k,
                 resolution |-> IF k = "call" THEN "call" ELSE "reference"]

EdgesIn(sc) ==
  CASE sc = "fresh" ->
         {Use(f, g, "call"), Use(g, x, "call"), Use(g, y, "reference"), Use(f, x, "type"),
          [Use(f, g, "call") EXCEPT !.resolution = "unresolved"]}
    [] sc = "alone" ->
         {Use(f, g, "call"), Use(g, x, "call"), Use(f, x, "type"), Use(g, y, "call")}
    [] sc = "shared" -> {Use(f, g, "call"), Use(g, x, "call")}
    [] sc = "rendering" -> {Use(f, g, "call"), Use(g, y, "reference")}

Mobile(sc) == CASE sc = "shared" -> {adapters} [] sc = "rendering" -> {core}
                [] OTHER -> {core, adapters}

ComponentsIn(sc) == IF sc \in {"rendering", "fresh"} THEN {{}, {f}} ELSE {{}}

Seams(sc) == IF sc = "rendering" THEN {{}, {Use(f, g, "call")}} ELSE {{}}

ProgramsOf(sc) ==
  {[defs |-> [s \in Symbol |-> IF s = f THEN core ELSE IF s = g THEN file ELSE NoFile],
    components |-> comps, edges |-> es, unmarked |-> es \ seams, roots |-> {}] :
     file \in Mobile(sc), comps \in ComponentsIn(sc), es \in SUBSET EdgesIn(sc),
     seams \in Seams(sc)}

Region(n, spec, forbidden, allowed) ==
  [name |-> n, specificity |-> spec, forbid |-> forbidden, allow |-> allowed]

(* The core forbids fs; the carve-out for the adapters is more specific    *)
(* and allows it; two more documents are refused.                          *)
Everywhere(n) == [file \in File |-> n]
Carved == [file \in File |-> IF file = adapters THEN 2 ELSE 0]

RegionSets ==
  {{Region("core", Everywhere(1), {fs}, {})},
   {Region("core", Everywhere(1), {fs}, {}), Region("adapters", Carved, {}, {fs})}}

Refused == {{Region("core", Everywhere(1), {fs}, {fs})},
            {Region("core", Everywhere(1), {Unknown}, {})}}

Table(vouched) ==
  [rule |-> [s \in Symbol |-> IF s = y THEN fs ELSE NoEffect], pure |-> vouched]

(* Both engines where a signature may leak effects.                        *)
EnginesOf(sc) == IF sc \in {"alone", "fresh"} THEN Engine ELSE {"dbsp"}

Off == [enabled |-> FALSE, forbid |-> {}]

Doc(mode, ignored, regions, vouched, component) ==
  [on_unknown |-> mode, ignore |-> ignored, regions |-> regions,
   table |-> Table(vouched), component |-> component]

DocumentsOf(sc) ==
  CASE sc = "fresh" ->
         {Doc(mode, {}, regions, vouched, Off) :
            mode \in OnUnknown, regions \in RegionSets \cup Refused, vouched \in {{}, {x}}}
         \cup {Doc("ignore", ignored, {}, {}, [enabled |-> TRUE, forbid |-> named]) :
                 ignored \in {{}, {core}}, named \in {{}, {net}}}
    [] sc = "alone" ->
         {Doc(mode, {}, regions, {}, Off) :
            mode \in {"fail", "ignore"}, regions \in RegionSets}
    [] sc = "shared" -> {Doc("fail", {}, regions, {}, Off) : regions \in RegionSets}
    [] sc = "rendering" ->
         {Doc("warn", {}, {}, {}, [enabled |-> on, forbid |-> {}]) : on \in BOOLEAN}

ScenarioPrograms == [sc \in Scenarios |-> ProgramsOf(sc)]
ScenarioDocuments == [sc \in Scenarios |-> DocumentsOf(sc)]
MCPrograms == UNION {ScenarioPrograms[sc] : sc \in Scenarios}
MCDocuments == UNION {ScenarioDocuments[sc] : sc \in Scenarios}

(* Who checks: r has no --db, u one of its own, p and q share one.         *)
MCDatabase == [c \in {p, q, u} |-> IF c = u THEN "own" ELSE "shared"]

Checks(sc) == CASE sc = "shared" -> {p, q} [] sc = "fresh" -> {r} [] OTHER -> {u}

MCInit == Init /\ scenario \in Scenarios

MCNext ==
  /\ UNCHANGED scenario
  /\ \E c \in Checks(scenario) :
       \/ /\ scenario = "fresh" => pc[c] = "idle"
          /\ \E program \in ScenarioPrograms[scenario], doc \in ScenarioDocuments[scenario],
                engine \in EnginesOf(scenario) :
               Begin(c, program, doc, engine)
       \/ Continue(c)

MCSpec == MCInit /\ [][MCNext]_<<vars, scenario>>

MCSplitName == [s \in Symbol |-> <<ToString(s)>>]
MCCrateOf == [s \in Symbol |-> IF s \in {f, g} THEN "ours" ELSE ToString(s)]
MCName == [s \in Symbol |-> IF s \in {f} \cup Alike THEN "::m" ELSE ToString(s)]
Strings == {"ours", "::m"} \cup {ToString(s) : s \in Symbol}
=============================================================================
