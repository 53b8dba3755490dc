------------------------------- MODULE AbsInt -------------------------------
(***************************************************************************)
(* The range analysis (crates/hinzu-core/src/absint/engine.rs): a worklist *)
(* fixed point over the blocks of one body, then one walk over its result  *)
(* that reports the integer divisions whose divisor may be zero - composed *)
(* with the program itself, which runs once its report is out.             *)
(*                                                                         *)
(* Integers and doubles are scaled as in Interval.  A state of the         *)
(* analysis maps each local to an AbstractNumber.                          *)
(***************************************************************************)
EXTENDS Interval, BodyLowering, SequencesExt

CONSTANTS
  Programs,    \* the MIR bodies that may be analysed
  Inputs(_),   \* the values of a type an argument, a call or an opaque value may take
  IntBound     \* the program stops before an integer leaves -IntBound..IntBound

VARIABLES
  mir,         \* the body
  block_in,    \* the entry state of each block reached so far
  visits,      \* how often each block's entry state changed
  worklist,
  report,      \* {} until the report is made, then {[hazards, returns]}
  machine      \* the running program: [at, next, vals, end, misread]

vars == <<mir, block_in, visits, worklist, report, machine>>

WIDEN_AFTER == 3
MAX_VISITS == 64

body == lower_body(mir)
Block == DOMAIN mir.blocks

IsLocal(o) == "local" \in DOMAIN o
IsKnown(o) == "local" \notin DOMAIN o /\ o # Opaque

(* What an extractor emits: ids are in range, local 0 holds what the body  *)
(* returns, constants are numbers (a NaN literal is left out).             *)
IsOperand(b, o) == IF IsLocal(o) THEN o.local \in DOMAIN b.locals ELSE o.value \in Int \ {NaN}

IsRvalue(b, rv) ==
  /\ rv.op \in {"Use", "Unary"} => IsOperand(b, rv.operand)
  /\ rv.op = "Binary" => IsOperand(b, rv.left) /\ IsOperand(b, rv.right)

IsTerminator(b, t) ==
  /\ t.kind \in {"Goto", "Assert"} => t.block \in DOMAIN b.blocks
  /\ t.kind = "Call" => t.target \in Seq(DOMAIN b.blocks)
  /\ t.kind = "Other" => t.successors \in Seq(DOMAIN b.blocks)
  /\ t.kind = "SwitchInt" =>
       /\ t.targets \in Seq([value : Int, block : DOMAIN b.blocks])
       /\ t.otherwise \in DOMAIN b.blocks

IsBlock(b, block) ==
  /\ Len(block.stmts) \in Nat /\ DOMAIN block.stmts = 1..Len(block.stmts)
  /\ \A i \in DOMAIN block.stmts :
       block.stmts[i].place \in DOMAIN b.locals /\ IsRvalue(b, block.stmts[i].rvalue)
  /\ IsTerminator(b, block.terminator)

IsBody(b) ==
  /\ 0 \in DOMAIN b.locals
  /\ Max(DOMAIN b.blocks) \in Nat /\ DOMAIN b.blocks = 0..Max(DOMAIN b.blocks)
  /\ \A k \in DOMAIN b.blocks : IsBlock(b, b.blocks[k])

ASSUME BodiesAssumption ==
  \A m \in Programs :
    /\ IsBody(lower_body(m))
    /\ \A k \in DOMAIN m.blocks :
         Len(m.blocks[k].stmts) \in Nat /\ DOMAIN m.blocks[k].stmts = 1..Len(m.blocks[k].stmts)

(* The integers of a running program are whole and have doubles of their   *)
(* own.                                                                    *)
IntegerTypes == {"i64", "i32", "u64", "bool", "opaque"}
Word == {v \in -IntBound..IntBound : IsWhole(v)}

(* A narrow integer lies in the half open range its width has.             *)
Fits(ty, v) == ty = "i32" => -NarrowModulus <= 2 * v /\ 2 * v < NarrowModulus

ASSUME WordsAssumption ==
  /\ IntBound \in Nat /\ Scale <= IntBound /\ IntBound <= Exact
  /\ \A ty \in IntegerTypes : Inputs(ty) \subseteq Word
  /\ Inputs("bool") \subseteq {0, Scale}

(* The narrow types are narrower than the integers a double holds.         *)
ASSUME NarrowAssumption ==
  /\ NarrowModulus \in Nat \ {0} /\ IsWhole(NarrowModulus) /\ NarrowModulus <= IntBound
  /\ \A v \in Inputs("i32") : Fits("i32", v)

-----------------------------------------------------------------------------
(* The transfer of one block.  A guard records that a boolean local is the *)
(* outcome of comparing another local with a constant.                     *)
AsDouble(v) == Round(v, 1)

eval_operand(state, o) ==
  IF "local" \in DOMAIN o THEN state[o.local]
  ELSE IF o = Opaque THEN unknown
  ELSE constant(AsDouble(o.value))

(* The larger magnitude of the dividend bounds the quotient.               *)
integer_quotient(dividend, q) ==
  LET m == Magnitude(dividend)
  IN  Plain(Greater(q.lower, -m), Lesser(q.upper, m), TRUE, FALSE)

Quotient(l, r) ==
  LET q == div(l, r) IN IF l.integer /\ r.integer THEN integer_quotient(l, q) ELSE q

eval_rvalue(state, rv) ==
  CASE rv.op = "Use" -> eval_operand(state, rv.operand)
    [] rv.op = "Unary" -> IF rv.kind = "Neg" THEN negate(eval_operand(state, rv.operand)) ELSE unknown
    [] rv.op = "Binary" ->
         LET l == eval_operand(state, rv.left)
             r == eval_operand(state, rv.right)
         IN  CASE rv.kind \in Comparisons -> boolean
               [] rv.kind = "Add" -> add(l, r)
               [] rv.kind = "Sub" -> sub(l, r)
               [] rv.kind = "Mul" -> mul(l, r)
               [] rv.kind = "Div" -> Quotient(l, r)
               [] rv.kind = "Rem" -> rem(l, r, ~includes_zero(r))
               [] OTHER -> unknown
    [] OTHER -> unknown

flip_comparison(op) ==
  CASE op = "Lt" -> "Gt" [] op = "Le" -> "Ge" [] op = "Gt" -> "Lt" [] op = "Ge" -> "Le" [] OTHER -> op

negate_comparison(op) ==
  CASE op = "Eq" -> "Ne" [] op = "Ne" -> "Eq" [] op = "Lt" -> "Ge" [] op = "Le" -> "Gt"
    [] op = "Gt" -> "Le" [] op = "Ge" -> "Lt" [] OTHER -> op

(* The guard a statement records on its place, if any.                     *)
Guard(place, local, op, k) == [on |-> place, local |-> local, op |-> op, constant |-> k]

extract_guard(place, rv) ==
  IF rv.op # "Binary" \/ rv.kind \notin Comparisons THEN {}
  ELSE IF IsLocal(rv.left) /\ IsKnown(rv.right)
  THEN {Guard(place, rv.left.local, rv.kind, AsDouble(rv.right.value))}
  ELSE IF IsKnown(rv.left) /\ IsLocal(rv.right)
  THEN {Guard(place, rv.right.local, flip_comparison(rv.kind), AsDouble(rv.left.value))}
  ELSE {}

(* Mutant: a guard outlives the assignment of the local it speaks of.      *)
apply_stmt_StaleGuard(now, stmt) ==
  [state |-> [now.state EXCEPT ![stmt.place] = eval_rvalue(now.state, stmt.rvalue)],
   guards |-> {g \in now.guards : g.on # stmt.place} \cup extract_guard(stmt.place, stmt.rvalue)]

(* Guards on the place, and guards about it, end with the assignment.      *)
apply_stmt(now, stmt) ==
  [state |-> [now.state EXCEPT ![stmt.place] = eval_rvalue(now.state, stmt.rvalue)],
   guards |-> {g \in now.guards : stmt.place \notin {g.on, g.local}}
                \cup extract_guard(stmt.place, stmt.rvalue)]

Entered(state) == [state |-> state, guards |-> {}]

(* What holds after i statements of a block; after the last one.           *)
States(block, state) ==
  LET after[i \in 0..Len(block.stmts)] ==
        IF i = 0 THEN Entered(state) ELSE apply_stmt(after[i - 1], block.stmts[i])
  IN  after

transfer_block(block, state) == States(block, state)[Len(block.stmts)]

-----------------------------------------------------------------------------
(* The states on the edges that leave a block.                             *)
pin(x, k) ==
  IF k < x.lower \/ k > x.upper THEN x
  ELSE [x EXCEPT !.lower = k, !.upper = k, !.excluded = NoPoint]

After(x, k) == IF x.integer THEN FAdd(k, Scale) ELSE next_up(k)
Before(x, k) == IF x.integer THEN FAdd(k, -Scale) ELSE next_down(k)

exclude(x, k) ==
  IF k < x.lower \/ k > x.upper THEN x
  ELSE IF k = x.lower THEN [x EXCEPT !.lower = After(x, k)]
  ELSE IF k = x.upper THEN [x EXCEPT !.upper = Before(x, k)]
  ELSE [x EXCEPT !.excluded = k]

apply_comparison(x, op, k) ==
  CASE op = "Eq" -> pin(x, k)
    [] op = "Ne" -> exclude(x, k)
    [] op = "Lt" -> [x EXCEPT !.upper = Lesser(@, Before(x, k))]
    [] op = "Le" -> [x EXCEPT !.upper = Lesser(@, k)]
    [] op = "Gt" -> [x EXCEPT !.lower = Greater(@, After(x, k))]
    [] op = "Ge" -> [x EXCEPT !.lower = Greater(@, k)]
    [] OTHER -> x

refine_local(state, g, assume_true) ==
  [state EXCEPT ![g.local] =
     apply_comparison(@, IF assume_true THEN g.op ELSE negate_comparison(g.op), g.constant)]

Edge(block, state) == [to |-> block, state |-> state]

(* An edge on a comparison assumes it true or false; an edge on a bare     *)
(* local pins it to the value, the other edge excludes a single value.     *)
switch_states(t, out) ==
  LET local == IF IsLocal(t.discr) THEN {t.discr.local} ELSE {}
      guard == {g \in out.guards : g.on \in local}
      Taken(target) ==
        IF guard # {} THEN refine_local(out.state, CHOOSE g \in guard : TRUE, target.value # 0)
        ELSE [l \in DOMAIN out.state |->
                IF l \in local THEN pin(out.state[l], AsDouble(target.value)) ELSE out.state[l]]
      onlyFalse == \A i \in DOMAIN t.targets : t.targets[i].value = 0
      otherwise ==
        IF guard # {}
        THEN IF onlyFalse THEN refine_local(out.state, CHOOSE g \in guard : TRUE, TRUE) ELSE out.state
        ELSE [l \in DOMAIN out.state |->
                IF l \in local /\ Len(t.targets) = 1
                THEN exclude(out.state[l], AsDouble(t.targets[1].value)) ELSE out.state[l]]
  IN  Append([i \in DOMAIN t.targets |-> Edge(t.targets[i].block, Taken(t.targets[i]))],
             Edge(t.otherwise, otherwise))

successor_states(t, out) ==
  CASE t.kind \in {"Goto", "Assert"} -> <<Edge(t.block, out.state)>>
    [] t.kind = "Call" ->
         LET havocked == [l \in DOMAIN out.state |-> IF l \in t.destination THEN unknown ELSE out.state[l]]
         IN  [i \in DOMAIN t.target |-> Edge(t.target[i], havocked)]
    [] t.kind = "Other" -> [i \in DOMAIN t.successors |-> Edge(t.successors[i], out.state)]
    [] t.kind = "SwitchInt" -> switch_states(t, out)
    [] OTHER -> << >>

-----------------------------------------------------------------------------
join_states(a, b) == [l \in DOMAIN a |-> join(a[l], b[l])]
widen_states(a, b) == [l \in DOMAIN a |-> widen(a[l], b[l])]

start_for_kind(kind) ==
  CASE kind \in {"Int", "Uint"} -> any_integer
    [] kind = "Float" -> finite_input
    [] kind = "Bool" -> boolean
    [] OTHER -> unknown

initial_state(b) ==
  [l \in DOMAIN b.locals |-> IF l \in 1..b.arg_count THEN start_for_kind(b.locals[l]) ELSE unknown]

(* What reaches a block: its entry state so far joined with the edge's, or *)
(* widened once the block was queued often enough.                         *)
(* Mutant: joined, however often.                                          *)
Merged_Never(soFar, count, edge) ==
  IF edge.to \notin DOMAIN soFar THEN edge.state ELSE join_states(soFar[edge.to], edge.state)

Merged(soFar, count, edge) ==
  IF edge.to \notin DOMAIN soFar THEN edge.state
  ELSE LET joined == join_states(soFar[edge.to], edge.state)
       IN  IF count >= WIDEN_AFTER THEN widen_states(soFar[edge.to], joined) ELSE joined

Stored(soFar, b, state) ==
  [k \in DOMAIN soFar \cup {b} |-> IF k = b THEN state ELSE soFar[k]]

(* One edge: a changed state is stored and its block queued, until the cap.*)
Flow(a, edge) ==
  LET b == edge.to
      merged == Merged(a.block_in, a.visits[b], edge)
      changed == b \notin DOMAIN a.block_in \/ a.block_in[b] # merged
  IN  IF changed /\ a.visits[b] < MAX_VISITS
      THEN [block_in |-> Stored(a.block_in, b, merged),
            visits |-> [a.visits EXCEPT ![b] = @ + 1],
            worklist |-> IF b \in ToSet(a.worklist) THEN a.worklist ELSE Append(a.worklist, b)]
      ELSE a

Flowed(start, edges) ==
  LET after[i \in 0..Len(edges)] ==
        IF i = 0 THEN start ELSE Flow(after[i - 1], edges[i])
  IN  after[Len(edges)]

(* The edges that leave block b, with what they carry.                     *)
EdgesOf(b) ==
  successor_states(body.blocks[b].terminator, transfer_block(body.blocks[b], block_in[b]))

Pop ==
  /\ worklist # << >>
  /\ LET b == Head(worklist)
         after == Flowed([block_in |-> block_in, visits |-> visits, worklist |-> Tail(worklist)],
                         EdgesOf(b))
     IN  /\ block_in' = after.block_in
         /\ visits' = after.visits
         /\ worklist' = after.worklist
  /\ UNCHANGED <<mir, report, machine>>

-----------------------------------------------------------------------------
(* The walk over the fixed point.  Statement i of block b is evaluated in  *)
(* StateAt(b, i).                                                          *)
StateAt(b, i) == States(body.blocks[b], block_in[b])[i - 1].state

Divisions(b) ==
  {i \in DOMAIN body.blocks[b].stmts :
     /\ body.blocks[b].stmts[i].rvalue.op = "Binary"
     /\ body.blocks[b].stmts[i].rvalue.kind \in {"Div", "Rem"}}

Divisor(b, i) == eval_operand(StateAt(b, i), body.blocks[b].stmts[i].rvalue.right)

divisor_hazard(b, i) == Divisor(b, i).integer /\ includes_zero(Divisor(b, i))

(* The ranges at the blocks that return, joined block after block; {} when *)
(* there is none.                                                          *)
ReturnRanges ==
  LET at(b) == transfer_block(body.blocks[b], block_in[b]).state[0]
      Returns(b) == b \in DOMAIN block_in /\ body.blocks[b].terminator.kind = "Return"
      joined[k \in 0..Max(Block) + 1] ==
        IF k = 0 THEN {}
        ELSE IF ~Returns(k - 1) THEN joined[k - 1]
        ELSE IF joined[k - 1] = {} THEN {at(k - 1)}
        ELSE {join(r, at(k - 1)) : r \in joined[k - 1]}
  IN  joined[Max(Block) + 1]

ReturnRange == IF ReturnRanges = {} THEN unknown ELSE CHOOSE r \in ReturnRanges : TRUE

function_summary ==
  [hazards |-> UNION {{<<b, i>> : i \in {d \in Divisions(b) : divisor_hazard(b, d)}} : b \in DOMAIN block_in},
   returns |-> ReturnRange]

Report ==
  /\ worklist = << >> /\ report = {}
  /\ report' = {function_summary}
  /\ UNCHANGED <<mir, block_in, visits, worklist, machine>>

-----------------------------------------------------------------------------
(* The program itself.  A local holds a scaled integer or a double, the    *)
(* pair of a checked operation its first component.                        *)
IsInteger(ty) == ty \in {"i64", "i32", "u64", "bool"}

TypeOf(o) == IF IsPlace(o) THEN mir.locals[o.local] ELSE o.ty
Value(vals, o) == IF IsPlace(o) THEN vals[o.local] ELSE o.value
Values(vals, o) == IF o = Opaque THEN Inputs("i64") ELSE {Value(vals, o)}

(* Division of integers truncates toward zero.                             *)
Truncated(num, den) == Sign(num) * Sign(den) * (Abs(num) \div Abs(den))
Remainder(a, b) == a - b * Truncated(a, b)

IntegerResult(kind, a, b) ==
  CASE kind = "Add" -> a + b
    [] kind = "Sub" -> a - b
    [] kind = "Mul" -> (a * b) \div Scale
    [] kind = "Div" -> Scale * Truncated(a, b)
    [] kind = "Rem" -> Remainder(a, b)

FloatResult(kind, a, b) ==
  CASE kind = "Add" -> FAdd(a, b)
    [] kind = "Sub" -> FAdd(a, -b)
    [] kind = "Mul" -> FMul(a, b)
    [] kind = "Div" -> FDiv(a, b)
    [] kind = "Rem" -> IF NaN \in {a, b} \/ Infinite(a) \/ b = 0 THEN NaN
                       ELSE IF Infinite(b) THEN a ELSE Remainder(a, b)

Compare(kind, a, b) ==
  IF NaN \in {a, b} THEN kind = "Ne"
  ELSE CASE kind = "Eq" -> a = b [] kind = "Ne" -> a # b [] kind = "Lt" -> a < b
         [] kind = "Le" -> a <= b [] kind = "Gt" -> a > b [] kind = "Ge" -> a >= b

PairResults(ty, kind, a, b) ==
  IF kind \in Comparisons THEN {IF Compare(kind, a, b) THEN Scale ELSE 0}
  ELSE IF kind \notin Arithmetic THEN Inputs(ty)
  ELSE IF ~IsInteger(ty) THEN {FloatResult(kind, a, b)}
  ELSE IF b = 0 /\ kind \in {"Div", "Rem"} THEN {}
  ELSE {v \in {IntegerResult(kind, a, b)} :
          Abs(v) <= IntBound /\ (ty = "u64" => v >= 0)}

Negated(ty, v) == {w \in {-v} : ty # "u64"}

(* What an assignment computes, and what of it its local can hold.         *)
Computed(vals, s) ==
  LET rv == s.rvalue
      ty == mir.locals[s.place.local]
  IN  IF s.place.projected THEN Inputs("i64")
      ELSE CASE rv.op = "Use" -> Values(vals, rv.operand)
             [] rv.op = "Unary" -> IF rv.kind = "Neg" THEN Negated(ty, Value(vals, rv.operand)) ELSE Inputs(ty)
             [] rv.op \in {"Binary", "Checked"} ->
                  UNION {PairResults(TypeOf(rv.left), rv.kind, ab[1], ab[2]) :
                           ab \in Values(vals, rv.left) \X Values(vals, rv.right)}
             [] OTHER -> Inputs(ty)

Results(vals, s) == {v \in Computed(vals, s) : Fits(mir.locals[s.place.local], v)}

DividesByZero(vals, s) ==
  /\ s.rvalue.op = "Binary" /\ s.rvalue.kind \in {"Div", "Rem"}
  /\ IsInteger(TypeOf(s.rvalue.left)) /\ 0 \in Values(vals, s.rvalue.right)

Here == mir.blocks[machine.at]
Running == report # {} /\ machine.end = "none"

(* The inserted check fails before the division.                           *)
Panic ==
  /\ Running /\ machine.next <= Len(Here.stmts)
  /\ DividesByZero(machine.vals, Here.stmts[machine.next])
  /\ machine' = [machine EXCEPT !.end = "panicked"]
  /\ UNCHANGED <<mir, block_in, visits, worklist, report>>

Statement ==
  /\ Running /\ machine.next <= Len(Here.stmts)
  /\ LET s == Here.stmts[machine.next]
     IN  \E v \in Results(machine.vals, s) :
           machine' = [machine EXCEPT !.next = @ + 1, !.vals[s.place.local] = v]
  /\ UNCHANGED <<mir, block_in, visits, worklist, report>>

Destination(t, vals) ==
  IF t.kind = "Call" /\ ~t.destination.projected
  THEN {[vals EXCEPT ![t.destination.local] = v] : v \in Inputs(mir.locals[t.destination.local])}
  ELSE {vals}

(* The targets of a switch on the value.                                   *)
Hit(t, vals) == {i \in DOMAIN t.targets : t.targets[i].value = Value(vals, t.discr)}

Successors(t, vals) ==
  CASE t.kind \in {"Goto", "Assert", "Drop"} -> {t.block}
    [] t.kind = "Call" -> ToSet(t.target)
    [] t.kind = "SwitchInt" ->
         IF Hit(t, vals) = {} THEN {t.otherwise} ELSE {t.targets[Min(Hit(t, vals))].block}
    [] OTHER -> {}

(* The switch goes by a value the facts give as another: the bits of a     *)
(* narrow negative arm, read as an integer of 64 bits (bodies.rs:305).     *)
Misreads(t, vals) ==
  /\ t.kind = "SwitchInt"
  /\ \E i \in Hit(t, vals) :
       SwitchValue(mir.locals[t.discr.local], t.targets[i].value) # t.targets[i].value

Branch ==
  /\ Running /\ machine.next > Len(Here.stmts)
  /\ \E b \in Successors(Here.terminator, machine.vals) :
       \E v \in Destination(Here.terminator, machine.vals) :
         machine' = [machine EXCEPT !.at = b, !.next = 1, !.vals = v,
                                    !.misread = @ \/ Misreads(Here.terminator, machine.vals)]
  /\ UNCHANGED <<mir, block_in, visits, worklist, report>>

Return ==
  /\ Running /\ machine.next > Len(Here.stmts)
  /\ Here.terminator.kind = "Return"
  /\ machine' = [machine EXCEPT !.end = "returned"]
  /\ UNCHANGED <<mir, block_in, visits, worklist, report>>

-----------------------------------------------------------------------------
(* Every argument holds any value of its type, as the caller chooses; the  *)
(* other locals are written before they are read.                          *)
Arguments(m) ==
  {vals \in [DOMAIN m.locals -> UNION {Inputs(m.locals[l]) : l \in DOMAIN m.locals} \cup {0}] :
     \A l \in DOMAIN m.locals : vals[l] \in IF l \in 1..m.arg_count THEN Inputs(m.locals[l]) ELSE {0}}

Init ==
  /\ mir \in Programs
  /\ block_in = [b \in {0} |-> initial_state(body)]
  /\ visits = [b \in Block |-> 0]
  /\ worklist = <<0>>
  /\ report = {}
  /\ machine = [at |-> 0, next |-> 1, vals |-> [l \in DOMAIN mir.locals |-> 0],
                end |-> "uncalled", misread |-> FALSE]

Call ==
  /\ report # {} /\ machine.end = "uncalled"
  /\ \E vals \in Arguments(mir) : machine' = [machine EXCEPT !.vals = vals, !.end = "none"]
  /\ UNCHANGED <<mir, block_in, visits, worklist, report>>

Next == Pop \/ Report \/ Call \/ Panic \/ Statement \/ Branch \/ Return

Spec == Init /\ [][Next]_vars

-----------------------------------------------------------------------------
(* The locals no integer quotient flows into: the analysis keeps the       *)
(* fraction of a quotient's bounds (engine.rs:340), so its numbers need    *)
(* not hold the truncated one.                                             *)
ReadsIn(o, T) == IsPlace(o) /\ ~o.projected => o.local \in T

Exactly(rv, T) ==
  /\ rv.op = "Use" \/ (rv.op = "Unary" /\ rv.kind = "Neg") => ReadsIn(rv.operand, T)
  /\ rv.op \in {"Binary", "Checked"} /\ rv.kind \in Arithmetic =>
       /\ rv.kind = "Div" => ~IsInteger(TypeOf(rv.left))
       /\ ReadsIn(rv.left, T) /\ ReadsIn(rv.right, T)

Closed(T) ==
  \A b \in Block : \A i \in DOMAIN mir.blocks[b].stmts :
    LET s == mir.blocks[b].stmts[i]
    IN  s.place.local \in T /\ ~s.place.projected => Exactly(s.rvalue, T)

Trusted == UNION {T \in SUBSET DOMAIN mir.locals : Closed(T)}

(* The values an AbstractNumber stands for.                                *)
Covers(x, v) ==
  IF v = NaN THEN x.may_be_nan
  ELSE /\ v # x.excluded
       /\ x.integer /\ Finite(v) => IsWhole(v)
       /\ x.lower <= v /\ v <= x.upper

(* Whenever the running program enters a block, the analysis has reached   *)
(* that block and its entry state covers the value of every local that no  *)
(* quotient flows into; what the program returns lies in the reported      *)
(* return range.  A program that took a misread arm is past it.            *)
Sound ==
  \A r \in report : ~machine.misread =>
    /\ machine.end = "none" /\ machine.next = 1 =>
         /\ machine.at \in DOMAIN block_in
         /\ \A l \in Trusted : Covers(block_in[machine.at][l], machine.vals[l])
    /\ machine.end = "returned" /\ 0 \in Trusted => Covers(r.returns, machine.vals[0])

(* An integer division that panics is one the report lists, unless the     *)
(* analysis had lost that its divisor is an integer - or a quotient flows  *)
(* into the divisor, the result goes through a projection (the division is *)
(* then not in the facts, bodies.rs:385), or a misread arm was taken.      *)
PanicsReported ==
  \A r \in report :
    LET s == Here.stmts[machine.next]
    IN  /\ machine.end = "panicked" /\ ~machine.misread
        /\ ~s.place.projected /\ ReadsIn(s.rvalue.right, Trusted)
        => \/ <<machine.at, machine.next>> \in r.hazards
           \/ ~Divisor(machine.at, machine.next).integer

(* When the worklist runs dry no edge carries anything the entry state of  *)
(* its target does not stand for: the cap on visits never cut the          *)
(* iteration short.                                                        *)
FixedPoint ==
  worklist = << >> =>
    \A b \in DOMAIN block_in : LET edges == EdgesOf(b) IN
      \A i \in DOMAIN edges :
        /\ edges[i].to \in DOMAIN block_in
        /\ \A l \in DOMAIN mir.locals : Within(edges[i].state[l], block_in[edges[i].to][l])
=============================================================================
