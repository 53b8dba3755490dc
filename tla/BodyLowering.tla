---------------------------- MODULE BodyLowering ----------------------------
(***************************************************************************)
(* The Rust driver's lowering of a MIR body to the body facts the range    *)
(* analysis reads (crates/hinzu-rustc-driver/src/bodies.rs).               *)
(*                                                                         *)
(* A MIR body is [locals, arg_count, blocks]: locals maps 0..n to a type,  *)
(* blocks maps 0..m to [stmts, terminator].  A place is [local, projected];*)
(* an operand is a place or a literal [ty, value].                         *)
(***************************************************************************)
EXTENDS Integers, Sequences

CONSTANT NarrowModulus  \* how many values an integer narrower than 64 bits has, scaled

Lit(ty, v) == [ty |-> ty, value |-> v]
Opaque == Lit("opaque", 0)

IsPlace(o) == "local" \in DOMAIN o

num_kind(ty) ==
  CASE ty \in {"i64", "i32"} -> "Int"
    [] ty = "u64" -> "Uint"
    [] ty = "f64" -> "Float"
    [] ty = "bool" -> "Bool"
    [] OTHER -> "Other"

(* A constant that is no scalar, and a place reached through a projection, *)
(* become a constant of unknown value.                                     *)
lower_operand(o) ==
  IF IsPlace(o) THEN IF o.projected THEN Opaque ELSE [local |-> o.local]
  ELSE IF num_kind(o.ty) = "Other" THEN Opaque
  ELSE o

Comparisons == {"Eq", "Ne", "Lt", "Le", "Gt", "Ge"}
Arithmetic == {"Add", "Sub", "Mul", "Div", "Rem"}

lower_binop(op) == IF op \in Comparisons \cup Arithmetic THEN op ELSE "Other"

(* The pair a checked operation yields is lowered to its first component.  *)
lower_rvalue(rv) ==
  CASE rv.op = "Use" -> [op |-> "Use", operand |-> lower_operand(rv.operand)]
    [] rv.op \in {"Binary", "Checked"} ->
         [op |-> "Binary", kind |-> lower_binop(rv.kind),
          left |-> lower_operand(rv.left), right |-> lower_operand(rv.right)]
    [] rv.op = "Unary" -> [op |-> "Unary", kind |-> rv.kind, operand |-> lower_operand(rv.operand)]
    [] OTHER -> [op |-> "Unknown"]

(* A write through a projection havocs its base.                           *)
lower_statement(s) ==
  [place |-> s.place.local,
   rvalue |-> IF s.place.projected THEN [op |-> "Unknown"] ELSE lower_rvalue(s.rvalue)]

(* Switch values come as the bits of the discriminant, unsigned in its own *)
(* width.                                                                  *)
SwitchValue(ty, v) == IF ty = "i32" /\ v < 0 THEN v + NarrowModulus ELSE v

lower_terminator(t, locals) ==
  CASE t.kind = "SwitchInt" ->
         [kind |-> "SwitchInt", discr |-> lower_operand(t.discr), otherwise |-> t.otherwise,
          targets |-> [i \in DOMAIN t.targets |->
                         [value |-> SwitchValue(locals[t.discr.local], t.targets[i].value),
                          block |-> t.targets[i].block]]]
    [] t.kind = "Call" ->
         [kind |-> "Call", target |-> t.target,
          destination |-> IF t.destination.projected THEN {} ELSE {t.destination.local}]
    [] t.kind = "Drop" -> [kind |-> "Other", successors |-> <<t.block>>]
    [] t.kind \in {"Goto", "Assert", "Return", "Unreachable"} -> t
    [] OTHER -> [kind |-> "Other", successors |-> << >>]

lower_body(mir) ==
  [locals |-> [l \in DOMAIN mir.locals |-> num_kind(mir.locals[l])],
   arg_count |-> mir.arg_count,
   blocks |-> [b \in DOMAIN mir.blocks |->
                 [stmts |-> [i \in DOMAIN mir.blocks[b].stmts |-> lower_statement(mir.blocks[b].stmts[i])],
                  terminator |-> lower_terminator(mir.blocks[b].terminator, mir.locals)]]]
=============================================================================
