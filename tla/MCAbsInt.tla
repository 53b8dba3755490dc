------------------------------ MODULE MCAbsInt ------------------------------
(***************************************************************************)
(* Small functions: guarded divisions in every comparison, loops, switches *)
(* on bare integers, joins, calls and opaque values.                       *)
(***************************************************************************)
EXTENDS AbsInt

Num(i) == Lit("i64", i * Scale)
V(l) == [local |-> l, projected |-> FALSE]
Field(l) == [local |-> l, projected |-> TRUE]

Set(l, rv) == [place |-> V(l), rvalue |-> rv]
Use(o) == [op |-> "Use", operand |-> o]
Bin(kind, a, b) == [op |-> "Binary", kind |-> kind, left |-> a, right |-> b]
Checked(kind, a, b) == [op |-> "Checked", kind |-> kind, left |-> a, right |-> b]
Un(kind, o) == [op |-> "Unary", kind |-> kind, operand |-> o]
Opaquely == [op |-> "Ref"]

B(stmts, t) == [stmts |-> stmts, terminator |-> t]
Goto(b) == [kind |-> "Goto", block |-> b]
Checks(b) == [kind |-> "Assert", block |-> b]
Drop(b) == [kind |-> "Drop", block |-> b]
Ret == [kind |-> "Return"]
Resume == [kind |-> "Resume"]
Never == [kind |-> "Unreachable"]
Switch(l, targets, otherwise) ==
  [kind |-> "SwitchInt", discr |-> V(l), targets |-> targets, otherwise |-> otherwise]
If(l, then, else) == Switch(l, <<[value |-> 0, block |-> else]>>, then)
CallTo(place, target) == [kind |-> "Call", destination |-> place, target |-> target]

Fn(types, args, blocks) ==
  [locals |-> [l \in 0..Len(types) - 1 |-> types[l + 1]], arg_count |-> args,
   blocks |-> [b \in 0..Len(blocks) - 1 |-> blocks[b + 1]]]

(* fn(_1: ty) { _2 = cmp; _3 = value; if _2 { _0 = 3 op _3 } }             *)
Derived(ty) ==
  LET one == Lit(ty, Scale)
  IN  {Use(V(1)), Bin("Add", V(1), one), Bin("Sub", one, V(1)), Bin("Mul", V(1), Lit(ty, 2 * Scale)),
       Bin("Rem", V(1), Lit(ty, 2 * Scale))}
        \cup (IF ty = "u64" THEN {} ELSE {Un("Neg", V(1))})

Compared(ty, k) ==
  {Bin(op, V(1), Lit(ty, k)) : op \in Comparisons} \cup {Bin(op, Lit(ty, k), V(1)) : op \in Comparisons}

GuardedIn(ty, constants) ==
  {Fn(<<ty, ty, "bool", ty>>, 1,
      << B(<<Set(2, cmp)>>, If(2, 1, 2)),
         B(<<Set(3, value)>>, Checks(3)),
         B(<< >>, Ret),
         B(<<Set(0, Bin(op, Lit(ty, 3 * Scale), V(3)))>>, Ret) >>) :
     <<cmp, value, op>> \in (UNION {Compared(ty, k) : k \in constants}) \X Derived(ty) \X {"Div", "Rem"}}

Guarded ==
  GuardedIn("i64", {-Scale, 0, Scale}) \cup GuardedIn("u64", {0, Scale}) \cup GuardedIn("f64", {0, 1})

(* i = start; while i cmp n { _0 = 3 / (i + d); i = i + step }             *)
Loops ==
  {Fn(<<"i64", "i64", "i64", "bool", "i64">>, 1,
      << B(<<Set(2, Use(Num(start)))>>, Goto(1)),
         B(<<Set(3, Bin(op, V(2), limit))>>, If(3, 2, 3)),
         B(<<Set(4, Bin("Add", V(2), Num(d))), Set(0, Bin("Div", Num(3), V(4))),
             Set(2, Bin("Add", V(2), Num(step)))>>, Goto(1)),
         B(<< >>, Ret) >>) :
     <<start, op, limit, d, step>> \in
       (-1..1) \X {"Lt", "Le", "Gt", "Ne"} \X {V(1), Num(3)} \X {0, 1} \X {-1, 1}}

(* match _1 { v => .., w => .., _ => .. } and a division by what is left   *)
Switches ==
  {Fn(<<"i64", "i64", "i64">>, 1,
      << B(<< >>, Switch(1, targets, 3)),
         B(<<Set(0, Bin("Div", Num(3), V(1)))>>, Ret),
         B(<<Set(2, Bin("Add", V(1), Num(1))), Set(0, Bin("Rem", Num(3), V(2)))>>, Ret),
         B(<<Set(0, Bin("Div", Num(3), V(1)))>>, Ret) >>) :
     targets \in {<<[value |-> v * Scale, block |-> 1]>> : v \in -1..1} \cup
                 {<<[value |-> v * Scale, block |-> 1], [value |-> w * Scale, block |-> 2]>> :
                    <<v, w>> \in {vw \in (-1..1) \X (-1..1) : vw[1] # vw[2]}}}

(* if _1 cmp 0 { _2 = a } else { _2 = b }; _0 = _1 / _2                    *)
Joins ==
  {Fn(<<"i64", "i64", "i64", "bool">>, 1,
      << B(<<Set(3, Bin(op, V(1), Num(0)))>>, If(3, 1, 2)),
         B(<<Set(2, a)>>, Goto(3)),
         B(<<Set(2, b)>>, Goto(3)),
         B(<<Set(0, Bin("Div", V(1), V(2)))>>, Ret) >>) :
     <<op, a, b>> \in {"Lt", "Ne"} \X ({Use(Num(i)) : i \in -1..1} \cup {Use(V(1)), Un("Neg", V(1)), Bin("Add", V(1), Num(1))})
                   \X {Use(Num(i)) : i \in -1..2}}

(* A comparison whose local is written before the branch; a call, a drop,  *)
(* opaque values, writes through a projection, checked arithmetic.         *)
Odd ==
  {Fn(<<"i64", "i64", "bool">>, 1,
      << B(<<Set(2, Bin("Ne", V(1), Num(0))), Set(1, Bin("Sub", V(1), Num(1)))>>, If(2, 1, 2)),
         B(<<Set(0, Bin("Div", Num(3), V(1)))>>, Ret), B(<< >>, Ret) >>),
   Fn(<<"i64", "i64", "bool", "i64">>, 1,
      << B(<<Set(2, Bin("Ne", V(1), Num(0)))>>, CallTo(V(3), <<1>>)),
         B(<< >>, If(2, 2, 3)),
         B(<<Set(0, Bin("Div", V(3), V(1)))>>, Drop(3)), B(<< >>, Ret) >>),
   Fn(<<"i64", "i64", "i64">>, 1,
      << B(<<Set(2, Use(Num(2)))>>, CallTo(V(2), <<1>>)),
         B(<<Set(0, Bin("Div", Num(3), V(2)))>>, Ret) >>),
   Fn(<<"i64", "i64", "opaque", "i64">>, 1,
      << B(<<Set(2, Checked("Add", V(1), Num(1)))>>, Checks(1)),
         B(<<Set(3, Use(Field(2))), Set(0, Bin("Rem", Num(3), V(3)))>>, CallTo(Field(2), <<2>>)),
         B(<<[place |-> Field(2), rvalue |-> Use(Num(0))], Set(3, Opaquely), Set(0, Un("Not", V(1)))>>, Ret) >>),
   Fn(<<"i64", "bool", "i64">>, 1,
      << B(<<Set(2, Bin("BitAnd", Num(3), Num(1)))>>, If(1, 1, 2)),
         B(<<Set(0, Bin("Div", Num(2), V(2)))>>, CallTo(V(0), << >>)),
         B(<<Set(0, Bin("Div", Num(2), V(1)))>>, Resume) >>),
   Fn(<<"i64", "i64", "bool">>, 1,
      << B(<<Set(2, Bin("Eq", V(1), Num(0)))>>, Switch(2, <<[value |-> Scale, block |-> 1]>>, 2)),
         B(<< >>, Never),
         B(<<Set(0, Bin("Div", Num(3), V(1)))>>, Ret) >>)}

(* match _1: i32 { v => .., w => .., _ => .. } with negative arms, and a   *)
(* division by what is one above.                                          *)
Narrow ==
  {Fn(<<"i32", "i32", "i32">>, 1,
      << B(<< >>, Switch(1, targets, 3)),
         B(<<Set(2, Bin("Add", V(1), Lit("i32", Scale))), Set(0, Bin("Rem", Lit("i32", 3 * Scale), V(2)))>>, Ret),
         B(<<Set(0, Bin("Rem", Lit("i32", 3 * Scale), V(1)))>>, Ret),
         B(<<Set(0, Un("Neg", V(1)))>>, Ret) >>) :
     targets \in {<<[value |-> v * Scale, block |-> 1]>> : v \in -2..0} \cup
                 {<<[value |-> v * Scale, block |-> 1], [value |-> w * Scale, block |-> 2]>> :
                    <<v, w>> \in {vw \in (-2..1) \X (-2..1) : vw[1] # vw[2]}}}

(* if _1 = n { _2 = _1 / d; _3 = value; _0 = 3 / _3 }: a quotient divides; *)
(* and one is stored in a field.                                           *)
Halves ==
  {Fn(<<"i64", "i64", "i64", "i64">>, 1,
      << B(<< >>, Switch(1, <<[value |-> n * Scale, block |-> 1]>>, 3)),
         B(<<Set(2, Bin("Div", V(1), Num(d))), Set(3, value)>>, Goto(2)),
         B(<<Set(0, Bin("Div", Num(3), V(3)))>>, Goto(3)),
         B(<< >>, Ret) >>) :
     <<n, d, value>> \in
       {1, 3} \X {-2, 2} \X {Use(V(2)), Bin("Add", V(2), Num(1)), Bin("Sub", V(1), Num(1))}} \cup
  {Fn(<<"i64", "i64", "opaque">>, 1,
      << B(<<[place |-> Field(2), rvalue |-> Bin("Div", Num(3), V(1))]>>, Goto(1)), B(<< >>, Ret) >>)}

MCPrograms == Guarded \cup Loops \cup Switches \cup Joins \cup Odd \cup Narrow \cup Halves

MCInputs(ty) ==
  CASE ty = "u64" -> {i * Scale : i \in 0..3}
    [] ty = "f64" -> {-MaxD, -Scale, -1, 0, 1, Scale, 3 * Scale, MaxD}
    [] ty = "bool" -> {0, Scale}
    [] OTHER -> {i * Scale : i \in -3..3}
=============================================================================
