----------------------------- MODULE Statements -----------------------------
(***************************************************************************)
(* Control flow from C to the code of a function: ir_gen_statement         *)
(* (src/src/ir_gen/statement.c), the conditional expressions of            *)
(* src/src/ir_gen/expr.c, the goto fixups of src/src/ir_gen/ir_gen.c and   *)
(* what src/src/backend/asm_gen.c makes of jumps and phis.                 *)
(*                                                                         *)
(* A statement is [t, e, init, update, name, val, kids], an expression     *)
(* [t, kids].  A node is named by its path: the function, then the child   *)
(* taken at each level.  Evaluating a leaf expression is an event whose    *)
(* answer the environment chooses.  The generated blocks are run beside    *)
(* the C program, which says what must be evaluated next.                  *)
(***************************************************************************)
EXTENDS Integers, FiniteSetsExt, SequencesExt

CONSTANT Programs   \* sequences of function bodies

VARIABLES
  prog,   \* the program
  unit,   \* what ir_gen made of it
  pc,     \* <<block, instruction>>
  vregs,  \* the values computed so far: path |-> number
  want    \* C: the leaf to evaluate next, Return or Refuse

vars == <<prog, unit, pc, vregs, want>>

Return == <<>>
Refuse == <<0>>
NoBlock == 0
Zero == <<100>>
One == <<101>>

(* Children of a statement other than statements: its expression (the      *)
(* condition of a loop), and the other two of a for.                       *)
E == 0
INIT_E == 10
UPDATE_E == 12

Child(node, i) ==
  CASE i = E -> node.e [] i = INIT_E -> node.init [] i = UPDATE_E -> node.update [] OTHER -> node.kids[i]
RECURSIVE Node(_)
Node(p) == IF Len(p) = 1 THEN prog[p[1]] ELSE Child(Node(Front(p)), Last(p))
Absent(p) == Node(p).t = "none"

-----------------------------------------------------------------------------
(* The builder: blocks are numbered as they are allocated; a function's    *)
(* blocks are those added to it.                                           *)
Instr(op) == [op |-> op, id |-> <<>>, arg |-> <<>>, val |-> 0, then |-> NoBlock, else |-> NoBlock, params |-> {}]
Jump(b) == [Instr("jump") EXCEPT !.then = b]
Cond(v, then, else) == [Instr("cond") EXCEPT !.arg = v, !.then = then, !.else = else]
Ret == Instr("ret")

Fresh(g) == Len(g.code) + 1
Alloc(g) == [g EXCEPT !.code = Append(@, <<>>)]
Add(g, b) == [g EXCEPT !.blocks = @ \cup {b}]
AddBlock(g) == Add(Alloc(g), Fresh(g))
Emit(g, instr) == [g EXCEPT !.code[g.cur] = Append(@, instr)]
In(g, b) == [g EXCEPT !.cur = b]

Value(q) == CASE Node(q).t = "one" -> One [] Node(q).t = "zero" -> Zero [] OTHER -> q

(* build_cmp with 0 folds a constant. *)
AsBool(q) == IF Value(q) = q THEN Append(q, 9) ELSE Value(q)
EmitAsBool(g, q) ==
  IF Value(q) = q THEN Emit(g, [Instr("cmp") EXCEPT !.id = AsBool(q), !.arg = q]) ELSE g

Phi(q, b1, v1, b2, v2) == [Instr("phi") EXCEPT !.id = q, !.params = {<<b1, v1>>, <<b2, v2>>}]

RECURSIVE GenExpr(_, _)
GenExpr(g, q) ==
  LET b == Fresh(g)
      kid(i) == Append(q, i)
  IN CASE Node(q).t \in {"one", "zero", "none"} -> g
     [] Node(q).t = "leaf" -> Emit(g, [Instr("eval") EXCEPT !.id = q])
     [] Node(q).t \in {"and", "or"} ->
          LET rhs == b
              after == b + 1
              lhs == GenExpr(AddBlock(AddBlock(g)), kid(1))
              branch == IF Node(q).t = "or" THEN Cond(Value(kid(1)), after, rhs) ELSE Cond(Value(kid(1)), rhs, after)
              right == GenExpr(In(Emit(lhs, branch), rhs), kid(2))
              done == Emit(EmitAsBool(right, kid(2)), Jump(after))
          IN  Emit(In(done, after),
                   Phi(q, lhs.cur, IF Node(q).t = "or" THEN One ELSE Zero, right.cur, AsBool(kid(2))))
     [] Node(q).t = "ternary" ->
          LET c == GenExpr(AddBlock(AddBlock(AddBlock(g))), kid(1))
              then == GenExpr(In(Emit(c, Cond(Value(kid(1)), b, b + 1)), b), kid(2))
              else == GenExpr(In(then, b + 1), kid(3))
              jumps == Emit(In(Emit(In(else, then.cur), Jump(b + 2)), else.cur), Jump(b + 2))
          IN  Emit(In(jumps, b + 2), Phi(q, then.cur, Value(kid(2)), else.cur, Value(kid(3))))

-----------------------------------------------------------------------------
(* One operator per kind of statement. *)
RECURSIVE GenStatement(_, _)

HasElse(p) == Len(Node(p).kids) = 2

(* The blocks that c, then and else end in are closed once all are known. *)
CloseIf(c, then, else, p) ==
  LET after == Fresh(else)
      g1 == Emit(In(AddBlock(else), c.cur),
                 Cond(Value(Append(p, E)), Fresh(c), IF HasElse(p) THEN Fresh(then) ELSE after))
      g2 == Emit(In(g1, then.cur), Jump(after))
  IN  In(IF HasElse(p) THEN Emit(In(g2, else.cur), Jump(after)) ELSE g2, after)

GenElse(c, then, p) ==
  CloseIf(c, then,
          IF HasElse(p) THEN GenStatement(In(AddBlock(then), Fresh(then)), Append(p, 2)) ELSE then, p)

GenThen(c, p) == GenElse(c, GenStatement(In(AddBlock(c), Fresh(c)), Append(p, 1)), p)

GenIf(g, p) == GenThen(GenExpr(g, Append(p, E)), p)

(* The comparisons, one per case and in the order the labels were met; a   *)
(* default jumps last, wherever it stands.                                 *)
GenCompare(g, label) ==
  LET next == Fresh(g)
      cmp == [Instr("cmp") EXCEPT !.id = label.id, !.arg = label.switch, !.val = label.val]
  IN  IF label.default THEN g
      ELSE In(Emit(Emit(AddBlock(g), cmp), Cond(label.id, label.block, next)), next)

GenSwitch(g, p) ==
  LET after == Fresh(g)
      entered == [AddBlock(AddBlock(g)) EXCEPT !.cases = <<>>, !.brk = after, !.cur = after + 1]
      body == Emit(GenStatement(entered, Append(p, 1)), Jump(after))
      value == GenExpr(In(body, g.cur), Append(p, E))
      labelled == [i \in 1..Len(body.cases) |->
                     [body.cases[i] EXCEPT !.switch = Value(Append(p, E)), !.id = p \o <<50, i>>]]
      compared == FoldLeft(GenCompare, value, labelled)
      defaults == {i \in 1..Len(labelled) : labelled[i].default}
      target == IF defaults = {} THEN after ELSE labelled[Max(defaults)].block
  IN  [Emit(compared, Jump(target)) EXCEPT !.cur = after, !.brk = g.brk, !.cases = g.cases]

Label(default, val, block) == [default |-> default, val |-> val, block |-> block, switch |-> <<>>, id |-> <<>>]

GenCase(g, p) ==
  LET block == Fresh(g)
      inner == GenStatement(In(Emit(AddBlock(g), Jump(block)), block), Append(p, 1))
  IN  [inner EXCEPT !.cases = Append(@, Label(FALSE, Node(p).val, block))]

GenLabeled(g, p) ==
  LET block == Fresh(g)
      here == In(Emit(AddBlock(g), Jump(block)), block)
  IN  GenStatement(IF Node(p).t = "default" THEN [here EXCEPT !.cases = Append(@, Label(TRUE, 0, block))]
          ELSE [here EXCEPT !.labels = Append(@, <<Node(p).name, block>>)],
          Append(p, 1))

(* A body with its targets; the ones around it are put back. *)
GenBody_KeepsContinue(g, p, brk, cont) ==
  [GenStatement([g EXCEPT !.brk = brk, !.cont = cont], Append(p, 1)) EXCEPT !.brk = g.brk]

GenBody(g, p, brk, cont) ==
  [GenStatement([g EXCEPT !.brk = brk, !.cont = cont], Append(p, 1)) EXCEPT !.brk = g.brk, !.cont = g.cont]

GenWhile(g, p) ==
  LET header == Fresh(g)
      after == header + 1
      c == GenExpr(In(Emit(Alloc(AddBlock(g)), Jump(header)), header), Append(p, E))
      body == Fresh(c)
      branched == Emit(AddBlock(c), Cond(Value(Append(p, E)), body, after))
      done == Emit(GenBody(In(branched, body), p, after, header), Jump(header))
  IN  In(Add(done, after), after)

GenDoWhile_ContinuesAtBody(g, p) ==
  LET header == Fresh(g)
      body == header + 1
      after == header + 2
      c == GenExpr(In(Emit(AddBlock(AddBlock(AddBlock(g))), Jump(body)), header), Append(p, E))
      branched == Emit(c, Cond(Value(Append(p, E)), body, after))
  IN  In(Emit(GenBody(In(branched, body), p, after, body), Jump(header)), after)

GenDoWhile(g, p) ==
  LET header == Fresh(g)
      body == header + 1
      after == header + 2
      c == GenExpr(In(Emit(AddBlock(AddBlock(AddBlock(g))), Jump(body)), header), Append(p, E))
      branched == Emit(c, Cond(Value(Append(p, E)), body, after))
  IN  In(Emit(GenBody(In(branched, body), p, after, header), Jump(header)), after)

GenFor(g, p) ==
  LET header == Fresh(g)
      body == header + 1
      update == header + 2
      after == header + 3
      init == GenExpr(Alloc(Alloc(AddBlock(AddBlock(g)))), Append(p, INIT_E))
      c == GenExpr(In(Emit(init, Jump(header)), header), Append(p, E))
      cond == IF Absent(Append(p, E)) THEN One ELSE Value(Append(p, E))
      looped == GenBody(In(Emit(c, Cond(cond, body, after)), body), p, after, update)
      updated == GenExpr(In(Add(Emit(looped, Jump(update)), update), update), Append(p, UPDATE_E))
  IN  In(Add(Emit(updated, Jump(header)), after), after)

GenGoto(g, p) ==
  LET after == Fresh(g)
      jumped == [Emit(g, Jump(NoBlock)) EXCEPT
                   !.fixups = Append(@, [at |-> <<g.cur, Len(g.code[g.cur]) + 1>>, name |-> Node(p).name])]
  IN  In(AddBlock(jumped), after)

(* A jump without a target is a fatal error. *)
GenExit(g, target) == IF target = NoBlock THEN [g EXCEPT !.fatal = TRUE] ELSE Emit(g, Jump(target))

GenStatement(g, p) ==
  CASE Node(p).t = "compound" -> FoldLeft(LAMBDA h, i : GenStatement(h, Append(p, i)), g, [i \in 1..Len(Node(p).kids) |-> i])
    [] Node(p).t = "expr" -> GenExpr(g, Append(p, E))
    [] Node(p).t = "return" -> Emit(GenExpr(g, Append(p, E)), Ret)
    [] Node(p).t = "if" -> GenIf(g, p)
    [] Node(p).t = "switch" -> GenSwitch(g, p)
    [] Node(p).t = "case" -> GenCase(g, p)
    [] Node(p).t \in {"label", "default"} -> GenLabeled(g, p)
    [] Node(p).t = "while" -> GenWhile(g, p)
    [] Node(p).t = "do" -> GenDoWhile(g, p)
    [] Node(p).t = "for" -> GenFor(g, p)
    [] Node(p).t = "goto" -> GenGoto(g, p)
    [] Node(p).t = "break" -> GenExit(g, g.brk)
    [] Node(p).t = "continue" -> GenExit(g, g.cont)
    [] Node(p).t = "empty" -> g

(* ir_gen_function: a ret is added unless the last block ends in one. *)
CloseFunction(made, entry) ==
  LET last == made.code[made.cur]
      closed == IF last # <<>> /\ Last(last).op = "ret" THEN made ELSE Emit(made, Ret)
  IN  [closed EXCEPT !.functions = Append(@, [entry |-> entry, blocks |-> closed.blocks])]

GenFunction(g, f) ==
  CloseFunction(GenStatement([AddBlock([g EXCEPT !.blocks = {}]) EXCEPT !.cur = Fresh(g)], <<f>>), Fresh(g))

Fixup(g, fixup) ==
  LET named == {i \in 1..Len(g.labels) : g.labels[i][1] = fixup.name}
  IN  [g EXCEPT !.code[fixup.at[1]][fixup.at[2]].then = g.labels[Min(named)][2]]

Empty == [code |-> <<>>, blocks |-> {}, cur |-> NoBlock, brk |-> NoBlock, cont |-> NoBlock, cases |-> <<>>,
          labels |-> <<>>, fixups |-> <<>>, functions |-> <<>>, fatal |-> FALSE]

PatchGotos(g) == FoldLeft(Fixup, g, g.fixups)

IrGen == PatchGotos(FoldLeft(GenFunction, Empty, [f \in 1..Len(prog) |-> f]))

-----------------------------------------------------------------------------
(***************************************************************************)
(* C99 6.5.13-15 and 6.8: from where a node is entered or ends to the leaf *)
(* that is evaluated next.                                                 *)
(***************************************************************************)
RECURSIVE Paths(_)
Paths(p) == {p} \cup UNION {Paths(Append(p, i)) : i \in 1..Len(Node(p).kids)}

Above(p) == {SubSeq(p, 1, n) : n \in 1..(Len(p) - 1)}
Around(p, types) == {q \in Above(p) : Node(q).t \in types}
Inner(paths) == CHOOSE q \in paths : \A r \in paths : Len(r) <= Len(q)

Loops == {"while", "do", "for"}
Breakable == Loops \cup {"switch"}

LabelOf(p) == CHOOSE q \in Paths(<<p[1]>>) : Node(q).t = "label" /\ Node(q).name = Node(p).name
Within(p, t) == {q \in Paths(p) : Node(q).t = t /\ Inner(Around(q, {"switch"})) = p}

RECURSIVE Enter(_), After(_), Again(_), EnterExpr(_), Ended(_, _)
Enter(p) ==
  LET t == Node(p).t
  IN  CASE t \in {"expr", "if", "while", "switch"} -> EnterExpr(Append(p, E))
        [] t = "compound" -> IF Node(p).kids = <<>> THEN After(p) ELSE Enter(Append(p, 1))
        [] t \in {"do", "case", "default", "label"} -> Enter(Append(p, 1))
        [] t = "for" -> EnterExpr(Append(p, INIT_E))
        [] t = "return" -> EnterExpr(Append(p, E))
        [] t = "goto" -> Enter(LabelOf(p))
        [] t = "break" -> After(Inner(Around(p, Breakable)))
        [] t = "continue" -> Again(Inner(Around(p, Loops)))
        [] t = "empty" -> After(p)

After(p) ==
  LET parent == Front(p)
      t == Node(parent).t
  IN  CASE Len(p) = 1 -> Return
        [] Len(p) > 1 /\ t = "compound" ->
             IF Last(p) < Len(Node(parent).kids) THEN Enter(Append(parent, Last(p) + 1)) ELSE After(parent)
        [] Len(p) > 1 /\ t \in Loops -> Again(parent)
        [] OTHER -> After(parent)

Again(p) == EnterExpr(Append(p, IF Node(p).t = "for" THEN UPDATE_E ELSE E))

EnterExpr(q) ==
  LET t == Node(q).t
  IN  CASE t = "leaf" -> q
        [] t = "zero" -> Ended(q, 0)
        [] t \in {"one", "none"} -> Ended(q, 1)
        [] OTHER -> EnterExpr(Append(q, 1))

Ended(q, v) ==
  LET parent == Front(q)
      t == Node(parent).t
      kid(i) == Append(parent, i)
      cases == {c \in Within(parent, "case") : Node(c).val = v}
      defaults == Within(parent, "default")
  IN  CASE t = "and" -> IF Last(q) = 2 \/ v = 0 THEN Ended(parent, IF v = 0 THEN 0 ELSE 1) ELSE EnterExpr(kid(2))
        [] t = "or" -> IF Last(q) = 2 \/ v # 0 THEN Ended(parent, IF v = 0 THEN 0 ELSE 1) ELSE EnterExpr(kid(2))
        [] t = "ternary" -> IF Last(q) = 1 THEN EnterExpr(kid(IF v = 0 THEN 3 ELSE 2)) ELSE Ended(parent, v)
        [] t = "expr" -> After(parent)
        [] t = "return" -> Return
        [] t = "if" -> IF v # 0 THEN Enter(kid(1)) ELSE IF Len(Node(parent).kids) = 2 THEN Enter(kid(2)) ELSE After(parent)
        [] t \in {"while", "do"} \/ (t = "for" /\ Last(q) = E) -> IF v # 0 THEN Enter(kid(1)) ELSE After(parent)
        [] t = "for" /\ Last(q) # E -> EnterExpr(kid(E))
        [] t = "switch" ->
             IF cases # {} THEN Enter(CHOOSE c \in cases : TRUE)
             ELSE IF defaults # {} THEN Enter(CHOOSE d \in defaults : TRUE) ELSE After(parent)

(* A break outside any loop or switch, or a continue outside any loop. *)
Invalid ==
  \E f \in 1..Len(prog) : \E p \in Paths(<<f>>) :
    \/ Node(p).t = "break" /\ Around(p, Breakable) = {}
    \/ Node(p).t = "continue" /\ Around(p, Loops) = {}

-----------------------------------------------------------------------------
(* The generated code runs: a phi's register is written before the jump,   *)
(* and for both successors of a branch on a value.                         *)
Init ==
  /\ prog \in Programs
  /\ unit = Empty
  /\ pc = <<NoBlock, 1>>
  /\ want = Return
  /\ vregs = [q \in {Zero, One} |-> IF q = One THEN 1 ELSE 0]

Compiled == unit # Empty

(* ir_gen; then one of the functions is called. *)
Compile ==
  /\ ~Compiled
  /\ unit' = IrGen
  /\ \E f \in 1..Len(prog) :
       /\ pc' = <<unit'.functions[f].entry, 1>>
       /\ want' = IF Invalid THEN Refuse ELSE Enter(<<f>>)
  /\ UNCHANGED <<prog, vregs>>

Here == unit.code[pc[1]][pc[2]]
Set(regs, id, v) == [q \in DOMAIN regs \cup {id} |-> IF q = id THEN v ELSE regs[q]]
Running(op) == Compiled /\ ~unit.fatal /\ pc[2] <= Len(unit.code[pc[1]]) /\ Here.op = op

HandlePhiNodes(regs, b) ==
  LET phi == unit.code[b][1]
      param == CHOOSE x \in phi.params : x[1] = pc[1]
  IN  IF unit.code[b] = <<>> \/ unit.code[b][1].op # "phi" THEN regs ELSE Set(regs, phi.id, regs[param[2]])

Step(regs) == vregs' = regs /\ pc' = <<pc[1], pc[2] + 1>> /\ UNCHANGED <<prog, unit>>

Answers(q) == IF Node(Front(q)).t = "switch" THEN 0..2 ELSE {0, 2}

Eval ==
  /\ Running("eval")
  /\ \E v \in Answers(Here.id) : Step(Set(vregs, Here.id, v)) /\ want' = Ended(Here.id, v)

Cmp ==
  /\ Running("cmp")
  /\ Step(Set(vregs, Here.id, IF Len(Here.id) > 1 /\ Here.id[Len(Here.id) - 1] = 50
                              THEN IF vregs[Here.arg] = Here.val THEN 1 ELSE 0
                              ELSE IF vregs[Here.arg] # 0 THEN 1 ELSE 0))
  /\ UNCHANGED want

PhiNode == Running("phi") /\ Step(vregs) /\ UNCHANGED want

Go(regs, b) == vregs' = regs /\ pc' = <<b, 1>> /\ UNCHANGED <<prog, unit, want>>

TakeJump == Running("jump") /\ Go(HandlePhiNodes(vregs, Here.then), Here.then)

Branch ==
  LET moved == HandlePhiNodes(vregs, Here.then)
      taken == IF vregs[Here.arg] # 0 THEN Here.then ELSE Here.else
  IN  /\ Running("cond")
      /\ IF Here.arg \in {Zero, One} THEN Go(HandlePhiNodes(vregs, taken), taken)
         ELSE IF moved[Here.arg] # 0 THEN Go(moved, Here.then)
         ELSE Go(HandlePhiNodes(moved, Here.else), Here.else)

Done == (unit.fatal \/ Running("ret")) /\ UNCHANGED vars

Silent == Cmp \/ PhiNode \/ TakeJump \/ Branch

Next == Compile \/ Eval \/ Silent \/ Done

Spec == Init /\ [][Next]_vars /\ WF_vars(Silent)

-----------------------------------------------------------------------------
(* "every block ends in a terminating instruction", every target is a      *)
(* block of the same function, and a phi has a parameter for every block   *)
(* that jumps to it, dead code included (the assertion of                  *)
(* handle_phi_nodes).                                                      *)
Targets(instr) == (IF instr.op \in {"jump", "cond"} THEN {instr.then} ELSE {})
                  \cup (IF instr.op = "cond" THEN {instr.else} ELSE {})
WellFormed ==
  Compiled /\ ~unit.fatal =>
    \A f \in 1..Len(unit.functions) : \A b \in unit.functions[f].blocks :
      /\ unit.code[b] # <<>> /\ Last(unit.code[b]).op \in {"jump", "cond", "ret"}
      /\ \A i \in 1..Len(unit.code[b]) : \A t \in Targets(unit.code[b][i]) :
           /\ t \in unit.functions[f].blocks
           /\ \A j \in 1..Len(unit.code[t]) :
                unit.code[t][j].op = "phi" => j = 1 /\ \E x \in unit.code[t][j].params : x[1] = b

(***************************************************************************)
(* The code evaluates what C evaluates, in the same order, and returns     *)
(* when C does, whatever the answers: for every mix of loops, switches,    *)
(* gotos, breaks and continues, and with the values of &&, || and ?:       *)
(* carried by phis.  A misplaced break or continue is refused, and the     *)
(* blocks are well formed.                                                 *)
(***************************************************************************)
EvaluatesAsC ==
  /\ WellFormed
  /\ Compiled => (unit.fatal <=> want = Refuse)
  /\ Running("eval") => want = Here.id
  /\ Running("ret") => want = Return

(***************************************************************************)
(* No jumps without an evaluation go round for ever: the next expression   *)
(* is reached, or the function returns.                                    *)
(***************************************************************************)
KeepsGoing == []<>(~Compiled \/ unit.fatal \/ Running("eval") \/ Running("ret"))
=============================================================================
