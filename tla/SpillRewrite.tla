---------------------------- MODULE SpillRewrite ----------------------------
(***************************************************************************)
(* The third pass of allocate_registers in src/src/backend/reg_alloc.c:    *)
(* every virtual register of the body is replaced, in place, by the        *)
(* register the earlier passes chose or, for a spilled one, by the spill   *)
(* register between a load from its slot and a store back.                 *)
(*                                                                         *)
(* An instruction is [op, args, n]; an operand is [t, n, w]: a virtual     *)
(* register ("V"), a physical one ("P"), or none ("M": memory, constant).  *)
(* Widths are 32 and 64, and a value is its low and its high half.         *)
(***************************************************************************)
EXTENDS Integers, SequencesExt

CONSTANTS
  Programs,    \* the bodies instruction selection may emit, straight-line
  Placements   \* functions from virtual registers to [reg, slot]

Spill == "r12"     \* INT_SPILL_REGISTER
OnStack == "none"    \* VReg.t is ON_STACK

VARIABLES
  source,  \* the body before the pass
  place,   \* the virtual registers after the earlier passes
  body,    \* builder->current_block
  i, j,    \* the instruction and the operand being visited; j = 0 before the first
  stale,   \* <<instr>> when the array was moved and instr points to the old copy
  diff     \* curr_sp_diff

vars == <<source, place, body, i, j, stale, diff>>

P(r, w) == [t |-> "P", n |-> r, w |-> w]
M == [t |-> "M", n |-> 0, w |-> 64]
Instr(op, args, n) == [op |-> op, args |-> args, n |-> n]

Init ==
  /\ source \in Programs /\ place \in Placements
  /\ body = source
  /\ i = 1 /\ j = 0 /\ stale = <<>> /\ diff = 0

-----------------------------------------------------------------------------
(* The record that the pointer instr points to. *)
Current == IF stale = <<>> THEN body[i] ELSE stale[1]

VisitInstr ==
  /\ i <= Len(body) /\ j = 0
  /\ diff' = IF body[i].op = "SUBSP" THEN diff + body[i].n ELSE diff
  /\ j' = 1
  /\ UNCHANGED <<source, place, body, i, stale>>

Visiting == i <= Len(body) /\ j \in 1..Len(Current.args)
Operand == Current.args[j]

SkipOperand ==
  /\ Visiting
  /\ Operand.t # "V"
  /\ j' = j + 1
  /\ UNCHANGED <<source, place, body, i, stale, diff>>

(* instr->args[j] := r, through the pointer instr. *)
Assigned(r) == [Current EXCEPT !.args[j] = P(r, @.w)]

UseRegister ==
  /\ Visiting
  /\ Operand.t = "V" /\ place[Operand.n].reg # OnStack
  /\ LET new == Assigned(place[Operand.n].reg)
     IN  IF stale = <<>> THEN body' = [body EXCEPT ![i] = new] /\ UNCHANGED stale
         ELSE stale' = <<new>> /\ UNCHANGED body
  /\ j' = j + 1
  /\ UNCHANGED <<source, place, i, diff>>

Load(v, w) == Instr("LOAD", <<P(Spill, w), M>>, place[v].slot + diff)
Store(v, w) == Instr("STORE", <<M, P(Spill, w)>>, place[v].slot + diff)

Around_StoreFirst(seq, v, w, wback) ==
  InsertAt(InsertAt(seq, i, Load(v, w)), i + 1, Store(v, wback))

(* ARRAY_INSERT at i, then at i + 2: the instruction is between them. *)
Around(seq, v, w, wback) ==
  InsertAt(InsertAt(seq, i, Load(v, w)), i + 2, Store(v, wback))

(* After the first ARRAY_INSERT, instr and arg point at the load that was  *)
(* just written, where the second operand is a 64-bit stack address; if    *)
(* the array moved they point at the old copy of the instruction.          *)
UseSlot ==
  /\ Visiting
  /\ Operand.t = "V" /\ place[Operand.n].reg = OnStack
  /\ LET v == Operand.n
         w == Operand.w
         new == Assigned(Spill)
         written == IF stale = <<>> THEN [body EXCEPT ![i] = new] ELSE body
     IN  \E moved \in BOOLEAN :
           LET old == moved \/ stale # <<>>
           IN  /\ body' = Around(written, v, w, IF old \/ j = 1 THEN w ELSE 64)
               /\ stale' = IF old THEN <<new>> ELSE <<>>
  /\ j' = j + 1
  /\ UNCHANGED <<source, place, i, diff>>

NextInstr ==
  /\ i <= Len(body) /\ j > Len(Current.args)
  /\ i' = i + 1 /\ j' = 0 /\ stale' = <<>>
  /\ UNCHANGED <<source, place, body, diff>>

Finished == i > Len(body)
Done == Finished /\ UNCHANGED vars

Next == VisitInstr \/ SkipOperand \/ UseRegister \/ UseSlot \/ NextInstr \/ Done

Spec == Init /\ [][Next]_vars

-----------------------------------------------------------------------------
(* What the instructions do, for both kinds of body.  A machine has a file *)
(* of registers (virtual ones before the pass), a stack, the stack pointer *)
(* and the sequence of values the program has let out.                     *)
Unset == [lo |-> <<"unset">>, hi |-> <<"unset">>]
Narrow(x) == [lo |-> x.lo, hi |-> <<"zero">>]
Truncated(x, w) == IF w = 32 THEN Narrow(x) ELSE x

Boot(names, cells) == [file |-> [r \in names |-> Unset], mem |-> [c \in cells |-> Unset],
                       sp |-> 0, out |-> <<>>]

Write(m, arg, x) == [m EXCEPT !.file[arg.n] = Truncated(x, arg.w)]
Read(m, arg) == Truncated(m.file[arg.n], arg.w)
Sum(x, y) == [lo |-> <<"sum", x.lo, y.lo>>, hi |-> <<"sum", x.hi, y.hi>>]

Exec(m, instr) ==
  LET a == instr.args[1]
      b == instr.args[2]
  IN  CASE instr.op = "CONST" ->
             Write(m, a, [lo |-> <<"lo", instr.n>>, hi |-> <<"hi", instr.n>>])
        [] instr.op = "ADD"   -> Write(m, a, Sum(Read(m, a), Read(m, b)))
        [] instr.op = "PUT"   -> [m EXCEPT !.out = Append(@, Read(m, b))]
        [] instr.op = "SUBSP" -> [m EXCEPT !.sp = @ - instr.n]
        [] instr.op = "ADDSP" -> [m EXCEPT !.sp = @ + instr.n]
        [] instr.op = "LOAD"  -> Write(m, a, m.mem[m.sp + instr.n])
        [] instr.op = "STORE" ->
             [m EXCEPT !.mem[m.sp + instr.n] =
                IF b.w = 64 THEN m.file[b.n] ELSE [@ EXCEPT !.lo = m.file[b.n].lo]]

Output(instrs, names, cells) == FoldLeft(Exec, Boot(names, cells), instrs).out

Expected == Output(source, DOMAIN place, {})
Actual ==
  Output(body, {Spill} \cup {place[v].reg : v \in DOMAIN place},
         {body[k].n + d : k \in 1..Len(body), d \in -32..32})

-----------------------------------------------------------------------------
Spilled(arg) == arg.t = "V" /\ place[arg.n].reg = OnStack

SpilledArgs(instr) == {k \in 1..Len(instr.args) : Spilled(instr.args[k])}

(* At most one operand of each instruction is spilled, a spilled register *)
(* is accessed at one width only, and nothing spilled is touched once the  *)
(* space for stack arguments has been given back.                          *)
Supported ==
  \A k \in 1..Len(source) :
    /\ Cardinality(SpilledArgs(source[k])) <= 1
    /\ \A l \in 1..Len(source) : \A x \in SpilledArgs(source[k]), y \in SpilledArgs(source[l]) :
         source[k].args[x].n = source[l].args[y].n => source[k].args[x].w = source[l].args[y].w
    /\ source[k].op = "ADDSP" => \A l \in k..Len(source) : SpilledArgs(source[l]) = {}

(***************************************************************************)
(* The rewritten body lets out the same values as the one instruction      *)
(* selection emitted: what was spilled keeps its value.                    *)
(***************************************************************************)
SpillsKeepValues == Finished => Actual = Expected

(***************************************************************************)
(* SpillsKeepValues for the bodies the pass supports, wherever the array   *)
(* of instructions happens to be moved by an insertion.                    *)
(***************************************************************************)
SupportedKeepValues == Supported => SpillsKeepValues
=============================================================================
