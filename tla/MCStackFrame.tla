---------------------------- MODULE MCStackFrame ----------------------------
(***************************************************************************)
(* Who may use which register and which bytes of the stack around a call:  *)
(* the values moved to the frame because of a CALL (CallSpill), the loads  *)
(* and stores that access them there (SpillRewrite), and the call itself   *)
(* (CallFrame).  Each is explored on its own inputs: a behaviour here is a *)
(* behaviour of one of them, and the variables of the others rest.         *)
(***************************************************************************)
EXTENDS CallSpill, CallFrame, TLC

CONSTANTS Programs, Placements

VARIABLES view,
          source, place, body, instr, j, stale, diff    \* SpillRewrite

R == INSTANCE SpillRewrite WITH i <- instr

rewriting == <<source, place, body, instr, j, stale, diff>>
frameVars == <<view, vars, rewriting, callVars>>

Rest == <<>>
RewritingRests == /\ source = Rest /\ place = Rest /\ body = Rest
                  /\ instr = Rest /\ j = Rest /\ stale = Rest /\ diff = Rest
CallingRests == /\ call = Rest /\ frame = Rest /\ step = "rest" /\ n = Rest /\ sp = Rest /\ bp = Rest
                /\ regs = Rest /\ al = Rest /\ saves = Rest /\ mem = Rest /\ got = Rest /\ va = Rest

(* A function that uses no virtual register. *)
NothingUsed == /\ start = [v \in VRegs |-> -1] /\ pinned = [v \in VRegs |-> FALSE]
               /\ calls = CHOOSE c \in CallSets : TRUE
               /\ Init

(* bound: one virtual register of a function is pinned, or none. *)
Pinnings == {p \in [VRegs -> BOOLEAN] : \A u, v \in VRegs : p[u] /\ p[v] => u = v}

FrameInit ==
  \/ view = "spill" /\ pinned \in Pinnings /\ Init /\ RewritingRests /\ CallingRests
  \/ view = "rewrite" /\ NothingUsed /\ R!Init /\ CallingRests
  \/ view = "call" /\ NothingUsed /\ RewritingRests /\ CallInit

Spills == view = "spill" /\ Next /\ UNCHANGED <<view, rewriting, callVars>>
Rewrites == view = "rewrite" /\ R!Next /\ UNCHANGED <<view, vars, callVars>>
Runs == view = "call" /\ CallNext /\ UNCHANGED <<view, vars, rewriting>>

FrameNext == Spills \/ Rewrites \/ Runs

FrameSpec == FrameInit /\ [][FrameNext]_frameVars

-----------------------------------------------------------------------------
(* SpillRewrite!SupportedKeepValues: what is spilled keeps its value. *)
SupportedKeepValues == view = "rewrite" => R!SupportedKeepValues

-----------------------------------------------------------------------------
(* CallSpill: one CALL in the middle of four instructions. *)
MCCallSets == {{3}}
Symmetric == Permutations(CallerSave)

(* The registers of the code: INT_ALLOCATION_ORDER, callee_save_registers  *)
(* and CALLER_SAVE_REGS_BITMASK.                                           *)
IntAllocationOrder == {"r13", "r14", "r15", "b", "r11", "r10", "r9", "r8", "c", "d", "si", "di", "a"}
CalleeSaveRegisters == {"r15", "r14", "r13", "r12", "b"}
CallerSaveMask == {"a", "di", "si", "d", "c", "r8", "r9", "r10", "r11"}

ASSUME MaskOfTheCode ==
  /\ IntAllocationOrder \ CalleeSaveRegisters \subseteq CallerSaveMask
  /\ CallerSaveMask \subseteq IntAllocationOrder

-----------------------------------------------------------------------------
(* SpillRewrite: bodies of a few instructions over three virtual registers, *)
(* one or two of them spilled.                                              *)
CONSTANTS Depth,   \* bound: instructions between the definitions and the last uses
          Widths   \* the widths of operands

Placed(r, s) == [reg |-> r, slot |-> s]
MCPlacements == {<<Placed("none", 0), Placed("none", 8), Placed("r13", 0)>>,
                 <<Placed("none", 8), Placed("r14", 0), Placed("r13", 0)>>}

Instr(op, args, k) == [op |-> op, args |-> args, n |-> k]
V(v, w) == [t |-> "V", n |-> v, w |-> w]
SP == [t |-> "P", n |-> "sp", w |-> 64]
Memory == [t |-> "M", n |-> 0, w |-> 64]

Const(v, w) == Instr("CONST", <<V(v, w), Memory>>, v)
Add(u, v, w) == Instr("ADD", <<V(u, w), V(v, w)>>, 0)
Put(v, w) == Instr("PUT", <<Memory, V(v, w)>>, 0)
SubSP == Instr("SUBSP", <<SP, Memory>>, 16)
AddSP == Instr("ADDSP", <<SP, Memory>>, 16)

Middle == {Add(u, v, w) : u, v \in 1..3, w \in Widths} \cup {Put(v, w) : v \in 1..3, w \in Widths}

(* All three values are defined, and let out whole at the end. *)
Framed(w, middle) == [v \in 1..3 |-> Const(v, w)] \o middle \o [v \in 1..3 |-> Put(v, w)]

(* A call with stack arguments ends the life of what is spilled. *)
EndsAfterCall(w, middle) ==
  [v \in 1..3 |-> Const(v, w)] \o <<SubSP>> \o middle \o <<AddSP, Put(3, w)>>

MCPrograms ==
  UNION {{Framed(w, s), EndsAfterCall(w, s)} : w \in Widths, s \in [1..Depth -> Middle]}

-----------------------------------------------------------------------------
(* CallFrame: two integer and four vector argument registers, so that a few *)
(* arguments go through every class and the entry MOVs meet.                *)
CONSTANT MaxArgs   \* bound: arguments of a call

Integer == [kind |-> "int", size |-> 8]
Double == [kind |-> "float", size |-> 8]
Float == [kind |-> "float", size |-> 4]
Struct(size) == [kind |-> "struct", size |-> size]

Call(types, fixed, variadic) == [types |-> types, fixed |-> fixed, variadic |-> variadic]
Lists(kinds, len) == UNION {[1..m -> kinds] : m \in 0..len}

Plain == {Call(t, Len(t), FALSE) :
            t \in Lists({Integer, Double, Float, Struct(12), Struct(8)}, MaxArgs)}
Variadic == {Call(t, m, TRUE) : t \in Lists({Integer, Double, Float}, MaxArgs), m \in 1..2}
StructThenVariadic == {Call(<<Struct(8), Integer>> \o t, 2, TRUE) : t \in Lists({Integer}, 2)}

TooManyFloats == {Call([x \in 1..5 |-> Double], 5, FALSE)}

MCCalls == Plain \cup TooManyFloats \cup {c \in Variadic : c.fixed <= Len(c.types)} \cup StructThenVariadic
MCFrames == [saved : {{}, {2}, {1, 4, 5}}, locals : {0, 12, 16}]
=============================================================================
