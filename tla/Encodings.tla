------------------------------ MODULE Encodings ------------------------------
(***************************************************************************)
(* What the assembler works from: the operands of instructions, x64.enc    *)
(* row by row, and two tables of asm.c (src/src/backend).                  *)
(***************************************************************************)
EXTENDS Integers, Sequences

CONSTANT NoSym   \* no symbol

-----------------------------------------------------------------------------
(* Operands: AsmConst, AsmValue and the constructors of asm.c. *)
Imm(v) == [t |-> "IMMEDIATE", v |-> v, width |-> 0, sym |-> NoSym]
FixedImm(v, w) == [t |-> "FIXED_IMMEDIATE", v |-> v, width |-> w, sym |-> NoSym]
Sym(s) == [t |-> "SYMBOL", v |-> 0, width |-> 0, sym |-> s]

PhysReg(c, w) == [t |-> "REGISTER", deref |-> FALSE, class |-> c, width |-> w, const |-> Imm(0)]
Const(k) == [t |-> "CONST", deref |-> FALSE, class |-> "NONE", width |-> 0, const |-> k]
Deref(a) == [a EXCEPT !.deref = TRUE]

(* asm_offset_reg: an offset of zero makes a plain register. *)
OffsetReg(c, k) ==
  IF k.t = "IMMEDIATE" /\ k.v = 0 THEN PhysReg(c, 64)
  ELSE [t |-> "OFFSET_REGISTER", deref |-> FALSE, class |-> c, width |-> 64, const |-> k]

-----------------------------------------------------------------------------
(* encoded_register_number *)
RegNumber ==
  [A |-> 0, C |-> 1, D |-> 2, B |-> 3, SP |-> 4, BP |-> 5, SI |-> 6, DI |-> 7,
   R8 |-> 8, R9 |-> 9, R10 |-> 10, R11 |-> 11, R12 |-> 12, R13 |-> 13, R14 |-> 14,
   R15 |-> 15, XMM0 |-> 0, XMM1 |-> 1, XMM2 |-> 2, XMM3 |-> 3, XMM4 |-> 4,
   XMM5 |-> 5, XMM6 |-> 6, XMM7 |-> 7]

(* is_sign_extending_op *)
SignExtendingOps ==
  {"ADD", "AND", "ADC", "CMP", "IMUL", "MOV", "OR", "SBB", "SUB", "TEST"}

-----------------------------------------------------------------------------
(* x64.enc.  A row is an encoding of an instruction; slash is /r, /0../7   *)
(* or absent, plus says that the register goes into the opcode.            *)
RM(w) == [k |-> "r/m", w |-> w]
R(w) == [k |-> "r", w |-> w]
XMM == [k |-> "xmm", w |-> 128]
XMMM(w) == [k |-> "xmm/m", w |-> w]
IMM(w) == [k |-> "imm", w |-> w]
REL == [k |-> "rel", w |-> 32]
CL == [k |-> "CL", w |-> 8]

Row(op, args, prefix, opcode, slash, imm, plus) ==
  [op |-> op, args |-> args, rexw |-> prefix = "REX.W", oso |-> prefix = "OSO",
   opcode |-> opcode, slash |-> slash, imm |-> imm, plus |-> plus]

SlashR(op, args, prefix, opcode) == Row(op, args, prefix, opcode, "/r", -1, FALSE)
SlashN(op, args, prefix, opcode, n, imm) == Row(op, args, prefix, opcode, n, imm, FALSE)
NoModRM(op, args, prefix, opcode, imm, plus) == Row(op, args, prefix, opcode, "none", imm, plus)

IntegerRows == <<
  SlashR("ADD", <<RM(8), R(8)>>, "", <<\h00>>),
  SlashN("ADD", <<RM(32), IMM(32)>>, "", <<\h81>>, "/0", 4),
  SlashR("ADD", <<RM(32), R(32)>>, "", <<\h01>>),
  SlashN("ADD", <<RM(64), IMM(8)>>, "REX.W", <<\h83>>, "/0", 1),
  SlashN("ADD", <<RM(64), IMM(32)>>, "REX.W", <<\h81>>, "/0", 4),
  SlashR("ADD", <<RM(64), R(64)>>, "REX.W", <<\h01>>),
  SlashR("AND", <<RM(32), R(32)>>, "", <<\h21>>),
  SlashN("AND", <<RM(32), IMM(8)>>, "", <<\h83>>, "/4", 1),
  SlashN("AND", <<RM(32), IMM(32)>>, "", <<\h81>>, "/4", 4),
  SlashN("AND", <<RM(64), IMM(8)>>, "REX.W", <<\h83>>, "/4", 1),
  SlashN("AND", <<RM(64), IMM(32)>>, "REX.W", <<\h81>>, "/4", 4),
  SlashR("AND", <<RM(64), R(64)>>, "REX.W", <<\h21>>),
  NoModRM("CALL", <<REL>>, "", <<\hE8>>, 4, FALSE),
  SlashN("CALL", <<RM(64)>>, "", <<\hFF>>, "/2", -1),
  NoModRM("CDQ", <<>>, "", <<\h99>>, -1, FALSE),
  NoModRM("CQO", <<>>, "REX.W", <<\h99>>, -1, FALSE),
  SlashR("CMP", <<RM(8), R(8)>>, "", <<\h38>>),
  SlashN("CMP", <<RM(8), IMM(8)>>, "", <<\h80>>, "/7", 1),
  SlashR("CMP", <<RM(16), R(16)>>, "OSO", <<\h39>>),
  SlashN("CMP", <<RM(32), IMM(32)>>, "", <<\h81>>, "/7", 4),
  SlashR("CMP", <<RM(32), R(32)>>, "", <<\h39>>),
  SlashN("CMP", <<RM(64), IMM(32)>>, "REX.W", <<\h81>>, "/7", 4),
  SlashR("CMP", <<RM(64), R(64)>>, "REX.W", <<\h39>>),
  SlashR("IMUL", <<R(32), RM(32)>>, "", <<\h0F, \hAF>>),
  SlashN("IMUL", <<R(32), RM(32), IMM(32)>>, "", <<\h69>>, "/r", 4),
  SlashR("IMUL", <<R(64), RM(64)>>, "REX.W", <<\h0F, \hAF>>),
  SlashN("IMUL", <<R(64), RM(64), IMM(32)>>, "REX.W", <<\h69>>, "/r", 4),
  SlashN("IDIV", <<RM(32)>>, "", <<\hF7>>, "/7", -1),
  SlashN("IDIV", <<RM(64)>>, "REX.W", <<\hF7>>, "/7", -1),
  NoModRM("JMP", <<REL>>, "", <<\hE9>>, 4, FALSE),
  SlashN("NEG", <<RM(32)>>, "", <<\hF7>>, "/3", -1),
  SlashN("NEG", <<RM(64)>>, "REX.W", <<\hF7>>, "/3", -1),
  NoModRM("NOP", <<>>, "", <<\h90>>, -1, FALSE),
  SlashN("NOT", <<RM(32)>>, "", <<\hF7>>, "/2", -1),
  SlashN("NOT", <<RM(64)>>, "REX.W", <<\hF7>>, "/2", -1),
  SlashN("OR", <<RM(32), IMM(8)>>, "", <<\h83>>, "/1", 1),
  SlashR("OR", <<RM(32), R(32)>>, "", <<\h09>>),
  SlashN("OR", <<RM(64), IMM(8)>>, "REX.W", <<\h83>>, "/1", 1),
  SlashR("OR", <<RM(64), R(64)>>, "REX.W", <<\h09>>),
  NoModRM("POP", <<R(64)>>, "", <<\h58>>, -1, TRUE),
  NoModRM("PUSH", <<R(64)>>, "", <<\h50>>, -1, TRUE),
  NoModRM("RET", <<>>, "", <<\hC3>>, -1, FALSE),
  SlashN("SHL", <<RM(32), IMM(8)>>, "", <<\hC1>>, "/4", 1),
  SlashN("SHL", <<RM(32), CL>>, "", <<\hD3>>, "/4", -1),
  SlashN("SHL", <<RM(64), IMM(8)>>, "REX.W", <<\hC1>>, "/4", 1),
  SlashN("SHL", <<RM(64), CL>>, "REX.W", <<\hD3>>, "/4", -1),
  SlashN("SHR", <<RM(32), IMM(8)>>, "", <<\hC1>>, "/5", 1),
  SlashN("SHR", <<RM(32), CL>>, "", <<\hD3>>, "/5", -1),
  SlashN("SHR", <<RM(64), IMM(8)>>, "REX.W", <<\hC1>>, "/5", 1),
  SlashN("SHR", <<RM(64), CL>>, "REX.W", <<\hD3>>, "/5", -1),
  SlashR("SUB", <<RM(32), R(32)>>, "", <<\h29>>),
  SlashN("SUB", <<RM(32), IMM(8)>>, "", <<\h83>>, "/5", 1),
  SlashN("SUB", <<RM(32), IMM(32)>>, "", <<\h81>>, "/5", 4),
  SlashR("SUB", <<RM(64), R(64)>>, "REX.W", <<\h29>>),
  SlashN("SUB", <<RM(64), IMM(8)>>, "REX.W", <<\h83>>, "/5", 1),
  SlashN("SUB", <<RM(64), IMM(32)>>, "REX.W", <<\h81>>, "/5", 4),
  NoModRM("SYSCALL", <<>>, "", <<\h0F, \h05>>, -1, FALSE),
  SlashR("TEST", <<RM(8), R(8)>>, "", <<\h84>>),
  SlashR("TEST", <<RM(32), R(32)>>, "", <<\h85>>),
  SlashR("XOR", <<RM(8), R(8)>>, "", <<\h30>>),
  SlashR("XOR", <<RM(32), R(32)>>, "", <<\h31>>),
  SlashR("XOR", <<RM(64), R(64)>>, "REX.W", <<\h31>>) >>

MoveRows == <<
  SlashR("MOV", <<RM(8), R(8)>>, "", <<\h88>>),
  SlashR("MOV", <<R(8), RM(8)>>, "", <<\h8A>>),
  SlashN("MOV", <<RM(8), IMM(8)>>, "", <<\hC6>>, "/0", 1),
  NoModRM("MOV", <<R(8), IMM(8)>>, "", <<\hB0>>, 1, TRUE),
  SlashR("MOV", <<RM(16), R(16)>>, "OSO", <<\h89>>),
  SlashR("MOV", <<R(16), RM(16)>>, "OSO", <<\h8B>>),
  SlashN("MOV", <<RM(16), IMM(16)>>, "OSO", <<\hC7>>, "/0", 2),
  SlashR("MOV", <<RM(32), R(32)>>, "", <<\h89>>),
  SlashR("MOV", <<R(32), RM(32)>>, "", <<\h8B>>),
  SlashN("MOV", <<RM(32), IMM(32)>>, "", <<\hC7>>, "/0", 4),
  SlashR("MOV", <<RM(64), R(64)>>, "REX.W", <<\h89>>),
  SlashR("MOV", <<R(64), RM(64)>>, "REX.W", <<\h8B>>),
  SlashN("MOV", <<RM(64), IMM(32)>>, "REX.W", <<\hC7>>, "/0", 4),
  NoModRM("MOV", <<R(64), IMM(64)>>, "REX.W", <<\hB8>>, 8, TRUE),
  SlashR("MOVSX", <<R(16), RM(8)>>, "OSO", <<\h0F, \hBE>>),
  SlashR("MOVSX", <<R(32), RM(8)>>, "", <<\h0F, \hBE>>),
  SlashR("MOVSX", <<R(64), RM(8)>>, "REX.W", <<\h0F, \hBE>>),
  SlashR("MOVSX", <<R(64), RM(32)>>, "REX.W", <<\h63>>),
  SlashR("MOVZX", <<R(32), RM(8)>>, "", <<\h0F, \hB6>>),
  SlashR("MOVZX", <<R(32), RM(16)>>, "", <<\h0F, \hB7>>),
  SlashR("MOVZX", <<R(64), RM(8)>>, "REX.W", <<\h0F, \hB6>>),
  SlashR("MOVZX", <<R(64), RM(16)>>, "REX.W", <<\h0F, \hB7>>) >>

FloatRows == <<
  SlashR("ADDSS", <<XMM, XMMM(32)>>, "", <<\hF3, \h0F, \h58>>),
  SlashR("ADDSD", <<XMM, XMMM(32)>>, "", <<\hF2, \h0F, \h58>>),
  SlashR("CVTSI2SS", <<XMM, RM(32)>>, "", <<\hF3, \h0F, \h2A>>),
  SlashR("CVTSI2SD", <<XMM, RM(32)>>, "", <<\hF2, \h0F, \h2A>>),
  SlashR("CVTSI2SS", <<XMM, RM(64)>>, "REX.W", <<\hF3, \h0F, \h2A>>),
  SlashR("CVTSI2SD", <<XMM, RM(64)>>, "REX.W", <<\hF2, \h0F, \h2A>>),
  SlashR("CVTSS2SI", <<R(32), XMMM(32)>>, "", <<\hF3, \h0F, \h2D>>),
  SlashR("CVTSD2SI", <<R(32), XMMM(32)>>, "", <<\hF2, \h0F, \h2D>>),
  SlashR("CVTSS2SD", <<XMM, XMMM(32)>>, "", <<\hF3, \h0F, \h5A>>),
  SlashR("CVTSD2SS", <<XMM, XMMM(32)>>, "", <<\hF2, \h0F, \h5A>>),
  SlashR("MOVSS", <<XMM, XMMM(32)>>, "", <<\hF3, \h0F, \h10>>),
  SlashR("MOVSS", <<XMMM(32), XMM>>, "", <<\hF3, \h0F, \h11>>),
  SlashR("MOVSD", <<XMM, XMMM(64)>>, "", <<\hF2, \h0F, \h10>>),
  SlashR("MOVSD", <<XMMM(64), XMM>>, "", <<\hF2, \h0F, \h11>>),
  SlashR("MOVAPS", <<XMM, XMMM(128)>>, "", <<\h0F, \h28>>),
  SlashR("MOVAPS", <<XMMM(128), XMM>>, "", <<\h0F, \h29>>),
  SlashR("MULSS", <<XMM, XMMM(128)>>, "", <<\hF3, \h0F, \h59>>),
  SlashR("MULSD", <<XMM, XMMM(128)>>, "", <<\hF2, \h0F, \h59>>),
  SlashR("UCOMISS", <<XMM, XMMM(32)>>, "", <<\h0F, \h2E>>),
  SlashR("UCOMISD", <<XMM, XMMM(32)>>, "", <<\h66, \h0F, \h2E>>) >>

JumpNames == <<"JE", "JNE", "JG", "JGE", "JL", "JLE", "JA", "JAE", "JB", "JBE">>
SetNames == <<"SETE", "SETNE", "SETG", "SETGE", "SETL", "SETLE", "SETA", "SETAE", "SETB", "SETBE">>
JumpOpcodes == <<\h84, \h85, \h8F, \h8D, \h8C, \h8E, \h87, \h83, \h82, \h86>>
SetOpcodes == <<\h94, \h95, \h9F, \h9D, \h9C, \h9E, \h97, \h93, \h92, \h96>>

ConditionRows ==
  [n \in 1..10 |-> NoModRM(JumpNames[n], <<REL>>, "", <<\h0F, JumpOpcodes[n]>>, 4, FALSE)]
  \o [n \in 1..10 |-> SlashN(SetNames[n], <<RM(8)>>, "", <<\h0F, SetOpcodes[n]>>, "/0", -1)]

Rows == IntegerRows \o MoveRows \o FloatRows \o ConditionRows
=============================================================================
