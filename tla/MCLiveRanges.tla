---------------------------- MODULE MCLiveRanges ----------------------------
(***************************************************************************)
(* Every function body of a given length that is laid out the way          *)
(* asm_gen_function lays blocks out: a block ends in a JMP, possibly with  *)
(* a move behind it, a label is the first instruction of a block, and no   *)
(* jump goes to the entry.                                                 *)
(***************************************************************************)
EXTENDS LiveRanges

CONSTANT Length   \* bound: instructions in a function body

Plain == {[op |-> "MOV", refs |-> {0}], [op |-> "CDQ", refs |-> {"dep"}],
          [op |-> "CALL", refs |-> {}]}

Jump(o, ts) == {[op |-> o, refs |-> {}, target |-> t] : t \in ts}

(* Bodies whose JMPs sit at the indices in js, with labels at ls. *)
Layouts(n, js, ls) ==
  { [p \in 1..n |-> IF p \in js THEN jmp[p] ELSE other[p]] :
      jmp \in [js -> Jump("JMP", ls \cup {Ret})],
      other \in [1..n \ js -> Plain \cup Jump("JCC", ls)] }

(* Every label stands behind a JMP. *)
Straight(n) ==
  UNION {Layouts(n, js \cup {n}, {p + 1 : p \in js}) : js \in SUBSET (1..n - 1)}

(* A label may also stand behind one instruction that follows a JMP. *)
WithDeadCode(n) ==
  {b \in UNION {Layouts(n, js \cup {n}, {p + 1 : p \in js} \cup {p \in 3..n : p - 2 \in js}) :
                js \in SUBSET (1..n - 1)} : LaidOut(b)}

(* Dead code makes the bodies many, so those are one instruction shorter. *)
MCPrograms == Straight(Length) \cup WithDeadCode(Length - 1)

-----------------------------------------------------------------------------
(***************************************************************************)
(* The control skeleton of one C function, in the block order that         *)
(* src/src/ir_gen/statement.c gives it, for the register that holds the    *)
(* address of the returned struct:                                         *)
(*                                                                         *)
(*   struct S f(int a) { struct S s;                                       *)
(*     L: if (a == 1) return s;                                            *)
(*        if (a == 2) goto X;                                              *)
(*        goto N;                                                          *)
(*     M: goto L;                                                          *)
(*        for (;;) ;                                                       *)
(*     N: goto L;                                                          *)
(*     X: goto M; }                                                        *)
(***************************************************************************)
Jmp(t) == [op |-> "JMP", refs |-> {}, target |-> t]
Jcc(t) == [op |-> "JCC", refs |-> {}, target |-> t]

GotoProgram == <<
  [op |-> "MOV", refs |-> {0}], Jmp(3),          \* entry: the register is defined
  Jcc(5), Jmp(8),                                \* L:
  [op |-> "MOV", refs |-> {1}], Jmp(Ret), Jmp(8),\* if.then: return s
  Jcc(10), Jmp(12), Jmp(22), Jmp(12),            \* if.after, if.then, goto.after
  Jmp(20), Jmp(14),                              \* if.after: goto N, goto.after
  Jmp(3), Jmp(16),                               \* M: goto L, goto.after
  Jmp(17), Jmp(18), Jmp(16), Jmp(20),            \* for.ph, body, update, after
  Jmp(3), Jmp(22),                               \* N: goto L, goto.after
  Jmp(14), Jmp(Ret) >>                           \* X: goto M, goto.after

GotoPrograms == {GotoProgram}

(* The equations iterated once per instruction, which reaches every point  *)
(* of LivePoints; that one looks at all sets of points.                    *)
LiveAlongPaths == FoldLeft(LAMBDA S, k : Equations(S), {}, body)

(* The range covers every point where the register is live. *)
RangeCoversLife == RangeCovers(LiveAlongPaths)
=============================================================================
