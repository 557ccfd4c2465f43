----------------------------- MODULE LiveRanges -----------------------------
(***************************************************************************)
(* Live-range analysis of one virtual register that came without a live    *)
(* range (asm_gen_call gives the registers of arguments and results a      *)
(* start and an end, and the loop over the registers skips those), in      *)
(* src/src/backend/reg_alloc.c: find_preds links every jump to its target, *)
(* then compute_live_ranges runs a backwards work-list analysis over the   *)
(* instructions and keeps the hull of the points where the register is     *)
(* live.                                                                   *)
(*                                                                         *)
(* An instruction is a record: its op, the operands that mention the       *)
(* register (0 and 1, or "dep" for an entry of vreg_deps) and, for a jump, *)
(* the index of its target or Ret for builder->ret_label.  Instructions    *)
(* are numbered from 1 and None = 0 stands for the code's -1.              *)
(***************************************************************************)
EXTENDS Integers, SequencesExt, FiniteSetsExt

CONSTANTS
  Programs,  \* the instruction sequences instruction selection may emit
  Pinnings   \* pre-assigned registers: "none", "A", "D"

None == 0
Ret == 0

(***************************************************************************)
(* How asm_gen_function lays blocks out: jumps go to labels, a label is    *)
(* the first instruction of a block other than the entry, and the block    *)
(* above it ends in a JMP, behind which the moves of a condition that was  *)
(* folded away may stand.                                                  *)
(***************************************************************************)
Targets(b) == {b[p].target : p \in {q \in 1..Len(b) : b[q].op \in {"JMP", "JCC"}}}

(* Code behind a JMP, up to the next label that is jumped to. *)
Unreached(b) ==
  {p \in 1..Len(b) :
     \E r \in 1..p - 1 : b[r].op = "JMP" /\ \A y \in r + 1..p : y \notin Targets(b)}

LaidOut(b) ==
  \A t \in Targets(b) \ {Ret} :
    t \in 2..Len(b) /\ (b[t - 1].op = "JMP" \/ t - 1 \in Unreached(b))

ASSUME LiveRangesAssumption == \A b \in Programs : b \in Seq(ToSet(b)) /\ LaidOut(b)

VARIABLES
  body,      \* builder->current_block
  pin,       \* the register pre-assigned to the virtual register
  phase,     \* "preds", "pick", "examine", "hung" or "done"
  i,         \* the next instruction find_preds looks at
  preds,     \* AsmSymbol.pred of the label at each instruction
  live,      \* liveness
  work,      \* working_set
  largest,   \* largest_working_set_elem
  pc,        \* the point being examined
  start, end \* live_range_start and live_range_end

input == <<body, pin>>
vars == <<body, pin, phase, i, preds, live, work, largest, pc, start, end>>

Points == 1..Len(body)
IsJump(p) == body[p].op \in {"JMP", "JCC"}

IsUse(p) == body[p].refs # {}

IsDef(p) ==
  CASE body[p].op = "CALL" -> pin = "A"
    [] body[p].op = "CDQ"  -> pin = "D" /\ IsUse(p)
    [] body[p].op = "XOR"  -> {0, 1} \subseteq body[p].refs
    [] body[p].op = "MOV"  -> 0 \in body[p].refs
    [] OTHER -> FALSE

(* succ0 and succ1: where control goes from p, nothing for a return. *)
Succ(p) ==
  (IF IsJump(p) /\ body[p].target # Ret THEN {body[p].target} ELSE {})
  \cup (IF body[p].op # "JMP" /\ p # Len(body) THEN {p + 1} ELSE {})

(***************************************************************************)
(* The reference: the points that every solution of the data-flow          *)
(* equations contains.                                                     *)
(***************************************************************************)
Equations(S) ==
  {p \in Points : IsUse(p) \/ \E s \in Succ(p) : s \in S /\ ~IsDef(s)}

LivePoints ==
  LET solutions == {S \in SUBSET Points : \A p \in Points \ S : p \notin Equations(S)}
  IN  {p \in Points : \A S \in solutions : p \in S}

(* Instruction selection defines a register before it uses it, on every path. *)
DefinedBeforeUse == ~IsDef(1) => 1 \notin LivePoints

Init ==
  /\ body \in Programs /\ pin \in Pinnings /\ DefinedBeforeUse
  /\ phase = "preds" /\ i = 1
  /\ preds = [p \in Points |-> <<>>]
  /\ live = {} /\ work = {} /\ largest = None /\ pc = None
  /\ start = None /\ end = None

-----------------------------------------------------------------------------
(* The list walk of find_preds: location moves off the head only when the  *)
(* list has a second element, so a list of one element is overwritten.     *)
AddPred_Appends(list, p) == Append(list, p)

AddPred(list, p) == IF Len(list) <= 1 THEN <<p>> ELSE Append(list, p)

FindPred ==
  /\ phase = "preds" /\ i <= Len(body)
  /\ preds' = IF IsJump(i) /\ body[i].target # Ret
              THEN [preds EXCEPT ![body[i].target] = AddPred(@, i)]
              ELSE preds
  /\ i' = i + 1
  /\ UNCHANGED <<input, phase, live, work, largest, pc, start, end>>

(* bit_set_clear_all, bit_set_set_all *)
StartAnalysis ==
  /\ phase = "preds" /\ i > Len(body)
  /\ phase' = "pick"
  /\ live' = {} /\ work' = Points /\ largest' = Len(body)
  /\ UNCHANGED <<input, i, preds, pc, start, end>>

PickPoint ==
  /\ phase = "pick" /\ work # {}
  /\ pc' = largest
  /\ phase' = "examine"
  /\ UNCHANGED <<input, i, preds, live, work, largest, start, end>>

(* largest_working_set_elem once pc has left the working set: it stays     *)
(* where it was when nothing is left.                                      *)
NextLargest ==
  IF pc = largest /\ work \ {pc} # {} THEN Max(work \ {pc}) ELSE largest

(* A register is live at pc if pc mentions it, or if it is live at a       *)
(* successor that does not define it.                                      *)
LiveHere == IsUse(pc) \/ \E s \in Succ(pc) : s \in live /\ ~IsDef(s)

Prev_IgnoresJumps == pc - 1

(* The first predecessor on the label's list, or the instruction above. *)
Prev == IF preds[pc] # <<>> THEN Head(preds[pc]) ELSE pc - 1

(* Go on with the predecessor only if pc was refined and it is not live yet. *)
KeepGoing == LiveHere /\ Prev # None /\ Prev \notin live'

(* The loop over the remaining predecessors adds the second one to the     *)
(* working set and never advances its cursor.                              *)
Spins == LiveHere /\ Len(preds[pc]) > 1

Extra == IF Spins THEN {preds[pc][2]} \ live' ELSE {}

Examine ==
  /\ phase = "examine"
  /\ live' = IF LiveHere THEN live \cup {pc} ELSE live \ {pc}
  /\ work' = (work \ {pc}) \cup Extra
  /\ largest' = Max({NextLargest} \cup Extra)
  /\ phase' = IF Spins THEN "hung" ELSE IF KeepGoing THEN "examine" ELSE "pick"
  /\ pc' = IF Spins THEN pc ELSE IF KeepGoing THEN Prev ELSE None
  /\ UNCHANGED <<input, i, preds, start, end>>

Lowest == IF live = {} THEN None ELSE Min(live)
Highest == IF live = {} THEN None ELSE Max(live)

(* The hull of the live points. *)
StoreRange ==
  /\ start' = IF start = None \/ start > Lowest THEN Lowest ELSE start
  /\ end' = IF end = None \/ (Highest # None /\ end < Highest) THEN Highest ELSE end

Finish ==
  /\ phase = "pick" /\ work = {}
  /\ StoreRange
  /\ phase' = "done"
  /\ UNCHANGED <<input, i, preds, live, work, largest, pc>>

Stopped == phase \in {"done", "hung"} /\ UNCHANGED vars

Next == FindPred \/ StartAnalysis \/ PickPoint \/ Examine \/ Finish \/ Stopped

(* The compiler is one thread that keeps running. *)
Spec == Init /\ [][Next]_vars /\ WF_vars(Next)

-----------------------------------------------------------------------------
TypeOK ==
  /\ phase \in {"preds", "pick", "examine", "hung", "done"}
  /\ i \in 1..Len(body) + 1
  /\ preds \in [Points -> Seq(Points)]
  /\ live \in SUBSET Points /\ work \in SUBSET Points
  /\ largest \in Points \cup {None} /\ pc \in Points \cup {None}
  /\ start \in Points \cup {None} /\ end \in Points \cup {None}

Jumps(target) == {p \in Points : IsJump(p) /\ body[p].target = target}

(* No two jumps share a target. *)
SinglePreds == \A p \in Points : Cardinality(Jumps(p)) <= 1

(* No point is marked live that the data-flow equations do not reach. *)
NeverTooLive == live # {} => live \subseteq LivePoints

(* "We shouldn't be re-examining points that are already live." *)
NoReexamine == phase = "examine" => pc \notin live

(* largest_working_set_elem is what its name says when the outer loop reads it. *)
LargestIsMax == phase = "pick" /\ work # {} => largest = Max(work)

(***************************************************************************)
(* The stored range covers every point where the register is live, and is  *)
(* empty exactly when none was found; the allocator gives the register to  *)
(* somebody else outside of it.                                            *)
(***************************************************************************)
RangeCovers(points) ==
  phase = "done" =>
    /\ \A p \in points : start <= p /\ p <= end
    /\ (end = None) <=> (live = {})
    /\ (start = None) <=> (end = None)

(* When no two jumps share a target, every point that control may reach    *)
(* and that the equations make live is found, and the range covers it.     *)
SinglePredsRight ==
  SinglePreds /\ phase = "done" =>
    LET needed == LivePoints \ Unreached(body)
    IN  needed \subseteq live /\ RangeCovers(needed)

(***************************************************************************)
(* At every moment of the analysis: the cached maximum of the working set  *)
(* is right when it is read, the ASSERT against looking at a live point    *)
(* again holds although points are reached along two kinds of links, and   *)
(* nothing is marked live that the equations do not make live.  At its end *)
(* one pass over the work list, in an order that follows the links, has    *)
(* found all of it, unless two jumps share a target: find_preds keeps only *)
(* the last jump to each label.                                            *)
(***************************************************************************)
AnalysisInv == TypeOK /\ NeverTooLive /\ NoReexamine /\ LargestIsMax /\ SinglePredsRight

(* The analysis ends on every function. *)
Terminates == <>(phase = "done")
=============================================================================
