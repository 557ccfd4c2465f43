----------------------------- MODULE CallSpill ------------------------------
(***************************************************************************)
(* The second pass of allocate_registers in src/src/backend/reg_alloc.c:   *)
(* it walks the instructions with a list of the virtual registers that are *)
(* live in a register, and at each CALL moves those that sit in a          *)
(* caller-save register to the stack for their whole live range.           *)
(*                                                                         *)
(* The input is what the linear scan leaves: live ranges, places, and      *)
(* which virtual registers were pre-allocated.  Virtual registers and      *)
(* instructions are numbered from 1, and -1 still marks an empty range.    *)
(***************************************************************************)
EXTENDS Integers, SequencesExt

CONSTANTS
  NumVRegs,    \* vregs->size
  Length,      \* body->size
  CallSets,    \* the sets of instructions that may be the CALLs of the body
  General,     \* the registers of INT_ALLOCATION_ORDER
  Vector,      \* those of FLOAT_ALLOCATION_ORDER
  CallerSave,  \* CALLER_SAVE_REGS_BITMASK
  CalleeSave,  \* callee_save_registers of asm_gen.c: what a prologue pushes
  NoReg,       \* the value is not in a register
  FrameBase    \* local_stack_usage when the linear scan started

ASSUME CallSpillAssumption ==
  /\ NumVRegs \in Nat /\ Length \in Nat /\ FrameBase \in Nat
  /\ CallSets \subseteq SUBSET (1..Length)
  /\ NoReg \notin General \cup Vector

ASSUME MaskAssumption ==
  /\ General \cap Vector = {}
  /\ CalleeSave \cap Vector = {} /\ CallerSave \subseteq General
  /\ General \ CalleeSave \subseteq CallerSave

NoSlot == -1
VRegs == 1..NumVRegs
Regs == General \cup Vector

VARIABLES
  start, end,  \* live_range_start and live_range_end
  pinned,      \* VReg.pre_alloced
  calls,       \* the instructions that are a CALL
  scanned,     \* local_stack_usage when the linear scan ended
  reg, slot,   \* VReg.u; t is IN_REG when reg # NoReg, ON_STACK when slot # NoSlot
  stack,       \* builder->local_stack_usage
  i,           \* the instruction being visited
  phase,       \* "expire", then "call"
  index,       \* vreg_index
  active,      \* active_vregs
  elem         \* j of the loop at a CALL

input == <<start, end, pinned, calls, scanned>>
vars == <<input, reg, slot, stack, i, phase, index, active, elem>>

InReg(v) == reg[v] # NoReg
OnStack(v) == slot[v] # NoSlot
Unused(v) == start[v] = -1

Overlap(u, v) == start[u] <= end[v] /\ start[v] <= end[u]

(* A range and a place for each virtual register, as the linear scan can   *)
(* leave them: an unused one has no place unless it is pinned, the others  *)
(* interfere with nothing, and the slots follow each other.                *)
ScanResult ==
  /\ \A v \in VRegs :
       /\ start[v] <= end[v] /\ (Unused(v) <=> end[v] = -1)
       /\ pinned[v] => InReg(v)
       /\ Unused(v) /\ ~pinned[v] => ~InReg(v)
  /\ \A u, v \in VRegs :
       u # v /\ ~Unused(u) /\ ~Unused(v) /\ Overlap(u, v) /\ InReg(u) => reg[u] # reg[v]

SpilledBefore(v) == {u \in VRegs : u < v /\ ~Unused(u) /\ ~InReg(u)}

Init ==
  /\ start \in [VRegs -> {-1} \cup 1..Length] /\ end \in [VRegs -> {-1} \cup 1..Length]
  /\ \A v \in VRegs : start[v] <= end[v] /\ (Unused(v) <=> end[v] = -1)
  /\ pinned \in [VRegs -> BOOLEAN] /\ reg \in [VRegs -> Regs \cup {NoReg}]
  /\ ScanResult
  /\ calls \in CallSets
  /\ slot = [v \in VRegs |-> IF Unused(v) \/ InReg(v) THEN NoSlot
                             ELSE FrameBase + 8 * Cardinality(SpilledBefore(v))]
  /\ scanned = FrameBase + 8 * Cardinality(SpilledBefore(NumVRegs + 1))
  /\ stack = scanned
  /\ i = 1 /\ phase = "expire" /\ index = 1 /\ active = <<>> /\ elem = 1

-----------------------------------------------------------------------------
HeadExpired == active # <<>> /\ end[Head(active)] < i

ExpireHead ==
  /\ phase = "expire" /\ i <= Length
  /\ HeadExpired
  /\ active' = Tail(active)
  /\ UNCHANGED <<input, reg, slot, stack, i, phase, index, elem>>

(* Pre-allocated registers are not counted. *)
Counted(v) == InReg(v) /\ ~pinned[v]

(* Before the first active range that is over already, if any. *)
InsertionPoint ==
  LET over == {j \in 1..Len(active) : end[active[j]] < i}
  IN  IF over = {} THEN Len(active) + 1 ELSE CHOOSE j \in over : \A k \in over : j <= k

(* Only the virtual register at vreg_index is looked at: the index stays   *)
(* put until that one starts.                                              *)
StartsHere == index <= NumVRegs /\ Counted(index) /\ start[index] = i

StartRange ==
  /\ phase = "expire" /\ i <= Length
  /\ ~HeadExpired
  /\ active' = IF StartsHere THEN InsertAt(active, InsertionPoint, index) ELSE active
  /\ index' = IF StartsHere THEN index + 1 ELSE index
  /\ phase' = "call"
  /\ UNCHANGED <<input, reg, slot, stack, i, elem>>

(* The mask at a CALL has the bit of the register v sits in. *)
Victim(v) == reg[v] \in CallerSave

AtCall == phase = "call" /\ i \in calls /\ elem <= Len(active)

(* The value takes the next 8 bytes of the frame, and leaves the list. *)
MoveToStack(v) ==
  /\ reg' = [reg EXCEPT ![v] = NoReg]
  /\ slot' = [slot EXCEPT ![v] = stack]
  /\ stack' = stack + 8
  /\ active' = RemoveAt(active, elem)

SpillActive_SkipsNext ==
  /\ AtCall /\ Victim(active[elem])
  /\ MoveToStack(active[elem])
  /\ elem' = elem + 1
  /\ UNCHANGED <<input, i, phase, index>>

(* ARRAY_REMOVE moves the next element here, so j stays where it is. *)
SpillActive ==
  /\ AtCall /\ Victim(active[elem])
  /\ MoveToStack(active[elem])
  /\ UNCHANGED <<input, i, phase, index, elem>>

KeepActive ==
  /\ AtCall /\ ~Victim(active[elem])
  /\ elem' = elem + 1
  /\ UNCHANGED <<input, reg, slot, stack, i, phase, index, active>>

NextInstr ==
  /\ phase = "call" /\ ~AtCall
  /\ i' = i + 1
  /\ phase' = "expire" /\ elem' = 1
  /\ UNCHANGED <<input, reg, slot, stack, index, active>>

Finished == phase = "expire" /\ i > Length

Done == Finished /\ UNCHANGED vars

Next == ExpireHead \/ StartRange \/ SpillActive \/ KeepActive \/ NextInstr \/ Done

Spec == Init /\ [][Next]_vars

-----------------------------------------------------------------------------
TypeOK ==
  /\ reg \in [VRegs -> Regs \cup {NoReg}] /\ slot \in [VRegs -> Nat \cup {NoSlot}] /\ stack \in Nat
  /\ i \in 1..Length + 1 /\ phase \in {"expire", "call"}
  /\ index \in 1..NumVRegs + 1 /\ active \in Seq(VRegs) /\ elem \in 1..Len(active) + 1

(* Slots are disjoint and inside the frame, and nothing is in two places. *)
FrameSound ==
  \A v \in VRegs : OnStack(v) =>
    /\ ~InReg(v)
    /\ FrameBase <= slot[v] /\ slot[v] + 8 <= stack
    /\ \A u \in VRegs : u # v /\ OnStack(u) =>
         slot[u] + 8 <= slot[v] \/ slot[v] + 8 <= slot[u]

(* The ASSERT of the expiry loop; and the list has no register twice. *)
ActiveInReg ==
  \A j, k \in 1..Len(active) :
    /\ InReg(active[j]) /\ ~pinned[active[j]]
    /\ active[j] = active[k] => j = k

(***************************************************************************)
(* What sits in active_vregs is in a register, as the expiry loop asserts, *)
(* although values leave the list and their registers at CALLs while it is *)
(* walked; and the slots they are given are disjoint from each other and   *)
(* from those of the linear scan.                                          *)
(***************************************************************************)
PassInv == TypeOK /\ FrameSound /\ ActiveInReg

(* v is needed after a CALL that comes after it was computed. *)
LiveAcrossCall(v) == \E c \in calls : start[v] < c /\ c < end[v]

(* The callee may write every register its prologue does not push; vector  *)
(* registers are never pushed.                                             *)
Clobbered(v) == ~pinned[v] /\ LiveAcrossCall(v) /\ reg[v] \in Regs \ CalleeSave

(* vreg_index gets past v: everything up to v was given a register by the  *)
(* linear scan and starts later than what is numbered before it.           *)
Reached(v) ==
  /\ \A u \in 1..v : ~pinned[u] /\ (InReg(u) \/ slot[u] >= scanned)
  /\ \A u, w \in 1..v : u < w => start[u] < start[w]

(***************************************************************************)
(* Of the values that vreg_index reaches, a CALL destroys exactly those in *)
(* vector registers: the mask has no bit for them and no prologue pushes   *)
(* them, while every value in a general register is saved, however many    *)
(* are live at once and in whatever order they end.  And all along, slots  *)
(* are disjoint and inside the frame, and active_vregs holds values that   *)
(* are in registers.                                                       *)
(***************************************************************************)
ReachedAreSaved ==
  /\ PassInv
  /\ Finished => \A v \in VRegs : Reached(v) =>
                   (Clobbered(v) <=> LiveAcrossCall(v) /\ reg[v] \in Vector)

(***************************************************************************)
(* What the comment on the pass says: "Pre-alloced vregs aren't counted."  *)
(* Leaving those aside, every value up to v was given a register and the   *)
(* values are numbered in the order they start; then v is saved, unless it *)
(* is in a vector register.                                                *)
(***************************************************************************)
PinnedAreNotCounted ==
  LET others(v) == {u \in 1..v : ~pinned[u]}
      ordered(v) == /\ \A u \in others(v) : InReg(u) \/ slot[u] >= scanned
                    /\ \A u, w \in others(v) : u < w => start[u] < start[w]
  IN  Finished => \A v \in VRegs : ordered(v) /\ Clobbered(v) => reg[v] \in Vector
=============================================================================
