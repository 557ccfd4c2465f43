-------------------------- MODULE CallSpillProofs ---------------------------
(***************************************************************************)
(* Proofs about the pass that moves values to the stack at CALLs, for any  *)
(* number of virtual registers and instructions, any places of the CALLs   *)
(* and any result of the linear scan.                                      *)
(***************************************************************************)
EXTENDS CallSpill, SeqFacts, FiniteSetTheorems

USE DEF input

-----------------------------------------------------------------------------
(* The input does not change, and every range lies in the body. *)
InputOK ==
  /\ start \in [VRegs -> {-1} \cup 1..Length] /\ end \in [VRegs -> {-1} \cup 1..Length]
  /\ pinned \in [VRegs -> BOOLEAN] /\ calls \subseteq 1..Length
  /\ scanned \in Nat /\ FrameBase <= scanned /\ scanned <= stack

(* Where the walk stands: what is active was passed by vreg_index, what    *)
(* was not passed has the place the linear scan gave it, and j moves only  *)
(* while an instruction of the body is being looked at.                    *)
WalkOK ==
  /\ \A k \in 1..Len(active) : active[k] < index
  /\ \A v \in VRegs : index <= v => slot[v] < scanned
  /\ phase = "expire" => elem = 1
  /\ phase = "call" => i <= Length

(* vreg_index waits for a virtual register that starts later, if the ones  *)
(* from there on are to be reached.                                        *)
IndexWaits ==
  \A v \in VRegs : Reached(v) /\ index <= v =>
    /\ i <= start[index]
    /\ phase = "call" => i < start[index]

(* What vreg_index passed is active, over, or no longer in a register. *)
PassedIsActive ==
  \A v \in VRegs : Reached(v) /\ v < index => v \in ToSet(active) \/ end[v] < i \/ ~InReg(v)

(* The elements the loop at a CALL has passed stay in their registers. *)
PassedSurvive ==
  \A k \in 1..Len(active) : k < elem => ~Victim(active[k])

(* The CALLs visited so far clobber nothing. *)
VisitedSaved ==
  \A v \in VRegs, c \in calls :
    Reached(v) /\ c < i /\ start[v] < c /\ c < end[v] => ~Victim(v)

(* The inductive invariant behind ReachedAreSaved. *)
WalkInv ==
  /\ PassInv /\ InputOK /\ WalkOK
  /\ IndexWaits /\ PassedIsActive /\ PassedSurvive /\ VisitedSaved

-----------------------------------------------------------------------------
(* The scan's slots follow each other: one that is counted before v lies   *)
(* at least eight bytes below v's.                                         *)
LEMMA SpilledBeforeProps ==
  ASSUME NEW v \in 1..NumVRegs + 1
  PROVE  /\ IsFiniteSet(SpilledBefore(v)) /\ Cardinality(SpilledBefore(v)) \in Nat
         /\ \A u \in SpilledBefore(v) :
              Cardinality(SpilledBefore(u)) + 1 <= Cardinality(SpilledBefore(v))
  <1>1. NumVRegs \in Nat /\ IsFiniteSet(VRegs)
    BY CallSpillAssumption, FS_Interval DEF VRegs
  <1>2. ASSUME NEW w \in 1..NumVRegs + 1
        PROVE  IsFiniteSet(SpilledBefore(w)) /\ Cardinality(SpilledBefore(w)) \in Nat
    <2>1. SpilledBefore(w) \subseteq VRegs
      BY DEF SpilledBefore
    <2>2. IsFiniteSet(SpilledBefore(w))
      BY <2>1, <1>1, FS_Subset
    <2> QED BY <2>2, FS_CardinalityType
  <1>3. ASSUME NEW u \in SpilledBefore(v)
        PROVE  Cardinality(SpilledBefore(u)) + 1 <= Cardinality(SpilledBefore(v))
    <2>1. u \in VRegs /\ u < v /\ ~Unused(u) /\ ~InReg(u)
      BY DEF SpilledBefore
    <2>2. u \in 1..NumVRegs + 1
      BY <2>1, <1>1 DEF VRegs
    <2>3. u \notin SpilledBefore(u)
      BY <2>2, <1>1 DEF SpilledBefore
    <2>4. SpilledBefore(u) \cup {u} \subseteq SpilledBefore(v)
      BY <2>1, <1>1 DEF SpilledBefore, VRegs
    <2> DEFINE T == SpilledBefore(u) \cup {u}
    <2>5. IsFiniteSet(SpilledBefore(u)) /\ Cardinality(SpilledBefore(u)) \in Nat
      BY <2>2, <1>2
    <2>6. Cardinality(T) = Cardinality(SpilledBefore(u)) + 1
      BY <2>3, <2>5, FS_AddElement
    <2>7. Cardinality(T) <= Cardinality(SpilledBefore(v))
      BY <2>4, <1>2, FS_Subset
    <2> QED BY <2>6, <2>7
  <1> QED BY <1>2, <1>3

(* What the linear scan leaves satisfies the invariant. *)
LEMMA InitWalkInv ==
  ASSUME Init
  PROVE  WalkInv
  <1> USE CallSpillAssumption
  <1> DEFINE c(v) == Cardinality(SpilledBefore(v))
             spilled(v) == ~Unused(v) /\ ~InReg(v)
  <1>1. /\ start \in [VRegs -> {-1} \cup 1..Length] /\ end \in [VRegs -> {-1} \cup 1..Length]
        /\ pinned \in [VRegs -> BOOLEAN] /\ reg \in [VRegs -> Regs \cup {NoReg}]
        /\ calls \subseteq 1..Length
        /\ scanned = FrameBase + 8 * c(NumVRegs + 1) /\ stack = scanned
        /\ i = 1 /\ phase = "expire" /\ index = 1 /\ active = <<>> /\ elem = 1
    BY DEF Init
  <1>2. \A v \in VRegs : slot[v] = IF spilled(v) THEN FrameBase + 8 * c(v) ELSE NoSlot
    BY DEF Init
  <1>3. \A v \in 1..NumVRegs + 1 : c(v) \in Nat
    BY SpilledBeforeProps
  <1>4. \A v \in 1..NumVRegs + 1, u \in VRegs : u < v /\ spilled(u) => c(u) + 1 <= c(v)
    <2> SUFFICES ASSUME NEW v \in 1..NumVRegs + 1, NEW u \in VRegs, u < v, spilled(u)
                 PROVE  c(u) + 1 <= c(v)
      OBVIOUS
    <2>1. u \in SpilledBefore(v)
      BY DEF SpilledBefore
    <2> QED BY <2>1, SpilledBeforeProps
  <1>5. VRegs \subseteq 1..NumVRegs + 1 /\ NumVRegs + 1 \in 1..NumVRegs + 1
        /\ \A v \in VRegs : v < NumVRegs + 1
    BY DEF VRegs
  <1>6. \A v \in VRegs : OnStack(v) <=> spilled(v)
    <2>1. ASSUME NEW v \in VRegs PROVE OnStack(v) <=> spilled(v)
      <3>1. c(v) \in Nat
        BY <1>3, <1>5
      <3> HIDE DEF c, spilled
      <3> QED BY <3>1, <1>2 DEF OnStack, NoSlot
    <2> QED BY <2>1
  <1>7. slot \in [VRegs -> Nat \cup {NoSlot}]
    <2>1. slot = [v \in VRegs |-> IF Unused(v) \/ InReg(v) THEN NoSlot ELSE FrameBase + 8 * c(v)]
      BY DEF Init
    <2>2. \A v \in VRegs : c(v) \in Nat
      BY <1>3, <1>5
    <2> HIDE DEF c
    <2> QED BY <2>1, <2>2
  <1>8. stack \in Nat /\ scanned \in Nat /\ FrameBase <= scanned
    <2>1. c(NumVRegs + 1) \in Nat
      BY <1>3, <1>5
    <2> HIDE DEF c
    <2> QED BY <2>1, <1>1
  <1>9. \A v \in VRegs : slot[v] < scanned
    <2>1. ASSUME NEW v \in VRegs PROVE slot[v] < scanned
      <3>1. c(v) \in Nat /\ c(NumVRegs + 1) \in Nat
        BY <1>3, <1>5
      <3>2. spilled(v) => c(v) + 1 <= c(NumVRegs + 1)
        BY <1>4, <1>5
      <3> HIDE DEF c, spilled
      <3> QED BY <3>1, <3>2, <1>1, <1>2, <1>8 DEF NoSlot
    <2> QED BY <2>1
  <1>10. FrameSound
    <2>1. ASSUME NEW v \in VRegs, OnStack(v)
          PROVE  ~InReg(v) /\ FrameBase <= slot[v] /\ slot[v] + 8 <= stack
      <3>1. c(v) \in Nat /\ c(NumVRegs + 1) \in Nat /\ spilled(v)
        BY <1>3, <1>5, <1>6, <2>1
      <3>2. c(v) + 1 <= c(NumVRegs + 1)
        BY <3>1, <1>4, <1>5
      <3>3. ~InReg(v)
        BY <3>1
      <3> HIDE DEF c, spilled
      <3> QED BY <3>1, <3>2, <3>3, <1>1, <1>2
    <2>2. ASSUME NEW v \in VRegs, NEW u \in VRegs, OnStack(v), OnStack(u), u < v
          PROVE  slot[u] + 8 <= slot[v]
      <3>1. c(v) \in Nat /\ c(u) \in Nat /\ spilled(v) /\ spilled(u)
        BY <1>3, <1>5, <1>6, <2>2
      <3>2. c(u) + 1 <= c(v)
        BY <3>1, <1>4, <1>5, <2>2
      <3> HIDE DEF c, spilled
      <3> QED BY <3>1, <3>2, <1>1, <1>2
    <2>3. \A u, v \in VRegs : u # v => u < v \/ v < u
      BY DEF VRegs
    <2> QED BY <2>1, <2>2, <2>3 DEF FrameSound
  <1>11. TypeOK
    <2>1. active \in Seq(VRegs) /\ Len(active) = 0
      BY <1>1, EmptySeq
    <2> QED BY <2>1, <1>1, <1>7, <1>8 DEF TypeOK
  <1>12. Len(active) = 0
    BY <1>1
  <1>13. PassInv /\ InputOK
    BY <1>12, <1>11, <1>10, <1>8, <1>1 DEF PassInv, ActiveInReg, InputOK
  <1>14. WalkOK
    BY <1>12, <1>9, <1>1 DEF WalkOK
  <1>15. IndexWaits
    <2> SUFFICES ASSUME NEW v \in VRegs, Reached(v) PROVE 1 <= start[1]
      BY <1>1 DEF IndexWaits
    <2>1. 1 \in 1..v /\ 1 \in VRegs
      BY DEF VRegs
    <2>2. ~pinned[1] /\ (InReg(1) \/ slot[1] >= scanned)
      BY <2>1 DEF Reached
    <2>3. slot[1] \in Int /\ slot[1] < scanned
      BY <2>1, <1>7, <1>9 DEF NoSlot
    <2>4. InReg(1) /\ ~pinned[1]
      BY <2>2, <2>3, <1>8
    <2>5. ~Unused(1)
      BY <2>4, <2>1 DEF Init, ScanResult
    <2> QED BY <2>5, <2>1, <1>1 DEF Unused
  <1>16. PassedIsActive /\ PassedSurvive
    BY <1>12, <1>1 DEF PassedIsActive, PassedSurvive, VRegs
  <1>17. VisitedSaved
    BY <1>1 DEF VisitedSaved
  <1> QED BY <1>13, <1>14, <1>15, <1>16, <1>17 DEF WalkInv

-----------------------------------------------------------------------------
(* While registers and slots stay, so does everything said of them. *)
LEMMA SamePlaces ==
  ASSUME UNCHANGED <<input, reg, slot, stack>>
  PROVE  /\ \A v : Reached(v)' <=> Reached(v)
         /\ FrameSound => FrameSound'
         /\ InputOK => InputOK'
         /\ \A v : Victim(v)' <=> Victim(v)
         /\ \A v : InReg(v)' <=> InReg(v)
  BY DEF Reached, InReg, FrameSound, OnStack, InputOK, Victim

(* Expired ranges leave active_vregs from the front. *)
LEMMA ExpireHeadKeeps ==
  ASSUME WalkInv, ExpireHead
  PROVE  WalkInv'
  <1> USE CallSpillAssumption
  <1>1. TypeOK /\ FrameSound /\ ActiveInReg /\ InputOK /\ WalkOK
        /\ IndexWaits /\ PassedIsActive /\ VisitedSaved
    BY DEF WalkInv, PassInv
  <1>2. /\ phase = "expire" /\ active # <<>> /\ end[Head(active)] < i
        /\ active' = Tail(active)
        /\ UNCHANGED <<input, reg, slot, stack, i, phase, index, elem>>
    BY DEF ExpireHead, HeadExpired
  <1>3. active \in Seq(VRegs) /\ elem = 1
    BY <1>1, <1>2 DEF TypeOK, WalkOK
  <1>4. /\ active' \in Seq(VRegs) /\ Len(active') = Len(active) - 1 /\ Len(active) \in Nat \ {0}
        /\ \A k \in 1..Len(active)-1 : active'[k] = active[k+1]
        /\ ToSet(active) = {Head(active)} \cup ToSet(active')
    BY <1>2, <1>3, TailProps
  <1>5. \A k \in 1..Len(active') : k+1 \in 1..Len(active) /\ active'[k] = active[k+1]
    BY <1>4
  <1>6. /\ \A v : Reached(v)' <=> Reached(v)
        /\ FrameSound' /\ InputOK' /\ \A v : Victim(v)' <=> Victim(v)
        /\ \A v : InReg(v)' <=> InReg(v)
    BY <1>1, <1>2, SamePlaces
  <1>7. TypeOK'
    BY <1>1, <1>2, <1>3, <1>4 DEF TypeOK
  <1>8. ActiveInReg'
    <2> SUFFICES ASSUME NEW j \in 1..Len(active'), NEW k \in 1..Len(active')
                 PROVE  /\ InReg(active[j+1]) /\ ~pinned[active[j+1]]
                        /\ active[j+1] = active[k+1] => j = k
      BY <1>2, <1>5, <1>6 DEF ActiveInReg
    <2>1. j+1 \in 1..Len(active) /\ k+1 \in 1..Len(active)
      BY <1>5
    <2>2. /\ InReg(active[j+1]) /\ ~pinned[active[j+1]]
          /\ active[j+1] = active[k+1] => j+1 = k+1
      BY <2>1, <1>1 DEF ActiveInReg
    <2> QED BY <2>2, <1>4
  <1>9. WalkOK'
    BY <1>1, <1>2, <1>5 DEF WalkOK
  <1>10. IndexWaits'
    BY <1>1, <1>2, <1>6 DEF IndexWaits
  <1>11. PassedIsActive'
    <2> SUFFICES ASSUME NEW v \in VRegs, Reached(v), v < index
                 PROVE  v \in ToSet(active') \/ end[v] < i \/ ~InReg(v)
      BY <1>2, <1>6 DEF PassedIsActive
    <2>1. v \in ToSet(active) \/ end[v] < i \/ ~InReg(v)
      BY <1>1 DEF PassedIsActive
    <2> QED BY <2>1, <1>2, <1>4
  <1>12. PassedSurvive'
    BY <1>2, <1>3, <1>4 DEF PassedSurvive
  <1>13. VisitedSaved'
    BY <1>1, <1>2, <1>6 DEF VisitedSaved
  <1> QED BY <1>6, <1>7, <1>8, <1>9, <1>10, <1>11, <1>12, <1>13 DEF WalkInv, PassInv

(* The insertion loop stops inside active_vregs or at its end. *)
LEMMA InsertionPointProps ==
  ASSUME active \in Seq(VRegs)
  PROVE  InsertionPoint \in 1..Len(active) + 1
  <1> DEFINE over == {k \in 1..Len(active) : end[active[k]] < i}
  <1>1. Len(active) \in Nat
    OBVIOUS
  <1>2. CASE over = {}
    BY <1>1, <1>2 DEF InsertionPoint
  <1>3. CASE over # {}
    <2>1. over \in SUBSET Nat
      BY <1>1
    <2>2. \E k \in over : \A l \in over : k <= l
      BY <2>1, <1>3, LeastNat
    <2>3. InsertionPoint \in over
      BY <2>2, <1>3 DEF InsertionPoint
    <2> QED BY <2>3, <1>1
  <1> QED BY <1>2, <1>3

(* A virtual register that starts here joins the list, and vreg_index      *)
(* moves to the next.                                                      *)
LEMMA StartRangeKeeps ==
  ASSUME WalkInv, StartRange
  PROVE  WalkInv'
  <1> USE CallSpillAssumption
  <1>1. TypeOK /\ FrameSound /\ ActiveInReg /\ InputOK /\ WalkOK
        /\ IndexWaits /\ PassedIsActive /\ VisitedSaved
    BY DEF WalkInv, PassInv
  <1>2. /\ phase = "expire" /\ i <= Length /\ phase' = "call"
        /\ UNCHANGED <<input, reg, slot, stack, i, elem>>
    BY DEF StartRange
  <1>3. /\ active \in Seq(VRegs) /\ Len(active) \in Nat /\ elem = 1
        /\ i \in Int /\ index \in 1..NumVRegs+1 /\ VRegs \subseteq Int
    BY <1>1, <1>2 DEF TypeOK, WalkOK, VRegs
  <1>4. /\ \A v : Reached(v)' <=> Reached(v)
        /\ FrameSound' /\ InputOK' /\ \A v : Victim(v)' <=> Victim(v)
        /\ \A v : InReg(v)' <=> InReg(v)
    BY <1>1, <1>2, SamePlaces
  <1>5. VisitedSaved'
    BY <1>1, <1>2, <1>4 DEF VisitedSaved
  <1>6. \A v \in VRegs : start[v] \in Int /\ slot[v] \in Int
    BY <1>1 DEF InputOK, TypeOK, NoSlot
  <1>7. ASSUME NEW v \in VRegs, Reached(v), index <= v
        PROVE  /\ index \in VRegs /\ index \in 1..v
               /\ Counted(index) /\ i <= start[index]
    <2>1. index \in 1..v /\ index \in VRegs
      BY <1>3, <1>7 DEF VRegs
    <2>2. ~pinned[index] /\ (InReg(index) \/ slot[index] >= scanned)
      BY <2>1, <1>7 DEF Reached
    <2>3. slot[index] < scanned
      BY <2>1, <1>1, <1>3 DEF WalkOK
    <2>4. InReg(index)
      BY <2>1, <2>2, <2>3, <1>6, <1>1 DEF InputOK
    <2>5. i <= start[index]
      BY <1>1, <1>7 DEF IndexWaits
    <2> QED BY <2>1, <2>2, <2>4, <2>5 DEF Counted
  <1>8. CASE StartsHere
    <2>1. /\ index \in VRegs /\ InReg(index) /\ ~pinned[index] /\ start[index] = i
          /\ index' = index + 1 /\ active' = InsertAt(active, InsertionPoint, index)
      BY <1>3, <1>8 DEF StartsHere, Counted, StartRange, VRegs
    <2> DEFINE a == InsertionPoint
    <2>2. a \in 1..Len(active)+1
      BY <1>3, InsertionPointProps
    <2> HIDE DEF a
    <2>3. /\ active' \in Seq(VRegs) /\ Len(active') = Len(active) + 1
          /\ \A k \in 1..Len(active)+1 :
               active'[k] = IF k < a THEN active[k] ELSE IF k = a THEN index ELSE active[k-1]
          /\ ToSet(active') = ToSet(active) \cup {index}
      <3>1. active' = InsertAt(active, a, index)
        BY <2>1 DEF a
      <3>2. /\ InsertAt(active, a, index) \in Seq(VRegs)
            /\ Len(InsertAt(active, a, index)) = Len(active) + 1
            /\ \A k \in 1..Len(active)+1 :
                 InsertAt(active, a, index)[k] =
                   IF k < a THEN active[k] ELSE IF k = a THEN index ELSE active[k-1]
            /\ ToSet(InsertAt(active, a, index)) = ToSet(active) \cup {index}
        BY <2>1, <2>2, <1>3, InsertAtProps
      <3> QED BY <3>1, <3>2
    <2>4. \A k \in 1..Len(active) : active[k] # index /\ active[k] < index /\ active[k] \in VRegs
      BY <1>1, <1>3 DEF WalkOK
    <2>5. \A k \in 1..Len(active)+1 :
            \/ k = a /\ active'[k] = index
            \/ k < a /\ k \in 1..Len(active) /\ active'[k] = active[k]
            \/ k > a /\ k-1 \in 1..Len(active) /\ active'[k] = active[k-1]
      BY <2>2, <2>3, <1>3
    <2>6. TypeOK'
      BY <1>1, <1>2, <1>3, <2>1, <2>3 DEF TypeOK, VRegs
    <2>7. ActiveInReg'
      <3>1. \A k, l \in 1..Len(active) :
              /\ InReg(active[k]) /\ ~pinned[active[k]]
              /\ active[k] = active[l] => k = l
        BY <1>1 DEF ActiveInReg
      <3>2. ASSUME NEW k \in 1..Len(active)+1 PROVE InReg(active'[k]) /\ ~pinned[active'[k]]
        BY <3>1, <2>5, <2>1
      <3>3. ASSUME NEW k \in 1..Len(active)+1, NEW l \in 1..Len(active)+1,
                   active'[k] = active'[l], k < l
            PROVE  FALSE
        <4>1. CASE k = a
          BY <4>1, <3>3, <2>4, <2>5, <1>3, <2>2
        <4>2. CASE l = a
          BY <4>2, <3>3, <2>4, <2>5, <1>3, <2>2
        <4>3. CASE l < a
          BY <4>3, <3>3, <3>1, <2>5, <1>3, <2>2
        <4>4. CASE k < a /\ a < l
          <5>1. k \in 1..Len(active) /\ l-1 \in 1..Len(active) /\ active[k] = active[l-1]
            BY <4>4, <3>3, <2>5, <1>3, <2>2
          <5>2. k = l-1
            BY <5>1, <3>1
          <5> QED BY <5>2, <4>4, <2>2, <1>3
        <4>5. CASE a < k
          <5>1. k-1 \in 1..Len(active) /\ l-1 \in 1..Len(active) /\ active[k-1] = active[l-1]
            BY <4>5, <3>3, <2>5, <1>3, <2>2
          <5>2. k-1 = l-1
            BY <5>1, <3>1
          <5> QED BY <5>2, <3>3, <1>3
        <4> QED BY <4>1, <4>2, <4>3, <4>4, <4>5, <2>2, <3>3, <1>3
      <3>4. \A k, l \in 1..Len(active)+1 : active'[k] = active'[l] => k = l
        BY <3>3, <1>3
      <3>5. pinned' = pinned /\ Len(active') = Len(active) + 1
        BY <1>2, <2>3
      <3> QED BY <3>2, <3>4, <3>5, <1>4 DEF ActiveInReg
    <2>8. WalkOK'
      <3>1. ASSUME NEW k \in 1..Len(active') PROVE active'[k] < index + 1
        <4>1. \A l \in 1..Len(active) : active[l] \in Int /\ active[l] < index
          BY <2>4, <1>3
        <4>2. k \in 1..Len(active)+1
          BY <2>3
        <4>3. active'[k] = index \/ \E l \in 1..Len(active) : active'[k] = active[l]
          BY <4>2, <2>5
        <4> QED BY <4>1, <4>3, <1>3
      <3>2. \A v \in VRegs : index + 1 <= v => slot[v] < scanned
        BY <1>1, <1>3 DEF WalkOK
      <3> QED BY <3>1, <3>2, <2>1, <1>2 DEF WalkOK
    <2>9. IndexWaits'
      <3> SUFFICES ASSUME NEW v \in VRegs, Reached(v), index + 1 <= v
                   PROVE  i < start[index + 1]
        <4>1. VRegs \subseteq Int /\ \A v \in VRegs : index + 1 <= v => index + 1 \in VRegs
          BY <1>3 DEF VRegs
        <4> QED BY <4>1, <1>2, <1>3, <1>4, <1>6, <2>1 DEF IndexWaits
      <3>1. index \in 1..v /\ index + 1 \in 1..v
        BY <1>3 DEF VRegs
      <3>2. start[index] < start[index + 1]
        BY <3>1, <1>3 DEF Reached
      <3> QED BY <3>2, <2>1
    <2>10. PassedIsActive'
      <3> SUFFICES ASSUME NEW v \in VRegs, Reached(v), v < index + 1
                   PROVE  v \in ToSet(active') \/ end[v] < i \/ ~InReg(v)
        BY <1>2, <1>4, <2>1 DEF PassedIsActive
      <3>1. v = index \/ v < index
        BY <1>3
      <3> QED BY <3>1, <2>3, <1>1 DEF PassedIsActive
    <2>11. PassedSurvive'
      BY <1>2, <1>3, <2>3 DEF PassedSurvive
    <2> QED BY <2>6, <2>7, <2>8, <2>9, <2>10, <2>11, <1>4, <1>5 DEF WalkInv, PassInv
  <1>9. CASE ~StartsHere
    <2>1. active' = active /\ index' = index
      BY <1>9 DEF StartRange
    <2>2. TypeOK' /\ ActiveInReg' /\ WalkOK'
      BY <1>1, <1>2, <1>4, <2>1 DEF TypeOK, ActiveInReg, WalkOK
    <2>3. IndexWaits'
      <3> SUFFICES ASSUME NEW v \in VRegs, Reached(v), index <= v
                   PROVE  i < start[index]
        BY <1>1, <1>2, <1>4, <2>1 DEF IndexWaits
      <3>1. index \in VRegs /\ Counted(index) /\ i <= start[index]
        BY <1>7
      <3>2. start[index] # i
        BY <3>1, <1>9 DEF StartsHere, VRegs
      <3> QED BY <3>1, <3>2, <1>3, <1>6
    <2>4. PassedIsActive'
      BY <1>1, <1>2, <1>4, <2>1 DEF PassedIsActive
    <2>5. PassedSurvive'
      BY <1>2, <1>3, <2>1 DEF PassedSurvive
    <2> QED BY <2>2, <2>3, <2>4, <2>5, <1>4, <1>5 DEF WalkInv, PassInv
  <1> QED BY <1>8, <1>9

-----------------------------------------------------------------------------
(* A value in a caller-save register moves to the end of the frame and     *)
(* leaves the list; the element after it is looked at next.                *)
LEMMA SpillActiveKeeps ==
  ASSUME WalkInv, SpillActive
  PROVE  WalkInv'
  <1> USE CallSpillAssumption
  <1> DEFINE v == active[elem]
  <1>1. TypeOK /\ FrameSound /\ ActiveInReg /\ InputOK /\ WalkOK
        /\ IndexWaits /\ PassedIsActive /\ PassedSurvive /\ VisitedSaved
    BY DEF WalkInv, PassInv
  <1>2. /\ phase = "call" /\ i \in calls /\ elem <= Len(active)
        /\ reg' = [reg EXCEPT ![v] = NoReg] /\ slot' = [slot EXCEPT ![v] = stack]
        /\ stack' = stack + 8 /\ active' = RemoveAt(active, elem)
        /\ UNCHANGED <<input, i, phase, index, elem>>
    BY DEF SpillActive, AtCall, MoveToStack
  <1>3. /\ active \in Seq(VRegs) /\ Len(active) \in Nat /\ elem \in 1..Len(active)
        /\ reg \in [VRegs -> Regs \cup {NoReg}] /\ slot \in [VRegs -> Nat \cup {NoSlot}]
        /\ stack \in Nat /\ scanned \in Nat /\ FrameBase <= stack /\ scanned <= stack
    BY <1>1, <1>2 DEF TypeOK, InputOK
  <1>4. v \in VRegs /\ InReg(v)
    BY <1>1, <1>3 DEF ActiveInReg
  <1>5. \A k, l \in 1..Len(active) : active[k] = active[l] => k = l
    BY <1>1 DEF ActiveInReg
  <1>6. /\ active' \in Seq(VRegs) /\ Len(active') = Len(active) - 1
        /\ \A k \in 1..Len(active)-1 : active'[k] = IF k < elem THEN active[k] ELSE active[k+1]
    <2>1. /\ RemoveAt(active, elem) \in Seq(VRegs)
          /\ Len(RemoveAt(active, elem)) = Len(active) - 1
          /\ \A k \in 1..Len(active)-1 :
               RemoveAt(active, elem)[k] = IF k < elem THEN active[k] ELSE active[k+1]
      BY <1>3, RemoveAtProps
    <2> QED BY <2>1, <1>2
  <1>7. /\ ToSet(active') = ToSet(active) \ {v}
        /\ \A k, l \in 1..Len(active') : active'[k] = active'[l] => k = l
    <2>1. /\ ToSet(RemoveAt(active, elem)) = ToSet(active) \ {active[elem]}
          /\ \A k, l \in 1..Len(RemoveAt(active, elem)) :
               RemoveAt(active, elem)[k] = RemoveAt(active, elem)[l] => k = l
      BY <1>3, <1>5, RemoveAtDistinct
    <2> QED BY <2>1, <1>2
  <1>8. \A k \in 1..Len(active') :
          \E l \in 1..Len(active) : active'[k] = active[l] /\ l # elem /\ (k < elem => l = k)
    <2> SUFFICES ASSUME NEW k \in 1..Len(active')
                 PROVE  \E l \in 1..Len(active) :
                          active'[k] = active[l] /\ l # elem /\ (k < elem => l = k)
      OBVIOUS
    <2>1. CASE k < elem
      BY <2>1, <1>3, <1>6
    <2>2. CASE k >= elem
      <3>1. k+1 \in 1..Len(active) /\ k+1 # elem /\ active'[k] = active[k+1] /\ ~(k < elem)
        BY <2>2, <1>3, <1>6
      <3> QED BY <3>1
    <2> QED BY <2>1, <2>2, <1>3, <1>6
  <1>9. \A u \in VRegs :
          /\ u # v => reg'[u] = reg[u] /\ slot'[u] = slot[u]
          /\ u = v => reg'[u] = NoReg /\ slot'[u] = stack
    <2> HIDE DEF v
    <2> QED BY <1>2, <1>3, <1>4
  <1>10. \A k \in 1..Len(active) : k # elem => active[k] # v /\ active[k] \in VRegs
    BY <1>3, <1>5
  <1> HIDE DEF v
  <1>11. TypeOK'
    <2>1. reg' \in [VRegs -> Regs \cup {NoReg}] /\ slot' \in [VRegs -> Nat \cup {NoSlot}]
          /\ stack' \in Nat
      BY <1>2, <1>3, <1>4
    <2>2. elem' \in 1..Len(active') + 1
      BY <1>2, <1>3, <1>6
    <2> QED BY <2>1, <2>2, <1>1, <1>2, <1>6 DEF TypeOK
  <1>12. FrameSound'
    <2>1. ASSUME NEW u \in VRegs, slot'[u] # NoSlot, u # v
          PROVE  /\ reg'[u] = NoReg /\ slot[u] \in Nat
                 /\ FrameBase <= slot'[u] /\ slot'[u] + 8 <= stack
      <3>1. OnStack(u) /\ reg'[u] = reg[u] /\ slot'[u] = slot[u]
        BY <2>1, <1>9 DEF OnStack
      <3>2. ~InReg(u) /\ FrameBase <= slot[u] /\ slot[u] + 8 <= stack
        BY <3>1, <1>1 DEF FrameSound
      <3> QED BY <3>1, <3>2, <1>3 DEF InReg, OnStack
    <2>2. ASSUME NEW u \in VRegs, slot'[u] # NoSlot
          PROVE  reg'[u] = NoReg /\ FrameBase <= slot'[u] /\ slot'[u] + 8 <= stack + 8
      <3>1. CASE u = v
        BY <3>1, <1>9, <1>3
      <3>2. CASE u # v
        <4>1. slot'[u] = slot[u]
          BY <3>2, <1>9
        <4> QED BY <4>1, <3>2, <2>1, <2>2, <1>3
      <3> QED BY <3>1, <3>2
    <2>3. ASSUME NEW u \in VRegs, NEW w \in VRegs, u # w, slot'[u] # NoSlot, slot'[w] # NoSlot
          PROVE  slot'[w] + 8 <= slot'[u] \/ slot'[u] + 8 <= slot'[w]
      <3>1. CASE u = v
        <4>1. slot'[u] = stack /\ slot'[w] + 8 <= stack
          BY <3>1, <2>3, <2>1, <1>9
        <4> QED BY <4>1
      <3>2. CASE w = v
        <4>1. slot'[w] = stack /\ slot'[u] + 8 <= stack
          BY <3>2, <2>3, <2>1, <1>9
        <4> QED BY <4>1
      <3>3. CASE u # v /\ w # v
        <4>1. OnStack(u) /\ OnStack(w) /\ slot'[u] = slot[u] /\ slot'[w] = slot[w]
          BY <3>3, <2>3, <1>9 DEF OnStack
        <4> QED BY <4>1, <2>3, <1>1 DEF FrameSound
      <3> QED BY <3>1, <3>2, <3>3
    <2> QED BY <2>2, <2>3, <1>2 DEF FrameSound, OnStack, InReg
  <1>13. ActiveInReg'
    <2>1. ASSUME NEW k \in 1..Len(active') PROVE reg'[active'[k]] # NoReg /\ ~pinned'[active'[k]]
      <3>1. PICK l \in 1..Len(active) : active'[k] = active[l] /\ l # elem
        BY <1>8
      <3>2. InReg(active[l]) /\ ~pinned[active[l]]
        BY <1>1 DEF ActiveInReg
      <3>3. reg'[active[l]] = reg[active[l]]
        BY <3>1, <1>9, <1>10
      <3> QED BY <3>1, <3>2, <3>3, <1>2 DEF InReg
    <2> QED BY <2>1, <1>7 DEF ActiveInReg, InReg
  <1>14. InputOK'
    BY <1>1, <1>2, <1>3 DEF InputOK
  <1>15. v < index /\ index \in Int /\ VRegs \subseteq Int
    BY <1>1, <1>3 DEF WalkOK, v, TypeOK, VRegs
  <1>16. WalkOK'
    <2>1. \A k \in 1..Len(active') : active'[k] < index
      BY <1>8, <1>1 DEF WalkOK
    <2>2. ASSUME NEW u \in VRegs, index <= u PROVE slot'[u] < scanned
      <3>1. u # v
        BY <2>2, <1>15, <1>4
      <3> QED BY <3>1, <2>2, <1>9, <1>1 DEF WalkOK
    <2> QED BY <2>1, <2>2, <1>1, <1>2 DEF WalkOK
  <1>17. \A u \in VRegs : Reached(u)' => Reached(u)
    <2> SUFFICES ASSUME NEW u \in VRegs, Reached(u)' PROVE Reached(u)
      OBVIOUS
    <2>1. 1..u \subseteq VRegs
      BY DEF VRegs
    <2>2. ASSUME NEW w \in 1..u PROVE ~pinned[w] /\ (InReg(w) \/ slot[w] >= scanned)
      <3>1. w \in VRegs /\ ~pinned[w] /\ (reg'[w] # NoReg \/ slot'[w] >= scanned)
        BY <2>1, <1>2 DEF Reached, InReg
      <3>2. CASE w = v
        BY <3>1, <3>2, <1>4
      <3>3. CASE w # v
        BY <3>1, <3>3, <1>9 DEF InReg
      <3> QED BY <3>2, <3>3
    <2>3. \A w, x \in 1..u : w < x => start[w] < start[x]
      BY <1>2 DEF Reached
    <2> QED BY <2>2, <2>3 DEF Reached
  <1>18. IndexWaits'
    BY <1>1, <1>2, <1>17 DEF IndexWaits
  <1>19. PassedIsActive'
    <2> SUFFICES ASSUME NEW u \in VRegs, Reached(u), u < index
                 PROVE  u \in ToSet(active') \/ end[u] < i \/ reg'[u] = NoReg
      BY <1>2, <1>17 DEF PassedIsActive, InReg
    <2>1. u \in ToSet(active) \/ end[u] < i \/ ~InReg(u)
      BY <1>1 DEF PassedIsActive
    <2> QED BY <2>1, <1>7, <1>9 DEF InReg
  <1>20. ASSUME NEW u \in VRegs, ~Victim(u) PROVE ~(reg'[u] \in CallerSave)
    BY <1>20, <1>9, MaskAssumption DEF Victim
  <1>21. PassedSurvive'
    <2> SUFFICES ASSUME NEW k \in 1..Len(active'), k < elem
                 PROVE  ~(reg'[active'[k]] \in CallerSave)
      BY <1>2 DEF PassedSurvive, Victim
    <2>1. k \in 1..Len(active) /\ active'[k] = active[k]
      BY <1>8
    <2>2. ~Victim(active[k]) /\ active[k] \in VRegs
      BY <2>1, <1>1, <1>3 DEF PassedSurvive
    <2> QED BY <2>1, <2>2, <1>20
  <1>22. VisitedSaved'
    <2> SUFFICES ASSUME NEW u \in VRegs, NEW c \in calls,
                        Reached(u), c < i, start[u] < c, c < end[u]
                 PROVE  ~(reg'[u] \in CallerSave)
      BY <1>2, <1>17 DEF VisitedSaved, Victim
    <2>1. ~Victim(u)
      BY <1>1 DEF VisitedSaved
    <2> QED BY <2>1, <1>20
  <1> QED BY <1>11, <1>12, <1>13, <1>14, <1>16, <1>18, <1>19, <1>21, <1>22 DEF WalkInv, PassInv

(* A value in a callee-save register stays where it is. *)
LEMMA KeepActiveKeeps ==
  ASSUME WalkInv, KeepActive
  PROVE  WalkInv'
  <1> USE CallSpillAssumption
  <1>1. TypeOK /\ FrameSound /\ ActiveInReg /\ InputOK /\ WalkOK
        /\ IndexWaits /\ PassedIsActive /\ PassedSurvive /\ VisitedSaved
    BY DEF WalkInv, PassInv
  <1>2. /\ phase = "call" /\ elem <= Len(active) /\ ~Victim(active[elem]) /\ elem' = elem + 1
        /\ UNCHANGED <<input, reg, slot, stack, i, phase, index, active>>
    BY DEF KeepActive, AtCall
  <1>3. active \in Seq(VRegs) /\ Len(active) \in Nat /\ elem \in 1..Len(active)
    BY <1>1, <1>2 DEF TypeOK
  <1>4. /\ \A v : Reached(v)' <=> Reached(v)
        /\ FrameSound' /\ InputOK' /\ \A v : Victim(v)' <=> Victim(v)
        /\ \A v : InReg(v)' <=> InReg(v)
    BY <1>1, <1>2, SamePlaces
  <1>5. TypeOK'
    BY <1>1, <1>2, <1>3 DEF TypeOK
  <1>6. ActiveInReg' /\ WalkOK' /\ IndexWaits' /\ PassedIsActive' /\ VisitedSaved'
    BY <1>1, <1>2, <1>4 DEF ActiveInReg, WalkOK, IndexWaits, PassedIsActive, VisitedSaved
  <1>7. PassedSurvive'
    <2> SUFFICES ASSUME NEW k \in 1..Len(active), k < elem + 1 PROVE ~Victim(active[k])
      BY <1>2, <1>4 DEF PassedSurvive
    <2>1. k = elem \/ k < elem
      BY <1>3
    <2> QED BY <2>1, <1>1, <1>2 DEF PassedSurvive
  <1> QED BY <1>4, <1>5, <1>6, <1>7 DEF WalkInv, PassInv

(* When the loop at an instruction is over, what was reached and is live   *)
(* across it sits in no caller-save register.                              *)
LEMMA NextInstrKeeps ==
  ASSUME WalkInv, NextInstr
  PROVE  WalkInv'
  <1> USE CallSpillAssumption
  <1>1. TypeOK /\ FrameSound /\ ActiveInReg /\ InputOK /\ WalkOK
        /\ IndexWaits /\ PassedIsActive /\ PassedSurvive /\ VisitedSaved
    BY DEF WalkInv, PassInv
  <1>2. /\ phase = "call" /\ phase' = "expire" /\ i' = i + 1 /\ elem' = 1
        /\ i \in calls => ~(elem <= Len(active))
        /\ UNCHANGED <<input, reg, slot, stack, index, active>>
    BY DEF NextInstr, AtCall
  <1>3. /\ active \in Seq(VRegs) /\ Len(active) \in Nat /\ elem \in 1..Len(active)+1
        /\ i \in 1..Length /\ index \in 1..NumVRegs+1
    BY <1>1, <1>2 DEF TypeOK, WalkOK
  <1>4. /\ \A v : Reached(v)' <=> Reached(v)
        /\ FrameSound' /\ InputOK' /\ \A v : Victim(v)' <=> Victim(v)
        /\ \A v : InReg(v)' <=> InReg(v)
    BY <1>1, <1>2, SamePlaces
  <1>5. \A v \in VRegs : start[v] \in Int /\ end[v] \in Int /\ v \in Int
    BY <1>1 DEF InputOK, VRegs
  <1>6. TypeOK'
    BY <1>1, <1>2, <1>3 DEF TypeOK
  <1>7. ActiveInReg' /\ WalkOK' /\ PassedSurvive'
    BY <1>1, <1>2, <1>3, <1>4 DEF ActiveInReg, WalkOK, PassedSurvive
  <1>8. IndexWaits'
    <2> SUFFICES ASSUME NEW v \in VRegs, Reached(v), index <= v
                 PROVE  i + 1 <= start[index]
      BY <1>2, <1>4 DEF IndexWaits
    <2>1. i < start[index]
      BY <1>1, <1>2 DEF IndexWaits
    <2>2. index \in VRegs
      BY <1>3 DEF VRegs
    <2> QED BY <2>1, <2>2, <1>3, <1>5
  <1>9. PassedIsActive'
    <2> SUFFICES ASSUME NEW v \in VRegs, Reached(v), v < index
                 PROVE  v \in ToSet(active) \/ end[v] < i + 1 \/ ~InReg(v)
      BY <1>2, <1>4 DEF PassedIsActive
    <2>1. v \in ToSet(active) \/ end[v] < i \/ ~InReg(v)
      BY <1>1 DEF PassedIsActive
    <2> QED BY <2>1, <1>3, <1>5
  <1>10. ASSUME NEW v \in VRegs, Reached(v), i \in calls, start[v] < i, i < end[v]
         PROVE  ~Victim(v)
    <2>1. v < index
      <3> SUFFICES ASSUME index <= v PROVE FALSE
        BY <1>3, <1>5
      <3>1. i < start[index]
        BY <1>1, <1>2, <1>10 DEF IndexWaits
      <3>2. index \in VRegs /\ index \in 1..v /\ v \in 1..v
        BY <1>3 DEF VRegs
      <3>3. start[index] <= start[v]
        <4>1. CASE index = v
          BY <4>1, <3>2, <1>5
        <4>2. CASE index < v
          <5>1. start[index] < start[v]
            BY <4>2, <3>2, <1>10 DEF Reached
          <5> QED BY <5>1, <3>2, <1>5
        <4> QED BY <4>1, <4>2, <1>3, <1>5
      <3> QED BY <3>1, <3>2, <3>3, <1>3, <1>5, <1>10
    <2>2. v \in ToSet(active) \/ end[v] < i \/ ~InReg(v)
      BY <2>1, <1>1, <1>10 DEF PassedIsActive
    <2>3. ~(end[v] < i)
      BY <1>3, <1>5, <1>10
    <2>4. CASE v \in ToSet(active)
      <3>1. PICK k \in 1..Len(active) : v = active[k]
        BY <2>4, <1>3 DEF ToSet
      <3>2. k < elem
        BY <1>2, <1>3, <1>10
      <3> QED BY <3>1, <3>2, <1>1 DEF PassedSurvive
    <2>5. CASE ~InReg(v)
      BY <2>5, MaskAssumption DEF InReg, Victim
    <2> QED BY <2>2, <2>3, <2>4, <2>5
  <1>11. VisitedSaved'
    <2> SUFFICES ASSUME NEW v \in VRegs, NEW c \in calls, Reached(v), c < i + 1,
                        start[v] < c, c < end[v]
                 PROVE  ~Victim(v)
      BY <1>2, <1>4 DEF VisitedSaved
    <2>1. c \in Int
      BY <1>1 DEF InputOK
    <2>2. c = i \/ c < i
      BY <2>1, <1>3
    <2> QED BY <2>2, <1>1, <1>10 DEF VisitedSaved
  <1> QED BY <1>4, <1>6, <1>7, <1>8, <1>9, <1>11 DEF WalkInv, PassInv

-----------------------------------------------------------------------------
(***************************************************************************)
(* What the pass keeps true at every step: where the walk stands, which    *)
(* values the list holds, and that the CALLs behind it clobber nothing     *)
(* that vreg_index reached.                                                *)
(***************************************************************************)
THEOREM WalkIsSound == Spec => []WalkInv
  <1>1. Init => WalkInv
    BY InitWalkInv
  <1>2. ASSUME WalkInv, [Next]_vars PROVE WalkInv'
    <2>1. CASE ExpireHead
      BY <2>1, <1>2, ExpireHeadKeeps
    <2>2. CASE StartRange
      BY <2>2, <1>2, StartRangeKeeps
    <2>3. CASE SpillActive
      BY <2>3, <1>2, SpillActiveKeeps
    <2>4. CASE KeepActive
      BY <2>4, <1>2, KeepActiveKeeps
    <2>5. CASE NextInstr
      BY <2>5, <1>2, NextInstrKeeps
    <2>6. CASE UNCHANGED vars
      BY <2>6, <1>2 DEF vars, WalkInv, PassInv, TypeOK, FrameSound, ActiveInReg, InputOK, WalkOK,
        IndexWaits, PassedIsActive, PassedSurvive, VisitedSaved, Reached, InReg, OnStack, Victim
    <2> QED BY <2>1, <2>2, <2>3, <2>4, <2>5, <2>6, <1>2 DEF Next, Done
  <1> QED BY <1>1, <1>2, PTL DEF Spec

(***************************************************************************)
(* Of the values that vreg_index reaches, a CALL destroys exactly those in *)
(* vector registers, and slots and active_vregs are sound all along, for   *)
(* every function body and every result of the linear scan.                *)
(***************************************************************************)
THEOREM SavedAcrossCalls == Spec => []ReachedAreSaved
  <1>1. ASSUME WalkInv PROVE ReachedAreSaved
    <2> SUFFICES ASSUME Finished, NEW v \in VRegs, Reached(v), LiveAcrossCall(v)
                 PROVE  /\ ~pinned[v]
                        /\ reg[v] \in Regs \ CalleeSave <=> reg[v] \in Vector
      BY <1>1 DEF ReachedAreSaved, WalkInv, Clobbered
    <2>1. PICK c \in calls : start[v] < c /\ c < end[v]
      BY DEF LiveAcrossCall
    <2>2. c < i
      BY <1>1, CallSpillAssumption DEF WalkInv, InputOK, PassInv, TypeOK, Finished
    <2>3. reg[v] \notin CallerSave
      BY <2>1, <2>2, <1>1 DEF WalkInv, VisitedSaved, Victim
    <2>4. ~pinned[v]
      BY DEF Reached, VRegs
    <2> QED BY <2>3, <2>4, CallSpillAssumption, MaskAssumption DEF Regs
  <1> QED BY <1>1, WalkIsSound, PTL
=============================================================================
