-------------------------- MODULE LiveRangesProofs --------------------------
(***************************************************************************)
(* Proofs about the live-range analysis of one virtual register, for any   *)
(* function body laid out in blocks, of any length.                        *)
(***************************************************************************)
EXTENDS LiveRanges, SeqFacts, FiniteSetTheorems

USE DEF input

-----------------------------------------------------------------------------
BodyOK == body \in Programs /\ (phase # "preds" => i > Len(body))

(* Each list of predecessors holds at most the last jump that was found. *)
PredsOK ==
  \A p \in Points :
    /\ preds[p] = <<>> \/ \E q \in Jumps(p) : preds[p] = <<q>>
    /\ \A q \in Jumps(p) : q < i => preds[p] # <<>>

(* Outside of the analysis there is no current point, and the end of the   *)
(* range is stored last.                                                   *)
PhasesOK ==
  /\ phase # "hung"
  /\ phase = "examine" => pc \in Points
  /\ phase # "done" => end = None
  /\ phase = "preds" => live = {}

(* No point that is still to be looked at is live. *)
WorkIsDead == work \cap live = {}

(* The cached maximum is right while a point is examined, too. *)
LargestKept ==
  phase \in {"pick", "examine"} /\ work # {} =>
    largest \in work /\ \A q \in work : q <= largest

(* Whatever control may reach and the equations make live is live, waits   *)
(* in the working set, or is the point being examined.                     *)
NothingForgotten ==
  SinglePreds /\ phase \in {"pick", "examine", "done"} =>
    \A p \in Points \ Unreached(body) : p \in Equations(live) =>
      p \in live \/ p \in work \/ (phase = "examine" /\ p = pc)

(* The inductive invariant behind AnalysisInv. *)
WorkListInv ==
  /\ AnalysisInv /\ BodyOK /\ PredsOK /\ PhasesOK
  /\ WorkIsDead /\ LargestKept /\ NothingForgotten

-----------------------------------------------------------------------------
(* The largest element of a set of points, as bit_set_highest_set finds it. *)
LEMMA MaxProps ==
  ASSUME NEW n \in Nat, NEW S \in SUBSET (1..n), S # {}
  PROVE  Max(S) \in S /\ \A k \in S : k <= Max(S)
  <1> DEFINE T == {d \in Nat : n - d \in S}
  <1>1. T # {}
    <2>1. PICK k \in S : TRUE
      OBVIOUS
    <2>2. n - k \in Nat /\ n - (n - k) = k
      OBVIOUS
    <2>3. n - k \in T
      BY <2>2
    <2> QED BY <2>3
  <1>2. T \in SUBSET Nat
    OBVIOUS
  <1>3. PICK d \in T : \A e \in T : d <= e
    <2> HIDE DEF T
    <2> QED BY <1>1, <1>2, LeastNat
  <1>4. ASSUME NEW k \in S PROVE k <= n - d
    <2>1. n - k \in Nat /\ n - (n - k) = k
      OBVIOUS
    <2>2. d <= n - k
      BY <2>1, <1>3
    <2> QED BY <2>2, <2>1
  <1>5. n - d \in S
    OBVIOUS
  <1>6. \E x \in S : \A y \in S : x >= y
    BY <1>4, <1>5
  <1>7. Max(S) \in S /\ \A y \in S : Max(S) >= y
    BY <1>6 DEF Max
  <1> QED BY <1>7

(* A function body is a sequence of instructions, laid out in blocks. *)
LEMMA BodyProps ==
  ASSUME BodyOK
  PROVE  /\ Len(body) \in Nat
         /\ \A p \in Points : IsJump(p) => body[p].target \in Targets(body)
         /\ \A t \in Targets(body) \ {Ret} :
              t \in Points /\ t # 1 /\ (body[t - 1].op = "JMP" \/ t - 1 \in Unreached(body))
  <1>1. body \in Seq(ToSet(body)) /\ LaidOut(body)
    BY LiveRangesAssumption DEF BodyOK
  <1>2. Len(body) \in Nat
    BY <1>1
  <1>3. \A p \in Points : IsJump(p) => body[p].target \in Targets(body)
    BY DEF Targets, Points, IsJump
  <1> QED BY <1>1, <1>2, <1>3 DEF LaidOut, Points

(* Control does not come to unreached code from elsewhere. *)
LEMMA UnreachedStays ==
  ASSUME BodyOK, NEW p \in Points \ Unreached(body), NEW s \in Succ(p)
  PROVE  s \notin Unreached(body)
  <1> SUFFICES ASSUME s \in Unreached(body) PROVE FALSE
    OBVIOUS
  <1>1. Len(body) \in Nat
    BY BodyProps
  <1>2. s \in Points
    BY DEF Unreached, Points
  <1>3. PICK r \in 1..s - 1 : body[r].op = "JMP" /\ \A y \in r + 1..s : y \notin Targets(body)
    BY DEF Unreached
  <1>4. s \notin Targets(body)
    <2>1. s \in r + 1..s
      BY <1>1, <1>2 DEF Points
    <2> QED BY <2>1, <1>3
  <1>5. body[p].op # "JMP" /\ s = p + 1
    BY <1>4, BodyProps DEF Succ
  <1>6. r \in 1..p - 1
    <2>1. r # p
      BY <1>3, <1>5
    <2> QED BY <2>1, <1>1, <1>5 DEF Points
  <1>7. \A y \in r + 1..p : y \in r + 1..s
    BY <1>1, <1>5, <1>6 DEF Points
  <1> QED BY <1>3, <1>6, <1>7 DEF Unreached, Points

(* Where no two jumps share a target, a label has one jump to it. *)
LEMMA SinglePredsProps ==
  ASSUME BodyOK, SinglePreds, NEW p \in Points, NEW q \in Jumps(p), NEW r \in Jumps(p)
  PROVE  q = r
  <1> SUFFICES ASSUME q # r PROVE FALSE
    OBVIOUS
  <1>1. IsFiniteSet(Jumps(p))
    <2>1. IsFiniteSet(Points)
      BY BodyProps, FS_Interval DEF Points
    <2>2. Jumps(p) \subseteq Points
      BY DEF Jumps
    <2> QED BY <2>1, <2>2, FS_Subset
  <1>2. IsFiniteSet({q}) /\ Cardinality({q}) = 1
    BY FS_Singleton
  <1>3. IsFiniteSet({q} \cup {r}) /\ Cardinality({q} \cup {r}) = Cardinality({q}) + 1
    BY <1>2, FS_AddElement
  <1>4. {q} \cup {r} \subseteq Jumps(p)
    OBVIOUS
  <1>5. Cardinality({q} \cup {r}) <= Cardinality(Jumps(p))
    BY <1>1, <1>4, FS_Subset
  <1>6. Cardinality(Jumps(p)) <= 1 /\ Cardinality(Jumps(p)) \in Nat
    BY <1>1, FS_CardinalityType DEF SinglePreds
  <1> QED BY <1>2, <1>3, <1>5, <1>6

-----------------------------------------------------------------------------
(* What the equations make live from live points is live. *)
LEMMA EquationsStayLive ==
  ASSUME NEW S \in SUBSET LivePoints, NEW p \in Equations(S)
  PROVE  p \in LivePoints
  <1>1. p \in Points
    BY DEF Equations
  <1>2. ASSUME NEW T \in SUBSET Points, \A q \in Points \ T : q \notin Equations(T)
        PROVE  p \in T
    <2>1. S \subseteq T
      BY <1>2 DEF LivePoints
    <2>2. p \in Equations(T)
      BY <2>1 DEF Equations
    <2> QED BY <2>2, <1>1, <1>2
  <1> QED BY <1>1, <1>2 DEF LivePoints

(* A set of points that the equations do not leave holds the live points. *)
LEMMA SolutionHasLive ==
  ASSUME NEW S \in SUBSET Points, \A p \in Points \ S : p \notin Equations(S)
  PROVE  LivePoints \subseteq S
  BY DEF LivePoints

(* Where no two jumps share a target, Prev is the only point from which    *)
(* control comes to pc: the instruction above a label is a JMP, or is not  *)
(* reached.                                                                *)
LEMMA PrevIsOnly ==
  ASSUME TypeOK, BodyOK, PredsOK, SinglePreds, phase = "examine", pc \in Points,
         NEW p \in Points \ Unreached(body), pc \in Succ(p)
  PROVE  p = Prev
  <1>1. Len(body) \in Nat /\ i > Len(body) /\ i \in Int
    BY BodyProps DEF BodyOK, TypeOK
  <1>2. CASE IsJump(p) /\ body[p].target = pc
    <2>1. p \in Jumps(pc) /\ p < i
      BY <1>1, <1>2 DEF Jumps, Points
    <2>2. PICK q \in Jumps(pc) : preds[pc] = <<q>>
      BY <2>1 DEF PredsOK
    <2>3. p = q
      BY <2>1, SinglePredsProps
    <2>4. preds[pc] # <<>> /\ Head(preds[pc]) = q
      BY <2>2
    <2> QED BY <2>3, <2>4 DEF Prev
  <1>3. CASE body[p].op # "JMP" /\ pc = p + 1
    <2>1. Jumps(pc) = {}
      <3> SUFFICES ASSUME NEW q \in Jumps(pc) PROVE FALSE
        OBVIOUS
      <3>1. q \in Points /\ IsJump(q) /\ body[q].target = pc /\ pc # Ret
        BY <1>1 DEF Jumps, Points, Ret
      <3>2. body[pc - 1].op = "JMP" \/ pc - 1 \in Unreached(body)
        BY <3>1, BodyProps
      <3>3. pc - 1 = p
        BY <1>1, <1>3 DEF Points
      <3> QED BY <3>2, <3>3, <1>3
    <2>2. preds[pc] = <<>>
      BY <2>1 DEF PredsOK
    <2> QED BY <2>2, <1>1, <1>3 DEF Prev, Points
  <1> QED BY <1>2, <1>3 DEF Succ

-----------------------------------------------------------------------------
(* Before the analysis nothing is live and nothing is stored. *)
LEMMA InitWorkListInv ==
  ASSUME Init
  PROVE  WorkListInv
  <1>1. /\ body \in Programs /\ phase = "preds" /\ i = 1 /\ preds = [p \in Points |-> <<>>]
        /\ live = {} /\ work = {} /\ largest = None /\ pc = None /\ end = None
        /\ start = None
    BY DEF Init
  <1>2. BodyOK
    BY <1>1 DEF BodyOK
  <1>3. Len(body) \in Nat
    BY <1>2, BodyProps
  <1>4. start \in Points \cup {None}
    BY <1>1, <1>3, LiveRangesAssumption DEF Points, None
  <1>5. preds \in [Points -> Seq(Points)]
    <2>1. <<>> \in Seq(Points)
      BY EmptySeq
    <2> QED BY <2>1, <1>1
  <1>6. TypeOK
    BY <1>1, <1>3, <1>4, <1>5 DEF TypeOK
  <1>7. AnalysisInv
    BY <1>1, <1>6 DEF AnalysisInv, NeverTooLive, NoReexamine, LargestIsMax, SinglePredsRight,
      RangeCovers
  <1>8. PredsOK
    <2>1. \A p \in Points : p \in Nat /\ ~(p < 1)
      BY <1>3 DEF Points
    <2> QED BY <2>1, <1>1 DEF PredsOK, Jumps
  <1> QED BY <1>1, <1>2, <1>7, <1>8 DEF WorkListInv, PhasesOK, WorkIsDead, LargestKept,
        NothingForgotten

(* find_preds looks at one instruction: a jump becomes the only            *)
(* predecessor of its target.                                              *)
LEMMA FindPredKeeps ==
  ASSUME WorkListInv, FindPred
  PROVE  WorkListInv'
  <1>1. AnalysisInv /\ TypeOK /\ BodyOK /\ PredsOK /\ PhasesOK /\ WorkIsDead
    BY DEF WorkListInv, AnalysisInv
  <1>2. /\ phase = "preds" /\ i <= Len(body) /\ i' = i + 1
        /\ UNCHANGED <<input, phase, live, work, largest, pc, start, end>>
    BY DEF FindPred
  <1>3. Len(body) \in Nat /\ i \in Points /\ Points' = Points
    BY <1>1, <1>2, BodyProps DEF TypeOK, Points
  <1>4. \A p : Jumps(p)' = Jumps(p)
    BY <1>2, <1>3 DEF Jumps, IsJump
  <1>5. preds \in [Points -> Seq(Points)]
    BY <1>1 DEF TypeOK
  <1>6. \A p \in Points : \A q \in Jumps(p) : q < i + 1 => q < i \/ q = i
    BY <1>3 DEF Jumps, Points
  <1>7. preds' \in [Points -> Seq(Points)] /\ PredsOK'
    <2>1. CASE IsJump(i) /\ body[i].target # Ret
      <3> DEFINE t == body[i].target
      <3>1. t \in Points /\ i \in Jumps(t)
        BY <2>1, <1>1, <1>3, BodyProps DEF Jumps
      <3>2. Len(preds[t]) <= 1
        <4>1. preds[t] = <<>> \/ \E q \in Jumps(t) : preds[t] = <<q>>
          BY <3>1, <1>1 DEF PredsOK
        <4>2. CASE preds[t] = <<>>
          BY <4>2
        <4>3. CASE \E q \in Jumps(t) : preds[t] = <<q>>
          BY <4>3
        <4> QED BY <4>1, <4>2, <4>3
      <3>3. preds' = [preds EXCEPT ![t] = <<i>>]
        BY <2>1, <3>2 DEF FindPred, AddPred
      <3> HIDE DEF t
      <3>4. <<i>> \in Seq(Points) /\ <<i>> # <<>>
        BY <1>3
      <3>5. preds' \in [Points -> Seq(Points)]
        BY <3>3, <3>4, <1>5
      <3>6. ASSUME NEW p \in Points
            PROVE  /\ preds'[p] = <<>> \/ \E q \in Jumps(p) : preds'[p] = <<q>>
                   /\ \A q \in Jumps(p) : q < i + 1 => preds'[p] # <<>>
        <4>1. CASE p = t
          BY <4>1, <3>1, <3>3, <3>4, <1>5
        <4>2. CASE p # t
          <5>1. preds'[p] = preds[p]
            BY <4>2, <3>3, <1>5
          <5>2. i \notin Jumps(p)
            BY <4>2 DEF Jumps, t
          <5> QED BY <5>1, <5>2, <1>1, <1>6 DEF PredsOK
        <4> QED BY <4>1, <4>2
      <3> QED BY <3>5, <3>6, <1>2, <1>3, <1>4 DEF PredsOK
    <2>2. CASE ~(IsJump(i) /\ body[i].target # Ret)
      <3>1. preds' = preds
        BY <2>2 DEF FindPred
      <3>2. \A p \in Points : i \notin Jumps(p)
        BY <2>2, <1>3 DEF Jumps, Points, Ret
      <3>3. ASSUME NEW p \in Points, NEW q \in Jumps(p), q < i + 1 PROVE preds[p] # <<>>
        BY <3>2, <3>3, <1>1, <1>6 DEF PredsOK
      <3> QED BY <3>1, <3>3, <1>1, <1>2, <1>3, <1>4, <1>5 DEF PredsOK
    <2> QED BY <2>1, <2>2
  <1>8. TypeOK'
    <2>1. body' = body /\ i' \in 1..Len(body) + 1
      BY <1>2, <1>3 DEF Points
    <2>2. preds' \in [Points' -> Seq(Points')]
      BY <1>3, <1>7
    <2>3. /\ live' \in SUBSET Points' /\ work' \in SUBSET Points'
          /\ largest' \in Points' \cup {None} /\ pc' \in Points' \cup {None}
          /\ start' \in Points' \cup {None} /\ end' \in Points' \cup {None}
      BY <1>1, <1>2, <1>3 DEF TypeOK
    <2> QED BY <2>1, <2>2, <2>3, <1>2 DEF TypeOK
  <1>9. AnalysisInv'
    BY <1>1, <1>2, <1>8 DEF AnalysisInv, PhasesOK, NeverTooLive, NoReexamine, LargestIsMax,
      SinglePredsRight, RangeCovers
  <1> QED BY <1>1, <1>2, <1>7, <1>9 DEF WorkListInv, BodyOK, PhasesOK, WorkIsDead, LargestKept,
        NothingForgotten

(* The analysis starts with every point in the working set. *)
LEMMA StartAnalysisKeeps ==
  ASSUME WorkListInv, StartAnalysis
  PROVE  WorkListInv'
  <1>1. AnalysisInv /\ TypeOK /\ BodyOK /\ PredsOK /\ PhasesOK
    BY DEF WorkListInv, AnalysisInv
  <1>2. /\ phase = "preds" /\ i > Len(body) /\ phase' = "pick"
        /\ live' = {} /\ work' = Points /\ largest' = Len(body)
        /\ UNCHANGED <<input, i, preds, pc, start, end>>
    BY DEF StartAnalysis
  <1>3. Len(body) \in Nat /\ Points' = Points /\ \A p : Jumps(p)' = Jumps(p)
    BY <1>1, <1>2, BodyProps DEF Points, Jumps, IsJump
  <1>4. largest' \in Points \cup {None} /\ (Points # {} => largest' \in Points)
        /\ \A q \in Points : q <= largest'
    BY <1>2, <1>3 DEF Points, None
  <1>5. TypeOK'
    BY <1>1, <1>2, <1>3, <1>4 DEF TypeOK
  <1>6. LargestKept'
    BY <1>2, <1>4 DEF LargestKept
  <1>7. LargestIsMax'
    <2> SUFFICES ASSUME Points # {} PROVE largest' = Max(Points)
      BY <1>2 DEF LargestIsMax
    <2>1. Max(Points) \in Points /\ \A k \in Points : k <= Max(Points)
      BY <1>3, MaxProps DEF Points
    <2> QED BY <2>1, <1>3, <1>4 DEF Points
  <1>8. AnalysisInv'
    BY <1>2, <1>5, <1>7 DEF AnalysisInv, NeverTooLive, NoReexamine, SinglePredsRight, RangeCovers
  <1>9. PredsOK' /\ BodyOK' /\ PhasesOK' /\ WorkIsDead'
    BY <1>1, <1>2, <1>3 DEF PredsOK, BodyOK, PhasesOK, WorkIsDead
  <1>10. NothingForgotten'
    BY <1>2, <1>3 DEF NothingForgotten
  <1> QED BY <1>6, <1>8, <1>9, <1>10 DEF WorkListInv

(* The outer loop takes the largest point of the working set. *)
LEMMA PickPointKeeps ==
  ASSUME WorkListInv, PickPoint
  PROVE  WorkListInv'
  <1>1. AnalysisInv /\ TypeOK /\ BodyOK /\ PredsOK /\ PhasesOK /\ WorkIsDead /\ LargestKept
        /\ NothingForgotten /\ NeverTooLive
    BY DEF WorkListInv, AnalysisInv
  <1>2. /\ phase = "pick" /\ work # {} /\ phase' = "examine" /\ pc' = largest
        /\ UNCHANGED <<input, i, preds, live, work, largest, start, end>>
    BY DEF PickPoint
  <1>3. /\ Points' = Points /\ (\A p : Jumps(p)' = Jumps(p)) /\ (\A p : Succ(p)' = Succ(p))
        /\ (\A p : IsDef(p)' = IsDef(p)) /\ (\A p : IsUse(p)' = IsUse(p))
    BY <1>2 DEF Points, Jumps, IsJump, Succ, IsDef, IsUse
  <1>4. largest \in work /\ largest \in Points /\ largest \notin live
    BY <1>1, <1>2 DEF LargestKept, TypeOK, WorkIsDead
  <1>5. Equations(live)' = Equations(live) /\ LivePoints' = LivePoints /\ SinglePreds' = SinglePreds
    BY <1>2, <1>3 DEF Equations, LivePoints, SinglePreds
  <1>6. TypeOK'
    BY <1>1, <1>2, <1>3, <1>4 DEF TypeOK
  <1>7. AnalysisInv'
    BY <1>1, <1>2, <1>4, <1>5, <1>6 DEF AnalysisInv, NeverTooLive, NoReexamine, LargestIsMax,
      SinglePredsRight, RangeCovers
  <1>8. PredsOK' /\ BodyOK' /\ PhasesOK' /\ WorkIsDead' /\ LargestKept'
    BY <1>1, <1>2, <1>3, <1>4 DEF PredsOK, BodyOK, PhasesOK, WorkIsDead, LargestKept
  <1>9. NothingForgotten'
    BY <1>1, <1>2, <1>3, <1>5 DEF NothingForgotten
  <1> QED BY <1>7, <1>8, <1>9 DEF WorkListInv

(* A list of predecessors has at most one element, so the loop over the    *)
(* others is never entered.                                                *)
LEMMA NeverSpins ==
  ASSUME PredsOK, pc \in Points
  PROVE  ~Spins /\ Extra = {}
  <1>1. preds[pc] = <<>> \/ \E q \in Jumps(pc) : preds[pc] = <<q>>
    BY DEF PredsOK
  <1>2. CASE preds[pc] = <<>>
    BY <1>2 DEF Spins, Extra
  <1>3. CASE \E q \in Jumps(pc) : preds[pc] = <<q>>
    BY <1>3 DEF Spins, Extra
  <1> QED BY <1>1, <1>2, <1>3

(* One point is examined, and the analysis goes on with its predecessor or *)
(* returns to the working set.                                             *)
LEMMA ExamineKeeps ==
  ASSUME WorkListInv, Examine
  PROVE  WorkListInv'
  <1>1. AnalysisInv /\ TypeOK /\ BodyOK /\ PredsOK /\ PhasesOK /\ WorkIsDead /\ LargestKept
        /\ NothingForgotten /\ NeverTooLive /\ NoReexamine
    BY DEF WorkListInv, AnalysisInv
  <1>2. /\ phase = "examine" /\ pc \in Points /\ pc \notin live /\ end = None
        /\ UNCHANGED <<input, i, preds, start, end>>
    BY <1>1 DEF Examine, PhasesOK, NoReexamine
  <1>3. ~Spins /\ Extra = {}
    BY <1>1, <1>2, NeverSpins
  <1>4. /\ live' = IF LiveHere THEN live \cup {pc} ELSE live
        /\ work' = work \ {pc}
        /\ phase' = IF KeepGoing THEN "examine" ELSE "pick"
        /\ pc' = IF KeepGoing THEN Prev ELSE None
    BY <1>2, <1>3 DEF Examine
  <1>5. largest' = NextLargest
    <2>1. largest' = Max({NextLargest})
      BY <1>3 DEF Examine
    <2>2. NextLargest \in Int
      <3>1. Len(body) \in Nat
        BY <1>1, BodyProps
      <3>2. work \ {pc} # {} => Max(work \ {pc}) \in Points
        <4>1. work \ {pc} \in SUBSET (1..Len(body))
          BY <1>1 DEF TypeOK, Points
        <4> QED BY <4>1, <3>1, MaxProps DEF Points
      <3> QED BY <3>1, <3>2, <1>1 DEF TypeOK, NextLargest, Points, None
    <2>3. \A m \in Int : Max({m}) = m
      BY DEF Max
    <2> QED BY <2>1, <2>2, <2>3
  <1>6. /\ Points' = Points /\ (\A p : Jumps(p)' = Jumps(p)) /\ (\A p : Succ(p)' = Succ(p))
        /\ (\A p : IsDef(p)' = IsDef(p)) /\ (\A p : IsUse(p)' = IsUse(p))
    BY <1>2 DEF Points, Jumps, IsJump, Succ, IsDef, IsUse
  <1>7. LivePoints' = LivePoints /\ SinglePreds' = SinglePreds
        /\ \A S : Equations(S)' = Equations(S)
    BY <1>6 DEF Equations, LivePoints, SinglePreds
  <1>8. Len(body) \in Nat /\ work \in SUBSET Points /\ live \in SUBSET Points
    BY <1>1, BodyProps DEF TypeOK
  <1>9. LiveHere <=> pc \in Equations(live)
    BY <1>2 DEF LiveHere, Equations
  <1>10. NeverTooLive'
    <2>1. live \in SUBSET LivePoints
      BY <1>1 DEF NeverTooLive
    <2>2. LiveHere => pc \in LivePoints
      BY <2>1, <1>9, EquationsStayLive
    <2> QED BY <2>1, <2>2, <1>4, <1>7 DEF NeverTooLive
  <1>11. LargestKept'
    <2> SUFFICES ASSUME work \ {pc} # {}
                 PROVE  NextLargest \in work \ {pc} /\ \A q \in work \ {pc} : q <= NextLargest
      BY <1>4, <1>5 DEF LargestKept
    <2>1. largest \in work /\ \A q \in work : q <= largest
      BY <1>1, <1>2 DEF LargestKept
    <2>2. CASE pc = largest
      <3>1. work \ {pc} \in SUBSET (1..Len(body))
        BY <1>8 DEF Points
      <3> QED BY <2>2, <3>1, <1>8, MaxProps DEF NextLargest
    <2>3. CASE pc # largest
      BY <2>1, <2>3 DEF NextLargest
    <2> QED BY <2>2, <2>3
  <1>12. LargestIsMax'
    <2> SUFFICES ASSUME phase' = "pick", work' # {} PROVE largest' = Max(work')
      BY DEF LargestIsMax
    <2>1. largest' \in work' /\ \A q \in work' : q <= largest'
      BY <1>11 DEF LargestKept
    <2>2. work' \in SUBSET (1..Len(body))
      BY <1>4, <1>8 DEF Points
    <2>3. Max(work') \in work' /\ \A k \in work' : k <= Max(work')
      BY <2>2, <1>8, MaxProps
    <2>4. \A a, b \in work' : a <= b /\ b <= a => a = b
      BY <2>2, <1>8
    <2> QED BY <2>1, <2>3, <2>4
  <1>13. largest' \in Points \cup {None}
    <2>1. CASE work' = {}
      BY <2>1, <1>1, <1>4, <1>5 DEF TypeOK, NextLargest
    <2>2. CASE work' # {}
      BY <2>2, <1>4, <1>8, <1>11 DEF LargestKept
    <2> QED BY <2>1, <2>2
  <1>14. KeepGoing => Prev \in Points /\ Prev \notin live'
    <2> SUFFICES ASSUME KeepGoing PROVE Prev \in Points
      BY DEF KeepGoing
    <2>1. preds[pc] = <<>> \/ \E q \in Jumps(pc) : preds[pc] = <<q>>
      BY <1>1, <1>2 DEF PredsOK
    <2>2. CASE preds[pc] = <<>>
      <3>1. Prev = pc - 1 /\ Prev # 0
        BY <2>2 DEF KeepGoing, Prev, None
      <3> QED BY <3>1, <1>2, <1>8 DEF Points
    <2>3. CASE \E q \in Jumps(pc) : preds[pc] = <<q>>
      BY <2>3 DEF Prev, Jumps
    <2> QED BY <2>1, <2>2, <2>3
  <1>15. live' \in SUBSET Points /\ work' \in SUBSET Points /\ pc' \in Points \cup {None}
         /\ phase' \in {"pick", "examine"} /\ (phase' = "examine" => pc' \in Points)
    BY <1>2, <1>4, <1>8, <1>14
  <1>16. TypeOK'
    BY <1>1, <1>2, <1>6, <1>13, <1>15 DEF TypeOK
  <1>17. NoReexamine'
    BY <1>4, <1>14 DEF NoReexamine
  <1>18. AnalysisInv'
    BY <1>10, <1>12, <1>15, <1>16, <1>17 DEF AnalysisInv, SinglePredsRight, RangeCovers
  <1>19. PredsOK' /\ BodyOK' /\ PhasesOK' /\ WorkIsDead'
    <2>1. PredsOK'
      BY <1>1, <1>2, <1>6 DEF PredsOK
    <2>2. BodyOK'
      BY <1>1, <1>2 DEF BodyOK
    <2>3. PhasesOK'
      BY <1>2, <1>6, <1>15 DEF PhasesOK
    <2>4. WorkIsDead'
      BY <1>1, <1>4 DEF WorkIsDead
    <2> QED BY <2>1, <2>2, <2>3, <2>4
  <1>20. NothingForgotten'
    <2> SUFFICES ASSUME SinglePreds, NEW p \in Points \ Unreached(body), p \in Equations(live')
                 PROVE  p \in live' \/ p \in work' \/ (phase' = "examine" /\ p = pc')
      BY <1>2, <1>6, <1>7 DEF NothingForgotten
    <2>1. CASE p \in Equations(live)
      <3>1. p \in live \/ p \in work \/ p = pc
        BY <2>1, <1>1, <1>2 DEF NothingForgotten
      <3>2. CASE p = pc
        BY <3>2, <2>1, <1>4, <1>9
      <3>3. CASE p # pc
        BY <3>1, <3>3, <1>4
      <3> QED BY <3>2, <3>3
    <2>2. CASE p \notin Equations(live)
      <3>1. LiveHere /\ live' = live \cup {pc}
        BY <2>2, <1>4
      <3>2. pc \in Succ(p)
        BY <2>2, <3>1 DEF Equations
      <3>3. p = Prev
        BY <3>2, <1>1, <1>2, PrevIsOnly
      <3>4. p # None
        BY <1>8 DEF Points, None
      <3>5. KeepGoing \/ p \in live'
        BY <3>1, <3>3, <3>4 DEF KeepGoing
      <3> QED BY <3>3, <3>5, <1>4
    <2> QED BY <2>1, <2>2
  <1> QED BY <1>11, <1>18, <1>19, <1>20 DEF WorkListInv

(* When the working set is empty, the live points are those of the         *)
(* equations, and their hull is stored.                                    *)
LEMMA FinishKeeps ==
  ASSUME WorkListInv, Finish
  PROVE  WorkListInv'
  <1>1. AnalysisInv /\ TypeOK /\ BodyOK /\ PredsOK /\ PhasesOK /\ WorkIsDead
        /\ NothingForgotten /\ NeverTooLive
    BY DEF WorkListInv, AnalysisInv
  <1>2. /\ phase = "pick" /\ work = {} /\ phase' = "done" /\ end = None
        /\ start' = (IF start = None \/ start > Lowest THEN Lowest ELSE start)
        /\ end' = Highest
        /\ UNCHANGED <<input, i, preds, live, work, largest, pc>>
    BY <1>1 DEF Finish, StoreRange, PhasesOK
  <1>3. /\ Points' = Points /\ (\A p : Jumps(p)' = Jumps(p)) /\ (\A p : Succ(p)' = Succ(p))
        /\ (\A p : IsDef(p)' = IsDef(p)) /\ (\A p : IsUse(p)' = IsUse(p))
    BY <1>2 DEF Points, Jumps, IsJump, Succ, IsDef, IsUse
  <1>4. LivePoints' = LivePoints /\ SinglePreds' = SinglePreds /\ Equations(live)' = Equations(live)
    BY <1>2, <1>3 DEF Equations, LivePoints, SinglePreds
  <1>5. Len(body) \in Nat /\ live \in SUBSET (1..Len(body)) /\ Points = 1..Len(body)
    BY <1>1, BodyProps DEF TypeOK, Points
  <1>6. start \in Points \cup {None}
    BY <1>1 DEF TypeOK
  <1>7. SinglePreds => LivePoints \ Unreached(body) \subseteq live
    <2> SUFFICES ASSUME SinglePreds PROVE LivePoints \subseteq live \cup Unreached(body)
      OBVIOUS
    <2>1. Unreached(body) \subseteq Points
      BY DEF Unreached, Points
    <2>2. ASSUME NEW p \in Points \ (live \cup Unreached(body))
          PROVE  p \notin Equations(live \cup Unreached(body))
      <3>1. p \notin Equations(live)
        BY <1>1, <1>2 DEF NothingForgotten
      <3>2. \A s \in Succ(p) : s \notin Unreached(body)
        BY <1>1, UnreachedStays
      <3> QED BY <3>1, <3>2 DEF Equations
    <2> QED BY <2>1, <2>2, <1>5, SolutionHasLive
  <1>8. CASE live = {}
    <2>1. start' = None /\ end' = None
      BY <1>2, <1>5, <1>6, <1>8 DEF Lowest, Highest, None
    <2> QED
      <3>1. TypeOK'
        BY <1>1, <1>2, <1>3, <2>1 DEF TypeOK
      <3>2. SinglePredsRight'
        BY <2>1, <1>2, <1>4, <1>8, <1>7 DEF SinglePredsRight, RangeCovers
      <3>4. AnalysisInv'
        BY <3>1, <3>2, <1>1, <1>2, <1>4 DEF AnalysisInv, NeverTooLive, NoReexamine, LargestIsMax
      <3> QED BY <3>4, <1>1, <1>2, <1>3, <1>4 DEF WorkListInv, PredsOK, BodyOK, PhasesOK,
            WorkIsDead, LargestKept, NothingForgotten
  <1>9. CASE live # {}
    <2>1. Lowest \in live /\ \A k \in live : Lowest <= k
      BY <1>5, <1>9, MinProps DEF Lowest
    <2>2. Highest \in live /\ \A k \in live : k <= Highest
      BY <1>5, <1>9, MaxProps DEF Highest
    <2>3. start' \in Points /\ start' <= Lowest /\ end' \in Points
      BY <2>1, <2>2, <1>2, <1>5, <1>6 DEF None
    <2>4. \A k \in live : start' <= k /\ k <= end'
      <3> SUFFICES ASSUME NEW k \in live PROVE start' <= k /\ k <= end'
        OBVIOUS
      <3>1. Lowest <= k /\ k <= end'
        BY <2>1, <2>2, <1>2
      <3> QED BY <3>1, <2>1, <2>3, <1>5
    <2>5. start' # None /\ end' # None
      BY <2>3, <1>5 DEF None
    <2>6. TypeOK'
      BY <2>3, <1>1, <1>2, <1>3 DEF TypeOK
    <2>7. SinglePredsRight'
      BY <2>4, <2>5, <1>2, <1>4, <1>9, <1>7 DEF SinglePredsRight, RangeCovers
    <2>8. AnalysisInv'
      BY <2>6, <2>7, <1>1, <1>2, <1>4 DEF AnalysisInv, NeverTooLive, NoReexamine, LargestIsMax
    <2> QED BY <2>8, <1>1, <1>2, <1>3, <1>4 DEF WorkListInv, PredsOK, BodyOK, PhasesOK,
            WorkIsDead, LargestKept, NothingForgotten
  <1> QED BY <1>8, <1>9

-----------------------------------------------------------------------------
(***************************************************************************)
(* What the work list keeps true: the list is never walked past its first  *)
(* predecessor, and what the equations make live is live, waits, or is     *)
(* being looked at.                                                        *)
(***************************************************************************)
THEOREM WorkListIsSound == Spec => []WorkListInv
  <1>1. Init => WorkListInv
    BY InitWorkListInv
  <1>2. ASSUME WorkListInv, [Next]_vars PROVE WorkListInv'
    <2>1. CASE FindPred
      BY <2>1, <1>2, FindPredKeeps
    <2>2. CASE StartAnalysis
      BY <2>2, <1>2, StartAnalysisKeeps
    <2>3. CASE PickPoint
      BY <2>3, <1>2, PickPointKeeps
    <2>4. CASE Examine
      BY <2>4, <1>2, ExamineKeeps
    <2>5. CASE Finish
      BY <2>5, <1>2, FinishKeeps
    <2>6. CASE UNCHANGED vars
      <3>1. /\ Points' = Points /\ (\A p : Jumps(p)' = Jumps(p)) /\ (\A p : Succ(p)' = Succ(p))
            /\ (\A p : IsDef(p)' = IsDef(p)) /\ (\A p : IsUse(p)' = IsUse(p))
        BY <2>6 DEF vars, Points, Jumps, IsJump, Succ, IsDef, IsUse
      <3>2. LivePoints' = LivePoints /\ SinglePreds' = SinglePreds
            /\ Equations(live)' = Equations(live)
        BY <2>6, <3>1 DEF vars, Equations, LivePoints, SinglePreds
      <3>3. AnalysisInv'
        BY <2>6, <3>1, <3>2, <1>2 DEF vars, WorkListInv, AnalysisInv, TypeOK, NeverTooLive,
          NoReexamine, LargestIsMax, SinglePredsRight, RangeCovers
      <3> QED BY <2>6, <3>1, <3>2, <3>3, <1>2 DEF vars, WorkListInv, PredsOK, BodyOK, PhasesOK,
            WorkIsDead, LargestKept, NothingForgotten
    <2> QED BY <2>1, <2>2, <2>3, <2>4, <2>5, <2>6, <1>2 DEF Next, Stopped
  <1> QED BY <1>1, <1>2, PTL DEF Spec

(***************************************************************************)
(* The analysis never calls a dead point live nor looks at a live point    *)
(* again, its cached maximum is right when it is read, and where no two    *)
(* jumps share a target it finds exactly the live points and stores a      *)
(* range that covers them, for every function body laid out in blocks.     *)
(***************************************************************************)
THEOREM AnalysisIsRight == Spec => []AnalysisInv
  <1>1. WorkListInv => AnalysisInv
    BY DEF WorkListInv
  <1> QED BY <1>1, WorkListIsSound, PTL
=============================================================================
