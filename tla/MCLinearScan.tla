---------------------------- MODULE MCLinearScan ----------------------------
(***************************************************************************)
(* LinearScan on two general and one vector register, and on the ranges of *)
(* one call that takes and returns a float.                                *)
(***************************************************************************)
EXTENDS LinearScan, TLC

CONSTANTS a, b, x, v1, v2, v3

MCIntOrder == <<a, b>>
MCFloatOrder == <<x>>
(***************************************************************************)
(* y = f(x) with float f(float), as gen_call leaves it: MOV arg, x at 1;   *)
(* CALL at 2; MOV temp, result at 3.  arg and result are pinned to XMM0.   *)
(***************************************************************************)
FloatCallInit ==
  /\ start = (v1 :> 1 @@ v2 :> 2 @@ v3 :> 3) /\ end = (v1 :> 2 @@ v2 :> 3 @@ v3 :> 3)
  /\ type = [v \in VRegs |-> "float"]
  /\ pre = (v1 :> x @@ v2 :> x @@ v3 :> NoReg)
  /\ Init

FloatCallSpec == FloatCallInit /\ [][Next]_vars

Symmetric == Permutations(VRegs)
=============================================================================
