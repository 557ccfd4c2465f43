------------------------------ MODULE MCDriver ------------------------------
(* Driver with two processes: one that links two sources, one that is given *)
(* any of the command lines below.                                          *)
EXTENDS Driver

Flag(name) == [t |-> "flag", name |-> name]
Out(path) == [t |-> "flag", name |-> "-o", path |-> path]
Src(dir, base) == [t |-> "source", dir |-> dir, base |-> base]
Obj(path) == [t |-> "object", path |-> path]
Missing == [t |-> "absent"]

MCRandCycle == [n \in 1..6 |-> <<"tmp", n>>]
MCLeftovers == {{}, {<<"tmp", 2>>}, TempNames}

A == Src("", "a.c")
B == Src("", "b.c")

MCCommandLines ==
  [q \in Procs |->
     IF q = "ncc1" THEN {<<Src("", "x.c"), Obj(<<"y.o">>), Src("", "z.c"), Out(<<"prog1">>)>>}
     ELSE {pre \o post : pre \in {<<>>, <<Flag("-c")>>, <<Flag("-E")>>, <<Flag("-fsyntax-only")>>,
                                  <<Flag("-ffreestanding")>>, <<Flag("-x")>>, <<Flag("--version")>>,
                                  <<Flag("-std=c11")>>, <<Flag("ignored")>>, <<Flag("-c"), Flag("-E")>>},
                         post \in {<<>>, <<A>>, <<A, B, Out(<<"prog">>)>>, <<Obj(<<"c.o">>), A, Out(<<"prog">>)>>,
                                  <<A, B>>, <<Missing>>}}]
=============================================================================
