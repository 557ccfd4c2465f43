----------------------------- MODULE MCLibrary ------------------------------
(***************************************************************************)
(* The library code that everything else stands on, in three views: the    *)
(* heap (Allocator), streams and formatted output (Stdio), containers      *)
(* (Containers).  They share no state; in a view the others stay as they   *)
(* start.                                                                  *)
(***************************************************************************)
EXTENDS Allocator, Stdio, Containers

CONSTANTS MaxEntries,       \* bound: entries carved so far
          MaxAfterFailure   \* the same, once mmap has failed

VARIABLE view

libraryVars == <<view, vars, streamVars, containerVars>>

ContainersRest == box = pool_init /\ abs = <<>>

LibraryInit ==
  \/ view = "heap" /\ Init /\ StreamInit /\ ContainersRest
  \/ view = "streams" /\ Init /\ StreamInit /\ ContainersRest
  \/ view = "containers" /\ Init /\ StreamInit /\ ContainerInit

LibraryNext ==
  \/ view = "heap" /\ Next /\ UNCHANGED <<view, streamVars, containerVars>>
  \/ view = "streams" /\ StreamNext /\ UNCHANGED <<view, vars, containerVars>>
  \/ view = "containers" /\ ContainerNext /\ UNCHANGED <<view, vars, streamVars>>

LibrarySpec == LibraryInit /\ [][LibraryNext]_libraryVars

FewEntries == Cardinality(Entries) <= IF failed THEN MaxAfterFailure ELSE MaxEntries

-----------------------------------------------------------------------------
(* Formats: literal text, the conversions, with int of 6 and long of 8 bits *)
(* at their ends, and pairs of some.                                        *)
Number(k, n) == [k |-> k, n |-> n]
Items ==
  {[k |-> "text", bytes |-> <<113>>], [k |-> "text", bytes |-> <<>>], [k |-> "text", bytes |-> <<114, 115, 116>>],
   Number("d", -32), Number("d", 0), Number("u", 10), Number("u", 63), Number("x", 31), Number("x", 16),
   Number("ld", -128), Number("ld", 100), Number("lu", 255), [k |-> "other"], [k |-> "l?"], [k |-> "end"]}
MCFormats ==
  {<<>>} \cup {<<x>> : x \in Items}
    \cup {<<x, y>> : x, y \in {[k |-> "text", bytes |-> <<113>>], Number("d", -32), Number("x", 31), [k |-> "end"]}}
MCFileBytes == <<1, 2, 3, 4, 5>>
=============================================================================
