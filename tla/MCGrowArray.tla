----------------------------- MODULE MCGrowArray -----------------------------
(* Small instances of GrowArray; ParamWords and FuncDataWords are the sizes   *)
(* of Param and FuncData on a 64-bit machine.                                 *)
EXTENDS GrowArray

Everything == {"list", "func", "tuple"}
ListsAndFunctions == {"list", "func"}

\* An empty arena, and one that a tuple assignment nested in another can fill to the
\* last word.
MCTaken == {0, 51}
NoneTaken == {0}
==============================================================================
