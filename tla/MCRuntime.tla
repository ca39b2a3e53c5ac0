----------------------------- MODULE MCRuntime -----------------------------
(***************************************************************************)
(* Runtime for TLC.  The argument lists are those whose paths come close to *)
(* each other: a vector before and behind a plain argument that is one of   *)
(* its coordinates, and two vectors in the same place, of which the second  *)
(* drops what is filed for the first.                                       *)
(***************************************************************************)
EXTENDS Runtime

Vector(x, y) == <<"vector", x, y>>
Other(a) == <<"other", a>>

Args == [f \in Functs |->
           IF f \in Forever THEN {<<Vector("a", "b")>>}
           ELSE {<<Vector("a", "b"), Other("a")>>, <<Other("a"), Vector("b", "a")>>,
                 <<Vector("b", "b"), Other("a")>>}]
=============================================================================
