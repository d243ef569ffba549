--------------------------- MODULE MCTypeChecker ---------------------------
(* Every small program, through the checker. *)
EXTENDS TypeChecker

CONSTANTS x

BoolParam(name) == [nam |-> name, type_name |-> "Bool", is_mut |-> FALSE]

\* No parameters, or one that shadows an outer name.
MCParamLists == {<<>>, <<BoolParam(x)>>}

\* For calls, two parameters as well; a body that declares both fails at the second.
MCCallParamLists == MCParamLists \cup {<<BoolParam(x), BoolParam(x)>>}
=============================================================================
