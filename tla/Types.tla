------------------------------- MODULE Types -------------------------------
(***************************************************************************)
(* The data types the type checker works with (src/vm/types.zig): type     *)
(* names, function signatures and the compiler's error set.                *)
(***************************************************************************)
EXTENDS Integers, Sequences

CONSTANTS
  Names,        \* the identifiers a program may use
  Types,        \* the type names the programs of an instance mention
  ParamLists,   \* the parameter lists their functions may have
  None          \* Zig's null, for every optional

TypeName == {"i32", "i64", "u32", "u64", "f64", "String", "Bool", "Undefined"}

isNumeric(type) == type \in {"i32", "i64", "u32", "u64", "f64"}

isInteger(type) == type \in {"i32", "i64", "u32", "u64"}

Param == [nam : Names, type_name : Types, is_mut : BOOLEAN]

FunctionSignature == [params : ParamLists, return_type : Types \cup {None}]

CompileErrors ==
  {"ArgumentCountMismatch", "AssignmentIsBorrowed", "BorrowConflictImmutable",
   "BorrowConflictMutable", "IfElseTypeMismatch", "ImmutableAssignment",
   "InvalidOperation", "MutationOfImmutable", "OutOfMemory",
   "ReadOfMutablyBorrowed", "ShortLivedBorrow", "SymbolAlreadyDeclared",
   "TypeMismatch", "UnboundName", "UnimplementedAstNode",
   "UnimplementedInstruction"}

\* The unit value is typed Undefined and a comparison Bool, whatever the
\* program mentions.
ASSUME TypesAssumption ==
  /\ Types \subseteq TypeName
  /\ {"Undefined", "Bool"} \subseteq Types

ASSUME ParamListsAssumption == ParamLists \subseteq Seq(Param)

ASSUME NoneAssumption ==
  /\ None \notin Nat
  /\ None \notin Names
  /\ None \notin TypeName
  /\ None \notin FunctionSignature
  /\ None \notin CompileErrors
=============================================================================
