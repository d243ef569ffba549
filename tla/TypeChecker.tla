---------------------------- MODULE TypeChecker ----------------------------
(***************************************************************************)
(* The recursive type and borrow checker (src/vm/type_checker.zig), run on *)
(* every program of the instance at once: the AST is chosen node by node   *)
(* as check descends into it.                                              *)
(*                                                                         *)
(* The recursion is a stack of activations, one for each check function    *)
(* that waits for the result of a check it called.  mode says what happens *)
(* next:                                                                   *)
(*   "init"   TypeChecker.init is about to push the global frame           *)
(*   "check"  check is called on a node that is still to be chosen         *)
(*   "return" a check has returned result to the innermost activation      *)
(*   "body"   checkFunc is between its declaration and its body            *)
(*   "raise"  the error err propagates, running the defers on its way      *)
(*   "halt"   check has returned to compileProgram                         *)
(*   "exit"   the process has exited without running TypeChecker.deinit    *)
(*   "abort"  a use of freed memory has stopped the process                *)
(***************************************************************************)
EXTENDS TypeEnvironment, FiniteSets

CONSTANTS
  Kinds,       \* the kinds of AST node the programs of an instance use
  MaxNodes     \* bound: the AST nodes checked before only literals and empty
               \* blocks follow

ASSUME MaxNodesAssumption == MaxNodes \in Nat

VARIABLES stack, mode, result, err, fuel

checker == <<stack, mode, result, err, fuel>>
vars == <<frames, stack, mode, result, err, fuel>>

-----------------------------------------------------------------------------
(* Results and activations *)

\* What the callers of check read of the SymbolInfo it returns.  is_ref_mut
\* is never set without is_reference.
Result ==
  [type_name : Types, is_reference : BOOLEAN,
   declaration_lifetime : LifetimeId \cup {None}]

Value(type) ==
  [type_name |-> type, is_reference |-> FALSE,
   declaration_lifetime |-> currentLifetime]

createRef(type) == [Value(type) EXCEPT !.is_reference = TRUE]

unit == [type_name |-> "Undefined", is_reference |-> FALSE,
         declaration_lifetime |-> None]

Of(symbol) ==
  [type_name |-> symbol.type_name, is_reference |-> FALSE,
   declaration_lifetime |-> symbol.declaration_lifetime]

\* Where an activation waits: the check function and which of its calls.
Sites ==
  {"logic first", "logic second", "comp first", "comp second",
   "arith first", "arith second", "seq", "assign", "reassign", "blk",
   "fun enter", "fun params", "fun", "app", "compound",
   "cond pred", "cond cons", "cond alt"}

\* The locals that are read after the call: a name, the mutability of a let,
\* a type (of the first operand, the annotation, the declared return), the
\* parameters still to be matched or bound, and whether the operator of an
\* arithmetic expression is integer-only or a call is a function with value.
Activation ==
  [site : Sites, name : Names \cup {None}, is_mut : BOOLEAN,
   type : Types \cup {None}, params : Seq(Param), int_only : BOOLEAN]

At(site) ==
  [site |-> site, name |-> None, is_mut |-> FALSE, type |-> None,
   params |-> <<>>, int_only |-> FALSE]

\* The activations whose return runs popFrame.
OwnsFrame(activation) == activation.site \in {"blk", "fun params", "fun"}

top == stack[Len(stack)]
callers == SubSeq(stack, 1, Len(stack) - 1)

Call(activation) ==
  /\ mode' = "check"
  /\ stack' = Append(stack, activation)
  /\ UNCHANGED <<result, err>>

Return(value) ==
  /\ mode' = "return"
  /\ result' = value
  /\ UNCHANGED <<stack, err>>

Raise(error) ==
  /\ mode' = "raise"
  /\ err' = error
  /\ result' = unit
  /\ UNCHANGED stack

\* A leaf of check: the value, or the error if there is one.
Answer(error, value) == IF error = None THEN Return(value) ELSE Raise(error)

-----------------------------------------------------------------------------
(* Which nodes the parser puts where (src/parser/gen_parse_tree.py) *)

Expressions ==
  {"lit", "nam", "unimplemented", "borrow", "borrow_mut", "logic", "comp",
   "arith", "blk", "reassign", "compound_assign", "app", "cond"}

ASSUME KindsAssumption ==
  /\ {"lit", "seq", "blk"} \subseteq Kinds
  /\ Kinds \subseteq Expressions \cup {"seq", "assign", "fun"}

\* main.zig compiles blk{seq{functions}}, the unit tests a bare seq.
InCrate == Len(stack) = 2 /\ stack[1].site = "blk"

Expected ==
  IF stack = <<>> THEN IF "fun" \in Kinds THEN {"seq", "blk"} ELSE {"seq"}
  ELSE CASE top.site \in {"blk", "fun"} -> {"seq"}
         [] top.site = "seq" -> IF InCrate THEN {"fun"} ELSE Expressions \cup {"assign", "fun"}
         [] top.site = "cond cons" -> {"blk"}
         [] top.site = "cond alt" -> {"blk", "cond"}
         [] OTHER -> Expressions

\* Once the bound is used up, only literals and empty blocks are chosen.
Node(kind) ==
  /\ mode = "check"
  /\ kind \in Expected \cap Kinds
  /\ fuel > 0 \/ kind \in {"lit", "seq", "blk"}
  /\ fuel' = IF fuel > 0 THEN fuel - 1 ELSE 0

\* The result of the call that the activation at site waits for.
Resume(site) ==
  /\ mode = "return"
  /\ stack # <<>>
  /\ top.site = site
  /\ UNCHANGED fuel

Continue(activation) ==
  /\ mode' = "check"
  /\ stack' = Append(callers, activation)
  /\ result' = unit
  /\ UNCHANGED err

Finish(value) ==
  /\ mode' = "return"
  /\ stack' = callers
  /\ result' = value
  /\ UNCHANGED err

Conclude(error, value) == IF error = None THEN Finish(value) ELSE Raise(error)

NextCall(error, activation) ==
  IF error = None THEN Continue(activation) ELSE Raise(error)

-----------------------------------------------------------------------------
(* Literals, names and operators *)

\* No program spells the type Undefined.
Written == Types \ {"Undefined"}

checkLit ==
  /\ Node("lit")
  /\ \E type \in Written : Return(Value(type))
  /\ UNCHANGED frames

checkValError(name) ==
  IF ~Bound(name) THEN "UnboundName"
  ELSE IF lookup(name).active_mutable_borrow # None THEN "ReadOfMutablyBorrowed"
  ELSE None

checkVal(name) ==
  /\ Node("nam")
  /\ Answer(checkValError(name), Of(lookup(name)))
  /\ UNCHANGED frames

\* deref, neg, question, type_cast, while_loop, return, continue and break.
Unimplemented ==
  /\ Node("unimplemented")
  /\ Raise("UnimplementedAstNode")
  /\ UNCHANGED frames

\* expectType(Bool) on a result.
notBoolean == IF result.type_name = "Bool" THEN None ELSE "TypeMismatch"

notNumeric == IF isNumeric(result.type_name) THEN None ELSE "TypeMismatch"

checkLogic == Node("logic") /\ Call(At("logic first")) /\ UNCHANGED frames

LogicFirst ==
  /\ Resume("logic first")
  /\ NextCall(notBoolean, At("logic second"))
  /\ UNCHANGED frames

LogicSecond ==
  /\ Resume("logic second")
  /\ Conclude(notBoolean, Value("Bool"))
  /\ UNCHANGED frames

checkComp == Node("comp") /\ Call(At("comp first")) /\ UNCHANGED frames

CompFirst ==
  /\ Resume("comp first")
  /\ Continue([At("comp second") EXCEPT !.type = result.type_name])
  /\ UNCHANGED frames

CompSecond ==
  /\ Resume("comp second")
  /\ Conclude(IF top.type # result.type_name THEN "TypeMismatch"
              ELSE IF top.type = "Undefined" THEN "InvalidOperation"
              ELSE None,
              Value("Bool"))
  /\ UNCHANGED frames

checkArith ==
  /\ Node("arith")
  /\ \E int_only \in BOOLEAN : Call([At("arith first") EXCEPT !.int_only = int_only])
  /\ UNCHANGED frames

ArithFirst ==
  /\ Resume("arith first")
  /\ NextCall(notNumeric, [top EXCEPT !.site = "arith second",
                                      !.type = result.type_name])
  /\ UNCHANGED frames

ArithSecond ==
  /\ Resume("arith second")
  /\ Conclude(IF notNumeric # None THEN notNumeric
              ELSE IF top.type # result.type_name THEN "TypeMismatch"
              ELSE IF top.int_only /\ ~isInteger(top.type) THEN "InvalidOperation"
              ELSE None,
              Value(result.type_name))
  /\ UNCHANGED frames

-----------------------------------------------------------------------------
(* Sequences, blocks, declarations and assignments *)

checkSeq ==
  /\ Node("seq")
  /\ \/ Return(unit)
     \/ fuel' > 0 /\ Call(At("seq"))
  /\ UNCHANGED frames

\* Fault: the loop never gets to its last statement.
SeqStatementForever ==
  /\ Resume("seq")
  /\ Continue(top)
  /\ UNCHANGED frames

SeqStatement ==
  /\ Resume("seq")
  /\ \/ Finish(result)
     \/ fuel > 0 /\ Continue(top)
  /\ UNCHANGED frames

checkAssign ==
  /\ Node("assign")
  /\ \E name \in Names, mutable \in BOOLEAN, annotation \in Written \cup {None} :
       Call([At("assign") EXCEPT !.name = name, !.is_mut = mutable,
                                 !.type = annotation])
  /\ UNCHANGED frames

assignError ==
  IF top.type \notin {None, result.type_name} THEN "TypeMismatch"
  ELSE IF DeclaredHere(top.name) THEN "SymbolAlreadyDeclared"
  ELSE None

\* Fault: the binding takes the lifetime of its initialiser.
AssignValueAndLifetime ==
  /\ Resume("assign")
  /\ Conclude(assignError, unit)
  /\ IF assignError = None
       THEN addBinding(top.name, create(result.type_name, top.is_mut,
                                        result.declaration_lifetime))
       ELSE UNCHANGED frames

\* The binding keeps the type of its initialiser, not that it is a reference.
AssignValue ==
  /\ Resume("assign")
  /\ Conclude(assignError, unit)
  /\ IF assignError = None
       THEN addBinding(top.name, create(result.type_name, top.is_mut, currentLifetime))
       ELSE UNCHANGED frames

\* Fault: the borrows of the target are not looked at.
reassignErrorOfBorrowed(name) ==
  IF checkValError(name) # None THEN checkValError(name)
  ELSE IF ~lookup(name).is_mut THEN "MutationOfImmutable"
  ELSE None

\* The borrows and the mutability of the target are read before the new
\* value is checked.
reassignError(name) ==
  IF checkValError(name) # None THEN checkValError(name)
  ELSE IF lookup(name).active_immutable_borrows # {} THEN "AssignmentIsBorrowed"
  ELSE IF ~lookup(name).is_mut THEN "MutationOfImmutable"
  ELSE None

checkReassign(name) ==
  /\ Node("reassign")
  /\ IF reassignError(name) = None
       THEN Call([At("reassign") EXCEPT !.name = name,
                                        !.type = lookup(name).type_name])
       ELSE Raise(reassignError(name))
  /\ UNCHANGED frames

ReassignValue ==
  /\ Resume("reassign")
  /\ Conclude(IF top.type # result.type_name THEN "TypeMismatch" ELSE None, unit)
  /\ UNCHANGED frames

checkCompoundAssign ==
  /\ Node("compound_assign")
  /\ Call(At("compound"))
  /\ UNCHANGED frames

compoundError(name) ==
  IF checkValError(name) # None THEN checkValError(name)
  ELSE IF ~lookup(name).is_mut THEN "ImmutableAssignment"
  ELSE IF ~isNumeric(lookup(name).type_name) \/ notNumeric # None THEN "TypeMismatch"
  ELSE IF lookup(name).type_name # result.type_name THEN "TypeMismatch"
  ELSE None

\* The target is looked up after the right-hand side has been checked.
CompoundTarget(name) ==
  /\ Resume("compound")
  /\ Conclude(compoundError(name), unit)
  /\ UNCHANGED frames

\* Assignments and borrows of anything but a name.
NotAVariable ==
  /\ \/ Node("reassign") \/ Node("borrow") \/ Node("borrow_mut")
     \/ Resume("compound")
  /\ Raise("InvalidOperation")
  /\ UNCHANGED frames

checkBlk ==
  /\ Node("blk")
  /\ Call(At("blk"))
  /\ pushFrame

BlkBody ==
  /\ Resume("blk")
  /\ Finish(result)
  /\ popFrame

-----------------------------------------------------------------------------
(* Conditionals *)

checkCond == Node("cond") /\ Call(At("cond pred")) /\ UNCHANGED frames

CondPred ==
  /\ Resume("cond pred")
  /\ NextCall(notBoolean, At("cond cons"))
  /\ UNCHANGED frames

CondCons ==
  /\ Resume("cond cons")
  /\ \/ Continue([At("cond alt") EXCEPT !.type = result.type_name])
     \/ Finish(unit)
  /\ UNCHANGED frames

CondAlt ==
  /\ Resume("cond alt")
  /\ Conclude(IF top.type # result.type_name THEN "IfElseTypeMismatch" ELSE None,
              Value(top.type))
  /\ UNCHANGED frames

-----------------------------------------------------------------------------
(* Functions and calls *)

\* The function is bound in the enclosing scope before its body is checked.
checkFunc ==
  /\ Node("fun")
  /\ \E name \in Names, params \in ParamLists, return_type \in Written \cup {None},
        body \in BOOLEAN :
       IF DeclaredHere(name)
         THEN /\ Raise("SymbolAlreadyDeclared")
              /\ UNCHANGED frames
         ELSE /\ addBinding(name, createFunc([params |-> params,
                                              return_type |-> return_type],
                                             currentLifetime))
              /\ IF body
                   THEN /\ mode' = "body"
                        /\ stack' = Append(stack, [At("fun enter") EXCEPT
                             !.name = name, !.type = return_type, !.params = params])
                        /\ UNCHANGED <<result, err>>
                   ELSE Return(unit)

FuncEnter ==
  /\ mode = "body"
  /\ top.site = "fun enter"
  /\ stack' = Append(callers, [top EXCEPT !.site = "fun params"])
  /\ pushFrame
  /\ UNCHANGED <<mode, result, err, fuel>>

\* Parameters and body share the function's frame.
FuncParam ==
  /\ mode = "body"
  /\ top.site = "fun params"
  /\ top.params # <<>>
  /\ LET param == Head(top.params)
     IN  IF DeclaredHere(param.nam)
           THEN /\ Raise("SymbolAlreadyDeclared")
                /\ UNCHANGED frames
           ELSE /\ addBinding(param.nam,
                     create(param.type_name, param.is_mut, currentLifetime))
                /\ stack' = Append(callers, [top EXCEPT !.params = Tail(top.params)])
                /\ UNCHANGED <<mode, result, err>>
  /\ UNCHANGED fuel

FuncBody ==
  /\ mode = "body"
  /\ top.site = "fun params"
  /\ top.params = <<>>
  /\ Continue([top EXCEPT !.site = "fun"])
  /\ UNCHANGED <<frames, fuel>>

\* On a mismatch the frame is popped as the error propagates.
FuncReturn ==
  /\ Resume("fun")
  /\ LET matches == top.type \in {None, result.type_name}
     IN  /\ Conclude(IF matches THEN None ELSE "TypeMismatch", unit)
         /\ IF matches THEN popFrame ELSE UNCHANGED frames

callValue(return_type) == IF return_type = None THEN unit ELSE Value(return_type)

appError(name) ==
  IF ~Bound(name) THEN "UnboundName"
  ELSE IF lookup(name).func_sig = None THEN "InvalidOperation"
  ELSE None

checkApp(name) ==
  /\ Node("app")
  /\ IF appError(name) # None
       THEN Raise(appError(name))
       ELSE LET signature == lookup(name).func_sig
            IN  \/ Raise("ArgumentCountMismatch")
                \/ /\ signature.params = <<>>
                   /\ Return(callValue(signature.return_type))
                \/ /\ signature.params # <<>>
                   /\ Call([At("app") EXCEPT !.name = name,
                              !.type = signature.return_type,
                              !.params = signature.params])
  /\ UNCHANGED frames

argumentError ==
  IF result.type_name # Head(top.params).type_name THEN "TypeMismatch"
  ELSE IF result.is_reference /\ result.declaration_lifetime > currentLifetime
         THEN "ShortLivedBorrow"
  ELSE None

\* Fault: one argument more than there are parameters.
AppArgumentTooMany ==
  /\ Resume("app")
  /\ NextCall(argumentError, [top EXCEPT !.params = Tail(top.params)])
  /\ UNCHANGED frames

AppArgument ==
  /\ Resume("app")
  /\ IF Len(top.params) > 1
       THEN NextCall(argumentError, [top EXCEPT !.params = Tail(top.params)])
       ELSE Conclude(argumentError, callValue(top.type))
  /\ UNCHANGED frames

-----------------------------------------------------------------------------
(* Borrows *)

borrowError(name) ==
  IF checkValError(name) # None THEN checkValError(name)
  ELSE IF lookup(name).declaration_lifetime > currentLifetime THEN "ShortLivedBorrow"
  ELSE IF lookup(name).active_mutable_borrow # None THEN "InvalidOperation"
  ELSE incrementImmutableBorrowError(name)

borrowMutError(name) ==
  IF checkValError(name) # None THEN checkValError(name)
  ELSE IF lookup(name).declaration_lifetime > currentLifetime THEN "ShortLivedBorrow"
  ELSE IF ~lookup(name).is_mut THEN "MutationOfImmutable"
  ELSE IF lookup(name).active_mutable_borrow # None THEN "InvalidOperation"
  ELSE IF lookup(name).active_immutable_borrows # {} THEN "InvalidOperation"
  ELSE setMutableBorrowError(name)

\* Once checkVal has returned a copy, every way out frees it.
checkBorrow(name) ==
  /\ Node("borrow")
  /\ Answer(borrowError(name), createRef(lookup(name).type_name))
  /\ IF borrowError(name) = None THEN incrementImmutableBorrow(name)
     ELSE IF checkValError(name) = None THEN RefusedBorrow(name)
     ELSE UNCHANGED frames

checkBorrowMut(name) ==
  /\ Node("borrow_mut")
  /\ Answer(borrowMutError(name), createRef(lookup(name).type_name))
  /\ IF borrowMutError(name) = None THEN setMutableBorrow(name)
     ELSE IF checkValError(name) = None THEN RefusedBorrow(name)
     ELSE UNCHANGED frames

-----------------------------------------------------------------------------
(* Start, error propagation and the end of a run *)

Init ==
  /\ EnvInit
  /\ stack = <<>>
  /\ mode = "init"
  /\ result = unit
  /\ err = None
  /\ fuel = MaxNodes

Start ==
  /\ mode = "init"
  /\ mode' = "check"
  /\ pushFrame
  /\ UNCHANGED <<stack, result, err, fuel>>

\* Fault: checkFunc has no defer.
UnwindBlocks ==
  /\ mode = "raise"
  /\ stack # <<>>
  /\ stack' = callers
  /\ IF top.site = "blk" THEN popFrame ELSE UNCHANGED frames
  /\ UNCHANGED <<mode, result, err, fuel>>

Unwind ==
  /\ mode = "raise"
  /\ stack # <<>>
  /\ stack' = callers
  /\ IF OwnsFrame(top) THEN popFrame ELSE UNCHANGED frames
  /\ UNCHANGED <<mode, result, err, fuel>>

\* check has returned to compileProgram, with a value or with err.
Halt ==
  /\ mode \in {"return", "raise"}
  /\ stack = <<>>
  /\ mode' = "halt"
  /\ result' = unit
  /\ UNCHANGED <<frames, stack, err, fuel>>

\* TypeChecker.deinit, one frame at a time.
deinit ==
  /\ mode = "halt"
  /\ frames # <<>>
  /\ popFrame
  /\ UNCHANGED checker

\* main.zig exits at once on any compile error, the checker's or a later one.
Exit ==
  /\ mode = "halt"
  /\ frames # <<>>
  /\ mode' = "exit"
  /\ UNCHANGED <<frames, stack, result, err, fuel>>

\* The steps about to use memory that has been freed: a borrow through a
\* freed list, a popFrame that scans or frees one, and addBinding freeing the
\* name of a redeclaration a second time.
TouchesFreedMemory ==
  \/ /\ mode = "check" /\ fuel > 0 /\ Expected \cap Kinds \cap {"borrow", "borrow_mut"} # {}
     /\ \E name \in Names :
          checkValError(name) = None /\ lookup(name).buffer = "freed"
  \/ /\ \/ mode \in {"return", "raise"} /\ stack # <<>> /\ OwnsFrame(top)
        \/ mode = "halt"
     /\ \E i \in DOMAIN frames : \E name \in Names :
          Binds(i, name) /\ frames[i][name].buffer = "freed"
  \/ mode = "raise" /\ err = "SymbolAlreadyDeclared"

Abort ==
  /\ TouchesFreedMemory
  /\ mode' = "abort"
  /\ UNCHANGED <<frames, stack, result, err, fuel>>

Ended == mode \in {"exit", "abort"} \/ (mode = "halt" /\ frames = <<>>)

Terminating == Ended /\ UNCHANGED vars

Leaf ==
  \/ checkLit
  \/ Unimplemented
  \/ NotAVariable
  \/ \E name \in Names :
       \/ checkVal(name)
       \/ checkBorrow(name)
       \/ checkBorrowMut(name)

Operator ==
  \/ checkLogic \/ LogicFirst \/ LogicSecond
  \/ checkComp \/ CompFirst \/ CompSecond
  \/ checkArith \/ ArithFirst \/ ArithSecond

Statement ==
  \/ checkSeq \/ SeqStatement
  \/ checkAssign \/ AssignValue
  \/ (\E name \in Names : checkReassign(name)) \/ ReassignValue
  \/ checkCompoundAssign \/ (\E name \in Names : CompoundTarget(name))
  \/ checkBlk \/ BlkBody
  \/ checkCond \/ CondPred \/ CondCons \/ CondAlt

Function ==
  \/ checkFunc \/ FuncEnter \/ FuncParam \/ FuncBody \/ FuncReturn
  \/ (\E name \in Names : checkApp(name)) \/ AppArgument

Control == Start \/ Unwind \/ Halt \/ deinit \/ Exit \/ Abort \/ Terminating

Next == Leaf \/ Operator \/ Statement \/ Function \/ Control

Spec == Init /\ [][Next]_vars

\* The checker is a sequential program: it takes its next step.
FairSpec == Spec /\ WF_vars(Next)

-----------------------------------------------------------------------------
(* Properties *)

\* An activation has the locals that the rest of its check function reads.
HasItsLocals(activation) ==
  /\ activation.site = "assign" => activation.name \in Names
  /\ activation.site = "app" => activation.params # <<>>
  /\ activation.site = "cond alt" => activation.type \in Types

\* Every part of the checker's state is well formed.
TypeOK ==
  /\ EnvTypeOK
  /\ stack \in Seq(Activation)
  /\ \A k \in DOMAIN stack : HasItsLocals(stack[k])
  /\ mode = "body" => stack # <<>>
  /\ mode \in {"init", "check", "return", "body", "raise", "halt", "exit", "abort"}
  /\ result \in Result
  /\ err \in CompileErrors \cup {None}
  /\ fuel \in 0 .. MaxNodes

\* The lifetime of the scope that activation k was called in.
ScopeOf(k) == Cardinality({j \in 1 .. (k - 1) : OwnsFrame(stack[j])})

\* The open frames are the global one and one for each block or function
\* whose check is under way.  An error that skipped a popFrame, or one that
\* ran twice, would leave the environment a scope too deep or too shallow.
ScopesMatchActivations ==
  /\ mode = "init" => frames = <<>>
  /\ mode \notin {"init", "halt"} => Len(frames) = 1 + ScopeOf(Len(stack) + 1)
  /\ mode = "halt" => stack = <<>> /\ Len(frames) <= 1

\* The frame that binds name for code of a scope: the innermost up to it.
HomeAt(scope, name) ==
  CHOOSE i \in 1 .. (scope + 1) :
    Binds(i, name) /\ \A j \in 1 .. (scope + 1) : Binds(j, name) => j <= i

\* checkReassign decides on a copy of its target and checks the new value
\* afterwards.  Until it compares the types, the binding the copy was made of
\* is still the one in scope, has the type and mutability of the copy, and is
\* borrowed by no scope around the assignment's own.  The value itself may
\* borrow it, in the assignment's own scope (x = &x) or in one of the value's:
\* the copy then says "unborrowed" of what is borrowed, and checkReassign does
\* not look again.
TargetBindingIsKept ==
  \A k \in DOMAIN stack : stack[k].site = "reassign" =>
    LET scope  == ScopeOf(k)
        target == frames[HomeAt(scope, stack[k].name)][stack[k].name]
    IN  /\ target.type_name = stack[k].type
        /\ target.is_mut
        /\ target.active_immutable_borrows \cap 0 .. (scope - 1) = {}
        /\ target.active_mutable_borrow \notin 0 .. (scope - 1)

\* checkApp matches its arguments against a copy of the signature: whatever
\* the arguments declare, the called name is still bound to that function.
CallSignatureStaysValid ==
  \A k \in DOMAIN stack : stack[k].site = "app" =>
    LET signature == frames[HomeAt(ScopeOf(k), stack[k].name)][stack[k].name].func_sig
        n         == Len(signature.params)
        left      == Len(stack[k].params)
    IN  /\ signature # None
        /\ signature.return_type = stack[k].type
        /\ left <= n
        /\ stack[k].params = SubSeq(signature.params, n - left + 1, n)

\* Every run of the checker comes to an end.
Terminates == <>Ended

-----------------------------------------------------------------------------
(* What the comments and the tests of the code say *)

\* type_environment.zig:100-101: popFrame removes any borrow that was created
\* within the scope that just ended, so that every borrower on record is a
\* scope that is still open.
EndedScopesHoldNoBorrow ==
  \A i \in DOMAIN frames : \A name \in Names :
    Binds(i, name) =>
      frames[i][name].active_immutable_borrows \subseteq 0 .. currentLifetime

\* type_checker.zig:362: a compound assignment follows "similar logic to
\* reassign", which refuses a variable that is borrowed.
CompoundTargetIsNotBorrowed ==
  [][\A name \in Names :
       CompoundTarget(name) /\ err' = None =>
         lookup(name).active_immutable_borrows = {}]_vars

MutablyBorrowed(name) == Bound(name) /\ lookup(name).active_mutable_borrow # None

MutableAndShared(name) ==
  Bound(name) /\ lookup(name).is_mut /\ lookup(name).active_immutable_borrows # {}

\* compiler_test.zig:519, :551 and :581: a conflict of borrows is reported as
\* one.  A mutable borrow of a variable that is borrowed immutably fails with
\* BorrowConflictImmutable; a mutable borrow or a use of one that is borrowed
\* mutably fails with BorrowConflictMutable.
ConflictsAreNamed ==
  [][\A name \in Names :
       /\ (checkVal(name) \/ checkBorrowMut(name)) /\ MutablyBorrowed(name)
            => err' = "BorrowConflictMutable"
       /\ checkBorrowMut(name) /\ MutableAndShared(name)
            => err' = "BorrowConflictImmutable"]_vars
=============================================================================
