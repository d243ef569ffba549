------------------------------ MODULE Compiler ------------------------------
(***************************************************************************)
(* The bytecode compiler (src/vm/compiler.zig), run on every tree of the   *)
(* instance at once: the tree is chosen node by node as compile descends.  *)
(*                                                                         *)
(* An instruction is its opcode and its number, if it has one: the target  *)
(* of a jump, the start of a function, the arity of a call.  Addresses     *)
(* count from 0, as in the code.  Names, literals and operators do not     *)
(* matter here, and whether an EnterScope has any locals only for its      *)
(* presence.                                                               *)
(*                                                                         *)
(* The recursion is a stack of activations, one for each call of compile   *)
(* that waits for the code of an operand.  mode says what happens next:    *)
(*   "compile"  compile is called on a node that is still to be chosen     *)
(*   "return"   the node's code is complete                                *)
(*   "done"     compileProgram has added Done                              *)
(*   "error"    compile has failed                                         *)
(***************************************************************************)
EXTENDS Integers, Sequences, FiniteSets

CONSTANTS
  Kinds,       \* the kinds of AST node the trees of an instance use
  MaxArgs,     \* bound: the arguments of a call
  MaxNodes     \* bound: the nodes compiled before only what must follow does

VARIABLES
  instructions,   \* the code so far
  stack,          \* the waiting activations, outermost first
  mode,
  fuel,           \* the nodes that may still be chosen freely
  plain           \* history: no logical operator, no cast and no return that abandons
                  \* an operand so far

vars == <<instructions, stack, mode, fuel, plain>>

-----------------------------------------------------------------------------
(* Nodes *)

\* The kinds that TypeChecker.check answers with UnimplementedAstNode.
\* compile translates most of them all the same.
Unchecked ==
  {"deref", "neg", "question", "type_cast", "while_loop", "return_statement",
   "continue_statement", "break_statement"}

Expressions ==
  {"lit", "nam", "app", "comp", "arith", "logic", "borrow", "borrow_mut",
   "blk", "reassign", "compound_assign", "cond"} \cup Unchecked

Declarations == {"assign", "fun"}

ASSUME CompilerAssumption ==
  /\ {"lit", "seq", "blk", "assign", "fun"} \subseteq Kinds
  /\ Kinds \subseteq Expressions \cup Declarations \cup {"seq"}
  /\ MaxArgs \in Nat
  /\ MaxNodes \in Nat

\* Where compile waits for the code of an operand.
Sites ==
  {"binary first", "binary second", "unary", "cast", "statement",
   "declaration", "blk", "assign", "reassign", "compound", "app",
   "cond pred", "cond cons", "cond alt", "fun", "return", "and first",
   "and second", "or first", "or second", "while pred", "while body"}

\* What is still needed: the address of a jump to patch, where a loop or a
\* function began, the arguments to come, whether a block has locals, and
\* whether a sequence has declarations to come.
Activation ==
  [site : Sites, jump : Nat, start : Nat, arity : Nat, left : Nat,
   has_locals : BOOLEAN, declares : {"no", "may", "must"}]

At(site) ==
  [site |-> site, jump |-> 0, start |-> 0, arity |-> 0, left |-> 0,
   has_locals |-> FALSE, declares |-> "no"]

top == stack[Len(stack)]
callers == SubSeq(stack, 1, Len(stack) - 1)

\* main.zig compiles blk{seq{functions}}, the unit tests a bare seq.
InCrate ==
  /\ stack # <<>>
  /\ stack[1].site = "blk"
  /\ Len(stack) = 1 \/ (Len(stack) = 2 /\ top.site \in {"statement", "declaration"})

Expected ==
  IF stack = <<>> THEN {"seq", "blk"}
  ELSE CASE top.site \in {"blk", "fun"} -> {"seq"}
         [] top.site = "declaration" -> IF InCrate THEN {"fun"} ELSE Declarations
         [] top.site \in {"cond cons", "while body"} -> {"blk"}
         [] top.site = "cond alt" -> {"blk", "cond"}
         [] OTHER -> Expressions

\* A node under the function that is being compiled waits for an operand with another one
\* already on the stack: a return here would leave that one behind, below its value.
Abandons ==
  \E k \in DOMAIN stack :
    /\ stack[k].site \in {"app", "binary second", "compound"}
    /\ \A l \in k .. Len(stack) : stack[l].site # "fun"

\* Once the bound is used up, only literals, empty sequences and the
\* declarations that a scope needs are chosen.
Node(kind) ==
  /\ mode = "compile"
  /\ kind \in Expected \cap Kinds
  /\ fuel > 0 \/ kind \in {"lit", "seq", "blk"} \cup Declarations
  /\ fuel' = IF fuel > 0 THEN fuel - 1 ELSE 0
  /\ plain' = (plain /\ kind \notin {"logic", "type_cast"}
                    /\ (kind = "return_statement" => ~Abandons))

\* The code of the operand that the activation at site waits for is complete.
Resume(site) ==
  /\ mode = "return"
  /\ stack # <<>>
  /\ top.site = site
  /\ UNCHANGED <<fuel, plain>>

-----------------------------------------------------------------------------
(* Code *)

Jumps == {"Jof", "Goto"}

Opcodes ==
  Jumps \cup {"Ldc", "Ld", "Assign", "Unop", "Binop", "Pop", "EnterScope",
              "ExitScope", "Ldf", "Call", "Reset", "Done"}

Instruction == [op : Opcodes, arg : Nat]

Instr(op) == [op |-> op, arg |-> 0]

nextInstrAddr == Len(instructions)

addInstr(op) == instructions' = Append(instructions, Instr(op))

\* patchJump(jump, target) on the code so far.
patchJump(code, jump, target) == [code EXCEPT ![jump + 1].arg = target]

Return == mode' = "return" /\ UNCHANGED stack
Finish == mode' = "return" /\ stack' = callers
Call(activation) == mode' = "compile" /\ stack' = Append(stack, activation)
Continue(activation) == mode' = "compile" /\ stack' = Append(callers, activation)
Fail == mode' = "error" /\ UNCHANGED <<instructions, stack>>

-----------------------------------------------------------------------------
(* Values and operators *)

Lit == Node("lit") /\ addInstr("Ldc") /\ Return

Nam == Node("nam") /\ addInstr("Ld") /\ Return

compileBinaryOp ==
  /\ Node("comp") \/ Node("arith")
  /\ Call(At("binary first"))
  /\ UNCHANGED instructions

BinaryFirst ==
  /\ Resume("binary first")
  /\ Continue(At("binary second"))
  /\ UNCHANGED instructions

BinarySecond == Resume("binary second") /\ addInstr("Binop") /\ Finish

compileUnaryOp ==
  /\ \E kind \in {"borrow", "borrow_mut", "deref", "neg", "question"} : Node(kind)
  /\ Call(At("unary"))
  /\ UNCHANGED instructions

UnaryFirst == Resume("unary") /\ addInstr("Unop") /\ Finish

\* The type is not compiled.
TypeCast == Node("type_cast") /\ Call(At("cast")) /\ UNCHANGED instructions

CastFirst == Resume("cast") /\ addInstr("Binop") /\ Finish

\* The function's value, then the arguments.
App ==
  /\ Node("app")
  /\ \/ /\ instructions' = instructions \o <<Instr("Ld"), Instr("Call")>>
        /\ Return
     \/ \E arity \in 1 .. MaxArgs :
          /\ fuel > 0
          /\ addInstr("Ld")
          /\ Call([At("app") EXCEPT !.arity = arity, !.left = arity - 1])

\* Fault: one argument more than the call has.
AppArgumentTooMany ==
  /\ Resume("app")
  /\ Continue([top EXCEPT !.left = @ - 1])
  /\ UNCHANGED instructions

AppArgument ==
  /\ Resume("app")
  /\ IF top.left > 0
       THEN /\ Continue([top EXCEPT !.left = @ - 1])
            /\ UNCHANGED instructions
       ELSE /\ instructions' = Append(instructions, [op |-> "Call", arg |-> top.arity])
            /\ Finish

-----------------------------------------------------------------------------
(* Sequences, scopes and assignments *)

\* scanForLocals(body): whether a sequence has declarations among its own
\* statements.  A block's has them as the scan said; a function's body and a
\* bare program are not scanned.
Declares == IF stack # <<>> /\ top.site = "blk"
              THEN IF top.has_locals THEN "must" ELSE "no"
              ELSE "may"

\* The next statement of a sequence, with nodes left to choose.
NextStatement(declares, nodes) ==
  (IF nodes > 0 /\ ~InCrate
     THEN {[At("statement") EXCEPT !.declares = declares]} ELSE {})
  \cup
  (IF declares = "must" \/ (declares = "may" /\ nodes > 0)
     THEN {[At("declaration") EXCEPT !.declares = "may"]} ELSE {})

\* The value of an empty sequence is undefined.
compileSequence ==
  /\ Node("seq")
  /\ \/ Declares # "must" /\ addInstr("Ldc") /\ Return
     \/ /\ \E statement \in NextStatement(Declares, fuel') : Call(statement)
        /\ UNCHANGED instructions

\* Fault: the values are left on the stack.
SequenceKeepsValues ==
  /\ Resume("statement") \/ Resume("declaration")
  /\ \/ top.declares # "must" /\ Finish
     \/ \E statement \in NextStatement(top.declares, fuel) : Continue(statement)
  /\ UNCHANGED instructions

\* Every value but the last statement's is popped.
SequenceStatement ==
  /\ Resume("statement") \/ Resume("declaration")
  /\ \/ top.declares # "must" /\ Finish /\ UNCHANGED instructions
     \/ /\ \E statement \in NextStatement(top.declares, fuel) : Continue(statement)
        /\ addInstr("Pop")

compileBlock ==
  /\ Node("blk")
  /\ \/ /\ fuel > 0
        /\ addInstr("EnterScope")
        /\ Call([At("blk") EXCEPT !.has_locals = TRUE])
     \/ /\ Call(At("blk"))
        /\ UNCHANGED instructions

\* Fault: a scope is left whether or not one was entered.
BlockBodyAlwaysExits == Resume("blk") /\ addInstr("ExitScope") /\ Finish

BlockBody ==
  /\ Resume("blk")
  /\ IF top.has_locals THEN addInstr("ExitScope") ELSE UNCHANGED instructions
  /\ Finish

compileVarDecl == Node("assign") /\ Call(At("assign")) /\ UNCHANGED instructions

VarDeclValue == Resume("assign") /\ addInstr("Assign") /\ Finish

\* The target is looked at after the value has been compiled.
Reassign == Node("reassign") /\ Call(At("reassign")) /\ UNCHANGED instructions

ReassignValue ==
  /\ Resume("reassign")
  /\ \/ addInstr("Assign") /\ Finish
     \/ Fail

CompoundAssign ==
  /\ Node("compound_assign")
  /\ \/ addInstr("Ld") /\ Call(At("compound"))
     \/ Fail

CompoundValue ==
  /\ Resume("compound")
  /\ instructions' = instructions \o <<Instr("Binop"), Instr("Assign")>>
  /\ Finish

-----------------------------------------------------------------------------
(* Jumps: an address that is not known yet is 0 until it is patched. *)

compileConditional ==
  /\ Node("cond")
  /\ Call(At("cond pred"))
  /\ UNCHANGED instructions

CondPred ==
  /\ Resume("cond pred")
  /\ addInstr("Jof")
  /\ Continue([At("cond cons") EXCEPT !.jump = nextInstrAddr])

\* The Goto past the alternative, then the alternative: undefined without one.
CondCons ==
  /\ Resume("cond cons")
  /\ LET goto_idx == nextInstrAddr
         alt_addr == nextInstrAddr + 1
         code     == patchJump(Append(instructions, Instr("Goto")), top.jump, alt_addr)
     IN  \/ /\ instructions' = code
            /\ Continue([At("cond alt") EXCEPT !.jump = goto_idx])
         \/ /\ instructions' = patchJump(Append(code, Instr("Ldc")), goto_idx, alt_addr + 1)
            /\ Finish

\* Fault: the Goto is not patched.
CondAltUnpatched == Resume("cond alt") /\ Finish /\ UNCHANGED instructions

CondAlt ==
  /\ Resume("cond alt")
  /\ instructions' = patchJump(instructions, top.jump, nextInstrAddr)
  /\ Finish

\* Fault: the address after the body is taken before Reset is added.
FnDeclEndAtReset(code, goto_idx, addr) ==
  patchJump(Append(code, Instr("Reset")), goto_idx, Len(code))
    \o <<[op |-> "Ldf", arg |-> addr], Instr("Assign")>>

\* The code of a function whose body starts at addr, from its last instruction
\* on: Reset ends the body and the Goto over it is patched.
FnDeclEnd(code, goto_idx, addr) ==
  patchJump(Append(code, Instr("Reset")), goto_idx, Len(code) + 1)
    \o <<[op |-> "Ldf", arg |-> addr], Instr("Assign")>>

compileFnDecl ==
  /\ Node("fun")
  /\ LET goto_idx == nextInstrAddr
         addr     == nextInstrAddr + 1
         code     == Append(instructions, Instr("Goto"))
     IN  \/ /\ instructions' = code
            /\ Call([At("fun") EXCEPT !.jump = goto_idx, !.start = addr])
         \/ /\ instructions' = FnDeclEnd(Append(code, Instr("Ldc")), goto_idx, addr)
            /\ Return

FnBody ==
  /\ Resume("fun")
  /\ instructions' = FnDeclEnd(instructions, top.jump, top.start)
  /\ Finish

ReturnStatement ==
  /\ Node("return_statement")
  /\ \/ Call(At("return")) /\ UNCHANGED instructions
     \/ /\ instructions' = instructions \o <<Instr("Ldc"), Instr("Reset")>>
        /\ Return

ReturnBody == Resume("return") /\ addInstr("Reset") /\ Finish

Logic ==
  /\ Node("logic")
  /\ \E site \in {"and first", "or first"} : Call(At(site))
  /\ UNCHANGED instructions

AndFirst ==
  /\ Resume("and first")
  /\ instructions' = instructions \o <<Instr("Jof"), Instr("Pop")>>
  /\ Continue([At("and second") EXCEPT !.jump = nextInstrAddr])

\* Jof jumps over the Goto, to the Pop that starts the right-hand side.
OrFirst ==
  /\ Resume("or first")
  /\ LET jof_idx == nextInstrAddr
     IN  /\ instructions' =
              Append(patchJump(instructions \o <<Instr("Jof"), Instr("Goto")>>,
                               jof_idx, jof_idx + 2),
                     Instr("Pop"))
         /\ Continue([At("or second") EXCEPT !.jump = jof_idx + 1])

LogicSecond ==
  /\ Resume("and second") \/ Resume("or second")
  /\ instructions' = patchJump(instructions, top.jump, nextInstrAddr)
  /\ Finish

WhileLoop ==
  /\ Node("while_loop")
  /\ Call([At("while pred") EXCEPT !.start = nextInstrAddr])
  /\ UNCHANGED instructions

WhilePred ==
  /\ Resume("while pred")
  /\ addInstr("Jof")
  /\ Continue([At("while body") EXCEPT !.start = top.start, !.jump = nextInstrAddr])

WhileBody ==
  /\ Resume("while body")
  /\ LET code == instructions \o <<Instr("Pop"), [op |-> "Goto", arg |-> top.start]>>
     IN  instructions' = Append(patchJump(code, top.jump, Len(code)), Instr("Ldc"))
  /\ Finish

ContinueOrBreak ==
  /\ Node("continue_statement") \/ Node("break_statement")
  /\ Fail

-----------------------------------------------------------------------------
(* The specification *)

Init ==
  /\ instructions = <<>>
  /\ stack = <<>>
  /\ mode = "compile"
  /\ fuel = MaxNodes
  /\ plain = TRUE

\* compileProgram, once compile has returned to it.
compileProgram ==
  /\ mode = "return"
  /\ stack = <<>>
  /\ addInstr("Done")
  /\ mode' = "done"
  /\ UNCHANGED <<stack, fuel, plain>>

Terminating == mode \in {"done", "error"} /\ UNCHANGED vars

Values ==
  \/ Lit \/ Nam
  \/ compileBinaryOp \/ BinaryFirst \/ BinarySecond
  \/ compileUnaryOp \/ UnaryFirst
  \/ TypeCast \/ CastFirst
  \/ App \/ AppArgument

Statements ==
  \/ compileSequence \/ SequenceStatement
  \/ compileBlock \/ BlockBody
  \/ compileVarDecl \/ VarDeclValue
  \/ Reassign \/ ReassignValue
  \/ CompoundAssign \/ CompoundValue

Control ==
  \/ compileConditional \/ CondPred \/ CondCons \/ CondAlt
  \/ compileFnDecl \/ FnBody
  \/ ReturnStatement \/ ReturnBody
  \/ Logic \/ AndFirst \/ OrFirst \/ LogicSecond
  \/ WhileLoop \/ WhilePred \/ WhileBody
  \/ ContinueOrBreak

Next == Values \/ Statements \/ Control \/ compileProgram \/ Terminating

Spec == Init /\ [][Next]_vars

-----------------------------------------------------------------------------
(* Properties *)

\* Every part of the compiler's state is well formed.
TypeOK ==
  /\ instructions \in Seq(Instruction)
  /\ stack \in Seq(Activation)
  /\ mode \in {"compile", "return", "done", "error"}
  /\ fuel \in 0 .. MaxNodes
  /\ plain \in BOOLEAN

Addresses == 0 .. (Len(instructions) - 1)

Code(a) == instructions[a + 1]

Jumping == {a \in Addresses : Code(a).op \in Jumps}

\* The jump back of a loop: after the Pop of the body's value, to the
\* condition, whose Jof leaves the loop.
JumpsBack(a) ==
  /\ Code(a).op = "Goto"
  /\ Code(a - 1).op = "Pop"
  /\ \E j \in Code(a).arg .. (a - 1) : Code(j) = [op |-> "Jof", arg |-> a + 1]

\* No jump of a finished program was left unpatched: each lands on an
\* instruction, further on unless it closes a loop.
JumpsLand ==
  mode = "done" =>
    \A a \in Jumping : Code(a).arg \in Addresses /\ (Code(a).arg > a \/ JumpsBack(a))

Body(a) == Code(a).arg .. (a - 1)

\* The code of a function is entered by a call and left by a Reset only: no
\* jump crosses its ends, although it lies in the middle of its caller's code.
FunctionsAreClosed ==
  mode = "done" =>
    \A a \in Addresses : Code(a).op = "Ldf" =>
      /\ Code(a - 1).op = "Reset"
      /\ \A j \in Jumping : j \in Body(a) <=> Code(j).arg \in Body(a)

\* The scopes that are open before address a.
ScopeDepth(a) ==
  Cardinality({b \in 0 .. (a - 1) : Code(b).op = "EnterScope"})
    - Cardinality({b \in 0 .. (a - 1) : Code(b).op = "ExitScope"})

\* A jump neither enters nor leaves a scope, a function ends in the scope it
\* began in, and so does the program.
ScopesBalance ==
  mode = "done" =>
    /\ \A a \in Addresses : ScopeDepth(a) >= 0
    /\ \A a \in Jumping : ScopeDepth(Code(a).arg) = ScopeDepth(a)
    /\ \A a \in Addresses : Code(a).op = "Ldf" =>
         ScopeDepth(Code(a).arg) = ScopeDepth(a)
    /\ ScopeDepth(Len(instructions)) = 0

\* What an instruction does to the height of the operand stack, by the
\* meanings noted in virtual_machine.zig:576-668; for a Jof it is given.
Effect(instruction, jof) ==
  CASE instruction.op \in {"Ldc", "Ld", "Ldf"} -> 1
    [] instruction.op \in {"Binop", "Pop"} -> -1
    [] instruction.op = "Call" -> -instruction.arg
    [] instruction.op = "Jof" -> jof
    [] OTHER -> 0

Arriving(a) == {j \in Jumping : j < a /\ Code(j).arg = a}

Height(jof) ==
  LET height[a \in 0 .. Len(instructions)] ==
        IF a = 0 \/ \E f \in Addresses : Code(f) = [op |-> "Ldf", arg |-> a]
          THEN 0
          ELSE LET before == IF Arriving(a) # {} THEN CHOOSE j \in Arriving(a) : TRUE
                                                 ELSE a - 1
               IN  height[before] + Effect(Code(before), jof)
  IN  height

\* Whichever way an instruction is reached, the operand stack has one height
\* there, enough for what it pops; a Reset, at the end of a function or of a
\* return, finds one value of its function's there, as the effect of Call
\* presumes, and the program ends with one.
Balanced(jof) ==
  LET height == Height(jof)
  IN  /\ \A a \in DOMAIN height : height[a] >= 0
      /\ \A a \in Jumping : height[Code(a).arg] = height[a] + Effect(Code(a), jof)
      /\ \A a \in Addresses : Code(a).op \notin {"Goto", "Reset"} =>
           height[a + 1] = height[a] + Effect(Code(a), jof)
      /\ \A a \in Addresses : Code(a).op = "Reset" => height[a] = 1
      /\ height[Len(instructions) - 1] = 1

\* Every node leaves one value, on every path through conditionals, loops,
\* functions and returns, if a Jof pops the condition it tests: in programs
\* without a cast or a logical operator (JofMeansOneThing), and without a
\* return in the midst of an operator's, a call's or a compound assignment's
\* operands, as in 1 + return 2, which reaches its Reset with two values.
NodesLeaveOneValue == mode = "done" /\ plain => Balanced(-1)

-----------------------------------------------------------------------------
(* What the comments of the code say *)

\* compiler.zig:479 and :502: after a logical operator the stack has the right
\* operand's value, or the left's if it jumped; :297: after a conditional it
\* has the value of a branch.  There is a meaning of Jof, popping or not, that
\* makes both so.
JofMeansOneThing == mode = "done" => \E jof \in {-1, 0} : Balanced(jof)
=============================================================================
