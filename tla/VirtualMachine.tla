--------------------------- MODULE VirtualMachine ---------------------------
(***************************************************************************)
(* The virtual machine as far as it is written (vm/virtual_machine.zig):   *)
(* the run loop, the instructions that do something, and the heap, which   *)
(* outlives a run and of which nothing is ever freed.                      *)
(*                                                                         *)
(* A byte of the heap is <<what it is part of, its content, its place>>.   *)
(* std.debug.assert stops the process, as do an index out of bounds and a  *)
(* byte that is no Tag (Debug and ReleaseSafe builds).  numberNodeStr is   *)
(* read as it is meant, to answer with the text it prints.                 *)
(***************************************************************************)
EXTENDS Integers, Sequences

CONSTANTS
  HeapSize,     \* HEAP_SIZE, 65536
  WordBytes,    \* bytes of a usize, 8
  Half32,       \* 2^31
  Half64,       \* 2^63
  Filler,       \* 0x4545, the answer to an error
  NoConstant,   \* 420420, the address of what is no constant yet
  Garbage,      \* what undefined memory reads as: zeroes, or the 0xaa of a debug build
  Operands,     \* how many operands the stack's allocator has memory for
  Literals,     \* the literals of the programs
  Programs      \* what load_prog is given

VARIABLES
  HEAP, heap_ptr,
  canonical,      \* the addresses False, True, Null, Unassigned and Undefined
  PC, operand_stack, program,
  status,         \* "loaded", "running", "done", "error" or "panic"
  made            \* history: what the nodes of the heap were made to hold, by address

vars == <<HEAP, heap_ptr, canonical, PC, operand_stack, program, status, made>>
heapVars == <<HEAP, heap_ptr, canonical, made>>

-----------------------------------------------------------------------------
(* Literals and instructions *)

Signed == {"i32", "i64"}
Integer == Signed \union {"u32", "u64"}
Numeric == Integer \union {"f64"}

\* A literal is its type and its value: 1 for "true", 0 for "false" and for any string.

Jumps == {"Jof", "Goto"}
WithoutEffect ==
    {"EnterScope", "ExitScope", "Ld", "Assign", "Ldf", "Call", "TailCall", "Reset"}

Instruction ==
    [op : {"Ldc"}, lit : Literals] \union [op : Jumps, addr : Nat] \union
    [op : {"Unop"}, sym : {"neg", "other"}] \union
    [op : WithoutEffect \union {"Binop", "Pop", "Done"}]

\* What the compiler emits: Done is the last instruction only, and jumps land on one of the
\* program's (JumpsLand of Compiler.tla).
WellFormed(prog) ==
    /\ prog # << >>
    /\ \A i \in 1 .. Len(prog) :
         /\ prog[i].op = "Done" <=> i = Len(prog)
         /\ prog[i].op \in Jumps => prog[i].addr < Len(prog)

ASSUME HeapAssumption == HeapSize \in Nat /\ WordBytes \in Nat \ {0} /\ Operands \in Nat
ASSUME WidthAssumption == Half32 \in Nat /\ Half64 \in Nat /\ Half32 <= Half64
ASSUME FillerAssumption == Filler \in 0 .. Half32 - 1
ASSUME GarbageAssumption ==
    /\ Garbage \subseteq Nat /\ \A g \in Garbage : g = 0 \/ g >= HeapSize
    /\ NoConstant \in Nat /\ NoConstant >= HeapSize
ASSUME LiteralsAssumption ==
    \A lit \in Literals : lit.type_name \in Integer => lit.val \in Int
ASSUME ProgramsAssumption ==
    Programs \subseteq Seq(Instruction) /\ \A prog \in Programs : WellFormed(prog)

-----------------------------------------------------------------------------
(* Numbers *)

Range(type) ==
    CASE type = "i32" -> -Half32 .. Half32 - 1
      [] type = "u32" -> 0 .. 2 * Half32 - 1
      [] type = "i64" -> -Half64 .. Half64 - 1
      [] type = "u64" -> 0 .. 2 * Half64 - 1

\* Fault: a signed literal is not extended to the word.
literalValToNumUnsigned(lit) ==
    IF lit.type_name = "f64" THEN Garbage \union {Filler}
    ELSE IF lit.val \notin Range(lit.type_name) THEN {Filler}
    ELSE {IF lit.val < 0 THEN lit.val + 2 * Half32 ELSE lit.val}

\* Signed numbers are sign-extended and bit-cast to the word.  What does not parse becomes
\* Filler, and what parses as an f64 is not stored at all.
literalValToNum(lit) ==
    IF lit.type_name = "f64" THEN Garbage \union {Filler}
    ELSE IF lit.val \notin Range(lit.type_name) THEN {Filler}
    ELSE {IF lit.val < 0 THEN lit.val + 2 * Half64 ELSE lit.val}

\* The number that numberNodeStr prints.
numberNodeStr(type, num) == IF type \in Signed /\ num >= Half64 THEN num - 2 * Half64 ELSE num

-----------------------------------------------------------------------------
(* The heap *)

CanonicalTags == <<"False", "True", "Null", "Unassigned", "Undefined">>

Blank == <<"blank", 0, 0>>
Tag(tag) == <<"tag", tag, 0>>
NumberType(type) == <<"type", type, 0>>
Piece(num, k) == <<"value", num, k>>

NumberBytes == 2 + WordBytes

\* The bytes of a number node at an address, and the heap with them.
NumberByte(a, address, type, num) ==
    CASE a = address     -> Tag("Number")
      [] a = address + 1 -> NumberType(type)
      [] OTHER           -> Piece(num, a - address - 1)

WithNumber(address, type, num) ==
    [a \in DOMAIN HEAP |->
       IF a \in address .. address + NumberBytes - 1 THEN NumberByte(a, address, type, num)
       ELSE HEAP[a]]

Made(address, node) ==
    [a \in DOMAIN made \union {address} |-> IF a = address THEN node ELSE made[a]]

\* try append, which may fail.
StackFull == Len(operand_stack) = Operands
Push(address) ==
    operand_stack' = IF StackFull THEN operand_stack ELSE Append(operand_stack, address)

HeapFull == heap_ptr + NumberBytes > HeapSize

\* Fault: the header is not counted.
heapAllocateNumberHeaderless(lit) ==
    \/ /\ HeapFull
       /\ Push(Filler)
       /\ UNCHANGED <<HEAP, heap_ptr, made>>
    \/ /\ ~HeapFull
       /\ \E num \in literalValToNum(lit) :
            /\ HEAP' = WithNumber(heap_ptr, lit.type_name, num)
            /\ made' = Made(heap_ptr, [tag |-> "Number", lit |-> lit, num |-> num])
       /\ heap_ptr' = heap_ptr + NumberBytes - 1
       /\ Push(heap_ptr)

\* Fault: the address is read after the pointer has moved on.
heapAllocateNumberPast(lit) ==
    \/ /\ HeapFull
       /\ Push(Filler)
       /\ UNCHANGED <<HEAP, heap_ptr, made>>
    \/ /\ ~HeapFull
       /\ \E num \in literalValToNum(lit) :
            /\ HEAP' = WithNumber(heap_ptr, lit.type_name, num)
            /\ made' = Made(heap_ptr, [tag |-> "Number", lit |-> lit, num |-> num])
       /\ heap_ptr' = heap_ptr + NumberBytes
       /\ Push(heap_ptr + NumberBytes)

\* heapAllocate fails, and val_to_addr answers with Filler; or it takes the next bytes.
heapAllocateNumber(lit) ==
    \/ /\ HeapFull
       /\ Push(Filler)
       /\ UNCHANGED <<HEAP, heap_ptr, made>>
    \/ /\ ~HeapFull
       /\ \E num \in literalValToNum(lit) :
            /\ HEAP' = WithNumber(heap_ptr, lit.type_name, num)
            /\ made' = Made(heap_ptr, [tag |-> "Number", lit |-> lit, num |-> num])
       /\ heap_ptr' = heap_ptr + NumberBytes
       /\ Push(heap_ptr)

False == canonical[1]
True == canonical[2]

val_to_addr(lit) ==
    \/ /\ lit.type_name \in Numeric
       /\ heapAllocateNumber(lit)
    \/ /\ lit.type_name \notin Numeric
       /\ Push(CASE lit.type_name = "Bool" /\ lit.val = 1 -> True
                 [] lit.type_name = "Bool" /\ lit.val = 0 -> False
                 [] OTHER -> NoConstant)
       /\ UNCHANGED <<HEAP, heap_ptr, made>>

-----------------------------------------------------------------------------
(* The machine *)

Init ==
    /\ HEAP = [a \in 0 .. HeapSize - 1 |-> Blank]
    /\ heap_ptr = 0
    /\ \E undefined \in Garbage : canonical = [i \in 1 .. 5 |-> undefined]
    /\ PC = 0
    /\ operand_stack = << >>
    /\ program \in Programs
    /\ status = "loaded"
    /\ made = << >>

\* Fault: nobody asks whether there is room.
initCanonicalValuesUnbounded ==
    /\ status \in {"loaded", "done", "error"}
    /\ LET new == heap_ptr .. heap_ptr + 4
           tag(a) == CanonicalTags[a - heap_ptr + 1]
       IN  /\ HEAP' = [a \in DOMAIN HEAP |-> IF a \in new THEN Tag(tag(a)) ELSE HEAP[a]]
           /\ heap_ptr' = heap_ptr + 5
           /\ canonical' = [i \in 1 .. 5 |-> heap_ptr + i - 1]
           /\ made' = [a \in DOMAIN made \union new |->
                         IF a \in new THEN [tag |-> tag(a)] ELSE made[a]]
    /\ UNCHANGED <<PC, operand_stack, program, status>>

\* A header each, in their order, until heapAllocate fails.
initCanonicalValues ==
    /\ status \in {"loaded", "done", "error"}
    /\ \E n \in 0 .. 5 :
         LET new == heap_ptr .. heap_ptr + n - 1
             tag(a) == CanonicalTags[a - heap_ptr + 1]
         IN  /\ heap_ptr + n <= HeapSize
             /\ n = 5 \/ heap_ptr + n = HeapSize
             /\ HEAP' = [a \in DOMAIN HEAP |-> IF a \in new THEN Tag(tag(a)) ELSE HEAP[a]]
             /\ heap_ptr' = heap_ptr + n
             /\ canonical' = [i \in 1 .. 5 |-> IF i <= n THEN heap_ptr + i - 1 ELSE canonical[i]]
             /\ made' = [a \in DOMAIN made \union new |->
                           IF a \in new THEN [tag |-> tag(a)] ELSE made[a]]
    /\ UNCHANGED <<PC, operand_stack, program, status>>

run ==
    /\ status \in {"loaded", "done", "error"}
    /\ status' = "running"
    /\ PC' = 0
    /\ operand_stack' = << >>
    /\ UNCHANGED <<heapVars, program>>

instr == program[PC + 1]
Executing(op) == status = "running" /\ instr.op = op

Top == operand_stack[Len(operand_stack)]   \* getLast, which does not pop

\* What ends the turn of the loop, after an instruction that left PC at pc.
Advance(pc) ==
    /\ PC' = pc + 1
    /\ status' = IF pc + 1 < Len(program) THEN "running" ELSE "panic"
    /\ UNCHANGED <<canonical, program>>

\* run returns the error of a failed append, made after the node it was to hold.
AdvanceIfPushed ==
    \/ ~StackFull /\ Advance(PC)
    \/ /\ StackFull
       /\ status' = "error"
       /\ UNCHANGED <<canonical, PC, program>>

Panic ==
    /\ status' = "panic"
    /\ UNCHANGED <<heapVars, PC, operand_stack, program>>

\* The instruction asserts that there are n operands.
Assert(n) == status = "running" /\ Len(operand_stack) < n /\ Panic

Ldc == Executing("Ldc") /\ val_to_addr(instr.lit) /\ AdvanceIfPushed

IsTag(a) == a \in DOMAIN HEAP /\ HEAP[a][1] = "tag"

\* What heapGetTag and heapGetChild find at an address.  Where no node starts, it may be
\* anything; Null stands for the tags that apply_unop has no case for.
TagsAt(a) == IF IsTag(a) THEN {HEAP[a][2]} ELSE {"False", "True", "Null", "Number"}

NumbersAt(a) ==
    IF HEAP[a] = Tag("Number")
    THEN {[type_name |-> HEAP[a + 1][2], val |-> numberNodeStr(HEAP[a + 1][2], HEAP[a + 2][2])]}
    ELSE Literals

apply_unop(sym, address, tag) ==
    IF sym = "neg" /\ tag = "Number"
    THEN \E lit \in NumbersAt(address) : val_to_addr(lit)
    ELSE /\ \E result \in CASE sym = "neg" /\ tag = "True"  -> {False}
                           [] sym = "neg" /\ tag = "False" -> {True}
                           [] OTHER                        -> Garbage :
              Push(result)
         /\ UNCHANGED <<HEAP, heap_ptr, made>>

Unop ==
    /\ Executing("Unop")
    /\ \/ Assert(1)
       \/ /\ operand_stack # << >>
          /\ ~IsTag(Top)
          /\ Panic
       \/ /\ operand_stack # << >>
          /\ Top \in DOMAIN HEAP
          /\ \E tag \in TagsAt(Top) : apply_unop(instr.sym, Top, tag)
          /\ AdvanceIfPushed

Binop ==
    /\ Executing("Binop")
    /\ \/ Assert(2)
       \/ /\ Len(operand_stack) >= 2
          /\ Push(0)
          /\ AdvanceIfPushed
          /\ UNCHANGED <<HEAP, heap_ptr, made>>

Pop ==
    /\ Executing("Pop")
    /\ \/ Assert(1)
       \/ /\ operand_stack # << >>
          /\ Advance(PC)
          /\ UNCHANGED <<HEAP, heap_ptr, made, operand_stack>>

\* is_False answers true whatever it is asked.
Jof ==
    /\ Executing("Jof")
    /\ \/ Assert(1)
       \/ /\ operand_stack # << >>
          /\ Advance(instr.addr)
          /\ UNCHANGED <<HEAP, heap_ptr, made, operand_stack>>

Goto ==
    /\ Executing("Goto")
    /\ Advance(instr.addr)
    /\ UNCHANGED <<HEAP, heap_ptr, made, operand_stack>>

\* Fault: an instruction moves PC that the loop moves as well.
SkipTwice ==
    /\ \E op \in WithoutEffect : Executing(op)
    /\ Advance(PC + 1)
    /\ UNCHANGED <<HEAP, heap_ptr, made, operand_stack>>

\* The instructions that eval_instruction does not implement.
Skip ==
    /\ \E op \in WithoutEffect : Executing(op)
    /\ Advance(PC)
    /\ UNCHANGED <<HEAP, heap_ptr, made, operand_stack>>

Done ==
    /\ Executing("Done")
    /\ status' = "done"
    /\ UNCHANGED <<heapVars, PC, operand_stack, program>>

\* The process has stopped.
Stopped == status = "panic" /\ UNCHANGED vars

Next ==
    initCanonicalValues \/ run \/ Ldc \/ Unop \/ Binop \/ Pop \/ Jof \/ Goto \/ Skip \/ Done
      \/ Stopped

Spec == Init /\ [][Next]_vars

-----------------------------------------------------------------------------
(* Properties *)

\* The heap's end, the program counter and the operands are in their ranges.
TypeOK ==
    /\ DOMAIN HEAP = 0 .. HeapSize - 1
    /\ heap_ptr \in 0 .. HeapSize
    /\ canonical \in [1 .. 5 -> Nat]
    /\ PC \in 0 .. Len(program)
    /\ operand_stack \in Seq(Nat) /\ Len(operand_stack) <= Operands
    /\ status \in {"loaded", "running", "done", "error", "panic"}
    /\ status = "running" => PC < Len(program)

\* The bytes of a node are those it was made with.
Intact(a, node) ==
    IF node.tag = "Number"
    THEN \A b \in a .. a + NumberBytes - 1 :
           HEAP[b] = NumberByte(b, a, node.lit.type_name, node.num)
    ELSE HEAP[a] = Tag(node.tag)

\* The number of a node reads as its literal, or as Filler where that is too large.
Faithful(node) ==
    LET type == node.lit.type_name
    IN  type \in Integer =>
          numberNodeStr(type, node.num) =
            IF node.lit.val \in Range(type) THEN node.lit.val ELSE Filler

\* However often programs run on the one heap, what it was given reads back: no node is
\* written over by a later one, up to the heap's last byte, and no width loses a number.
NodesReadBack ==
    \A a \in DOMAIN made :
      Intact(a, made[a]) /\ (made[a].tag = "Number" => Faithful(made[a]))

\* An address that lies in the heap is that of a node which the heap gave out.  There are two
\* exceptions: the 0 that Binop answers, or that undefined memory reads as, while the heap has
\* given out nothing; and Filler, on a heap that will never take a number again.
PointsAtANode(address) ==
    address < HeapSize =>
      \/ address \in DOMAIN made
      \/ address = 0 /\ heap_ptr = 0
      \/ address = Filler /\ HeapFull

\* However often programs run, no operand points into the middle of a node or at memory of
\* the heap not given out, but for those two exceptions.  An operand outside the heap
\* (NoConstant, the 0xaa of undefined memory) points at nothing; and whether the node at 0 is
\* the one an instruction meant, where it answers 0 by default, is not said.
HeapOperandsAreNodes ==
    \A i \in 1 .. Len(operand_stack) : PointsAtANode(operand_stack[i])

\* A jump lands one past its target, and PC leaves the program only after a jump to its Done.
OnlyJumpsToDoneOvershoot ==
    PC = Len(program) =>
      \E i \in 1 .. Len(program) :
        program[i].op \in Jumps /\ program[i].addr = Len(program) - 1

=============================================================================
