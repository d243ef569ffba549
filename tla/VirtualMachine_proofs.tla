----------------------- MODULE VirtualMachine_proofs -----------------------
(***************************************************************************)
(* The machine's invariants, for every heap size, word width, set of       *)
(* literals and set of programs.                                           *)
(***************************************************************************)
EXTENDS VirtualMachine, TLAPS

-----------------------------------------------------------------------------
(* The inductive invariant *)

Extent(node) == IF node.tag = "Number" THEN NumberBytes ELSE 1

HasNumber(lit) == lit.type_name \in Integer => lit.val \in Int

\* What a node was made to hold is a number that its literal can become.
HoldsNumber(node) ==
    /\ node.lit.type_name \in Numeric
    /\ HasNumber(node.lit)
    /\ node.num \in literalValToNum(node.lit)

NodeInv(a) ==
    /\ a \in Nat
    /\ a + Extent(made[a]) <= heap_ptr
    /\ Intact(a, made[a])
    /\ made[a].tag = "Number" => HoldsNumber(made[a])

\* The nodes made lie whole below heap_ptr, the first of them at 0, and a byte that says Number
\* starts one of them.
HeapInv ==
    /\ DOMAIN HEAP = 0 .. HeapSize - 1
    /\ heap_ptr \in 0 .. HeapSize
    /\ heap_ptr = 0 \/ 0 \in DOMAIN made
    /\ \A a \in DOMAIN made : NodeInv(a)
    /\ \A a \in DOMAIN HEAP :
         HEAP[a] = Tag("Number") => a \in DOMAIN made /\ made[a].tag = "Number"

CanonicalInv ==
    /\ canonical \in [1 .. 5 -> Nat]
    /\ \A i \in 1 .. 5 : canonical[i] \in DOMAIN made \union Garbage

StackInv ==
    /\ operand_stack \in Seq(Nat)
    /\ Len(operand_stack) <= Operands
    /\ HeapOperandsAreNodes

ProgramInv ==
    /\ program \in Programs
    /\ PC \in 0 .. Len(program)
    /\ status \in {"loaded", "running", "done", "error", "panic"}
    /\ status = "running" => PC < Len(program)
    /\ OnlyJumpsToDoneOvershoot

IInv == HeapInv /\ CanonicalInv /\ StackInv /\ ProgramInv

\* What every step does to the heap: nothing is given back.
Grows ==
    /\ DOMAIN made \subseteq DOMAIN made'
    /\ heap_ptr' >= heap_ptr
    /\ heap_ptr' \in Nat
    /\ heap_ptr' = 0 \/ 0 \in DOMAIN made'

Allocates(lit, num) ==
    /\ ~HeapFull
    /\ lit.type_name \in Numeric
    /\ HasNumber(lit)
    /\ num \in literalValToNum(lit)
    /\ HEAP' = WithNumber(heap_ptr, lit.type_name, num)
    /\ made' = Made(heap_ptr, [tag |-> "Number", lit |-> lit, num |-> num])
    /\ heap_ptr' = heap_ptr + NumberBytes

-----------------------------------------------------------------------------
(* Numbers *)

\* The number of a node reads as its literal.
LEMMA NumberReadsBack ==
    ASSUME NEW node, HoldsNumber(node)
    PROVE  Faithful(node)
<1> DEFINE type == node.lit.type_name
           val == node.lit.val
<1> SUFFICES ASSUME type \in Integer
             PROVE  numberNodeStr(type, node.num) = IF val \in Range(type) THEN val ELSE Filler
    BY DEF Faithful
<1>1. val \in Int /\ type # "f64"
    BY DEF HoldsNumber, HasNumber, Integer, Signed
<1>2. CASE val \notin Range(type)
    <2>1. node.num = Filler
        BY <1>1, <1>2 DEF HoldsNumber, literalValToNum
    <2>2. Filler < Half64
        BY FillerAssumption, WidthAssumption
    <2>. QED  BY <1>2, <2>1, <2>2, FillerAssumption, WidthAssumption DEF numberNodeStr
<1>3. CASE val \in Range(type)
    <2>1. node.num = IF val < 0 THEN val + 2 * Half64 ELSE val
        BY <1>1, <1>3 DEF HoldsNumber, literalValToNum
    <2>2. CASE type \in Signed
        <3>1. val >= -Half64 /\ val < Half64
            BY <1>3, <2>2, WidthAssumption DEF Range, Signed
        <3>. QED  BY <1>1, <1>3, <2>1, <2>2, <3>1, WidthAssumption DEF numberNodeStr
    <2>3. CASE type \notin Signed
        <3>1. val >= 0
            BY <1>3, <2>3, WidthAssumption DEF Range, Integer
        <3>. QED  BY <1>1, <1>3, <2>1, <2>3, <3>1 DEF numberNodeStr
    <2>. QED  BY <2>2, <2>3
<1>. QED  BY <1>2, <1>3

\* What is read back from a node is a literal again.
LEMMA NumberIsAnInteger ==
    ASSUME NEW node, HoldsNumber(node), node.lit.type_name \in Integer
    PROVE  numberNodeStr(node.lit.type_name, node.num) \in Int
<1>1. Faithful(node)
    BY NumberReadsBack
<1>. QED  BY <1>1, FillerAssumption, WidthAssumption DEF Faithful, HoldsNumber, HasNumber

-----------------------------------------------------------------------------
(* The heap *)

LEMMA NumberHasBytes == NumberBytes \in Nat /\ NumberBytes >= 3
    BY HeapAssumption DEF NumberBytes

\* A node stays what it is while bytes are written from heap_ptr on.
LEMMA NodeKept ==
    ASSUME HeapInv, NEW a \in DOMAIN made, made'[a] = made[a],
           heap_ptr' \in Nat, heap_ptr' >= heap_ptr,
           \A b \in 0 .. heap_ptr - 1 : HEAP'[b] = HEAP[b]
    PROVE  NodeInv(a)'
<1>1. NodeInv(a) /\ heap_ptr \in Nat /\ HeapSize \in Nat
    BY HeapAssumption DEF HeapInv
<1>2. Extent(made[a]) \in Nat /\ Extent(made[a]) >= 1
    BY NumberHasBytes DEF Extent
<1>3. a + Extent(made[a]) <= heap_ptr'
    BY <1>1, <1>2 DEF NodeInv
<1>4. Intact(a, made[a])'
    <2>1. CASE made[a].tag = "Number"
        <3>1. \A b \in a .. a + NumberBytes - 1 : HEAP'[b] = HEAP[b]
            BY <1>1, <2>1, NumberHasBytes DEF NodeInv, Extent
        <3>. QED  BY <1>1, <2>1, <3>1 DEF NodeInv, Intact
    <2>2. CASE made[a].tag # "Number"
        <3>1. HEAP'[a] = HEAP[a]
            BY <1>1, <2>2 DEF NodeInv, Extent
        <3>. QED  BY <1>1, <2>2, <3>1 DEF NodeInv, Intact
    <2>. QED  BY <2>1, <2>2
<1>. QED  BY <1>1, <1>3, <1>4 DEF NodeInv, Extent, Intact

LEMMA AllocateHeap ==
    ASSUME HeapInv, NEW lit, NEW num, Allocates(lit, num)
    PROVE  HeapInv' /\ Grows /\ heap_ptr \in DOMAIN made'
<1> DEFINE node == [tag |-> "Number", lit |-> lit, num |-> num]
           fresh == heap_ptr .. heap_ptr + NumberBytes - 1
<1>1. heap_ptr \in Nat /\ HeapSize \in Nat /\ heap_ptr + NumberBytes <= HeapSize
    BY HeapAssumption, NumberHasBytes DEF HeapInv, Allocates, HeapFull
<1>2. /\ HEAP' = [a \in DOMAIN HEAP |->
                    IF a \in fresh THEN NumberByte(a, heap_ptr, lit.type_name, num) ELSE HEAP[a]]
      /\ made' = [a \in DOMAIN made \union {heap_ptr} |-> IF a = heap_ptr THEN node ELSE made[a]]
      /\ heap_ptr' = heap_ptr + NumberBytes
    BY DEF Allocates, WithNumber, Made
<1>3. DOMAIN HEAP = 0 .. HeapSize - 1
    BY DEF HeapInv
<1>4. \A b \in fresh : HEAP'[b] = NumberByte(b, heap_ptr, lit.type_name, num)
    BY <1>1, <1>2, <1>3, NumberHasBytes
<1>5. \A b \in DOMAIN HEAP : b \notin fresh => HEAP'[b] = HEAP[b]
    BY <1>2
<1>6. Grows /\ heap_ptr' \in 0 .. HeapSize /\ heap_ptr' >= heap_ptr
    BY <1>1, <1>2, NumberHasBytes DEF Grows, HeapInv
<1>7. \A a \in DOMAIN made : a # heap_ptr
    BY <1>1, NumberHasBytes DEF HeapInv, NodeInv, Extent
<1>8. \A a \in DOMAIN made' : NodeInv(a)'
    <2>1. SUFFICES ASSUME NEW a \in DOMAIN made'
                   PROVE  NodeInv(a)'
        OBVIOUS
    <2>2. CASE a = heap_ptr
        <3>1. made'[a] = node
            BY <1>2, <2>2
        <3>2. Intact(a, made[a])'
            BY <1>4, <2>2, <3>1 DEF Intact
        <3>3. HoldsNumber(made'[a])
            BY <3>1 DEF HoldsNumber, Allocates
        <3>. QED  BY <1>1, <1>2, <2>2, <3>1, <3>2, <3>3, NumberHasBytes DEF NodeInv, Extent, HoldsNumber
    <2>3. CASE a # heap_ptr
        <3>1. a \in DOMAIN made /\ made'[a] = made[a]
            BY <1>2, <2>3
        <3>2. \A b \in 0 .. heap_ptr - 1 : HEAP'[b] = HEAP[b]
            BY <1>1, <1>3, <1>5, NumberHasBytes
        <3>3. heap_ptr' \in Nat
            BY <1>6 DEF Grows
        <3>. QED  BY <1>6, <3>1, <3>2, <3>3, NodeKept
    <2>. QED  BY <2>2, <2>3
<1>9. \A a \in DOMAIN HEAP' :
        HEAP'[a] = Tag("Number") => a \in DOMAIN made' /\ made'[a].tag = "Number"
    <2>1. SUFFICES ASSUME NEW a \in DOMAIN HEAP', HEAP'[a] = Tag("Number")
                   PROVE  a \in DOMAIN made' /\ made'[a].tag = "Number"
        OBVIOUS
    <2>2. CASE a = heap_ptr
        BY <1>2, <2>2
    <2>3. CASE a \in fresh /\ a # heap_ptr
        <3>1. HEAP'[a] = NumberByte(a, heap_ptr, lit.type_name, num)
            BY <1>4, <2>3
        <3>. QED  BY <2>1, <2>3, <3>1 DEF NumberByte, Tag, NumberType, Piece
    <2>4. CASE a \notin fresh
        <3>1. a \in DOMAIN HEAP /\ HEAP[a] = Tag("Number")
            BY <1>2, <1>5, <2>1, <2>4
        <3>2. a \in DOMAIN made /\ made[a].tag = "Number"
            BY <3>1 DEF HeapInv
        <3>. QED  BY <1>2, <1>7, <3>2
    <2>. QED  BY <2>2, <2>3, <2>4
<1>10. DOMAIN HEAP' = 0 .. HeapSize - 1 /\ heap_ptr \in DOMAIN made'
    BY <1>2, <1>3
<1>. QED  BY <1>6, <1>8, <1>9, <1>10 DEF HeapInv, Grows

LEMMA CanonicalHeap ==
    ASSUME HeapInv, CanonicalInv, initCanonicalValues
    PROVE  HeapInv' /\ CanonicalInv' /\ Grows
<1> DEFINE new(n) == heap_ptr .. heap_ptr + n - 1
           tag(a) == CanonicalTags[a - heap_ptr + 1]
<1>1. PICK n \in 0 .. 5 :
        /\ heap_ptr + n <= HeapSize
        /\ HEAP' = [a \in DOMAIN HEAP |-> IF a \in new(n) THEN Tag(tag(a)) ELSE HEAP[a]]
        /\ heap_ptr' = heap_ptr + n
        /\ canonical' = [i \in 1 .. 5 |-> IF i <= n THEN heap_ptr + i - 1 ELSE canonical[i]]
        /\ made' = [a \in DOMAIN made \union new(n) |->
                      IF a \in new(n) THEN [tag |-> tag(a)] ELSE made[a]]
    BY DEF initCanonicalValues
<1>2. heap_ptr \in Nat /\ HeapSize \in Nat /\ DOMAIN HEAP = 0 .. HeapSize - 1
    BY HeapAssumption DEF HeapInv
<1>3. Grows /\ heap_ptr' \in 0 .. HeapSize /\ heap_ptr' >= heap_ptr
    <2>1. heap_ptr' = 0 \/ 0 \in DOMAIN made'
        BY <1>1, <1>2 DEF HeapInv
    <2>. QED  BY <1>1, <1>2, <2>1 DEF Grows
<1>4. \A a \in new(n) : tag(a) # "Number"
    <2>1. \A a \in new(n) : a - heap_ptr + 1 \in 1 .. 5
        BY <1>2
    <2>2. \A i \in 1 .. 5 : CanonicalTags[i] # "Number"
        BY DEF CanonicalTags
    <2>. QED  BY <2>1, <2>2
<1>5. \A a \in DOMAIN made : a \notin new(n)
    BY <1>2, NumberHasBytes DEF HeapInv, NodeInv, Extent
<1>6. \A a \in DOMAIN made' : NodeInv(a)'
    <2>1. SUFFICES ASSUME NEW a \in DOMAIN made'
                   PROVE  NodeInv(a)'
        OBVIOUS
    <2>2. CASE a \in new(n)
        <3>1. made'[a] = [tag |-> tag(a)] /\ HEAP'[a] = Tag(tag(a))
            BY <1>1, <1>2, <2>2
        <3>2. made'[a].tag = tag(a) /\ made'[a].tag # "Number"
            BY <1>4, <2>2, <3>1
        <3>3. a \in Nat /\ a + 1 <= heap_ptr'
            BY <1>1, <1>2, <2>2
        <3>. HIDE DEF tag
        <3>. QED  BY <3>1, <3>2, <3>3 DEF NodeInv, Extent, Intact
    <2>3. CASE a \notin new(n)
        <3>1. a \in DOMAIN made /\ made'[a] = made[a]
            BY <1>1, <2>3
        <3>2. \A b \in 0 .. heap_ptr - 1 : HEAP'[b] = HEAP[b]
            BY <1>1, <1>2
        <3>3. heap_ptr' \in Nat
            BY <1>3 DEF Grows
        <3>. QED  BY <1>3, <3>1, <3>2, <3>3, NodeKept
    <2>. QED  BY <2>2, <2>3
<1>7. \A a \in DOMAIN HEAP' :
        HEAP'[a] = Tag("Number") => a \in DOMAIN made' /\ made'[a].tag = "Number"
    <2>1. SUFFICES ASSUME NEW a \in DOMAIN HEAP', HEAP'[a] = Tag("Number")
                   PROVE  a \in DOMAIN made' /\ made'[a].tag = "Number"
        OBVIOUS
    <2>2. CASE a \in new(n)
        <3>1. HEAP'[a] = Tag(tag(a))
            BY <1>1, <2>2
        <3>. HIDE DEF tag
        <3>. QED  BY <1>4, <2>1, <2>2, <3>1 DEF Tag
    <2>3. CASE a \notin new(n)
        <3>1. a \in DOMAIN HEAP /\ HEAP[a] = Tag("Number")
            BY <1>1, <2>1, <2>3
        <3>2. a \in DOMAIN made /\ made[a].tag = "Number"
            BY <3>1 DEF HeapInv
        <3>. QED  BY <1>1, <1>5, <3>2
    <2>. QED  BY <2>2, <2>3
<1>8. DOMAIN HEAP' = 0 .. HeapSize - 1
    BY <1>1, <1>2
<1>9. HeapInv'
    BY <1>3, <1>6, <1>7, <1>8 DEF HeapInv, Grows
<1>10. CanonicalInv'
    <2>1. canonical' \in [1 .. 5 -> Nat]
        <3>1. \A i \in 1 .. 5 : canonical[i] \in Nat /\ heap_ptr + i - 1 \in Nat
            BY <1>2 DEF CanonicalInv
        <3>. HIDE DEF tag, new
        <3>. QED  BY <1>1, <3>1
    <2>2. SUFFICES ASSUME NEW i \in 1 .. 5
                   PROVE  canonical'[i] \in DOMAIN made' \union Garbage
        BY <2>1 DEF CanonicalInv
    <2>3. CASE i <= n
        <3>1. canonical'[i] = heap_ptr + i - 1 /\ heap_ptr + i - 1 \in new(n)
            BY <1>1, <1>2, <2>3
        <3>. QED  BY <1>1, <3>1
    <2>4. CASE ~(i <= n)
        BY <1>1, <2>4 DEF CanonicalInv
    <2>. QED  BY <2>3, <2>4
<1>. QED  BY <1>3, <1>9, <1>10

-----------------------------------------------------------------------------
(* The operand stack *)

\* An answer is pushed that stands for a node.
Pushes(address) ==
    /\ address \in Nat
    /\ Push(address)
    /\ \/ address \in DOMAIN made' \union Garbage \union {0, NoConstant}
       \/ address = Filler /\ HeapFull'

LEMMA FullStaysFull ==
    ASSUME heap_ptr \in Nat, Grows, HeapFull
    PROVE  HeapFull'
<1> DEFINE p == heap_ptr
           q == heap_ptr'
           n == NumberBytes
<1>1. p \in Nat /\ q \in Nat /\ q >= p /\ n \in Nat /\ HeapSize \in Nat /\ p + n > HeapSize
    BY NumberHasBytes, HeapAssumption DEF HeapFull, Grows
<1>2. q + n > HeapSize => HeapFull'
    BY DEF HeapFull, NumberBytes
<1> HIDE DEF p, q, n
<1>3. q + n > HeapSize
    BY <1>1
<1>. QED  BY <1>2, <1>3

\* What points at a node, or at the bottom of an empty heap, goes on to.
LEMMA PointsOn ==
    ASSUME heap_ptr \in Nat, Grows, NEW address, PointsAtANode(address)
    PROVE  PointsAtANode(address)'
<1>1. HeapFull => HeapFull'
    BY FullStaysFull
<1>. QED  BY <1>1 DEF PointsAtANode, Grows

LEMMA PushedPoints ==
    ASSUME Grows, NEW address, Pushes(address)
    PROVE  PointsAtANode(address)'
<1>1. HeapSize \in Nat /\ address \in Nat
    BY HeapAssumption DEF Pushes
<1>2. CASE address \in DOMAIN made' \/ (address = Filler /\ HeapFull')
    BY <1>2 DEF PointsAtANode
<1>3. CASE address = 0
    BY <1>3 DEF PointsAtANode, Grows
<1>4. CASE address >= HeapSize
    BY <1>1, <1>4 DEF PointsAtANode
<1>. QED  BY <1>2, <1>3, <1>4, GarbageAssumption DEF Pushes

LEMMA CanonicalKept ==
    ASSUME CanonicalInv, Grows, UNCHANGED canonical
    PROVE  CanonicalInv'
    BY DEF CanonicalInv, Grows

LEMMA StackKept ==
    ASSUME heap_ptr \in Nat, StackInv, Grows, UNCHANGED operand_stack
    PROVE  StackInv'
<1>1. SUFFICES ASSUME NEW i \in 1 .. Len(operand_stack)
               PROVE  PointsAtANode(operand_stack[i])'
    BY DEF StackInv, HeapOperandsAreNodes
<1>2. PointsAtANode(operand_stack[i])
    BY DEF StackInv, HeapOperandsAreNodes
<1>3. PICK address : address = operand_stack[i]
    OBVIOUS
<1>4. PointsAtANode(address)'
    BY <1>2, <1>3, PointsOn
<1>. QED  BY <1>3, <1>4 DEF PointsAtANode

LEMMA StackPushed ==
    ASSUME heap_ptr \in Nat, StackInv, Grows,
           NEW address, Pushes(address)
    PROVE  StackInv'
<1>1. CASE StackFull
    BY <1>1, StackKept DEF Pushes, Push
<1>2. CASE ~StackFull
    <2> DEFINE n == Len(operand_stack)
    <2>1. /\ operand_stack \in Seq(Nat) /\ n \in Nat /\ n <= Operands /\ n # Operands
          /\ address \in Nat
        BY <1>2 DEF StackInv, StackFull, Pushes
    <2>2. operand_stack' = Append(operand_stack, address)
        BY <1>2 DEF Pushes, Push
    <2>3. /\ operand_stack' \in Seq(Nat)
          /\ Len(operand_stack') = n + 1
          /\ \A i \in 1 .. n : operand_stack'[i] = operand_stack[i]
          /\ operand_stack'[n + 1] = address
        BY <2>1, <2>2
    <2>4. \A i \in 1 .. n : PointsAtANode(operand_stack[i])
        BY DEF StackInv, HeapOperandsAreNodes
    <2> HIDE DEF n
    <2>5. PointsAtANode(address)'
        BY PushedPoints
    <2>6. ASSUME NEW i \in 1 .. Len(operand_stack')
          PROVE  PointsAtANode(operand_stack[i])'
        <3>1. CASE i = n + 1
            BY <2>3, <2>5, <3>1 DEF PointsAtANode
        <3>2. CASE i # n + 1
            <4>1. i \in 1 .. n
                BY <2>1, <2>3, <2>6, <3>2
            <4>2. PointsAtANode(operand_stack[i]) /\ operand_stack'[i] = operand_stack[i]
                BY <2>3, <2>4, <4>1
            <4>3. PICK operand : operand = operand_stack[i]
                OBVIOUS
            <4>4. PointsAtANode(operand)'
                BY <4>2, <4>3, PointsOn
            <4>. QED  BY <4>2, <4>3, <4>4 DEF PointsAtANode
        <3>. QED  BY <3>1, <3>2
    <2>7. n + 1 <= Operands
        BY <2>1, HeapAssumption
    <2>. QED  BY <2>3, <2>6, <2>7 DEF StackInv, HeapOperandsAreNodes
<1>. QED  BY <1>1, <1>2

\* What an instruction that pushes does to the heap and to the stack.
LEMMA LiteralPushed ==
    ASSUME HeapInv, CanonicalInv, StackInv, UNCHANGED canonical,
           NEW lit, HasNumber(lit), val_to_addr(lit)
    PROVE  HeapInv' /\ CanonicalInv' /\ StackInv'
<1>1. heap_ptr \in Nat /\ Filler \in Nat /\ NoConstant \in Nat
    BY HeapAssumption, FillerAssumption, GarbageAssumption DEF HeapInv
<1>2. CASE lit.type_name \in Numeric /\ HeapFull
    <2>1. Push(Filler) /\ UNCHANGED <<HEAP, heap_ptr, made>>
        BY <1>2 DEF val_to_addr, heapAllocateNumber
    <2>2. HeapInv' /\ Grows /\ HeapFull'
        BY <1>1, <1>2, <2>1 DEF HeapInv, NodeInv, Intact, Grows, HeapFull
    <2>3. Pushes(Filler)
        BY <1>1, <2>1, <2>2 DEF Pushes
    <2>4. StackInv' /\ CanonicalInv'
        BY <1>1, <2>2, <2>3, CanonicalKept, StackPushed
    <2>. QED  BY <2>2, <2>4
<1>3. CASE lit.type_name \in Numeric /\ ~HeapFull
    <2>1. PICK num \in literalValToNum(lit) : Allocates(lit, num)
        BY <1>3 DEF val_to_addr, heapAllocateNumber, Allocates
    <2>2. Push(heap_ptr)
        BY <1>3 DEF val_to_addr, heapAllocateNumber
    <2>3. HeapInv' /\ Grows /\ heap_ptr \in DOMAIN made'
        BY <2>1, AllocateHeap
    <2>4. Pushes(heap_ptr)
        BY <1>1, <2>2, <2>3 DEF Pushes
    <2>5. StackInv' /\ CanonicalInv'
        BY <1>1, <2>3, <2>4, CanonicalKept, StackPushed
    <2>. QED  BY <2>3, <2>5
<1>4. CASE lit.type_name \notin Numeric
    <2>1. UNCHANGED <<HEAP, heap_ptr, made>>
        BY <1>4 DEF val_to_addr
    <2>2. PICK address \in {True, False, NoConstant} : Push(address)
        BY <1>4 DEF val_to_addr
    <2>3. address \in Nat /\ address \in DOMAIN made \union Garbage \union {0, NoConstant}
        BY <1>1, <2>2 DEF True, False, CanonicalInv
    <2>4. HeapInv' /\ Grows
        BY <1>1, <2>1 DEF HeapInv, NodeInv, Intact, Grows
    <2>5. Pushes(address)
        BY <2>1, <2>2, <2>3 DEF Pushes
    <2>6. StackInv' /\ CanonicalInv'
        BY <1>1, <2>4, <2>5, CanonicalKept, StackPushed
    <2>. QED  BY <2>4, <2>6
<1>. QED  BY <1>2, <1>3, <1>4

\* A push that does without the heap.
LEMMA AnswerPushed ==
    ASSUME HeapInv, CanonicalInv, StackInv, UNCHANGED <<HEAP, heap_ptr, made, canonical>>,
           NEW address \in {True, False, 0} \union Garbage, Push(address)
    PROVE  HeapInv' /\ CanonicalInv' /\ StackInv'
<1>1. heap_ptr \in Nat
    BY HeapAssumption DEF HeapInv
<1>2. address \in Nat /\ address \in DOMAIN made \union Garbage \union {0, NoConstant}
    BY GarbageAssumption DEF True, False, CanonicalInv
<1>3. HeapInv' /\ Grows
    BY <1>1 DEF HeapInv, NodeInv, Intact, Grows
<1>4. Pushes(address)
    BY <1>2 DEF Pushes
<1>5. StackInv' /\ CanonicalInv'
    BY <1>1, <1>3, <1>4, CanonicalKept, StackPushed
<1>. QED  BY <1>3, <1>5

-----------------------------------------------------------------------------
(* The program *)

LEMMA InstructionParts ==
    ASSUME ProgramInv
    PROVE  /\ Len(program) \in Nat
           /\ \A i \in 1 .. Len(program) :
                /\ program[i].op = "Done" <=> i = Len(program)
                /\ program[i].op \in Jumps =>
                     program[i].addr \in Nat /\ program[i].addr < Len(program)
                /\ program[i].op = "Ldc" => program[i].lit \in Literals
<1>1. program \in Seq(Instruction) /\ WellFormed(program)
    BY ProgramsAssumption DEF ProgramInv
<1>2. ASSUME NEW i \in Instruction
      PROVE  /\ i.op \in Jumps => i.addr \in Nat
             /\ i.op = "Ldc" => i.lit \in Literals
    BY <1>2 DEF Instruction, Jumps, WithoutEffect
<1>3. \A i \in 1 .. Len(program) : program[i] \in Instruction
    BY <1>1
<1>. QED  BY <1>1, <1>2, <1>3 DEF WellFormed

\* The instruction at hand is the program's, and the last one is Done.
LEMMA InstrParts ==
    ASSUME ProgramInv, status = "running"
    PROVE  /\ PC \in Nat /\ PC + 1 \in 1 .. Len(program) /\ Len(program) \in Nat
           /\ instr.op = "Done" <=> PC + 1 = Len(program)
           /\ instr.op \in Jumps => instr.addr \in Nat /\ instr.addr < Len(program)
           /\ instr.op = "Ldc" => instr.lit \in Literals
<1>1. PC \in Nat /\ PC + 1 \in 1 .. Len(program)
    BY InstructionParts DEF ProgramInv
<1>. QED  BY <1>1, InstructionParts DEF instr

LEMMA Advanced ==
    ASSUME ProgramInv, status = "running", instr.op # "Done", Advance(PC)
    PROVE  ProgramInv'
<1> DEFINE n == Len(program)
<1>1. PC \in Nat /\ PC + 1 \in 1 .. n /\ n \in Nat /\ PC + 1 # n
    BY InstrParts
<1>2. PC' = PC + 1 /\ status' \in {"running", "panic"} /\ UNCHANGED program
    BY DEF Advance
<1> HIDE DEF n
<1>3. PC' \in 0 .. n /\ PC' < n
    BY <1>1, <1>2
<1>. QED  BY <1>1, <1>2, <1>3 DEF ProgramInv, OnlyJumpsToDoneOvershoot, n

LEMMA Jumped ==
    ASSUME ProgramInv, status = "running", instr.op \in Jumps, Advance(instr.addr)
    PROVE  ProgramInv'
<1> DEFINE n == Len(program)
           target == instr.addr
<1>1. /\ PC + 1 \in 1 .. n /\ n \in Nat /\ target \in Nat /\ target < n
      /\ program[PC + 1].op \in Jumps /\ program[PC + 1].addr = target
    BY InstrParts DEF instr
<1>2. /\ PC' = target + 1
      /\ status' = IF target + 1 < n THEN "running" ELSE "panic"
      /\ UNCHANGED program
    BY DEF Advance
<1> HIDE DEF n, target
<1>3. PC' \in 0 .. n /\ (status' = "running" => PC' < n)
    BY <1>1, <1>2
<1>4. PC' = n => target = n - 1
    BY <1>1, <1>2
<1>. QED  BY <1>1, <1>2, <1>3, <1>4 DEF ProgramInv, OnlyJumpsToDoneOvershoot, n

LEMMA AdvancedIfPushed ==
    ASSUME ProgramInv, status = "running", instr.op # "Done", AdvanceIfPushed
    PROVE  ProgramInv' /\ UNCHANGED canonical
<1>1. CASE Advance(PC)
    BY <1>1, Advanced DEF Advance
<1>2. CASE status' = "error" /\ UNCHANGED <<canonical, PC, program>>
    BY <1>2 DEF ProgramInv, OnlyJumpsToDoneOvershoot
<1>. QED  BY <1>1, <1>2 DEF AdvanceIfPushed

-----------------------------------------------------------------------------
(* Every step keeps the invariant *)

LEMMA InitInv == Init => IInv
<1> SUFFICES ASSUME Init
             PROVE  IInv
    OBVIOUS
<1>1. DOMAIN HEAP = 0 .. HeapSize - 1 /\ heap_ptr = 0 /\ DOMAIN made = {}
    BY DEF Init
<1>2. \A a \in DOMAIN HEAP : HEAP[a] # Tag("Number")
    BY DEF Init, Blank, Tag
<1>3. HeapInv
    BY <1>1, <1>2, HeapAssumption DEF HeapInv
<1>4. PICK undefined \in Garbage : canonical = [i \in 1 .. 5 |-> undefined]
    BY DEF Init
<1>5. CanonicalInv
    BY <1>4, GarbageAssumption DEF CanonicalInv
<1>6. StackInv
    BY HeapAssumption DEF Init, StackInv, HeapOperandsAreNodes
<1>7. ProgramInv
    <2>1. program \in Programs /\ PC = 0 /\ status = "loaded"
        BY DEF Init
    <2>2. program \in Seq(Instruction) /\ program # << >>
        BY <2>1, ProgramsAssumption DEF WellFormed
    <2>3. Len(program) \in Nat /\ Len(program) # 0
        BY <2>2
    <2>. QED  BY <2>1, <2>3 DEF ProgramInv, OnlyJumpsToDoneOvershoot
<1>. QED  BY <1>3, <1>5, <1>6, <1>7 DEF IInv

\* A step that leaves the heap alone and pushes nothing.
LEMMA HeapAlone ==
    ASSUME HeapInv, CanonicalInv, StackInv,
           UNCHANGED <<HEAP, heap_ptr, made, canonical, operand_stack>>
    PROVE  HeapInv' /\ CanonicalInv' /\ StackInv'
<1>1. heap_ptr \in Nat
    BY HeapAssumption DEF HeapInv
<1>2. HeapInv' /\ Grows
    BY <1>1 DEF HeapInv, NodeInv, Intact, Grows
<1>. QED  BY <1>1, <1>2, CanonicalKept, StackKept

LEMMA PanicKeeps ==
    ASSUME IInv, Panic
    PROVE  IInv'
<1>1. HeapInv' /\ CanonicalInv' /\ StackInv'
    BY HeapAlone DEF IInv, Panic, heapVars
<1>2. ProgramInv'
    BY DEF IInv, Panic, ProgramInv, OnlyJumpsToDoneOvershoot
<1>. QED  BY <1>1, <1>2 DEF IInv

LEMMA LdcKeeps ==
    ASSUME IInv, Ldc
    PROVE  IInv'
<1>1. /\ status = "running" /\ instr.op = "Ldc"
      /\ val_to_addr(instr.lit) /\ AdvanceIfPushed
    BY DEF Ldc, Executing
<1>2. ProgramInv' /\ UNCHANGED canonical
    BY <1>1, AdvancedIfPushed DEF IInv
<1>3. HasNumber(instr.lit)
    BY <1>1, InstrParts, LiteralsAssumption DEF IInv, HasNumber
<1> DEFINE lit == instr.lit
<1>4. HasNumber(lit) /\ val_to_addr(lit)
    BY <1>1, <1>3
<1> HIDE DEF lit
<1>5. HeapInv' /\ CanonicalInv' /\ StackInv'
    BY <1>2, <1>4, LiteralPushed DEF IInv
<1>. QED  BY <1>2, <1>5 DEF IInv

\* What is read at the address of a number is a literal.
LEMMA NumbersRead ==
    ASSUME HeapInv, NEW a \in DOMAIN HEAP, NEW lit \in NumbersAt(a)
    PROVE  HasNumber(lit)
<1>1. CASE HEAP[a] # Tag("Number")
    BY <1>1, LiteralsAssumption DEF NumbersAt, HasNumber
<1>2. CASE HEAP[a] = Tag("Number")
    <2> DEFINE node == made[a]
    <2>1. a \in DOMAIN made /\ node.tag = "Number"
        BY <1>2 DEF HeapInv
    <2>2. a \in Nat /\ Intact(a, node) /\ HoldsNumber(node)
        BY <2>1 DEF HeapInv, NodeInv
    <2>3. \A b \in a .. a + NumberBytes - 1 :
            HEAP[b] = NumberByte(b, a, node.lit.type_name, node.num)
        BY <2>1, <2>2 DEF Intact
    <2>4. a + 1 \in a .. a + NumberBytes - 1 /\ a + 2 \in a .. a + NumberBytes - 1
        BY <2>2, NumberHasBytes
    <2> HIDE DEF node
    <2>5. HEAP[a + 1] = NumberType(node.lit.type_name)
        BY <2>2, <2>3, <2>4 DEF NumberByte
    <2>6. HEAP[a + 2] = Piece(node.num, a + 2 - a - 1)
        BY <2>2, <2>3, <2>4 DEF NumberByte
    <2>7. HEAP[a + 1][2] = node.lit.type_name /\ HEAP[a + 2][2] = node.num
        BY <2>5, <2>6 DEF NumberType, Piece
    <2>8. lit = [type_name |-> node.lit.type_name,
                 val |-> numberNodeStr(node.lit.type_name, node.num)]
        BY <1>2, <2>7 DEF NumbersAt
    <2>. QED  BY <2>2, <2>8, NumberIsAnInteger DEF HasNumber
<1>. QED  BY <1>1, <1>2

LEMMA UnopKeeps ==
    ASSUME IInv, Unop
    PROVE  IInv'
<1>1. CASE Panic
    BY <1>1, PanicKeeps
<1>2. CASE ~Panic
    <2>1. /\ status = "running" /\ instr.op = "Unop" /\ AdvanceIfPushed /\ Top \in DOMAIN HEAP
          /\ \E tag \in TagsAt(Top) : apply_unop(instr.sym, Top, tag)
        BY <1>2 DEF Unop, Executing, Assert
    <2>2. ProgramInv' /\ UNCHANGED canonical
        BY <2>1, AdvancedIfPushed DEF IInv
    <2>3. PICK tag \in TagsAt(Top) : apply_unop(instr.sym, Top, tag)
        BY <2>1
    <2> DEFINE a == Top
               sym == instr.sym
    <2>4. apply_unop(sym, a, tag) /\ a \in DOMAIN HEAP
        BY <2>1, <2>3
    <2> HIDE DEF a, sym
    <2>5. CASE sym = "neg" /\ tag = "Number"
        <3>1. PICK lit \in NumbersAt(a) : val_to_addr(lit)
            BY <2>4, <2>5 DEF apply_unop
        <3>2. HasNumber(lit)
            BY <2>4, <3>1, NumbersRead DEF IInv
        <3>3. HeapInv' /\ CanonicalInv' /\ StackInv'
            BY <2>2, <3>1, <3>2, LiteralPushed DEF IInv
        <3>. QED  BY <2>2, <3>3 DEF IInv
    <2>6. CASE ~(sym = "neg" /\ tag = "Number")
        <3>1. UNCHANGED <<HEAP, heap_ptr, made>>
            BY <2>4, <2>6 DEF apply_unop
        <3>2. PICK address \in {True, False} \union Garbage : Push(address)
            BY <2>4, <2>6 DEF apply_unop
        <3>3. HeapInv' /\ CanonicalInv' /\ StackInv'
            BY <2>2, <3>1, <3>2, AnswerPushed DEF IInv
        <3>. QED  BY <2>2, <3>3 DEF IInv
    <2>. QED  BY <2>5, <2>6
<1>. QED  BY <1>1, <1>2

LEMMA BinopKeeps ==
    ASSUME IInv, Binop
    PROVE  IInv'
<1>1. CASE Panic
    BY <1>1, PanicKeeps
<1>2. CASE ~Panic
    <2>1. /\ status = "running" /\ instr.op = "Binop" /\ AdvanceIfPushed
          /\ Push(0) /\ UNCHANGED <<HEAP, heap_ptr, made>>
        BY <1>2 DEF Binop, Executing, Assert
    <2>2. ProgramInv' /\ UNCHANGED canonical
        BY <2>1, AdvancedIfPushed DEF IInv
    <2>3. HeapInv' /\ CanonicalInv' /\ StackInv'
        BY <2>1, <2>2, AnswerPushed DEF IInv
    <2>. QED  BY <2>2, <2>3 DEF IInv
<1>. QED  BY <1>1, <1>2

\* Pop, Jof, Goto and what is skipped only move PC.
LEMMA MoveKeeps ==
    ASSUME IInv, Pop \/ Jof \/ Goto \/ Skip
    PROVE  IInv'
<1>1. CASE Panic
    BY <1>1, PanicKeeps
<1>2. CASE ~Panic
    <2>1. /\ status = "running" /\ UNCHANGED <<HEAP, heap_ptr, made, operand_stack>>
          /\ \/ instr.op # "Done" /\ Advance(PC)
             \/ instr.op \in Jumps /\ Advance(instr.addr)
        BY <1>2 DEF Pop, Jof, Goto, Skip, Executing, Assert, WithoutEffect, Jumps
    <2>2. ProgramInv' /\ UNCHANGED canonical
        BY <2>1, Advanced, Jumped DEF IInv, Advance
    <2>3. HeapInv' /\ CanonicalInv' /\ StackInv'
        BY <2>1, <2>2, HeapAlone DEF IInv
    <2>. QED  BY <2>2, <2>3 DEF IInv
<1>. QED  BY <1>1, <1>2

LEMMA CanonicalKeeps ==
    ASSUME IInv, initCanonicalValues
    PROVE  IInv'
<1>1. HeapInv' /\ CanonicalInv' /\ Grows
    BY CanonicalHeap DEF IInv
<1>2. UNCHANGED <<PC, operand_stack, program, status>> /\ heap_ptr \in Nat
    BY HeapAssumption DEF initCanonicalValues, IInv, HeapInv
<1>3. StackInv'
    BY <1>1, <1>2, StackKept DEF IInv
<1>4. ProgramInv'
    BY <1>2 DEF IInv, ProgramInv, OnlyJumpsToDoneOvershoot
<1>. QED  BY <1>1, <1>3, <1>4 DEF IInv

LEMMA RunKeeps ==
    ASSUME IInv, run
    PROVE  IInv'
<1>1. /\ UNCHANGED <<HEAP, heap_ptr, made, canonical, program>>
      /\ PC' = 0 /\ status' = "running" /\ operand_stack' = << >>
    BY DEF run, heapVars
<1>2. HeapInv' /\ CanonicalInv'
    BY <1>1 DEF IInv, HeapInv, NodeInv, Intact, CanonicalInv
<1>3. StackInv'
    BY <1>1, HeapAssumption DEF StackInv, HeapOperandsAreNodes
<1>4. Len(program) \in Nat /\ Len(program) # 0
    BY ProgramsAssumption DEF IInv, ProgramInv, WellFormed
<1>5. ProgramInv'
    BY <1>1, <1>4 DEF IInv, ProgramInv, OnlyJumpsToDoneOvershoot
<1>. QED  BY <1>2, <1>3, <1>5 DEF IInv

LEMMA DoneKeeps ==
    ASSUME IInv, Done
    PROVE  IInv'
<1>1. HeapInv' /\ CanonicalInv' /\ StackInv'
    BY HeapAlone DEF IInv, Done, heapVars
<1>2. ProgramInv'
    BY DEF IInv, Done, ProgramInv, OnlyJumpsToDoneOvershoot
<1>. QED  BY <1>1, <1>2 DEF IInv

LEMMA StepInv == IInv /\ [Next]_vars => IInv'
<1> SUFFICES ASSUME IInv, [Next]_vars
             PROVE  IInv'
    OBVIOUS
<1>1. CASE UNCHANGED vars
    BY <1>1 DEF IInv, HeapInv, NodeInv, Intact, CanonicalInv, StackInv, HeapOperandsAreNodes,
                PointsAtANode, HeapFull, ProgramInv, OnlyJumpsToDoneOvershoot, vars
<1>2. CASE Next
    BY <1>1, <1>2, CanonicalKeeps, RunKeeps, LdcKeeps, UnopKeeps, BinopKeeps, MoveKeeps,
       DoneKeeps DEF Next, Stopped
<1>. QED  BY <1>1, <1>2

-----------------------------------------------------------------------------
(* Theorems *)

LEMMA InvariantHolds == Spec => []IInv
  BY InitInv, StepInv, PTL DEF Spec

LEMMA InvImplies ==
    ASSUME IInv
    PROVE  TypeOK /\ NodesReadBack /\ HeapOperandsAreNodes /\ OnlyJumpsToDoneOvershoot
<1>1. TypeOK
    BY DEF IInv, HeapInv, CanonicalInv, StackInv, ProgramInv, TypeOK
<1>2. NodesReadBack
    BY NumberReadsBack DEF IInv, HeapInv, NodeInv, NodesReadBack
<1>. QED  BY <1>1, <1>2 DEF IInv, StackInv, ProgramInv

\* The heap's end, the program counter and the operands stay in their ranges: run's assertion on
\* PC and heapAllocate's test.
THEOREM TypesHold == Spec => []TypeOK
  BY InvariantHolds, InvImplies, PTL

\* What the heap was given reads back, whatever runs on it: heapAllocateNumber,
\* initCanonicalValues and literalValToNum.
THEOREM NodesAlwaysReadBack == Spec => []NodesReadBack
  BY InvariantHolds, InvImplies, PTL

\* No operand points into the middle of a node or at memory of the heap not given out, but for
\* 0 on an empty heap and Filler on a full one: eval_instruction, apply_unop and val_to_addr.
THEOREM HeapOperandsAlwaysAreNodes == Spec => []HeapOperandsAreNodes
  BY InvariantHolds, InvImplies, PTL

\* PC leaves the program only after a jump to its last instruction: run's loop.
THEOREM OvershootsOnlyAtDone == Spec => []OnlyJumpsToDoneOvershoot
  BY InvariantHolds, InvImplies, PTL

=============================================================================
