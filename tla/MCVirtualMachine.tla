-------------------------- MODULE MCVirtualMachine --------------------------
(* Every program of two instructions, and longer ones, on a heap that a few numbers fill. *)
EXTENDS VirtualMachine

Lit(type, val) == [type_name |-> type, val |-> val]

\* Literals that fit, at the ends of their types, and one that does not.
MCLiterals ==
    {Lit("i32", -16), Lit("i32", 16), Lit("u64", 63), Lit("f64", 0), Lit("Bool", 1),
     Lit("String", 0)}

ldc(lit) == [op |-> "Ldc", lit |-> lit]
jump(op, addr) == [op |-> op, addr |-> addr]
unop(sym) == [op |-> "Unop", sym |-> sym]
just(op) == [op |-> op]

MCInstructions ==
    {ldc(lit) : lit \in MCLiterals} \union {jump(op, addr) : op \in Jumps, addr \in 0 .. 2}
      \union {unop("neg"), unop("other"), just("Binop"), just("Pop"), just("Ld")}

\* Two operands, loops that allocate or negate until the heap or the stack is full, and a jump
\* over what would fail.
Longer ==
    {<<ldc(l), ldc(m), just("Binop")>> : l, m \in MCLiterals} \union
    {<<ldc(l), ldc(m), unop("neg"), jump(op, 1)>> : l, m \in MCLiterals, op \in Jumps} \union
    {<<jump("Goto", 1), just("Binop"), ldc(l), just("Pop"), jump("Jof", 0)>> : l \in MCLiterals}

MCPrograms ==
    {Append(code, just("Done")) :
       code \in {<< >>} \union {<<i>> : i \in MCInstructions \ {jump(op, 2) : op \in Jumps}}
                  \union {<<i, j>> : i, j \in MCInstructions} \union Longer}
=============================================================================
