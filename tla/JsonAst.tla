------------------------------ MODULE JsonAst ------------------------------
(***************************************************************************)
(* The decoding of the JSON tree by the compiler (vm/types.zig): a value   *)
(* of the type JsonAstNode, or an error, or a panic.                       *)
(***************************************************************************)
EXTENDS Naturals, Sequences

TypeName == {"i32", "u32", "i64", "u64", "f64", "String", "bool", "undefined"}

BinaryTags == {"comp", "logic", "arith", "reassign", "compound_assign", "type_cast"}
UnaryTags == {"borrow", "borrow_mut", "deref", "neg", "question"}
ControlTags == {"return_statement", "continue_statement", "break_statement"}

Tags == BinaryTags \union UnaryTags \union ControlTags \union
        {"lit", "nam", "app", "seq", "blk", "assign", "cond", "fun", "while_loop"}

\* The spellings that the operators' jsonParse know.
UnarySymbols == {"&", "&&", "mut", "*", "-", "!", "?"}
BinarySymbols ==
    {"==", "!=", "<", "<=", ">", ">=", "&&", "||", "+", "-", "*", "/", "%", "^", "|", "&",
     "<<", ">>", "=", "+=", "-=", "*=", "/=", "%=", "&=", "|=", "^=", "<<=", ">>=", "as"}

\* How the value of a node that has no children is decoded.
DecodesType(json) == json.tag = "type" /\ json.sym \in TypeName

\* An optional field takes null; a field of type []*JsonAstNode takes nodes.
RECURSIVE DecodesNode(_)
DecodesNode(json) ==
    LET optional(kid, decodes(_)) == kid.tag = "null" \/ decodes(kid)
        kid(i) == json.kids[i]
        n == Len(json.kids)
        nodes(S) == \A i \in S : DecodesNode(kid(i))
    IN  /\ json.tag \in Tags
        /\ json.tag \in UnaryTags => json.sym \in UnarySymbols
        /\ json.tag \in BinaryTags => json.sym \in BinarySymbols
        /\ CASE json.tag = "lit"       -> DecodesType(kid(1))
             [] json.tag = "assign"    -> optional(kid(1), DecodesType) /\ nodes({2})
             [] json.tag = "cond"      -> nodes({1, 2}) /\ optional(kid(3), DecodesNode)
             [] json.tag = "fun"       -> /\ \A i \in 1 .. n - 2 : DecodesType(kid(i).kids[1])
                                          /\ optional(kid(n - 1), DecodesType)
                                          /\ optional(kid(n), DecodesNode)
             [] json.tag \in ControlTags -> optional(kid(1), DecodesNode)
             [] OTHER                  -> nodes(1 .. n)

=============================================================================
