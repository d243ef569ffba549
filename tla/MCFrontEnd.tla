----------------------------- MODULE MCFrontEnd -----------------------------
(***************************************************************************)
(* Sources for the front end.  A profile lets a few kinds of words and a   *)
(* few rules meet, within a number of words that lets them combine.  What  *)
(* a rule method still costs is the least number of words that can follow. *)
(***************************************************************************)
EXTENDS FrontEnd, FiniteSetsExt

Fn == {"fn", "f", "(", ")", "{", "}"}

\* Rules that most profiles do without.
Signature == {"functionParameters", "functionReturnType", "genericParams", "whereClause"}
Attributes == {"innerAttribute", "outerAttribute"}
Macros == {"macroInvocation", "macroItem"}
MacroTokens == {"macroInvocationSemi", "macroPunctuationToken", "macroIdentifierLikeToken"}
Plain == Signature \union Attributes \union Macros \union
         {"structExpression", "closureExpression", "genericArgs"}
OneExpression == Plain \union {"statement"}

\* By name: the number of words, the words, the rules left out, and the syntax errors.
Sources ==
    [statements |-> <<12, Fn \union {"let", "=", "1", ";", "x"}, Plain, 1>>,
     lets |->
         <<14, Fn \union {"let", "mut", ":", "=", ";"},
           Plain \union {"callParams", "tupleElements", "tuplePattern", "tupleType",
             "expressionWithBlock"}, 0>>,
     signatures |->
         <<16, {"fn", "i32", "(", ")", "{", "}", ":", ",", "->"},
           (Plain \ Signature) \union {"statements", "genericParams", "tuplePattern",
             "groupedPattern", "tupleStructPattern", "parenthesizedType", "tupleType",
             "bareFunctionType", "typePathFn", "selfParam", "pathPattern"}, 0>>,
     operators |-> <<14, Fn \union {"+", "*", "="}, OneExpression \union {"callParams"}, 0>>,
     levels |->
         <<12, Fn \union {"*", "-", "<", "&", "^", "|", "==", "&&", "||", "..=", "=", "+="},
           OneExpression \union {"callParams"}, 0>>,
     symbols |->
         <<10, Fn \union Arith \union Comp \union CompoundAssign \union {"||", "&&", "=", "!", "?"},
           OneExpression \union {"callParams"}, 0>>,
     postfix |->
         <<12, Fn \union {"1", "[", "]", ".", "?", ",", "await", "as", "-"},
           OneExpression, 0>>,
     jumps |->
         <<11, Fn \union {"'a", "return", "break", "continue", ";"},
           Plain \union {"callParams"}, 0>>,
     control |->
         <<14, Fn \union {"if", "else", "while", ";"},
           OneExpression \union {"callParams", "arrayElements", "tupleElements"}, 0>>,
     loops |->
         <<13, Fn \union {"loop", "for", "in", "let", "=", "if", "while", ":", "'a", "unsafe",
           "async", "move"},
           OneExpression \union {"callParams", "tupleElements"}, 0>>,
     matches |->
         <<14, Fn \union {"match", "=>", ",", "if", "|", "_"},
           OneExpression \union {"callParams", "tupleElements"}, 0>>,
     arms |->
         <<18, {"match", "const", "f", "=", ":", "{", "}", ";", "=>", "_", ","},
           OneExpression \union {"statements", "blockExpression"}, 0>>,
     binding |->
         <<15, {"if", "while", "let", "const", "f", "=", ":", "{", "}", ";"},
           OneExpression \union {"statements"}, 0>>,
     patterns |->
         <<13, Fn \union {"let", "mut", "ref", "@", "|", "&", "_", "1", "=", ";", "::"},
           Plain \union {"callParams", "tupleElements", "expressionWithBlock",
             "tuplePattern"}, 0>>,
     fields |->
         <<13, Fn \union {"let", ":", "..", ",", ";", "mut"},
           Plain \union {"callParams", "expression", "type_"}, 0>>,
     slices |->
         <<12, Fn \union {"let", "[", "]", ",", "..=", "..", "-", "1", ";", ":"},
           Plain \union {"callParams", "expression", "type_"}, 0>>,
     literals |->
         <<9, (Fn \union DOMAIN Lexeme \union {"true", "let", "=", ";"}) \ {"x", "i32"},
           OneExpression \union {"callParams"}, 0>>,
     calls |-> <<12, Fn \union {"!", "+"}, Plain \ {"macroInvocation"}, 0>>,
     nestedCalls |-> <<15, Fn \union {"x", ","}, OneExpression \union {"tupleElements"}, 0>>,
     arguments |->
         <<12, Fn \union {"::", "<", ">", "'a", ",", "1", "="},
           OneExpression \ {"genericArgs"}, 0>>,
     values |->
         <<11, Fn \union {"|", "move", "->", ":", ",", "[", "]", ";", "..", "1"},
           OneExpression \ {"structExpression", "closureExpression"}, 0>>,
     structs |->
         <<12, {"const", "f", "=", ":", "{", "}", ";", "..", ",", "1"},
           OneExpression \ {"structExpression"}, 0>>,
     types |->
         <<10, Fn \union {":", "*", "const", "&", "'a", "mut", "!", "_", "dyn", "impl", "+"},
           (Plain \ Signature) \union {"statements", "genericParams"}, 0>>,
     aliases |->
         <<11, {"type", "f", "=", ";", "[", "]", "1", "<", ">", "::"},
           Plain \ {"genericArgs"}, 0>>,
     bindings |-> <<13, {"type", "f", "=", ";", "<", ">", ","}, Plain \ {"genericArgs"}, 0>>,
     pointers |-> <<12, {"type", "f", "=", ";", "fn", "(", ")", "->", ",", "..."}, Plain, 0>>,
     parameters |->
         <<10, {"struct", "f", ";", "<", ">", "const", ":", "where", "for", "'a"},
           Plain \ Signature, 0>>,
     functions |->
         <<11, Fn \union {":", "mut", "&", "self", "->", "i32", ",", "...", "unsafe", "s",
           "extern"},
           (Plain \ Signature) \union {"statements", "genericParams", "tupleType",
             "parenthesizedType"}, 0>>,
     generics |->
         <<11, Fn \union {":", "<", ">", "'a", "const", "=", "where", "for"},
           (Plain \ {"genericParams", "whereClause"}) \union {"statements"}, 0>>,
     items |->
         <<9, {"f", ":", ";", "{", "}", "(", ")", ",", "=", "1", "struct", "enum", "union",
           "type", "const", "static", "mut", "pub", "crate", "in", "mod"},
           Plain \union {"expressionWithBlock"}, 0>>,
     modules |->
         <<8, {"f", ";", "{", "}", "use", "as", "::", "*", ",", "_", "self", "super", "crate",
           "extern", "s", "trait", "impl", "for", "unsafe", "type"},
           Plain, 0>>,
     macros |-> <<8, {"f", "!", "(", ")", "{", "}", ";", "1", "$", "+"}, Plain \ Macros, 0>>,
     rules |->
         <<16, {"macro_rules", "f", "!", "(", ")", "$", ":", "=>", ";"},
           (Plain \ Macros) \union MacroTokens, 0>>,
     repetitions |->
         <<18, {"macro_rules", "f", "!", "(", ")", "$", "=>", "*", ";"},
           (Plain \ Macros) \union MacroTokens \union {"tokenTreeToken"}, 0>>,
     attributes |-> <<10, Fn \union {"#", "[", "]", "!", "1", "=", ";"}, Plain \ Attributes, 0>> ]

MCProfiles ==
    [p \in DOMAIN Sources |->
       [budget |-> Sources[p][1], words |-> Sources[p][2] \union {EOF},
        without |-> Sources[p][3], repairs |-> Sources[p][4]]]

-----------------------------------------------------------------------------
(* How many words a production needs *)

Unaffordable == 1000

RECURSIVE Cost(_, _, _, _)
Cost(rule, p, types, known) ==
    LET cost(t) ==
          CASE t.op \in {"match", "set"} -> IF t.types \cap types = {} THEN Unaffordable ELSE 1
            [] t.op = "rule"             -> known[t.rule]
            [] t.op \in {"decision", "primary"} ->
                 Min({Cost(rule, a, types, known) : a \in AlternativesOf(rule, t)})
            [] OTHER                     -> 0
    IN  IF p = << >> THEN 0
        ELSE Min({Unaffordable, cost(Head(p)) + Cost(rule, Tail(p), types, known)})

RECURSIVE Cheapest(_, _, _)
Cheapest(types, without, known) ==
    LET better == [r \in Rules |-> IF r \in without THEN Unaffordable
                                   ELSE Cost(r, Production[r], types, known)]
    IN  IF better = known THEN known ELSE Cheapest(types, without, better)

TokenTypes == [p \in DOMAIN MCProfiles |-> {TokenType(w) : w \in MCProfiles[p].words}]
RuleCost ==
    [p \in DOMAIN MCProfiles |->
       Cheapest(TokenTypes[p], MCProfiles[p].without, [r \in Rules |-> Unaffordable])]

MCCostOf(p, rule, production) == Cost(rule, production, TokenTypes[p], RuleCost[p])
=============================================================================
