---------------------------- MODULE GenParseTree ----------------------------
(***************************************************************************)
(* The translation of a parse tree to the JSON tree                        *)
(* (parser/gen_parse_tree.py).  It finds its way by the number and the     *)
(* position of children, and refuses what it does not expect by raising an *)
(* exception: an assertion, NotImplementedError, a missing key, or a       *)
(* method that a token, a rule or None does not have.  All of them end the *)
(* translation alike, so that Raised stands for any.                       *)
(*                                                                         *)
(* A JSON node keeps its tag, its "sym" or other text made up by the       *)
(* translation, the tokens whose text it holds, and its children in the    *)
(* order of their keys.  The operators that walk a tree are recursive,     *)
(* which keeps this module and its users out of the prover's reach.        *)
(***************************************************************************)
EXTENDS RustParser, Functions

Raised == [tag |-> "<raised>", sym |-> NoText, tokens |-> << >>, kids |-> << >>]
Empty == [Raised EXCEPT !.tag = ""]       \* the string ""
Null == [Raised EXCEPT !.tag = "null"]    \* None

\* getSymbol() of what is no token, and an exception in any part, raise.
Json(tag, sym, tokens, kids) ==
    IF (\A i \in DOMAIN tokens : IsToken(tokens[i])) /\ Raised \notin Range(kids)
    THEN [tag |-> tag, sym |-> sym, tokens |-> tokens, kids |-> kids]
    ELSE Raised

\* The tokens of a tree from left to right, and its nodes.
RECURSIVE Leaves(_)
Leaves(t) ==
    LET of[i \in 0 .. Len(t.kids)] == IF i = 0 THEN << >> ELSE of[i - 1] \o Leaves(t.kids[i])
    IN  IF IsToken(t) THEN <<t>> ELSE of[Len(t.kids)]

RECURSIVE Nodes(_)
Nodes(t) == {t} \union UNION {Nodes(t.kids[i]) : i \in DOMAIN t.kids}

RECURSIVE Descend(_, _)
Descend(t, path) == IF path = << >> THEN t ELSE Descend(Child(t, Head(path)), Tail(path))

\* The children 0, 2, 4, ...: a list without its commas.
EveryOther(t) == [i \in 1 .. (Count(t) + 1) \div 2 |-> Child(t, 2 * (i - 1))]

-----------------------------------------------------------------------------
(* Types, patterns and literals *)

\* A type is a chain of only children that ends in an identifier.
RECURSIVE OnlyDescendant(_)
OnlyDescendant(t) ==
    IF t.rule = "identifier" THEN Child(t, 0)
    ELSE IF Count(t) = 1 THEN OnlyDescendant(Child(t, 0)) ELSE NoTree

trim_type(t) ==
    IF t.rule # "type_" \/ ~IsToken(OnlyDescendant(t)) THEN Raised
    ELSE Json("type", OnlyDescendant(t).word, <<OnlyDescendant(t)>>, << >>)

RECURSIVE get_pattern_id(_)
get_pattern_id(t) ==
    IF t.rule = "identifier" \/ Count(t) = 0 THEN Child(t, 0) ELSE get_pattern_id(Child(t, 0))

get_fn_params(t) ==
    LET param(p) == IF Count(p) # 3 THEN Raised
                    ELSE Json("param", NoText, <<get_pattern_id(p)>>, <<trim_type(Child(p, 2))>>)
    IN  [i \in DOMAIN EveryOther(t) |-> param(Child(EveryOther(t)[i], 0))]

LitType(word) ==
    IF word \in {"true", "false"} THEN "bool"
    ELSE LET lexeme == Lexeme[word]
         IN  IF lexeme.quoted THEN "String"
             ELSE IF lexeme.underscore THEN lexeme.after
             ELSE IF lexeme.dot THEN (IF lexeme.float THEN "f64" ELSE NoText)
             ELSE IF lexeme.digits THEN "i32" ELSE "String"

LitVal(word) ==
    IF word \in DOMAIN Lexeme /\ ~Lexeme[word].quoted /\ Lexeme[word].underscore
    THEN Lexeme[word].before ELSE word

trim_literal(token) ==
    LET type == LitType(token.word)
    IN  Json("lit", LitVal(token.word), <<token>>,
             <<IF type = NoText THEN Null ELSE Json("type", type, << >>, << >>)>>)

-----------------------------------------------------------------------------
(* Operators *)

Arith == {"+", "-", "*", "/", "%", "^", "|", "&", "<<", ">>"}
Comp == {"==", "!=", ">", "<", ">=", "<="}
CompoundAssign == {"+=", "-=", "*=", "/=", "%=", "&=", "|=", "^=", "<<=", ">>="}

InfixType(op) ==
    CASE op \in Arith          -> "arith"
      [] op \in Comp           -> "comp"
      [] op \in {"||", "&&"}   -> "logic"
      [] op = "as"             -> "typecast"
      [] op = "="              -> "reassign"
      [] op \in CompoundAssign -> "compound_assign"
      [] OTHER                 -> NoText

InfixToken(t) ==
    CASE Count(Child(t, 1)) = 1 -> Descend(t, <<1, 0>>)
      [] Count(Child(t, 1)) = 0 -> Child(t, 1)
      [] OTHER                  -> NoTree

PrefixType(t) ==
    LET op == Child(t, 0)
    IN  CASE Count(t) > 2 /\ Says(op, {"&", "&&"}) /\ Says(Child(t, 1), {"mut"}) -> "borrow_mut"
          [] Count(t) <= 2 /\ Says(op, {"&", "&&"}) -> "borrow"
          [] Count(t) <= 2 /\ Says(op, {"*"})       -> "deref"
          [] Count(t) <= 2 /\ Says(op, {"!", "-"})  -> "neg"
          [] OTHER                                  -> NoText

-----------------------------------------------------------------------------
(* Expressions and statements *)

RECURSIVE trim_expr(_), trim_tree(_)

Operation(tag, op, operands) ==
    IF tag = NoText \/ ~IsToken(op) THEN Raised
    ELSE Json(tag, op.word, << >>, [i \in DOMAIN operands |-> trim_expr(operands[i])])

expr_pre_post_operator(t) ==
    IF IsToken(Child(t, 0))
    THEN Operation(PrefixType(t), Child(t, 0), <<Child(t, IF Count(t) > 2 THEN 2 ELSE 1)>>)
    ELSE Operation(IF Says(Child(t, 1), {"?"}) THEN "question" ELSE NoText, Child(t, 1),
                   <<Child(t, 0)>>)

\* Fault: the operands are swapped.
expr_infix_operatorSwapped(t) ==
    LET op == InfixToken(t)
    IN  Operation(IF IsToken(op) THEN InfixType(op.word) ELSE NoText, op,
                  <<Child(t, 2), Child(t, 0)>>)

expr_infix_operator(t) ==
    LET op == InfixToken(t)
    IN  Operation(IF IsToken(op) THEN InfixType(op.word) ELSE NoText, op,
                  <<Child(t, 0), Child(t, 2)>>)

Jump(t) ==
    Json(Child(t, 0).word \o "_statement", NoText, << >>,
         <<IF Count(t) # 2 THEN Null ELSE trim_expr(Child(t, 1))>>)

Application(t) ==
    LET function == trim_expr(Child(t, 0))
        args == EveryOther(Child(t, 2))
    IN  IF function.tag # "nam" THEN Raised
        ELSE Json("app", NoText, function.tokens, [i \in DOMAIN args |-> trim_expr(args[i])])

\* An expression of a shape that no branch expects is its first child.
trim_expression(t) ==
    LET first(words) == Says(Child(t, 0), words)
    IN  IF first({"return", "break", "continue"}) THEN Jump(t)
        ELSE IF Count(t) >= 3 /\ Says(Child(t, 1), {"("}) THEN Application(t)
        ELSE IF Count(t) = 2 \/ first({"&", "&&"}) THEN expr_pre_post_operator(t)
        ELSE IF Count(t) # 3 THEN trim_expr(Child(t, 0))
        ELSE IF first({"("}) /\ Says(Child(t, 2), {")"}) THEN trim_expr(Child(t, 1))
        ELSE expr_infix_operator(t)

Conditional(t) ==
    IF Count(t) \notin {3, 5} THEN Raised
    ELSE Json("cond", NoText, << >>,
              <<trim_expr(Child(t, 1)), trim_tree(Child(t, 2)),
                IF Count(t) = 5 THEN trim_tree(Child(t, 4)) ELSE Null>>)

trim_expr(t) ==
    CASE t.rule = "expression"          -> trim_expression(t)
      [] t.rule = "pathExpression"      ->
           IF Count(Child(t, 0)) # 1 THEN Raised
           ELSE Json("nam", NoText, <<Descend(t, <<0, 0, 0, 0, 0>>)>>, << >>)
      [] t.rule = "literalExpression"   -> trim_literal(Child(t, 0))
      [] t.rule = "expressionWithBlock" -> trim_tree(Child(t, 0))
      [] t.rule = "expressionStatement" -> trim_expr(Child(t, 0))
      [] t.rule = "ifExpression"        -> Conditional(t)
      [] t.rule = "loopExpression"      ->
           Json("while_loop", NoText, << >>,
                <<trim_expr(Descend(t, <<0, 1>>)), trim_tree(Descend(t, <<0, 2>>))>>)
      [] OTHER -> Raised

\* Fault: the last statement of a block is passed over.
SequenceButLast(t) ==
    LET stmts == [i \in 1 .. Count(t) - 1 |-> trim_tree(t.kids[i])]
    IN  Json("seq", NoText, << >>, SelectSeq(stmts, LAMBDA s : s # Empty))

\* Whatever translates to "", a lone semicolon or a closing brace, is left out.
Sequence(t) ==
    LET stmts == [i \in DOMAIN t.kids |-> trim_tree(t.kids[i])]
    IN  Json("seq", NoText, << >>, SelectSeq(stmts, LAMBDA s : s # Empty))

Block(body) == Json("blk", NoText, << >>, <<body>>)

\* Fault: an empty body is left as it is.
FunctionWithBody(t) ==
    LET parts(rule) == SelectSeq(SubSeq(t.kids, 5, Count(t)), LAMBDA k : k.rule = rule)
        last(rule, f(_), default) ==
            IF parts(rule) = << >> THEN default ELSE f(parts(rule)[Len(parts(rule))])
    IN  Json("fun", NoText, <<Descend(t, <<2, 0>>)>>,
             last("functionParameters", get_fn_params, << >>) \o
             <<last("functionReturnType", LAMBDA k : trim_type(Child(k, 1)), Null),
               last("blockExpression", LAMBDA k : trim_tree(Child(k, 1)), Null)>>)

Function(t) ==
    LET parts(rule) == SelectSeq(SubSeq(t.kids, 5, Count(t)), LAMBDA k : k.rule = rule)
        last(rule, f(_), default) ==
            IF parts(rule) = << >> THEN default ELSE f(parts(rule)[Len(parts(rule))])
        body == last("blockExpression", LAMBDA k : trim_tree(Child(k, 1)), Null)
    IN  Json("fun", NoText, <<Descend(t, <<2, 0>>)>>,
             last("functionParameters", get_fn_params, << >>) \o
             <<last("functionReturnType", LAMBDA k : trim_type(Child(k, 1)), Null),
               IF body = Empty THEN Null ELSE body>>)

\* The pattern is an identifier, or a token and an identifier, whatever the token is.
Assign(t) ==
    LET lhs_node == Descend(t, <<1, 0, 0>>)
        is_mut == IsToken(Child(lhs_node, 0))
        typed == Count(t) = 7
    IN  IF Count(t) \notin {5, 7} THEN Raised
        ELSE Json("assign", IF is_mut THEN "mut" ELSE NoText,
                  <<Descend(lhs_node, IF is_mut THEN <<1, 0>> ELSE <<0, 0>>)>>,
                  <<IF typed THEN trim_type(Child(t, 3)) ELSE Null,
                    trim_tree(Child(t, IF typed THEN 5 ELSE 3))>>)

exclude_token == {";", "<EOF>", "}"}

trim_tree(t) ==
    CASE IsToken(t)    -> IF t.word \in exclude_token THEN Empty ELSE Raised
      [] t = NoTree    -> Empty
      [] t.rule = "function_"       -> Function(t)
      [] t.rule = "blockExpression" -> Block(trim_tree(Child(t, 1)))
      [] t.rule = "statements"      -> Sequence(t)
      [] t.rule \in {"statement", "item", "visItem"} ->
           IF Count(t) = 1 THEN trim_tree(Child(t, 0)) ELSE Raised
      [] t.rule \in {"expressionStatement", "expression", "loopExpression", "ifExpression"} ->
           trim_expr(t)
      [] t.rule = "letStatement"    -> Assign(t)
      [] t.rule = "crate"           -> Block(Sequence(t))
      [] OTHER -> Raised

=============================================================================
