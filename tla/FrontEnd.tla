------------------------------ MODULE FrontEnd ------------------------------
(***************************************************************************)
(* The parser process from the source to the JSON tree: parse_file of      *)
(* parser/gen_parse_tree.py parses, translates and writes.  A syntax error *)
(* changes nothing about the way: it is printed, the parser repairs, and   *)
(* the repaired tree is translated like any other.                         *)
(***************************************************************************)
EXTENDS GenParseTree, JsonAst

VARIABLES
  phase,   \* "parse", "translate", "dump", "wrote" or "silent"
  json     \* the result of trim_tree

vars == <<parserVars, phase, json>>

Init == ParserInit /\ phase = "parse" /\ json = Null

\* parser.crate()
Parse ==
    /\ phase = "parse"
    /\ ParserNext
    /\ phase' = IF stack' = << >> THEN "translate" ELSE "parse"
    /\ UNCHANGED json

\* trim_tree(tree): an exception is printed, and the result stays None.
Translate ==
    /\ phase = "translate"
    /\ json' = IF trim_tree(tree) = Raised THEN Null ELSE trim_tree(tree)
    /\ phase' = IF json' = Null THEN "silent" ELSE "dump"
    /\ UNCHANGED parserVars

Dump ==
    /\ phase = "dump"
    /\ phase' = "wrote"
    /\ UNCHANGED <<parserVars, json>>

\* The process has exited, with status 0.
Exited == phase \in {"wrote", "silent"} /\ UNCHANGED vars

Next == Parse \/ Translate \/ Dump \/ Exited

Spec == Init /\ [][Next]_vars

-----------------------------------------------------------------------------
(* Properties *)

\* A parse that is over has put every word of the source in the tree, and a conjured token
\* counts for a syntax error that was reported.
TreesHoldEveryWord ==
    /\ phase = "parse" <=> Parsing
    /\ phase = "translate" =>
         LET leaves == Leaves(tree)
             read == SelectSeq(leaves, LAMBDA l : l # Missing(l.start))
         IN  /\ source = [i \in DOMAIN read |-> read[i].word]
             /\ Len(leaves) - Len(read) <= repairs

\* The identifiers and literals of a tree, and those of the JSON tree.
NamesIn(t) ==
    LET holders == {n \in Nodes(t) : n.rule \in {"identifier", "literalExpression"}}
    IN  SelectSeq(Leaves(t), LAMBDA l : \E n \in holders : l \in Range(n.kids))

RECURSIVE Handed(_)
Handed(j) ==
    LET upTo[i \in 0 .. Len(j.kids)] ==
          IF i = 0 THEN j.tokens ELSE upTo[i - 1] \o Handed(j.kids[i])
    IN  upTo[Len(j.kids)]

\* The constructs that the translation passes over without a word, or whose first token it
\* takes for a name.
PassesOver(t) ==
    \/ t.rule \in {"genericParams", "whereClause", "genericArgs"}
    \/ t.rule = "functionQualifiers" /\ Count(t) > 0
    \/ t.rule = "expression" /\ Count(t) > 3 /\ Says(Child(t, 1), {"[", "."})
    \/ t.rule = "expression" /\ Count(t) = 3 /\ Says(Child(t, 0), {"break", "continue"})
    \/ t.rule = "pattern" /\ Count(t) > 1
    \/ t.rule = "identifierPattern" /\ (\E k \in Range(t.kids) : Says(k, {"@"}))
    \/ t.rule \in {"pathPattern", "tupleStructPattern", "structPattern", "groupedPattern"}

SaysAll(t) == \A n \in Nodes(t) : ~PassesOver(n)

Supported ==
    {"crate", "item", "visItem", "function_", "functionQualifiers", "identifier",
     "functionParameters", "functionParam", "functionParamPattern", "functionReturnType",
     "blockExpression", "statements", "statement", "letStatement", "expressionStatement",
     "expression", "expressionWithBlock", "ifExpression", "loopExpression",
     "predicateLoopExpression", "callParams", "literalExpression", "pathExpression",
     "pathInExpression", "pathExprSegment", "pathIdentSegment", "comparisonOperator",
     "compoundAssignOperator", "pattern", "patternNoTopAlt", "patternWithoutRange",
     "identifierPattern", "type_", "typeNoBounds", "typePath", "typePathSegment",
     "traitObjectType", "traitObjectTypeOneBound", "typeParamBounds", "typeParamBound",
     "traitBound", "<token>"}

\* A tree that is written says what the source says: all its names and literals in order, but
\* for the constructs listed in PassesOver, and a construct that is not supported is refused.
\* Children are found by position, with one layout for a rule that has several.
TreesSayWhatSourcesSay ==
    phase = "wrote" /\ SaysAll(tree) =>
      /\ Handed(json) = NamesIn(tree)
      /\ {n.rule : n \in Nodes(tree)} \subseteq Supported

\* What the compiler cannot decode.
EmptyBlock(t) ==
    \E n \in Nodes(t) : /\ n.rule # "function_"
                        /\ \E k \in Range(n.kids) :
                             k.rule = "blockExpression" /\ Child(k, 1).rule # "statements"

UnknownType(t) ==
    \E n \in Nodes(t) :
      \/ n.rule = "type_" /\ Leaves(n)[1].word \notin TypeName
      \/ n.rule = "literalExpression" /\ LitType(Child(n, 0).word) \notin TypeName

\* What the parser process writes, the compiler can decode, unless the source has an empty
\* block that is not the body of a function, or a type that types.zig does not list.
WrittenTreesDecode ==
    phase = "wrote" /\ SaysAll(tree) =>
      (DecodesNode(json) <=> ~EmptyBlock(tree) /\ ~UnknownType(tree))

AnyWord == UNION {Profiles[p].words : p \in DOMAIN Profiles}

Reader == INSTANCE SourceReader WITH
    Words <- AnyWord,
    text <- source,
    outcome <- CASE phase = "wrote"  -> "tree"
                 [] phase = "silent" -> "nothing"
                 [] OTHER            -> "reading",
    names <- IF phase # "wrote" THEN << >>
             ELSE LET handed == Handed(json) IN [i \in DOMAIN handed |-> handed[i].start]

\* The parser process reads on, whatever its recursion and its repairs do to the tree, and hands
\* over names of the source in their order, whatever the translation leaves out.
ReaderSpec == Reader!Spec

=============================================================================
