--------------------------- MODULE RustExpressions ---------------------------
(***************************************************************************)
(* The rules of parser/RustParser.py for statements and expressions, in    *)
(* the notation of GrammarNotation.tla.                                    *)
(***************************************************************************)
EXTENDS GrammarNotation

\* Statements.

statement ==
    T(";") | R("item") | R("letStatement") | R("expressionStatement") |
    R("macroInvocationSemi")

letStatement ==
    Star(R("outerAttribute")) & T("let") & R("patternNoTopAlt") & Opt(T(":") &
      R("type_")) & Opt(T("=") & E(0)) & T(";")

expressionStatement == E(0) & T(";") | R("expressionWithBlock") & Opt(T(";"))

------------------------------------------------------------------------------

\* Expressions.

\* A primary of an expression: what the first decision of expression(_p) may choose.  The
\* alternative after LT and after a prefix operator is an expression of the level the rule's
\* argument names, which is how the generated parser knows how tightly an operator binds.
AttributedExpression == Plus(R("outerAttribute")) & E(40)
LiteralExpression_ == R("literalExpression")
PathExpression_ == R("pathExpression")
BorrowExpression == OneOf({"&", "&&"}) & Opt(T("mut")) & E(30)
DereferenceExpression == T("*") & E(29)
NegationExpression == OneOf({"-", "!"}) & E(28)
RangeTo == T("..") & Opt(E(0))
RangeToInclusive == T("..=") & E(15)
ContinueExpression == T("continue") & Opt(T("LIFETIME_OR_LABEL")) & Opt(E(0))
BreakExpression == T("break") & Opt(T("LIFETIME_OR_LABEL")) & Opt(E(0))
ReturnExpression == T("return") & Opt(E(0))
GroupedExpression == T("(") & Star(R("innerAttribute")) & E(0) & T(")")
ArrayExpression == T("[") & Star(R("innerAttribute")) & Opt(R("arrayElements")) & T("]")
TupleExpression == T("(") & Star(R("innerAttribute")) & Opt(R("tupleElements")) & T(")")
StructExpression_ == R("structExpression")
EnumerationVariantExpression_ == R("enumerationVariantExpression")
ClosureExpression_ == R("closureExpression")
ExpressionWithBlock_ == R("expressionWithBlock")
MacroInvocationAsExpression == R("macroInvocation")

Primary ==
    AttributedExpression | LiteralExpression_ | PathExpression_ | BorrowExpression |
    DereferenceExpression | NegationExpression | RangeTo | RangeToInclusive |
    ContinueExpression | BreakExpression | ReturnExpression | GroupedExpression |
    ArrayExpression | TupleExpression | StructExpression_ | EnumerationVariantExpression_
    | ClosureExpression_ | ExpressionWithBlock_ | MacroInvocationAsExpression

\* What the loop after a primary may add.  Level(k) is the generated precpred(_ctx, k): the
\* suffix is open to an expression(_p) with _p <= k only, and what was built so far becomes
\* the first child of the new context (pushNewRecursionContext).
Multiplicative == Level(26) & OneOf({"*", "/", "%"}) & E(27)

\* Fault: the right operand may be as loose as the operator.
AdditiveRightward == Level(25) & OneOf({"+", "-"}) & E(25)

Additive == Level(25) & OneOf({"+", "-"}) & E(26)
Shift == Level(24) & (R("shl") | R("shr")) & E(25)
BitAnd == Level(23) & T("&") & E(24)
BitXor == Level(22) & T("^") & E(23)
BitOr == Level(21) & T("|") & E(22)
ComparisonExpression == Level(20) & R("comparisonOperator") & E(21)
LazyAnd == Level(19) & T("&&") & E(20)
LazyOr == Level(18) & T("||") & E(19)
RangeInclusive == Level(14) & T("..=") & E(15)
AssignmentExpression == Level(13) & T("=") & E(14)
CompoundAssignmentExpression == Level(12) & R("compoundAssignOperator") & E(13)

MethodCallExpression ==
    Level(37) & T(".") & R("pathExprSegment") & T("(") & Opt(R("callParams")) & T(")")

FieldExpression == Level(36) & T(".") & R("identifier")
TupleIndexingExpression == Level(35) & T(".") & R("tupleIndex")
AwaitExpression == Level(34) & T(".") & T("await")
CallExpression == Level(33) & T("(") & Opt(R("callParams")) & T(")")
IndexExpression == Level(32) & T("[") & E(0) & T("]")
ErrorPropagationExpression == Level(31) & T("?")
TypeCastExpression == Level(27) & T("as") & R("typeNoBounds")
RangeFrom == Level(17) & T("..") & Opt(E(0))

Suffix ==
    Multiplicative | Additive | Shift | BitAnd | BitXor | BitOr | ComparisonExpression |
    LazyAnd | LazyOr | RangeInclusive | AssignmentExpression |
    CompoundAssignmentExpression | MethodCallExpression | FieldExpression |
    TupleIndexingExpression | AwaitExpression | CallExpression | IndexExpression |
    ErrorPropagationExpression | TypeCastExpression | RangeFrom

expression == << [op |-> "primary"], [op |-> "suffixes"] >>

------------------------------------------------------------------------------

\* Operators, literals, paths and blocks.
comparisonOperator == OneOf({"==", "!=", ">", "<", ">=", "<="})

compoundAssignOperator ==
    OneOf({"+=", "-=", "*=", "/=", "%=", "&=", "|=", "^=", "<<=", ">>="})

expressionWithBlock ==
    Plus(R("outerAttribute")) & R("expressionWithBlock") | R("blockExpression") |
    R("asyncBlockExpression") | R("unsafeBlockExpression") | R("loopExpression") |
    R("ifExpression") | R("ifLetExpression") | R("matchExpression")

literalExpression ==
    OneOf({"CHAR_LITERAL", "STRING_LITERAL", "RAW_STRING_LITERAL", "BYTE_LITERAL",
      "BYTE_STRING_LITERAL", "RAW_BYTE_STRING_LITERAL", "INTEGER_LITERAL",
      "FLOAT_LITERAL", "true", "false"})

pathExpression == R("pathInExpression") | R("qualifiedPathInExpression")
blockExpression == T("{") & Star(R("innerAttribute")) & Opt(R("statements")) & T("}")
statements == Plus(R("statement")) & Opt(E(0)) | E(0)
asyncBlockExpression == T("async") & Opt(T("move")) & R("blockExpression")
unsafeBlockExpression == T("unsafe") & R("blockExpression")
arrayElements == E(0) & Star(T(",") & E(0)) & Opt(T(",")) | E(0) & T(";") & E(0)
tupleElements == Plus(E(0) & T(",")) & Opt(E(0))
tupleIndex == T("INTEGER_LITERAL")
structExpression == R("structExprStruct") | R("structExprTuple") | R("structExprUnit")

structExprStruct ==
    R("pathInExpression") & T("{") & Star(R("innerAttribute")) &
      Opt(R("structExprFields") | R("structBase")) & T("}")

structExprFields ==
    R("structExprField") & Star(T(",") & R("structExprField")) & (T(",") &
      R("structBase") | Opt(T(",")))

structExprField ==
    Star(R("outerAttribute")) & (R("identifier") | (R("identifier") | R("tupleIndex")) &
      T(":") & E(0))

structBase == T("..") & E(0)

structExprTuple ==
    R("pathInExpression") & T("(") & Star(R("innerAttribute")) & Opt(E(0) &
      Star(T(",") & E(0)) & Opt(T(","))) & T(")")

structExprUnit == R("pathInExpression")

enumerationVariantExpression ==
    R("enumExprStruct") | R("enumExprTuple") | R("enumExprFieldless")

enumExprStruct == R("pathInExpression") & T("{") & Opt(R("enumExprFields")) & T("}")
enumExprFields == R("enumExprField") & Star(T(",") & R("enumExprField")) & Opt(T(","))
enumExprField == R("identifier") | (R("identifier") | R("tupleIndex")) & T(":") & E(0)

enumExprTuple ==
    R("pathInExpression") & T("(") & Opt(E(0) & Star(T(",") & E(0)) & Opt(T(","))) &
      T(")")

enumExprFieldless == R("pathInExpression")
callParams == E(0) & Star(T(",") & E(0)) & Opt(T(","))

closureExpression ==
    Opt(T("move")) & (T("||") | T("|") & Opt(R("closureParameters")) & T("|")) & (E(0) |
      T("->") & R("typeNoBounds") & R("blockExpression"))

closureParameters == R("closureParam") & Star(T(",") & R("closureParam")) & Opt(T(","))
closureParam == Star(R("outerAttribute")) & R("pattern") & Opt(T(":") & R("type_"))

------------------------------------------------------------------------------

\* Loops, conditionals and match.

loopExpression ==
    Opt(R("loopLabel")) & (R("infiniteLoopExpression") | R("predicateLoopExpression") |
      R("predicatePatternLoopExpression") | R("iteratorLoopExpression"))

infiniteLoopExpression == T("loop") & R("blockExpression")
predicateLoopExpression == T("while") & E(0) & R("blockExpression")

predicatePatternLoopExpression ==
    T("while") & T("let") & R("pattern") & T("=") & E(0) & R("blockExpression")

iteratorLoopExpression == T("for") & R("pattern") & T("in") & E(0) & R("blockExpression")
loopLabel == T("LIFETIME_OR_LABEL") & T(":")

ifExpression ==
    T("if") & E(0) & R("blockExpression") & Opt(T("else") & (R("blockExpression") |
      R("ifExpression") | R("ifLetExpression")))

ifLetExpression ==
    T("if") & T("let") & R("pattern") & T("=") & E(0) & R("blockExpression") &
      Opt(T("else") & (R("blockExpression") | R("ifExpression") | R("ifLetExpression")))

matchExpression ==
    T("match") & E(0) & T("{") & Star(R("innerAttribute")) & Opt(R("matchArms")) &
      T("}")

matchArms ==
    Star(R("matchArm") & T("=>") & R("matchArmExpression")) & R("matchArm") & T("=>") &
      E(0) & Opt(T(","))

matchArmExpression == E(0) & T(",") | R("expressionWithBlock") & Opt(T(","))
matchArm == Star(R("outerAttribute")) & R("pattern") & Opt(R("matchArmGuard"))
matchArmGuard == T("if") & E(0)

=============================================================================
