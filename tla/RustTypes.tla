------------------------------ MODULE RustTypes ------------------------------
(***************************************************************************)
(* The rules of parser/RustParser.py for patterns, types, paths and names, *)
(* in the notation of GrammarNotation.tla.                                 *)
(***************************************************************************)
EXTENDS GrammarNotation

\* Patterns.
pattern == Opt(T("|")) & R("patternNoTopAlt") & Star(T("|") & R("patternNoTopAlt"))
patternNoTopAlt == R("patternWithoutRange") | R("rangePattern")

patternWithoutRange ==
    R("literalPattern") | R("identifierPattern") | R("wildcardPattern") | R("restPattern") |
    R("referencePattern") | R("structPattern") | R("tupleStructPattern") |
    R("tuplePattern") | R("groupedPattern") | R("slicePattern") | R("pathPattern") |
    R("macroInvocation")

literalPattern ==
    T("true") | T("false") | T("CHAR_LITERAL") | T("BYTE_LITERAL") | T("STRING_LITERAL") |
    T("RAW_STRING_LITERAL") | T("BYTE_STRING_LITERAL") | T("RAW_BYTE_STRING_LITERAL") |
    Opt(T("-")) & T("INTEGER_LITERAL") | Opt(T("-")) & T("FLOAT_LITERAL")

identifierPattern ==
    Opt(T("ref")) & Opt(T("mut")) & R("identifier") & Opt(T("@") & R("pattern"))

wildcardPattern == T("_")
restPattern == T("..")

rangePattern ==
    R("rangePatternBound") & T("..=") & R("rangePatternBound") |
    R("rangePatternBound") & T("..") |
    R("rangePatternBound") & T("...") & R("rangePatternBound")

rangePatternBound ==
    T("CHAR_LITERAL") | T("BYTE_LITERAL") | Opt(T("-")) & T("INTEGER_LITERAL") |
    Opt(T("-")) & T("FLOAT_LITERAL") | R("pathPattern")

referencePattern == OneOf({"&", "&&"}) & Opt(T("mut")) & R("patternWithoutRange")
structPattern == R("pathInExpression") & T("{") & Opt(R("structPatternElements")) & T("}")

structPatternElements ==
    R("structPatternFields") & Opt(T(",") & Opt(R("structPatternEtCetera"))) |
    R("structPatternEtCetera")

structPatternFields == R("structPatternField") & Star(T(",") & R("structPatternField"))

structPatternField ==
    Star(R("outerAttribute")) & (R("tupleIndex") & T(":") & R("pattern") |
      R("identifier") & T(":") & R("pattern") | Opt(T("ref")) & Opt(T("mut")) &
      R("identifier"))

structPatternEtCetera == Star(R("outerAttribute")) & T("..")
tupleStructPattern == R("pathInExpression") & T("(") & Opt(R("tupleStructItems")) & T(")")
tupleStructItems == R("pattern") & Star(T(",") & R("pattern")) & Opt(T(","))
tuplePattern == T("(") & Opt(R("tuplePatternItems")) & T(")")

tuplePatternItems ==
    R("pattern") & T(",") | R("restPattern") |
    R("pattern") & Plus(T(",") & R("pattern")) & Opt(T(","))

groupedPattern == T("(") & R("pattern") & T(")")
slicePattern == T("[") & Opt(R("slicePatternItems")) & T("]")
slicePatternItems == R("pattern") & Star(T(",") & R("pattern")) & Opt(T(","))
pathPattern == R("pathInExpression") | R("qualifiedPathInExpression")

------------------------------------------------------------------------------

\* Types.
type_ == R("typeNoBounds") | R("implTraitType") | R("traitObjectType")

typeNoBounds ==
    R("parenthesizedType") | R("implTraitTypeOneBound") | R("traitObjectTypeOneBound") |
    R("typePath") | R("tupleType") | R("neverType") | R("rawPointerType") |
    R("referenceType") | R("arrayType") | R("sliceType") | R("inferredType") |
    R("qualifiedPathInType") | R("bareFunctionType") | R("macroInvocation")

parenthesizedType == T("(") & R("type_") & T(")")
neverType == T("!")
tupleType == T("(") & Opt(Plus(R("type_") & T(",")) & Opt(R("type_"))) & T(")")
arrayType == T("[") & R("type_") & T(";") & E(0) & T("]")
sliceType == T("[") & R("type_") & T("]")
referenceType == T("&") & Opt(R("lifetime")) & Opt(T("mut")) & R("typeNoBounds")
rawPointerType == T("*") & OneOf({"mut", "const"}) & R("typeNoBounds")

bareFunctionType ==
    Opt(R("forLifetimes")) & R("functionTypeQualifiers") & T("fn") & T("(") &
      Opt(R("functionParametersMaybeNamedVariadic")) & T(")") &
      Opt(R("bareFunctionReturnType"))

functionTypeQualifiers == Opt(T("unsafe")) & Opt(T("extern") & Opt(R("abi")))
bareFunctionReturnType == T("->") & R("typeNoBounds")

functionParametersMaybeNamedVariadic ==
    R("maybeNamedFunctionParameters") | R("maybeNamedFunctionParametersVariadic")

maybeNamedFunctionParameters ==
    R("maybeNamedParam") & Star(T(",") & R("maybeNamedParam")) & Opt(T(","))

maybeNamedParam ==
    Star(R("outerAttribute")) & Opt((R("identifier") | T("_")) & T(":")) & R("type_")

maybeNamedFunctionParametersVariadic ==
    Star(R("maybeNamedParam") & T(",")) & R("maybeNamedParam") & T(",") &
      Star(R("outerAttribute")) & T("...")

traitObjectType == Opt(T("dyn")) & R("typeParamBounds")
traitObjectTypeOneBound == Opt(T("dyn")) & R("traitBound")
implTraitType == T("impl") & R("typeParamBounds")
implTraitTypeOneBound == T("impl") & R("traitBound")
inferredType == T("_")
typeParamBounds == R("typeParamBound") & Star(T("+") & R("typeParamBound")) & Opt(T("+"))
typeParamBound == R("lifetime") | R("traitBound")

traitBound ==
    Opt(T("?")) & Opt(R("forLifetimes")) & R("typePath") |
    T("(") & Opt(T("?")) & Opt(R("forLifetimes")) & R("typePath") & T(")")

lifetimeBounds == Star(R("lifetime") & T("+")) & Opt(R("lifetime"))
lifetime == OneOf({"LIFETIME_OR_LABEL", "'static", "'_"})

------------------------------------------------------------------------------

\* Paths.
simplePath == Opt(T("::")) & R("simplePathSegment") & Star(T("::") & R("simplePathSegment"))
simplePathSegment == R("identifier") | T("super") | T("self") | T("crate") | T("$crate")

pathInExpression ==
    Opt(T("::")) & R("pathExprSegment") & Star(T("::") & R("pathExprSegment"))

pathExprSegment == R("pathIdentSegment") & Opt(T("::") & R("genericArgs"))

pathIdentSegment ==
    R("identifier") | T("super") | T("self") | T("Self") | T("crate") | T("$crate")

genericArgs ==
    T("<") & T(">") |
    T("<") & R("genericArgsLifetimes") & Opt(T(",") & R("genericArgsTypes")) &
      Opt(T(",") & R("genericArgsBindings")) & Opt(T(",")) & T(">") |
    T("<") & R("genericArgsTypes") & Opt(T(",") & R("genericArgsBindings")) &
      Opt(T(",")) & T(">") |
    T("<") & Star(R("genericArg") & T(",")) & R("genericArg") & Opt(T(",")) & T(">")

genericArg == R("lifetime") | R("type_") | R("genericArgsConst") | R("genericArgsBinding")

genericArgsConst ==
    R("blockExpression") | Opt(T("-")) & R("literalExpression") | R("simplePathSegment")

genericArgsLifetimes == R("lifetime") & Star(T(",") & R("lifetime"))
genericArgsTypes == R("type_") & Star(T(",") & R("type_"))
genericArgsBindings == R("genericArgsBinding") & Star(T(",") & R("genericArgsBinding"))
genericArgsBinding == R("identifier") & T("=") & R("type_")
qualifiedPathInExpression == R("qualifiedPathType") & Plus(T("::") & R("pathExprSegment"))
qualifiedPathType == T("<") & R("type_") & Opt(T("as") & R("typePath")) & T(">")
qualifiedPathInType == R("qualifiedPathType") & Plus(T("::") & R("typePathSegment"))
typePath == Opt(T("::")) & R("typePathSegment") & Star(T("::") & R("typePathSegment"))

typePathSegment ==
    R("pathIdentSegment") & Opt(T("::")) & Opt(R("genericArgs") | R("typePathFn"))

typePathFn == T("(") & Opt(R("typePathInputs")) & T(")") & Opt(T("->") & R("type_"))
typePathInputs == R("type_") & Star(T(",") & R("type_")) & Opt(T(","))

------------------------------------------------------------------------------

\* Visibility and names.

visibility ==
    T("pub") & Opt(T("(") & (T("crate") | T("self") | T("super") | T("in") &
      R("simplePath")) & T(")"))

identifier == OneOf({"NON_KEYWORD_IDENTIFIER", "RAW_IDENTIFIER", "macro_rules"})

keyword ==
    OneOf({"as", "break", "const", "continue", "crate", "else", "enum", "extern",
      "false", "fn", "for", "if", "impl", "in", "let", "loop", "match", "mod", "move",
      "mut", "pub", "ref", "return", "self", "Self", "static", "struct", "super",
      "trait", "true", "type", "unsafe", "use", "where", "while", "async", "await",
      "dyn", "abstract", "become", "box", "do", "final", "macro", "override", "priv",
      "typeof", "unsized", "virtual", "yield", "try", "union", "'static"})

macroIdentifierLikeToken ==
    R("keyword") | R("identifier") | T("macro_rules") | T("'_") | T("$crate") |
    T("LIFETIME_OR_LABEL")

macroLiteralToken == R("literalExpression")

macroPunctuationToken ==
    OneOf({"-", "/", "%", "^", "!", "&", "|", "&&", "||", "+=", "-=", "*=", "/=", "%=",
      "^=", "&=", "|=", "<<=", ">>=", "=", "==", "!=", ">", "<", ">=", "<=", "@", "_",
      ".", "..", "...", "..=", ",", ";", ":", "::", "->", "=>", "#"})

shl == T("<") & T("<")
shr == T(">") & T(">")

=============================================================================
