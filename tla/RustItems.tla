------------------------------ MODULE RustItems ------------------------------
(***************************************************************************)
(* The rules of parser/RustParser.py for crates, macros, items, generics   *)
(* and attributes, in the notation of GrammarNotation.tla.                 *)
(***************************************************************************)
EXTENDS GrammarNotation

\* Crate and macros.
crate == Star(R("innerAttribute")) & Star(R("item")) & T("<EOF>")
macroInvocation == R("simplePath") & T("!") & R("delimTokenTree")

delimTokenTree ==
    T("(") & Star(R("tokenTree")) & T(")") | T("[") & Star(R("tokenTree")) & T("]") |
    T("{") & Star(R("tokenTree")) & T("}")

tokenTree == Plus(R("tokenTreeToken")) | R("delimTokenTree")

tokenTreeToken ==
    R("macroIdentifierLikeToken") | R("macroLiteralToken") | R("macroPunctuationToken") |
    R("macroRepOp") | T("$")

macroInvocationSemi ==
    R("simplePath") & T("!") & T("(") & Star(R("tokenTree")) & T(")") & T(";") |
    R("simplePath") & T("!") & T("[") & Star(R("tokenTree")) & T("]") & T(";") |
    R("simplePath") & T("!") & T("{") & Star(R("tokenTree")) & T("}")

macroRulesDefinition == T("macro_rules") & T("!") & R("identifier") & R("macroRulesDef")

macroRulesDef ==
    T("(") & R("macroRules") & T(")") & T(";") |
    T("[") & R("macroRules") & T("]") & T(";") | T("{") & R("macroRules") & T("}")

macroRules == R("macroRule") & Star(T(";") & R("macroRule")) & Opt(T(";"))
macroRule == R("macroMatcher") & T("=>") & R("macroTranscriber")

macroMatcher ==
    T("(") & Star(R("macroMatch")) & T(")") | T("[") & Star(R("macroMatch")) & T("]") |
    T("{") & Star(R("macroMatch")) & T("}")

macroMatch ==
    Plus(R("macroMatchToken")) | R("macroMatcher") |
    T("$") & (R("identifier") | T("self")) & T(":") & R("macroFragSpec") |
    T("$") & T("(") & Plus(R("macroMatch")) & T(")") & Opt(R("macroRepSep")) &
      R("macroRepOp")

macroMatchToken ==
    R("macroIdentifierLikeToken") | R("macroLiteralToken") | R("macroPunctuationToken") |
    R("macroRepOp")

macroFragSpec == R("identifier")

macroRepSep ==
    R("macroIdentifierLikeToken") | R("macroLiteralToken") | R("macroPunctuationToken") |
    T("$")

macroRepOp == OneOf({"*", "+", "?"})
macroTranscriber == R("delimTokenTree")

------------------------------------------------------------------------------

\* Items.
item == Star(R("outerAttribute")) & (R("visItem") | R("macroItem"))

visItem ==
    Opt(R("visibility")) & (R("module") | R("externCrate") | R("useDeclaration") |
      R("function_") | R("typeAlias") | R("struct_") | R("enumeration") | R("union_") |
      R("constantItem") | R("staticItem") | R("trait_") | R("implementation") |
      R("externBlock"))

macroItem == R("macroInvocationSemi") | R("macroRulesDefinition")

module ==
    Opt(T("unsafe")) & T("mod") & R("identifier") & (T(";") | T("{") &
      Star(R("innerAttribute")) & Star(R("item")) & T("}"))

externCrate == T("extern") & T("crate") & R("crateRef") & Opt(R("asClause")) & T(";")
crateRef == R("identifier") | T("self")
asClause == T("as") & (R("identifier") | T("_"))
useDeclaration == T("use") & R("useTree") & T(";")

useTree ==
    Opt(Opt(R("simplePath")) & T("::")) & (T("*") | T("{") & Opt(R("useTree") &
      Star(T(",") & R("useTree")) & Opt(T(","))) & T("}")) |
    R("simplePath") & Opt(T("as") & (R("identifier") | T("_")))

function_ ==
    R("functionQualifiers") & T("fn") & R("identifier") & Opt(R("genericParams")) &
      T("(") & Opt(R("functionParameters")) & T(")") & Opt(R("functionReturnType")) &
      Opt(R("whereClause")) & (R("blockExpression") | T(";"))

functionQualifiers ==
    Opt(T("const")) & Opt(T("async")) & Opt(T("unsafe")) & Opt(T("extern") &
      Opt(R("abi")))

abi == OneOf({"STRING_LITERAL", "RAW_STRING_LITERAL"})

functionParameters ==
    R("selfParam") & Opt(T(",")) |
    Opt(R("selfParam") & T(",")) & R("functionParam") & Star(T(",") &
      R("functionParam")) & Opt(T(","))

selfParam == Star(R("outerAttribute")) & (R("shorthandSelf") | R("typedSelf"))
shorthandSelf == Opt(T("&") & Opt(R("lifetime"))) & Opt(T("mut")) & T("self")
typedSelf == Opt(T("mut")) & T("self") & T(":") & R("type_")

functionParam ==
    Star(R("outerAttribute")) & (R("functionParamPattern") | T("...") | R("type_"))

functionParamPattern == R("pattern") & T(":") & (R("type_") | T("..."))
functionReturnType == T("->") & R("type_")

typeAlias ==
    T("type") & R("identifier") & Opt(R("genericParams")) & Opt(R("whereClause")) &
      Opt(T("=") & R("type_")) & T(";")

struct_ == R("structStruct") | R("tupleStruct")

structStruct ==
    T("struct") & R("identifier") & Opt(R("genericParams")) & Opt(R("whereClause")) &
      (T("{") & Opt(R("structFields")) & T("}") | T(";"))

tupleStruct ==
    T("struct") & R("identifier") & Opt(R("genericParams")) & T("(") &
      Opt(R("tupleFields")) & T(")") & Opt(R("whereClause")) & T(";")

structFields == R("structField") & Star(T(",") & R("structField")) & Opt(T(","))

structField ==
    Star(R("outerAttribute")) & Opt(R("visibility")) & R("identifier") & T(":") &
      R("type_")

tupleFields == R("tupleField") & Star(T(",") & R("tupleField")) & Opt(T(","))
tupleField == Star(R("outerAttribute")) & Opt(R("visibility")) & R("type_")

enumeration ==
    T("enum") & R("identifier") & Opt(R("genericParams")) & Opt(R("whereClause")) &
      T("{") & Opt(R("enumItems")) & T("}")

enumItems == R("enumItem") & Star(T(",") & R("enumItem")) & Opt(T(","))

enumItem ==
    Star(R("outerAttribute")) & Opt(R("visibility")) & R("identifier") &
      Opt(R("enumItemTuple") | R("enumItemStruct") | R("enumItemDiscriminant"))

enumItemTuple == T("(") & Opt(R("tupleFields")) & T(")")
enumItemStruct == T("{") & Opt(R("structFields")) & T("}")
enumItemDiscriminant == T("=") & E(0)

union_ ==
    T("union") & R("identifier") & Opt(R("genericParams")) & Opt(R("whereClause")) &
      T("{") & R("structFields") & T("}")

constantItem ==
    T("const") & (R("identifier") | T("_")) & T(":") & R("type_") & Opt(T("=") & E(0)) &
      T(";")

staticItem ==
    T("static") & Opt(T("mut")) & R("identifier") & T(":") & R("type_") & Opt(T("=") &
      E(0)) & T(";")

trait_ ==
    Opt(T("unsafe")) & T("trait") & R("identifier") & Opt(R("genericParams")) &
      Opt(T(":") & Opt(R("typeParamBounds"))) & Opt(R("whereClause")) & T("{") &
      Star(R("innerAttribute")) & Star(R("associatedItem")) & T("}")

implementation == R("inherentImpl") | R("traitImpl")

inherentImpl ==
    T("impl") & Opt(R("genericParams")) & R("type_") & Opt(R("whereClause")) & T("{") &
      Star(R("innerAttribute")) & Star(R("associatedItem")) & T("}")

traitImpl ==
    Opt(T("unsafe")) & T("impl") & Opt(R("genericParams")) & Opt(T("!")) &
      R("typePath") & T("for") & R("type_") & Opt(R("whereClause")) & T("{") &
      Star(R("innerAttribute")) & Star(R("associatedItem")) & T("}")

externBlock ==
    Opt(T("unsafe")) & T("extern") & Opt(R("abi")) & T("{") &
      Star(R("innerAttribute")) & Star(R("externalItem")) & T("}")

externalItem ==
    Star(R("outerAttribute")) & (R("macroInvocationSemi") | Opt(R("visibility")) &
      (R("staticItem") | R("function_")))

------------------------------------------------------------------------------

\* Generics.

genericParams ==
    T("<") & Opt(Star(R("genericParam") & T(",")) & R("genericParam") & Opt(T(","))) &
      T(">")

genericParam ==
    Star(R("outerAttribute")) & (R("lifetimeParam") | R("typeParam") | R("constParam"))

lifetimeParam ==
    Opt(R("outerAttribute")) & T("LIFETIME_OR_LABEL") & Opt(T(":") &
      R("lifetimeBounds"))

typeParam ==
    Opt(R("outerAttribute")) & R("identifier") & Opt(T(":") &
      Opt(R("typeParamBounds"))) & Opt(T("=") & R("type_"))

constParam == T("const") & R("identifier") & T(":") & R("type_")
whereClause == T("where") & Star(R("whereClauseItem") & T(",")) & Opt(R("whereClauseItem"))
whereClauseItem == R("lifetimeWhereClauseItem") | R("typeBoundWhereClauseItem")
lifetimeWhereClauseItem == R("lifetime") & T(":") & R("lifetimeBounds")

typeBoundWhereClauseItem ==
    Opt(R("forLifetimes")) & R("type_") & T(":") & Opt(R("typeParamBounds"))

forLifetimes == T("for") & R("genericParams")

associatedItem ==
    Star(R("outerAttribute")) & (R("macroInvocationSemi") | Opt(R("visibility")) &
      (R("typeAlias") | R("constantItem") | R("function_")))

------------------------------------------------------------------------------

\* Attributes.
innerAttribute == T("#") & T("!") & T("[") & R("attr") & T("]")
outerAttribute == T("#") & T("[") & R("attr") & T("]")
attr == R("simplePath") & Opt(R("attrInput"))
attrInput == R("delimTokenTree") | T("=") & R("literalExpression")

=============================================================================
