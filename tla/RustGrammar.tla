----------------------------- MODULE RustGrammar -----------------------------
(***************************************************************************)
(* The grammar that parser/RustParser.py recognises.                       *)
(***************************************************************************)
EXTENDS RustItems, RustExpressions, RustTypes

\* Every rule of the parser, by its name in ruleNames.
Production ==
   [crate |-> crate, macroInvocation |-> macroInvocation, delimTokenTree |-> delimTokenTree,
    tokenTree |-> tokenTree, tokenTreeToken |-> tokenTreeToken, macroInvocationSemi |->
    macroInvocationSemi, macroRulesDefinition |-> macroRulesDefinition, macroRulesDef |->
    macroRulesDef, macroRules |-> macroRules, macroRule |-> macroRule, macroMatcher |->
    macroMatcher, macroMatch |-> macroMatch, macroMatchToken |-> macroMatchToken,
    macroFragSpec |-> macroFragSpec, macroRepSep |-> macroRepSep, macroRepOp |-> macroRepOp,
    macroTranscriber |-> macroTranscriber, item |-> item, visItem |-> visItem, macroItem |->
    macroItem, module |-> module, externCrate |-> externCrate, crateRef |-> crateRef,
    asClause |-> asClause, useDeclaration |-> useDeclaration, useTree |-> useTree, function_
    |-> function_, functionQualifiers |-> functionQualifiers, abi |-> abi,
    functionParameters |-> functionParameters, selfParam |-> selfParam, shorthandSelf |->
    shorthandSelf, typedSelf |-> typedSelf, functionParam |-> functionParam,
    functionParamPattern |-> functionParamPattern, functionReturnType |->
    functionReturnType, typeAlias |-> typeAlias, struct_ |-> struct_, structStruct |->
    structStruct, tupleStruct |-> tupleStruct, structFields |-> structFields, structField
    |-> structField, tupleFields |-> tupleFields, tupleField |-> tupleField, enumeration |->
    enumeration, enumItems |-> enumItems, enumItem |-> enumItem, enumItemTuple |->
    enumItemTuple, enumItemStruct |-> enumItemStruct, enumItemDiscriminant |->
    enumItemDiscriminant, union_ |-> union_, constantItem |-> constantItem, staticItem |->
    staticItem, trait_ |-> trait_, implementation |-> implementation, inherentImpl |->
    inherentImpl, traitImpl |-> traitImpl, externBlock |-> externBlock, externalItem |->
    externalItem, genericParams |-> genericParams, genericParam |-> genericParam,
    lifetimeParam |-> lifetimeParam, typeParam |-> typeParam, constParam |-> constParam,
    whereClause |-> whereClause, whereClauseItem |-> whereClauseItem,
    lifetimeWhereClauseItem |-> lifetimeWhereClauseItem, typeBoundWhereClauseItem |->
    typeBoundWhereClauseItem, forLifetimes |-> forLifetimes, associatedItem |->
    associatedItem, innerAttribute |-> innerAttribute, outerAttribute |-> outerAttribute,
    attr |-> attr, attrInput |-> attrInput, statement |-> statement, letStatement |->
    letStatement, expressionStatement |-> expressionStatement, expression |-> expression,
    comparisonOperator |-> comparisonOperator, compoundAssignOperator |->
    compoundAssignOperator, expressionWithBlock |-> expressionWithBlock, literalExpression
    |-> literalExpression, pathExpression |-> pathExpression, blockExpression |->
    blockExpression, statements |-> statements, asyncBlockExpression |->
    asyncBlockExpression, unsafeBlockExpression |-> unsafeBlockExpression, arrayElements |->
    arrayElements, tupleElements |-> tupleElements, tupleIndex |-> tupleIndex,
    structExpression |-> structExpression, structExprStruct |-> structExprStruct,
    structExprFields |-> structExprFields, structExprField |-> structExprField, structBase
    |-> structBase, structExprTuple |-> structExprTuple, structExprUnit |-> structExprUnit,
    enumerationVariantExpression |-> enumerationVariantExpression, enumExprStruct |->
    enumExprStruct, enumExprFields |-> enumExprFields, enumExprField |-> enumExprField,
    enumExprTuple |-> enumExprTuple, enumExprFieldless |-> enumExprFieldless, callParams |->
    callParams, closureExpression |-> closureExpression, closureParameters |->
    closureParameters, closureParam |-> closureParam, loopExpression |-> loopExpression,
    infiniteLoopExpression |-> infiniteLoopExpression, predicateLoopExpression |->
    predicateLoopExpression, predicatePatternLoopExpression |->
    predicatePatternLoopExpression, iteratorLoopExpression |-> iteratorLoopExpression,
    loopLabel |-> loopLabel, ifExpression |-> ifExpression, ifLetExpression |->
    ifLetExpression, matchExpression |-> matchExpression, matchArms |-> matchArms,
    matchArmExpression |-> matchArmExpression, matchArm |-> matchArm, matchArmGuard |->
    matchArmGuard, pattern |-> pattern, patternNoTopAlt |-> patternNoTopAlt,
    patternWithoutRange |-> patternWithoutRange, literalPattern |-> literalPattern,
    identifierPattern |-> identifierPattern, wildcardPattern |-> wildcardPattern,
    restPattern |-> restPattern, rangePattern |-> rangePattern, rangePatternBound |->
    rangePatternBound, referencePattern |-> referencePattern, structPattern |->
    structPattern, structPatternElements |-> structPatternElements, structPatternFields |->
    structPatternFields, structPatternField |-> structPatternField, structPatternEtCetera
    |-> structPatternEtCetera, tupleStructPattern |-> tupleStructPattern, tupleStructItems
    |-> tupleStructItems, tuplePattern |-> tuplePattern, tuplePatternItems |->
    tuplePatternItems, groupedPattern |-> groupedPattern, slicePattern |-> slicePattern,
    slicePatternItems |-> slicePatternItems, pathPattern |-> pathPattern, type_ |-> type_,
    typeNoBounds |-> typeNoBounds, parenthesizedType |-> parenthesizedType, neverType |->
    neverType, tupleType |-> tupleType, arrayType |-> arrayType, sliceType |-> sliceType,
    referenceType |-> referenceType, rawPointerType |-> rawPointerType, bareFunctionType |->
    bareFunctionType, functionTypeQualifiers |-> functionTypeQualifiers,
    bareFunctionReturnType |-> bareFunctionReturnType, functionParametersMaybeNamedVariadic
    |-> functionParametersMaybeNamedVariadic, maybeNamedFunctionParameters |->
    maybeNamedFunctionParameters, maybeNamedParam |-> maybeNamedParam,
    maybeNamedFunctionParametersVariadic |-> maybeNamedFunctionParametersVariadic,
    traitObjectType |-> traitObjectType, traitObjectTypeOneBound |->
    traitObjectTypeOneBound, implTraitType |-> implTraitType, implTraitTypeOneBound |->
    implTraitTypeOneBound, inferredType |-> inferredType, typeParamBounds |->
    typeParamBounds, typeParamBound |-> typeParamBound, traitBound |-> traitBound,
    lifetimeBounds |-> lifetimeBounds, lifetime |-> lifetime, simplePath |-> simplePath,
    simplePathSegment |-> simplePathSegment, pathInExpression |-> pathInExpression,
    pathExprSegment |-> pathExprSegment, pathIdentSegment |-> pathIdentSegment, genericArgs
    |-> genericArgs, genericArg |-> genericArg, genericArgsConst |-> genericArgsConst,
    genericArgsLifetimes |-> genericArgsLifetimes, genericArgsTypes |-> genericArgsTypes,
    genericArgsBindings |-> genericArgsBindings, genericArgsBinding |-> genericArgsBinding,
    qualifiedPathInExpression |-> qualifiedPathInExpression, qualifiedPathType |->
    qualifiedPathType, qualifiedPathInType |-> qualifiedPathInType, typePath |-> typePath,
    typePathSegment |-> typePathSegment, typePathFn |-> typePathFn, typePathInputs |->
    typePathInputs, visibility |-> visibility, identifier |-> identifier, keyword |->
    keyword, macroIdentifierLikeToken |-> macroIdentifierLikeToken, macroLiteralToken |->
    macroLiteralToken, macroPunctuationToken |-> macroPunctuationToken, shl |-> shl, shr |->
    shr]

Rules == DOMAIN Production

=============================================================================
