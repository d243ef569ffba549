----------------------------- MODULE RustParser -----------------------------
(***************************************************************************)
(* The generated parser at work on a source (parser/RustParser.py).  A     *)
(* rule method is a frame: the children its context has so far and what is *)
(* left of its production.  The source is not fixed beforehand: whenever   *)
(* the parser matches a token, the word it reads is chosen among those the *)
(* token stands for, so that a behaviour is a source together with the way *)
(* the parser reads it.  A profile bounds the sources: the words they use, *)
(* the number of words, and the grammar rules they keep away from.         *)
(*                                                                         *)
(* Where two derivations read the same words, the parser takes the first   *)
(* alternative.  So does the model for the alternatives of Shadowed and    *)
(* for the operators of an expression, which go to the innermost           *)
(* expression open to them (barred); elsewhere it takes either.            *)
(*                                                                         *)
(* Repairs are the runtime's answers to a syntax error that keep the parse *)
(* going: a token it conjures up, and a block it gives up at the end of    *)
(* the source.  They are modelled where every decision still open was      *)
(* settled by the token before it.                                         *)
(***************************************************************************)
EXTENDS RustGrammar, RustLexer, Integers

CONSTANTS
  Profiles,          \* by name: records [words, budget, without, repairs]
  CostOf(_, _, _)    \* the words that a rule method of a profile still needs for what it does

ASSUME BoundsAssumption ==
    \A p \in DOMAIN Profiles : Profiles[p].budget \in Nat /\ Profiles[p].repairs \in Nat

VARIABLES
  profile,   \* which sources
  source,    \* the words read
  stack,     \* the rule methods under way, the innermost first
  barred,    \* levels from here on belong to an expression that has ended
  closing,   \* the parser has just met a token that closes the block
  repairs,   \* syntax errors reported
  tree       \* what crate() has returned

parserVars == <<profile, source, stack, barred, closing, repairs, tree>>

-----------------------------------------------------------------------------
(* Parse trees *)

\* A token is a tree without children: its text, and where it stands in the source.
Token(word, at) ==
    [rule |-> "<token>", kids |-> << >>, word |-> word, start |-> at, stop |-> at]

\* The context of a rule method, and the places of its first and its last token.
Node(rule, kids, start, stop) ==
    [rule |-> rule, kids |-> kids, word |-> NoText, start |-> start, stop |-> stop]

NoTree == Node("<none>", << >>, 0, 0)
IsToken(t) == t.rule = "<token>"

\* Children are numbered from 0, as in the source.
Count(t) == Len(t.kids)
Child(t, i) == IF i < Count(t) THEN t.kids[i + 1] ELSE NoTree
Says(t, words) == IsToken(t) /\ t.word \in words

-----------------------------------------------------------------------------
(* Rule methods *)

\* Alternatives that adaptivePredict never picks, as one before them reads all they read (a
\* structExprTuple, unless it has attributes inside: such sources are left out).
Shadowed ==
    { <<"expression", "enumerationVariantExpression">>, <<"structExpression", "structExprTuple">>,
      <<"structExpression", "structExprUnit">>, <<"typeNoBounds", "typePath">>,
      <<"statement", "macroInvocationSemi">> }

\* What a decision of a rule chooses from.
AlternativesOf(rule, t) ==
    {p \in IF t.op = "primary" THEN Primary[1].alts ELSE t.alts :
       ~(p # << >> /\ Head(p).op = "rule" /\ <<rule, Head(p).rule>> \in Shadowed)}

\* A rule method that starts at a place of the source, and the words that its callers need
\* once it has returned.
Frame(rule, level, start, owed) ==
    [rule |-> rule, level |-> level, start |-> start, kids |-> << >>,
     todo |-> Production[rule], owed |-> owed]

\* Whether the source can still be finished within the budget when the rule method does p.
Affordable(p) ==
    Len(source) + CostOf(profile, stack[1].rule, p) + stack[1].owed <= Profiles[profile].budget

-----------------------------------------------------------------------------
(* The parser *)

AnyLevel == 1000

ParserInit ==
    /\ profile \in DOMAIN Profiles
    /\ source = << >>
    /\ stack = <<Frame("crate", 0, 1, 0)>>
    /\ barred = AnyLevel
    /\ closing = FALSE
    /\ repairs = 0
    /\ tree = NoTree

Parsing == stack # << >>
Top == stack[1]
Next1 == Head(Top.todo)   \* what the rule method does next
Rest == Tail(Top.todo)
AboutTo(op) == Parsing /\ Top.todo # << >> /\ Next1.op = op
Here == Len(source) + 1   \* the place of the next token

\* The context under construction, if it ended with the last token read.
Context == Node(Top.rule, Top.kids, Top.start, Len(source))

Do(todo) == stack' = [stack EXCEPT ![1].todo = todo]

\* Fault: the caller goes on behind the call before it returns.
EnterRuleAndAdvance ==
    /\ AboutTo("rule")
    /\ LET owed == Top.owed + CostOf(profile, Top.rule, Rest)
       IN  stack' = <<Frame(Next1.rule, Next1.level, Here, owed)>>
                     \o [stack EXCEPT ![1].todo = Rest]
    /\ UNCHANGED <<profile, source, barred, closing, repairs, tree>>

\* self.rule(p).  The call stays at the head of the caller's production until it returns.
EnterRule ==
    /\ AboutTo("rule")
    /\ LET owed == Top.owed + CostOf(profile, Top.rule, Rest)
       IN  stack' = <<Frame(Next1.rule, Next1.level, Here, owed)>> \o stack
    /\ UNCHANGED <<profile, source, barred, closing, repairs, tree>>

\* An alternative of a decision that the rest of some source allows.
Choose ==
    /\ AboutTo("decision") \/ AboutTo("primary")
    /\ \E alternative \in AlternativesOf(Top.rule, Next1) :
         /\ closing => alternative = << >>
         /\ Affordable(alternative \o Rest)
         /\ Do(alternative \o Rest)
    /\ UNCHANGED <<profile, source, barred, closing, repairs, tree>>

Iterate ==
    /\ AboutTo("loop")
    /\ ~closing
    /\ Affordable(Next1.body \o Rest)
    /\ Do(Next1.body \o Top.todo)
    /\ UNCHANGED <<profile, source, barred, closing, repairs, tree>>

LeaveLoop ==
    /\ AboutTo("loop") \/ AboutTo("suffixes")
    /\ Do(Rest)
    /\ UNCHANGED <<profile, source, barred, closing, repairs, tree>>

\* Fault: the new context is not given the left operand.
ExtendAnew ==
    /\ AboutTo("suffixes")
    /\ ~closing
    /\ \E suffix \in Suffix[1].alts :
         /\ Head(suffix).level \in Top.level .. barred - 1
         /\ Affordable(suffix)
         /\ stack' = [stack EXCEPT ![1].kids = << >>, ![1].todo = Tail(suffix) \o @]
    /\ UNCHANGED <<profile, source, barred, closing, repairs, tree>>

\* An operator after what expression(_p) has built, which becomes its left operand:
\* precpred(_ctx, k) compares k with _p.
Extend ==
    /\ AboutTo("suffixes")
    /\ ~closing
    /\ \E suffix \in Suffix[1].alts :
         /\ Head(suffix).level \in Top.level .. barred - 1
         /\ Affordable(suffix)
         /\ stack' = [stack EXCEPT ![1].kids = <<Context>>,
                                   ![1].todo = Tail(suffix) \o @]
    /\ UNCHANGED <<profile, source, barred, closing, repairs, tree>>

AddChild(child, todo) == stack' = [stack EXCEPT ![1].kids = Append(@, child), ![1].todo = todo]

\* match(type), or consume() after the test of a set.
Match ==
    /\ AboutTo("match") \/ AboutTo("set")
    /\ Len(source) < Profiles[profile].budget
    /\ \E word \in Profiles[profile].words :
         /\ TokenType(word) \in Next1.types
         /\ source' = Append(source, word)
         /\ AddChild(Token(word, Here), Rest)
    /\ barred' = AnyLevel
    /\ closing' = FALSE
    /\ UNCHANGED <<profile, repairs, tree>>

Return(node) ==
    IF Len(stack) = 1
    THEN stack' = << >> /\ tree' = node
    ELSE /\ stack' = [Tail(stack) EXCEPT ![1].kids = Append(@, node), ![1].todo = Tail(@)]
         /\ UNCHANGED tree

\* exitRule; unrollRecursionContexts for an expression.
ExitRule ==
    /\ Parsing
    /\ Top.todo = << >>
    /\ Return(Context)
    /\ barred' = IF Top.rule = "expression" /\ Top.level < barred THEN Top.level ELSE barred
    /\ UNCHANGED <<profile, source, closing, repairs>>

-----------------------------------------------------------------------------
(* Syntax errors *)

\* Rules whose decisions the token at hand settles.
SettledRules ==
    {"crate", "item", "visItem", "function_", "blockExpression", "statements", "statement",
     "letStatement"}

Repairable ==
    /\ Parsing
    /\ repairs < Profiles[profile].repairs
    /\ ~closing
    /\ \A i \in DOMAIN stack : stack[i].rule \in SettledRules

RepairDone ==
    /\ closing' = TRUE
    /\ repairs' = repairs + 1
    /\ UNCHANGED <<profile, source, barred>>

\* A token that recoverInline conjures up: its text is no word of the source, and it takes no
\* place in it.
Missing(at) == [Token("<missing>", at) EXCEPT !.stop = at - 1]

\* recoverInline: match fails, and the token at hand is one that may follow.  A let
\* statement without its semicolon is followed by the end of the block, a block without its
\* brace, after a statement, by the end of the source.
MissingToken ==
    /\ Repairable
    /\ \/ /\ Top.rule = "letStatement"
          /\ Top.todo = T(";")
       \/ /\ Top.rule = "blockExpression"
          /\ Top.todo = T("}")
          /\ source[Len(source)] = ";"
    /\ AddChild(Missing(Here), << >>)
    /\ RepairDone
    /\ UNCHANGED tree

\* sync raises InputMismatchException, which the rule method catches: the source ends after
\* the brace that opens a block.
AbandonBlock ==
    /\ Repairable
    /\ Top.rule = "blockExpression"
    /\ Len(Top.kids) = 1
    /\ Top.todo # << >>
    /\ Return(Context)
    /\ RepairDone

ParserNext ==
    EnterRule \/ Choose \/ Iterate \/ LeaveLoop \/ Extend \/ Match \/ ExitRule
      \/ MissingToken \/ AbandonBlock

ParserSpec == ParserInit /\ [][ParserNext]_parserVars

-----------------------------------------------------------------------------
(* Properties *)

\* A rule method under way has been called by the one below it, which has not gone on since,
\* and by a name that the grammar has; the grammar's levels and the bounds are kept.
TypeOK ==
    /\ profile \in DOMAIN Profiles
    /\ source \in Seq(Profiles[profile].words) /\ Len(source) <= Profiles[profile].budget
    /\ \A i \in DOMAIN stack :
         /\ stack[i].rule \in Rules
         /\ stack[i].level \in 0 .. AnyLevel
         /\ i > 1 => /\ stack[i].todo # << >>
                     /\ Head(stack[i].todo).op = "rule"
                     /\ Head(stack[i].todo).rule = stack[i - 1].rule
                     /\ Head(stack[i].todo).level = stack[i - 1].level
    /\ barred \in 0 .. AnyLevel
    /\ closing \in BOOLEAN
    /\ repairs \in 0 .. Profiles[profile].repairs
    /\ tree = NoTree <=> Parsing

\* Children that follow each other without a gap from one place of the source to another.
Tiles(kids, first, last) ==
    LET endOf(j) == IF j = Len(kids) THEN last ELSE kids[j + 1].start - 1
    IN  /\ IF kids = << >> THEN last = first - 1 ELSE kids[1].start = first
        /\ \A j \in DOMAIN kids : kids[j].stop = endOf(j)

\* A token stands where the source has it, or is a conjured one; a context ends where its
\* last child ends.
Covers(t) ==
    IF IsToken(t)
    THEN \/ t.start \in DOMAIN source /\ t = Token(source[t.start], t.start)
         \/ t = Missing(t.start)
    ELSE Tiles(t.kids, t.start, t.stop)

\* The children of the contexts under construction hold every token read, once and in order,
\* through the left recursion of expression(_p) and every repair; so does, at the end, the
\* tree, and the source is read to its end.
ContextsCoverTheSource ==
    /\ \A i \in DOMAIN stack :
         /\ Tiles(stack[i].kids, stack[i].start,
                  IF i = 1 THEN Len(source) ELSE stack[i - 1].start - 1)
         /\ \A j \in DOMAIN stack[i].kids : Covers(stack[i].kids[j])
    /\ IF Parsing
       THEN stack[Len(stack)].start = 1
       ELSE /\ Covers(tree)
            /\ tree.rule = "crate" /\ tree.start = 1 /\ tree.stop = Len(source)
            /\ source # << >> /\ source[Len(source)] = EOF

\* The binary operators of Rust, the tightest first.
Tightness ==
    << {"*", "/", "%"}, {"+", "-"}, {"<<", ">>"}, {"&"}, {"^"}, {"|"},
       {"==", "!=", ">", "<", ">=", "<="}, {"&&"}, {"||"}, {"..="}, {"="},
       {"+=", "-=", "*=", "/=", "%=", "&=", "|=", "^=", "<<=", ">>="} >>

OperatorOf(o) ==
    CASE o.rule = "shl" -> "<<"
      [] o.rule = "shr" -> ">>"
      [] IsToken(o)     -> o.word
      [] OTHER          -> Child(o, 0).word

IsInfix(t) ==
    /\ t.rule = "expression"
    /\ Count(t) = 3
    /\ Child(t, 0).rule = "expression"
    /\ Child(t, 2).rule = "expression"
    /\ \E i \in DOMAIN Tightness : OperatorOf(Child(t, 1)) \in Tightness[i]

\* The tightness of what t is made with; 0 for what no operator can tear apart.
Looseness(t) ==
    IF IsInfix(t)
    THEN CHOOSE i \in DOMAIN Tightness : OperatorOf(Child(t, 1)) \in Tightness[i]
    ELSE 0

IsPrefixed(t) ==
    /\ t.rule = "expression"
    /\ Count(t) > 1
    /\ Says(Child(t, 0), {"-", "!", "*", "&", "&&"})

Binds(t) ==
    /\ IsInfix(t) => /\ Looseness(Child(t, 0)) <= Looseness(t)
                     /\ Looseness(Child(t, 2)) < Looseness(t)
    /\ IsPrefixed(t) => Looseness(Child(t, Count(t) - 1)) = 0

\* However operators are mixed, an operand is never looser than its operator, and operators
\* equally tight associate to the left: expression(_p) and its precpred tests.  It holds of
\* every context that becomes a child, so of every context of a tree.
PrecedenceHolds ==
    \A i \in DOMAIN stack : \A j \in DOMAIN stack[i].kids : Binds(stack[i].kids[j])

=============================================================================
