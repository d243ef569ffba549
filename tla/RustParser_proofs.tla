-------------------------- MODULE RustParser_proofs --------------------------
(***************************************************************************)
(* The parser keeps to its grammar, loses no word of a source and binds    *)
(* its operators as Rust does, for every profile: every set of words and   *)
(* every bound on their number and on the repairs; and the tree that it    *)
(* returns is a derivation of the grammar, with every word as a leaf.      *)
(*                                                                         *)
(* First come facts about the grammar: every production calls rules that   *)
(* exist, and the productions of expressions begin with what their levels  *)
(* say.  Then four inductive invariants, each on the ones before: the      *)
(* stack is typed, its frames cover the words read, an expression under    *)
(* way has an operator only where its level allows it, and every frame     *)
(* follows a production, with whole trees as its children.                 *)
(***************************************************************************)
EXTENDS RustParser, SequenceTheorems, WellFoundedInduction, TLAPS

-----------------------------------------------------------------------------
(* Words and operators *)

\* The token types that have words of their own.
LexemeTypes ==
    {"NON_KEYWORD_IDENTIFIER", "RAW_IDENTIFIER", "LIFETIME_OR_LABEL", "INTEGER_LITERAL",
     "FLOAT_LITERAL", "CHAR_LITERAL", "STRING_LITERAL", "RAW_STRING_LITERAL",
     "BYTE_LITERAL", "BYTE_STRING_LITERAL", "RAW_BYTE_STRING_LITERAL"}

\* The words that can stand between or before operands.
Operators == {"*", "/", "%", "+", "-", "<<", ">>", "&", "^", "|",
       "==", "!=", ">", "<", ">=", "<=", "&&", "||", "..=", "=",
       "+=", "-=", "*=", "/=", "%=", "&=", "|=", "^=", "<<=", ">>=", "!"}

\* The words of the lexicon are literals and names, never operators.
LEMMA LexiconTypes ==
  \A entry \in Lexicon : entry[2].type \in LexemeTypes /\ entry[1] \notin Operators
  <1>1. \A t : Word(t).type = t /\ Quoted(t).type = t
    BY DEF Word, Quoted
  <1>2. Name.type = "NON_KEYWORD_IDENTIFIER"
    BY <1>1 DEF Name
  <1>3. /\ {Whole.type, WholeTyped.type, Decimal.type, DecimalTyped.type} \subseteq LexemeTypes
    BY DEF Number, Word, Whole, WholeTyped, Decimal, DecimalTyped, LexemeTypes
  <1>4. \A b, a :
          {Suffixed(WholeTyped, b, a).type, Suffixed(DecimalTyped, b, a).type}
            \subseteq LexemeTypes
    BY DEF Number, Word, WholeTyped, DecimalTyped, LexemeTypes, Suffixed
  <1>5. \A t, b, a : Suffixed(Word(t), b, a).type = t
    BY DEF Word, Suffixed
  <1>6. \A entry \in Lexicon : entry[2].type \in LexemeTypes
    BY <1>1, <1>2, <1>3, <1>4, <1>5 DEF Lexicon, LexemeTypes
  <1>7. \A entry \in Lexicon : entry[1] \notin Operators
    BY DEF Lexicon, Operators
  <1> QED BY <1>6, <1>7

\* The text of a token that matches an operator is that operator.
LEMMA OperatorWords == \A w : TokenType(w) \in Operators \/ w \in Operators => w = TokenType(w)
  <1>1. \A entry \in Lexicon : entry[2].type \in LexemeTypes /\ entry[1] \notin Operators
    BY LexiconTypes
  <1>2. \A w \in DOMAIN Lexeme : Lexeme[w].type \in LexemeTypes /\ w \notin Operators
    BY <1>1 DEF Lexeme
  <1>3. \A t \in LexemeTypes : t \notin Operators
    BY DEF LexemeTypes, Operators
  <1> QED BY <1>2, <1>3 DEF TokenType

-----------------------------------------------------------------------------
(* Sequences *)

\* A sequence of anything.
IsSequence(p) == \E S : p \in Seq(S)

\* What builds sequences.
LEMMA SequenceFacts ==
  /\ IsSequence(<< >>)
  /\ \A t : IsSequence(<<t>>)
  /\ \A p, q : IsSequence(p) /\ IsSequence(q) => IsSequence(p \o q)
  /\ \A p, t : IsSequence(p) => IsSequence(Append(p, t))
  /\ \A p : IsSequence(p) /\ p # << >> => IsSequence(Tail(p))
  <1>1. IsSequence(<< >>)
    <2>1. << >> \in Seq({}) OBVIOUS
    <2> QED BY <2>1 DEF IsSequence
  <1>2. ASSUME NEW t PROVE IsSequence(<<t>>)
    <2>1. <<t>> \in Seq({t}) OBVIOUS
    <2> QED BY <2>1 DEF IsSequence
  <1>3. ASSUME NEW p, NEW q, IsSequence(p), IsSequence(q) PROVE IsSequence(p \o q)
    <2>1. PICK A : p \in Seq(A) BY <1>3 DEF IsSequence
    <2>2. PICK B : q \in Seq(B) BY <1>3 DEF IsSequence
    <2>3. p \in Seq(A \cup B) /\ q \in Seq(A \cup B) BY <2>1, <2>2
    <2>4. p \o q \in Seq(A \cup B) BY <2>3
    <2> QED BY <2>4 DEF IsSequence
  <1>4. ASSUME NEW p, NEW t, IsSequence(p) PROVE IsSequence(Append(p, t))
    <2>1. PICK A : p \in Seq(A) BY <1>4 DEF IsSequence
    <2>2. p \in Seq(A \cup {t}) BY <2>1
    <2>3. Append(p, t) \in Seq(A \cup {t}) BY <2>2
    <2> QED BY <2>3 DEF IsSequence
  <1>5. ASSUME NEW p, IsSequence(p), p # << >> PROVE IsSequence(Tail(p))
    <2>1. PICK A : p \in Seq(A) BY <1>5 DEF IsSequence
    <2>2. Tail(p) \in Seq(A) BY <2>1, <1>5
    <2> QED BY <2>2 DEF IsSequence
  <1> QED BY <1>1, <1>2, <1>3, <1>4, <1>5

\* The domain and the length of a sequence.
LEMMA Lengths ==
  ASSUME NEW p, IsSequence(p)
  PROVE  /\ Len(p) \in Nat
         /\ DOMAIN p = 1 .. Len(p)
         /\ p = << >> <=> Len(p) = 0
  BY DEF IsSequence

\* The elements of a sequence with one more.
LEMMA Appended ==
  ASSUME NEW p, IsSequence(p), NEW t
  PROVE  /\ Len(Append(p, t)) = Len(p) + 1
         /\ Append(p, t)[Len(p) + 1] = t
         /\ \A i \in 1 .. Len(p) : Append(p, t)[i] = p[i]
         /\ Append(p, t) # << >>
  <1>1. PICK A : p \in Seq(A) BY DEF IsSequence
  <1>2. p \in Seq(A \cup {t}) BY <1>1
  <1>3. Len(Append(p, t)) = Len(p) + 1 BY <1>2
  <1>4. Append(p, t)[Len(p) + 1] = t BY <1>2
  <1>5. \A i \in 1 .. Len(p) : Append(p, t)[i] = p[i] BY <1>2
  <1> QED BY <1>2, <1>3, <1>4, <1>5

\* The elements behind the first.
LEMMA Tailed ==
  ASSUME NEW p, IsSequence(p), p # << >>
  PROVE  /\ Len(Tail(p)) = Len(p) - 1
         /\ \A i \in 1 .. Len(p) - 1 : Tail(p)[i] = p[i + 1]
         /\ Head(p) = p[1]
  BY DEF IsSequence

\* The elements of two sequences joined.
LEMMA Joined ==
  ASSUME NEW p, IsSequence(p), NEW q, IsSequence(q)
  PROVE  /\ Len(p \o q) = Len(p) + Len(q)
         /\ \A i \in 1 .. Len(p) : (p \o q)[i] = p[i]
         /\ \A i \in 1 .. Len(q) : (p \o q)[Len(p) + i] = q[i]
  <1>1. PICK A : p \in Seq(A) BY DEF IsSequence
  <1>2. PICK B : q \in Seq(B) BY DEF IsSequence
  <1>3. p \in Seq(A \cup B) /\ q \in Seq(A \cup B) BY <1>1, <1>2
  <1>4. Len(p \o q) = Len(p) + Len(q) BY <1>3
  <1>5. \A i \in 1 .. Len(p) : (p \o q)[i] = p[i] BY <1>3
  <1>6. \A i \in 1 .. Len(q) : (p \o q)[Len(p) + i] = q[i] BY <1>3
  <1> QED BY <1>4, <1>5, <1>6

\* The first of two joined sequences gives the head.
LEMMA JoinedTail ==
  ASSUME NEW p, IsSequence(p), NEW q, IsSequence(q), p # << >>
  PROVE  /\ p \o q # << >>
         /\ Head(p \o q) = Head(p)
         /\ Tail(p \o q) = Tail(p) \o q
  <1>1. PICK A : p \in Seq(A) BY DEF IsSequence
  <1>2. PICK B : q \in Seq(B) BY DEF IsSequence
  <1>3. p \in Seq(A \cup B) /\ q \in Seq(A \cup B) BY <1>1, <1>2
  <1>4. p \o q # << >> /\ Head(p \o q) = Head(p) BY <1>3
  <1>5. Tail(p \o q) = Tail(p) \o q BY <1>3
  <1> QED BY <1>4, <1>5

\* Joining is associative.
LEMMA JoinedThrice ==
  ASSUME NEW p, IsSequence(p), NEW q, IsSequence(q), NEW r, IsSequence(r)
  PROVE  (p \o q) \o r = p \o (q \o r)
  <1>1. PICK A : p \in Seq(A) BY DEF IsSequence
  <1>2. PICK B : q \in Seq(B) BY DEF IsSequence
  <1>3. PICK C : r \in Seq(C) BY DEF IsSequence
  <1>4. /\ p \in Seq(A \cup B \cup C) /\ q \in Seq(A \cup B \cup C)
        /\ r \in Seq(A \cup B \cup C)
    BY <1>1, <1>2, <1>3
  <1> QED BY <1>4

\* The empty sequence adds nothing.
LEMMA EmptyJoined ==
  ASSUME NEW p, IsSequence(p) PROVE << >> \o p = p /\ p \o << >> = p
  <1>1. PICK A : p \in Seq(A) BY DEF IsSequence
  <1> QED BY <1>1, ConcatEmptySeq

\* An element put before a sequence is its head.
LEMMA OneJoined ==
  ASSUME NEW t, NEW q, IsSequence(q)
  PROVE  <<t>> \o q # << >> /\ Head(<<t>> \o q) = t /\ Tail(<<t>> \o q) = q
  <1> DEFINE p == <<t>>
  <1>1. IsSequence(p) /\ p # << >> /\ Head(p) = t
    BY SequenceFacts
  <1>2. Tail(p) = << >> OBVIOUS
  <1> HIDE DEF p
  <1>3. p \o q # << >> /\ Head(p \o q) = Head(p) /\ Tail(p \o q) = Tail(p) \o q
    BY <1>1, JoinedTail
  <1>4. << >> \o q = q
    BY EmptyJoined
  <1>5. p \o q # << >> /\ Head(p \o q) = t /\ Tail(p \o q) = q
    BY <1>1, <1>2, <1>3, <1>4
  <1> QED BY <1>5 DEF p

-----------------------------------------------------------------------------
(* Productions are sequences of items that call rules of the grammar *)

\* What only the production of expression consists of: its left recursion as a loop.
LeftRecursion == {"primary", "suffixes"}

\* Items that call rules of the grammar and lead to each other.
Closed(S) ==
    \A t \in S :
      /\ t.op \notin LeftRecursion
      /\ t.op = "rule" => t.rule \in Rules /\ t.level \in 0 .. AnyLevel
      /\ t.op = "decision" => \A p \in t.alts : p \in Seq(S)
      /\ t.op = "loop" => t.body \in Seq(S)

\* A production of any rule but expression.
Plain(p) == \E S : Closed(S) /\ p \in Seq(S)

\* Items that lead to each other stay so in a larger set.
LEMMA BothClosed == ASSUME NEW A, NEW B, Closed(A), Closed(B) PROVE Closed(A \cup B)
  <1> SUFFICES ASSUME NEW t \in A \cup B
               PROVE  /\ t.op \notin LeftRecursion
                      /\ t.op = "rule" => t.rule \in Rules /\ t.level \in 0 .. AnyLevel
                      /\ t.op = "decision" => \A p \in t.alts : p \in Seq(A \cup B)
                      /\ t.op = "loop" => t.body \in Seq(A \cup B)
    BY DEF Closed
  <1>1. \A p : p \in Seq(A) \/ p \in Seq(B) => p \in Seq(A \cup B)
    OBVIOUS
  <1> QED BY <1>1 DEF Closed

\* Productions follow each other.
LEMMA PlainSequence ==
  ASSUME NEW p, NEW q, Plain(p), Plain(q) PROVE Plain(p \o q)
  <1>1. PICK A : Closed(A) /\ p \in Seq(A) BY DEF Plain
  <1>2. PICK B : Closed(B) /\ q \in Seq(B) BY DEF Plain
  <1>3. Closed(A \cup B) BY <1>1, <1>2, BothClosed
  <1>4. p \in Seq(A \cup B) /\ q \in Seq(A \cup B) BY <1>1, <1>2
  <1>5. p \o q \in Seq(A \cup B) BY <1>4
  <1> QED BY <1>3, <1>5 DEF Plain

\* An item that leads to a closed set is a production.
LEMMA PlainItem ==
  ASSUME NEW S, Closed(S), NEW t, t.op \notin LeftRecursion,
         t.op = "rule" => t.rule \in Rules /\ t.level \in 0 .. AnyLevel,
         t.op = "decision" => \A p \in t.alts : p \in Seq(S),
         t.op = "loop" => t.body \in Seq(S)
  PROVE  Plain(<<t>>)
  <1>1. \A p : p \in Seq(S) => p \in Seq(S \cup {t}) OBVIOUS
  <1>2. Closed(S \cup {t}) BY <1>1 DEF Closed
  <1>3. <<t>> \in Seq(S \cup {t}) OBVIOUS
  <1> QED BY <1>2, <1>3 DEF Plain

\* The alternatives of a production lead where it leads.
LEMMA PlainAlternatives ==
  ASSUME NEW p, NEW S, Closed(S), p \in Seq(S)
  PROVE  \A q \in Alternatives(p) : q \in Seq(S)
  <1>1. CASE Len(p) = 1 /\ p[1].op = "decision"
    <2>1. p[1] \in S BY <1>1
    <2> QED BY <1>1, <2>1 DEF Alternatives, Closed
  <1>2. CASE ~(Len(p) = 1 /\ p[1].op = "decision")
    BY <1>2 DEF Alternatives
  <1> QED BY <1>1, <1>2

\* A decision between productions is one.
LEMMA PlainDecision ==
  ASSUME NEW p, NEW q, Plain(p), Plain(q) PROVE Plain(p | q)
  <1>1. PICK A : Closed(A) /\ p \in Seq(A) BY DEF Plain
  <1>2. PICK B : Closed(B) /\ q \in Seq(B) BY DEF Plain
  <1>3. Closed(A \cup B) BY <1>1, <1>2, BothClosed
  <1>4. p \in Seq(A \cup B) /\ q \in Seq(A \cup B) BY <1>1, <1>2
  <1> DEFINE t == [op |-> "decision", alts |-> Alternatives(p) \union Alternatives(q)]
  <1>5. \A a \in t.alts : a \in Seq(A \cup B)
    BY <1>3, <1>4, PlainAlternatives
  <1>6. t.op = "decision" /\ t.op \notin LeftRecursion BY DEF LeftRecursion
  <1> HIDE DEF t
  <1>7. Plain(<<t>>)
    BY <1>3, <1>5, <1>6, PlainItem
  <1> QED BY <1>7 DEF t, |

\* A loop over a production is one.
LEMMA PlainLoop ==
  ASSUME NEW p, Plain(p) PROVE Plain(Star(p))
  <1>1. PICK A : Closed(A) /\ p \in Seq(A) BY DEF Plain
  <1> DEFINE t == [op |-> "loop", body |-> p]
  <1>2. t.op = "loop" /\ t.body = p /\ t.op \notin LeftRecursion BY DEF LeftRecursion
  <1> HIDE DEF t
  <1>3. Plain(<<t>>)
    BY <1>1, <1>2, PlainItem
  <1> QED BY <1>3 DEF t, Star

\* The single steps of a rule method are productions.
LEMMA PlainAtoms ==
  /\ Plain(<< >>)
  /\ \A type : Plain(T(type))
  /\ \A types : Plain(OneOf(types))
  /\ \A r \in Rules : Plain(R(r))
  /\ \A k \in 0 .. AnyLevel : "expression" \in Rules => Plain(E(k))
  /\ \A k : Plain(Level(k))
  <1>1. Closed({}) /\ << >> \in Seq({}) BY DEF Closed
  <1>2. ASSUME NEW t, t.op \in {"match", "set", "precpred"} PROVE Plain(<<t>>)
    BY <1>1, <1>2, PlainItem DEF LeftRecursion
  <1>3. ASSUME NEW type PROVE Plain(T(type))
    <2> DEFINE t == [op |-> "match", types |-> {type}]
    <2>1. t.op = "match" OBVIOUS
    <2> HIDE DEF t
    <2>2. Plain(<<t>>) BY <2>1, <1>2
    <2> QED BY <2>2 DEF t, T
  <1>4. ASSUME NEW types PROVE Plain(OneOf(types))
    <2> DEFINE t == [op |-> "set", types |-> types]
    <2>1. t.op = "set" OBVIOUS
    <2> HIDE DEF t
    <2>2. Plain(<<t>>) BY <2>1, <1>2
    <2> QED BY <2>2 DEF t, OneOf
  <1>5. ASSUME NEW r \in Rules, NEW k \in 0 .. AnyLevel
        PROVE Plain(<< [op |-> "rule", rule |-> r, level |-> k] >>)
    <2> DEFINE t == [op |-> "rule", rule |-> r, level |-> k]
    <2>1. t.op = "rule" /\ t.rule = r /\ t.level = k OBVIOUS
    <2> HIDE DEF t
    <2>2. Plain(<<t>>) BY <2>1, <1>1, PlainItem DEF LeftRecursion
    <2> QED BY <2>2 DEF t
  <1>6. ASSUME NEW k PROVE Plain(Level(k))
    <2> DEFINE t == [op |-> "precpred", level |-> k]
    <2>1. t.op = "precpred" OBVIOUS
    <2> HIDE DEF t
    <2>2. Plain(<<t>>) BY <2>1, <1>2
    <2> QED BY <2>2 DEF t, Level
  <1>7. \A r \in Rules : Plain(R(r))
    <2>1. 0 \in 0 .. AnyLevel BY DEF AnyLevel
    <2> QED BY <2>1, <1>5 DEF R
  <1>8. \A k \in 0 .. AnyLevel : "expression" \in Rules => Plain(E(k))
    BY <1>5 DEF E
  <1> QED BY <1>1, <1>3, <1>4, <1>6, <1>7, <1>8 DEF Plain

\* What the notation keeps.
Combining ==
  /\ Plain(<< >>)
  /\ \A type : Plain(T(type))
  /\ \A types : Plain(OneOf(types))
  /\ \A r \in Rules : Plain(R(r))
  /\ \A k \in 0 .. 40 : Plain(E(k))
  /\ Plain(E(0))
  /\ \A k : Plain(Level(k))
  /\ \A p, q : Plain(p) /\ Plain(q) => Plain(p & q)
  /\ \A p, q : Plain(p) /\ Plain(q) => Plain(p | q)
  /\ \A p : Plain(p) => Plain(Star(p))
  /\ \A p : Plain(p) => Plain(Plus(p))
  /\ \A p : Plain(p) => Plain(Opt(p))

\* What the notation of the grammar builds of productions is a production.
LEMMA Combinators == Combining
  <1>1. "expression" \in Rules BY DEF Rules, Production
  <1>2. \A p, q : Plain(p) /\ Plain(q) => Plain(p & q)
    BY PlainSequence DEF &
  <1>3. \A p, q : Plain(p) /\ Plain(q) => Plain(p | q)
    BY PlainDecision
  <1>4. \A p : Plain(p) => Plain(Star(p))
    BY PlainLoop
  <1>5. \A p : Plain(p) => Plain(Plus(p))
    BY <1>2, <1>4 DEF Plus
  <1>6. \A p : Plain(p) => Plain(Opt(p))
    BY <1>3, PlainAtoms DEF Opt
  <1>7. \A k \in 0 .. 40 : k \in 0 .. AnyLevel
    BY DEF AnyLevel
  <1>8. 0 \in 0 .. AnyLevel
    BY DEF AnyLevel
  <1> QED BY <1>1, <1>2, <1>3, <1>4, <1>5, <1>6, <1>7, <1>8, PlainAtoms DEF Combining

\* A decision chooses from the alternatives of both its sides.
LEMMA AlternativesJoined ==
  ASSUME NEW p, NEW q
  PROVE  /\ Alternatives(p | q) = Alternatives(p) \cup Alternatives(q)
         /\ (p | q)[1].alts = Alternatives(p) \cup Alternatives(q)
         /\ (p | q)[1].op = "decision"
         /\ Len(p | q) = 1
  <1> DEFINE alts == Alternatives(p) \cup Alternatives(q)
             t == [op |-> "decision", alts |-> alts]
  <1>1. t.op = "decision" /\ t.alts = alts
    OBVIOUS
  <1>2. p | q = <<t>>
    BY Zenon DEF |
  <1> HIDE DEF t
  <1>3. Len(<<t>>) = 1 /\ <<t>>[1] = t
    OBVIOUS
  <1>4. Alternatives(<<t>>) = alts
    <2> HIDE DEF alts
    <2> QED BY <1>1, <1>3 DEF Alternatives
  <1> QED BY <1>1, <1>2, <1>3, <1>4, Zenon

\* What is no decision is its own only alternative.
LEMMA AlternativesAlone ==
  ASSUME NEW p, ~(Len(p) = 1 /\ p[1].op = "decision") PROVE Alternatives(p) = {p}
  BY DEF Alternatives

\* The steps of a rule method.
MatchItem(w) == [op |-> "match", types |-> {w}]
SetItem(ws) == [op |-> "set", types |-> ws]
Call(r, k) == [op |-> "rule", rule |-> r, level |-> k]
LevelItem(k) == [op |-> "precpred", level |-> k]

\* Productions are sequences.
LEMMA PlainIsSequence == \A p : Plain(p) => IsSequence(p)
  BY DEF Plain, IsSequence

\* p begins with t.
First(p, t) == IsSequence(p) /\ Len(p) >= 1 /\ p[1] = t

\* p begins with s and t.
Second(p, s, t) == IsSequence(p) /\ Len(p) >= 2 /\ p[1] = s /\ p[2] = t

\* What a production begins with.
Leading ==
  /\ Combining
  /\ \A w : First(T(w), MatchItem(w))
  /\ \A ws : First(OneOf(ws), SetItem(ws))
  /\ \A r : First(R(r), Call(r, 0))
  /\ \A k : First(E(k), Call("expression", k))
  /\ \A p, q, t : First(p, t) /\ Plain(q) => First(p & q, t)
  /\ \A p, t : First(p, t) /\ Plain(p) => First(Plus(p), t)
  /\ \A k, q, t : First(q, t) => Second(Level(k) & q, LevelItem(k), t)
  /\ \A p, q, s, t : Second(p, s, t) /\ Plain(q) => Second(p & q, s, t)

\* A step alone begins with itself.
LEMMA FirstOfOne == \A t : First(<<t>>, t)
  <1> TAKE t
  <1>1. IsSequence(<<t>>) BY SequenceFacts
  <1>2. Len(<<t>>) = 1 /\ <<t>>[1] = t OBVIOUS
  <1>3. Len(<<t>>) >= 1 BY <1>2
  <1> QED BY <1>1, <1>2, <1>3, Zenon DEF First

\* What a production written in the notation of the grammar begins with.
LEMMA Leads == Leading
  <1>1. \A w : First(T(w), MatchItem(w))
    BY FirstOfOne, Zenon DEF T, MatchItem
  <1>2. \A ws : First(OneOf(ws), SetItem(ws))
    BY FirstOfOne, Zenon DEF OneOf, SetItem
  <1>3. \A r : First(R(r), Call(r, 0))
    BY FirstOfOne, Zenon DEF R, Call
  <1>4. \A k : First(E(k), Call("expression", k))
    BY FirstOfOne, Zenon DEF E, Call
  <1>5. ASSUME NEW p, NEW q, NEW t, First(p, t), Plain(q) PROVE First(p & q, t)
    <2>1. IsSequence(p) /\ IsSequence(q)
      BY <1>5, PlainIsSequence DEF First
    <2>2. /\ IsSequence(p \o q) /\ Len(p) \in Nat /\ Len(q) \in Nat
      BY <2>1, SequenceFacts, Lengths
    <2>3. Len(p \o q) = Len(p) + Len(q) /\ (p \o q)[1] = p[1]
      BY <2>1, <2>2, <1>5, Joined DEF First
    <2> QED BY <2>2, <2>3, <1>5 DEF First, &
  <1>6. ASSUME NEW p, NEW t, First(p, t), Plain(p) PROVE First(Plus(p), t)
    BY <1>5, <1>6, Combinators, Zenon DEF Combining, Plus
  <1>7. ASSUME NEW k, NEW q, NEW t, First(q, t) PROVE Second(Level(k) & q, LevelItem(k), t)
    <2>1. IsSequence(q) /\ Len(q) >= 1 /\ q[1] = t
      BY <1>7 DEF First
    <2>2. \A l : Second(<<l>> \o q, l, t)
      <3> TAKE l
      <3>1. IsSequence(<<l>>) /\ Len(<<l>>) = 1 /\ <<l>>[1] = l
        BY SequenceFacts
      <3>2. IsSequence(<<l>> \o q) /\ Len(q) \in Nat
        BY <3>1, <2>1, SequenceFacts, Lengths
      <3>3. Len(<<l>> \o q) = 1 + Len(q) /\ (<<l>> \o q)[1] = l /\ (<<l>> \o q)[1 + 1] = q[1]
        <4> HIDE DEF First
        <4> QED BY <3>1, <3>2, <2>1, Joined
      <3> QED BY <3>2, <3>3, <2>1 DEF Second
    <2> QED BY <2>2, Zenon DEF Level, LevelItem, &
  <1>8. ASSUME NEW p, NEW q, NEW s, NEW t, Second(p, s, t), Plain(q)
        PROVE  Second(p & q, s, t)
    <2>1. IsSequence(p) /\ IsSequence(q)
      BY <1>8, PlainIsSequence DEF Second
    <2>2. /\ IsSequence(p \o q) /\ Len(p) \in Nat /\ Len(q) \in Nat
      BY <2>1, SequenceFacts, Lengths
    <2>3. Len(p \o q) = Len(p) + Len(q) /\ (p \o q)[1] = p[1] /\ (p \o q)[2] = p[2]
      BY <2>1, <2>2, <1>8, Joined DEF Second
    <2> QED BY <2>2, <2>3, <1>8 DEF Second, &
  <1> QED BY <1>1, <1>2, <1>3, <1>4, <1>5, <1>6, <1>7, <1>8, Combinators, Zenon DEF Leading

\* The names of the rule methods.
LEMMA RuleNames ==
  Rules = {"crate", "macroInvocation", "delimTokenTree", "tokenTree", "tokenTreeToken",
            "macroInvocationSemi", "macroRulesDefinition", "macroRulesDef", "macroRules",
            "macroRule", "macroMatcher", "macroMatch", "macroMatchToken", "macroFragSpec",
            "macroRepSep", "macroRepOp", "macroTranscriber", "item", "visItem", "macroItem",
            "module", "externCrate", "crateRef", "asClause", "useDeclaration", "useTree",
            "function_", "functionQualifiers", "abi", "functionParameters", "selfParam",
            "shorthandSelf", "typedSelf", "functionParam", "functionParamPattern",
            "functionReturnType", "typeAlias", "struct_", "structStruct", "tupleStruct",
            "structFields", "structField", "tupleFields", "tupleField", "enumeration",
            "enumItems", "enumItem", "enumItemTuple", "enumItemStruct", "enumItemDiscriminant",
            "union_", "constantItem", "staticItem", "trait_", "implementation", "inherentImpl",
            "traitImpl", "externBlock", "externalItem", "genericParams", "genericParam",
            "lifetimeParam", "typeParam", "constParam", "whereClause", "whereClauseItem",
            "lifetimeWhereClauseItem", "typeBoundWhereClauseItem", "forLifetimes",
            "associatedItem", "innerAttribute", "outerAttribute", "attr", "attrInput",
            "statement", "letStatement", "expressionStatement", "expression",
            "comparisonOperator", "compoundAssignOperator", "expressionWithBlock",
            "literalExpression", "pathExpression", "blockExpression", "statements",
            "asyncBlockExpression", "unsafeBlockExpression", "arrayElements", "tupleElements",
            "tupleIndex", "structExpression", "structExprStruct", "structExprFields",
            "structExprField", "structBase", "structExprTuple", "structExprUnit",
            "enumerationVariantExpression", "enumExprStruct", "enumExprFields",
            "enumExprField", "enumExprTuple", "enumExprFieldless", "callParams",
            "closureExpression", "closureParameters", "closureParam", "loopExpression",
            "infiniteLoopExpression", "predicateLoopExpression",
            "predicatePatternLoopExpression", "iteratorLoopExpression", "loopLabel",
            "ifExpression", "ifLetExpression", "matchExpression", "matchArms",
            "matchArmExpression", "matchArm", "matchArmGuard", "pattern", "patternNoTopAlt",
            "patternWithoutRange", "literalPattern", "identifierPattern", "wildcardPattern",
            "restPattern", "rangePattern", "rangePatternBound", "referencePattern",
            "structPattern", "structPatternElements", "structPatternFields",
            "structPatternField", "structPatternEtCetera", "tupleStructPattern",
            "tupleStructItems", "tuplePattern", "tuplePatternItems", "groupedPattern",
            "slicePattern", "slicePatternItems", "pathPattern", "type_", "typeNoBounds",
            "parenthesizedType", "neverType", "tupleType", "arrayType", "sliceType",
            "referenceType", "rawPointerType", "bareFunctionType", "functionTypeQualifiers",
            "bareFunctionReturnType", "functionParametersMaybeNamedVariadic",
            "maybeNamedFunctionParameters", "maybeNamedParam",
            "maybeNamedFunctionParametersVariadic", "traitObjectType",
            "traitObjectTypeOneBound", "implTraitType", "implTraitTypeOneBound",
            "inferredType", "typeParamBounds", "typeParamBound", "traitBound",
            "lifetimeBounds", "lifetime", "simplePath", "simplePathSegment",
            "pathInExpression", "pathExprSegment", "pathIdentSegment", "genericArgs",
            "genericArg", "genericArgsConst", "genericArgsLifetimes", "genericArgsTypes",
            "genericArgsBindings", "genericArgsBinding", "qualifiedPathInExpression",
            "qualifiedPathType", "qualifiedPathInType", "typePath", "typePathSegment",
            "typePathFn", "typePathInputs", "visibility", "identifier", "keyword",
            "macroIdentifierLikeToken", "macroLiteralToken", "macroPunctuationToken", "shl",
            "shr"}
  BY DEF Rules, Production

-----------------------------------------------------------------------------
(* How the alternatives of an expression begin *)

\* Operators before an operand, and the operand of a borrow.
PrefixOperators == {"-", "!", "*", "&", "&&"}
OptMut == Opt(T("mut"))

\* What follows a prefix operator.
Operands == {E(28), E(29), OptMut \o E(30)}

\* p begins as an alternative of primary does.
PrimaryStart(p) ==
  /\ IsSequence(p) /\ p # << >>
  /\ \/ p[1].op = "rule" /\ p[1].rule # "expression"
     \/ /\ p[1].op \in {"match", "set"}
        /\ p[1].types \cap PrefixOperators = {} \/ Tail(p) \in Operands

AllStart(p) == \A q \in Alternatives(p) : PrimaryStart(q)

\* The two sides of a decision begin as primaries when it does.
LEMMA AllStartEither == \A p, q : AllStart(p) /\ AllStart(q) => AllStart(p | q)
  <1> TAKE p, q
  <1>1. Alternatives(p | q) = Alternatives(p) \cup Alternatives(q)
    BY AlternativesJoined, Zenon
  <1> QED BY <1>1, Zenon DEF AllStart

\* A production that is no decision.
LEMMA AllStartAlone ==
  ASSUME NEW p, NEW t, First(p, t), t.op # "decision", PrimaryStart(p) PROVE AllStart(p)
  BY AlternativesAlone DEF First, AllStart

\* A primary may begin with a call of another rule.
LEMMA RuleStarts ==
  \A p, r : First(p, Call(r, 0)) /\ r # "expression" => AllStart(p)
  <1> SUFFICES ASSUME NEW p, NEW r, First(p, Call(r, 0)), r # "expression" PROVE AllStart(p)
    OBVIOUS
  <1>1. Call(r, 0).op = "rule" /\ Call(r, 0).rule = r
    BY DEF Call
  <1>2. p # << >> /\ IsSequence(p) /\ p[1] = Call(r, 0)
    BY Lengths DEF First
  <1>3. PrimaryStart(p)
    BY <1>1, <1>2 DEF PrimaryStart
  <1> QED BY <1>1, <1>3, AllStartAlone

\* A primary may begin with a token that is no prefix operator.
LEMMA TokenStarts ==
  \A p, w : First(p, MatchItem(w)) /\ w \notin PrefixOperators => AllStart(p)
  <1> SUFFICES ASSUME NEW p, NEW w, First(p, MatchItem(w)), w \notin PrefixOperators
               PROVE  AllStart(p)
    OBVIOUS
  <1>1. MatchItem(w).op = "match" /\ MatchItem(w).types = {w}
    BY DEF MatchItem
  <1>2. p # << >> /\ IsSequence(p) /\ p[1] = MatchItem(w)
    BY Lengths DEF First
  <1>3. PrimaryStart(p)
    BY <1>1, <1>2 DEF PrimaryStart
  <1> QED BY <1>1, <1>3, AllStartAlone

\* A primary may begin with a prefix operator before its operand.
LEMMA PrefixStarts ==
  ASSUME NEW t, NEW q, IsSequence(q), q \in Operands, t.op \in {"match", "set"}
  PROVE  AllStart(<<t>> \o q)
  <1> DEFINE p == <<t>> \o q
  <1>1. p # << >> /\ Head(p) = t /\ Tail(p) = q /\ IsSequence(p)
    BY OneJoined, SequenceFacts
  <1> HIDE DEF p
  <1>2. p[1] = t /\ Len(p) >= 1
    BY <1>1, Tailed, Lengths
  <1>3. PrimaryStart(p)
    BY <1>1, <1>2 DEF PrimaryStart
  <1>4. t.op # "decision"
    OBVIOUS
  <1>5. AllStart(p)
    BY <1>1, <1>2, <1>3, <1>4, AllStartAlone DEF First
  <1> QED BY <1>5 DEF p

\* The calls of expression(p).
LEMMA ExpressionCalls ==
  /\ Plain(E(0)) /\ Plain(E(13)) /\ Plain(E(14)) /\ Plain(E(15))
  /\ Plain(E(19)) /\ Plain(E(20)) /\ Plain(E(21)) /\ Plain(E(22))
  /\ Plain(E(23)) /\ Plain(E(24)) /\ Plain(E(25)) /\ Plain(E(26))
  /\ Plain(E(27)) /\ Plain(E(28)) /\ Plain(E(29)) /\ Plain(E(30))
  /\ Plain(E(40))
  <1>1. \A k \in 0 .. 40 : Plain(E(k))
    BY Combinators, Zenon DEF Combining
  <1> QED BY <1>1

\* The calls that the primaries of an expression make.
LEMMA CalledRules ==
  /\ "outerAttribute" \in Rules /\ "innerAttribute" \in Rules /\ "literalExpression" \in Rules
  /\ "pathExpression" \in Rules /\ "arrayElements" \in Rules /\ "tupleElements" \in Rules
  /\ "structExpression" \in Rules /\ "enumerationVariantExpression" \in Rules
  /\ "closureExpression" \in Rules /\ "expressionWithBlock" \in Rules
  /\ "macroInvocation" \in Rules /\ "pathExprSegment" \in Rules /\ "callParams" \in Rules
  /\ "identifier" \in Rules /\ "tupleIndex" \in Rules /\ "typeNoBounds" \in Rules
  /\ "shl" \in Rules /\ "shr" \in Rules /\ "comparisonOperator" \in Rules
  /\ "compoundAssignOperator" \in Rules
  BY RuleNames

\* A primary begins with a token or with another rule, and a prefix operator is
\* followed by its operand alone.
LEMMA PrimaryStarts == \A p \in Primary[1].alts : PrimaryStart(p)
  <1>1. AllStart(AttributedExpression)
    <2>1. First(AttributedExpression, Call("outerAttribute", 0))
      BY Leads, ExpressionCalls, CalledRules, Zenon DEF AttributedExpression, Leading, Combining
    <2> QED BY <2>1, RuleStarts
  <1>2. AllStart(LiteralExpression_)
    <2>1. First(LiteralExpression_, Call("literalExpression", 0))
      BY Leads, ExpressionCalls, CalledRules, Zenon DEF LiteralExpression_, Leading, Combining
    <2> QED BY <2>1, RuleStarts
  <1>3. AllStart(PathExpression_)
    <2>1. First(PathExpression_, Call("pathExpression", 0))
      BY Leads, ExpressionCalls, CalledRules, Zenon DEF PathExpression_, Leading, Combining
    <2> QED BY <2>1, RuleStarts
  <1>4. AllStart(BorrowExpression)
    <2> DEFINE t == SetItem({"&", "&&"})
    <2>1. IsSequence(OptMut) /\ IsSequence(E(30)) /\ IsSequence(<<t>>)
      <3>1. Plain(OptMut) BY Combinators, Zenon DEF Combining, OptMut
      <3> QED BY <3>1, ExpressionCalls, PlainIsSequence, SequenceFacts
    <2>2. BorrowExpression = (<<t>> \o OptMut) \o E(30)
      BY Zenon DEF BorrowExpression, OptMut, OneOf, SetItem, &
    <2>3. t.op = "set"
      BY DEF SetItem
    <2> HIDE DEF t
    <2>4. BorrowExpression = <<t>> \o (OptMut \o E(30)) /\ IsSequence(OptMut \o E(30))
      BY <2>1, <2>2, JoinedThrice, SequenceFacts
    <2> QED BY <2>3, <2>4, PrefixStarts DEF Operands
  <1>5. AllStart(DereferenceExpression)
    <2> DEFINE t == MatchItem("*")
    <2>1. DereferenceExpression = <<t>> \o E(29)
      BY Zenon DEF DereferenceExpression, T, MatchItem, &
    <2>2. t.op \in {"match", "set"}
      BY DEF MatchItem
    <2> HIDE DEF t
    <2>3. IsSequence(E(29)) /\ E(29) \in Operands
      BY ExpressionCalls, PlainIsSequence DEF Operands
    <2> QED BY <2>1, <2>2, <2>3, PrefixStarts
  <1>6. AllStart(NegationExpression)
    <2> DEFINE t == SetItem({"-", "!"})
    <2>1. NegationExpression = <<t>> \o E(28)
      BY Zenon DEF NegationExpression, OneOf, SetItem, &
    <2>2. t.op \in {"match", "set"}
      BY DEF SetItem
    <2> HIDE DEF t
    <2>3. IsSequence(E(28)) /\ E(28) \in Operands
      BY ExpressionCalls, PlainIsSequence DEF Operands
    <2> QED BY <2>1, <2>2, <2>3, PrefixStarts
  <1>7. AllStart(RangeTo)
    <2>1. First(RangeTo, MatchItem(".."))
      BY Leads, ExpressionCalls, CalledRules, Zenon DEF RangeTo, Leading, Combining
    <2>2. ".." \notin PrefixOperators
      BY DEF PrefixOperators
    <2> QED BY <2>1, <2>2, TokenStarts
  <1>8. AllStart(RangeToInclusive)
    <2>1. First(RangeToInclusive, MatchItem("..="))
      BY Leads, ExpressionCalls, CalledRules, Zenon DEF RangeToInclusive, Leading, Combining
    <2>2. "..=" \notin PrefixOperators
      BY DEF PrefixOperators
    <2> QED BY <2>1, <2>2, TokenStarts
  <1>9. AllStart(ContinueExpression)
    <2>1. First(ContinueExpression, MatchItem("continue"))
      BY Leads, ExpressionCalls, CalledRules, Zenon DEF ContinueExpression, Leading, Combining
    <2>2. "continue" \notin PrefixOperators
      BY DEF PrefixOperators
    <2> QED BY <2>1, <2>2, TokenStarts
  <1>10. AllStart(BreakExpression)
    <2>1. First(BreakExpression, MatchItem("break"))
      BY Leads, ExpressionCalls, CalledRules, Zenon DEF BreakExpression, Leading, Combining
    <2>2. "break" \notin PrefixOperators
      BY DEF PrefixOperators
    <2> QED BY <2>1, <2>2, TokenStarts
  <1>11. AllStart(ReturnExpression)
    <2>1. First(ReturnExpression, MatchItem("return"))
      BY Leads, ExpressionCalls, CalledRules, Zenon DEF ReturnExpression, Leading, Combining
    <2>2. "return" \notin PrefixOperators
      BY DEF PrefixOperators
    <2> QED BY <2>1, <2>2, TokenStarts
  <1>12. AllStart(GroupedExpression)
    <2>1. First(GroupedExpression, MatchItem("("))
      BY Leads, ExpressionCalls, CalledRules, Zenon DEF GroupedExpression, Leading, Combining
    <2>2. "(" \notin PrefixOperators
      BY DEF PrefixOperators
    <2> QED BY <2>1, <2>2, TokenStarts
  <1>13. AllStart(ArrayExpression)
    <2>1. First(ArrayExpression, MatchItem("["))
      BY Leads, ExpressionCalls, CalledRules, Zenon DEF ArrayExpression, Leading, Combining
    <2>2. "[" \notin PrefixOperators
      BY DEF PrefixOperators
    <2> QED BY <2>1, <2>2, TokenStarts
  <1>14. AllStart(TupleExpression)
    <2>1. First(TupleExpression, MatchItem("("))
      BY Leads, ExpressionCalls, CalledRules, Zenon DEF TupleExpression, Leading, Combining
    <2>2. "(" \notin PrefixOperators
      BY DEF PrefixOperators
    <2> QED BY <2>1, <2>2, TokenStarts
  <1>15. AllStart(StructExpression_)
    <2>1. First(StructExpression_, Call("structExpression", 0))
      BY Leads, ExpressionCalls, CalledRules, Zenon DEF StructExpression_, Leading, Combining
    <2> QED BY <2>1, RuleStarts
  <1>16. AllStart(EnumerationVariantExpression_)
    <2>1. First(EnumerationVariantExpression_, Call("enumerationVariantExpression", 0))
      BY Leads, ExpressionCalls, CalledRules, Zenon
          DEF EnumerationVariantExpression_, Leading, Combining
    <2> QED BY <2>1, RuleStarts
  <1>17. AllStart(ClosureExpression_)
    <2>1. First(ClosureExpression_, Call("closureExpression", 0))
      BY Leads, ExpressionCalls, CalledRules, Zenon DEF ClosureExpression_, Leading, Combining
    <2> QED BY <2>1, RuleStarts
  <1>18. AllStart(ExpressionWithBlock_)
    <2>1. First(ExpressionWithBlock_, Call("expressionWithBlock", 0))
      BY Leads, ExpressionCalls, CalledRules, Zenon DEF ExpressionWithBlock_, Leading, Combining
    <2> QED BY <2>1, RuleStarts
  <1>19. AllStart(MacroInvocationAsExpression)
    <2>1. First(MacroInvocationAsExpression, Call("macroInvocation", 0))
      BY Leads, ExpressionCalls, CalledRules, Zenon
          DEF MacroInvocationAsExpression, Leading, Combining
    <2> QED BY <2>1, RuleStarts
  <1> DEFINE init ==
               AttributedExpression | LiteralExpression_ | PathExpression_ |
               BorrowExpression | DereferenceExpression | NegationExpression | RangeTo |
               RangeToInclusive | ContinueExpression | BreakExpression | ReturnExpression |
               GroupedExpression | ArrayExpression | TupleExpression | StructExpression_ |
               EnumerationVariantExpression_ | ClosureExpression_ | ExpressionWithBlock_
  <1>20. AllStart(init)
    BY AllStartEither, Zenon, <1>1, <1>2, <1>3, <1>4, <1>5, <1>6, <1>7, <1>8, <1>9, <1>10,
        <1>11, <1>12, <1>13, <1>14, <1>15, <1>16, <1>17, <1>18
  <1>21. Primary = (init | MacroInvocationAsExpression)
    BY Zenon DEF Primary
  <1> HIDE DEF init
  <1>22. Primary[1].alts = Alternatives(init) \cup Alternatives(MacroInvocationAsExpression)
    BY <1>21, AlternativesJoined, Zenon
  <1> QED BY <1>19, <1>20, <1>22, Zenon DEF AllStart

\* A rank is a row of Tightness; the level of its precpred test.
Ranks == 1 .. 12
LevelOf(r) == IF r <= 9 THEN 27 - r ELSE 24 - r

\* t reads an operator of rank r, by a token or by a rule.
OperatorItem(t, r) ==
  \/ t.op \in {"match", "set"} /\ t.types \subseteq Tightness[r]
  \/ t.op = "rule" /\ t.rule \in {"shl", "shr"} /\ r = 3
  \/ t.op = "rule" /\ t.rule = "comparisonOperator" /\ r = 7
  \/ t.op = "rule" /\ t.rule = "compoundAssignOperator" /\ r = 12
  \/ t.op = "decision" /\ t.alts = {R("shl"), R("shr")} /\ r = 3

\* t reads no operator.
Inert(t) == t.op = "match" /\ t.types \cap Operators = {}

\* p begins as a suffix does.
SuffixStart(p) ==
  /\ IsSequence(p) /\ Len(p) >= 2
  /\ \/ Inert(p[2])
     \/ \E r \in Ranks : /\ p[1].level = LevelOf(r)
                         /\ OperatorItem(p[2], r)
                         /\ Tail(Tail(p)) = E(LevelOf(r) + 1)

AllSuffixes(p) == \A q \in Alternatives(p) : SuffixStart(q)

\* The rows of Tightness.
LEMMA Rows ==
  /\ Tightness[1] = {"*", "/", "%"} /\ Tightness[2] = {"+", "-"}
  /\ Tightness[3] = {"<<", ">>"} /\ Tightness[4] = {"&"} /\ Tightness[5] = {"^"}
  /\ Tightness[6] = {"|"} /\ Tightness[7] = {"==", "!=", ">", "<", ">=", "<="}
  /\ Tightness[8] = {"&&"} /\ Tightness[9] = {"||"} /\ Tightness[10] = {"..="}
  /\ Tightness[11] = {"="}
  /\ Tightness[12] = {"+=", "-=", "*=", "/=", "%=", "&=", "|=", "^=", "<<=", ">>="}
  /\ DOMAIN Tightness = 1 .. 12
  BY DEF Tightness

\* The two sides of a decision are suffixes when it is.
LEMMA AllSuffixesEither == \A p, q : AllSuffixes(p) /\ AllSuffixes(q) => AllSuffixes(p | q)
  <1> TAKE p, q
  <1>1. Alternatives(p | q) = Alternatives(p) \cup Alternatives(q)
    BY AlternativesJoined, Zenon
  <1> QED BY <1>1, Zenon DEF AllSuffixes

\* A production that is no decision.
LEMMA AllSuffixesAlone ==
  ASSUME NEW p, Len(p) >= 2, SuffixStart(p) PROVE AllSuffixes(p)
  <1> DEFINE n == Len(p)
  <1>1. n \in Nat /\ n >= 2
    <2>1. IsSequence(p)
      BY Zenon DEF SuffixStart
    <2> QED BY <2>1, Lengths
  <1>2. n # 1
    <2> HIDE DEF n
    <2> QED BY <1>1
  <1>3. Alternatives(p) = {p}
    BY <1>2, AlternativesAlone
  <1> QED BY <1>3 DEF AllSuffixes

\* A suffix whose token is no operator: a call, a field, a cast.
LEMMA InertSuffix ==
  ASSUME NEW p, NEW k, NEW w, Second(p, LevelItem(k), MatchItem(w)), w \notin Operators
  PROVE  AllSuffixes(p)
  <1>1. MatchItem(w).op = "match" /\ MatchItem(w).types = {w}
    BY DEF MatchItem
  <1>2. Inert(p[2])
    BY <1>1 DEF Second, Inert
  <1> QED BY <1>2, AllSuffixesAlone DEF Second, SuffixStart

\* The items of three productions joined.
LEMMA Triple ==
  ASSUME NEW a, NEW b, NEW c
  PROVE  /\ IsSequence((<<a>> \o <<b>>) \o <<c>>)
         /\ Len((<<a>> \o <<b>>) \o <<c>>) = 3
         /\ ((<<a>> \o <<b>>) \o <<c>>)[1] = a
         /\ ((<<a>> \o <<b>>) \o <<c>>)[2] = b
         /\ Tail(Tail((<<a>> \o <<b>>) \o <<c>>)) = <<c>>
  <1>1. \A t : IsSequence(<<t>>) /\ Len(<<t>>) = 1 /\ <<t>>[1] = t
    BY SequenceFacts
  <1> DEFINE u == <<a>> \o <<b>>
  <1>2. IsSequence(u) /\ u # << >> /\ Head(u) = a /\ Tail(u) = <<b>>
    BY <1>1, OneJoined, SequenceFacts
  <1>3. Len(u) = Len(<<a>>) + Len(<<b>>) /\ u[1] = a /\ u[Len(<<a>>) + 1] = b
    <2>1. /\ \A i \in 1 .. Len(<<a>>) : u[i] = <<a>>[i]
          /\ \A i \in 1 .. Len(<<b>>) : u[Len(<<a>>) + i] = <<b>>[i]
          /\ Len(u) = Len(<<a>>) + Len(<<b>>)
      BY <1>1, Joined
    <2>2. Len(<<a>>) = 1 /\ Len(<<b>>) = 1 /\ <<a>>[1] = a /\ <<b>>[1] = b
      BY <1>1
    <2>3. 1 \in 1 .. 1
      OBVIOUS
    <2> HIDE DEF u
    <2> QED BY <2>1, <2>2, <2>3, Zenon
  <1> HIDE DEF u
  <1>4. Len(u) = 2 /\ u[1] = a /\ u[2] = b
    BY <1>1, <1>3
  <1> DEFINE p == u \o <<c>>
  <1>5. /\ \A i \in 1 .. Len(u) : p[i] = u[i]
        /\ Len(p) = Len(u) + Len(<<c>>)
        /\ IsSequence(p)
        /\ Tail(p) = <<b>> \o <<c>>
    <2>1. IsSequence(<<c>>)
      BY <1>1
    <2>2. Tail(p) = Tail(u) \o <<c>>
      BY <2>1, <1>2, JoinedTail
    <2>3. /\ \A i \in 1 .. Len(u) : p[i] = u[i]
          /\ Len(p) = Len(u) + Len(<<c>>)
      BY <2>1, <1>2, Joined
    <2>4. IsSequence(p)
      BY <2>1, <1>2, SequenceFacts
    <2> HIDE DEF p
    <2> QED BY <2>2, <2>3, <2>4, <1>2
  <1>6. Tail(<<b>> \o <<c>>) = <<c>>
    BY <1>1, OneJoined
  <1> HIDE DEF p
  <1>7. Len(p) = 3 /\ p[1] = a /\ p[2] = b
    BY <1>1, <1>4, <1>5
  <1> QED BY <1>5, <1>6, <1>7 DEF p, u

\* A suffix made of a level, an operator and its right operand.
LEMMA InfixSuffix ==
  ASSUME NEW k, NEW t, NEW m, NEW r \in Ranks, k = LevelOf(r), m = k + 1, OperatorItem(t, r)
  PROVE  AllSuffixes((Level(k) & <<t>>) & E(m))
  <1> DEFINE l == LevelItem(k)
             c == Call("expression", m)
             p == (<<l>> \o <<t>>) \o <<c>>
  <1>1. l.level = k
    BY DEF LevelItem
  <1>2. (Level(k) & <<t>>) & E(m) = p /\ E(m) = <<c>>
    BY Zenon DEF Level, LevelItem, E, Call, &
  <1> HIDE DEF l, c
  <1>3. Len(p) = 3 /\ p[1] = l /\ p[2] = t /\ Tail(Tail(p)) = <<c>>
    BY Triple
  <1>6. IsSequence(p)
    BY Triple
  <1> HIDE DEF p
  <1>7. Len(p) = 3 /\ p[1] = l /\ p[2] = t /\ Tail(Tail(p)) = E(m)
    BY <1>2, <1>3, Zenon
  <1>9. Len(p) >= 2
    <2> DEFINE n == Len(p)
    <2>1. n = 3
      BY <1>7
    <2> HIDE DEF n
    <2>2. n >= 2
      BY <2>1
    <2> QED BY <2>2 DEF n
  <1>8. SuffixStart(p)
    BY <1>1, <1>6, <1>7, <1>9 DEF SuffixStart
  <1> QED BY <1>2, <1>9, <1>8, AllSuffixesAlone

\* A suffix of an expression has no operator, or one of the rank that its level says, with a
\* right operand one level tighter (the precpred tests and the calls of expression(p)).
LEMMA Suffixes == \A p \in Suffix[1].alts : SuffixStart(p)
  <1>1. AllSuffixes(Multiplicative)
    <2> DEFINE t == SetItem({"*", "/", "%"})
    <2>1. Multiplicative = ((Level(26) & <<t>>) & E(27))
      BY Zenon DEF Multiplicative, OneOf, SetItem
    <2>2. OperatorItem(t, 1)
      BY Rows DEF OperatorItem, SetItem
    <2> HIDE DEF t
    <2>3. 26 = LevelOf(1) /\ 27 = 26 + 1 /\ 1 \in Ranks
      BY DEF LevelOf, Ranks
    <2> QED BY <2>1, <2>2, <2>3, InfixSuffix
  <1>2. AllSuffixes(Additive)
    <2> DEFINE t == SetItem({"+", "-"})
    <2>1. Additive = ((Level(25) & <<t>>) & E(26))
      BY Zenon DEF Additive, OneOf, SetItem
    <2>2. OperatorItem(t, 2)
      BY Rows DEF OperatorItem, SetItem
    <2> HIDE DEF t
    <2>3. 25 = LevelOf(2) /\ 26 = 25 + 1 /\ 2 \in Ranks
      BY DEF LevelOf, Ranks
    <2> QED BY <2>1, <2>2, <2>3, InfixSuffix
  <1>3. AllSuffixes(BitAnd)
    <2> DEFINE t == MatchItem("&")
    <2>1. BitAnd = ((Level(23) & <<t>>) & E(24))
      BY Zenon DEF BitAnd, T, MatchItem
    <2>2. OperatorItem(t, 4)
      BY Rows DEF OperatorItem, MatchItem
    <2> HIDE DEF t
    <2>3. 23 = LevelOf(4) /\ 24 = 23 + 1 /\ 4 \in Ranks
      BY DEF LevelOf, Ranks
    <2> QED BY <2>1, <2>2, <2>3, InfixSuffix
  <1>4. AllSuffixes(BitXor)
    <2> DEFINE t == MatchItem("^")
    <2>1. BitXor = ((Level(22) & <<t>>) & E(23))
      BY Zenon DEF BitXor, T, MatchItem
    <2>2. OperatorItem(t, 5)
      BY Rows DEF OperatorItem, MatchItem
    <2> HIDE DEF t
    <2>3. 22 = LevelOf(5) /\ 23 = 22 + 1 /\ 5 \in Ranks
      BY DEF LevelOf, Ranks
    <2> QED BY <2>1, <2>2, <2>3, InfixSuffix
  <1>5. AllSuffixes(BitOr)
    <2> DEFINE t == MatchItem("|")
    <2>1. BitOr = ((Level(21) & <<t>>) & E(22))
      BY Zenon DEF BitOr, T, MatchItem
    <2>2. OperatorItem(t, 6)
      BY Rows DEF OperatorItem, MatchItem
    <2> HIDE DEF t
    <2>3. 21 = LevelOf(6) /\ 22 = 21 + 1 /\ 6 \in Ranks
      BY DEF LevelOf, Ranks
    <2> QED BY <2>1, <2>2, <2>3, InfixSuffix
  <1>6. AllSuffixes(ComparisonExpression)
    <2> DEFINE t == Call("comparisonOperator", 0)
    <2>1. ComparisonExpression = ((Level(20) & <<t>>) & E(21))
      BY Zenon DEF ComparisonExpression, R, Call
    <2>2. OperatorItem(t, 7)
      BY Rows DEF OperatorItem, Call
    <2> HIDE DEF t
    <2>3. 20 = LevelOf(7) /\ 21 = 20 + 1 /\ 7 \in Ranks
      BY DEF LevelOf, Ranks
    <2> QED BY <2>1, <2>2, <2>3, InfixSuffix
  <1>7. AllSuffixes(LazyAnd)
    <2> DEFINE t == MatchItem("&&")
    <2>1. LazyAnd = ((Level(19) & <<t>>) & E(20))
      BY Zenon DEF LazyAnd, T, MatchItem
    <2>2. OperatorItem(t, 8)
      BY Rows DEF OperatorItem, MatchItem
    <2> HIDE DEF t
    <2>3. 19 = LevelOf(8) /\ 20 = 19 + 1 /\ 8 \in Ranks
      BY DEF LevelOf, Ranks
    <2> QED BY <2>1, <2>2, <2>3, InfixSuffix
  <1>8. AllSuffixes(LazyOr)
    <2> DEFINE t == MatchItem("||")
    <2>1. LazyOr = ((Level(18) & <<t>>) & E(19))
      BY Zenon DEF LazyOr, T, MatchItem
    <2>2. OperatorItem(t, 9)
      BY Rows DEF OperatorItem, MatchItem
    <2> HIDE DEF t
    <2>3. 18 = LevelOf(9) /\ 19 = 18 + 1 /\ 9 \in Ranks
      BY DEF LevelOf, Ranks
    <2> QED BY <2>1, <2>2, <2>3, InfixSuffix
  <1>9. AllSuffixes(RangeInclusive)
    <2> DEFINE t == MatchItem("..=")
    <2>1. RangeInclusive = ((Level(14) & <<t>>) & E(15))
      BY Zenon DEF RangeInclusive, T, MatchItem
    <2>2. OperatorItem(t, 10)
      BY Rows DEF OperatorItem, MatchItem
    <2> HIDE DEF t
    <2>3. 14 = LevelOf(10) /\ 15 = 14 + 1 /\ 10 \in Ranks
      BY DEF LevelOf, Ranks
    <2> QED BY <2>1, <2>2, <2>3, InfixSuffix
  <1>10. AllSuffixes(AssignmentExpression)
    <2> DEFINE t == MatchItem("=")
    <2>1. AssignmentExpression = ((Level(13) & <<t>>) & E(14))
      BY Zenon DEF AssignmentExpression, T, MatchItem
    <2>2. OperatorItem(t, 11)
      BY Rows DEF OperatorItem, MatchItem
    <2> HIDE DEF t
    <2>3. 13 = LevelOf(11) /\ 14 = 13 + 1 /\ 11 \in Ranks
      BY DEF LevelOf, Ranks
    <2> QED BY <2>1, <2>2, <2>3, InfixSuffix
  <1>11. AllSuffixes(CompoundAssignmentExpression)
    <2> DEFINE t == Call("compoundAssignOperator", 0)
    <2>1. CompoundAssignmentExpression = ((Level(12) & <<t>>) & E(13))
      BY Zenon DEF CompoundAssignmentExpression, R, Call
    <2>2. OperatorItem(t, 12)
      BY Rows DEF OperatorItem, Call
    <2> HIDE DEF t
    <2>3. 12 = LevelOf(12) /\ 13 = 12 + 1 /\ 12 \in Ranks
      BY DEF LevelOf, Ranks
    <2> QED BY <2>1, <2>2, <2>3, InfixSuffix
  <1>12. AllSuffixes(Shift)
    <2> DEFINE alts == {R("shl"), R("shr")}
               t == [op |-> "decision", alts |-> alts]
    <2>1. (R("shl") | R("shr")) = <<t>>
      <3>1. \A r : Alternatives(R(r)) = {R(r)}
        <4> TAKE r
        <4>1. R(r) = <<Call(r, 0)>>
          BY Zenon DEF R, Call
        <4>2. Call(r, 0).op = "rule"
          BY DEF Call
        <4>3. R(r)[1].op = "rule"
          BY <4>1, <4>2
        <4> QED BY <4>3, AlternativesAlone
      <3>2. Alternatives(R("shl")) \cup Alternatives(R("shr")) = alts
        BY <3>1
      <3> HIDE DEF alts
      <3> QED BY <3>2, Zenon DEF |
    <2>2. Shift = ((Level(24) & <<t>>) & E(25))
      BY <2>1, Zenon DEF Shift
    <2>3. t.op = "decision" /\ t.alts = alts
      OBVIOUS
    <2> HIDE DEF t
    <2>4. OperatorItem(t, 3)
      BY <2>3 DEF OperatorItem
    <2>5. 24 = LevelOf(3) /\ 25 = 24 + 1 /\ 3 \in Ranks
      BY DEF LevelOf, Ranks
    <2> HIDE DEF alts
    <2> QED BY <2>2, <2>4, <2>5, InfixSuffix
  <1>13. AllSuffixes(MethodCallExpression)
    <2>1. Second(MethodCallExpression, LevelItem(37), MatchItem("."))
      BY Leads, ExpressionCalls, CalledRules, Zenon DEF MethodCallExpression, Leading, Combining
    <2>2. "." \notin Operators
      BY DEF Operators
    <2> QED BY <2>1, <2>2, InertSuffix
  <1>14. AllSuffixes(FieldExpression)
    <2>1. Second(FieldExpression, LevelItem(36), MatchItem("."))
      BY Leads, ExpressionCalls, CalledRules, Zenon DEF FieldExpression, Leading, Combining
    <2>2. "." \notin Operators
      BY DEF Operators
    <2> QED BY <2>1, <2>2, InertSuffix
  <1>15. AllSuffixes(TupleIndexingExpression)
    <2>1. Second(TupleIndexingExpression, LevelItem(35), MatchItem("."))
      BY Leads, ExpressionCalls, CalledRules, Zenon
          DEF TupleIndexingExpression, Leading, Combining
    <2>2. "." \notin Operators
      BY DEF Operators
    <2> QED BY <2>1, <2>2, InertSuffix
  <1>16. AllSuffixes(AwaitExpression)
    <2>1. Second(AwaitExpression, LevelItem(34), MatchItem("."))
      BY Leads, ExpressionCalls, CalledRules, Zenon DEF AwaitExpression, Leading, Combining
    <2>2. "." \notin Operators
      BY DEF Operators
    <2> QED BY <2>1, <2>2, InertSuffix
  <1>17. AllSuffixes(CallExpression)
    <2>1. Second(CallExpression, LevelItem(33), MatchItem("("))
      BY Leads, ExpressionCalls, CalledRules, Zenon DEF CallExpression, Leading, Combining
    <2>2. "(" \notin Operators
      BY DEF Operators
    <2> QED BY <2>1, <2>2, InertSuffix
  <1>18. AllSuffixes(IndexExpression)
    <2>1. Second(IndexExpression, LevelItem(32), MatchItem("["))
      BY Leads, ExpressionCalls, CalledRules, Zenon DEF IndexExpression, Leading, Combining
    <2>2. "[" \notin Operators
      BY DEF Operators
    <2> QED BY <2>1, <2>2, InertSuffix
  <1>19. AllSuffixes(ErrorPropagationExpression)
    <2>1. Second(ErrorPropagationExpression, LevelItem(31), MatchItem("?"))
      BY Leads, ExpressionCalls, CalledRules, Zenon
          DEF ErrorPropagationExpression, Leading, Combining
    <2>2. "?" \notin Operators
      BY DEF Operators
    <2> QED BY <2>1, <2>2, InertSuffix
  <1>20. AllSuffixes(TypeCastExpression)
    <2>1. Second(TypeCastExpression, LevelItem(27), MatchItem("as"))
      BY Leads, ExpressionCalls, CalledRules, Zenon DEF TypeCastExpression, Leading, Combining
    <2>2. "as" \notin Operators
      BY DEF Operators
    <2> QED BY <2>1, <2>2, InertSuffix
  <1>21. AllSuffixes(RangeFrom)
    <2>1. Second(RangeFrom, LevelItem(17), MatchItem(".."))
      BY Leads, ExpressionCalls, CalledRules, Zenon DEF RangeFrom, Leading, Combining
    <2>2. ".." \notin Operators
      BY DEF Operators
    <2> QED BY <2>1, <2>2, InertSuffix
  <1> DEFINE init ==
               Multiplicative | Additive | Shift | BitAnd | BitXor | BitOr |
                   ComparisonExpression | LazyAnd | LazyOr | RangeInclusive |
                   AssignmentExpression | CompoundAssignmentExpression | MethodCallExpression |
                   FieldExpression | TupleIndexingExpression | AwaitExpression |
                   CallExpression | IndexExpression | ErrorPropagationExpression |
                   TypeCastExpression
  <1>22. AllSuffixes(init)
    BY AllSuffixesEither, Zenon, <1>1, <1>2, <1>12, <1>3, <1>4, <1>5, <1>6, <1>7, <1>8, <1>9,
        <1>10, <1>11, <1>13, <1>14, <1>15, <1>16, <1>17, <1>18, <1>19, <1>20
  <1>23. Suffix = (init | RangeFrom)
    BY Zenon DEF Suffix
  <1> HIDE DEF init
  <1>24. Suffix[1].alts = Alternatives(init) \cup Alternatives(RangeFrom)
    BY <1>23, AlternativesJoined, Zenon
  <1> QED BY <1>21, <1>22, <1>24, Zenon DEF AllSuffixes

-----------------------------------------------------------------------------
(* Every rule of the grammar *)

\* The production of every rule but expression calls rules of the grammar only, at levels it
\* has.
LEMMA PlainProductions == \A r \in Rules \ {"expression"} : Plain(Production[r])
  <1>1. \A r \in {
            "crate", "macroInvocation", "delimTokenTree", "tokenTree",
            "tokenTreeToken", "macroInvocationSemi", "macroRulesDefinition"} :
          Plain(Production[r])
    <2>0. Plain(R("delimTokenTree")) /\ Plain(R("identifier")) /\
          Plain(R("innerAttribute")) /\ Plain(R("item")) /\
          Plain(R("macroIdentifierLikeToken")) /\
          Plain(R("macroLiteralToken")) /\
          Plain(R("macroPunctuationToken")) /\ Plain(R("macroRepOp")) /\
          Plain(R("macroRulesDef")) /\ Plain(R("simplePath")) /\
          Plain(R("tokenTree")) /\ Plain(R("tokenTreeToken"))
      <3>1. "delimTokenTree" \in Rules /\ "identifier" \in Rules /\
            "innerAttribute" \in Rules /\ "item" \in Rules /\
            "macroIdentifierLikeToken" \in Rules /\ "macroLiteralToken" \in Rules /\
            "macroPunctuationToken" \in Rules /\ "macroRepOp" \in Rules /\
            "macroRulesDef" \in Rules /\ "simplePath" \in Rules /\
            "tokenTree" \in Rules /\ "tokenTreeToken" \in Rules
        BY RuleNames
      <3> QED BY <3>1, Combinators, Zenon DEF Combining
    <2>1. Plain(crate)
      BY <2>0, ExpressionCalls, Combinators, Zenon DEF Combining, crate
    <2>2. Plain(macroInvocation)
      BY <2>0, ExpressionCalls, Combinators, Zenon DEF Combining, macroInvocation
    <2>3. Plain(delimTokenTree)
      BY <2>0, ExpressionCalls, Combinators, Zenon DEF Combining, delimTokenTree
    <2>4. Plain(tokenTree)
      BY <2>0, ExpressionCalls, Combinators, Zenon DEF Combining, tokenTree
    <2>5. Plain(tokenTreeToken)
      BY <2>0, ExpressionCalls, Combinators, Zenon DEF Combining, tokenTreeToken
    <2>6. Plain(macroInvocationSemi)
      BY <2>0, ExpressionCalls, Combinators, Zenon DEF Combining, macroInvocationSemi
    <2>7. Plain(macroRulesDefinition)
      BY <2>0, ExpressionCalls, Combinators, Zenon DEF Combining, macroRulesDefinition
    <2> QED BY <2>1, <2>2, <2>3, <2>4, <2>5, <2>6, <2>7 DEF Production
  <1>2. \A r \in {
            "macroRulesDef", "macroRules", "macroRule", "macroMatcher", "macroMatch",
            "macroMatchToken", "macroFragSpec"} :
          Plain(Production[r])
    <2>0. Plain(R("identifier")) /\ Plain(R("macroFragSpec")) /\
          Plain(R("macroIdentifierLikeToken")) /\
          Plain(R("macroLiteralToken")) /\ Plain(R("macroMatch")) /\
          Plain(R("macroMatchToken")) /\ Plain(R("macroMatcher")) /\
          Plain(R("macroPunctuationToken")) /\ Plain(R("macroRepOp")) /\
          Plain(R("macroRepSep")) /\ Plain(R("macroRule")) /\
          Plain(R("macroRules")) /\ Plain(R("macroTranscriber"))
      <3>1. "identifier" \in Rules /\ "macroFragSpec" \in Rules /\
            "macroIdentifierLikeToken" \in Rules /\ "macroLiteralToken" \in Rules /\
            "macroMatch" \in Rules /\ "macroMatchToken" \in Rules /\
            "macroMatcher" \in Rules /\ "macroPunctuationToken" \in Rules /\
            "macroRepOp" \in Rules /\ "macroRepSep" \in Rules /\
            "macroRule" \in Rules /\ "macroRules" \in Rules /\
            "macroTranscriber" \in Rules
        BY RuleNames
      <3> QED BY <3>1, Combinators, Zenon DEF Combining
    <2>1. Plain(macroRulesDef)
      BY <2>0, ExpressionCalls, Combinators, Zenon DEF Combining, macroRulesDef
    <2>2. Plain(macroRules)
      BY <2>0, ExpressionCalls, Combinators, Zenon DEF Combining, macroRules
    <2>3. Plain(macroRule)
      BY <2>0, ExpressionCalls, Combinators, Zenon DEF Combining, macroRule
    <2>4. Plain(macroMatcher)
      BY <2>0, ExpressionCalls, Combinators, Zenon DEF Combining, macroMatcher
    <2>5. Plain(macroMatch)
      BY <2>0, ExpressionCalls, Combinators, Zenon DEF Combining, macroMatch
    <2>6. Plain(macroMatchToken)
      BY <2>0, ExpressionCalls, Combinators, Zenon DEF Combining, macroMatchToken
    <2>7. Plain(macroFragSpec)
      BY <2>0, ExpressionCalls, Combinators, Zenon DEF Combining, macroFragSpec
    <2> QED BY <2>1, <2>2, <2>3, <2>4, <2>5, <2>6, <2>7 DEF Production
  <1>3. \A r \in {
            "macroRepSep", "macroRepOp", "macroTranscriber", "item", "visItem",
            "macroItem", "module"} :
          Plain(Production[r])
    <2>0. Plain(R("constantItem")) /\ Plain(R("delimTokenTree")) /\
          Plain(R("enumeration")) /\ Plain(R("externBlock")) /\
          Plain(R("externCrate")) /\ Plain(R("function_")) /\
          Plain(R("identifier")) /\ Plain(R("implementation")) /\
          Plain(R("innerAttribute")) /\ Plain(R("item")) /\
          Plain(R("macroIdentifierLikeToken")) /\
          Plain(R("macroInvocationSemi")) /\ Plain(R("macroItem")) /\
          Plain(R("macroLiteralToken")) /\
          Plain(R("macroPunctuationToken")) /\
          Plain(R("macroRulesDefinition")) /\ Plain(R("module")) /\
          Plain(R("outerAttribute")) /\ Plain(R("staticItem")) /\
          Plain(R("struct_")) /\ Plain(R("trait_")) /\
          Plain(R("typeAlias")) /\ Plain(R("union_")) /\
          Plain(R("useDeclaration")) /\ Plain(R("visItem")) /\
          Plain(R("visibility"))
      <3>1. "constantItem" \in Rules /\ "delimTokenTree" \in Rules /\
            "enumeration" \in Rules /\ "externBlock" \in Rules /\
            "externCrate" \in Rules /\ "function_" \in Rules /\
            "identifier" \in Rules /\ "implementation" \in Rules /\
            "innerAttribute" \in Rules /\ "item" \in Rules /\
            "macroIdentifierLikeToken" \in Rules /\ "macroInvocationSemi" \in Rules /\
            "macroItem" \in Rules /\ "macroLiteralToken" \in Rules /\
            "macroPunctuationToken" \in Rules /\ "macroRulesDefinition" \in Rules /\
            "module" \in Rules /\ "outerAttribute" \in Rules /\
            "staticItem" \in Rules /\ "struct_" \in Rules /\ "trait_" \in Rules /\
            "typeAlias" \in Rules /\ "union_" \in Rules /\
            "useDeclaration" \in Rules /\ "visItem" \in Rules /\ "visibility" \in Rules
        BY RuleNames
      <3> QED BY <3>1, Combinators, Zenon DEF Combining
    <2>1. Plain(macroRepSep)
      BY <2>0, ExpressionCalls, Combinators, Zenon DEF Combining, macroRepSep
    <2>2. Plain(macroRepOp)
      BY <2>0, ExpressionCalls, Combinators, Zenon DEF Combining, macroRepOp
    <2>3. Plain(macroTranscriber)
      BY <2>0, ExpressionCalls, Combinators, Zenon DEF Combining, macroTranscriber
    <2>4. Plain(item)
      BY <2>0, ExpressionCalls, Combinators, Zenon DEF Combining, item
    <2>5. Plain(visItem)
      BY <2>0, ExpressionCalls, Combinators, Zenon DEF Combining, visItem
    <2>6. Plain(macroItem)
      BY <2>0, ExpressionCalls, Combinators, Zenon DEF Combining, macroItem
    <2>7. Plain(module)
      BY <2>0, ExpressionCalls, Combinators, Zenon DEF Combining, module
    <2> QED BY <2>1, <2>2, <2>3, <2>4, <2>5, <2>6, <2>7 DEF Production
  <1>4. \A r \in {
            "externCrate", "crateRef", "asClause", "useDeclaration", "useTree",
            "function_", "functionQualifiers"} :
          Plain(Production[r])
    <2>0. Plain(R("abi")) /\ Plain(R("asClause")) /\
          Plain(R("blockExpression")) /\ Plain(R("crateRef")) /\
          Plain(R("functionParameters")) /\ Plain(R("functionQualifiers")) /\
          Plain(R("functionReturnType")) /\ Plain(R("genericParams")) /\
          Plain(R("identifier")) /\ Plain(R("simplePath")) /\
          Plain(R("useTree")) /\ Plain(R("whereClause"))
      <3>1. "abi" \in Rules /\ "asClause" \in Rules /\ "blockExpression" \in Rules /\
            "crateRef" \in Rules /\ "functionParameters" \in Rules /\
            "functionQualifiers" \in Rules /\ "functionReturnType" \in Rules /\
            "genericParams" \in Rules /\ "identifier" \in Rules /\
            "simplePath" \in Rules /\ "useTree" \in Rules /\ "whereClause" \in Rules
        BY RuleNames
      <3> QED BY <3>1, Combinators, Zenon DEF Combining
    <2>1. Plain(externCrate)
      BY <2>0, ExpressionCalls, Combinators, Zenon DEF Combining, externCrate
    <2>2. Plain(crateRef)
      BY <2>0, ExpressionCalls, Combinators, Zenon DEF Combining, crateRef
    <2>3. Plain(asClause)
      BY <2>0, ExpressionCalls, Combinators, Zenon DEF Combining, asClause
    <2>4. Plain(useDeclaration)
      BY <2>0, ExpressionCalls, Combinators, Zenon DEF Combining, useDeclaration
    <2>5. Plain(useTree)
      BY <2>0, ExpressionCalls, Combinators, Zenon DEF Combining, useTree
    <2>6. Plain(function_)
      BY <2>0, ExpressionCalls, Combinators, Zenon DEF Combining, function_
    <2>7. Plain(functionQualifiers)
      BY <2>0, ExpressionCalls, Combinators, Zenon DEF Combining, functionQualifiers
    <2> QED BY <2>1, <2>2, <2>3, <2>4, <2>5, <2>6, <2>7 DEF Production
  <1>5. \A r \in {
            "abi", "functionParameters", "selfParam", "shorthandSelf", "typedSelf",
            "functionParam", "functionParamPattern"} :
          Plain(Production[r])
    <2>0. Plain(R("functionParam")) /\ Plain(R("functionParamPattern")) /\
          Plain(R("lifetime")) /\ Plain(R("outerAttribute")) /\
          Plain(R("pattern")) /\ Plain(R("selfParam")) /\
          Plain(R("shorthandSelf")) /\ Plain(R("type_")) /\
          Plain(R("typedSelf"))
      <3>1. "functionParam" \in Rules /\ "functionParamPattern" \in Rules /\
            "lifetime" \in Rules /\ "outerAttribute" \in Rules /\
            "pattern" \in Rules /\ "selfParam" \in Rules /\
            "shorthandSelf" \in Rules /\ "type_" \in Rules /\ "typedSelf" \in Rules
        BY RuleNames
      <3> QED BY <3>1, Combinators, Zenon DEF Combining
    <2>1. Plain(abi)
      BY <2>0, ExpressionCalls, Combinators, Zenon DEF Combining, abi
    <2>2. Plain(functionParameters)
      BY <2>0, ExpressionCalls, Combinators, Zenon DEF Combining, functionParameters
    <2>3. Plain(selfParam)
      BY <2>0, ExpressionCalls, Combinators, Zenon DEF Combining, selfParam
    <2>4. Plain(shorthandSelf)
      BY <2>0, ExpressionCalls, Combinators, Zenon DEF Combining, shorthandSelf
    <2>5. Plain(typedSelf)
      BY <2>0, ExpressionCalls, Combinators, Zenon DEF Combining, typedSelf
    <2>6. Plain(functionParam)
      BY <2>0, ExpressionCalls, Combinators, Zenon DEF Combining, functionParam
    <2>7. Plain(functionParamPattern)
      BY <2>0, ExpressionCalls, Combinators, Zenon DEF Combining, functionParamPattern
    <2> QED BY <2>1, <2>2, <2>3, <2>4, <2>5, <2>6, <2>7 DEF Production
  <1>6. \A r \in {
            "functionReturnType", "typeAlias", "struct_", "structStruct",
            "tupleStruct", "structFields", "structField"} :
          Plain(Production[r])
    <2>0. Plain(R("genericParams")) /\ Plain(R("identifier")) /\
          Plain(R("outerAttribute")) /\ Plain(R("structField")) /\
          Plain(R("structFields")) /\ Plain(R("structStruct")) /\
          Plain(R("tupleFields")) /\ Plain(R("tupleStruct")) /\
          Plain(R("type_")) /\ Plain(R("visibility")) /\
          Plain(R("whereClause"))
      <3>1. "genericParams" \in Rules /\ "identifier" \in Rules /\
            "outerAttribute" \in Rules /\ "structField" \in Rules /\
            "structFields" \in Rules /\ "structStruct" \in Rules /\
            "tupleFields" \in Rules /\ "tupleStruct" \in Rules /\ "type_" \in Rules /\
            "visibility" \in Rules /\ "whereClause" \in Rules
        BY RuleNames
      <3> QED BY <3>1, Combinators, Zenon DEF Combining
    <2>1. Plain(functionReturnType)
      BY <2>0, ExpressionCalls, Combinators, Zenon DEF Combining, functionReturnType
    <2>2. Plain(typeAlias)
      BY <2>0, ExpressionCalls, Combinators, Zenon DEF Combining, typeAlias
    <2>3. Plain(struct_)
      BY <2>0, ExpressionCalls, Combinators, Zenon DEF Combining, struct_
    <2>4. Plain(structStruct)
      BY <2>0, ExpressionCalls, Combinators, Zenon DEF Combining, structStruct
    <2>5. Plain(tupleStruct)
      BY <2>0, ExpressionCalls, Combinators, Zenon DEF Combining, tupleStruct
    <2>6. Plain(structFields)
      BY <2>0, ExpressionCalls, Combinators, Zenon DEF Combining, structFields
    <2>7. Plain(structField)
      BY <2>0, ExpressionCalls, Combinators, Zenon DEF Combining, structField
    <2> QED BY <2>1, <2>2, <2>3, <2>4, <2>5, <2>6, <2>7 DEF Production
  <1>7. \A r \in {
            "tupleFields", "tupleField", "enumeration", "enumItems", "enumItem",
            "enumItemTuple", "enumItemStruct"} :
          Plain(Production[r])
    <2>0. Plain(R("enumItem")) /\ Plain(R("enumItemDiscriminant")) /\
          Plain(R("enumItemStruct")) /\ Plain(R("enumItemTuple")) /\
          Plain(R("enumItems")) /\ Plain(R("genericParams")) /\
          Plain(R("identifier")) /\ Plain(R("outerAttribute")) /\
          Plain(R("structFields")) /\ Plain(R("tupleField")) /\
          Plain(R("tupleFields")) /\ Plain(R("type_")) /\
          Plain(R("visibility")) /\ Plain(R("whereClause"))
      <3>1. "enumItem" \in Rules /\ "enumItemDiscriminant" \in Rules /\
            "enumItemStruct" \in Rules /\ "enumItemTuple" \in Rules /\
            "enumItems" \in Rules /\ "genericParams" \in Rules /\
            "identifier" \in Rules /\ "outerAttribute" \in Rules /\
            "structFields" \in Rules /\ "tupleField" \in Rules /\
            "tupleFields" \in Rules /\ "type_" \in Rules /\ "visibility" \in Rules /\
            "whereClause" \in Rules
        BY RuleNames
      <3> QED BY <3>1, Combinators, Zenon DEF Combining
    <2>1. Plain(tupleFields)
      BY <2>0, ExpressionCalls, Combinators, Zenon DEF Combining, tupleFields
    <2>2. Plain(tupleField)
      BY <2>0, ExpressionCalls, Combinators, Zenon DEF Combining, tupleField
    <2>3. Plain(enumeration)
      BY <2>0, ExpressionCalls, Combinators, Zenon DEF Combining, enumeration
    <2>4. Plain(enumItems)
      BY <2>0, ExpressionCalls, Combinators, Zenon DEF Combining, enumItems
    <2>5. Plain(enumItem)
      BY <2>0, ExpressionCalls, Combinators, Zenon DEF Combining, enumItem
    <2>6. Plain(enumItemTuple)
      BY <2>0, ExpressionCalls, Combinators, Zenon DEF Combining, enumItemTuple
    <2>7. Plain(enumItemStruct)
      BY <2>0, ExpressionCalls, Combinators, Zenon DEF Combining, enumItemStruct
    <2> QED BY <2>1, <2>2, <2>3, <2>4, <2>5, <2>6, <2>7 DEF Production
  <1>8. \A r \in {
            "enumItemDiscriminant", "union_", "constantItem", "staticItem", "trait_",
            "implementation", "inherentImpl"} :
          Plain(Production[r])
    <2>0. Plain(R("associatedItem")) /\ Plain(R("genericParams")) /\
          Plain(R("identifier")) /\ Plain(R("inherentImpl")) /\
          Plain(R("innerAttribute")) /\ Plain(R("structFields")) /\
          Plain(R("traitImpl")) /\ Plain(R("typeParamBounds")) /\
          Plain(R("type_")) /\ Plain(R("whereClause"))
      <3>1. "associatedItem" \in Rules /\ "genericParams" \in Rules /\
            "identifier" \in Rules /\ "inherentImpl" \in Rules /\
            "innerAttribute" \in Rules /\ "structFields" \in Rules /\
            "traitImpl" \in Rules /\ "typeParamBounds" \in Rules /\
            "type_" \in Rules /\ "whereClause" \in Rules
        BY RuleNames
      <3> QED BY <3>1, Combinators, Zenon DEF Combining
    <2>1. Plain(enumItemDiscriminant)
      BY <2>0, ExpressionCalls, Combinators, Zenon DEF Combining, enumItemDiscriminant
    <2>2. Plain(union_)
      BY <2>0, ExpressionCalls, Combinators, Zenon DEF Combining, union_
    <2>3. Plain(constantItem)
      BY <2>0, ExpressionCalls, Combinators, Zenon DEF Combining, constantItem
    <2>4. Plain(staticItem)
      BY <2>0, ExpressionCalls, Combinators, Zenon DEF Combining, staticItem
    <2>5. Plain(trait_)
      BY <2>0, ExpressionCalls, Combinators, Zenon DEF Combining, trait_
    <2>6. Plain(implementation)
      BY <2>0, ExpressionCalls, Combinators, Zenon DEF Combining, implementation
    <2>7. Plain(inherentImpl)
      BY <2>0, ExpressionCalls, Combinators, Zenon DEF Combining, inherentImpl
    <2> QED BY <2>1, <2>2, <2>3, <2>4, <2>5, <2>6, <2>7 DEF Production
  <1>9. \A r \in {
            "traitImpl", "externBlock", "externalItem", "genericParams",
            "genericParam", "lifetimeParam", "typeParam"} :
          Plain(Production[r])
    <2>0. Plain(R("abi")) /\ Plain(R("associatedItem")) /\
          Plain(R("constParam")) /\ Plain(R("externalItem")) /\
          Plain(R("function_")) /\ Plain(R("genericParam")) /\
          Plain(R("genericParams")) /\ Plain(R("identifier")) /\
          Plain(R("innerAttribute")) /\ Plain(R("lifetimeBounds")) /\
          Plain(R("lifetimeParam")) /\ Plain(R("macroInvocationSemi")) /\
          Plain(R("outerAttribute")) /\ Plain(R("staticItem")) /\
          Plain(R("typeParam")) /\ Plain(R("typeParamBounds")) /\
          Plain(R("typePath")) /\ Plain(R("type_")) /\
          Plain(R("visibility")) /\ Plain(R("whereClause"))
      <3>1. "abi" \in Rules /\ "associatedItem" \in Rules /\ "constParam" \in Rules /\
            "externalItem" \in Rules /\ "function_" \in Rules /\
            "genericParam" \in Rules /\ "genericParams" \in Rules /\
            "identifier" \in Rules /\ "innerAttribute" \in Rules /\
            "lifetimeBounds" \in Rules /\ "lifetimeParam" \in Rules /\
            "macroInvocationSemi" \in Rules /\ "outerAttribute" \in Rules /\
            "staticItem" \in Rules /\ "typeParam" \in Rules /\
            "typeParamBounds" \in Rules /\ "typePath" \in Rules /\ "type_" \in Rules /\
            "visibility" \in Rules /\ "whereClause" \in Rules
        BY RuleNames
      <3> QED BY <3>1, Combinators, Zenon DEF Combining
    <2>1. Plain(traitImpl)
      BY <2>0, ExpressionCalls, Combinators, Zenon DEF Combining, traitImpl
    <2>2. Plain(externBlock)
      BY <2>0, ExpressionCalls, Combinators, Zenon DEF Combining, externBlock
    <2>3. Plain(externalItem)
      BY <2>0, ExpressionCalls, Combinators, Zenon DEF Combining, externalItem
    <2>4. Plain(genericParams)
      BY <2>0, ExpressionCalls, Combinators, Zenon DEF Combining, genericParams
    <2>5. Plain(genericParam)
      BY <2>0, ExpressionCalls, Combinators, Zenon DEF Combining, genericParam
    <2>6. Plain(lifetimeParam)
      BY <2>0, ExpressionCalls, Combinators, Zenon DEF Combining, lifetimeParam
    <2>7. Plain(typeParam)
      BY <2>0, ExpressionCalls, Combinators, Zenon DEF Combining, typeParam
    <2> QED BY <2>1, <2>2, <2>3, <2>4, <2>5, <2>6, <2>7 DEF Production
  <1>10. \A r \in {
            "constParam", "whereClause", "whereClauseItem", "lifetimeWhereClauseItem",
            "typeBoundWhereClauseItem", "forLifetimes", "associatedItem"} :
          Plain(Production[r])
    <2>0. Plain(R("constantItem")) /\ Plain(R("forLifetimes")) /\
          Plain(R("function_")) /\ Plain(R("genericParams")) /\
          Plain(R("identifier")) /\ Plain(R("lifetime")) /\
          Plain(R("lifetimeBounds")) /\
          Plain(R("lifetimeWhereClauseItem")) /\
          Plain(R("macroInvocationSemi")) /\ Plain(R("outerAttribute")) /\
          Plain(R("typeAlias")) /\ Plain(R("typeBoundWhereClauseItem")) /\
          Plain(R("typeParamBounds")) /\ Plain(R("type_")) /\
          Plain(R("visibility")) /\ Plain(R("whereClauseItem"))
      <3>1. "constantItem" \in Rules /\ "forLifetimes" \in Rules /\
            "function_" \in Rules /\ "genericParams" \in Rules /\
            "identifier" \in Rules /\ "lifetime" \in Rules /\
            "lifetimeBounds" \in Rules /\ "lifetimeWhereClauseItem" \in Rules /\
            "macroInvocationSemi" \in Rules /\ "outerAttribute" \in Rules /\
            "typeAlias" \in Rules /\ "typeBoundWhereClauseItem" \in Rules /\
            "typeParamBounds" \in Rules /\ "type_" \in Rules /\
            "visibility" \in Rules /\ "whereClauseItem" \in Rules
        BY RuleNames
      <3> QED BY <3>1, Combinators, Zenon DEF Combining
    <2>1. Plain(constParam)
      BY <2>0, ExpressionCalls, Combinators, Zenon DEF Combining, constParam
    <2>2. Plain(whereClause)
      BY <2>0, ExpressionCalls, Combinators, Zenon DEF Combining, whereClause
    <2>3. Plain(whereClauseItem)
      BY <2>0, ExpressionCalls, Combinators, Zenon DEF Combining, whereClauseItem
    <2>4. Plain(lifetimeWhereClauseItem)
      BY <2>0, ExpressionCalls, Combinators, Zenon DEF Combining, lifetimeWhereClauseItem
    <2>5. Plain(typeBoundWhereClauseItem)
      BY <2>0, ExpressionCalls, Combinators, Zenon DEF Combining, typeBoundWhereClauseItem
    <2>6. Plain(forLifetimes)
      BY <2>0, ExpressionCalls, Combinators, Zenon DEF Combining, forLifetimes
    <2>7. Plain(associatedItem)
      BY <2>0, ExpressionCalls, Combinators, Zenon DEF Combining, associatedItem
    <2> QED BY <2>1, <2>2, <2>3, <2>4, <2>5, <2>6, <2>7 DEF Production
  <1>11. \A r \in {
            "innerAttribute", "outerAttribute", "attr", "attrInput", "statement",
            "letStatement", "expressionStatement"} :
          Plain(Production[r])
    <2>0. Plain(R("attr")) /\ Plain(R("attrInput")) /\
          Plain(R("delimTokenTree")) /\ Plain(R("expressionStatement")) /\
          Plain(R("expressionWithBlock")) /\ Plain(R("item")) /\
          Plain(R("letStatement")) /\ Plain(R("literalExpression")) /\
          Plain(R("macroInvocationSemi")) /\ Plain(R("outerAttribute")) /\
          Plain(R("patternNoTopAlt")) /\ Plain(R("simplePath")) /\
          Plain(R("type_"))
      <3>1. "attr" \in Rules /\ "attrInput" \in Rules /\ "delimTokenTree" \in Rules /\
            "expressionStatement" \in Rules /\ "expressionWithBlock" \in Rules /\
            "item" \in Rules /\ "letStatement" \in Rules /\
            "literalExpression" \in Rules /\ "macroInvocationSemi" \in Rules /\
            "outerAttribute" \in Rules /\ "patternNoTopAlt" \in Rules /\
            "simplePath" \in Rules /\ "type_" \in Rules
        BY RuleNames
      <3> QED BY <3>1, Combinators, Zenon DEF Combining
    <2>1. Plain(innerAttribute)
      BY <2>0, ExpressionCalls, Combinators, Zenon DEF Combining, innerAttribute
    <2>2. Plain(outerAttribute)
      BY <2>0, ExpressionCalls, Combinators, Zenon DEF Combining, outerAttribute
    <2>3. Plain(attr)
      BY <2>0, ExpressionCalls, Combinators, Zenon DEF Combining, attr
    <2>4. Plain(attrInput)
      BY <2>0, ExpressionCalls, Combinators, Zenon DEF Combining, attrInput
    <2>5. Plain(statement)
      BY <2>0, ExpressionCalls, Combinators, Zenon DEF Combining, statement
    <2>6. Plain(letStatement)
      BY <2>0, ExpressionCalls, Combinators, Zenon DEF Combining, letStatement
    <2>7. Plain(expressionStatement)
      BY <2>0, ExpressionCalls, Combinators, Zenon DEF Combining, expressionStatement
    <2> QED BY <2>1, <2>2, <2>3, <2>4, <2>5, <2>6, <2>7 DEF Production
  <1>12. \A r \in {
            "comparisonOperator", "compoundAssignOperator", "expressionWithBlock",
            "literalExpression", "pathExpression", "blockExpression", "statements"} :
          Plain(Production[r])
    <2>0. Plain(R("asyncBlockExpression")) /\ Plain(R("blockExpression")) /\
          Plain(R("expressionWithBlock")) /\ Plain(R("ifExpression")) /\
          Plain(R("ifLetExpression")) /\ Plain(R("innerAttribute")) /\
          Plain(R("loopExpression")) /\ Plain(R("matchExpression")) /\
          Plain(R("outerAttribute")) /\ Plain(R("pathInExpression")) /\
          Plain(R("qualifiedPathInExpression")) /\ Plain(R("statement")) /\
          Plain(R("statements")) /\ Plain(R("unsafeBlockExpression"))
      <3>1. "asyncBlockExpression" \in Rules /\ "blockExpression" \in Rules /\
            "expressionWithBlock" \in Rules /\ "ifExpression" \in Rules /\
            "ifLetExpression" \in Rules /\ "innerAttribute" \in Rules /\
            "loopExpression" \in Rules /\ "matchExpression" \in Rules /\
            "outerAttribute" \in Rules /\ "pathInExpression" \in Rules /\
            "qualifiedPathInExpression" \in Rules /\ "statement" \in Rules /\
            "statements" \in Rules /\ "unsafeBlockExpression" \in Rules
        BY RuleNames
      <3> QED BY <3>1, Combinators, Zenon DEF Combining
    <2>1. Plain(comparisonOperator)
      BY <2>0, ExpressionCalls, Combinators, Zenon DEF Combining, comparisonOperator
    <2>2. Plain(compoundAssignOperator)
      BY <2>0, ExpressionCalls, Combinators, Zenon DEF Combining, compoundAssignOperator
    <2>3. Plain(expressionWithBlock)
      BY <2>0, ExpressionCalls, Combinators, Zenon DEF Combining, expressionWithBlock
    <2>4. Plain(literalExpression)
      BY <2>0, ExpressionCalls, Combinators, Zenon DEF Combining, literalExpression
    <2>5. Plain(pathExpression)
      BY <2>0, ExpressionCalls, Combinators, Zenon DEF Combining, pathExpression
    <2>6. Plain(blockExpression)
      BY <2>0, ExpressionCalls, Combinators, Zenon DEF Combining, blockExpression
    <2>7. Plain(statements)
      BY <2>0, ExpressionCalls, Combinators, Zenon DEF Combining, statements
    <2> QED BY <2>1, <2>2, <2>3, <2>4, <2>5, <2>6, <2>7 DEF Production
  <1>13. \A r \in {
            "asyncBlockExpression", "unsafeBlockExpression", "arrayElements",
            "tupleElements", "tupleIndex", "structExpression", "structExprStruct"} :
          Plain(Production[r])
    <2>0. Plain(R("blockExpression")) /\ Plain(R("innerAttribute")) /\
          Plain(R("pathInExpression")) /\ Plain(R("structBase")) /\
          Plain(R("structExprFields")) /\ Plain(R("structExprStruct")) /\
          Plain(R("structExprTuple")) /\ Plain(R("structExprUnit"))
      <3>1. "blockExpression" \in Rules /\ "innerAttribute" \in Rules /\
            "pathInExpression" \in Rules /\ "structBase" \in Rules /\
            "structExprFields" \in Rules /\ "structExprStruct" \in Rules /\
            "structExprTuple" \in Rules /\ "structExprUnit" \in Rules
        BY RuleNames
      <3> QED BY <3>1, Combinators, Zenon DEF Combining
    <2>1. Plain(asyncBlockExpression)
      BY <2>0, ExpressionCalls, Combinators, Zenon DEF Combining, asyncBlockExpression
    <2>2. Plain(unsafeBlockExpression)
      BY <2>0, ExpressionCalls, Combinators, Zenon DEF Combining, unsafeBlockExpression
    <2>3. Plain(arrayElements)
      BY <2>0, ExpressionCalls, Combinators, Zenon DEF Combining, arrayElements
    <2>4. Plain(tupleElements)
      BY <2>0, ExpressionCalls, Combinators, Zenon DEF Combining, tupleElements
    <2>5. Plain(tupleIndex)
      BY <2>0, ExpressionCalls, Combinators, Zenon DEF Combining, tupleIndex
    <2>6. Plain(structExpression)
      BY <2>0, ExpressionCalls, Combinators, Zenon DEF Combining, structExpression
    <2>7. Plain(structExprStruct)
      BY <2>0, ExpressionCalls, Combinators, Zenon DEF Combining, structExprStruct
    <2> QED BY <2>1, <2>2, <2>3, <2>4, <2>5, <2>6, <2>7 DEF Production
  <1>14. \A r \in {
            "structExprFields", "structExprField", "structBase", "structExprTuple",
            "structExprUnit", "enumerationVariantExpression", "enumExprStruct"} :
          Plain(Production[r])
    <2>0. Plain(R("enumExprFieldless")) /\ Plain(R("enumExprFields")) /\
          Plain(R("enumExprStruct")) /\ Plain(R("enumExprTuple")) /\
          Plain(R("identifier")) /\ Plain(R("innerAttribute")) /\
          Plain(R("outerAttribute")) /\ Plain(R("pathInExpression")) /\
          Plain(R("structBase")) /\ Plain(R("structExprField")) /\
          Plain(R("tupleIndex"))
      <3>1. "enumExprFieldless" \in Rules /\ "enumExprFields" \in Rules /\
            "enumExprStruct" \in Rules /\ "enumExprTuple" \in Rules /\
            "identifier" \in Rules /\ "innerAttribute" \in Rules /\
            "outerAttribute" \in Rules /\ "pathInExpression" \in Rules /\
            "structBase" \in Rules /\ "structExprField" \in Rules /\
            "tupleIndex" \in Rules
        BY RuleNames
      <3> QED BY <3>1, Combinators, Zenon DEF Combining
    <2>1. Plain(structExprFields)
      BY <2>0, ExpressionCalls, Combinators, Zenon DEF Combining, structExprFields
    <2>2. Plain(structExprField)
      BY <2>0, ExpressionCalls, Combinators, Zenon DEF Combining, structExprField
    <2>3. Plain(structBase)
      BY <2>0, ExpressionCalls, Combinators, Zenon DEF Combining, structBase
    <2>4. Plain(structExprTuple)
      BY <2>0, ExpressionCalls, Combinators, Zenon DEF Combining, structExprTuple
    <2>5. Plain(structExprUnit)
      BY <2>0, ExpressionCalls, Combinators, Zenon DEF Combining, structExprUnit
    <2>6. Plain(enumerationVariantExpression)
      BY <2>0, ExpressionCalls, Combinators, Zenon DEF Combining, enumerationVariantExpression
    <2>7. Plain(enumExprStruct)
      BY <2>0, ExpressionCalls, Combinators, Zenon DEF Combining, enumExprStruct
    <2> QED BY <2>1, <2>2, <2>3, <2>4, <2>5, <2>6, <2>7 DEF Production
  <1>15. \A r \in {
            "enumExprFields", "enumExprField", "enumExprTuple", "enumExprFieldless",
            "callParams", "closureExpression", "closureParameters"} :
          Plain(Production[r])
    <2>0. Plain(R("blockExpression")) /\ Plain(R("closureParam")) /\
          Plain(R("closureParameters")) /\ Plain(R("enumExprField")) /\
          Plain(R("identifier")) /\ Plain(R("pathInExpression")) /\
          Plain(R("tupleIndex")) /\ Plain(R("typeNoBounds"))
      <3>1. "blockExpression" \in Rules /\ "closureParam" \in Rules /\
            "closureParameters" \in Rules /\ "enumExprField" \in Rules /\
            "identifier" \in Rules /\ "pathInExpression" \in Rules /\
            "tupleIndex" \in Rules /\ "typeNoBounds" \in Rules
        BY RuleNames
      <3> QED BY <3>1, Combinators, Zenon DEF Combining
    <2>1. Plain(enumExprFields)
      BY <2>0, ExpressionCalls, Combinators, Zenon DEF Combining, enumExprFields
    <2>2. Plain(enumExprField)
      BY <2>0, ExpressionCalls, Combinators, Zenon DEF Combining, enumExprField
    <2>3. Plain(enumExprTuple)
      BY <2>0, ExpressionCalls, Combinators, Zenon DEF Combining, enumExprTuple
    <2>4. Plain(enumExprFieldless)
      BY <2>0, ExpressionCalls, Combinators, Zenon DEF Combining, enumExprFieldless
    <2>5. Plain(callParams)
      BY <2>0, ExpressionCalls, Combinators, Zenon DEF Combining, callParams
    <2>6. Plain(closureExpression)
      BY <2>0, ExpressionCalls, Combinators, Zenon DEF Combining, closureExpression
    <2>7. Plain(closureParameters)
      BY <2>0, ExpressionCalls, Combinators, Zenon DEF Combining, closureParameters
    <2> QED BY <2>1, <2>2, <2>3, <2>4, <2>5, <2>6, <2>7 DEF Production
  <1>16. \A r \in {
            "closureParam", "loopExpression", "infiniteLoopExpression",
            "predicateLoopExpression", "predicatePatternLoopExpression",
            "iteratorLoopExpression", "loopLabel"} :
          Plain(Production[r])
    <2>0. Plain(R("blockExpression")) /\
          Plain(R("infiniteLoopExpression")) /\
          Plain(R("iteratorLoopExpression")) /\ Plain(R("loopLabel")) /\
          Plain(R("outerAttribute")) /\ Plain(R("pattern")) /\
          Plain(R("predicateLoopExpression")) /\
          Plain(R("predicatePatternLoopExpression")) /\ Plain(R("type_"))
      <3>1. "blockExpression" \in Rules /\ "infiniteLoopExpression" \in Rules /\
            "iteratorLoopExpression" \in Rules /\ "loopLabel" \in Rules /\
            "outerAttribute" \in Rules /\ "pattern" \in Rules /\
            "predicateLoopExpression" \in Rules /\
            "predicatePatternLoopExpression" \in Rules /\ "type_" \in Rules
        BY RuleNames
      <3> QED BY <3>1, Combinators, Zenon DEF Combining
    <2>1. Plain(closureParam)
      BY <2>0, ExpressionCalls, Combinators, Zenon DEF Combining, closureParam
    <2>2. Plain(loopExpression)
      BY <2>0, ExpressionCalls, Combinators, Zenon DEF Combining, loopExpression
    <2>3. Plain(infiniteLoopExpression)
      BY <2>0, ExpressionCalls, Combinators, Zenon DEF Combining, infiniteLoopExpression
    <2>4. Plain(predicateLoopExpression)
      BY <2>0, ExpressionCalls, Combinators, Zenon DEF Combining, predicateLoopExpression
    <2>5. Plain(predicatePatternLoopExpression)
      BY <2>0, ExpressionCalls, Combinators, Zenon DEF Combining, predicatePatternLoopExpression
    <2>6. Plain(iteratorLoopExpression)
      BY <2>0, ExpressionCalls, Combinators, Zenon DEF Combining, iteratorLoopExpression
    <2>7. Plain(loopLabel)
      BY <2>0, ExpressionCalls, Combinators, Zenon DEF Combining, loopLabel
    <2> QED BY <2>1, <2>2, <2>3, <2>4, <2>5, <2>6, <2>7 DEF Production
  <1>17. \A r \in {
            "ifExpression", "ifLetExpression", "matchExpression", "matchArms",
            "matchArmExpression", "matchArm", "matchArmGuard"} :
          Plain(Production[r])
    <2>0. Plain(R("blockExpression")) /\ Plain(R("expressionWithBlock")) /\
          Plain(R("ifExpression")) /\ Plain(R("ifLetExpression")) /\
          Plain(R("innerAttribute")) /\ Plain(R("matchArm")) /\
          Plain(R("matchArmExpression")) /\ Plain(R("matchArmGuard")) /\
          Plain(R("matchArms")) /\ Plain(R("outerAttribute")) /\
          Plain(R("pattern"))
      <3>1. "blockExpression" \in Rules /\ "expressionWithBlock" \in Rules /\
            "ifExpression" \in Rules /\ "ifLetExpression" \in Rules /\
            "innerAttribute" \in Rules /\ "matchArm" \in Rules /\
            "matchArmExpression" \in Rules /\ "matchArmGuard" \in Rules /\
            "matchArms" \in Rules /\ "outerAttribute" \in Rules /\ "pattern" \in Rules
        BY RuleNames
      <3> QED BY <3>1, Combinators, Zenon DEF Combining
    <2>1. Plain(ifExpression)
      BY <2>0, ExpressionCalls, Combinators, Zenon DEF Combining, ifExpression
    <2>2. Plain(ifLetExpression)
      BY <2>0, ExpressionCalls, Combinators, Zenon DEF Combining, ifLetExpression
    <2>3. Plain(matchExpression)
      BY <2>0, ExpressionCalls, Combinators, Zenon DEF Combining, matchExpression
    <2>4. Plain(matchArms)
      BY <2>0, ExpressionCalls, Combinators, Zenon DEF Combining, matchArms
    <2>5. Plain(matchArmExpression)
      BY <2>0, ExpressionCalls, Combinators, Zenon DEF Combining, matchArmExpression
    <2>6. Plain(matchArm)
      BY <2>0, ExpressionCalls, Combinators, Zenon DEF Combining, matchArm
    <2>7. Plain(matchArmGuard)
      BY <2>0, ExpressionCalls, Combinators, Zenon DEF Combining, matchArmGuard
    <2> QED BY <2>1, <2>2, <2>3, <2>4, <2>5, <2>6, <2>7 DEF Production
  <1>18. \A r \in {
            "pattern", "patternNoTopAlt", "patternWithoutRange", "literalPattern",
            "identifierPattern", "wildcardPattern", "restPattern"} :
          Plain(Production[r])
    <2>0. Plain(R("groupedPattern")) /\ Plain(R("identifier")) /\
          Plain(R("identifierPattern")) /\ Plain(R("literalPattern")) /\
          Plain(R("macroInvocation")) /\ Plain(R("pathPattern")) /\
          Plain(R("pattern")) /\ Plain(R("patternNoTopAlt")) /\
          Plain(R("patternWithoutRange")) /\ Plain(R("rangePattern")) /\
          Plain(R("referencePattern")) /\ Plain(R("restPattern")) /\
          Plain(R("slicePattern")) /\ Plain(R("structPattern")) /\
          Plain(R("tuplePattern")) /\ Plain(R("tupleStructPattern")) /\
          Plain(R("wildcardPattern"))
      <3>1. "groupedPattern" \in Rules /\ "identifier" \in Rules /\
            "identifierPattern" \in Rules /\ "literalPattern" \in Rules /\
            "macroInvocation" \in Rules /\ "pathPattern" \in Rules /\
            "pattern" \in Rules /\ "patternNoTopAlt" \in Rules /\
            "patternWithoutRange" \in Rules /\ "rangePattern" \in Rules /\
            "referencePattern" \in Rules /\ "restPattern" \in Rules /\
            "slicePattern" \in Rules /\ "structPattern" \in Rules /\
            "tuplePattern" \in Rules /\ "tupleStructPattern" \in Rules /\
            "wildcardPattern" \in Rules
        BY RuleNames
      <3> QED BY <3>1, Combinators, Zenon DEF Combining
    <2>1. Plain(pattern)
      BY <2>0, ExpressionCalls, Combinators, Zenon DEF Combining, pattern
    <2>2. Plain(patternNoTopAlt)
      BY <2>0, ExpressionCalls, Combinators, Zenon DEF Combining, patternNoTopAlt
    <2>3. Plain(patternWithoutRange)
      BY <2>0, ExpressionCalls, Combinators, Zenon DEF Combining, patternWithoutRange
    <2>4. Plain(literalPattern)
      BY <2>0, ExpressionCalls, Combinators, Zenon DEF Combining, literalPattern
    <2>5. Plain(identifierPattern)
      BY <2>0, ExpressionCalls, Combinators, Zenon DEF Combining, identifierPattern
    <2>6. Plain(wildcardPattern)
      BY <2>0, ExpressionCalls, Combinators, Zenon DEF Combining, wildcardPattern
    <2>7. Plain(restPattern)
      BY <2>0, ExpressionCalls, Combinators, Zenon DEF Combining, restPattern
    <2> QED BY <2>1, <2>2, <2>3, <2>4, <2>5, <2>6, <2>7 DEF Production
  <1>19. \A r \in {
            "rangePattern", "rangePatternBound", "referencePattern", "structPattern",
            "structPatternElements", "structPatternFields", "structPatternField"} :
          Plain(Production[r])
    <2>0. Plain(R("identifier")) /\ Plain(R("outerAttribute")) /\
          Plain(R("pathInExpression")) /\ Plain(R("pathPattern")) /\
          Plain(R("pattern")) /\ Plain(R("patternWithoutRange")) /\
          Plain(R("rangePatternBound")) /\
          Plain(R("structPatternElements")) /\
          Plain(R("structPatternEtCetera")) /\
          Plain(R("structPatternField")) /\
          Plain(R("structPatternFields")) /\ Plain(R("tupleIndex"))
      <3>1. "identifier" \in Rules /\ "outerAttribute" \in Rules /\
            "pathInExpression" \in Rules /\ "pathPattern" \in Rules /\
            "pattern" \in Rules /\ "patternWithoutRange" \in Rules /\
            "rangePatternBound" \in Rules /\ "structPatternElements" \in Rules /\
            "structPatternEtCetera" \in Rules /\ "structPatternField" \in Rules /\
            "structPatternFields" \in Rules /\ "tupleIndex" \in Rules
        BY RuleNames
      <3> QED BY <3>1, Combinators, Zenon DEF Combining
    <2>1. Plain(rangePattern)
      BY <2>0, ExpressionCalls, Combinators, Zenon DEF Combining, rangePattern
    <2>2. Plain(rangePatternBound)
      BY <2>0, ExpressionCalls, Combinators, Zenon DEF Combining, rangePatternBound
    <2>3. Plain(referencePattern)
      BY <2>0, ExpressionCalls, Combinators, Zenon DEF Combining, referencePattern
    <2>4. Plain(structPattern)
      BY <2>0, ExpressionCalls, Combinators, Zenon DEF Combining, structPattern
    <2>5. Plain(structPatternElements)
      BY <2>0, ExpressionCalls, Combinators, Zenon DEF Combining, structPatternElements
    <2>6. Plain(structPatternFields)
      BY <2>0, ExpressionCalls, Combinators, Zenon DEF Combining, structPatternFields
    <2>7. Plain(structPatternField)
      BY <2>0, ExpressionCalls, Combinators, Zenon DEF Combining, structPatternField
    <2> QED BY <2>1, <2>2, <2>3, <2>4, <2>5, <2>6, <2>7 DEF Production
  <1>20. \A r \in {
            "structPatternEtCetera", "tupleStructPattern", "tupleStructItems",
            "tuplePattern", "tuplePatternItems", "groupedPattern", "slicePattern"} :
          Plain(Production[r])
    <2>0. Plain(R("outerAttribute")) /\ Plain(R("pathInExpression")) /\
          Plain(R("pattern")) /\ Plain(R("restPattern")) /\
          Plain(R("slicePatternItems")) /\ Plain(R("tuplePatternItems")) /\
          Plain(R("tupleStructItems"))
      <3>1. "outerAttribute" \in Rules /\ "pathInExpression" \in Rules /\
            "pattern" \in Rules /\ "restPattern" \in Rules /\
            "slicePatternItems" \in Rules /\ "tuplePatternItems" \in Rules /\
            "tupleStructItems" \in Rules
        BY RuleNames
      <3> QED BY <3>1, Combinators, Zenon DEF Combining
    <2>1. Plain(structPatternEtCetera)
      BY <2>0, ExpressionCalls, Combinators, Zenon DEF Combining, structPatternEtCetera
    <2>2. Plain(tupleStructPattern)
      BY <2>0, ExpressionCalls, Combinators, Zenon DEF Combining, tupleStructPattern
    <2>3. Plain(tupleStructItems)
      BY <2>0, ExpressionCalls, Combinators, Zenon DEF Combining, tupleStructItems
    <2>4. Plain(tuplePattern)
      BY <2>0, ExpressionCalls, Combinators, Zenon DEF Combining, tuplePattern
    <2>5. Plain(tuplePatternItems)
      BY <2>0, ExpressionCalls, Combinators, Zenon DEF Combining, tuplePatternItems
    <2>6. Plain(groupedPattern)
      BY <2>0, ExpressionCalls, Combinators, Zenon DEF Combining, groupedPattern
    <2>7. Plain(slicePattern)
      BY <2>0, ExpressionCalls, Combinators, Zenon DEF Combining, slicePattern
    <2> QED BY <2>1, <2>2, <2>3, <2>4, <2>5, <2>6, <2>7 DEF Production
  <1>21. \A r \in {
            "slicePatternItems", "pathPattern", "type_", "typeNoBounds",
            "parenthesizedType", "neverType", "tupleType"} :
          Plain(Production[r])
    <2>0. Plain(R("arrayType")) /\ Plain(R("bareFunctionType")) /\
          Plain(R("implTraitType")) /\ Plain(R("implTraitTypeOneBound")) /\
          Plain(R("inferredType")) /\ Plain(R("macroInvocation")) /\
          Plain(R("neverType")) /\ Plain(R("parenthesizedType")) /\
          Plain(R("pathInExpression")) /\ Plain(R("pattern")) /\
          Plain(R("qualifiedPathInExpression")) /\
          Plain(R("qualifiedPathInType")) /\ Plain(R("rawPointerType")) /\
          Plain(R("referenceType")) /\ Plain(R("sliceType")) /\
          Plain(R("traitObjectType")) /\
          Plain(R("traitObjectTypeOneBound")) /\ Plain(R("tupleType")) /\
          Plain(R("typeNoBounds")) /\ Plain(R("typePath")) /\
          Plain(R("type_"))
      <3>1. "arrayType" \in Rules /\ "bareFunctionType" \in Rules /\
            "implTraitType" \in Rules /\ "implTraitTypeOneBound" \in Rules /\
            "inferredType" \in Rules /\ "macroInvocation" \in Rules /\
            "neverType" \in Rules /\ "parenthesizedType" \in Rules /\
            "pathInExpression" \in Rules /\ "pattern" \in Rules /\
            "qualifiedPathInExpression" \in Rules /\ "qualifiedPathInType" \in Rules /\
            "rawPointerType" \in Rules /\ "referenceType" \in Rules /\
            "sliceType" \in Rules /\ "traitObjectType" \in Rules /\
            "traitObjectTypeOneBound" \in Rules /\ "tupleType" \in Rules /\
            "typeNoBounds" \in Rules /\ "typePath" \in Rules /\ "type_" \in Rules
        BY RuleNames
      <3> QED BY <3>1, Combinators, Zenon DEF Combining
    <2>1. Plain(slicePatternItems)
      BY <2>0, ExpressionCalls, Combinators, Zenon DEF Combining, slicePatternItems
    <2>2. Plain(pathPattern)
      BY <2>0, ExpressionCalls, Combinators, Zenon DEF Combining, pathPattern
    <2>3. Plain(type_)
      BY <2>0, ExpressionCalls, Combinators, Zenon DEF Combining, type_
    <2>4. Plain(typeNoBounds)
      BY <2>0, ExpressionCalls, Combinators, Zenon DEF Combining, typeNoBounds
    <2>5. Plain(parenthesizedType)
      BY <2>0, ExpressionCalls, Combinators, Zenon DEF Combining, parenthesizedType
    <2>6. Plain(neverType)
      BY <2>0, ExpressionCalls, Combinators, Zenon DEF Combining, neverType
    <2>7. Plain(tupleType)
      BY <2>0, ExpressionCalls, Combinators, Zenon DEF Combining, tupleType
    <2> QED BY <2>1, <2>2, <2>3, <2>4, <2>5, <2>6, <2>7 DEF Production
  <1>22. \A r \in {
            "arrayType", "sliceType", "referenceType", "rawPointerType",
            "bareFunctionType", "functionTypeQualifiers", "bareFunctionReturnType"} :
          Plain(Production[r])
    <2>0. Plain(R("abi")) /\ Plain(R("bareFunctionReturnType")) /\
          Plain(R("forLifetimes")) /\
          Plain(R("functionParametersMaybeNamedVariadic")) /\
          Plain(R("functionTypeQualifiers")) /\ Plain(R("lifetime")) /\
          Plain(R("typeNoBounds")) /\ Plain(R("type_"))
      <3>1. "abi" \in Rules /\ "bareFunctionReturnType" \in Rules /\
            "forLifetimes" \in Rules /\
            "functionParametersMaybeNamedVariadic" \in Rules /\
            "functionTypeQualifiers" \in Rules /\ "lifetime" \in Rules /\
            "typeNoBounds" \in Rules /\ "type_" \in Rules
        BY RuleNames
      <3> QED BY <3>1, Combinators, Zenon DEF Combining
    <2>1. Plain(arrayType)
      BY <2>0, ExpressionCalls, Combinators, Zenon DEF Combining, arrayType
    <2>2. Plain(sliceType)
      BY <2>0, ExpressionCalls, Combinators, Zenon DEF Combining, sliceType
    <2>3. Plain(referenceType)
      BY <2>0, ExpressionCalls, Combinators, Zenon DEF Combining, referenceType
    <2>4. Plain(rawPointerType)
      BY <2>0, ExpressionCalls, Combinators, Zenon DEF Combining, rawPointerType
    <2>5. Plain(bareFunctionType)
      BY <2>0, ExpressionCalls, Combinators, Zenon DEF Combining, bareFunctionType
    <2>6. Plain(functionTypeQualifiers)
      BY <2>0, ExpressionCalls, Combinators, Zenon DEF Combining, functionTypeQualifiers
    <2>7. Plain(bareFunctionReturnType)
      BY <2>0, ExpressionCalls, Combinators, Zenon DEF Combining, bareFunctionReturnType
    <2> QED BY <2>1, <2>2, <2>3, <2>4, <2>5, <2>6, <2>7 DEF Production
  <1>23. \A r \in {
            "functionParametersMaybeNamedVariadic", "maybeNamedFunctionParameters",
            "maybeNamedParam", "maybeNamedFunctionParametersVariadic",
            "traitObjectType", "traitObjectTypeOneBound", "implTraitType"} :
          Plain(Production[r])
    <2>0. Plain(R("identifier")) /\
          Plain(R("maybeNamedFunctionParameters")) /\
          Plain(R("maybeNamedFunctionParametersVariadic")) /\
          Plain(R("maybeNamedParam")) /\ Plain(R("outerAttribute")) /\
          Plain(R("traitBound")) /\ Plain(R("typeParamBounds")) /\
          Plain(R("type_"))
      <3>1. "identifier" \in Rules /\ "maybeNamedFunctionParameters" \in Rules /\
            "maybeNamedFunctionParametersVariadic" \in Rules /\
            "maybeNamedParam" \in Rules /\ "outerAttribute" \in Rules /\
            "traitBound" \in Rules /\ "typeParamBounds" \in Rules /\ "type_" \in Rules
        BY RuleNames
      <3> QED BY <3>1, Combinators, Zenon DEF Combining
    <2>1. Plain(functionParametersMaybeNamedVariadic)
      BY <2>0, ExpressionCalls, Combinators, Zenon
          DEF Combining, functionParametersMaybeNamedVariadic
    <2>2. Plain(maybeNamedFunctionParameters)
      BY <2>0, ExpressionCalls, Combinators, Zenon DEF Combining, maybeNamedFunctionParameters
    <2>3. Plain(maybeNamedParam)
      BY <2>0, ExpressionCalls, Combinators, Zenon DEF Combining, maybeNamedParam
    <2>4. Plain(maybeNamedFunctionParametersVariadic)
      BY <2>0, ExpressionCalls, Combinators, Zenon
          DEF Combining, maybeNamedFunctionParametersVariadic
    <2>5. Plain(traitObjectType)
      BY <2>0, ExpressionCalls, Combinators, Zenon DEF Combining, traitObjectType
    <2>6. Plain(traitObjectTypeOneBound)
      BY <2>0, ExpressionCalls, Combinators, Zenon DEF Combining, traitObjectTypeOneBound
    <2>7. Plain(implTraitType)
      BY <2>0, ExpressionCalls, Combinators, Zenon DEF Combining, implTraitType
    <2> QED BY <2>1, <2>2, <2>3, <2>4, <2>5, <2>6, <2>7 DEF Production
  <1>24. \A r \in {
            "implTraitTypeOneBound", "inferredType", "typeParamBounds",
            "typeParamBound", "traitBound", "lifetimeBounds", "lifetime"} :
          Plain(Production[r])
    <2>0. Plain(R("forLifetimes")) /\ Plain(R("lifetime")) /\
          Plain(R("traitBound")) /\ Plain(R("typeParamBound")) /\
          Plain(R("typePath"))
      <3>1. "forLifetimes" \in Rules /\ "lifetime" \in Rules /\
            "traitBound" \in Rules /\ "typeParamBound" \in Rules /\ "typePath" \in Rules
        BY RuleNames
      <3> QED BY <3>1, Combinators, Zenon DEF Combining
    <2>1. Plain(implTraitTypeOneBound)
      BY <2>0, ExpressionCalls, Combinators, Zenon DEF Combining, implTraitTypeOneBound
    <2>2. Plain(inferredType)
      BY <2>0, ExpressionCalls, Combinators, Zenon DEF Combining, inferredType
    <2>3. Plain(typeParamBounds)
      BY <2>0, ExpressionCalls, Combinators, Zenon DEF Combining, typeParamBounds
    <2>4. Plain(typeParamBound)
      BY <2>0, ExpressionCalls, Combinators, Zenon DEF Combining, typeParamBound
    <2>5. Plain(traitBound)
      BY <2>0, ExpressionCalls, Combinators, Zenon DEF Combining, traitBound
    <2>6. Plain(lifetimeBounds)
      BY <2>0, ExpressionCalls, Combinators, Zenon DEF Combining, lifetimeBounds
    <2>7. Plain(lifetime)
      BY <2>0, ExpressionCalls, Combinators, Zenon DEF Combining, lifetime
    <2> QED BY <2>1, <2>2, <2>3, <2>4, <2>5, <2>6, <2>7 DEF Production
  <1>25. \A r \in {
            "simplePath", "simplePathSegment", "pathInExpression", "pathExprSegment",
            "pathIdentSegment", "genericArgs", "genericArg"} :
          Plain(Production[r])
    <2>0. Plain(R("genericArg")) /\ Plain(R("genericArgs")) /\
          Plain(R("genericArgsBinding")) /\
          Plain(R("genericArgsBindings")) /\ Plain(R("genericArgsConst")) /\
          Plain(R("genericArgsLifetimes")) /\ Plain(R("genericArgsTypes")) /\
          Plain(R("identifier")) /\ Plain(R("lifetime")) /\
          Plain(R("pathExprSegment")) /\ Plain(R("pathIdentSegment")) /\
          Plain(R("simplePathSegment")) /\ Plain(R("type_"))
      <3>1. "genericArg" \in Rules /\ "genericArgs" \in Rules /\
            "genericArgsBinding" \in Rules /\ "genericArgsBindings" \in Rules /\
            "genericArgsConst" \in Rules /\ "genericArgsLifetimes" \in Rules /\
            "genericArgsTypes" \in Rules /\ "identifier" \in Rules /\
            "lifetime" \in Rules /\ "pathExprSegment" \in Rules /\
            "pathIdentSegment" \in Rules /\ "simplePathSegment" \in Rules /\
            "type_" \in Rules
        BY RuleNames
      <3> QED BY <3>1, Combinators, Zenon DEF Combining
    <2>1. Plain(simplePath)
      BY <2>0, ExpressionCalls, Combinators, Zenon DEF Combining, simplePath
    <2>2. Plain(simplePathSegment)
      BY <2>0, ExpressionCalls, Combinators, Zenon DEF Combining, simplePathSegment
    <2>3. Plain(pathInExpression)
      BY <2>0, ExpressionCalls, Combinators, Zenon DEF Combining, pathInExpression
    <2>4. Plain(pathExprSegment)
      BY <2>0, ExpressionCalls, Combinators, Zenon DEF Combining, pathExprSegment
    <2>5. Plain(pathIdentSegment)
      BY <2>0, ExpressionCalls, Combinators, Zenon DEF Combining, pathIdentSegment
    <2>6. Plain(genericArgs)
      BY <2>0, ExpressionCalls, Combinators, Zenon DEF Combining, genericArgs
    <2>7. Plain(genericArg)
      BY <2>0, ExpressionCalls, Combinators, Zenon DEF Combining, genericArg
    <2> QED BY <2>1, <2>2, <2>3, <2>4, <2>5, <2>6, <2>7 DEF Production
  <1>26. \A r \in {
            "genericArgsConst", "genericArgsLifetimes", "genericArgsTypes",
            "genericArgsBindings", "genericArgsBinding", "qualifiedPathInExpression",
            "qualifiedPathType"} :
          Plain(Production[r])
    <2>0. Plain(R("blockExpression")) /\ Plain(R("genericArgsBinding")) /\
          Plain(R("identifier")) /\ Plain(R("lifetime")) /\
          Plain(R("literalExpression")) /\ Plain(R("pathExprSegment")) /\
          Plain(R("qualifiedPathType")) /\ Plain(R("simplePathSegment")) /\
          Plain(R("typePath")) /\ Plain(R("type_"))
      <3>1. "blockExpression" \in Rules /\ "genericArgsBinding" \in Rules /\
            "identifier" \in Rules /\ "lifetime" \in Rules /\
            "literalExpression" \in Rules /\ "pathExprSegment" \in Rules /\
            "qualifiedPathType" \in Rules /\ "simplePathSegment" \in Rules /\
            "typePath" \in Rules /\ "type_" \in Rules
        BY RuleNames
      <3> QED BY <3>1, Combinators, Zenon DEF Combining
    <2>1. Plain(genericArgsConst)
      BY <2>0, ExpressionCalls, Combinators, Zenon DEF Combining, genericArgsConst
    <2>2. Plain(genericArgsLifetimes)
      BY <2>0, ExpressionCalls, Combinators, Zenon DEF Combining, genericArgsLifetimes
    <2>3. Plain(genericArgsTypes)
      BY <2>0, ExpressionCalls, Combinators, Zenon DEF Combining, genericArgsTypes
    <2>4. Plain(genericArgsBindings)
      BY <2>0, ExpressionCalls, Combinators, Zenon DEF Combining, genericArgsBindings
    <2>5. Plain(genericArgsBinding)
      BY <2>0, ExpressionCalls, Combinators, Zenon DEF Combining, genericArgsBinding
    <2>6. Plain(qualifiedPathInExpression)
      BY <2>0, ExpressionCalls, Combinators, Zenon DEF Combining, qualifiedPathInExpression
    <2>7. Plain(qualifiedPathType)
      BY <2>0, ExpressionCalls, Combinators, Zenon DEF Combining, qualifiedPathType
    <2> QED BY <2>1, <2>2, <2>3, <2>4, <2>5, <2>6, <2>7 DEF Production
  <1>27. \A r \in {
            "qualifiedPathInType", "typePath", "typePathSegment", "typePathFn",
            "typePathInputs", "visibility", "identifier"} :
          Plain(Production[r])
    <2>0. Plain(R("genericArgs")) /\ Plain(R("pathIdentSegment")) /\
          Plain(R("qualifiedPathType")) /\ Plain(R("simplePath")) /\
          Plain(R("typePathFn")) /\ Plain(R("typePathInputs")) /\
          Plain(R("typePathSegment")) /\ Plain(R("type_"))
      <3>1. "genericArgs" \in Rules /\ "pathIdentSegment" \in Rules /\
            "qualifiedPathType" \in Rules /\ "simplePath" \in Rules /\
            "typePathFn" \in Rules /\ "typePathInputs" \in Rules /\
            "typePathSegment" \in Rules /\ "type_" \in Rules
        BY RuleNames
      <3> QED BY <3>1, Combinators, Zenon DEF Combining
    <2>1. Plain(qualifiedPathInType)
      BY <2>0, ExpressionCalls, Combinators, Zenon DEF Combining, qualifiedPathInType
    <2>2. Plain(typePath)
      BY <2>0, ExpressionCalls, Combinators, Zenon DEF Combining, typePath
    <2>3. Plain(typePathSegment)
      BY <2>0, ExpressionCalls, Combinators, Zenon DEF Combining, typePathSegment
    <2>4. Plain(typePathFn)
      BY <2>0, ExpressionCalls, Combinators, Zenon DEF Combining, typePathFn
    <2>5. Plain(typePathInputs)
      BY <2>0, ExpressionCalls, Combinators, Zenon DEF Combining, typePathInputs
    <2>6. Plain(visibility)
      BY <2>0, ExpressionCalls, Combinators, Zenon DEF Combining, visibility
    <2>7. Plain(identifier)
      BY <2>0, ExpressionCalls, Combinators, Zenon DEF Combining, identifier
    <2> QED BY <2>1, <2>2, <2>3, <2>4, <2>5, <2>6, <2>7 DEF Production
  <1>28. \A r \in {
            "keyword", "macroIdentifierLikeToken", "macroLiteralToken",
            "macroPunctuationToken", "shl", "shr"} :
          Plain(Production[r])
    <2>0. Plain(R("identifier")) /\ Plain(R("keyword")) /\
          Plain(R("literalExpression"))
      <3>1. "identifier" \in Rules /\ "keyword" \in Rules /\
            "literalExpression" \in Rules
        BY RuleNames
      <3> QED BY <3>1, Combinators, Zenon DEF Combining
    <2>1. Plain(keyword)
      BY <2>0, ExpressionCalls, Combinators, Zenon DEF Combining, keyword
    <2>2. Plain(macroIdentifierLikeToken)
      BY <2>0, ExpressionCalls, Combinators, Zenon DEF Combining, macroIdentifierLikeToken
    <2>3. Plain(macroLiteralToken)
      BY <2>0, ExpressionCalls, Combinators, Zenon DEF Combining, macroLiteralToken
    <2>4. Plain(macroPunctuationToken)
      BY <2>0, ExpressionCalls, Combinators, Zenon DEF Combining, macroPunctuationToken
    <2>5. Plain(shl)
      BY <2>0, ExpressionCalls, Combinators, Zenon DEF Combining, shl
    <2>6. Plain(shr)
      BY <2>0, ExpressionCalls, Combinators, Zenon DEF Combining, shr
    <2> QED BY <2>1, <2>2, <2>3, <2>4, <2>5, <2>6 DEF Production
  <1> QED BY RuleNames, <1>1, <1>2, <1>3, <1>4, <1>5, <1>6, <1>7, <1>8, <1>9, <1>10, <1>11,
      <1>12, <1>13, <1>14, <1>15, <1>16, <1>17, <1>18, <1>19, <1>20, <1>21, <1>22, <1>23,
      <1>24, <1>25, <1>26, <1>27, <1>28

\* The steps of expression.
LeftRecursive == {[op |-> "primary"], [op |-> "suffixes"]}

\* What a rule method may have before it: a production, or what is left of expression.
WellFormed(p) == \E S : Closed(S) /\ p \in Seq(S \cup LeftRecursive)

\* Every production is one.
LEMMA PlainIsWellFormed == \A p : Plain(p) => WellFormed(p)
  <1> SUFFICES ASSUME NEW p, Plain(p) PROVE WellFormed(p)
    OBVIOUS
  <1>1. PICK S : Closed(S) /\ p \in Seq(S)
    BY DEF Plain
  <1>2. p \in Seq(S \cup LeftRecursive)
    BY <1>1
  <1> QED BY <1>1, <1>2 DEF WellFormed

\* What a rule method has before it is a sequence.
LEMMA WellFormedIsSequence == \A p : WellFormed(p) => IsSequence(p)
  BY DEF WellFormed, IsSequence

\* Nothing is one.
LEMMA NothingWellFormed == WellFormed(<< >>)
  BY PlainAtoms, PlainIsWellFormed

\* They follow each other.
LEMMA WellFormedSequence ==
  ASSUME NEW p, NEW q, WellFormed(p), WellFormed(q) PROVE WellFormed(p \o q)
  <1>1. PICK A : Closed(A) /\ p \in Seq(A \cup LeftRecursive) BY DEF WellFormed
  <1>2. PICK B : Closed(B) /\ q \in Seq(B \cup LeftRecursive) BY DEF WellFormed
  <1>3. Closed(A \cup B) BY <1>1, <1>2, BothClosed
  <1> DEFINE C == (A \cup B) \cup LeftRecursive
  <1>4. p \in Seq(C) /\ q \in Seq(C) BY <1>1, <1>2
  <1> HIDE DEF C
  <1>5. p \o q \in Seq(C) BY <1>4
  <1> QED BY <1>3, <1>5 DEF WellFormed, C

\* The production of every rule calls rules of the grammar only, at levels it has: no step
\* of the parser leaves the grammar.
LEMMA Productions == \A r \in Rules : WellFormed(Production[r])
  <1>1. WellFormed(Production["expression"])
    <2> DEFINE a == [op |-> "primary"]
               b == [op |-> "suffixes"]
    <2>1. Production["expression"] = <<a, b>>
      BY DEF Production, expression
    <2>2. a \in LeftRecursive /\ b \in LeftRecursive
      BY DEF LeftRecursive
    <2> HIDE DEF a, b
    <2>3. Closed({})
      BY DEF Closed
    <2>4. <<a, b>> \in Seq({} \cup LeftRecursive)
      BY <2>2
    <2> QED BY <2>1, <2>3, <2>4 DEF WellFormed
  <1>2. \A r \in Rules \ {"expression"} : WellFormed(Production[r])
    BY PlainProductions, PlainIsWellFormed
  <1> QED BY <1>1, <1>2

-----------------------------------------------------------------------------
(* Frames and the stack *)

\* The fields of a frame.
IsFrame(f) ==
  \E rule, level, start, kids, todo, owed :
    f = [rule |-> rule, level |-> level, start |-> start, kids |-> kids, todo |-> todo,
         owed |-> owed]

\* f and g are the same rule method, of which g has other children and another rest.
Moved(f, g, kids, todo) ==
  /\ IsFrame(g)
  /\ g.rule = f.rule /\ g.level = f.level /\ g.start = f.start
  /\ g.kids = kids /\ g.todo = todo

\* A frame with other children and another rest.
LEMMA FrameMoved ==
  ASSUME NEW f, IsFrame(f), NEW kids, NEW todo
  PROVE  /\ Moved(f, [f EXCEPT !.todo = todo], f.kids, todo)
         /\ Moved(f, [f EXCEPT !.kids = kids, !.todo = todo], kids, todo)
  <1>1. PICK rule, level, start, ks, td, owed :
          f = [rule |-> rule, level |-> level, start |-> start, kids |-> ks, todo |-> td,
               owed |-> owed]
    BY DEF IsFrame
  <1>2. ASSUME NEW k, NEW t PROVE IsFrame([rule |-> rule, level |-> level, start |-> start,
                                            kids |-> k, todo |-> t, owed |-> owed])
    BY DEF IsFrame
  <1> DEFINE g == [f EXCEPT !.todo = todo]
             h == [f EXCEPT !.kids = kids]
             gh == [h EXCEPT !.todo = todo]
  <1>3. g = [rule |-> rule, level |-> level, start |-> start, kids |-> ks, todo |-> todo,
             owed |-> owed]
    BY <1>1
  <1>4. h = [rule |-> rule, level |-> level, start |-> start, kids |-> kids, todo |-> td,
             owed |-> owed]
    BY <1>1
  <1>5. gh = [rule |-> rule, level |-> level, start |-> start, kids |-> kids, todo |-> todo,
              owed |-> owed]
    <2> HIDE DEF h
    <2> QED BY <1>4
  <1>6. Moved(f, g, f.kids, todo)
    <2> HIDE DEF g
    <2>1. IsFrame(g)
      BY <1>2, <1>3
    <2> QED BY <1>1, <1>3, <2>1 DEF Moved
  <1>7. Moved(f, gh, kids, todo)
    <2> HIDE DEF gh
    <2>1. IsFrame(gh)
      BY <1>2, <1>5
    <2> QED BY <1>1, <1>5, <2>1 DEF Moved
  <1> QED BY <1>6, <1>7

\* t is s with g as its innermost frame.
Replaces(s, t, g) ==
  /\ IsSequence(t) /\ Len(t) = Len(s) /\ t # << >>
  /\ t[1] = g
  /\ \A i \in 2 .. Len(s) : t[i] = s[i]

\* A stack with another innermost frame.
LEMMA Replaced ==
  ASSUME NEW s, IsSequence(s), s # << >>, NEW g PROVE Replaces(s, [s EXCEPT ![1] = g], g)
  <1>1. PICK A : s \in Seq(A) BY DEF IsSequence
  <1>2. s \in Seq(A \cup {g}) BY <1>1
  <1> DEFINE t == [s EXCEPT ![1] = g]
  <1>3. Len(s) \in Nat /\ DOMAIN s = 1 .. Len(s) /\ Len(s) # 0
    BY Lengths
  <1>4. t \in Seq(A \cup {g}) /\ Len(t) = Len(s)
    BY <1>2, <1>3
  <1>5. t # << >> /\ IsSequence(t)
    BY <1>3, <1>4, Lengths DEF IsSequence
  <1>6. 1 \in DOMAIN s /\ \A i \in 2 .. Len(s) : i \in DOMAIN s /\ i # 1
    BY <1>3
  <1>7. t[1] = g /\ \A i \in 2 .. Len(s) : t[i] = s[i]
    BY <1>6
  <1> QED BY <1>4, <1>5, <1>7 DEF Replaces

\* t is s after a step of its innermost frame.
Moves(s, t, kids, todo) ==
  /\ IsSequence(t) /\ Len(t) = Len(s) /\ t # << >>
  /\ Moved(s[1], t[1], kids, todo)
  /\ \A i \in 2 .. Len(s) : t[i] = s[i]

\* The innermost rule method goes on.
LEMMA StackMoved ==
  ASSUME NEW s, IsSequence(s), s # << >>, IsFrame(s[1]), NEW kids, NEW todo
  PROVE  /\ Moves(s, [s EXCEPT ![1].todo = todo], s[1].kids, todo)
         /\ Moves(s, [s EXCEPT ![1].kids = kids, ![1].todo = todo], kids, todo)
  <1> DEFINE f == [s[1] EXCEPT !.todo = todo]
             h == [s[1] EXCEPT !.kids = kids]
             g == [h EXCEPT !.todo = todo]
  <1>1. [s EXCEPT ![1].todo = todo] = [s EXCEPT ![1] = f]
    OBVIOUS
  <1>2. [s EXCEPT ![1].kids = kids, ![1].todo = todo] = [s EXCEPT ![1] = g]
    <2>1. 1 \in DOMAIN s
      BY Lengths
    <2>2. [s EXCEPT ![1].kids = kids] = [s EXCEPT ![1] = h]
      OBVIOUS
    <2>3. [s EXCEPT ![1] = h][1] = h
      BY <2>1
    <2>4. [[s EXCEPT ![1] = h] EXCEPT ![1].todo = todo] = [[s EXCEPT ![1] = h] EXCEPT ![1] = g]
      BY <2>3
    <2>5. [[s EXCEPT ![1] = h] EXCEPT ![1] = g] = [s EXCEPT ![1] = g]
      <3> HIDE DEF h, g
      <3> QED OBVIOUS
    <2> QED BY <2>2, <2>4, <2>5
  <1>3. Moved(s[1], f, s[1].kids, todo) /\ Moved(s[1], g, kids, todo)
    BY FrameMoved
  <1> HIDE DEF f, g
  <1>4. Replaces(s, [s EXCEPT ![1] = f], f) /\ Replaces(s, [s EXCEPT ![1] = g], g)
    BY Replaced
  <1>5. /\ Moves(s, [s EXCEPT ![1] = f], s[1].kids, todo)
        /\ Moves(s, [s EXCEPT ![1] = g], kids, todo)
    BY <1>3, <1>4 DEF Replaces, Moves
  <1> QED BY <1>1, <1>2, <1>5

\* t is s after a call of f.
Enters(s, t, f) ==
  /\ IsSequence(t) /\ Len(t) = Len(s) + 1 /\ t # << >>
  /\ t[1] = f
  /\ \A i \in 1 .. Len(s) : t[i + 1] = s[i]

\* A rule method is entered.
LEMMA StackEntered ==
  ASSUME NEW s, IsSequence(s), NEW f PROVE Enters(s, <<f>> \o s, f)
  <1>1. IsSequence(<<f>>) /\ IsSequence(<<f>> \o s)
    BY SequenceFacts
  <1>2. Len(<<f>>) = 1 /\ <<f>>[1] = f
    OBVIOUS
  <1>3. /\ Len(<<f>> \o s) = Len(<<f>>) + Len(s)
        /\ \A i \in 1 .. Len(<<f>>) : (<<f>> \o s)[i] = <<f>>[i]
        /\ \A i \in 1 .. Len(s) : (<<f>> \o s)[Len(<<f>>) + i] = s[i]
    BY <1>1, Joined
  <1>4. <<f>> \o s # << >>
    BY OneJoined
  <1> DEFINE t == <<f>> \o s
             n == Len(s)
  <1>5. n \in Nat
    BY Lengths
  <1>6. /\ Len(t) = 1 + n
        /\ t[1] = f
        /\ \A i \in 1 .. n : t[1 + i] = s[i]
    <2>1. 1 \in 1 .. 1
      OBVIOUS
    <2> HIDE DEF t, n
    <2> QED BY <1>2, <1>3, <2>1, Zenon DEF t, n
  <1> HIDE DEF t, n
  <1>7. Len(t) = n + 1 /\ \A i \in 1 .. n : t[i + 1] = s[i]
    <2>1. \A i \in 1 .. n : 1 + i = i + 1
      BY <1>5
    <2>2. 1 + n = n + 1
      BY <1>5
    <2> QED BY <1>6, <2>1, <2>2
  <1> QED BY <1>1, <1>4, <1>6, <1>7 DEF t, n, Enters

\* t is s after its innermost frame has returned node.
Returns(s, t, node) ==
  /\ IsSequence(t) /\ Len(t) = Len(s) - 1 /\ t # << >>
  /\ Moved(s[2], t[1], Append(s[2].kids, node), Tail(s[2].todo))
  /\ \A i \in 2 .. Len(t) : t[i] = s[i + 1]

\* A rule method returns to its caller.
LEMMA StackReturned ==
  ASSUME NEW s, IsSequence(s), s # << >>, Len(s) # 1, IsFrame(s[2]), NEW node
  PROVE  Returns(s, [Tail(s) EXCEPT ![1].kids = Append(@, node), ![1].todo = Tail(@)], node)
  <1> DEFINE u == Tail(s)
             n == Len(s)
  <1>1. n \in Nat /\ n # 0 /\ n # 1
    BY Lengths
  <1>2. /\ Len(u) = n - 1
        /\ \A i \in 1 .. n - 1 : u[i] = s[i + 1]
        /\ IsSequence(u)
    BY Tailed, SequenceFacts
  <1> HIDE DEF u, n
  <1>3. u # << >>
    BY <1>1, <1>2, Lengths
  <1>4. u[1] = s[2]
    <2>1. 1 \in 1 .. n - 1
      BY <1>1
    <2> QED BY <1>2, <2>1
  <1> DEFINE kids == Append(u[1].kids, node)
             todo == Tail(u[1].todo)
             h == [u[1] EXCEPT !.kids = kids]
             g == [h EXCEPT !.todo = todo]
             t == [u EXCEPT ![1].kids = Append(@, node), ![1].todo = Tail(@)]
  <1>5. t = [u EXCEPT ![1] = g]
    <2>1. 1 \in DOMAIN u
      BY <1>2, <1>3, Lengths
    <2>2. [u EXCEPT ![1].kids = Append(@, node)] = [u EXCEPT ![1] = h]
      OBVIOUS
    <2>3. [u EXCEPT ![1] = h][1] = h
      BY <2>1
    <2>4. h.todo = u[1].todo
      BY <1>4 DEF IsFrame
    <2>5. [[u EXCEPT ![1] = h] EXCEPT ![1].todo = Tail(@)]
          = [[u EXCEPT ![1] = h] EXCEPT ![1] = g]
      BY <2>3, <2>4
    <2>6. [[u EXCEPT ![1] = h] EXCEPT ![1] = g] = [u EXCEPT ![1] = g]
      <3> HIDE DEF h, g
      <3> QED OBVIOUS
    <2> QED BY <2>2, <2>5, <2>6
  <1>6. Moved(u[1], g, kids, todo)
    BY <1>4, FrameMoved
  <1> HIDE DEF g, h
  <1>7. Replaces(u, [u EXCEPT ![1] = g], g)
    BY <1>2, <1>3, Replaced
  <1>8. /\ IsSequence(t) /\ Len(t) = n - 1 /\ t # << >>
        /\ Moved(s[2], t[1], Append(s[2].kids, node), Tail(s[2].todo))
    BY <1>2, <1>4, <1>5, <1>6, <1>7 DEF Replaces
  <1>9. \A i \in 2 .. Len(u) : t[i] = u[i]
    BY <1>5, <1>7 DEF Replaces
  <1> HIDE DEF t
  <1>10. \A i \in 2 .. Len(t) : t[i] = s[i + 1]
    BY <1>1, <1>2, <1>8, <1>9
  <1> QED BY <1>8, <1>10 DEF t, u, n, Returns

-----------------------------------------------------------------------------
(* What a production leads to *)

\* What the first step of a rule method leads to.
LEMMA HeadOf ==
  ASSUME NEW p, WellFormed(p), p # << >>
  PROVE  /\ IsSequence(p) /\ Head(p) = p[1]
         /\ WellFormed(Tail(p))
         /\ Head(p).op = "rule" => Head(p).rule \in Rules /\ Head(p).level \in 0 .. AnyLevel
         /\ Head(p).op = "decision" => \A a \in Head(p).alts : WellFormed(a)
         /\ Head(p).op = "loop" => WellFormed(Head(p).body)
  <1>1. PICK S : Closed(S) /\ p \in Seq(S \cup LeftRecursive)
    BY DEF WellFormed
  <1>2. IsSequence(p) /\ Head(p) = p[1]
    BY WellFormedIsSequence, Tailed
  <1>3. Head(p) \in S \cup LeftRecursive /\ Tail(p) \in Seq(S \cup LeftRecursive)
    <2> DEFINE A == S \cup LeftRecursive
    <2>1. p \in Seq(A)
      BY <1>1
    <2> HIDE DEF A
    <2>2. Head(p) \in A /\ Tail(p) \in Seq(A)
      BY <2>1
    <2> QED BY <2>2 DEF A
  <1>4. WellFormed(Tail(p))
    BY <1>1, <1>3 DEF WellFormed
  <1> DEFINE t == Head(p)
  <1> HIDE DEF t
  <1>5. t \in S \/ t \in LeftRecursive
    BY <1>3 DEF t
  <1>6. t \in LeftRecursive => t.op \in LeftRecursion
    BY DEF LeftRecursive, LeftRecursion
  <1>7. \A q : q \in Seq(S) => WellFormed(q)
    BY <1>1, PlainIsWellFormed DEF Plain
  <1>8. /\ t.op = "rule" => t.rule \in Rules /\ t.level \in 0 .. AnyLevel
        /\ t.op = "decision" => \A a \in t.alts : WellFormed(a)
        /\ t.op = "loop" => WellFormed(t.body)
    BY <1>1, <1>5, <1>6, <1>7 DEF Closed, LeftRecursion
  <1> QED BY <1>2, <1>4, <1>8 DEF t

AllPlain(p) == \A a \in Alternatives(p) : Plain(a)

\* The alternatives of a production are productions.
LEMMA AlternativesPlain == \A p : Plain(p) => AllPlain(p)
  <1> SUFFICES ASSUME NEW p, Plain(p) PROVE AllPlain(p)
    OBVIOUS
  <1>1. PICK S : Closed(S) /\ p \in Seq(S)
    BY DEF Plain
  <1>2. \A a \in Alternatives(p) : a \in Seq(S)
    BY <1>1, PlainAlternatives
  <1> QED BY <1>1, <1>2 DEF Plain, AllPlain

\* What a decision holds.
LEMMA DecisionAlternatives == \A p, q : (p | q)[1].alts = Alternatives(p | q)
  <1> TAKE p, q
  <1>1. /\ Alternatives(p | q) = Alternatives(p) \cup Alternatives(q)
        /\ (p | q)[1].alts = Alternatives(p) \cup Alternatives(q)
    BY AlternativesJoined, Zenon
  <1> QED BY <1>1, Zenon

\* The alternatives of primary expressions are productions.
LEMMA PrimaryPlain == \A a \in Primary[1].alts : Plain(a)
  <1>1. Plain(AttributedExpression)
    BY Combinators, CalledRules, ExpressionCalls, Zenon DEF Combining, AttributedExpression
  <1>2. Plain(LiteralExpression_)
    BY Combinators, CalledRules, ExpressionCalls, Zenon DEF Combining, LiteralExpression_
  <1>3. Plain(PathExpression_)
    BY Combinators, CalledRules, ExpressionCalls, Zenon DEF Combining, PathExpression_
  <1>4. Plain(BorrowExpression)
    BY Combinators, CalledRules, ExpressionCalls, Zenon DEF Combining, BorrowExpression
  <1>5. Plain(DereferenceExpression)
    BY Combinators, CalledRules, ExpressionCalls, Zenon DEF Combining, DereferenceExpression
  <1>6. Plain(NegationExpression)
    BY Combinators, CalledRules, ExpressionCalls, Zenon DEF Combining, NegationExpression
  <1>7. Plain(RangeTo)
    BY Combinators, CalledRules, ExpressionCalls, Zenon DEF Combining, RangeTo
  <1>8. Plain(RangeToInclusive)
    BY Combinators, CalledRules, ExpressionCalls, Zenon DEF Combining, RangeToInclusive
  <1>9. Plain(ContinueExpression)
    BY Combinators, CalledRules, ExpressionCalls, Zenon DEF Combining, ContinueExpression
  <1>10. Plain(BreakExpression)
    BY Combinators, CalledRules, ExpressionCalls, Zenon DEF Combining, BreakExpression
  <1>11. Plain(ReturnExpression)
    BY Combinators, CalledRules, ExpressionCalls, Zenon DEF Combining, ReturnExpression
  <1>12. Plain(GroupedExpression)
    BY Combinators, CalledRules, ExpressionCalls, Zenon DEF Combining, GroupedExpression
  <1>13. Plain(ArrayExpression)
    BY Combinators, CalledRules, ExpressionCalls, Zenon DEF Combining, ArrayExpression
  <1>14. Plain(TupleExpression)
    BY Combinators, CalledRules, ExpressionCalls, Zenon DEF Combining, TupleExpression
  <1>15. Plain(StructExpression_)
    BY Combinators, CalledRules, ExpressionCalls, Zenon DEF Combining, StructExpression_
  <1>16. Plain(EnumerationVariantExpression_)
    BY Combinators, CalledRules, ExpressionCalls, Zenon
        DEF Combining, EnumerationVariantExpression_
  <1>17. Plain(ClosureExpression_)
    BY Combinators, CalledRules, ExpressionCalls, Zenon DEF Combining, ClosureExpression_
  <1>18. Plain(ExpressionWithBlock_)
    BY Combinators, CalledRules, ExpressionCalls, Zenon DEF Combining, ExpressionWithBlock_
  <1>19. Plain(MacroInvocationAsExpression)
    BY Combinators, CalledRules, ExpressionCalls, Zenon
        DEF Combining, MacroInvocationAsExpression
  <1>20. Plain(Primary)
    BY <1>1, <1>2, <1>3, <1>4, <1>5, <1>6, <1>7, <1>8, <1>9, <1>10, <1>11, <1>12, <1>13, <1>14,
        <1>15, <1>16, <1>17, <1>18, <1>19, Combinators, Zenon DEF Combining, Primary
  <1>21. Primary[1].alts = Alternatives(Primary)
    BY DecisionAlternatives, Zenon DEF Primary
  <1> QED BY <1>20, <1>21, AlternativesPlain, Zenon DEF AllPlain

\* The suffixes of expressions are productions.
LEMMA SuffixPlain == \A a \in Suffix[1].alts : Plain(a)
  <1>1. Plain(Multiplicative)
    BY Combinators, CalledRules, ExpressionCalls, Zenon DEF Combining, Multiplicative
  <1>2. Plain(Additive)
    BY Combinators, CalledRules, ExpressionCalls, Zenon DEF Combining, Additive
  <1>3. Plain(Shift)
    BY Combinators, CalledRules, ExpressionCalls, Zenon DEF Combining, Shift
  <1>4. Plain(BitAnd)
    BY Combinators, CalledRules, ExpressionCalls, Zenon DEF Combining, BitAnd
  <1>5. Plain(BitXor)
    BY Combinators, CalledRules, ExpressionCalls, Zenon DEF Combining, BitXor
  <1>6. Plain(BitOr)
    BY Combinators, CalledRules, ExpressionCalls, Zenon DEF Combining, BitOr
  <1>7. Plain(ComparisonExpression)
    BY Combinators, CalledRules, ExpressionCalls, Zenon DEF Combining, ComparisonExpression
  <1>8. Plain(LazyAnd)
    BY Combinators, CalledRules, ExpressionCalls, Zenon DEF Combining, LazyAnd
  <1>9. Plain(LazyOr)
    BY Combinators, CalledRules, ExpressionCalls, Zenon DEF Combining, LazyOr
  <1>10. Plain(RangeInclusive)
    BY Combinators, CalledRules, ExpressionCalls, Zenon DEF Combining, RangeInclusive
  <1>11. Plain(AssignmentExpression)
    BY Combinators, CalledRules, ExpressionCalls, Zenon DEF Combining, AssignmentExpression
  <1>12. Plain(CompoundAssignmentExpression)
    BY Combinators, CalledRules, ExpressionCalls, Zenon
        DEF Combining, CompoundAssignmentExpression
  <1>13. Plain(MethodCallExpression)
    BY Combinators, CalledRules, ExpressionCalls, Zenon DEF Combining, MethodCallExpression
  <1>14. Plain(FieldExpression)
    BY Combinators, CalledRules, ExpressionCalls, Zenon DEF Combining, FieldExpression
  <1>15. Plain(TupleIndexingExpression)
    BY Combinators, CalledRules, ExpressionCalls, Zenon DEF Combining, TupleIndexingExpression
  <1>16. Plain(AwaitExpression)
    BY Combinators, CalledRules, ExpressionCalls, Zenon DEF Combining, AwaitExpression
  <1>17. Plain(CallExpression)
    BY Combinators, CalledRules, ExpressionCalls, Zenon DEF Combining, CallExpression
  <1>18. Plain(IndexExpression)
    BY Combinators, CalledRules, ExpressionCalls, Zenon DEF Combining, IndexExpression
  <1>19. Plain(ErrorPropagationExpression)
    BY Combinators, CalledRules, ExpressionCalls, Zenon
        DEF Combining, ErrorPropagationExpression
  <1>20. Plain(TypeCastExpression)
    BY Combinators, CalledRules, ExpressionCalls, Zenon DEF Combining, TypeCastExpression
  <1>21. Plain(RangeFrom)
    BY Combinators, CalledRules, ExpressionCalls, Zenon DEF Combining, RangeFrom
  <1>22. Plain(Suffix)
    BY <1>1, <1>2, <1>3, <1>4, <1>5, <1>6, <1>7, <1>8, <1>9, <1>10, <1>11, <1>12, <1>13, <1>14,
        <1>15, <1>16, <1>17, <1>18, <1>19, <1>20, <1>21, Combinators, Zenon
        DEF Combining, Suffix
  <1>23. Suffix[1].alts = Alternatives(Suffix)
    BY DecisionAlternatives, Zenon DEF Suffix
  <1> QED BY <1>22, <1>23, AlternativesPlain, Zenon DEF AllPlain

-----------------------------------------------------------------------------
(* Typing *)

\* A rule method of the grammar, with a production before it.
FrameOK(f) ==
  /\ IsFrame(f)
  /\ f.rule \in Rules /\ f.level \in 0 .. AnyLevel
  /\ IsSequence(f.kids)
  /\ WellFormed(f.todo)

\* f has called g.
Awaits(f, g) ==
  /\ f.todo # << >>
  /\ Head(f.todo).op = "rule" /\ Head(f.todo).rule = g.rule /\ Head(f.todo).level = g.level

\* The inductive invariant: the stack.
StackOK(s) ==
  /\ IsSequence(s)
  /\ \A i \in 1 .. Len(s) : FrameOK(s[i])
  /\ \A i \in 2 .. Len(s) : Awaits(s[i], s[i - 1])

\* The inductive invariant: the other variables.
BooksOK ==
  /\ profile \in DOMAIN Profiles
  /\ source \in Seq(Profiles[profile].words) /\ Len(source) <= Profiles[profile].budget
  /\ barred \in 0 .. AnyLevel
  /\ closing \in BOOLEAN
  /\ repairs \in 0 .. Profiles[profile].repairs
  /\ tree = NoTree <=> Parsing

\* The stack stays typed when the innermost rule method goes on.
LEMMA MovedOK ==
  ASSUME NEW s, StackOK(s), s # << >>, NEW t, NEW kids, NEW todo, Moves(s, t, kids, todo),
         IsSequence(kids), WellFormed(todo)
  PROVE  StackOK(t)
  <1> DEFINE n == Len(s)
  <1>1. n \in Nat /\ n # 0
    BY Lengths DEF StackOK
  <1> HIDE DEF n
  <1>2. /\ IsSequence(t) /\ Len(t) = n
        /\ Moved(s[1], t[1], kids, todo)
        /\ \A i \in 2 .. n : t[i] = s[i]
    BY DEF n, Moves
  <1>3. /\ \A i \in 1 .. n : FrameOK(s[i])
        /\ \A i \in 2 .. n : Awaits(s[i], s[i - 1])
    BY DEF n, StackOK
  <1>4. FrameOK(t[1])
    <2>1. 1 \in 1 .. n
      BY <1>1
    <2>2. FrameOK(s[1])
      BY <1>3, <2>1
    <2> QED BY <1>2, <2>2 DEF Moved, FrameOK
  <1>5. \A i \in 1 .. n : FrameOK(t[i])
    BY <1>1, <1>2, <1>3, <1>4
  <1>6. ASSUME NEW i \in 2 .. n PROVE Awaits(t[i], t[i - 1])
    <2>1. Awaits(s[i], s[i - 1]) /\ t[i] = s[i]
      BY <1>2, <1>3
    <2>2. CASE i = 2
      <3>1. t[i - 1] = t[1] /\ s[i - 1] = s[1]
        BY <2>2
      <3>2. t[1].rule = s[1].rule /\ t[1].level = s[1].level
        BY <1>2 DEF Moved
      <3> QED BY <2>1, <3>1, <3>2 DEF Awaits
    <2>3. CASE i # 2
      <3>1. i - 1 \in 2 .. n
        BY <1>1, <2>3
      <3> QED BY <1>2, <2>1, <3>1
    <2> QED BY <2>2, <2>3
  <1> QED BY <1>2, <1>5, <1>6 DEF StackOK

\* The stack stays typed when a rule method is called.
LEMMA EnteredOK ==
  ASSUME NEW s, StackOK(s), s # << >>, NEW t, NEW f, Enters(s, t, f), FrameOK(f),
         Awaits(s[1], f)
  PROVE  StackOK(t)
  <1> DEFINE n == Len(s)
  <1>1. n \in Nat /\ n # 0
    BY Lengths DEF StackOK
  <1> HIDE DEF n
  <1>2. /\ IsSequence(t) /\ Len(t) = n + 1
        /\ t[1] = f
        /\ \A i \in 1 .. n : t[i + 1] = s[i]
    BY DEF n, Enters
  <1>3. /\ \A i \in 1 .. n : FrameOK(s[i])
        /\ \A i \in 2 .. n : Awaits(s[i], s[i - 1])
    BY DEF n, StackOK
  <1>4. ASSUME NEW i \in 2 .. n + 1 PROVE t[i] = s[i - 1] /\ i - 1 \in 1 .. n
    <2>1. i - 1 \in 1 .. n /\ (i - 1) + 1 = i
      BY <1>1
    <2> QED BY <1>2, <2>1
  <1>5. \A i \in 1 .. n + 1 : FrameOK(t[i])
    <2> TAKE i \in 1 .. n + 1
    <2>1. i = 1 \/ i \in 2 .. n + 1
      BY <1>1
    <2> QED BY <1>2, <1>3, <1>4, <2>1
  <1>6. ASSUME NEW i \in 2 .. n + 1 PROVE Awaits(t[i], t[i - 1])
    <2>1. CASE i = 2
      <3>1. t[i] = s[1] /\ t[i - 1] = f
        BY <1>2, <1>4, <2>1
      <3> QED BY <3>1
    <2>2. CASE i # 2
      <3>1. i - 1 \in 2 .. n /\ i - 1 \in 2 .. n + 1
        BY <1>1, <2>2
      <3>2. t[i] = s[i - 1] /\ t[i - 1] = s[(i - 1) - 1]
        BY <1>4, <3>1
      <3> QED BY <1>3, <3>1, <3>2
    <2> QED BY <2>1, <2>2
  <1> QED BY <1>2, <1>5, <1>6 DEF StackOK

\* The stack stays typed when a rule method returns.
LEMMA ReturnedOK ==
  ASSUME NEW s, StackOK(s), s # << >>, Len(s) # 1, NEW t, NEW node, Returns(s, t, node)
  PROVE  StackOK(t)
  <1> DEFINE n == Len(s)
  <1>1. n \in Nat /\ n # 0 /\ n # 1
    BY Lengths DEF StackOK
  <1> HIDE DEF n
  <1>2. /\ IsSequence(t) /\ Len(t) = n - 1
        /\ Moved(s[2], t[1], Append(s[2].kids, node), Tail(s[2].todo))
        /\ \A i \in 2 .. n - 1 : t[i] = s[i + 1]
    BY DEF n, Returns
  <1>3. /\ \A i \in 1 .. n : FrameOK(s[i])
        /\ \A i \in 2 .. n : Awaits(s[i], s[i - 1])
    BY DEF n, StackOK
  <1>4. FrameOK(t[1])
    <2>1. 2 \in 1 .. n /\ 2 \in 2 .. n
      BY <1>1
    <2>2. FrameOK(s[2]) /\ s[2].todo # << >>
      BY <1>3, <2>1 DEF Awaits
    <2>3. WellFormed(Tail(s[2].todo)) /\ IsSequence(Append(s[2].kids, node))
      BY <2>2, HeadOf, SequenceFacts DEF FrameOK
    <2> QED BY <1>2, <2>2, <2>3 DEF Moved, FrameOK
  <1>5. \A i \in 1 .. n - 1 : FrameOK(t[i])
    <2> TAKE i \in 1 .. n - 1
    <2>1. i = 1 \/ (i \in 2 .. n - 1 /\ i + 1 \in 1 .. n)
      BY <1>1
    <2> QED BY <1>2, <1>3, <1>4, <2>1
  <1>6. ASSUME NEW i \in 2 .. n - 1 PROVE Awaits(t[i], t[i - 1])
    <2>1. /\ t[i] = s[i + 1] /\ i + 1 \in 2 .. n /\ (i + 1) - 1 = i
      BY <1>1, <1>2
    <2>2. Awaits(t[i], s[i])
      BY <1>3, <2>1
    <2>3. CASE i = 2
      <3>1. t[1].rule = s[2].rule /\ t[1].level = s[2].level
        BY <1>2 DEF Moved
      <3>2. i - 1 = 1
        BY <2>3
      <3> QED BY <2>2, <2>3, <3>1, <3>2 DEF Awaits
    <2>4. CASE i # 2
      <3>1. i - 1 \in 2 .. n - 1 /\ (i - 1) + 1 = i
        BY <1>1, <2>4
      <3>2. t[i - 1] = s[i]
        BY <1>2, <3>1
      <3> QED BY <2>2, <3>2
    <2> QED BY <2>3, <2>4
  <1> QED BY <1>2, <1>5, <1>6 DEF StackOK

\* The inductive invariant of typing.
TypingInv == StackOK(stack) /\ BooksOK

\* The innermost frame of a typed stack.
LEMMA TopOK ==
  ASSUME StackOK(stack), Parsing
  PROVE  /\ IsSequence(stack) /\ stack # << >> /\ FrameOK(Top)
         /\ Len(stack) \in Nat /\ Len(stack) >= 1
  <1>1. IsSequence(stack) /\ stack # << >>
    BY DEF StackOK, Parsing
  <1>2. Len(stack) \in Nat /\ Len(stack) # 0
    BY <1>1, Lengths
  <1> DEFINE n == Len(stack)
  <1>3. n >= 1 /\ 1 \in 1 .. n
    <2>1. n \in Nat /\ n # 0
      BY <1>2
    <2> HIDE DEF n
    <2> QED BY <2>1
  <1>4. FrameOK(stack[1])
    BY <1>3 DEF StackOK
  <1> QED BY <1>1, <1>2, <1>3, <1>4 DEF Top

\* What EnterRule does to the stack.
LEMMA EnterEffect ==
  ASSUME TypingInv, EnterRule
  PROVE  \E owed :
           /\ Enters(stack, stack', Frame(Next1.rule, Next1.level, Here, owed))
           /\ FrameOK(Frame(Next1.rule, Next1.level, Here, owed))
           /\ Awaits(Top, Frame(Next1.rule, Next1.level, Here, owed))
  <1>1. FrameOK(Top) /\ Top.todo # << >> /\ Next1.op = "rule" /\ Parsing
    BY TopOK DEF TypingInv, EnterRule, AboutTo
  <1>2. PICK owed : stack' = <<Frame(Next1.rule, Next1.level, Here, owed)>> \o stack
    BY DEF EnterRule
  <1>3. WellFormed(Top.todo)
    BY <1>1 DEF FrameOK
  <1>4. Next1.rule \in Rules /\ Next1.level \in 0 .. AnyLevel
    BY <1>1, <1>3, HeadOf DEF Next1
  <1> DEFINE f == Frame(Next1.rule, Next1.level, Here, owed)
  <1>5. /\ f.rule = Next1.rule /\ f.level = Next1.level /\ f.kids = << >>
        /\ f.todo = Production[Next1.rule]
    BY DEF Frame
  <1>6. IsFrame(f)
    BY DEF Frame, IsFrame
  <1> HIDE DEF f
  <1>7. FrameOK(f)
    <2>1. WellFormed(f.todo)
      BY <1>4, <1>5, Productions
    <2> QED BY <1>4, <1>5, <1>6, <2>1, SequenceFacts DEF FrameOK
  <1>8. Awaits(Top, f)
    BY <1>1, <1>5 DEF Awaits, Next1
  <1>9. Enters(stack, stack', f)
    <2>1. IsSequence(stack)
      BY DEF TypingInv, StackOK
    <2> QED BY <1>2, <2>1, StackEntered DEF f
  <1> QED BY <1>7, <1>8, <1>9 DEF f

\* What a decision chooses from is a production.
LEMMA AlternativesOK ==
  ASSUME NEW rule, NEW p, WellFormed(p), p # << >>, Head(p).op \in {"decision", "primary"}
  PROVE  \A a \in AlternativesOf(rule, Head(p)) : WellFormed(a)
  BY HeadOf, PrimaryPlain, PlainIsWellFormed DEF AlternativesOf

\* What a step that only changes the rest does to the stack.
LEMMA Doing ==
  ASSUME TypingInv, Parsing, NEW todo, WellFormed(todo), Do(todo)
  PROVE  Moves(stack, stack', Top.kids, todo) /\ StackOK(stack')
  <1>1. IsSequence(stack) /\ stack # << >> /\ FrameOK(Top)
    BY TopOK DEF TypingInv
  <1>2. Moves(stack, stack', Top.kids, todo)
    BY <1>1, StackMoved DEF Do, Top, FrameOK
  <1> QED BY <1>1, <1>2, MovedOK DEF TypingInv, FrameOK

\* What Choose does to the stack.
LEMMA ChooseEffect ==
  ASSUME TypingInv, Choose
  PROVE  \E a \in AlternativesOf(Top.rule, Next1) :
           /\ WellFormed(a)
           /\ Moves(stack, stack', Top.kids, a \o Rest) /\ StackOK(stack')
  <1>1. /\ Parsing /\ Top.todo # << >> /\ Next1.op \in {"decision", "primary"}
    BY DEF Choose, AboutTo
  <1>2. PICK a \in AlternativesOf(Top.rule, Next1) : Do(a \o Rest)
    BY DEF Choose
  <1>3. WellFormed(Top.todo)
    BY <1>1, TopOK DEF TypingInv, FrameOK
  <1>4. WellFormed(a) /\ WellFormed(Rest)
    BY <1>1, <1>2, <1>3, HeadOf, AlternativesOK DEF Next1, Rest
  <1>5. WellFormed(a \o Rest)
    BY <1>4, WellFormedSequence
  <1> QED BY <1>1, <1>2, <1>4, <1>5, Doing

\* What Iterate does to the stack.
LEMMA IterateEffect ==
  ASSUME TypingInv, Iterate
  PROVE  /\ Parsing /\ Top.todo # << >> /\ Next1.op = "loop"
         /\ WellFormed(Next1.body)
         /\ Moves(stack, stack', Top.kids, Next1.body \o Top.todo) /\ StackOK(stack')
  <1>1. /\ Parsing /\ Top.todo # << >> /\ Next1.op = "loop" /\ Do(Next1.body \o Top.todo)
    BY DEF Iterate, AboutTo
  <1>3. WellFormed(Top.todo)
    BY <1>1, TopOK DEF TypingInv, FrameOK
  <1>4. WellFormed(Next1.body)
    BY <1>1, <1>3, HeadOf DEF Next1
  <1>5. WellFormed(Next1.body \o Top.todo)
    BY <1>3, <1>4, WellFormedSequence
  <1> QED BY <1>1, <1>4, <1>5, Doing

\* What LeaveLoop does to the stack.
LEMMA LeaveEffect ==
  ASSUME TypingInv, LeaveLoop
  PROVE  /\ Parsing /\ Top.todo # << >> /\ Next1.op \in {"loop", "suffixes"}
         /\ Moves(stack, stack', Top.kids, Rest) /\ StackOK(stack')
  <1>1. /\ Parsing /\ Top.todo # << >> /\ Next1.op \in {"loop", "suffixes"} /\ Do(Rest)
    BY DEF LeaveLoop, AboutTo
  <1>2. WellFormed(Rest)
    BY <1>1, TopOK, HeadOf DEF TypingInv, FrameOK, Rest
  <1> QED BY <1>1, <1>2, Doing

\* What Extend does to the stack.
LEMMA ExtendEffect ==
  ASSUME TypingInv, Extend
  PROVE  /\ Parsing /\ Top.todo # << >> /\ Next1.op = "suffixes"
         /\ \E p \in Suffix[1].alts :
              /\ Head(p).level \in Top.level .. barred - 1
              /\ WellFormed(p) /\ p # << >>
              /\ Moves(stack, stack', <<Context>>, Tail(p) \o Top.todo)
         /\ StackOK(stack')
  <1>1. Parsing /\ Top.todo # << >> /\ Next1.op = "suffixes"
    BY DEF Extend, AboutTo
  <1>2. IsSequence(stack) /\ stack # << >> /\ FrameOK(Top)
    BY <1>1, TopOK DEF TypingInv
  <1>3. PICK p \in Suffix[1].alts :
          /\ Head(p).level \in Top.level .. barred - 1
          /\ stack' = [stack EXCEPT ![1].kids = <<Context>>, ![1].todo = Tail(p) \o @]
    BY DEF Extend
  <1>4. WellFormed(p) /\ p # << >>
    <2>1. IsSequence(p) /\ Len(p) >= 2
      BY Suffixes, Zenon DEF SuffixStart
    <2>2. Len(p) # 0
      <3> DEFINE n == Len(p)
      <3>1. n >= 2 /\ n \in Nat
        BY <2>1, Lengths
      <3> HIDE DEF n
      <3>2. n # 0
        BY <3>1
      <3> QED BY <3>2 DEF n
    <2> QED BY <2>1, <2>2, Lengths, SuffixPlain, PlainIsWellFormed
  <1>5. WellFormed(Tail(p) \o Top.todo)
    BY <1>2, <1>4, HeadOf, WellFormedSequence DEF FrameOK
  <1>6. stack' = [stack EXCEPT ![1].kids = <<Context>>, ![1].todo = Tail(p) \o Top.todo]
    <2> DEFINE u == [stack EXCEPT ![1].kids = <<Context>>]
    <2>1. u = [stack EXCEPT ![1] = [stack[1] EXCEPT !.kids = <<Context>>]]
      OBVIOUS
    <2>2. 1 \in DOMAIN stack
      BY <1>2, Lengths
    <2>3. u[1].todo = Top.todo
      <3>1. u[1] = [Top EXCEPT !.kids = <<Context>>]
        BY <2>1, <2>2 DEF Top
      <3>2. IsFrame(Top)
        BY <1>2 DEF FrameOK
      <3> HIDE DEF Top, Context
      <3>3. [Top EXCEPT !.kids = <<Context>>].todo = Top.todo
        BY <3>2 DEF IsFrame
      <3> QED BY <3>1, <3>3
    <2>4. stack' = [u EXCEPT ![1].todo = Tail(p) \o @]
      BY <1>3
    <2>5. [u EXCEPT ![1].todo = Tail(p) \o @] = [u EXCEPT ![1].todo = Tail(p) \o Top.todo]
      <3> HIDE DEF u
      <3> QED BY <2>3
    <2> QED BY <2>4, <2>5
  <1>7. Moves(stack, stack', <<Context>>, Tail(p) \o Top.todo)
    BY <1>2, <1>6, StackMoved DEF Top, FrameOK
  <1>8. StackOK(stack')
    BY <1>2, <1>5, <1>7, MovedOK, SequenceFacts DEF TypingInv
  <1> QED BY <1>1, <1>3, <1>4, <1>7, <1>8

\* What a step that adds a child does to the stack.
LEMMA Adding ==
  ASSUME TypingInv, Parsing, NEW child, NEW todo, WellFormed(todo), AddChild(child, todo)
  PROVE  Moves(stack, stack', Append(Top.kids, child), todo) /\ StackOK(stack')
  <1>1. IsSequence(stack) /\ stack # << >> /\ FrameOK(Top)
    BY TopOK DEF TypingInv
  <1>2. stack' = [stack EXCEPT ![1].kids = Append(Top.kids, child), ![1].todo = todo]
    <2>1. 1 \in DOMAIN stack
      BY <1>1, Lengths
    <2> QED BY <2>1 DEF AddChild, Top
  <1>3. Moves(stack, stack', Append(Top.kids, child), todo)
    BY <1>1, <1>2, StackMoved DEF Top, FrameOK
  <1>4. IsSequence(Append(Top.kids, child))
    BY <1>1, SequenceFacts DEF FrameOK
  <1> QED BY <1>1, <1>3, <1>4, MovedOK DEF TypingInv

\* What Match does to the stack.
LEMMA MatchEffect ==
  ASSUME TypingInv, Match
  PROVE  /\ Parsing /\ Top.todo # << >> /\ Next1.op \in {"match", "set"}
         /\ Len(source) < Profiles[profile].budget
         /\ \E word \in Profiles[profile].words :
              /\ TokenType(word) \in Next1.types
              /\ source' = Append(source, word)
              /\ Moves(stack, stack', Append(Top.kids, Token(word, Here)), Rest)
         /\ StackOK(stack')
  <1>1. /\ Parsing /\ Top.todo # << >> /\ Next1.op \in {"match", "set"}
        /\ Len(source) < Profiles[profile].budget
    BY DEF Match, AboutTo
  <1>2. PICK word \in Profiles[profile].words :
          /\ TokenType(word) \in Next1.types
          /\ source' = Append(source, word)
          /\ AddChild(Token(word, Here), Rest)
    BY DEF Match
  <1>3. WellFormed(Rest)
    BY <1>1, TopOK, HeadOf DEF TypingInv, FrameOK, Rest
  <1> QED BY <1>1, <1>2, <1>3, Adding

\* What MissingToken does to the stack.
LEMMA MissingEffect ==
  ASSUME TypingInv, MissingToken
  PROVE  /\ Parsing
         /\ Moves(stack, stack', Append(Top.kids, Missing(Here)), << >>)
         /\ Top.rule \in {"letStatement", "blockExpression"}
         /\ StackOK(stack')
  <1>1. /\ Parsing /\ AddChild(Missing(Here), << >>)
        /\ Top.rule \in {"letStatement", "blockExpression"}
    BY DEF MissingToken, Repairable
  <1>2. WellFormed(<< >>)
    BY NothingWellFormed
  <1> QED BY <1>1, <1>2, Adding

\* What Return(Context) does.
Returned ==
  \/ Len(stack) = 1 /\ stack' = << >> /\ tree' = Context
  \/ /\ Len(stack) # 1 /\ 2 \in 2 .. Len(stack)
     /\ FrameOK(stack[2]) /\ Awaits(stack[2], Top)
     /\ Returns(stack, stack', Context)
     /\ tree' = tree

\* What exitRule does to the stack.
LEMMA Returning ==
  ASSUME TypingInv, Parsing, Return(Context)
  PROVE  Returned /\ StackOK(stack')
  <1>1. CASE Len(stack) = 1
    <2>1. stack' = << >> /\ tree' = Context
      BY <1>1 DEF Return
    <2>2. StackOK(<< >>)
      BY SequenceFacts DEF StackOK
    <2> QED BY <1>1, <2>1, <2>2 DEF Returned
  <1>2. CASE Len(stack) # 1
    <2>1. IsSequence(stack) /\ stack # << >> /\ Len(stack) \in Nat /\ Len(stack) >= 1
      BY TopOK DEF TypingInv
    <2>2. 2 \in 2 .. Len(stack) /\ 2 \in 1 .. Len(stack) /\ 2 - 1 = 1
      <3> DEFINE n == Len(stack)
      <3>1. n \in Nat /\ n >= 1 /\ n # 1
        BY <1>2, <2>1
      <3> HIDE DEF n
      <3>2. 2 \in 2 .. n /\ 2 \in 1 .. n
        BY <3>1
      <3> QED BY <3>2 DEF n
    <2>3. FrameOK(stack[2]) /\ Awaits(stack[2], Top)
      BY <2>2 DEF TypingInv, StackOK, Top
    <2>4. /\ stack' = [Tail(stack) EXCEPT ![1].kids = Append(@, Context), ![1].todo = Tail(@)]
          /\ tree' = tree
      BY <1>2 DEF Return
    <2>5. Returns(stack, stack', Context)
      <3> HIDE DEF Context
      <3> QED BY <1>2, <2>1, <2>3, <2>4, StackReturned DEF FrameOK
    <2>6. StackOK(stack')
      BY <1>2, <2>1, <2>5, ReturnedOK DEF TypingInv
    <2> QED BY <1>2, <2>2, <2>3, <2>4, <2>5, <2>6 DEF Returned
  <1> QED BY <1>1, <1>2

\* The context of a rule method is not the absence of a tree.
LEMMA ContextIsATree == ASSUME StackOK(stack), Parsing PROVE Context # NoTree
  <1>1. Top.rule \in Rules
    BY TopOK DEF FrameOK
  <1>2. Top.rule # "<none>"
    BY <1>1, RuleNames
  <1>3. Context.rule = Top.rule /\ NoTree.rule = "<none>"
    BY DEF Context, NoTree, Node
  <1> QED BY <1>2, <1>3

\* A tree is there once the last rule method has returned.
LEMMA ReturnedTree ==
  ASSUME TypingInv, Parsing, Returned PROVE tree' = NoTree <=> stack' # << >>
  <1>1. tree = NoTree
    BY DEF TypingInv, BooksOK
  <1>2. Context # NoTree
    BY ContextIsATree DEF TypingInv
  <1> QED BY <1>1, <1>2 DEF Returned, Returns

\* A repair counted within its bound.
LEMMA OneMoreRepair ==
  ASSUME NEW r, NEW b \in Nat, r \in 0 .. b, r < b PROVE r + 1 \in 0 .. b
  OBVIOUS

\* In every behaviour of the parser, for every grammar profile and every budget, the stack
\* is typed: whoever waits has the call it waits for at the head of its rest.
THEOREM Typing == ParserSpec => []TypingInv
  <1>1. ASSUME ParserInit PROVE TypingInv
    <2> DEFINE f == Frame("crate", 0, 1, 0)
    <2>1. f.rule = "crate" /\ f.level = 0 /\ f.kids = << >> /\ f.todo = Production["crate"]
      BY DEF Frame
    <2>2. IsFrame(f)
      BY DEF Frame, IsFrame
    <2>3. stack = <<f>>
      BY <1>1 DEF ParserInit
    <2> HIDE DEF f
    <2>4. FrameOK(f)
      <3>1. "crate" \in Rules
        BY RuleNames
      <3>2. 0 \in 0 .. AnyLevel
        BY DEF AnyLevel
      <3> QED BY <2>1, <2>2, <3>1, <3>2, Productions, SequenceFacts DEF FrameOK
    <2>5. IsSequence(<<f>>) /\ Len(<<f>>) = 1 /\ <<f>>[1] = f /\ <<f>> # << >>
      BY SequenceFacts
    <2>6. StackOK(stack)
      BY <2>3, <2>4, <2>5 DEF StackOK
    <2>7. BooksOK
      <3>1. profile \in DOMAIN Profiles /\ source = << >> /\ barred = AnyLevel
            /\ closing = FALSE /\ repairs = 0 /\ tree = NoTree
        BY <1>1 DEF ParserInit
      <3>2. Profiles[profile].budget \in Nat /\ Profiles[profile].repairs \in Nat
        BY <3>1, BoundsAssumption
      <3>3. << >> \in Seq(Profiles[profile].words) /\ Len(<< >>) = 0
        OBVIOUS
      <3>4. /\ Len(<< >>) <= Profiles[profile].budget
            /\ 0 \in 0 .. Profiles[profile].repairs
        BY <3>2, <3>3
      <3>5. AnyLevel \in 0 .. AnyLevel
        BY DEF AnyLevel
      <3>6. stack # << >>
        BY <2>3, <2>5
      <3> QED BY <3>1, <3>3, <3>4, <3>5, <3>6 DEF BooksOK, Parsing
    <2> QED BY <2>6, <2>7 DEF TypingInv
  <1>2. ASSUME TypingInv, [ParserNext]_parserVars PROVE TypingInv'
    <2>0. /\ profile \in DOMAIN Profiles
          /\ Profiles[profile].budget \in Nat /\ Profiles[profile].repairs \in Nat
      BY <1>2, BoundsAssumption DEF TypingInv, BooksOK
    <2>1. CASE EnterRule
      <3>1. PICK f : Enters(stack, stack', f) /\ FrameOK(f) /\ Awaits(Top, f)
        BY <1>2, <2>1, EnterEffect
      <3>2. stack # << >>
        BY <2>1 DEF EnterRule, AboutTo, Parsing
      <3>3. StackOK(stack')
        BY <1>2, <3>1, <3>2, EnteredOK DEF TypingInv, Top
      <3>4. stack' # << >>
        BY <3>1 DEF Enters
      <3> QED BY <1>2, <2>1, <3>2, <3>3, <3>4 DEF EnterRule, TypingInv, BooksOK, Parsing
    <2>2. CASE Choose
      <3>1. StackOK(stack') /\ stack' # << >>
        BY <1>2, <2>2, ChooseEffect DEF Moves
      <3>2. stack # << >>
        BY <2>2 DEF Choose, AboutTo, Parsing
      <3>3. UNCHANGED <<profile, source, barred, closing, repairs, tree>>
        BY <2>2 DEF Choose
      <3> QED BY <1>2, <3>1, <3>2, <3>3 DEF TypingInv, BooksOK, Parsing
    <2>3. CASE Iterate
      <3>1. StackOK(stack') /\ stack' # << >>
        BY <1>2, <2>3, IterateEffect DEF Moves
      <3>2. stack # << >>
        BY <2>3 DEF Iterate, AboutTo, Parsing
      <3>3. UNCHANGED <<profile, source, barred, closing, repairs, tree>>
        BY <2>3 DEF Iterate
      <3> QED BY <1>2, <3>1, <3>2, <3>3 DEF TypingInv, BooksOK, Parsing
    <2>4. CASE LeaveLoop
      <3>1. StackOK(stack') /\ stack' # << >>
        BY <1>2, <2>4, LeaveEffect DEF Moves
      <3>2. stack # << >>
        BY <2>4 DEF LeaveLoop, AboutTo, Parsing
      <3>3. UNCHANGED <<profile, source, barred, closing, repairs, tree>>
        BY <2>4 DEF LeaveLoop
      <3> QED BY <1>2, <3>1, <3>2, <3>3 DEF TypingInv, BooksOK, Parsing
    <2>5. CASE Extend
      <3>1. StackOK(stack') /\ stack' # << >>
        BY <1>2, <2>5, ExtendEffect DEF Moves
      <3>2. stack # << >>
        BY <2>5 DEF Extend, AboutTo, Parsing
      <3>3. UNCHANGED <<profile, source, barred, closing, repairs, tree>>
        BY <2>5 DEF Extend
      <3> QED BY <1>2, <3>1, <3>2, <3>3 DEF TypingInv, BooksOK, Parsing
    <2>6. CASE Match
      <3>1. StackOK(stack') /\ stack' # << >> /\ stack # << >>
        BY <1>2, <2>6, MatchEffect DEF Moves, Parsing
      <3>2. PICK word \in Profiles[profile].words : source' = Append(source, word)
        BY <1>2, <2>6, MatchEffect
      <3>3. Len(source) < Profiles[profile].budget
        BY <2>6 DEF Match
      <3>4. /\ source' \in Seq(Profiles[profile].words)
            /\ Len(source') <= Profiles[profile].budget
        <4> DEFINE b == Profiles[profile].budget
                   W == Profiles[profile].words
        <4>1. source \in Seq(W) /\ word \in W /\ Len(source) < b /\ b \in Nat
          BY <1>2, <2>0, <3>2, <3>3 DEF TypingInv, BooksOK
        <4> HIDE DEF b, W
        <4>2. Append(source, word) \in Seq(W) /\ Len(Append(source, word)) = Len(source) + 1
              /\ Len(source) \in Nat
          BY <4>1
        <4>3. Len(source) + 1 <= b
          BY <4>1, <4>2
        <4> QED BY <3>2, <4>2, <4>3 DEF b, W
      <3>5. UNCHANGED <<profile, repairs, tree>> /\ barred' = AnyLevel /\ closing' = FALSE
        BY <2>6 DEF Match
      <3>6. AnyLevel \in 0 .. AnyLevel
        BY DEF AnyLevel
      <3> QED BY <1>2, <3>1, <3>4, <3>5, <3>6 DEF TypingInv, BooksOK, Parsing
    <2>7. CASE ExitRule
      <3>1. Returned /\ StackOK(stack')
        BY <1>2, <2>7, Returning DEF ExitRule
      <3>2. tree' = NoTree <=> stack' # << >>
        BY <1>2, <2>7, <3>1, ReturnedTree DEF ExitRule
      <3>3. UNCHANGED <<profile, source, closing, repairs>>
        BY <2>7 DEF ExitRule
      <3>4. barred' = Top.level \/ barred' = barred
        BY <2>7 DEF ExitRule
      <3>5. Top.level \in 0 .. AnyLevel
        BY <1>2, <2>7, TopOK DEF TypingInv, FrameOK, ExitRule
      <3> QED BY <1>2, <3>1, <3>2, <3>3, <3>4, <3>5 DEF TypingInv, BooksOK, Parsing
    <2>8. CASE MissingToken
      <3>1. StackOK(stack') /\ stack' # << >> /\ stack # << >>
        BY <1>2, <2>8, MissingEffect DEF Moves, Parsing
      <3>2. repairs < Profiles[profile].repairs /\ repairs' = repairs + 1 /\ closing' = TRUE
        BY <2>8 DEF MissingToken, Repairable, RepairDone
      <3>3. UNCHANGED <<profile, source, barred, tree>>
        BY <2>8 DEF MissingToken, RepairDone
      <3>4. repairs' \in 0 .. Profiles[profile].repairs
        BY <1>2, <2>0, <3>2, OneMoreRepair DEF TypingInv, BooksOK
      <3> QED BY <1>2, <3>1, <3>2, <3>3, <3>4 DEF TypingInv, BooksOK, Parsing
    <2>9. CASE AbandonBlock
      <3>0. Parsing /\ Return(Context)
        BY <2>9 DEF AbandonBlock, Repairable
      <3>1. Returned /\ StackOK(stack')
        BY <1>2, <3>0, Returning
      <3>2. tree' = NoTree <=> stack' # << >>
        BY <1>2, <3>0, <3>1, ReturnedTree
      <3>3. repairs < Profiles[profile].repairs /\ repairs' = repairs + 1 /\ closing' = TRUE
        BY <2>9 DEF AbandonBlock, Repairable, RepairDone
      <3>4. UNCHANGED <<profile, source, barred>>
        BY <2>9 DEF AbandonBlock, RepairDone
      <3>5. repairs' \in 0 .. Profiles[profile].repairs
        BY <1>2, <2>0, <3>3, OneMoreRepair DEF TypingInv, BooksOK
      <3> QED BY <1>2, <3>1, <3>2, <3>3, <3>4, <3>5 DEF TypingInv, BooksOK, Parsing
    <2>10. CASE UNCHANGED parserVars
      BY <1>2, <2>10 DEF parserVars, TypingInv, BooksOK, Parsing
    <2> QED BY <1>2, <2>1, <2>2, <2>3, <2>4, <2>5, <2>6, <2>7, <2>8, <2>9, <2>10
        DEF ParserNext
  <1> QED BY <1>1, <1>2, PTL DEF ParserSpec

\* The invariant implies what is checked.
LEMMA TypingIsTypeOK == TypingInv => TypeOK
  <1> SUFFICES ASSUME TypingInv PROVE TypeOK
    OBVIOUS
  <1> DEFINE n == Len(stack)
  <1>1. n \in Nat /\ DOMAIN stack = 1 .. n
    BY Lengths DEF TypingInv, StackOK
  <1>2. /\ \A i \in 1 .. n : FrameOK(stack[i])
        /\ \A i \in 2 .. n : Awaits(stack[i], stack[i - 1])
    BY DEF TypingInv, StackOK
  <1> HIDE DEF n
  <1>3. \A i \in 1 .. n : i > 1 => i \in 2 .. n
    BY <1>1
  <1>4. \A i \in DOMAIN stack :
          /\ stack[i].rule \in Rules
          /\ stack[i].level \in 0 .. AnyLevel
          /\ i > 1 => /\ stack[i].todo # << >>
                      /\ Head(stack[i].todo).op = "rule"
                      /\ Head(stack[i].todo).rule = stack[i - 1].rule
                      /\ Head(stack[i].todo).level = stack[i - 1].level
    BY <1>1, <1>2, <1>3 DEF FrameOK, Awaits
  <1> QED BY <1>4 DEF TypingInv, BooksOK, TypeOK

\* The type invariant of the parser: every frame waits for the one above it by the call that
\* it made, and the counters keep their bounds.
THEOREM TypeCorrect == ParserSpec => []TypeOK
  BY Typing, TypingIsTypeOK, PTL

-----------------------------------------------------------------------------
(* Coverage *)

\* A child that starts where the others end keeps them without a gap.
LEMMA TilesAppended ==
  ASSUME NEW kids, IsSequence(kids), NEW first \in Int, NEW last \in Int,
         Tiles(kids, first, last), NEW child, NEW new,
         child.start = last + 1, child.stop = new
  PROVE  Tiles(Append(kids, child), first, new)
  <1> DEFINE n == Len(kids)
             more == Append(kids, child)
  <1>1. n \in Nat /\ DOMAIN kids = 1 .. n /\ (kids = << >> <=> n = 0)
    BY Lengths
  <1>2. /\ Len(more) = n + 1 /\ more[n + 1] = child
        /\ \A i \in 1 .. n : more[i] = kids[i]
        /\ more # << >>
    BY Appended
  <1>3. DOMAIN more = 1 .. Len(more)
    BY SequenceFacts, Lengths
  <1>4. IF kids = << >> THEN last = first - 1 ELSE kids[1].start = first
    BY DEF Tiles
  <1>5. \A j \in DOMAIN kids :
          kids[j].stop = IF j = Len(kids) THEN last ELSE kids[j + 1].start - 1
    BY DEF Tiles
  <1> HIDE DEF n, more
  <1>6. \A j \in 1 .. n : kids[j].stop = IF j = n THEN last ELSE kids[j + 1].start - 1
    BY <1>1, <1>5 DEF n
  <1>7. more[1].start = first
    <2>1. CASE n = 0
      BY <2>1, <1>1, <1>2, <1>4
    <2>2. CASE n # 0
      <3>1. 1 \in 1 .. n
        BY <1>1, <2>2
      <3> QED BY <3>1, <2>2, <1>1, <1>2, <1>4
    <2> QED BY <2>1, <2>2
  <1>8. ASSUME NEW j \in 1 .. n + 1
        PROVE  more[j].stop = IF j = n + 1 THEN new ELSE more[j + 1].start - 1
    <2>1. CASE j = n + 1
      BY <2>1, <1>2
    <2>2. CASE j = n
      <3>1. j \in 1 .. n /\ j # n + 1
        BY <1>1, <2>2
      <3>2. more[j].stop = last
        BY <3>1, <2>2, <1>2, <1>6
      <3>3. more[j + 1].start - 1 = last
        <4>1. more[j + 1] = child
          BY <2>2, <1>2
        <4>2. (last + 1) - 1 = last
          OBVIOUS
        <4> QED BY <4>1, <4>2
      <3> QED BY <3>1, <3>2, <3>3
    <2>3. CASE j # n /\ j # n + 1
      <3>1. j \in 1 .. n /\ j + 1 \in 1 .. n
        BY <1>1, <2>3
      <3> QED BY <3>1, <2>3, <1>2, <1>6
    <2> QED BY <2>1, <2>2, <2>3
  <1>9. \A j \in DOMAIN more :
          more[j].stop = IF j = Len(more) THEN new ELSE more[j + 1].start - 1
    BY <1>2, <1>3, <1>8
  <1>10. Tiles(more, first, new)
    BY <1>2, <1>7, <1>9 DEF Tiles
  <1> QED BY <1>10 DEF more

\* A child alone.
LEMMA TilesAlone ==
  ASSUME NEW t PROVE Tiles(<<t>>, t.start, t.stop)
  <1> DEFINE p == <<t>>
  <1>1. Len(p) = 1 /\ p[1] = t /\ p # << >> /\ DOMAIN p = {1}
    OBVIOUS
  <1> HIDE DEF p
  <1>2. Tiles(p, t.start, t.stop)
    BY <1>1 DEF Tiles
  <1> QED BY <1>2 DEF p

\* No children yet.
LEMMA TilesNone == ASSUME NEW first PROVE Tiles(<< >>, first, first - 1)
  BY DEF Tiles

\* Covers, for a source s.
CoversIn(s, t) ==
  IF IsToken(t)
  THEN \/ t.start \in DOMAIN s /\ t = Token(s[t.start], t.start)
       \/ t = Missing(t.start)
  ELSE Tiles(t.kids, t.start, t.stop)

\* So do all children.
AllCover(s, kids) == \A j \in DOMAIN kids : CoversIn(s, kids[j])

\* A tree that covers its words still does when a word is added.
LEMMA CoversGrown ==
  ASSUME NEW s, IsSequence(s), NEW w, NEW t, CoversIn(s, t) PROVE CoversIn(Append(s, w), t)
  <1> DEFINE n == Len(s)
             u == Append(s, w)
  <1>1. n \in Nat /\ DOMAIN s = 1 .. n
    BY Lengths
  <1>2. Len(u) = n + 1 /\ DOMAIN u = 1 .. Len(u) /\ \A i \in 1 .. n : u[i] = s[i]
    BY Appended, SequenceFacts, Lengths
  <1> HIDE DEF n, u
  <1>3. \A i \in DOMAIN s : i \in DOMAIN u /\ u[i] = s[i]
    BY <1>1, <1>2
  <1>4. CoversIn(u, t)
    BY <1>3 DEF CoversIn
  <1> QED BY <1>4 DEF u

\* So do children.
LEMMA AllCoverGrown ==
  ASSUME NEW s, IsSequence(s), NEW w, NEW kids, AllCover(s, kids)
  PROVE  AllCover(Append(s, w), kids)
  BY CoversGrown DEF AllCover

\* So do they with one more.
LEMMA AllCoverAppended ==
  ASSUME NEW s, NEW kids, IsSequence(kids), AllCover(s, kids), NEW t, CoversIn(s, t)
  PROVE  AllCover(s, Append(kids, t))
  <1> DEFINE n == Len(kids)
             u == Append(kids, t)
  <1>1. n \in Nat /\ DOMAIN kids = 1 .. n
    BY Lengths
  <1>2. /\ Len(u) = n + 1 /\ DOMAIN u = 1 .. Len(u) /\ \A i \in 1 .. n : u[i] = kids[i]
        /\ u[n + 1] = t
    BY Appended, SequenceFacts, Lengths
  <1> HIDE DEF n, u
  <1>3. \A i \in DOMAIN u : i = n + 1 \/ i \in 1 .. n
    BY <1>1, <1>2
  <1>4. AllCover(s, u)
    BY <1>1, <1>2, <1>3 DEF AllCover
  <1> QED BY <1>4 DEF u

\* The children of f reach from where it starts up to last.
SpanOK(f, last, s) ==
  /\ f.start \in Int
  /\ Tiles(f.kids, f.start, last)
  /\ AllCover(s, f.kids)

\* Where the children of the i-th rule method of st end, when s has been read.
EndOf(st, s, i) == IF i = 1 THEN Len(s) ELSE st[i - 1].start - 1

\* The innermost children end with the source.
LEMMA EndOfTop == \A st, s : EndOf(st, s, 1) = Len(s)
  BY DEF EndOf

\* So do the children of every rule method under way.
SpansOK(st, s) == \A i \in 1 .. Len(st) : SpanOK(st[i], EndOf(st, s, i), s)

\* The end of file is the last step of p; the last word of s.
EndsInEOF(p) == IsSequence(p) /\ p # << >> /\ p[Len(p)] = MatchItem(EOF)
ReadToEnd(s) == s # << >> /\ s[Len(s)] = EOF

\* crate() is at the bottom, and has its end of file before it unless it has just read it.
BottomOK(st, s) ==
  st # << >> =>
    /\ st[Len(st)].start = 1 /\ st[Len(st)].rule = "crate"
    /\ \/ EndsInEOF(st[Len(st)].todo)
       \/ Len(st) = 1 /\ st[1].todo = << >> /\ ReadToEnd(s)

\* The spans of the stack when the innermost rule method goes on.
LEMMA SpanMoved ==
  ASSUME NEW st, IsSequence(st), st # << >>, NEW s, SpansOK(st, s),
         NEW u, NEW kids, NEW todo, Moves(st, u, kids, todo),
         NEW v, SpanOK(u[1], Len(v), v), \A t \in {s} : \A ks : AllCover(t, ks) => AllCover(v,
             ks)
  PROVE  SpansOK(u, v)
  <1> DEFINE n == Len(st)
  <1>1. n \in Nat /\ n # 0
    BY Lengths
  <1>2. /\ Len(u) = n /\ u[1].start = st[1].start
        /\ \A i \in 2 .. n : u[i] = st[i]
    BY DEF Moves, Moved
  <1>3. \A i \in 1 .. n : SpanOK(st[i], EndOf(st, s, i), s)
    BY DEF SpansOK
  <1> HIDE DEF n
  <1>4. ASSUME NEW i \in 1 .. n PROVE SpanOK(u[i], EndOf(u, v, i), v)
    <2>1. CASE i = 1
      BY <2>1 DEF EndOf
    <2>2. CASE i # 1
      <3>1. i \in 2 .. n /\ (i = 2 \/ i - 1 \in 2 .. n) /\ (i = 2 => i - 1 = 1)
        BY <1>1, <2>2
      <3>2. u[i] = st[i] /\ u[i - 1].start = st[i - 1].start
        BY <1>2, <3>1
      <3>3. EndOf(u, v, i) = EndOf(st, s, i)
        BY <2>2, <3>2 DEF EndOf
      <3>4. SpanOK(st[i], EndOf(st, s, i), s)
        BY <1>3
      <3> QED BY <3>2, <3>3, <3>4 DEF SpanOK
    <2> QED BY <2>1, <2>2
  <1> QED BY <1>2, <1>4 DEF SpansOK

\* The frame of crate() when the innermost rule method goes on.
LEMMA BottomMoved ==
  ASSUME NEW st, IsSequence(st), st # << >>, NEW s, BottomOK(st, s),
         NEW u, NEW kids, NEW todo, Moves(st, u, kids, todo),
         NEW v,
         EndsInEOF(st[1].todo) =>
           EndsInEOF(todo) \/ (todo = << >> /\ ReadToEnd(v)),
         Len(st) = 1 => EndsInEOF(st[1].todo)
  PROVE  BottomOK(u, v)
  <1> DEFINE n == Len(st)
  <1>1. n \in Nat /\ n # 0
    BY Lengths
  <1>2. /\ Len(u) = n /\ u[1].start = st[1].start /\ u[1].rule = st[1].rule
        /\ u[1].todo = todo
        /\ \A i \in 2 .. n : u[i] = st[i]
    BY DEF Moves, Moved
  <1>3. /\ st[n].start = 1 /\ st[n].rule = "crate"
        /\ EndsInEOF(st[n].todo) \/ n = 1
    BY DEF BottomOK
  <1> HIDE DEF n
  <1>4. CASE n = 1
    <2>1. EndsInEOF(st[1].todo)
      BY <1>4 DEF n
    <2> QED BY <2>1, <1>2, <1>3, <1>4 DEF BottomOK
  <1>5. CASE n # 1
    <2>1. u[n] = st[n]
      BY <1>1, <1>2, <1>5
    <2> QED BY <2>1, <1>2, <1>3, <1>5 DEF BottomOK
  <1> QED BY <1>4, <1>5

\* The spans of the stack when a rule method is entered.
LEMMA SpanEntered ==
  ASSUME NEW st, IsSequence(st), st # << >>, NEW s, IsSequence(s), SpansOK(st, s), BottomOK(st,
      s),
         st[1].todo # << >>,
         NEW f, f.start = Len(s) + 1, f.kids = << >>, NEW u, Enters(st, u, f)
  PROVE  SpansOK(u, s) /\ BottomOK(u, s)
  <1> DEFINE n == Len(st)
             m == Len(s)
  <1>1. n \in Nat /\ n # 0 /\ m \in Nat
    BY Lengths
  <1>2. /\ Len(u) = n + 1 /\ u[1] = f /\ \A i \in 1 .. n : u[i + 1] = st[i]
    BY DEF Enters
  <1>3. \A i \in 1 .. n : SpanOK(st[i], EndOf(st, s, i), s)
    BY DEF SpansOK
  <1>4. f.start = m + 1
    OBVIOUS
  <1>5. EndOf(u, s, 1) = m /\ EndOf(st, s, 1) = m
    BY EndOfTop
  <1>6. st[n].start = 1 /\ st[n].rule = "crate" /\ EndsInEOF(st[n].todo)
    BY DEF BottomOK
  <1> HIDE DEF n, m
  <1>7. f.start - 1 = m /\ f.start \in Int
    BY <1>1, <1>4
  <1>8. SpanOK(u[1], EndOf(u, s, 1), s)
    <2>1. Tiles(f.kids, f.start, m)
      BY <1>7, TilesNone
    <2>2. AllCover(s, f.kids)
      BY DEF AllCover
    <2> QED BY <1>2, <1>5, <1>7, <2>1, <2>2 DEF SpanOK
  <1>9. ASSUME NEW i \in 2 .. n + 1 PROVE SpanOK(u[i], EndOf(u, s, i), s)
    <2>1. i - 1 \in 1 .. n /\ (i - 1) + 1 = i /\ i # 1
      BY <1>1
    <2>2. u[i] = st[i - 1]
      BY <1>2, <2>1
    <2>3. EndOf(u, s, i) = EndOf(st, s, i - 1)
      <3>1. CASE i = 2
        BY <3>1, <1>2, <1>5, <1>7 DEF EndOf
      <3>2. CASE i # 2
        <4>1. (i - 1) - 1 \in 1 .. n /\ ((i - 1) - 1) + 1 = i - 1 /\ i - 1 # 1
          BY <1>1, <3>2
        <4>2. u[i - 1] = st[(i - 1) - 1]
          BY <1>2, <4>1
        <4> QED BY <2>1, <4>1, <4>2 DEF EndOf
      <3> QED BY <3>1, <3>2
    <2> QED BY <1>3, <2>1, <2>2, <2>3
  <1>10. \A i \in 1 .. n + 1 : SpanOK(u[i], EndOf(u, s, i), s)
    <2> TAKE i \in 1 .. n + 1
    <2>1. i = 1 \/ i \in 2 .. n + 1
      BY <1>1
    <2> QED BY <1>8, <1>9, <2>1
  <1>11. u[n + 1] = st[n]
    BY <1>1, <1>2
  <1> QED BY <1>2, <1>6, <1>10, <1>11 DEF SpansOK, BottomOK

\* The end of file stays ahead when something else is done.
LEMMA EOFBehind ==
  ASSUME NEW p, EndsInEOF(p), Head(p).op # "match"
  PROVE  EndsInEOF(Tail(p))
  <1> DEFINE n == Len(p)
             q == Tail(p)
  <1>1. IsSequence(p) /\ p # << >> /\ p[n] = MatchItem(EOF)
    BY DEF EndsInEOF
  <1>2. n \in Nat /\ n # 0
    BY <1>1, Lengths
  <1>3. /\ Len(q) = n - 1 /\ Head(p) = p[1]
        /\ \A i \in 1 .. n - 1 : q[i] = p[i + 1]
        /\ IsSequence(q)
    BY <1>1, Tailed, SequenceFacts
  <1>4. MatchItem(EOF).op = "match"
    BY DEF MatchItem
  <1> HIDE DEF n, q
  <1>5. n # 1
    BY <1>1, <1>3, <1>4
  <1>6. n - 1 \in 1 .. n - 1 /\ (n - 1) + 1 = n /\ n - 1 # 0
    BY <1>2, <1>5
  <1>7. q[Len(q)] = MatchItem(EOF) /\ q # << >>
    BY <1>1, <1>3, <1>6, Lengths
  <1>8. EndsInEOF(q)
    BY <1>3, <1>7 DEF EndsInEOF
  <1> QED BY <1>8 DEF q

\* The end of file stays ahead of what is put before it.
LEMMA EOFAfter ==
  ASSUME NEW p, IsSequence(p), NEW q, EndsInEOF(q) PROVE EndsInEOF(p \o q)
  <1> DEFINE r == p \o q
             n == Len(p)
             m == Len(q)
  <1>1. IsSequence(q) /\ q # << >> /\ q[m] = MatchItem(EOF)
    BY DEF EndsInEOF
  <1>2. n \in Nat /\ m \in Nat /\ m # 0
    BY <1>1, Lengths
  <1>3. Len(r) = n + m /\ (\A i \in 1 .. m : r[n + i] = q[i]) /\ IsSequence(r)
    BY <1>1, Joined, SequenceFacts
  <1> HIDE DEF r, n, m
  <1>4. m \in 1 .. m /\ n + m # 0
    BY <1>2
  <1>5. r[Len(r)] = MatchItem(EOF) /\ r # << >>
    BY <1>1, <1>3, <1>4, Lengths
  <1>6. EndsInEOF(r)
    BY <1>3, <1>5 DEF EndsInEOF
  <1> QED BY <1>6 DEF r

\* The end of file stays ahead, or it is what has been matched.
LEMMA EOFMatched ==
  ASSUME NEW p, EndsInEOF(p)
      PROVE EndsInEOF(Tail(p)) \/ (Tail(p) = << >> /\ Head(p) = MatchItem(EOF))
  <1> DEFINE n == Len(p)
             q == Tail(p)
  <1>1. IsSequence(p) /\ p # << >> /\ p[n] = MatchItem(EOF)
    BY DEF EndsInEOF
  <1>2. n \in Nat /\ n # 0
    BY <1>1, Lengths
  <1>3. /\ Len(q) = n - 1 /\ Head(p) = p[1]
        /\ \A i \in 1 .. n - 1 : q[i] = p[i + 1]
        /\ IsSequence(q)
    BY <1>1, Tailed, SequenceFacts
  <1> HIDE DEF n, q
  <1>4. CASE n = 1
    <2>1. Len(q) = 0
      BY <1>3, <1>4
    <2>2. q = << >>
      BY <1>3, <2>1, Lengths
    <2> QED BY <1>1, <1>3, <1>4, <2>2 DEF q
  <1>5. CASE n # 1
    <2>1. n - 1 \in 1 .. n - 1 /\ (n - 1) + 1 = n /\ n - 1 # 0
      BY <1>2, <1>5
    <2>2. q[Len(q)] = MatchItem(EOF) /\ q # << >>
      BY <1>1, <1>3, <2>1, Lengths
    <2>3. EndsInEOF(q)
      BY <1>3, <2>2 DEF EndsInEOF
    <2> QED BY <2>3 DEF q
  <1> QED BY <1>4, <1>5

\* The spans of the stack when a rule method returns.
LEMMA SpanReturned ==
  ASSUME NEW st, IsSequence(st), Len(st) # 1, st # << >>, NEW s, IsSequence(s),
         SpansOK(st, s), BottomOK(st, s),
         NEW u, NEW node, Returns(st, u, node), IsSequence(st[2].kids),
         st[2].todo # << >>, Head(st[2].todo).op # "match",
         node.start = st[1].start, node.stop = Len(s), CoversIn(s, node)
  PROVE  SpansOK(u, s) /\ BottomOK(u, s)
  <1> DEFINE n == Len(st)
             m == Len(s)
  <1>1. n \in Nat /\ n # 0 /\ n # 1 /\ m \in Nat
    BY Lengths
  <1>2. /\ Len(u) = n - 1
        /\ u[1].start = st[2].start /\ u[1].rule = st[2].rule
        /\ u[1].kids = Append(st[2].kids, node) /\ u[1].todo = Tail(st[2].todo)
        /\ \A i \in 2 .. n - 1 : u[i] = st[i + 1]
    BY DEF Returns, Moved
  <1>3. \A i \in 1 .. n : SpanOK(st[i], EndOf(st, s, i), s)
    BY DEF SpansOK
  <1>4. EndOf(u, s, 1) = m
    BY Zenon DEF EndOf
  <1>5. EndOf(st, s, 2) = st[1].start - 1
    BY DEF EndOf
  <1>6. st[n].start = 1 /\ st[n].rule = "crate" /\ EndsInEOF(st[n].todo)
    BY DEF BottomOK
  <1>7. node.start = st[1].start /\ node.stop = m
    OBVIOUS
  <1> HIDE DEF n, m
  <1>8. SpanOK(u[1], EndOf(u, s, 1), s)
    <2>1. 1 \in 1 .. n /\ 2 \in 1 .. n
      BY <1>1
    <2>2. /\ st[1].start \in Int /\ st[2].start \in Int
          /\ Tiles(st[2].kids, st[2].start, st[1].start - 1)
          /\ AllCover(s, st[2].kids)
      BY <1>3, <1>5, <2>1 DEF SpanOK
    <2>3. st[1].start - 1 \in Int /\ node.start = (st[1].start - 1) + 1
      BY <2>2, <1>7
    <2>4. Tiles(Append(st[2].kids, node), st[2].start, m)
      BY <2>2, <2>3, <1>7, TilesAppended
    <2>5. AllCover(s, Append(st[2].kids, node))
      BY <2>2, AllCoverAppended
    <2> QED BY <1>2, <1>4, <2>2, <2>4, <2>5 DEF SpanOK
  <1>9. ASSUME NEW i \in 2 .. n - 1 PROVE SpanOK(u[i], EndOf(u, s, i), s)
    <2>1. i + 1 \in 1 .. n /\ (i + 1) - 1 = i /\ i # 1 /\ i + 1 # 1
      BY <1>1
    <2>2. u[i] = st[i + 1]
      BY <1>2
    <2>3. u[i - 1].start = st[i].start
      <3>1. CASE i = 2
        <4>1. i - 1 = 1
          BY <3>1
        <4> QED BY <3>1, <4>1, <1>2
      <3>2. CASE i # 2
        <4>1. i - 1 \in 2 .. n - 1 /\ (i - 1) + 1 = i
          BY <1>1, <3>2
        <4>2. u[i - 1] = st[i]
          BY <1>2, <4>1
        <4> QED BY <4>2
      <3> QED BY <3>1, <3>2
    <2>4. EndOf(u, s, i) = EndOf(st, s, i + 1)
      BY <2>1, <2>3 DEF EndOf
    <2> QED BY <1>3, <2>1, <2>2, <2>4
  <1>10. \A i \in 1 .. n - 1 : SpanOK(u[i], EndOf(u, s, i), s)
    <2> TAKE i \in 1 .. n - 1
    <2>1. i = 1 \/ i \in 2 .. n - 1
      BY <1>1
    <2> QED BY <1>8, <1>9, <2>1
  <1>11. BottomOK(u, s)
    <2>1. CASE n = 2
      <3>1. Len(u) = 1
        BY <1>2, <2>1
      <3>2. EndsInEOF(Tail(st[2].todo))
        BY <1>6, <2>1, EOFBehind
      <3> QED BY <1>2, <1>6, <2>1, <3>1, <3>2 DEF BottomOK
    <2>2. CASE n # 2
      <3>1. n - 1 \in 2 .. n - 1 /\ (n - 1) + 1 = n
        BY <1>1, <2>2
      <3>2. u[n - 1] = st[n]
        BY <1>2, <3>1
      <3> QED BY <1>2, <1>6, <3>2 DEF BottomOK
    <2> QED BY <2>1, <2>2
  <1> QED BY <1>2, <1>10, <1>11 DEF SpansOK

\* What crate() has returned.
DoneOK(t, s) ==
  /\ CoversIn(s, t)
  /\ t.rule = "crate" /\ t.start = 1 /\ t.stop = Len(s)
  /\ ReadToEnd(s)

\* The inductive invariant of coverage.
CoverInv ==
  /\ SpansOK(stack, source)
  /\ BottomOK(stack, source)
  /\ ~Parsing => DoneOK(tree, source)

\* The innermost frame and its context.
LEMMA TopSpan ==
  ASSUME TypingInv, CoverInv, Parsing
  PROVE  /\ Top.start \in Int
         /\ Tiles(Top.kids, Top.start, Len(source))
         /\ AllCover(source, Top.kids)
         /\ IsSequence(source) /\ Len(source) \in Nat
         /\ Context.start = Top.start /\ Context.stop = Len(source)
         /\ Context.rule = Top.rule
         /\ CoversIn(source, Context)
         /\ Top.todo # << >> => (Len(stack) = 1 => EndsInEOF(Top.todo))
  <1>1. Len(stack) \in Nat /\ Len(stack) >= 1 /\ FrameOK(Top)
    BY TopOK DEF TypingInv
  <1>2. 1 \in 1 .. Len(stack)
    <2> DEFINE n == Len(stack)
    <2>1. n \in Nat /\ n >= 1
      BY <1>1
    <2> HIDE DEF n
    <2>2. 1 \in 1 .. n
      BY <2>1
    <2> QED BY <2>2 DEF n
  <1>3. SpanOK(Top, EndOf(stack, source, 1), source)
    BY <1>2 DEF CoverInv, SpansOK, Top
  <1>4. EndOf(stack, source, 1) = Len(source)
    BY Zenon DEF EndOf
  <1>5. IsSequence(source)
    BY DEF TypingInv, BooksOK, IsSequence
  <1>6. /\ Context.start = Top.start /\ Context.stop = Len(source)
        /\ Context.rule = Top.rule /\ Context.kids = Top.kids
    BY DEF Context, Node
  <1>7. Context.rule # "<token>"
    BY <1>1, <1>6, RuleNames DEF FrameOK
  <1>8. Tiles(Top.kids, Top.start, Len(source))
    BY <1>3, <1>4 DEF SpanOK
  <1>9. CoversIn(source, Context)
    BY <1>6, <1>7, <1>8 DEF CoversIn, IsToken
  <1>10. Top.todo # << >> => (Len(stack) = 1 => EndsInEOF(Top.todo))
    BY DEF CoverInv, BottomOK, Parsing, Top
  <1> QED BY <1>3, <1>5, <1>6, <1>8, <1>9, <1>10, Lengths DEF SpanOK

\* Only the end of file stands for the end of file.
LEMMA WordsAreTokens == \A w : TokenType(w) = EOF => w = EOF
  <1>1. \A entry \in Lexicon : entry[2].type \in LexemeTypes
    BY LexiconTypes
  <1>2. \A w \in DOMAIN Lexeme : Lexeme[w].type \in LexemeTypes
    BY <1>1 DEF Lexeme
  <1>3. EOF \notin LexemeTypes
    BY DEF LexemeTypes, EOF
  <1> QED BY <1>2, <1>3 DEF TokenType

\* A step that reads nothing keeps the coverage.
LEMMA KeptByMove ==
  ASSUME TypingInv, CoverInv, Parsing, Top.todo # << >>,
         NEW kids, NEW todo, Moves(stack, stack', kids, todo), UNCHANGED source,
         Tiles(kids, Top.start, Len(source)), AllCover(source, kids),
         EndsInEOF(Top.todo) => EndsInEOF(todo)
  PROVE  CoverInv'
  <1>1. IsSequence(stack) /\ stack # << >>
    BY TopOK DEF TypingInv
  <1>2. stack'[1].start = Top.start /\ stack'[1].kids = kids /\ stack' # << >>
    BY DEF Moves, Moved, Top
  <1>3. SpanOK(stack'[1], Len(source), source)
    BY <1>2, TopSpan DEF SpanOK
  <1>4. SpansOK(stack', source)
    BY <1>1, <1>3, SpanMoved DEF CoverInv
  <1>5. Len(stack) = 1 => EndsInEOF(Top.todo)
    BY TopSpan
  <1>6. BottomOK(stack', source)
    BY <1>1, <1>5, BottomMoved DEF CoverInv, Top
  <1> QED BY <1>2, <1>4, <1>6 DEF CoverInv, Parsing

\* The return of a rule method keeps the coverage.
LEMMA KeptByReturn ==
  ASSUME TypingInv, CoverInv, Parsing, Returned, UNCHANGED source,
         Top.todo = << >> \/ Top.rule # "crate"
  PROVE  CoverInv'
  <1>1. IsSequence(stack) /\ stack # << >>
    BY TopOK DEF TypingInv
  <1>2. /\ IsSequence(source)
        /\ Context.start = Top.start /\ Context.stop = Len(source)
        /\ Context.rule = Top.rule
        /\ CoversIn(source, Context)
    BY TopSpan
  <1>3. CASE Len(stack) = 1 /\ stack' = << >> /\ tree' = Context
    <2>1. /\ Top.start = 1 /\ Top.rule = "crate"
          /\ EndsInEOF(Top.todo) \/ ReadToEnd(source)
      BY <1>1, <1>3 DEF CoverInv, BottomOK, Top
    <2>2. ReadToEnd(source)
      BY <2>1 DEF EndsInEOF
    <2>3. DoneOK(tree', source)
      BY <1>2, <1>3, <2>1, <2>2 DEF DoneOK
    <2>4. SpansOK(stack', source) /\ BottomOK(stack', source)
      BY <1>3 DEF SpansOK, BottomOK
    <2> QED BY <2>3, <2>4 DEF CoverInv
  <1>4. CASE /\ Len(stack) # 1
             /\ FrameOK(stack[2]) /\ Awaits(stack[2], Top)
             /\ Returns(stack, stack', Context)
    <2>1. /\ IsSequence(stack[2].kids) /\ stack[2].todo # << >>
          /\ Head(stack[2].todo).op # "match"
      BY <1>4 DEF FrameOK, Awaits
    <2>2. SpansOK(stack', source) /\ BottomOK(stack', source)
      <3>1. Context.start = stack[1].start
        BY <1>2 DEF Top
      <3> HIDE DEF Context
      <3> QED BY <1>1, <1>2, <1>4, <2>1, <3>1, SpanReturned DEF CoverInv
    <2>3. stack' # << >>
      BY <1>4 DEF Returns
    <2> QED BY <2>2, <2>3 DEF CoverInv, Parsing
  <1> QED BY <1>3, <1>4 DEF Returned

\* A token that has just been read covers its word.
LEMMA TokensCover ==
  ASSUME NEW s, IsSequence(s), NEW w
  PROVE  CoversIn(Append(s, w), Token(w, Len(s) + 1))
  <1> DEFINE n == Len(s) + 1
             u == Append(s, w)
             t == Token(w, n)
  <1>1. u[n] = w /\ n \in DOMAIN u
    <2>1. Len(s) \in Nat
      BY Lengths
    <2>2. Len(u) = n /\ u[n] = w /\ DOMAIN u = 1 .. Len(u)
      BY Appended, SequenceFacts, Lengths
    <2>3. n \in 1 .. n
      <3> DEFINE m == Len(s)
      <3> HIDE DEF m
      <3>1. m \in Nat => m + 1 \in 1 .. m + 1
        OBVIOUS
      <3> QED BY <2>1, <3>1 DEF m
    <2> QED BY <2>2, <2>3
  <1>2. t.rule = "<token>" /\ t.start = n
    BY DEF Token
  <1>3. t = Token(u[n], n)
    BY <1>1
  <1> HIDE DEF n, u, t
  <1>4. CoversIn(u, t)
    BY <1>1, <1>2, <1>3 DEF CoversIn, IsToken
  <1> QED BY <1>4 DEF n, u, t

\* A conjured token covers no word.
LEMMA MissingCovers ==
  ASSUME NEW s, NEW at
  PROVE  CoversIn(s, Missing(at)) /\ Missing(at).start = at /\ Missing(at).stop = at - 1
  <1>1. /\ Missing(at).start = at /\ Missing(at).stop = at - 1
        /\ Missing(at).rule = "<token>"
    BY DEF Missing, Token
  <1> QED BY <1>1 DEF CoversIn, IsToken

\* A match keeps the coverage.
LEMMA KeptByMatch ==
  ASSUME TypingInv, CoverInv, Match PROVE CoverInv'
  <1>1. /\ Parsing /\ Top.todo # << >> /\ Next1.op \in {"match", "set"}
        /\ IsSequence(stack) /\ stack # << >> /\ FrameOK(Top)
    BY MatchEffect, TopOK DEF TypingInv
  <1>2. PICK word :
          /\ TokenType(word) \in Next1.types
          /\ source' = Append(source, word)
          /\ Moves(stack, stack', Append(Top.kids, Token(word, Here)), Rest)
    BY MatchEffect
  <1> DEFINE child == Token(word, Here)
  <1>3. /\ Top.start \in Int /\ Tiles(Top.kids, Top.start, Len(source))
        /\ AllCover(source, Top.kids)
        /\ IsSequence(source) /\ Len(source) \in Nat
    BY <1>1, TopSpan
  <1>4. child.start = Here /\ child.stop = Here /\ CoversIn(source', child)
    <2>1. CoversIn(Append(source, word), Token(word, Len(source) + 1))
      BY <1>3, TokensCover
    <2> QED BY <1>2, <2>1 DEF Token, Here
  <1>5. /\ stack'[1].start = Top.start /\ stack'[1].kids = Append(Top.kids, child)
        /\ stack' # << >>
    BY <1>2 DEF Moves, Moved, Top
  <1>6. /\ Len(source') = Here /\ IsSequence(source') /\ source' # << >>
        /\ source'[Len(source')] = word
    BY <1>2, <1>3, Appended, SequenceFacts DEF Here
  <1> HIDE DEF child
  <1>7. SpanOK(stack'[1], Len(source'), source')
    <2>1. IsSequence(Top.kids)
      BY <1>1 DEF FrameOK
    <2>2. child.start = Len(source) + 1 /\ Len(source) \in Int
      BY <1>3, <1>4 DEF Here
    <2>3. Tiles(Append(Top.kids, child), Top.start, Here)
      BY <1>3, <1>4, <2>1, <2>2, TilesAppended
    <2>4. AllCover(source', Append(Top.kids, child))
      BY <1>2, <1>3, <1>4, <2>1, AllCoverGrown, AllCoverAppended
    <2> QED BY <1>3, <1>5, <1>6, <2>3, <2>4 DEF SpanOK
  <1>8. SpansOK(stack', source')
    <2>1. \A t \in {source} : \A ks : AllCover(t, ks) => AllCover(source', ks)
      BY <1>2, <1>3, AllCoverGrown
    <2>2. SpansOK(stack, source)
      BY DEF CoverInv
    <2>3. \E ks, todo : Moves(stack, stack', ks, todo)
      BY <1>2
    <2> QED BY <1>1, <1>7, <2>1, <2>2, <2>3, SpanMoved
  <1>9. EndsInEOF(Top.todo) => EndsInEOF(Rest) \/ (Rest = << >> /\ ReadToEnd(source'))
    <2> SUFFICES ASSUME EndsInEOF(Top.todo), ~EndsInEOF(Rest)
                 PROVE  Rest = << >> /\ ReadToEnd(source')
      OBVIOUS
    <2>1. Rest = << >> /\ Next1 = MatchItem(EOF)
      BY EOFMatched DEF Rest, Next1
    <2>2. MatchItem(EOF).types = {EOF}
      BY DEF MatchItem
    <2>3. word = EOF
      BY <1>2, <2>1, <2>2, WordsAreTokens
    <2> QED BY <1>6, <2>1, <2>3 DEF ReadToEnd
  <1>10. Len(stack) = 1 => EndsInEOF(Top.todo)
    BY <1>1, TopSpan
  <1>11. BottomOK(stack', source')
    BY <1>1, <1>2, <1>9, <1>10, BottomMoved DEF CoverInv, Top
  <1> QED BY <1>5, <1>8, <1>11 DEF CoverInv, Parsing

\* crate() ends with the end of file.
LEMMA CrateProduction == EndsInEOF(Production["crate"])
  <1> DEFINE p == Star(R("innerAttribute")) \o Star(R("item"))
             q == T("<EOF>")
  <1>1. Production["crate"] = crate
    BY DEF Production
  <1>2. crate = p \o q
    BY Zenon DEF crate, &
  <1>3. IsSequence(p)
    <2>1. \A b : IsSequence(Star(b))
      BY SequenceFacts, Zenon DEF Star
    <2> QED BY <2>1, SequenceFacts, Zenon
  <1>4. EndsInEOF(q)
    <2> DEFINE t == MatchItem(EOF)
    <2>1. q = <<t>>
      BY Zenon DEF T, MatchItem, EOF
    <2> HIDE DEF q, t
    <2>2. Len(<<t>>) = 1 /\ <<t>>[1] = t /\ <<t>> # << >> /\ IsSequence(<<t>>)
      BY SequenceFacts
    <2> QED BY <2>1, <2>2 DEF EndsInEOF, t
  <1> HIDE DEF p, q
  <1> QED BY <1>1, <1>2, <1>3, <1>4, EOFAfter

\* In every behaviour of the parser the children of the rule methods under way cover the
\* words read, and crate() has its end of file before it.
THEOREM Coverage == ParserSpec => []CoverInv
  <1>1. ASSUME ParserInit PROVE CoverInv
    <2> DEFINE f == Frame("crate", 0, 1, 0)
    <2>1. /\ f.rule = "crate" /\ f.start = 1 /\ f.kids = << >>
          /\ f.todo = Production["crate"]
      BY DEF Frame
    <2>2. stack = <<f>> /\ source = << >>
      BY <1>1 DEF ParserInit
    <2> HIDE DEF f
    <2>3. Len(<<f>>) = 1 /\ <<f>>[1] = f /\ <<f>> # << >>
      OBVIOUS
    <2>4. BottomOK(stack, source)
      BY <2>1, <2>2, <2>3, CrateProduction DEF BottomOK
    <2>5. SpanOK(f, 0, << >>)
      <3>1. Tiles(<< >>, 1, 1 - 1) /\ 1 - 1 = 0
        BY TilesNone
      <3>2. AllCover(<< >>, << >>)
        BY DEF AllCover
      <3> QED BY <2>1, <3>1, <3>2 DEF SpanOK
    <2>6. EndOf(stack, source, 1) = 0
      <3>1. EndOf(stack, source, 1) = Len(source)
        BY EndOfTop
      <3> QED BY <2>2, <3>1
    <2>7. SpansOK(stack, source)
      BY <2>2, <2>3, <2>5, <2>6 DEF SpansOK
    <2>8. Parsing
      BY <2>2, <2>3 DEF Parsing
    <2> QED BY <2>4, <2>7, <2>8 DEF CoverInv
  <1>2. ASSUME TypingInv, CoverInv, [ParserNext]_parserVars PROVE CoverInv'
    <2>0. ASSUME Parsing
          PROVE  /\ Tiles(Top.kids, Top.start, Len(source)) /\ AllCover(source, Top.kids)
                 /\ WellFormed(Top.todo)
      BY <1>2, <2>0, TopSpan, TopOK DEF TypingInv, FrameOK
    <2>1. CASE EnterRule
      <3>1. Parsing /\ Top.todo # << >> /\ UNCHANGED source
        BY <2>1 DEF EnterRule, AboutTo
      <3>2. PICK owed : Enters(stack, stack', Frame(Next1.rule, Next1.level, Here, owed))
        BY <1>2, <2>1, EnterEffect
      <3> DEFINE f == Frame(Next1.rule, Next1.level, Here, owed)
      <3>3. f.start = Len(source) + 1 /\ f.kids = << >>
        BY DEF Frame, Here
      <3>4. IsSequence(stack) /\ stack # << >> /\ IsSequence(source)
        BY <1>2, <3>1, TopOK, TopSpan DEF TypingInv
      <3> HIDE DEF f
      <3>5. SpansOK(stack', source) /\ BottomOK(stack', source)
        BY <1>2, <3>1, <3>2, <3>3, <3>4, SpanEntered DEF CoverInv, f, Top
      <3>6. Parsing'
        BY <3>2 DEF Enters, Parsing
      <3> QED BY <3>1, <3>5, <3>6 DEF CoverInv
    <2>2. CASE Choose
      <3>1. /\ Parsing /\ Top.todo # << >> /\ Next1.op \in {"decision", "primary"}
            /\ UNCHANGED source
        BY <2>2 DEF Choose, AboutTo
      <3>2. PICK a : WellFormed(a) /\ Moves(stack, stack', Top.kids, a \o Rest)
        BY <1>2, <2>2, ChooseEffect
      <3>3. EndsInEOF(Top.todo) => EndsInEOF(a \o Rest)
        <4>1. IsSequence(a)
          BY <3>2, WellFormedIsSequence
        <4> QED BY <3>1, <4>1, EOFBehind, EOFAfter DEF Next1, Rest
      <3> QED BY <1>2, <2>0, <3>1, <3>2, <3>3, KeptByMove
    <2>3. CASE Iterate
      <3>1. /\ Parsing /\ Top.todo # << >> /\ WellFormed(Next1.body)
            /\ Moves(stack, stack', Top.kids, Next1.body \o Top.todo)
        BY <1>2, <2>3, IterateEffect
      <3>2. UNCHANGED source
        BY <2>3 DEF Iterate
      <3>3. EndsInEOF(Top.todo) => EndsInEOF(Next1.body \o Top.todo)
        BY <3>1, WellFormedIsSequence, EOFAfter
      <3> QED BY <1>2, <2>0, <3>1, <3>2, <3>3, KeptByMove
    <2>4. CASE LeaveLoop
      <3>1. /\ Parsing /\ Top.todo # << >> /\ Next1.op \in {"loop", "suffixes"}
            /\ Moves(stack, stack', Top.kids, Rest)
        BY <1>2, <2>4, LeaveEffect
      <3>2. UNCHANGED source
        BY <2>4 DEF LeaveLoop
      <3>3. EndsInEOF(Top.todo) => EndsInEOF(Rest)
        BY <3>1, EOFBehind DEF Next1, Rest
      <3> QED BY <1>2, <2>0, <3>1, <3>2, <3>3, KeptByMove
    <2>5. CASE Extend
      <3>1. Parsing /\ Top.todo # << >>
        BY <1>2, <2>5, ExtendEffect
      <3>2. PICK p : /\ WellFormed(p) /\ p # << >>
                     /\ Moves(stack, stack', <<Context>>, Tail(p) \o Top.todo)
        BY <1>2, <2>5, ExtendEffect
      <3>3. UNCHANGED source
        BY <2>5 DEF Extend
      <3>4. EndsInEOF(Top.todo) => EndsInEOF(Tail(p) \o Top.todo)
        <4>1. IsSequence(Tail(p))
          BY <3>2, HeadOf, WellFormedIsSequence
        <4> QED BY <4>1, EOFAfter
      <3>5. /\ Context.start = Top.start /\ Context.stop = Len(source)
            /\ CoversIn(source, Context)
        BY <1>2, <3>1, TopSpan
      <3> DEFINE c == Context
      <3> HIDE DEF c
      <3>6. Tiles(<<c>>, Top.start, Len(source))
        <4>1. Tiles(<<c>>, c.start, c.stop)
          BY TilesAlone
        <4>2. c.start = Top.start /\ c.stop = Len(source)
          BY <3>5 DEF c
        <4> QED BY <4>1, <4>2
      <3>7. AllCover(source, <<c>>)
        <4>1. CoversIn(source, c)
          BY <3>5 DEF c
        <4>2. DOMAIN <<c>> = {1} /\ <<c>>[1] = c
          OBVIOUS
        <4> QED BY <4>1, <4>2 DEF AllCover
      <3> QED BY <1>2, <3>1, <3>2, <3>3, <3>4, <3>6, <3>7, KeptByMove DEF c
    <2>6. CASE Match
      BY <1>2, <2>6, KeptByMatch
    <2>7. CASE ExitRule
      <3>1. Parsing /\ Top.todo = << >> /\ Return(Context) /\ UNCHANGED source
        BY <2>7 DEF ExitRule
      <3>2. Returned
        BY <1>2, <3>1, Returning
      <3> QED BY <1>2, <3>1, <3>2, KeptByReturn
    <2>8. CASE MissingToken
      <3>1. /\ Parsing /\ Moves(stack, stack', Append(Top.kids, Missing(Here)), << >>)
            /\ Top.rule \in {"letStatement", "blockExpression"}
        BY <1>2, <2>8, MissingEffect
      <3>2. UNCHANGED source
        BY <2>8 DEF MissingToken, RepairDone
      <3>3. Top.todo = T(";") \/ Top.todo = T("}")
        BY <2>8 DEF MissingToken
      <3>4. Top.todo # << >> /\ ~EndsInEOF(Top.todo)
        <4>1. \A w : Len(T(w)) = 1 /\ T(w)[1] = MatchItem(w) /\ T(w) # << >>
          <5> TAKE w
          <5> DEFINE t == MatchItem(w)
          <5>1. T(w) = <<t>>
            BY Zenon DEF T, MatchItem
          <5> HIDE DEF t
          <5>2. Len(<<t>>) = 1 /\ <<t>>[1] = t /\ <<t>> # << >>
            OBVIOUS
          <5> QED BY <5>1, <5>2 DEF t
        <4>2. \A w : MatchItem(w).types = {w}
          BY DEF MatchItem
        <4>3. MatchItem(";") # MatchItem(EOF) /\ MatchItem("}") # MatchItem(EOF)
          <5>1. {";"} # {EOF} /\ {"}"} # {EOF}
            BY DEF EOF
          <5> QED BY <4>2, <5>1
        <4> QED BY <3>3, <4>1, <4>3 DEF EndsInEOF
      <3> DEFINE m == Missing(Here)
      <3>5. m.start = Len(source) + 1 /\ CoversIn(source, m) /\ m.stop = Len(source)
        <4>1. Len(source) \in Nat
          BY <1>2, <3>1, TopSpan
        <4>2. Here = Len(source) + 1 /\ Here - 1 = Len(source)
          BY <4>1 DEF Here
        <4> QED BY <4>2, MissingCovers
      <3> HIDE DEF m
      <3>6. /\ IsSequence(Top.kids) /\ Top.start \in Int /\ Len(source) \in Int
        BY <1>2, <3>1, TopOK, TopSpan DEF TypingInv, FrameOK
      <3>7. Tiles(Append(Top.kids, m), Top.start, Len(source))
        BY <2>0, <3>1, <3>5, <3>6, TilesAppended
      <3>8. AllCover(source, Append(Top.kids, m))
        BY <2>0, <3>1, <3>5, <3>6, AllCoverAppended
      <3> QED BY <1>2, <3>1, <3>2, <3>4, <3>7, <3>8, KeptByMove DEF m
    <2>9. CASE AbandonBlock
      <3>1. Parsing /\ Top.rule = "blockExpression" /\ Return(Context) /\ UNCHANGED source
        BY <2>9 DEF AbandonBlock, Repairable, RepairDone
      <3>2. Returned
        BY <1>2, <3>1, Returning
      <3> QED BY <1>2, <3>1, <3>2, KeptByReturn
    <2>10. CASE UNCHANGED parserVars
      BY <1>2, <2>10 DEF parserVars, CoverInv, Parsing
    <2> QED BY <1>2, <2>1, <2>2, <2>3, <2>4, <2>5, <2>6, <2>7, <2>8, <2>9, <2>10
        DEF ParserNext
  <1> QED BY <1>1, <1>2, Typing, PTL DEF ParserSpec

\* The invariant implies what is checked.
LEMMA CoverageIsContextsCoverTheSource ==
  TypingInv /\ CoverInv => ContextsCoverTheSource
  <1> SUFFICES ASSUME TypingInv, CoverInv PROVE ContextsCoverTheSource
    OBVIOUS
  <1>1. DOMAIN stack = 1 .. Len(stack)
    BY Lengths DEF TypingInv, StackOK
  <1>2. \A t : CoversIn(source, t) => Covers(t)
    BY DEF CoversIn, Covers
  <1>3. ASSUME NEW i \in DOMAIN stack
        PROVE  /\ Tiles(stack[i].kids, stack[i].start,
                        IF i = 1 THEN Len(source) ELSE stack[i - 1].start - 1)
               /\ \A j \in DOMAIN stack[i].kids : Covers(stack[i].kids[j])
    <2>1. SpanOK(stack[i], EndOf(stack, source, i), source)
      BY <1>1 DEF CoverInv, SpansOK
    <2>2. Tiles(stack[i].kids, stack[i].start, EndOf(stack, source, i))
      BY <2>1 DEF SpanOK
    <2>3. AllCover(source, stack[i].kids)
      BY <2>1 DEF SpanOK
    <2> QED BY <1>2, <2>2, <2>3 DEF AllCover, EndOf
  <1>4. IF Parsing
        THEN stack[Len(stack)].start = 1
        ELSE /\ Covers(tree)
             /\ tree.rule = "crate" /\ tree.start = 1 /\ tree.stop = Len(source)
             /\ source # << >> /\ source[Len(source)] = EOF
    BY <1>2 DEF CoverInv, BottomOK, DoneOK, ReadToEnd, Parsing
  <1> QED BY <1>3, <1>4 DEF ContextsCoverTheSource

\* No word of a source is lost, doubled or moved, through the left recursion of expression(p)
\* and through every repair: the contexts under construction and the final tree hold them all.
THEOREM CoverageHolds == ParserSpec => []ContextsCoverTheSource
  BY Typing, Coverage, CoverageIsContextsCoverTheSource, PTL

-----------------------------------------------------------------------------
(* Operands of prefix operators, and ranks *)

\* The rest of an expression behind its primary, and the operands of prefix operators.
Suffixing == <<[op |-> "suffixes"]>>

\* The production of an expression.
LEMMA ExpressionStarts ==
  /\ expression # << >> /\ Head(expression).op = "primary" /\ Tail(expression) = Suffixing
  /\ Suffixing # << >> /\ Head(Suffixing).op = "suffixes" /\ Tail(Suffixing) = << >>
  /\ IsSequence(Suffixing)
  <1> DEFINE a == [op |-> "primary"]
             b == [op |-> "suffixes"]
  <1>1. a.op = "primary" /\ b.op = "suffixes"
    OBVIOUS
  <1>2. expression = <<a, b>> /\ Suffixing = <<b>>
    BY DEF expression, Suffixing
  <1> HIDE DEF a, b
  <1>3. /\ <<a, b>> # << >> /\ Head(<<a, b>>) = a /\ Tail(<<a, b>>) = <<b>>
        /\ <<b>> # << >> /\ Head(<<b>>) = b /\ Tail(<<b>>) = << >>
    OBVIOUS
  <1>4. IsSequence(<<b>>)
    BY SequenceFacts
  <1> QED BY <1>1, <1>2, <1>3, <1>4

Operand(k) == E(k) \o Suffixing
MutOperand == T("mut") \o Operand(30)
BorrowOperand == (OptMut \o E(30)) \o Suffixing

\* What an expression may have before it after a prefix operator.
PrefixRest(todo) ==
  todo \in {BorrowOperand, MutOperand, Operand(28), Operand(29), Operand(30), Suffixing, << >>}

\* The operand of a prefix operator, first the call of expression(k).
LEMMA OperandStarts ==
  \A k : /\ Operand(k) # << >> /\ Head(Operand(k)) = Call("expression", k)
         /\ Tail(Operand(k)) = Suffixing
         /\ IsSequence(Operand(k))
  <1> TAKE k
  <1> DEFINE t == Call("expression", k)
  <1>1. Operand(k) = <<t>> \o Suffixing
    BY Zenon DEF Operand, E, Call
  <1> HIDE DEF t
  <1>2. IsSequence(<<t>> \o Suffixing)
    BY SequenceFacts, ExpressionStarts
  <1>3. IsSequence(Suffixing)
    BY ExpressionStarts
  <1>4. /\ <<t>> \o Suffixing # << >> /\ Head(<<t>> \o Suffixing) = t
        /\ Tail(<<t>> \o Suffixing) = Suffixing
    BY <1>3, OneJoined
  <1>5. Operand(k) # << >> /\ Head(Operand(k)) = t /\ Tail(Operand(k)) = Suffixing
    BY <1>1, <1>4
  <1>6. IsSequence(Operand(k))
    BY <1>1, <1>2
  <1> QED BY <1>5, <1>6 DEF t

\* The operand of a mutable borrow.
LEMMA MutOperandStarts ==
  /\ MutOperand # << >> /\ Head(MutOperand) = MatchItem("mut") /\ Tail(MutOperand) = Operand(30)
  <1> DEFINE t == MatchItem("mut")
             q == Operand(30)
  <1>1. MutOperand = <<t>> \o q
    BY Zenon DEF MutOperand, T, MatchItem
  <1>2. IsSequence(q)
    BY OperandStarts
  <1> HIDE DEF t, q
  <1> QED BY <1>1, <1>2, OneJoined DEF t, q

\* The operand of a borrow.
LEMMA BorrowOperandStarts ==
  /\ BorrowOperand # << >>
  /\ Head(BorrowOperand).op = "decision"
  /\ Head(BorrowOperand).alts = {T("mut"), << >>}
  /\ Tail(BorrowOperand) = Operand(30)
  <1>1. /\ (T("mut") | << >>)[1].alts = Alternatives(T("mut")) \cup Alternatives(<< >>)
        /\ (T("mut") | << >>)[1].op = "decision"
        /\ Len(T("mut") | << >>) = 1
    BY AlternativesJoined, Zenon
  <1>2. OptMut = (T("mut") | << >>)
    BY Zenon DEF OptMut, Opt
  <1>3. Alternatives(T("mut")) = {T("mut")}
    <2> DEFINE t == MatchItem("mut")
    <2>1. T("mut") = <<t>>
      BY Zenon DEF T, MatchItem
    <2>2. t.op = "match"
      BY DEF MatchItem
    <2> HIDE DEF t
    <2>3. <<t>>[1] = t
      OBVIOUS
    <2>4. T("mut")[1].op # "decision"
      BY <2>1, <2>2, <2>3
    <2> QED BY <2>4, AlternativesAlone
  <1>4. Alternatives(<< >>) = {<< >>}
    BY DEF Alternatives
  <1>5. OptMut[1].alts = {T("mut"), << >>} /\ OptMut[1].op = "decision" /\ Len(OptMut) = 1
    <2> DEFINE m == T("mut")
               o == OptMut
    <2>1. o[1].alts = Alternatives(m) \cup Alternatives(<< >>)
      BY <1>1, <1>2, Zenon
    <2>2. o[1].op = "decision" /\ Len(o) = 1
      BY <1>1, <1>2, Zenon
    <2>3. Alternatives(m) = {m} /\ Alternatives(<< >>) = {<< >>}
      BY <1>3, <1>4
    <2> HIDE DEF m, o
    <2> QED BY <2>1, <2>2, <2>3 DEF m, o
  <1>6. IsSequence(OptMut) /\ IsSequence(E(30)) /\ IsSequence(Suffixing)
    <2>1. Plain(OptMut) BY Combinators, Zenon DEF Combining, OptMut
    <2> QED BY <2>1, ExpressionCalls, PlainIsSequence, ExpressionStarts
  <1> DEFINE o == OptMut
             q == Operand(30)
  <1>7. BorrowOperand = o \o q
    BY <1>6, JoinedThrice DEF BorrowOperand, Operand
  <1>8. IsSequence(q)
    BY OperandStarts
  <1>9. /\ o[1].alts = {T("mut"), << >>} /\ o[1].op = "decision" /\ Len(o) = 1
        /\ IsSequence(o)
    BY <1>5, <1>6
  <1> HIDE DEF o, q
  <1>10. o # << >> /\ Head(o) = o[1] /\ Tail(o) = << >>
    <2>1. o # << >>
      BY <1>9, Lengths
    <2>2. IsSequence(Tail(o)) /\ Len(Tail(o)) = 0 /\ Head(o) = o[1]
      BY <2>1, <1>9, Tailed, SequenceFacts
    <2> QED BY <2>1, <2>2, Lengths
  <1>11. o \o q # << >> /\ Head(o \o q) = o[1] /\ Tail(o \o q) = q
    <2>1. o \o q # << >> /\ Head(o \o q) = Head(o) /\ Tail(o \o q) = Tail(o) \o q
      BY <1>8, <1>9, <1>10, JoinedTail
    <2>2. << >> \o q = q
      BY <1>8, EmptyJoined
    <2> QED BY <1>10, <2>1, <2>2
  <1> QED BY <1>7, <1>9, <1>11 DEF q

\* The rests of a prefixed expression.
LEMMA PrefixRests ==
  ASSUME NEW d, PrefixRest(d), d # << >>
  PROVE  \/ d = BorrowOperand
         \/ d = MutOperand
         \/ \E k \in {28, 29, 30} : d = Operand(k)
         \/ d = Suffixing
  BY DEF PrefixRest

\* An operator has one rank.
LEMMA Ranked ==
  /\ \A r \in Ranks : \A w \in Tightness[r] : w \in Operators
  /\ \A r1, r2 \in Ranks : \A w : w \in Tightness[r1] /\ w \in Tightness[r2] => r1 = r2
  /\ DOMAIN Tightness = Ranks
  <1>1. DOMAIN Tightness = Ranks
    BY Rows DEF Ranks
  <1>2. \A r \in Ranks : \A w \in Tightness[r] : w \in Operators
    BY Rows DEF Ranks, Operators
  <1>3. \A r1, r2 \in Ranks : \A w : w \in Tightness[r1] /\ w \in Tightness[r2] => r1 = r2
    BY Rows DEF Ranks
  <1> QED BY <1>1, <1>2, <1>3

\* o is an operator of rank r.
\* o says an operator of rank r.
HasRank(o, r) == OperatorOf(o) \in Tightness[r]

\* The looseness of a tree is the rank of its operator.
LEMMA Loose ==
  ASSUME NEW t
  PROVE  /\ Looseness(t) \in 0 .. 12
         /\ ~IsInfix(t) => Looseness(t) = 0
         /\ IsInfix(t) => Looseness(t) \in Ranks /\ HasRank(Child(t, 1), Looseness(t))
  <1>1. CASE IsInfix(t)
    <2>1. \E i \in DOMAIN Tightness : OperatorOf(Child(t, 1)) \in Tightness[i]
      BY <1>1 DEF IsInfix
    <2>2. Looseness(t) \in DOMAIN Tightness /\ OperatorOf(Child(t,
        1)) \in Tightness[Looseness(t)]
      BY <1>1, <2>1 DEF Looseness
    <2>3. Looseness(t) \in Ranks
      BY <2>2, Ranked
    <2>4. Looseness(t) \in 0 .. 12
      BY <2>3 DEF Ranks
    <2> QED BY <1>1, <2>2, <2>3, <2>4 DEF HasRank
  <1>2. CASE ~IsInfix(t)
    BY <1>2 DEF Looseness
  <1> QED BY <1>1, <1>2

-----------------------------------------------------------------------------
(* Precedence: what an expression under way says about its rest *)

\* An operator of rank r may stand at level, after left.
Stands(left, level, r) == LevelOf(r) >= level /\ Looseness(left) <= r

\* The right operand of an operator of rank r comes next.
Then(todo, r) == todo # << >> /\ Head(todo) = Call("expression", LevelOf(r) + 1)

\* An expression that has nothing yet.
StartOK(kids, todo) ==
  kids = << >> =>
    todo = expression \/ \E p \in Primary[1].alts : todo = p \o Suffixing

\* An expression that begins with a prefix operator.
PrefixOK(kids, todo) ==
  kids # << >> /\ Says(kids[1], PrefixOperators) =>
    PrefixRest(todo) /\ (Len(kids) >= 2 => Looseness(kids[Len(kids)]) = 0)

\* Before, after and behind an operator.
OperatorNext(level, kids, todo) ==
  /\ todo # << >>
  /\ \/ Inert(Head(todo))
     \/ \E r \in Ranks : /\ Stands(kids[1], level, r)
                         /\ OperatorItem(Head(todo), r)
                         /\ Then(Tail(todo), r)

OperandNext(level, kids, todo) ==
  \A r \in Ranks : HasRank(kids[2], r) => Stands(kids[1], level, r) /\ Then(todo, r)

OperandsStand(level, kids) ==
  \A r \in Ranks :
    HasRank(kids[2], r) => Stands(kids[1], level, r) /\ Looseness(kids[3]) < r

\* An expression that begins with an operand.
InfixOK(level, kids, todo) ==
  kids # << >> /\ kids[1].rule = "expression" =>
    /\ Len(kids) = 1 => OperatorNext(level, kids, todo)
    /\ Len(kids) = 2 => OperandNext(level, kids, todo)
    /\ Len(kids) = 3 /\ kids[3].rule = "expression" => OperandsStand(level, kids)

\* A rule that matches one operator of rank r.
WordOK(r, kids, todo) ==
  IF kids = << >> THEN todo = <<SetItem(Tightness[r])>>
                  ELSE todo = << >> /\ kids[1].word \in Tightness[r]

\* What a frame says about its children, its rest and its level.
FrameBinds(f) ==
  /\ \A j \in DOMAIN f.kids : Binds(f.kids[j])
  /\ f.rule = "expression" =>
       StartOK(f.kids, f.todo) /\ PrefixOK(f.kids, f.todo) /\ InfixOK(f.level, f.kids, f.todo)
  /\ f.rule = "comparisonOperator" => WordOK(7, f.kids, f.todo)
  /\ f.rule = "compoundAssignOperator" => WordOK(12, f.kids, f.todo)

\* An expression that has had its right operand leaves no tighter operator to those around it.
BarredOK(f, bar) ==
  /\ f.rule = "expression" /\ Len(f.kids) = 3
  /\ f.kids[1].rule = "expression" /\ f.kids[3].rule = "expression"
  => \A r \in Ranks : HasRank(f.kids[2], r) => bar <= LevelOf(r) + 1

\* The inductive invariant of precedence.
BindInv ==
  /\ \A i \in 1 .. Len(stack) : FrameBinds(stack[i])
  /\ Parsing => BarredOK(Top, barred)

\* Only expressions can be torn apart.
LEMMA OnlyExpressionsBind ==
  ASSUME NEW t, t.rule # "expression" PROVE Binds(t) /\ Looseness(t) = 0
  BY Loose DEF Binds, IsInfix, IsPrefixed

\* The start of a primary within an expression.
LEMMA StartsOK ==
  ASSUME NEW p \in Primary[1].alts
  PROVE  /\ p \o Suffixing # << >>
         /\ Head(p \o Suffixing) = p[1] /\ Tail(p \o Suffixing) = Tail(p) \o Suffixing
         /\ p[1].op \in {"rule", "match", "set"}
         /\ p[1].op = "rule" => p[1].rule # "expression"
         /\ p[1].op # "rule" =>
              p[1].types \cap PrefixOperators = {} \/ PrefixRest(Tail(p) \o Suffixing)
  <1>1. IsSequence(p) /\ p # << >>
    BY PrimaryStarts DEF PrimaryStart
  <1>2. /\ p \o Suffixing # << >>
        /\ Head(p \o Suffixing) = p[1] /\ Tail(p \o Suffixing) = Tail(p) \o Suffixing
    BY <1>1, ExpressionStarts, JoinedTail, Tailed
  <1>3. \/ p[1].op = "rule" /\ p[1].rule # "expression"
        \/ /\ p[1].op \in {"match", "set"}
           /\ p[1].types \cap PrefixOperators = {} \/ Tail(p) \in Operands
    BY PrimaryStarts, Zenon DEF PrimaryStart
  <1>4. Tail(p) \in Operands => PrefixRest(Tail(p) \o Suffixing)
    BY Zenon DEF Operands, PrefixRest, Operand, BorrowOperand
  <1> QED BY <1>2, <1>3, <1>4

\* What comes next in an expression, by what it has so far.
LEMMA NextInExpression ==
  ASSUME NEW kids, NEW todo, NEW level, StartOK(kids, todo), PrefixOK(kids, todo),
         InfixOK(level, kids, todo), todo # << >>
  PROVE  /\ kids = << >> =>
              \/ todo = expression /\ Head(todo).op = "primary"
              \/ Head(todo).op \in {"rule", "match", "set"}
         /\ kids # << >> /\ Says(kids[1], PrefixOperators) =>
              \/ Head(todo).op = "decision" /\ todo = BorrowOperand
              \/ Head(todo).op = "match" /\ todo = MutOperand
              \/ Head(todo).op = "rule" /\ \E k \in {28, 29, 30} : todo = Operand(k)
              \/ Head(todo).op = "suffixes" /\ todo = Suffixing
         /\ kids # << >> /\ kids[1].rule = "expression" /\ Len(kids) = 1 =>
              Head(todo).op \in {"match", "set", "rule", "decision"}
         /\ kids # << >> /\ kids[1].rule = "expression" /\ Len(kids) = 2 =>
              \A r \in Ranks : HasRank(kids[2], r) => Head(todo).op = "rule"
  <1>1. ASSUME kids = << >>
        PROVE  \/ todo = expression /\ Head(todo).op = "primary"
               \/ Head(todo).op \in {"rule", "match", "set"}
    <2>1. todo = expression \/ \E p \in Primary[1].alts : todo = p \o Suffixing
      BY <1>1 DEF StartOK
    <2> QED BY <2>1, ExpressionStarts, StartsOK
  <1>2. ASSUME kids # << >>, Says(kids[1], PrefixOperators)
        PROVE  \/ Head(todo).op = "decision" /\ todo = BorrowOperand
               \/ Head(todo).op = "match" /\ todo = MutOperand
               \/ Head(todo).op = "rule" /\ \E k \in {28, 29, 30} : todo = Operand(k)
               \/ Head(todo).op = "suffixes" /\ todo = Suffixing
    <2>1. PrefixRest(todo)
      BY <1>2 DEF PrefixOK
    <2>2. \A w : MatchItem(w).op = "match"
      BY DEF MatchItem
    <2>3. \A k : Call("expression", k).op = "rule"
      BY DEF Call
    <2>4. CASE todo = BorrowOperand
      BY <2>4, BorrowOperandStarts
    <2>5. CASE todo = MutOperand
      BY <2>5, <2>2, MutOperandStarts
    <2>6. CASE \E k \in {28, 29, 30} : todo = Operand(k)
      BY <2>6, <2>3, OperandStarts
    <2>7. CASE todo = Suffixing
      BY <2>7, ExpressionStarts
    <2> QED BY <2>1, <2>4, <2>5, <2>6, <2>7, PrefixRests
  <1>3. ASSUME kids # << >>, kids[1].rule = "expression", Len(kids) = 1
        PROVE  Head(todo).op \in {"match", "set", "rule", "decision"}
    <2>1. Inert(Head(todo)) \/ \E r \in Ranks : OperatorItem(Head(todo), r)
      BY <1>3 DEF InfixOK, OperatorNext
    <2> QED BY <2>1 DEF Inert, OperatorItem
  <1>4. ASSUME kids # << >>, kids[1].rule = "expression", Len(kids) = 2,
               NEW r \in Ranks, HasRank(kids[2], r)
        PROVE  Head(todo).op = "rule"
    <2>1. Head(todo) = Call("expression", LevelOf(r) + 1)
      BY <1>4 DEF InfixOK, OperandNext, Then
    <2> QED BY <2>1 DEF Call
  <1> QED BY <1>1, <1>2, <1>3, <1>4

\* The rule methods whose children and rest Binds depends on.
Binding == {"expression", "comparisonOperator", "compoundAssignOperator"}

\* A rule that matches an operator does nothing else.
LEMMA WordsHaveOneStep ==
  ASSUME NEW f, FrameBinds(f), f.todo # << >>,
         f.rule \in {"comparisonOperator", "compoundAssignOperator"}
  PROVE  \E r \in Ranks :
           /\ \/ f.rule = "comparisonOperator" /\ r = 7
              \/ f.rule = "compoundAssignOperator" /\ r = 12
           /\ f.kids = << >> /\ f.todo = <<SetItem(Tightness[r])>>
           /\ Head(f.todo) = SetItem(Tightness[r]) /\ Tail(f.todo) = << >>
           /\ Head(f.todo).op = "set" /\ Head(f.todo).types = Tightness[r]
  <1>1. PICK r \in Ranks :
          /\ \/ f.rule = "comparisonOperator" /\ r = 7
             \/ f.rule = "compoundAssignOperator" /\ r = 12
          /\ WordOK(r, f.kids, f.todo)
    <2>1. 7 \in Ranks /\ 12 \in Ranks
      BY DEF Ranks
    <2>2. /\ f.rule = "comparisonOperator" => WordOK(7, f.kids, f.todo)
          /\ f.rule = "compoundAssignOperator" => WordOK(12, f.kids, f.todo)
      BY DEF FrameBinds
    <2> QED BY <2>1, <2>2
  <1> DEFINE t == SetItem(Tightness[r])
  <1>2. f.kids = << >> /\ f.todo = <<t>>
    BY <1>1 DEF WordOK
  <1>3. t.op = "set" /\ t.types = Tightness[r]
    BY DEF SetItem
  <1> HIDE DEF t
  <1>4. Head(<<t>>) = t /\ Tail(<<t>>) = << >>
    OBVIOUS
  <1>5. Head(f.todo) = t /\ Tail(f.todo) = << >>
    BY <1>2, <1>4
  <1> QED BY <1>1, <1>2, <1>3, <1>5 DEF t

\* A step that leaves the children alone keeps what they say.
LEMMA SameChildren ==
  ASSUME NEW f, FrameBinds(f), NEW g, NEW todo, Moved(f, g, f.kids, todo),
         f.todo # << >>, Head(f.todo).op \in {"decision", "primary", "loop", "suffixes"},
         f.rule = "expression" =>
           StartOK(f.kids, todo) /\ PrefixOK(f.kids, todo) /\ InfixOK(f.level, f.kids, todo)
  PROVE  FrameBinds(g) /\ \A bar : BarredOK(f, bar) => BarredOK(g, bar)
  <1>1. g.rule = f.rule /\ g.level = f.level /\ g.kids = f.kids /\ g.todo = todo
    BY DEF Moved
  <1>2. f.rule \notin {"comparisonOperator", "compoundAssignOperator"}
    BY WordsHaveOneStep
  <1>3. \A j \in DOMAIN g.kids : Binds(g.kids[j])
    BY <1>1 DEF FrameBinds
  <1>4. FrameBinds(g)
    BY <1>1, <1>2, <1>3 DEF FrameBinds
  <1> QED BY <1>1, <1>4 DEF BarredOK

\* An alternative chosen keeps what an expression says of its rest.
LEMMA ChoiceBinds ==
  ASSUME NEW f, FrameOK(f), FrameBinds(f), f.todo # << >>,
         Head(f.todo).op \in {"decision", "primary"},
         NEW a \in AlternativesOf(f.rule, Head(f.todo)), WellFormed(a),
         NEW g, Moved(f, g, f.kids, a \o Tail(f.todo))
  PROVE  FrameBinds(g) /\ \A bar : BarredOK(f, bar) => BarredOK(g, bar)
  <1> DEFINE kids == f.kids
             d == f.todo
             todo == a \o Tail(d)
             level == f.level
  <1>1. SUFFICES ASSUME f.rule = "expression"
                 PROVE  StartOK(kids, todo) /\ PrefixOK(kids, todo) /\ InfixOK(level, kids,
                     todo)
    BY SameChildren
  <1>2. StartOK(kids, d) /\ PrefixOK(kids, d) /\ InfixOK(level, kids, d) /\ d # << >>
    BY <1>1 DEF FrameBinds
  <1>3. IsSequence(a) /\ IsSequence(Tail(d))
    BY WellFormedIsSequence, HeadOf DEF FrameOK
  <1>4. Head(d).op \in {"decision", "primary"}
    OBVIOUS
  <1>5. Head(d).op = "decision" => a \in Head(d).alts
    BY DEF AlternativesOf
  <1>6. Head(d).op = "primary" => a \in Primary[1].alts
    BY DEF AlternativesOf
  <1> HIDE DEF kids, d, level
  <1>7. StartOK(kids, todo)
    <2> SUFFICES ASSUME kids = << >> PROVE \E p \in Primary[1].alts : todo = p \o Suffixing
      BY DEF StartOK
    <2>1. d = expression /\ Head(d).op = "primary"
      BY <1>2, <1>4, NextInExpression
    <2> QED BY <2>1, <1>6, ExpressionStarts
  <1>8. PrefixOK(kids, todo)
    <2> SUFFICES ASSUME kids # << >>, Says(kids[1], PrefixOperators) PROVE PrefixRest(todo)
      BY <1>2 DEF PrefixOK
    <2>1. d = BorrowOperand /\ Head(d).op = "decision"
      BY <1>2, <1>4, NextInExpression
    <2>2. a \in {T("mut"), << >>} /\ Tail(d) = Operand(30)
      BY <2>1, <1>5, BorrowOperandStarts
    <2>3. << >> \o Operand(30) = Operand(30)
      BY OperandStarts, EmptyJoined
    <2>4. todo = MutOperand \/ todo = Operand(30)
      BY <2>2, <2>3 DEF MutOperand
    <2> QED BY <2>4 DEF PrefixRest
  <1>9. InfixOK(level, kids, todo)
    <2> SUFFICES ASSUME kids # << >>, kids[1].rule = "expression"
                 PROVE  InfixOK(level, kids, todo)
      BY DEF InfixOK
    <2>1. CASE Len(kids) = 1
      <3>1. Head(d).op = "decision"
        BY <1>2, <1>4, <2>1, NextInExpression
      <3>2. PICK r \in Ranks : /\ Stands(kids[1], level, r)
                               /\ OperatorItem(Head(d), r)
                               /\ Then(Tail(d), r)
        <4>1. OperatorNext(level, kids, d)
          BY <1>2, <2>1, Zenon DEF InfixOK
        <4> QED BY <4>1, <3>1 DEF OperatorNext, Inert
      <3>3. Head(d).alts = {R("shl"), R("shr")} /\ r = 3
        BY <3>1, <3>2 DEF OperatorItem
      <3>4. PICK w \in {"shl", "shr"} : a = R(w)
        BY <3>1, <3>3, <1>5
      <3> DEFINE t == Call(w, 0)
      <3>5. R(w) = <<t>>
        BY Zenon DEF R, Call
      <3>6. t.op = "rule" /\ t.rule = w
        BY DEF Call
      <3>7. OperatorItem(t, r)
        BY <3>3, <3>6 DEF OperatorItem
      <3> HIDE DEF t
      <3>8. todo # << >> /\ Head(todo) = t /\ Tail(todo) = Tail(d)
        BY <1>3, <3>4, <3>5, OneJoined
      <3> HIDE DEF todo
      <3>9. OperatorNext(level, kids, todo)
        BY <3>2, <3>7, <3>8 DEF OperatorNext
      <3>10. Len(kids) # 2 /\ Len(kids) # 3
        BY <2>1
      <3> QED BY <2>1, <3>9, <3>10, Zenon DEF InfixOK
    <2>2. CASE Len(kids) = 2
      <3>1. \A r \in Ranks : ~HasRank(kids[2], r)
        BY <1>2, <1>4, <2>2, NextInExpression
      <3> HIDE DEF todo
      <3>2. OperandNext(level, kids, todo)
        BY <3>1 DEF OperandNext
      <3>3. Len(kids) # 1 /\ Len(kids) # 3
        BY <2>2
      <3> QED BY <3>2, <3>3, Zenon DEF InfixOK
    <2>3. CASE Len(kids) # 1 /\ Len(kids) # 2
      <3> HIDE DEF todo
      <3> QED BY <1>2, <2>3, Zenon DEF InfixOK
    <2> QED BY <2>1, <2>2, <2>3
  <1> QED BY <1>7, <1>8, <1>9 DEF kids, d, level

\* Going round a loop, or leaving one.
LEMMA LoopBinds ==
  ASSUME NEW f, FrameOK(f), FrameBinds(f), f.todo # << >>,
         NEW g, NEW todo, Moved(f, g, f.kids, todo),
         \/ Head(f.todo).op = "loop"
         \/ Head(f.todo).op = "suffixes" /\ todo = Tail(f.todo)
  PROVE  FrameBinds(g) /\ \A bar : BarredOK(f, bar) => BarredOK(g, bar)
  <1> DEFINE kids == f.kids
             d == f.todo
             level == f.level
  <1>1. SUFFICES ASSUME f.rule = "expression"
                 PROVE  StartOK(kids, todo) /\ PrefixOK(kids, todo) /\ InfixOK(level, kids,
                     todo)
    BY SameChildren
  <1>2. StartOK(kids, d) /\ PrefixOK(kids, d) /\ InfixOK(level, kids, d) /\ d # << >>
    BY <1>1 DEF FrameBinds
  <1>3. Head(d).op \in {"loop", "suffixes"} /\ (Head(d).op = "suffixes" => todo = Tail(d))
    OBVIOUS
  <1> HIDE DEF kids, d, level
  <1>4. StartOK(kids, todo)
    <2>1. kids # << >>
      BY <1>2, <1>3, NextInExpression
    <2> QED BY <2>1 DEF StartOK
  <1>5. PrefixOK(kids, todo)
    <2> SUFFICES ASSUME kids # << >>, Says(kids[1], PrefixOperators) PROVE PrefixRest(todo)
      BY <1>2 DEF PrefixOK
    <2>1. Head(d).op = "suffixes" /\ d = Suffixing
      BY <1>2, <1>3, NextInExpression
    <2>2. todo = << >>
      BY <2>1, <1>3, ExpressionStarts
    <2> QED BY <2>2 DEF PrefixRest
  <1>6. InfixOK(level, kids, todo)
    <2> SUFFICES ASSUME kids # << >>, kids[1].rule = "expression"
                 PROVE  InfixOK(level, kids, todo)
      BY DEF InfixOK
    <2>1. Len(kids) # 1
      BY <1>2, <1>3, NextInExpression
    <2>2. Len(kids) = 2 => \A r \in Ranks : ~HasRank(kids[2], r)
      BY <1>2, <1>3, NextInExpression
    <2>3. Len(kids) = 2 => OperandNext(level, kids, todo)
      BY <2>2 DEF OperandNext
    <2> QED BY <1>2, <2>1, <2>3, Zenon DEF InfixOK
  <1> QED BY <1>4, <1>5, <1>6 DEF kids, d, level

\* t is the context of f.
IsContextOf(t, f) == t.rule = f.rule /\ t.kids = f.kids /\ t.word = NoText

\* The children of a context.
LEMMA ChildrenOf ==
  ASSUME NEW t, IsSequence(t.kids)
  PROVE  /\ Count(t) \in Nat
         /\ Count(t) = Len(t.kids)
         /\ \A n \in 1 .. Count(t) : Child(t, n - 1) = t.kids[n]
         /\ Count(t) = 3 =>
              /\ Child(t, 0) = t.kids[1] /\ Child(t, 1) = t.kids[2] /\ Child(t, 2) = t.kids[3]
         /\ Count(t) >= 1 => Child(t, 0) = t.kids[1]
  <1> DEFINE m == Len(t.kids)
  <1>1. Count(t) = m /\ m \in Nat
    BY Lengths DEF Count
  <1> HIDE DEF m
  <1>2. ASSUME NEW i \in Int, i < m PROVE Child(t, i) = t.kids[i + 1]
    BY <1>1, <1>2 DEF Child
  <1>3. ASSUME NEW n \in 1 .. m PROVE Child(t, n - 1) = t.kids[n]
    <2>1. n - 1 \in Int /\ n - 1 < m /\ (n - 1) + 1 = n
      BY <1>1
    <2> QED BY <1>2, <2>1
  <1>4. m = 3 => /\ Child(t, 0) = t.kids[1] /\ Child(t, 1) = t.kids[2]
                 /\ Child(t, 2) = t.kids[3]
    BY <1>2
  <1>5. m >= 1 => Child(t, 0) = t.kids[1]
    BY <1>2, <1>1
  <1> QED BY <1>1, <1>3, <1>4, <1>5 DEF m

\* The context of a rule method binds as its frame says: its operator is not tighter than its
\* level allows, and not looser than what is barred.
LEMMA ContextBinds ==
  ASSUME NEW f, FrameOK(f), FrameBinds(f), NEW t, IsContextOf(t, f)
  PROVE  /\ Binds(t)
         /\ IsInfix(t) => LevelOf(Looseness(t)) >= f.level
         /\ \A bar : IsInfix(t) /\ BarredOK(f, bar) => bar <= LevelOf(Looseness(t)) + 1
  <1> DEFINE kids == f.kids
             level == f.level
             m == Len(kids)
  <1>1. t.rule = f.rule /\ t.kids = kids /\ IsSequence(kids)
    BY DEF IsContextOf, FrameOK
  <1>2. m \in Nat /\ Count(t) = m /\ (kids = << >> <=> m = 0)
    BY <1>1, ChildrenOf, Lengths
  <1>3. CASE f.rule # "expression"
    <2>1. t.rule # "expression"
      BY <1>1, <1>3
    <2> QED BY <2>1, OnlyExpressionsBind DEF IsInfix
  <1>4. CASE f.rule = "expression"
    <2>1. PrefixOK(kids, f.todo) /\ InfixOK(level, kids, f.todo)
      BY <1>4 DEF FrameBinds
    <2>2. ASSUME IsInfix(t)
          PROVE  /\ m = 3 /\ kids # << >>
                 /\ Child(t, 0) = kids[1] /\ Child(t, 2) = kids[3]
                 /\ kids[1].rule = "expression" /\ kids[3].rule = "expression"
                 /\ Looseness(t) \in Ranks /\ HasRank(kids[2], Looseness(t))
      <3>1. Count(t) = 3 /\ Child(t, 0).rule = "expression" /\ Child(t, 2).rule = "expression"
        BY <2>2 DEF IsInfix
      <3>2. Child(t, 0) = kids[1] /\ Child(t, 1) = kids[2] /\ Child(t, 2) = kids[3]
        BY <3>1, <1>1, ChildrenOf
      <3>3. Looseness(t) \in Ranks /\ HasRank(kids[2], Looseness(t))
        BY <2>2, <3>2, Loose
      <3>4. m = 3
        BY <3>1, <1>2
      <3> HIDE DEF m
      <3>5. m # 0
        BY <3>4
      <3> QED BY <3>1, <3>2, <3>3, <3>4, <3>5, <1>2
    <2>3. ASSUME IsInfix(t) PROVE OperandsStand(level, kids)
      BY <2>1, <2>2, <2>3, Zenon DEF InfixOK
    <2>4. ASSUME IsInfix(t)
          PROVE  /\ LevelOf(Looseness(t)) >= level
                 /\ Looseness(Child(t, 0)) <= Looseness(t)
                 /\ Looseness(Child(t, 2)) < Looseness(t)
      BY <2>2, <2>3, <2>4 DEF OperandsStand, Stands
    <2>5. ASSUME IsPrefixed(t) PROVE Looseness(Child(t, Count(t) - 1)) = 0
      <3>1. m > 1
        BY <2>5, <1>2 DEF IsPrefixed
      <3>2. Says(Child(t, 0), PrefixOperators)
        BY <2>5 DEF IsPrefixed, PrefixOperators
      <3>3. kids # << >> /\ m >= 2 /\ m \in 1 .. m /\ m >= 1
        <4> HIDE DEF m, kids
        <4> QED BY <1>2, <3>1
      <3>4. Child(t, 0) = kids[1] /\ Child(t, m - 1) = kids[m]
        BY <1>1, <1>2, <3>3, ChildrenOf
      <3>5. Looseness(kids[m]) = 0
        BY <2>1, <3>2, <3>3, <3>4 DEF PrefixOK
      <3> QED BY <1>2, <3>4, <3>5
    <2>6. Binds(t)
      BY <2>4, <2>5 DEF Binds
    <2>7. ASSUME NEW bar, IsInfix(t), BarredOK(f, bar) PROVE bar <= LevelOf(Looseness(t)) + 1
      BY <1>4, <2>2, <2>7 DEF BarredOK
    <2> QED BY <2>4, <2>6, <2>7
  <1> QED BY <1>3, <1>4

\* The context of a rule that matches an operator has the rank of that operator.
LEMMA ContextOperator ==
  ASSUME NEW f, FrameOK(f), FrameBinds(f), NEW t, IsContextOf(t, f), f.todo = << >>
  PROVE  /\ f.rule \in {"shl", "shr"} => HasRank(t, 3)
         /\ f.rule = "comparisonOperator" => HasRank(t, 7)
         /\ f.rule = "compoundAssignOperator" => HasRank(t, 12)
  <1>1. t.rule = f.rule
    BY DEF IsContextOf
  <1>2. f.rule \in {"shl", "shr"} => HasRank(t, 3)
    <2>1. Tightness[3] = {"<<", ">>"}
      BY Rows
    <2>2. f.rule = "shl" => OperatorOf(t) = "<<"
      BY <1>1 DEF OperatorOf, IsToken
    <2>3. f.rule = "shr" => OperatorOf(t) = ">>"
      BY <1>1 DEF OperatorOf, IsToken
    <2> QED BY <2>1, <2>2, <2>3 DEF HasRank
  <1>3. ASSUME NEW r, WordOK(r, f.kids, f.todo), f.rule \notin {"shl", "shr", "<token>"}
        PROVE  HasRank(t, r)
    <2>1. \A x : <<x>> # << >>
      OBVIOUS
    <2>2. f.kids # << >> /\ f.kids[1].word \in Tightness[r]
      BY <1>3, <2>1 DEF WordOK
    <2>3. t.kids = f.kids /\ IsSequence(f.kids)
      BY DEF IsContextOf, FrameOK
    <2>4. Count(t) >= 1
      <3> DEFINE m == Count(t)
      <3>1. m \in Nat /\ m # 0
        BY <2>2, <2>3, ChildrenOf, Lengths
      <3> HIDE DEF m
      <3>2. m >= 1
        BY <3>1
      <3> QED BY <3>2 DEF m
    <2>5. Child(t, 0) = f.kids[1]
      BY <2>3, <2>4, ChildrenOf
    <2>6. OperatorOf(t) = Child(t, 0).word
      BY <1>1, <1>3 DEF OperatorOf, IsToken
    <2> QED BY <2>2, <2>5, <2>6 DEF HasRank
  <1>4. f.rule = "comparisonOperator" => HasRank(t, 7)
    BY <1>3 DEF FrameBinds
  <1>5. f.rule = "compoundAssignOperator" => HasRank(t, 12)
    BY <1>3 DEF FrameBinds
  <1> QED BY <1>2, <1>4, <1>5

\* The looser an operator, the lower its level.
LEMMA LevelsFall ==
  \A q, r \in Ranks : /\ LevelOf(q) <= LevelOf(r) => r <= q
                      /\ LevelOf(q) \in 12 .. 26
  BY DEF LevelOf, Ranks

\* An operator after an expression: precpred and the bar keep the left operand from being
\* looser than the operator.
LEMMA ExtendBinds ==
  ASSUME NEW f, FrameOK(f), FrameBinds(f), f.todo # << >>, Head(f.todo).op = "suffixes",
         NEW bar \in Int, BarredOK(f, bar),
         NEW t, IsContextOf(t, f),
         NEW p \in Suffix[1].alts, WellFormed(p), Head(p).level \in f.level .. bar - 1,
         NEW g, Moved(f, g, <<t>>, Tail(p) \o f.todo)
  PROVE  FrameBinds(g) /\ BarredOK(g, bar)
  <1> DEFINE kids == <<t>>
             todo == Tail(p) \o f.todo
             level == f.level
  <1>1. g.rule = f.rule /\ g.level = level /\ g.kids = kids /\ g.todo = todo
    BY DEF Moved
  <1>2. Len(kids) = 1 /\ kids[1] = t /\ DOMAIN kids = {1} /\ kids # << >>
    OBVIOUS
  <1>3. f.rule \notin {"comparisonOperator", "compoundAssignOperator"}
    BY WordsHaveOneStep
  <1>4. t.rule = f.rule /\ t.word = NoText
    BY DEF IsContextOf
  <1>5. IsSequence(p) /\ Len(p) >= 2 /\ IsSequence(f.todo)
    BY Suffixes, Zenon, WellFormedIsSequence DEF SuffixStart, FrameOK
  <1>6. /\ todo # << >> /\ Head(todo) = p[2] /\ Tail(todo) = Tail(Tail(p)) \o f.todo
        /\ Head(p) = p[1]
    <2> DEFINE n == Len(p)
    <2>1. n \in Nat /\ n >= 2
      BY <1>5, Lengths
    <2>2. p # << >>
      BY <2>1, <1>5
    <2> DEFINE q == Tail(p)
    <2>3. /\ Len(q) = n - 1 /\ Head(p) = p[1]
          /\ \A i \in 1 .. n - 1 : q[i] = p[i + 1]
          /\ IsSequence(q)
      BY <1>5, <2>2, Tailed, SequenceFacts
    <2> HIDE DEF n, q
    <2>4. 1 \in 1 .. n - 1 /\ Len(q) # 0
      BY <2>1, <2>3
    <2>5. q # << >> /\ q[1] = p[2]
      BY <2>3, <2>4, Lengths
    <2>6. Head(q) = p[2]
      BY <2>3, <2>5, Tailed
    <2> QED BY <1>5, <2>3, <2>5, <2>6, JoinedTail DEF q
  <1> HIDE DEF kids, todo
  <1>7. BarredOK(g, bar)
    <2>1. Len(g.kids) # 3
      BY <1>1, <1>2
    <2> QED BY <2>1, Zenon DEF BarredOK
  <1>8. Binds(t)
    BY ContextBinds
  <1>9. \A j \in DOMAIN g.kids : Binds(g.kids[j])
    BY <1>1, <1>2, <1>8
  <1>10. ASSUME f.rule = "expression"
         PROVE  StartOK(kids, todo) /\ PrefixOK(kids, todo) /\ InfixOK(level, kids, todo)
    <2>1. StartOK(kids, todo)
      BY <1>2 DEF StartOK
    <2>2. PrefixOK(kids, todo)
      BY <1>2, <1>4, <1>10 DEF PrefixOK, Says, IsToken
    <2>3. OperatorNext(level, kids, todo)
      <3>1. CASE Inert(p[2])
        BY <3>1, <1>6 DEF OperatorNext
      <3>2. CASE \E r \in Ranks : /\ p[1].level = LevelOf(r)
                                  /\ OperatorItem(p[2], r)
                                  /\ Tail(Tail(p)) = E(LevelOf(r) + 1)
        <4>1. PICK r \in Ranks : /\ p[1].level = LevelOf(r)
                                 /\ OperatorItem(p[2], r)
                                 /\ Tail(Tail(p)) = E(LevelOf(r) + 1)
          BY <3>2
        <4>2. LevelOf(r) \in level .. bar - 1 /\ LevelOf(r) \in Int /\ level \in Int
          BY <4>1, <1>6, LevelsFall DEF FrameOK
        <4>3. LevelOf(r) >= level
          BY <4>2
        <4>4. Looseness(t) <= r
          <5>1. CASE IsInfix(t)
            <6>1. bar <= LevelOf(Looseness(t)) + 1
              BY <5>1, ContextBinds
            <6>2. Looseness(t) \in Ranks
              BY <5>1, Loose
            <6>3. LevelOf(Looseness(t)) \in Int
              BY <6>2, LevelsFall
            <6>4. LevelOf(r) <= LevelOf(Looseness(t))
              BY <4>2, <6>1, <6>3
            <6> QED BY <6>2, <6>4, LevelsFall
          <5>2. CASE ~IsInfix(t)
            BY <5>2, Loose DEF Ranks
          <5> QED BY <5>1, <5>2
        <4>5. Then(Tail(todo), r)
          <5> DEFINE c == Call("expression", LevelOf(r) + 1)
          <5>1. E(LevelOf(r) + 1) = <<c>>
            BY Zenon DEF E, Call
          <5> HIDE DEF c
          <5>2. Tail(todo) = <<c>> \o f.todo
            BY <1>6, <4>1, <5>1
          <5>3. <<c>> \o f.todo # << >> /\ Head(<<c>> \o f.todo) = c
            BY <1>5, OneJoined
          <5>4. Tail(todo) # << >> /\ Head(Tail(todo)) = c
            BY <5>2, <5>3
          <5> QED BY <5>4 DEF Then, c
        <4> QED BY <1>2, <1>6, <4>1, <4>3, <4>4, <4>5 DEF OperatorNext, Stands
      <3> QED BY <3>1, <3>2, Suffixes, Zenon DEF SuffixStart
    <2>4. Len(kids) # 2 /\ Len(kids) # 3
      BY <1>2
    <2>5. InfixOK(level, kids, todo)
      BY <2>3, <2>4, Zenon DEF InfixOK
    <2> QED BY <2>1, <2>2, <2>5
  <1>11. FrameBinds(g)
    BY <1>1, <1>3, <1>9, <1>10 DEF FrameBinds
  <1> QED BY <1>7, <1>11

\* more is kids with t behind them.
Grows(kids, more, t) ==
  /\ more # << >>
  /\ kids = << >> => more[1] = t /\ Len(more) = 1
  /\ kids # << >> => more[1] = kids[1] /\ Len(more) # 1
  /\ Len(kids) = 1 => more[2] = t
  /\ Len(kids) = 2 => more[3] = t /\ more[2] = kids[2]
  /\ Len(more) = 1 => kids = << >>
  /\ Len(more) = 2 => Len(kids) = 1 /\ kids # << >>
  /\ Len(more) = 3 => Len(kids) = 2 /\ kids # << >>
  /\ more[Len(more)] = t
  /\ \A j \in DOMAIN more : more[j] = t \/ \E i \in DOMAIN kids : more[j] = kids[i]

\* Children with one more.
LEMMA Growth == ASSUME NEW kids, IsSequence(kids), NEW t PROVE Grows(kids, Append(kids, t), t)
  <1> DEFINE m == Len(kids)
             more == Append(kids, t)
             n == Len(more)
  <1>1. m \in Nat /\ (kids = << >> <=> m = 0) /\ DOMAIN kids = 1 .. m
    BY Lengths
  <1>2. IsSequence(more)
    BY SequenceFacts
  <1>3. DOMAIN more = 1 .. n
    BY <1>2, Lengths
  <1>4. n = m + 1 /\ more[m + 1] = t /\ more # << >> /\ \A i \in 1 .. m : more[i] = kids[i]
    BY Appended
  <1>0. Len(kids) = m /\ Len(more) = n
    OBVIOUS
  <1> HIDE DEF m, n, more
  <1>5. /\ m = 0 => more[1] = t /\ n = 1
        /\ m # 0 => more[1] = kids[1] /\ n # 1
        /\ m = 1 => more[2] = t
        /\ m = 2 => more[3] = t /\ more[2] = kids[2]
        /\ n = 1 => m = 0
        /\ n = 2 => m = 1
        /\ n = 3 => m = 2
        /\ more[n] = t
    BY <1>1, <1>4
  <1>6. ASSUME NEW j \in 1 .. n PROVE more[j] = t \/ \E i \in 1 .. m : more[j] = kids[i]
    <2>1. j = m + 1 \/ j \in 1 .. m
      BY <1>1, <1>4
    <2> QED BY <1>4, <2>1
  <1>7. /\ kids = << >> => more[1] = t /\ n = 1
        /\ kids # << >> => more[1] = kids[1] /\ n # 1
        /\ n = 1 => kids = << >>
        /\ n = 2 => m = 1 /\ kids # << >>
        /\ n = 3 => m = 2 /\ kids # << >>
    BY <1>1, <1>5
  <1>8. \A j \in DOMAIN more : more[j] = t \/ \E i \in DOMAIN kids : more[j] = kids[i]
    BY <1>1, <1>3, <1>6
  <1>9. Grows(kids, more, t)
    BY <1>0, <1>4, <1>5, <1>7, <1>8, Zenon DEF Grows
  <1> QED BY <1>9 DEF more

\* A frame that has got a child binds, when the child does and its rest says what it must.
LEMMA GrowingBinds ==
  ASSUME NEW f, FrameOK(f), FrameBinds(f), NEW t, Binds(t), NEW todo, NEW g,
         Moved(f, g, Append(f.kids, t), todo),
         f.rule = "expression" =>
           PrefixOK(Append(f.kids, t), todo) /\ InfixOK(f.level, Append(f.kids, t), todo),
         f.rule = "comparisonOperator" => WordOK(7, Append(f.kids, t), todo),
         f.rule = "compoundAssignOperator" => WordOK(12, Append(f.kids, t), todo)
  PROVE  FrameBinds(g)
  <1> DEFINE more == Append(f.kids, t)
  <1>1. g.rule = f.rule /\ g.level = f.level /\ g.kids = more /\ g.todo = todo
    BY DEF Moved
  <1>2. Grows(f.kids, more, t)
    BY Growth DEF FrameOK
  <1>3. /\ f.rule = "expression" => PrefixOK(more, todo) /\ InfixOK(f.level, more, todo)
        /\ f.rule = "comparisonOperator" => WordOK(7, more, todo)
        /\ f.rule = "compoundAssignOperator" => WordOK(12, more, todo)
    OBVIOUS
  <1> HIDE DEF more
  <1>4. StartOK(more, todo)
    BY <1>2 DEF Grows, StartOK
  <1>5. \A j \in DOMAIN more : Binds(more[j])
    BY <1>2 DEF Grows, FrameBinds
  <1> QED BY <1>1, <1>3, <1>4, <1>5 DEF FrameBinds

\* A token is no right operand.
LEMMA TokenBarsNothing ==
  ASSUME NEW f, FrameOK(f), NEW t, t.rule # "expression", NEW g, NEW todo,
         Moved(f, g, Append(f.kids, t), todo)
  PROVE  \A bar : BarredOK(g, bar)
  <1>1. Grows(f.kids, g.kids, t)
    BY Growth DEF FrameOK, Moved
  <1>2. Len(g.kids) = 3 => g.kids[3].rule # "expression"
    BY <1>1 DEF Grows
  <1> QED BY <1>2 DEF BarredOK

\* A token matched.
LEMMA MatchBinds ==
  ASSUME NEW f, FrameOK(f), FrameBinds(f), f.todo # << >>, Head(f.todo).op \in {"match", "set"},
         NEW w, TokenType(w) \in Head(f.todo).types, NEW at, NEW g,
         Moved(f, g, Append(f.kids, Token(w, at)), Tail(f.todo))
  PROVE  FrameBinds(g) /\ \A bar : BarredOK(g, bar)
  <1> DEFINE t == Token(w, at)
             kids == f.kids
             more == Append(kids, t)
             d == f.todo
             todo == Tail(d)
             level == f.level
  <1>1. t.rule = "<token>" /\ t.word = w /\ IsToken(t) /\ OperatorOf(t) = w
    BY DEF Token, IsToken, OperatorOf
  <1> HIDE DEF t
  <1>2. Binds(t) /\ Looseness(t) = 0
    BY <1>1, OnlyExpressionsBind
  <1>3. \A bar : BarredOK(g, bar)
    BY <1>1, TokenBarsNothing DEF t
  <1>4. Grows(kids, more, t)
    BY Growth DEF FrameOK
  <1> HIDE DEF kids, more, d, level
  <1>5. ASSUME f.rule = "expression" PROVE PrefixOK(more, todo) /\ InfixOK(level, more, todo)
    <2>1. StartOK(kids, d) /\ PrefixOK(kids, d) /\ InfixOK(level, kids, d) /\ d # << >>
      BY <1>5 DEF FrameBinds, kids, d, level
    <2>2. Head(d).op \in {"match", "set"} /\ TokenType(w) \in Head(d).types
      BY DEF d
    <2>3. PrefixOK(more, todo)
      <3> SUFFICES ASSUME Says(more[1], PrefixOperators) PROVE PrefixRest(todo)
        BY <1>2, <1>4 DEF PrefixOK, Grows
      <3>1. CASE kids = << >>
        <4>1. PICK p \in Primary[1].alts : d = p \o Suffixing
          BY <2>1, <2>2, <3>1, ExpressionStarts DEF StartOK
        <4>2. Head(d) = p[1] /\ todo = Tail(p) \o Suffixing
          BY <4>1, StartsOK
        <4>3. w \in PrefixOperators
          BY <1>1, <1>4, <3>1 DEF Grows, Says
        <4>4. w \in Operators
          BY <4>3 DEF PrefixOperators, Operators
        <4>5. w \in p[1].types
          BY <2>2, <4>2, <4>4, OperatorWords
        <4>6. p[1].types \cap PrefixOperators # {} /\ p[1].op # "rule"
          BY <2>2, <4>2, <4>3, <4>5
        <4> QED BY <4>2, <4>6, StartsOK
      <3>2. CASE kids # << >>
        <4>1. Says(kids[1], PrefixOperators)
          BY <1>4, <3>2 DEF Grows
        <4>2. d = MutOperand
          BY <2>1, <2>2, <3>2, <4>1, NextInExpression
        <4>3. todo = Operand(30)
          BY <4>2, MutOperandStarts
        <4> QED BY <4>3 DEF PrefixRest
      <3> QED BY <3>1, <3>2
    <2>4. InfixOK(level, more, todo)
      <3>1. CASE kids = << >>
        <4>1. more[1].rule # "expression"
          BY <1>1, <1>4, <3>1 DEF Grows
        <4> QED BY <4>1 DEF InfixOK
      <3>2. CASE kids # << >> /\ kids[1].rule # "expression"
        <4>1. more[1].rule # "expression"
          BY <1>4, <3>2 DEF Grows
        <4> QED BY <4>1 DEF InfixOK
      <3>3. CASE kids # << >> /\ kids[1].rule = "expression"
        <4>1. Len(more) # 1 /\ more[1] = kids[1]
          BY <1>4, <3>3 DEF Grows
        <4>2. Len(more) = 3 => more[3].rule # "expression"
          BY <1>1, <1>4 DEF Grows
        <4>3. ASSUME Len(more) = 2 PROVE OperandNext(level, more, todo)
          <5>1. Len(kids) = 1 /\ more[2] = t
            BY <1>4, <4>3 DEF Grows
          <5>2. OperatorNext(level, kids, d)
            BY <2>1, <3>3, <5>1, Zenon DEF InfixOK
          <5>3. SUFFICES ASSUME NEW r \in Ranks, HasRank(more[2], r)
                         PROVE  Stands(more[1], level, r) /\ Then(todo, r)
            BY DEF OperandNext
          <5>4. w \in Tightness[r]
            BY <1>1, <5>1, <5>3 DEF HasRank
          <5>5. w \in Operators /\ TokenType(w) = w
            BY <5>4, Ranked, OperatorWords
          <5>6. w \in Head(d).types
            BY <2>2, <5>5
          <5>7. ~Inert(Head(d))
            BY <5>5, <5>6 DEF Inert
          <5>8. PICK q \in Ranks : /\ Stands(kids[1], level, q)
                                   /\ OperatorItem(Head(d), q)
                                   /\ Then(Tail(d), q)
            BY <5>2, <5>7 DEF OperatorNext
          <5>9. Head(d).types \subseteq Tightness[q]
            BY <2>2, <5>8 DEF OperatorItem
          <5>10. q = r
            BY <5>4, <5>6, <5>9, Ranked
          <5> QED BY <4>1, <5>8, <5>10
        <4> HIDE DEF todo
        <4> QED BY <4>1, <4>2, <4>3, Zenon DEF InfixOK
      <3> QED BY <3>1, <3>2, <3>3
    <2> QED BY <2>3, <2>4
  <1>6. ASSUME f.rule \in {"comparisonOperator", "compoundAssignOperator"}
        PROVE  /\ f.rule = "comparisonOperator" => WordOK(7, more, todo)
               /\ f.rule = "compoundAssignOperator" => WordOK(12, more, todo)
    <2>1. PICK r \in Ranks :
             /\ \/ f.rule = "comparisonOperator" /\ r = 7
                \/ f.rule = "compoundAssignOperator" /\ r = 12
             /\ kids = << >> /\ todo = << >> /\ Head(d).types = Tightness[r]
      BY <1>6, WordsHaveOneStep DEF kids, d
    <2>2. TokenType(w) \in Tightness[r]
      BY <2>1 DEF d
    <2>3. w \in Tightness[r]
      BY <2>2, Ranked, OperatorWords
    <2>4. more # << >> /\ more[1].word = w
      BY <1>1, <1>4, <2>1 DEF Grows
    <2>5. WordOK(r, more, todo)
      BY <2>1, <2>3, <2>4 DEF WordOK
    <2> QED BY <2>1, <2>5
  <1>7. FrameBinds(g)
    <2>1. Moved(f, g, Append(f.kids, t), todo)
      BY DEF t, d
    <2>2. more = Append(f.kids, t) /\ level = f.level
      BY DEF more, kids, level
    <2> HIDE DEF todo
    <2> QED BY <1>2, <1>5, <1>6, <2>1, <2>2, GrowingBinds
  <1> QED BY <1>3, <1>7

\* A token conjured up.
LEMMA MissingBinds ==
  ASSUME NEW f, FrameOK(f), FrameBinds(f), f.rule \notin Binding, NEW at, NEW g, NEW todo,
         Moved(f, g, Append(f.kids, Missing(at)), todo)
  PROVE  FrameBinds(g) /\ \A bar : BarredOK(g, bar)
  <1> DEFINE t == Missing(at)
  <1>1. t.rule = "<token>"
    BY DEF Missing, Token
  <1> HIDE DEF t
  <1>2. Binds(t) /\ t.rule # "expression"
    BY <1>1, OnlyExpressionsBind
  <1>3. Moved(f, g, Append(f.kids, t), todo)
    BY DEF t
  <1>4. \A bar : BarredOK(g, bar)
    BY <1>2, <1>3, TokenBarsNothing
  <1>5. FrameBinds(g)
    BY <1>2, <1>3, GrowingBinds DEF Binding
  <1> QED BY <1>4, <1>5

\* The productions of the rules that Binds depends on.
LEMMA FirstProductions ==
  /\ Production["expression"] = expression
  /\ Production["comparisonOperator"] = <<SetItem(Tightness[7])>>
  /\ Production["compoundAssignOperator"] = <<SetItem(Tightness[12])>>
  <1>1. Production["expression"] = expression
    BY DEF Production
  <1>2. Production["comparisonOperator"] = comparisonOperator
    BY DEF Production
  <1>3. Production["compoundAssignOperator"] = compoundAssignOperator
    BY DEF Production
  <1>4. comparisonOperator = <<SetItem({"==", "!=", ">", "<", ">=", "<="})>>
    BY Zenon DEF comparisonOperator, OneOf, SetItem
  <1>5. compoundAssignOperator =
          <<SetItem({"+=", "-=", "*=", "/=", "%=", "&=", "|=", "^=", "<<=", ">>="})>>
    BY Zenon DEF compoundAssignOperator, OneOf, SetItem
  <1>6. /\ Tightness[7] = {"==", "!=", ">", "<", ">=", "<="}
        /\ Tightness[12] = {"+=", "-=", "*=", "/=", "%=", "&=", "|=", "^=", "<<=", ">>="}
    BY Rows
  <1> QED BY <1>1, <1>2, <1>3, <1>4, <1>5, <1>6, Zenon

\* A rule method entered.
LEMMA EnterBinds ==
  ASSUME NEW rule, NEW level, NEW start, NEW owed
  PROVE  /\ FrameBinds(Frame(rule, level, start, owed))
         /\ \A bar : BarredOK(Frame(rule, level, start, owed), bar)
  <1> DEFINE f == Frame(rule, level, start, owed)
  <1>1. f.rule = rule /\ f.kids = << >> /\ f.todo = Production[rule]
    BY DEF Frame
  <1> HIDE DEF f
  <1>2. Len(f.kids) # 3 /\ DOMAIN f.kids = {}
    BY <1>1
  <1>3. \A bar : BarredOK(f, bar)
    BY <1>2, Zenon DEF BarredOK
  <1>4. ASSUME rule = "expression"
        PROVE  StartOK(f.kids, f.todo) /\ PrefixOK(f.kids, f.todo)
                 /\ InfixOK(f.level, f.kids, f.todo)
    <2>1. f.todo = expression
      BY <1>1, <1>4, FirstProductions
    <2> QED BY <1>1, <2>1 DEF StartOK, PrefixOK, InfixOK
  <1>5. /\ rule = "comparisonOperator" => WordOK(7, f.kids, f.todo)
        /\ rule = "compoundAssignOperator" => WordOK(12, f.kids, f.todo)
    BY <1>1, FirstProductions, Zenon DEF WordOK
  <1>6. FrameBinds(f)
    BY <1>1, <1>2, <1>4, <1>5 DEF FrameBinds
  <1> QED BY <1>3, <1>6 DEF f

\* What an expression that was called at a level is made with.
LEMMA CalledAt ==
  ASSUME NEW h, FrameOK(h), FrameBinds(h), NEW t, IsContextOf(t, h)
  PROVE  /\ \A k \in {28, 29, 30} : h.level = k => Looseness(t) = 0
         /\ \A r \in Ranks : h.level = LevelOf(r) + 1 => Looseness(t) < r
  <1>1. CASE ~IsInfix(t)
    BY <1>1, Loose DEF Ranks
  <1>2. CASE IsInfix(t)
    <2> DEFINE q == Looseness(t)
               l == h.level
    <2>1. q \in Ranks /\ LevelOf(q) >= l
      BY <1>2, Loose, ContextBinds
    <2> HIDE DEF q, l
    <2>2. LevelOf(q) \in 12 .. 26
      BY <2>1, LevelsFall
    <2>3. \A k \in {28, 29, 30} : l # k
      BY <2>1, <2>2
    <2>4. ASSUME NEW r \in Ranks, l = LevelOf(r) + 1 PROVE q < r
      BY <2>1, <2>4 DEF LevelOf, Ranks
    <2> QED BY <2>3, <2>4 DEF q, l
  <1> QED BY <1>1, <1>2

\* h returns its context t to f.
LEMMA ReturnBinds ==
  ASSUME NEW f, FrameOK(f), FrameBinds(f), NEW h, FrameOK(h), FrameBinds(h), Awaits(f, h),
         NEW t, IsContextOf(t, h), h.todo = << >> \/ h.rule = "blockExpression",
         NEW bar \in Int, h.rule = "expression" => bar <= h.level, NEW g,
         Moved(f, g, Append(f.kids, t), Tail(f.todo))
  PROVE  FrameBinds(g) /\ BarredOK(g, bar)
  <1> DEFINE kids == f.kids
             more == Append(kids, t)
             d == f.todo
             todo == Tail(d)
             level == f.level
             hlevel == h.level
  <1>1. /\ d # << >> /\ Head(d).op = "rule" /\ Head(d).rule = h.rule /\ Head(d).level = hlevel
        /\ t.rule = h.rule
    BY DEF Awaits, IsContextOf
  <1>2. Binds(t)
    BY ContextBinds
  <1>3. Grows(kids, more, t)
    BY Growth DEF FrameOK
  <1>4. ~IsToken(t) /\ h.rule \in Rules
    <2>1. h.rule \in Rules
      BY DEF FrameOK
    <2>2. "<token>" \notin Rules
      BY RuleNames
    <2> QED BY <1>1, <2>1, <2>2 DEF IsToken
  <1>5. f.rule \notin {"comparisonOperator", "compoundAssignOperator"}
    BY <1>1, WordsHaveOneStep
  <1>6. /\ \A k \in {28, 29, 30} : hlevel = k => Looseness(t) = 0
        /\ \A r \in Ranks : hlevel = LevelOf(r) + 1 => Looseness(t) < r
    BY CalledAt
  <1>7. /\ g.rule = f.rule /\ g.kids = more
        /\ h.rule = "expression" => bar <= hlevel
    BY DEF Moved
  <1>8. f.rule = "expression" => /\ StartOK(kids, d) /\ PrefixOK(kids, d)
                                 /\ InfixOK(level, kids, d)
    BY DEF FrameBinds
  <1>9. /\ h.rule \in {"shl", "shr"} => HasRank(t, 3)
        /\ h.rule = "comparisonOperator" => HasRank(t, 7)
        /\ h.rule = "compoundAssignOperator" => HasRank(t, 12)
    BY ContextOperator
  <1>0. Moved(f, g, Append(f.kids, t), todo) /\ more = Append(f.kids, t) /\ level = f.level
    OBVIOUS
  <1> HIDE DEF kids, more, d, todo, level, hlevel
  <1>10. ASSUME f.rule = "expression", NEW r \in Ranks, HasRank(kids[2], r),
                kids # << >>, kids[1].rule = "expression", Len(kids) = 2
         PROVE  Stands(kids[1], level, r) /\ hlevel = LevelOf(r) + 1
    <2>1. OperandNext(level, kids, d)
      BY <1>8, <1>10, Zenon DEF InfixOK
    <2>2. Stands(kids[1], level, r) /\ Head(d) = Call("expression", LevelOf(r) + 1)
      BY <1>10, <2>1 DEF OperandNext, Then
    <2>3. Head(d).level = LevelOf(r) + 1
      BY <2>2 DEF Call
    <2> QED BY <1>1, <2>2, <2>3
  <1>11. ASSUME f.rule = "expression" PROVE PrefixOK(more, todo)
    <2> SUFFICES ASSUME Says(more[1], PrefixOperators)
                 PROVE  PrefixRest(todo) /\ Looseness(more[Len(more)]) = 0
      BY DEF PrefixOK
    <2>1. kids # << >> /\ more[1] = kids[1] /\ more[Len(more)] = t
      BY <1>3, <1>4 DEF Grows, Says
    <2>2. PICK k \in {28, 29, 30} : d = Operand(k)
      BY <1>1, <1>8, <1>11, <2>1, NextInExpression
    <2>3. Head(d) = Call("expression", k) /\ todo = Suffixing
      BY <2>2, OperandStarts DEF todo
    <2>4. hlevel = k
      BY <1>1, <2>3 DEF Call
    <2> QED BY <1>6, <2>1, <2>3, <2>4 DEF PrefixRest
  <1>12. ASSUME f.rule = "expression" PROVE InfixOK(level, more, todo)
    <2>1. CASE kids = << >>
      <3>1. PICK p \in Primary[1].alts : d = p \o Suffixing
        BY <1>1, <1>8, <1>12, <2>1, ExpressionStarts DEF StartOK
      <3>2. h.rule # "expression"
        BY <1>1, <3>1, StartsOK
      <3>3. more[1].rule # "expression"
        BY <1>1, <1>3, <2>1, <3>2 DEF Grows
      <3> QED BY <3>3 DEF InfixOK
    <2>2. CASE kids # << >> /\ kids[1].rule # "expression"
      <3>1. more[1].rule # "expression"
        BY <1>3, <2>2 DEF Grows
      <3> QED BY <3>1 DEF InfixOK
    <2>3. CASE kids # << >> /\ kids[1].rule = "expression"
      <3>1. Len(more) # 1 /\ more[1] = kids[1]
        BY <1>3, <2>3 DEF Grows
      <3>2. ASSUME Len(more) = 2 PROVE OperandNext(level, more, todo)
        <4>1. Len(kids) = 1 /\ more[2] = t
          BY <1>3, <3>2 DEF Grows
        <4>2. OperatorNext(level, kids, d)
          BY <1>8, <1>12, <2>3, <4>1, Zenon DEF InfixOK
        <4>3. PICK q \in Ranks : /\ Stands(kids[1], level, q)
                                 /\ OperatorItem(Head(d), q)
                                 /\ Then(todo, q)
          BY <1>1, <4>2 DEF OperatorNext, Inert, todo
        <4>4. \/ h.rule \in {"shl", "shr"} /\ q = 3
              \/ h.rule = "comparisonOperator" /\ q = 7
              \/ h.rule = "compoundAssignOperator" /\ q = 12
          BY <1>1, <4>3 DEF OperatorItem
        <4>5. HasRank(t, q)
          BY <1>9, <4>4
        <4>6. ASSUME NEW r \in Ranks, HasRank(t, r) PROVE q = r
          BY <4>3, <4>5, <4>6, Ranked DEF HasRank
        <4> QED BY <3>1, <4>1, <4>3, <4>6 DEF OperandNext
      <3>3. ASSUME Len(more) = 3 PROVE OperandsStand(level, more)
        <4>1. Len(kids) = 2 /\ more[2] = kids[2] /\ more[3] = t
          BY <1>3, <3>3 DEF Grows
        <4> QED BY <1>6, <1>10, <1>12, <2>3, <3>1, <4>1 DEF OperandsStand
      <3> QED BY <3>1, <3>2, <3>3, Zenon DEF InfixOK
    <2> QED BY <2>1, <2>2, <2>3
  <1>13. FrameBinds(g)
    BY <1>0, <1>2, <1>5, <1>11, <1>12, GrowingBinds
  <1>14. BarredOK(g, bar)
    <2> SUFFICES ASSUME g.rule = "expression", Len(g.kids) = 3, g.kids[1].rule = "expression",
                        g.kids[3].rule = "expression", NEW r \in Ranks, HasRank(g.kids[2], r)
                 PROVE  bar <= LevelOf(r) + 1
      BY DEF BarredOK
    <2>1. Len(more) = 3
      BY <1>7
    <2>2. /\ Len(kids) = 2 /\ kids # << >> /\ more[1] = kids[1] /\ more[2] = kids[2]
          /\ more[3] = t
      BY <1>3, <2>1 DEF Grows
    <2>3. hlevel = LevelOf(r) + 1
      BY <1>7, <1>10, <2>2
    <2>4. h.rule = "expression"
      BY <1>1, <1>7, <2>2
    <2> QED BY <1>7, <2>3, <2>4
  <1> QED BY <1>13, <1>14

-----------------------------------------------------------------------------
(* Precedence: the stack *)

\* Every frame of s binds.
Bound(s) == \A i \in 1 .. Len(s) : FrameBinds(s[i])

\* The stack binds when its innermost frame does: a step of the innermost rule method.
LEMMA BoundMoved ==
  ASSUME NEW s, IsSequence(s), s # << >>, Bound(s), NEW t, NEW kids, NEW todo,
         Moves(s, t, kids, todo), FrameBinds(t[1])
  PROVE  Bound(t)
  <1> DEFINE n == Len(s)
  <1>1. n \in Nat
    BY Lengths
  <1>2. /\ Len(t) = n /\ \A i \in 2 .. n : t[i] = s[i]
        /\ \A i \in 1 .. n : FrameBinds(s[i])
    BY DEF Moves, Bound
  <1> HIDE DEF n
  <1>3. ASSUME NEW i \in 1 .. n PROVE FrameBinds(t[i])
    <2>1. i = 1 \/ i \in 2 .. n
      BY <1>1
    <2> QED BY <1>2, <2>1
  <1> QED BY <1>2, <1>3 DEF Bound

\* A call.
LEMMA BoundEntered ==
  ASSUME NEW s, IsSequence(s), Bound(s), NEW f, FrameBinds(f), NEW t, Enters(s, t, f)
  PROVE  Bound(t)
  <1> DEFINE n == Len(s)
  <1>1. n \in Nat
    BY Lengths
  <1>2. /\ Len(t) = n + 1 /\ t[1] = f /\ \A i \in 1 .. n : t[i + 1] = s[i]
        /\ \A i \in 1 .. n : FrameBinds(s[i])
    BY DEF Enters, Bound
  <1> HIDE DEF n
  <1>3. ASSUME NEW i \in 1 .. n + 1 PROVE FrameBinds(t[i])
    <2>1. i = 1 \/ (i - 1 \in 1 .. n /\ (i - 1) + 1 = i)
      BY <1>1
    <2>2. CASE i = 1
      BY <1>2, <2>2
    <2>3. CASE i - 1 \in 1 .. n /\ (i - 1) + 1 = i
      <3>1. t[(i - 1) + 1] = s[i - 1]
        BY <1>2, <2>3
      <3>2. FrameBinds(s[i - 1])
        BY <1>2, <2>3
      <3> QED BY <2>3, <3>1, <3>2
    <2> QED BY <2>1, <2>2, <2>3
  <1> QED BY <1>2, <1>3 DEF Bound

\* A return.
LEMMA BoundReturned ==
  ASSUME NEW s, IsSequence(s), Bound(s), NEW node, NEW t, Returns(s, t, node),
         FrameBinds(t[1])
  PROVE  Bound(t)
  <1> DEFINE n == Len(s)
             m == Len(t)
  <1>1. n \in Nat
    BY Lengths
  <1>2. /\ m = n - 1 /\ \A i \in 2 .. m : t[i] = s[i + 1]
        /\ \A i \in 1 .. n : FrameBinds(s[i])
    BY DEF Returns, Bound
  <1> HIDE DEF n, m
  <1>3. ASSUME NEW i \in 1 .. m PROVE FrameBinds(t[i])
    <2>1. i = 1 \/ (i \in 2 .. m /\ i + 1 \in 1 .. n)
      BY <1>1, <1>2
    <2> QED BY <1>2, <2>1
  <1>4. \A i \in 1 .. Len(t) : FrameBinds(t[i])
    BY <1>3 DEF m
  <1> QED BY <1>4 DEF Bound

\* The state of the invariant in terms of the innermost frame.
LEMMA TopBinds ==
  ASSUME TypingInv, BindInv, Parsing
  PROVE  /\ IsSequence(stack) /\ stack # << >> /\ Bound(stack)
         /\ FrameOK(Top) /\ FrameBinds(Top) /\ BarredOK(Top, barred) /\ barred \in Int
  <1>1. IsSequence(stack) /\ stack # << >> /\ FrameOK(Top) /\ 1 \in 1 .. Len(stack)
    <2>1. IsSequence(stack) /\ stack # << >> /\ FrameOK(Top)
      BY TopOK DEF TypingInv
    <2> DEFINE n == Len(stack)
    <2>2. n \in Nat /\ n >= 1
      BY TopOK DEF TypingInv
    <2> HIDE DEF n
    <2>3. 1 \in 1 .. n
      BY <2>2
    <2> QED BY <2>1, <2>3 DEF n
  <1>2. FrameBinds(Top)
    BY <1>1 DEF BindInv, Top
  <1>3. barred \in Int
    BY DEF TypingInv, BooksOK
  <1> QED BY <1>1, <1>2, <1>3 DEF BindInv, Bound

\* A return keeps the operators bound.
LEMMA ReturnKeepsBinding ==
  ASSUME TypingInv, BindInv, Parsing, Returned,
         Top.todo = << >> \/ Top.rule = "blockExpression",
         barred' \in Int, Top.rule = "expression" => barred' <= Top.level
  PROVE  BindInv'
  <1>1. CASE stack' = << >>
    <2>1. Len(<< >>) = 0 /\ 1 .. 0 = {}
      OBVIOUS
    <2>2. Len(stack') = 0
      BY <1>1, <2>1
    <2> QED BY <1>1, <2>1, <2>2 DEF BindInv, Parsing
  <1>2. CASE stack' # << >>
    <2>1. /\ 2 \in 2 .. Len(stack)
          /\ FrameOK(stack[2]) /\ Awaits(stack[2], Top)
          /\ Returns(stack, stack', Context)
      BY <1>2 DEF Returned
    <2>2. IsContextOf(Context, Top)
      BY DEF Context, Node, IsContextOf
    <2>3. Moved(stack[2], stack'[1], Append(stack[2].kids, Context), Tail(stack[2].todo))
      BY <2>1 DEF Returns
    <2>4. FrameBinds(stack[2])
      <3> DEFINE n == Len(stack)
      <3>1. 2 \in 2 .. n
        BY <2>1
      <3>2. \A i \in 1 .. n : FrameBinds(stack[i])
        BY DEF BindInv
      <3> HIDE DEF n
      <3>3. 2 \in 1 .. n
        BY <3>1
      <3> QED BY <3>2, <3>3
    <2> HIDE DEF Context, Top
    <2>5. FrameBinds(stack'[1]) /\ BarredOK(stack'[1], barred')
      BY <2>1, <2>2, <2>3, <2>4, TopBinds, ReturnBinds
    <2>6. Bound(stack')
      BY <2>1, <2>5, TopBinds, BoundReturned
    <2> QED BY <2>5, <2>6 DEF BindInv, Bound, Top
  <1> QED BY <1>1, <1>2

\* A step of the innermost rule method keeps the operators bound.
LEMMA MoveKeepsBinding ==
  ASSUME TypingInv, BindInv, Parsing, NEW kids, NEW todo, Moves(stack, stack', kids, todo),
         FrameBinds(stack'[1]), BarredOK(stack'[1], barred')
  PROVE  BindInv'
  <1>1. Bound(stack')
    BY TopBinds, BoundMoved
  <1> QED BY <1>1 DEF BindInv, Bound, Top

\* In every behaviour of the parser an expression under way has an operator only where its
\* level, the left operand and what is barred allow it, and the right operand still to come is
\* tighter.
THEOREM OperatorsBind == ParserSpec => []BindInv
  <1>1. ASSUME ParserInit PROVE BindInv
    <2> DEFINE f == Frame("crate", 0, 1, 0)
    <2>1. FrameBinds(f) /\ \A bar : BarredOK(f, bar)
      BY EnterBinds
    <2>2. stack = <<f>>
      BY <1>1 DEF ParserInit
    <2> HIDE DEF f
    <2>3. Len(<<f>>) = 1 /\ <<f>>[1] = f /\ 1 .. 1 = {1}
      OBVIOUS
    <2>4. Len(stack) = 1 /\ stack[1] = f
      BY <2>2, <2>3
    <2> QED BY <2>1, <2>3, <2>4 DEF BindInv, Top
  <1>2. ASSUME TypingInv, BindInv, [ParserNext]_parserVars PROVE BindInv'
    <2>1. CASE EnterRule
      <3>1. Parsing /\ barred' = barred
        BY <2>1 DEF EnterRule, AboutTo
      <3>2. PICK owed : Enters(stack, stack', Frame(Next1.rule, Next1.level, Here, owed))
        BY <1>2, <2>1, EnterEffect
      <3> DEFINE f == Frame(Next1.rule, Next1.level, Here, owed)
      <3>3. FrameBinds(f) /\ \A bar : BarredOK(f, bar)
        BY EnterBinds
      <3>4. Enters(stack, stack', f)
        BY <3>2
      <3> HIDE DEF f
      <3>5. Bound(stack')
        BY <1>2, <3>1, <3>3, <3>4, TopBinds, BoundEntered
      <3>6. stack'[1] = f
        BY <3>4 DEF Enters
      <3> QED BY <3>3, <3>5, <3>6 DEF BindInv, Bound, Top
    <2>2. CASE Choose
      <3>1. /\ Parsing /\ Top.todo # << >> /\ Next1.op \in {"decision", "primary"}
            /\ barred' = barred
        BY <2>2 DEF Choose, AboutTo
      <3>2. PICK a \in AlternativesOf(Top.rule, Next1) :
              WellFormed(a) /\ Moves(stack, stack', Top.kids, a \o Rest)
        BY <1>2, <2>2, ChooseEffect
      <3>3. Moved(Top, stack'[1], Top.kids, a \o Tail(Top.todo))
        BY <3>2 DEF Moves, Top, Rest
      <3>4. Head(Top.todo).op \in {"decision", "primary"}
            /\ a \in AlternativesOf(Top.rule, Head(Top.todo))
        BY <3>1, <3>2 DEF Next1
      <3> HIDE DEF Top
      <3>5. FrameBinds(stack'[1]) /\ BarredOK(stack'[1], barred)
        BY <1>2, <3>1, <3>2, <3>3, <3>4, TopBinds, ChoiceBinds
      <3> QED BY <1>2, <3>1, <3>2, <3>5, MoveKeepsBinding
    <2>3. CASE Iterate
      <3>1. Parsing /\ Top.todo # << >> /\ Head(Top.todo).op = "loop" /\ barred' = barred
        BY <2>3 DEF Iterate, AboutTo, Next1
      <3>2. Moves(stack, stack', Top.kids, Next1.body \o Top.todo)
        BY <1>2, <2>3, IterateEffect
      <3>3. Moved(Top, stack'[1], Top.kids, Next1.body \o Top.todo)
        BY <3>2 DEF Moves, Top
      <3> HIDE DEF Top, Next1
      <3>4. FrameBinds(stack'[1]) /\ BarredOK(stack'[1], barred)
        BY <1>2, <3>1, <3>3, TopBinds, LoopBinds
      <3> QED BY <1>2, <3>1, <3>2, <3>4, MoveKeepsBinding
    <2>4. CASE LeaveLoop
      <3>1. /\ Parsing /\ Top.todo # << >> /\ Head(Top.todo).op \in {"loop", "suffixes"}
            /\ barred' = barred
        BY <2>4 DEF LeaveLoop, AboutTo, Next1
      <3>2. Moves(stack, stack', Top.kids, Tail(Top.todo))
        BY <1>2, <2>4, LeaveEffect DEF Rest
      <3>3. Moved(Top, stack'[1], Top.kids, Tail(Top.todo))
        BY <3>2 DEF Moves, Top
      <3> HIDE DEF Top
      <3>4. FrameBinds(stack'[1]) /\ BarredOK(stack'[1], barred)
        BY <1>2, <3>1, <3>3, TopBinds, LoopBinds
      <3> QED BY <1>2, <3>1, <3>2, <3>4, MoveKeepsBinding
    <2>5. CASE Extend
      <3>1. Parsing /\ Top.todo # << >> /\ Head(Top.todo).op = "suffixes" /\ barred' = barred
        BY <2>5 DEF Extend, AboutTo, Next1
      <3>2. PICK p \in Suffix[1].alts :
              /\ Head(p).level \in Top.level .. barred - 1
              /\ WellFormed(p)
              /\ Moves(stack, stack', <<Context>>, Tail(p) \o Top.todo)
        BY <1>2, <2>5, ExtendEffect
      <3>3. Moved(Top, stack'[1], <<Context>>, Tail(p) \o Top.todo)
        BY <3>2 DEF Moves, Top
      <3>4. IsContextOf(Context, Top)
        BY DEF Context, Node, IsContextOf
      <3> HIDE DEF Top, Context
      <3>5. FrameBinds(stack'[1]) /\ BarredOK(stack'[1], barred)
        BY <1>2, <3>1, <3>2, <3>3, <3>4, TopBinds, ExtendBinds
      <3> QED BY <1>2, <3>1, <3>2, <3>5, MoveKeepsBinding
    <2>6. CASE Match
      <3>1. Parsing /\ Top.todo # << >> /\ Head(Top.todo).op \in {"match", "set"}
        BY <2>6 DEF Match, AboutTo, Next1
      <3>2. PICK w : /\ TokenType(w) \in Head(Top.todo).types
                     /\ Moves(stack, stack', Append(Top.kids, Token(w, Here)), Tail(Top.todo))
        BY <1>2, <2>6, MatchEffect DEF Next1, Rest
      <3>3. Moved(Top, stack'[1], Append(Top.kids, Token(w, Here)), Tail(Top.todo))
        BY <3>2 DEF Moves, Top
      <3> HIDE DEF Top, Here
      <3>4. FrameBinds(stack'[1]) /\ BarredOK(stack'[1], barred')
        BY <1>2, <3>1, <3>2, <3>3, TopBinds, MatchBinds
      <3> QED BY <1>2, <3>1, <3>2, <3>4, MoveKeepsBinding
    <2>7. CASE ExitRule
      <3>1. Parsing /\ Top.todo = << >> /\ Returned
        BY <1>2, <2>7, Returning DEF ExitRule
      <3>2. barred' = IF Top.rule = "expression" /\ Top.level < barred THEN Top.level
          ELSE barred
        BY <2>7 DEF ExitRule
      <3>3. Top.level \in Int /\ barred \in Int
        BY <1>2, <3>1, TopBinds DEF FrameOK
      <3>4. barred' \in Int /\ (Top.rule = "expression" => barred' <= Top.level)
        BY <3>2, <3>3
      <3> QED BY <1>2, <3>1, <3>4, ReturnKeepsBinding
    <2>8. CASE MissingToken
      <3>1. /\ Parsing /\ barred' = barred
            /\ Moves(stack, stack', Append(Top.kids, Missing(Here)), << >>)
            /\ Top.rule \in {"letStatement", "blockExpression"}
        BY <1>2, <2>8, MissingEffect DEF MissingToken, RepairDone
      <3>2. Moved(Top, stack'[1], Append(Top.kids, Missing(Here)), << >>)
        BY <3>1 DEF Moves, Top
      <3>3. Top.rule \notin Binding
        BY <3>1 DEF Binding
      <3> HIDE DEF Top, Here
      <3>4. FrameBinds(stack'[1]) /\ BarredOK(stack'[1], barred')
        BY <1>2, <3>1, <3>2, <3>3, TopBinds, MissingBinds
      <3> QED BY <1>2, <3>1, <3>4, MoveKeepsBinding
    <2>9. CASE AbandonBlock
      <3>1. /\ Parsing /\ Top.rule = "blockExpression" /\ Return(Context) /\ barred' = barred
        BY <2>9 DEF AbandonBlock, Repairable, RepairDone
      <3>2. Returned
        BY <1>2, <3>1, Returning
      <3>3. barred' \in Int
        BY <1>2, <3>1, TopBinds
      <3> QED BY <1>2, <3>1, <3>2, <3>3, ReturnKeepsBinding
    <2>10. CASE UNCHANGED parserVars
      BY <1>2, <2>10 DEF parserVars, BindInv, Parsing, Top
    <2> QED BY <1>2, <2>1, <2>2, <2>3, <2>4, <2>5, <2>6, <2>7, <2>8, <2>9, <2>10
        DEF ParserNext
  <1> QED BY <1>1, <1>2, Typing, PTL DEF ParserSpec

\* The invariant implies what is checked.
LEMMA BindingIsPrecedence == TypingInv /\ BindInv => PrecedenceHolds
  <1> SUFFICES ASSUME TypingInv, BindInv PROVE PrecedenceHolds
    OBVIOUS
  <1>1. DOMAIN stack = 1 .. Len(stack)
    BY Lengths DEF TypingInv, StackOK
  <1> QED BY <1>1 DEF BindInv, FrameBinds, PrecedenceHolds

\* However the operators of a source are mixed, in no tree is an operand looser than its
\* operator, or a right operand as loose: the levels of expression(p) and their precpred tests,
\* for sources of every length.
THEOREM Precedence == ParserSpec => []PrecedenceHolds
  BY Typing, OperatorsBind, BindingIsPrecedence, PTL

-----------------------------------------------------------------------------
(* Derivations *)

\* How far a production has been followed: what is left of it, and the number of children it
\* has read.
Stage(todo, read) == [todo |-> todo, read |-> read]

\* What a rule may be rewritten to.  The alternatives of expression are those of the grammar,
\* where the suffixes recur on the left.
ProductionsOf(rule) ==
  IF rule = "expression"
  THEN Primary[1].alts \cup {E(0) \o Tail(p) : p \in Suffix[1].alts}
  ELSE {Production[rule]}

\* The tree t is what a step of a rule method reads, after so many syntax errors.
Accepts(step, t, errors) ==
  \/ step.op \in {"match", "set"} /\ IsToken(t) /\ TokenType(t.word) \in step.types
  \/ step.op = "rule" /\ t.rule = step.rule
  \/ errors > 0 /\ step \in {MatchItem(";"), MatchItem("}")} /\ t = Missing(t.start)

\* The next step of c chooses an alternative, does its body or ends.
Expands(c, d) ==
  \/ /\ Head(c.todo).op = "decision"
     /\ \E a \in Head(c.todo).alts : d = Stage(a \o Tail(c.todo), c.read)
  \/ /\ Head(c.todo).op = "loop"
     /\ \/ d = Stage(Head(c.todo).body \o c.todo, c.read)
        \/ d = Stage(Tail(c.todo), c.read)

\* The next step of c reads the next of the children.
Reads(c, d, kids, errors) ==
  /\ c.read \in 0 .. Len(kids) - 1
  /\ Accepts(Head(c.todo), kids[c.read + 1], errors)
  /\ d = Stage(Tail(c.todo), c.read + 1)

StepTo(c, d, kids, errors) ==
  c.todo # << >> /\ (Expands(c, d) \/ Reads(c, d, kids, errors))

\* run leads from stage c to stage d.
Runs(run, c, d, kids, errors) ==
  /\ IsSequence(run) /\ run # << >>
  /\ run[1] = c /\ run[Len(run)] = d
  /\ \A i \in 1 .. Len(run) - 1 : StepTo(run[i], run[i + 1], kids, errors)

\* A production of the rule derives the children, up to what is left of it.
Derives(rule, kids, todo, errors) ==
  \E run : \E p \in ProductionsOf(rule) :
    Runs(run, Stage(p, 0), Stage(todo, Len(kids)), kids, errors)

\* The tree t is derived by a production of its rule, to its end; or it is a block given up
\* behind its brace after a syntax error.
DerivedWith(t, errors) ==
  \/ IsToken(t)
  \/ Derives(t.rule, t.kids, << >>, errors)
  \/ /\ errors > 0 /\ t.rule = "blockExpression" /\ Len(t.kids) = 1
     /\ \E todo : Derives(t.rule, t.kids, todo, errors)

Derived(t) == DerivedWith(t, repairs)

\* A production has read nothing yet.
LEMMA DerivesStart ==
  ASSUME NEW rule, NEW p \in ProductionsOf(rule), NEW errors
  PROVE  Derives(rule, << >>, p, errors)
  <1> DEFINE c == Stage(p, 0)
             run == <<c>>
  <1>1. IsSequence(run) /\ run # << >> /\ Len(run) = 1 /\ run[1] = c
    BY SequenceFacts
  <1>2. Len(<< >>) = 0
    OBVIOUS
  <1>3. 1 .. 1 - 1 = {}
    OBVIOUS
  <1> HIDE DEF run, c
  <1>4. \A i \in 1 .. Len(run) - 1 : StepTo(run[i], run[i + 1], << >>, errors)
    BY <1>1, <1>3
  <1>5. Runs(run, c, c, << >>, errors)
    BY <1>1, <1>4 DEF Runs
  <1>6. Runs(run, Stage(p, 0), Stage(p, Len(<< >>)), << >>, errors)
    BY <1>2, <1>5 DEF c
  <1> QED BY <1>6 DEF Derives

\* more continues kids.
Continues(more, kids) ==
  /\ Len(kids) \in Nat /\ Len(more) \in Nat /\ Len(kids) <= Len(more)
  /\ \A i \in 1 .. Len(kids) : more[i] = kids[i]

\* What has been followed stays so when there are more children and more errors.
LEMMA StepStays ==
  ASSUME NEW kids, NEW more, Continues(more, kids),
         NEW errors, NEW others, errors > 0 => others > 0,
         NEW c, NEW d, StepTo(c, d, kids, errors)
  PROVE  StepTo(c, d, more, others)
  <1>1. \A step, t : Accepts(step, t, errors) => Accepts(step, t, others)
    BY Zenon DEF Accepts
  <1>2. ASSUME Reads(c, d, kids, errors) PROVE Reads(c, d, more, others)
    <2> DEFINE n == Len(kids)
               m == Len(more)
               r == c.read
    <2>1. r \in 0 .. n - 1 /\ n \in Nat /\ m \in Nat /\ n <= m
      BY <1>2 DEF Reads, Continues
    <2>2. \A i \in 1 .. n : more[i] = kids[i]
      BY DEF Continues
    <2>3. Accepts(Head(c.todo), kids[r + 1], errors) /\ d = Stage(Tail(c.todo), r + 1)
      BY <1>2 DEF Reads
    <2> HIDE DEF n, m, r
    <2>4. r \in 0 .. m - 1 /\ r + 1 \in 1 .. n
      BY <2>1
    <2>5. more[r + 1] = kids[r + 1]
      BY <2>2, <2>4
    <2>6. Accepts(Head(c.todo), more[r + 1], others)
      BY <1>1, <2>3, <2>5
    <2> QED BY <2>3, <2>4, <2>6 DEF Reads, m, r
  <1> QED BY <1>2 DEF StepTo

\* So does what has been derived by following a production.
LEMMA DerivesStays ==
  ASSUME NEW rule, NEW kids, NEW todo, NEW errors, Derives(rule, kids, todo, errors),
         IsSequence(kids), NEW others, errors > 0 => others > 0
  PROVE  Derives(rule, kids, todo, others)
  <1>1. PICK run : \E p \in ProductionsOf(rule) :
                     Runs(run, Stage(p, 0), Stage(todo, Len(kids)), kids, errors)
    BY DEF Derives
  <1>2. PICK p \in ProductionsOf(rule) :
          Runs(run, Stage(p, 0), Stage(todo, Len(kids)), kids, errors)
    BY <1>1
  <1>3. Continues(kids, kids)
    <2> DEFINE n == Len(kids)
    <2>1. n \in Nat
      BY Lengths
    <2> HIDE DEF n
    <2>2. n <= n
      BY <2>1
    <2> QED BY <2>1, <2>2 DEF Continues, n
  <1>4. ASSUME NEW i \in 1 .. Len(run) - 1 PROVE StepTo(run[i], run[i + 1], kids, others)
    <2> DEFINE c == run[i]
               d == run[i + 1]
    <2>1. StepTo(c, d, kids, errors)
      BY <1>2 DEF Runs
    <2> HIDE DEF c, d
    <2>2. StepTo(c, d, kids, others)
      BY <1>3, <2>1, StepStays
    <2> QED BY <2>2 DEF c, d
  <1>5. Runs(run, Stage(p, 0), Stage(todo, Len(kids)), kids, others)
    BY <1>2, <1>4 DEF Runs
  <1> QED BY <1>5 DEF Derives

\* A production is followed one step further.
LEMMA DerivesOn ==
  ASSUME NEW rule, NEW kids, NEW todo, NEW errors, Derives(rule, kids, todo, errors),
         NEW more, Continues(more, kids), NEW others, errors > 0 => others > 0,
         NEW next, StepTo(Stage(todo, Len(kids)), Stage(next, Len(more)), more, others)
  PROVE  Derives(rule, more, next, others)
  <1> DEFINE d == Stage(todo, Len(kids))
             e == Stage(next, Len(more))
  <1>1. PICK run : \E p \in ProductionsOf(rule) : Runs(run, Stage(p, 0), d, kids, errors)
    BY DEF Derives
  <1>2. PICK p \in ProductionsOf(rule) : Runs(run, Stage(p, 0), d, kids, errors)
    BY <1>1
  <1> DEFINE n == Len(run)
             longer == Append(run, e)
             c == Stage(p, 0)
  <1>3. /\ IsSequence(run) /\ run # << >> /\ run[1] = c /\ run[n] = d
        /\ \A i \in 1 .. n - 1 : StepTo(run[i], run[i + 1], kids, errors)
    BY <1>2 DEF Runs
  <1>4. n \in Nat /\ n # 0
    BY <1>3, Lengths
  <1>5. /\ Len(longer) = n + 1 /\ longer[n + 1] = e
        /\ \A i \in 1 .. n : longer[i] = run[i]
        /\ longer # << >> /\ IsSequence(longer)
    BY <1>3, Appended, SequenceFacts
  <1>6. StepTo(d, e, more, others)
    OBVIOUS
  <1> HIDE DEF n, longer, c, d, e
  <1>7. ASSUME NEW i \in 1 .. n PROVE StepTo(longer[i], longer[i + 1], more, others)
    <2>1. CASE i = n
      <3>1. longer[i] = d /\ longer[i + 1] = e
        BY <1>3, <1>5, <2>1
      <3> QED BY <1>6, <3>1
    <2>2. CASE i # n
      <3>1. i \in 1 .. n - 1 /\ i \in 1 .. n /\ i + 1 \in 1 .. n
        BY <1>4, <2>2
      <3>2. StepTo(run[i], run[i + 1], kids, errors)
        BY <1>3, <3>1
      <3>3. StepTo(run[i], run[i + 1], more, others)
        BY <3>2, StepStays
      <3> QED BY <1>5, <3>1, <3>3
    <2> QED BY <2>1, <2>2
  <1>8. longer[1] = c /\ longer[Len(longer)] = e
    <2>1. 1 \in 1 .. n
      BY <1>4
    <2> QED BY <1>3, <1>5, <2>1
  <1>9. \A i \in 1 .. Len(longer) - 1 : StepTo(longer[i], longer[i + 1], more, others)
    <2>1. (n + 1) - 1 = n
      BY <1>4
    <2> QED BY <1>5, <1>7, <2>1
  <1>10. Runs(longer, c, e, more, others)
    BY <1>5, <1>8, <1>9 DEF Runs
  <1> QED BY <1>10 DEF Derives, c, e

\* A child more continues the children.
LEMMA OneMoreContinues ==
  ASSUME NEW kids, IsSequence(kids), NEW t
  PROVE  /\ Continues(kids, kids)
         /\ Continues(Append(kids, t), kids)
         /\ Len(kids) \in 0 .. Len(Append(kids, t)) - 1
         /\ Append(kids, t)[Len(kids) + 1] = t
         /\ Len(Append(kids, t)) = Len(kids) + 1
  <1> DEFINE n == Len(kids)
             m == Len(Append(kids, t))
  <1>1. n \in Nat
    BY Lengths
  <1>2. /\ m = n + 1 /\ Append(kids, t)[n + 1] = t
        /\ \A i \in 1 .. n : Append(kids, t)[i] = kids[i]
    BY Appended
  <1> HIDE DEF n, m
  <1>3. m \in Nat /\ n <= m /\ n <= n /\ n \in 0 .. m - 1
    BY <1>1, <1>2
  <1> QED BY <1>1, <1>2, <1>3 DEF Continues, n, m

-----------------------------------------------------------------------------
(* Derivations: rule methods *)

\* What the first step of a production leads to.
LEMMA PlainHeadOf ==
  ASSUME NEW p, Plain(p), p # << >>
  PROVE  /\ Plain(Tail(p))
         /\ Head(p).op \notin LeftRecursion
         /\ Head(p).op = "decision" => \A a \in Head(p).alts : Plain(a)
         /\ Head(p).op = "loop" => Plain(Head(p).body)
  <1>1. PICK S : Closed(S) /\ p \in Seq(S)
    BY DEF Plain
  <1>2. Head(p) \in S /\ Tail(p) \in Seq(S)
    BY <1>1
  <1> DEFINE t == Head(p)
  <1> HIDE DEF t
  <1>3. t \in S
    BY <1>2 DEF t
  <1>4. \A q : q \in Seq(S) => Plain(q)
    BY <1>1 DEF Plain
  <1>5. /\ t.op \notin LeftRecursion
        /\ t.op = "decision" => \A a \in t.alts : Plain(a)
        /\ t.op = "loop" => Plain(t.body)
    BY <1>1, <1>3, <1>4 DEF Closed
  <1> QED BY <1>2, <1>4, <1>5 DEF t

\* The rest of a rule method is what is left of a production that derives its children so far,
\* and the suffixes if it is an expression with something to extend.
FollowsFrom(f, q, r, errors) ==
  /\ Plain(q) /\ f.todo = q \o r
  /\ r = << >> \/ (r = Suffixing /\ f.rule = "expression")
  /\ Derives(f.rule, f.kids, q, errors)

\* The inductive invariant of derivations: a rule method.
FrameDerives(f, errors) ==
  \/ f.rule = "expression" /\ f.kids = << >> /\ f.todo = expression
  \/ \E q, r : FollowsFrom(f, q, r, errors)

\* What a rule method does next, but for the start of an expression, is the next step of its
\* production, or the suffixes if there is none.
LEMMA Following ==
  ASSUME NEW f, NEW q, NEW r, NEW errors, FollowsFrom(f, q, r, errors)
  PROVE  /\ IsSequence(q) /\ IsSequence(r)
         /\ f.todo = << >> => q = << >>
         /\ q # << >> => /\ Head(f.todo) = Head(q) /\ Tail(f.todo) = Tail(q) \o r
                         /\ Head(f.todo).op \notin LeftRecursion
                         /\ f.todo # << >>
         /\ q = << >> /\ f.todo # << >> =>
              f.rule = "expression" /\ f.todo = Suffixing /\ Head(f.todo).op = "suffixes"
  <1>1. IsSequence(q)
    BY PlainIsSequence DEF FollowsFrom
  <1>2. IsSequence(r)
    BY SequenceFacts, ExpressionStarts DEF FollowsFrom
  <1>3. f.todo = q \o r
    BY DEF FollowsFrom
  <1>4. ASSUME q # << >>
        PROVE  /\ Head(f.todo) = Head(q) /\ Tail(f.todo) = Tail(q) \o r /\ f.todo # << >>
               /\ Head(f.todo).op \notin LeftRecursion
    <2>1. q \o r # << >> /\ Head(q \o r) = Head(q) /\ Tail(q \o r) = Tail(q) \o r
      BY <1>1, <1>2, <1>4, JoinedTail
    <2>2. Head(q).op \notin LeftRecursion
      BY <1>4, PlainHeadOf DEF FollowsFrom
    <2> QED BY <1>3, <2>1, <2>2
  <1>5. ASSUME q = << >>, f.todo # << >>
        PROVE  f.rule = "expression" /\ f.todo = Suffixing /\ Head(f.todo).op = "suffixes"
    <2>1. f.todo = r
      BY <1>2, <1>3, <1>5, EmptyJoined
    <2>2. r = Suffixing /\ f.rule = "expression"
      BY <1>5, <2>1 DEF FollowsFrom
    <2> QED BY <2>1, <2>2, ExpressionStarts
  <1> QED BY <1>1, <1>2, <1>4, <1>5

\* A rule method that does anything but begin an expression or extend it follows its
\* production.
LEMMA InProduction ==
  ASSUME NEW f, NEW errors, FrameDerives(f, errors), f.todo # << >>,
         Head(f.todo).op \notin LeftRecursion
  PROVE  \E q, r : /\ FollowsFrom(f, q, r, errors) /\ q # << >>
                   /\ IsSequence(q) /\ IsSequence(r)
                   /\ Head(f.todo) = Head(q) /\ Tail(f.todo) = Tail(q) \o r
                   /\ Plain(Tail(q))
  <1>1. ~(f.todo = expression)
    BY ExpressionStarts DEF LeftRecursion
  <1>2. PICK q, r : FollowsFrom(f, q, r, errors)
    BY <1>1 DEF FrameDerives
  <1>3. q # << >>
    BY <1>2, Following DEF LeftRecursion
  <1>4. Plain(Tail(q))
    BY <1>2, <1>3, PlainHeadOf DEF FollowsFrom
  <1> QED BY <1>2, <1>3, <1>4, Following

\* A rule method entered.
LEMMA EnterDerives ==
  ASSUME NEW rule \in Rules, NEW level, NEW start, NEW owed, NEW errors
  PROVE  FrameDerives(Frame(rule, level, start, owed), errors)
  <1> DEFINE f == Frame(rule, level, start, owed)
  <1>1. f.rule = rule /\ f.kids = << >> /\ f.todo = Production[rule]
    BY DEF Frame
  <1> HIDE DEF f
  <1>2. ASSUME rule = "expression" PROVE FrameDerives(f, errors)
    BY <1>1, <1>2, FirstProductions DEF FrameDerives
  <1>3. ASSUME rule # "expression" PROVE FrameDerives(f, errors)
    <2> DEFINE q == Production[rule]
    <2>1. Plain(q)
      BY <1>3, PlainProductions
    <2>2. q \in ProductionsOf(rule)
      BY <1>3 DEF ProductionsOf
    <2> HIDE DEF q
    <2>3. Derives(rule, << >>, q, errors)
      BY <2>2, DerivesStart
    <2>4. q = q \o << >>
      BY <2>1, PlainIsSequence, EmptyJoined
    <2>5. f.todo = q
      BY <1>1 DEF q
    <2>6. FollowsFrom(f, q, << >>, errors)
      BY <1>1, <2>1, <2>3, <2>4, <2>5 DEF FollowsFrom
    <2> QED BY <2>6 DEF FrameDerives
  <1> QED BY <1>2, <1>3 DEF f

\* Three sequences can be grouped either way.
Grouped(p, q, r) == (p \o q) \o r = p \o (q \o r)

\* As joining is associative.
LEMMA SequencesGrouped ==
  \A p, q, r : IsSequence(p) /\ IsSequence(q) /\ IsSequence(r) => Grouped(p, q, r)
  BY JoinedThrice, SMTT(30) DEF Grouped

\* What is put before the rest of a rule method.
LEMMA PutBefore ==
  ASSUME NEW g, NEW a, Plain(a), NEW left, Plain(left), NEW r, IsSequence(r),
         g.todo = a \o (left \o r), NEW errors,
         Derives(g.rule, g.kids, a \o left, errors),
         r = << >> \/ (r = Suffixing /\ g.rule = "expression")
  PROVE  FrameDerives(g, errors)
  <1>1. IsSequence(a) /\ IsSequence(left)
    BY PlainIsSequence
  <1>2. Grouped(a, left, r)
    BY <1>1, SequencesGrouped, Zenon
  <1>3. Plain(a \o left)
    BY PlainSequence
  <1> DEFINE q == a \o left
  <1>4. g.todo = q \o r
    BY <1>2, Zenon DEF Grouped
  <1> HIDE DEF q
  <1>5. FollowsFrom(g, q, r, errors)
    BY <1>3, <1>4 DEF FollowsFrom, q
  <1> QED BY <1>5 DEF FrameDerives

\* A step that leaves the children, and takes an alternative of a decision, does the body of a
\* loop or leaves it.
LEMMA ExpandDerives ==
  ASSUME NEW f, NEW errors, FrameDerives(f, errors), IsSequence(f.kids), f.todo # << >>,
         Head(f.todo).op \in {"decision", "loop"},
         NEW a, a = << >> \/ Plain(a),
         NEW g, NEW rest,
         rest \in {Tail(f.todo), f.todo}, Moved(f, g, f.kids, a \o rest),
         \/ /\ Head(f.todo).op = "decision" /\ a \in Head(f.todo).alts
            /\ rest = Tail(f.todo)
         \/ Head(f.todo).op = "loop" /\ a = Head(f.todo).body /\ rest = f.todo
         \/ Head(f.todo).op = "loop" /\ a = << >> /\ rest = Tail(f.todo)
  PROVE  FrameDerives(g, errors)
  <1>1. PICK q, r : /\ FollowsFrom(f, q, r, errors) /\ q # << >>
                    /\ IsSequence(q) /\ IsSequence(r)
                    /\ Head(f.todo) = Head(q) /\ Tail(f.todo) = Tail(q) \o r
                    /\ Plain(Tail(q))
    BY InProduction DEF LeftRecursion
  <1>2. Plain(a) /\ IsSequence(a)
    BY PlainAtoms, PlainIsSequence
  <1>3. PICK left : /\ left = Tail(q) \/ left = q
                    /\ rest = left \o r
                    /\ \/ /\ Head(q).op = "decision" /\ a \in Head(q).alts
                          /\ left = Tail(q)
                       \/ Head(q).op = "loop" /\ a = Head(q).body /\ left = q
                       \/ Head(q).op = "loop" /\ a = << >> /\ left = Tail(q)
    BY <1>1, Zenon DEF FollowsFrom
  <1>4. Plain(left) /\ IsSequence(left)
    BY <1>1, <1>3, PlainIsSequence DEF FollowsFrom
  <1> DEFINE s == a \o left
  <1>5. left = Tail(q) /\ a = << >> => s = Tail(q)
    BY <1>4, EmptyJoined
  <1> DEFINE c == Stage(q, Len(f.kids))
             d == Stage(s, Len(f.kids))
  <1>6. c.todo = q /\ c.read = Len(f.kids)
    BY DEF Stage
  <1>7. Expands(c, d)
    <2>1. CASE Head(q).op = "decision" /\ a \in Head(q).alts /\ left = Tail(q)
      BY <1>6, <2>1, Zenon DEF Expands
    <2>2. CASE Head(q).op = "loop" /\ a = Head(q).body /\ left = q
      BY <1>6, <2>2, Zenon DEF Expands
    <2>3. CASE Head(q).op = "loop" /\ a = << >> /\ left = Tail(q)
      BY <1>5, <1>6, <2>3, Zenon DEF Expands
    <2> QED BY <1>3, <2>1, <2>2, <2>3
  <1>8. StepTo(c, d, f.kids, errors)
    BY <1>1, <1>6, <1>7 DEF StepTo
  <1>9. Continues(f.kids, f.kids)
    BY OneMoreContinues
  <1>10. Derives(f.rule, f.kids, q, errors)
    BY <1>1 DEF FollowsFrom
  <1> HIDE DEF s
  <1>11. Derives(f.rule, f.kids, s, errors)
    BY <1>8, <1>9, <1>10, DerivesOn
  <1>12. /\ g.rule = f.rule /\ g.kids = f.kids /\ g.todo = a \o (left \o r)
         /\ r = << >> \/ (r = Suffixing /\ g.rule = "expression")
    BY <1>1, <1>3 DEF FollowsFrom, Moved
  <1>13. Derives(g.rule, g.kids, a \o left, errors)
    BY <1>11, <1>12 DEF s
  <1> QED BY <1>1, <1>2, <1>4, <1>12, <1>13, PutBefore

\* A step that reads a child.
LEMMA ReadDerives ==
  ASSUME NEW f, NEW errors, FrameDerives(f, errors), IsSequence(f.kids), f.todo # << >>,
         Head(f.todo).op \in {"match", "set", "rule"},
         NEW others, errors > 0 => others > 0,
         NEW t, Accepts(Head(f.todo), t, others),
         NEW g, Moved(f, g, Append(f.kids, t), Tail(f.todo))
  PROVE  FrameDerives(g, others)
  <1>1. PICK q, r : /\ FollowsFrom(f, q, r, errors) /\ q # << >>
                    /\ IsSequence(q) /\ IsSequence(r)
                    /\ Head(f.todo) = Head(q) /\ Tail(f.todo) = Tail(q) \o r
                    /\ Plain(Tail(q))
    BY InProduction DEF LeftRecursion
  <1> DEFINE kids == f.kids
             more == Append(kids, t)
             c == Stage(q, Len(kids))
             d == Stage(Tail(q), Len(more))
  <1>2. /\ Continues(more, kids)
        /\ Len(kids) \in 0 .. Len(more) - 1
        /\ more[Len(kids) + 1] = t
        /\ Len(more) = Len(kids) + 1
    BY OneMoreContinues
  <1>3. c.todo = q /\ c.read = Len(kids)
    BY DEF Stage
  <1>4. Accepts(Head(q), t, others)
    BY <1>1
  <1> HIDE DEF more, c, kids
  <1>5. Reads(c, d, more, others)
    BY <1>2, <1>3, <1>4 DEF Reads
  <1>6. StepTo(c, d, more, others)
    BY <1>1, <1>3, <1>5 DEF StepTo
  <1>7. Derives(f.rule, kids, q, errors)
    BY <1>1 DEF FollowsFrom, kids
  <1>8. Derives(f.rule, more, Tail(q), others)
    BY <1>2, <1>6, <1>7, DerivesOn DEF c
  <1>9. FollowsFrom(g, Tail(q), r, others)
    BY <1>1, <1>8 DEF FollowsFrom, Moved, more, kids
  <1> QED BY <1>9 DEF FrameDerives

\* An expression takes a primary.
LEMMA PrimaryDerives ==
  ASSUME NEW f, NEW errors, FrameDerives(f, errors), f.todo # << >>,
         Head(f.todo).op = "primary", NEW a \in Primary[1].alts,
         NEW g, Moved(f, g, f.kids, a \o Tail(f.todo))
  PROVE  FrameDerives(g, errors)
  <1>1. f.rule = "expression" /\ f.kids = << >> /\ f.todo = expression
    <2> SUFFICES ASSUME NEW q, NEW r, FollowsFrom(f, q, r, errors) PROVE FALSE
      BY DEF FrameDerives
    <2>1. CASE q # << >>
      BY <2>1, Following DEF LeftRecursion
    <2>2. CASE q = << >>
      BY <2>2, Following
    <2> QED BY <2>1, <2>2
  <1>2. a \in ProductionsOf(g.rule)
    BY <1>1 DEF Moved, ProductionsOf
  <1>3. Derives(g.rule, << >>, a, errors)
    BY <1>2, DerivesStart
  <1>4. g.rule = "expression" /\ g.kids = << >> /\ g.todo = a \o Suffixing
    BY <1>1, ExpressionStarts DEF Moved
  <1>5. Plain(a)
    BY PrimaryPlain
  <1>6. FollowsFrom(g, a, Suffixing, errors)
    BY <1>3, <1>4, <1>5 DEF FollowsFrom
  <1> QED BY <1>6 DEF FrameDerives

\* An expression with its production behind it.
LEMMA BeforeSuffixes ==
  ASSUME NEW f, NEW errors, FrameDerives(f, errors), f.todo # << >>,
         Head(f.todo).op = "suffixes"
  PROVE  /\ f.rule = "expression" /\ f.todo = Suffixing
         /\ Derives(f.rule, f.kids, << >>, errors)
  <1>1. ~(f.todo = expression)
    BY ExpressionStarts
  <1>2. PICK q, r : FollowsFrom(f, q, r, errors)
    BY <1>1 DEF FrameDerives
  <1>3. q = << >>
    BY <1>2, Following DEF LeftRecursion
  <1> QED BY <1>2, <1>3, Following DEF FollowsFrom

\* An expression ends behind its suffixes.
LEMMA EndDerives ==
  ASSUME NEW f, NEW errors, FrameDerives(f, errors), f.todo # << >>,
         Head(f.todo).op = "suffixes", NEW g, Moved(f, g, f.kids, Tail(f.todo))
  PROVE  FrameDerives(g, errors)
  <1>1. /\ f.todo = Suffixing /\ Derives(f.rule, f.kids, << >>, errors)
    BY BeforeSuffixes
  <1>2. g.rule = f.rule /\ g.kids = f.kids /\ g.todo = << >>
    BY <1>1, ExpressionStarts DEF Moved
  <1>3. << >> \o << >> = << >> /\ Plain(<< >>)
    BY EmptyJoined, SequenceFacts, PlainAtoms
  <1>4. FollowsFrom(g, << >>, << >>, errors)
    BY <1>1, <1>2, <1>3 DEF FollowsFrom
  <1> QED BY <1>4 DEF FrameDerives

\* An expression extended: its context is what the production of the suffix, which recurs on
\* the left, reads first.
LEMMA ExtendDerives ==
  ASSUME NEW f, NEW errors, FrameDerives(f, errors), f.todo # << >>,
         Head(f.todo).op = "suffixes", NEW p \in Suffix[1].alts, p # << >>,
         NEW t, t.rule = f.rule, NEW g, Moved(f, g, <<t>>, Tail(p) \o f.todo)
  PROVE  FrameDerives(g, errors)
  <1>1. f.rule = "expression" /\ f.todo = Suffixing
    BY BeforeSuffixes
  <1> DEFINE q == Tail(p)
             left == Call("expression", 0)
  <1>2. Plain(q) /\ IsSequence(q)
    BY SuffixPlain, PlainHeadOf, PlainIsSequence
  <1>3. E(0) = <<left>>
    BY Zenon DEF E, Call
  <1>4. left.op = "rule" /\ left.rule = "expression"
    BY DEF Call
  <1>5. E(0) \o q \in ProductionsOf("expression")
    BY DEF ProductionsOf
  <1> HIDE DEF left
  <1>6. E(0) \o q # << >> /\ Head(E(0) \o q) = left /\ Tail(E(0) \o q) = q
    <2>1. <<left>> \o q # << >> /\ Head(<<left>> \o q) = left /\ Tail(<<left>> \o q) = q
      BY <1>2, OneJoined
    <2> QED BY <1>3, <2>1, Zenon
  <1> DEFINE whole == E(0) \o q
  <1> HIDE DEF whole, q
  <1>7. Derives("expression", << >>, whole, errors)
    BY <1>5, DerivesStart DEF whole
  <1>8. /\ Continues(Append(<< >>, t), << >>)
        /\ Len(<< >>) \in 0 .. Len(Append(<< >>, t)) - 1
        /\ Append(<< >>, t)[Len(<< >>) + 1] = t
        /\ Len(Append(<< >>, t)) = Len(<< >>) + 1
    BY OneMoreContinues, SequenceFacts
  <1> DEFINE none == << >>
             one == Append(none, t)
             c == Stage(whole, Len(none))
             d == Stage(q, Len(one))
  <1>9. one = <<t>>
    OBVIOUS
  <1>10. c.todo = whole /\ c.read = Len(none)
    BY DEF Stage
  <1>11. Accepts(left, t, errors)
    BY <1>1, <1>4, Zenon DEF Accepts
  <1>12. /\ Continues(one, none) /\ Len(none) \in 0 .. Len(one) - 1
         /\ one[Len(none) + 1] = t /\ Len(one) = Len(none) + 1
    BY <1>8
  <1>13. whole # << >> /\ Head(whole) = left /\ Tail(whole) = q
    BY <1>6 DEF whole
  <1>14. Derives("expression", none, whole, errors)
    BY <1>7
  <1> HIDE DEF none, one, c
  <1>15. Reads(c, d, one, errors)
    BY <1>10, <1>11, <1>12, <1>13 DEF Reads
  <1>16. StepTo(c, d, one, errors)
    BY <1>10, <1>13, <1>15 DEF StepTo
  <1>17. Derives("expression", one, q, errors)
    BY <1>12, <1>14, <1>16, DerivesOn DEF c
  <1>18. g.rule = "expression" /\ g.kids = one /\ g.todo = q \o Suffixing
    BY <1>1, <1>9 DEF Moved, q
  <1>19. FollowsFrom(g, q, Suffixing, errors)
    BY <1>2, <1>17, <1>18 DEF FollowsFrom, q
  <1> QED BY <1>19 DEF FrameDerives

\* The context of a rule method that has ended, or may be extended, is derived.
LEMMA ContextDerived ==
  ASSUME NEW f, NEW errors, FrameDerives(f, errors), NEW t, IsContextOf(t, f),
         f.todo = << >> \/ Head(f.todo).op = "suffixes"
  PROVE  DerivedWith(t, errors)
  <1>1. t.rule = f.rule /\ t.kids = f.kids
    BY DEF IsContextOf
  <1>2. CASE f.todo # << >>
    <2>1. Derives(f.rule, f.kids, << >>, errors)
      BY <1>2, BeforeSuffixes
    <2> QED BY <1>1, <2>1 DEF DerivedWith
  <1>3. CASE f.todo = << >>
    <2>1. ~(f.todo = expression)
      BY <1>3, ExpressionStarts
    <2>2. PICK q, r : FollowsFrom(f, q, r, errors)
      BY <2>1 DEF FrameDerives
    <2>3. q = << >>
      BY <1>3, <2>2, Following
    <2>4. Derives(f.rule, f.kids, << >>, errors)
      BY <2>2, <2>3 DEF FollowsFrom
    <2> QED BY <1>1, <2>4 DEF DerivedWith
  <1> QED BY <1>2, <1>3

\* So is that of a block given up behind its brace.
LEMMA AbandonedDerived ==
  ASSUME NEW f, NEW errors, FrameDerives(f, errors), NEW t, IsContextOf(t, f),
         IsSequence(f.kids), f.rule = "blockExpression", Len(f.kids) = 1,
         NEW others, others > 0
  PROVE  DerivedWith(t, others)
  <1>1. t.rule = f.rule /\ t.kids = f.kids
    BY DEF IsContextOf
  <1>2. PICK q, r : FollowsFrom(f, q, r, errors)
    BY DEF FrameDerives
  <1>3. Derives(f.rule, f.kids, q, errors)
    BY <1>2 DEF FollowsFrom
  <1>4. Derives(f.rule, f.kids, q, others)
    BY <1>3, DerivesStays
  <1>5. \E todo : Derives(t.rule, t.kids, todo, others)
    BY <1>1, <1>4
  <1> QED BY <1>1, <1>5 DEF DerivedWith

\* What has been derived stays so when there are more errors.
LEMMA FrameStays ==
  ASSUME NEW f, NEW errors, FrameDerives(f, errors), IsSequence(f.kids),
         NEW others, errors > 0 => others > 0
  PROVE  FrameDerives(f, others)
  <1>1. CASE f.rule = "expression" /\ f.kids = << >> /\ f.todo = expression
    BY <1>1 DEF FrameDerives
  <1>2. CASE \E q, r : FollowsFrom(f, q, r, errors)
    <2>1. PICK q, r : FollowsFrom(f, q, r, errors)
      BY <1>2
    <2>2. Derives(f.rule, f.kids, q, others)
      BY <2>1, DerivesStays DEF FollowsFrom
    <2>3. FollowsFrom(f, q, r, others)
      BY <2>1, <2>2 DEF FollowsFrom
    <2> QED BY <2>3 DEF FrameDerives
  <1> QED BY <1>1, <1>2 DEF FrameDerives

\* So does a tree.
LEMMA DerivedStays ==
  ASSUME NEW t, NEW errors, DerivedWith(t, errors), IsSequence(t.kids),
         NEW others, errors > 0 => others > 0
  PROVE  DerivedWith(t, others)
  <1>1. \A todo : Derives(t.rule, t.kids, todo, errors) => Derives(t.rule, t.kids, todo, others)
    BY DerivesStays
  <1> QED BY <1>1 DEF DerivedWith

-----------------------------------------------------------------------------
(* Whole trees *)

\* A non-empty set of naturals has a least element.
LEMMA LeastPlace ==
  ASSUME NEW A, A \subseteq Nat, A # {}
  PROVE  \E x \in A : \A y \in A : x <= y
  <1> DEFINE Less == {ss \in Nat \X Nat : ss[1] < ss[2]}
  <1>1. IsWellFoundedOn(Less, Nat)
    BY NatLessThanWellFounded DEF OpToRel
  <1> HIDE DEF Less
  <1>2. \E x \in A : \A y \in A : <<y, x>> \notin Less
    BY <1>1, WFMin
  <1>3. \A x, y \in A : <<y, x>> \notin Less => x <= y
    BY DEF Less
  <1> QED BY <1>2, <1>3

\* Children without gaps share out the places between them.
LEMMA PlacesShared ==
  ASSUME NEW kids, IsSequence(kids), NEW first \in Int, NEW last \in Int,
         Tiles(kids, first, last),
         \A j \in DOMAIN kids : kids[j].start \in Int /\ kids[j].stop \in Int,
         NEW i \in first .. last
  PROVE  \E j \in DOMAIN kids : i \in kids[j].start .. kids[j].stop
  <1> DEFINE n == Len(kids)
             A == {j \in 1 .. n : i <= kids[j].stop}
  <1>1. n \in Nat /\ DOMAIN kids = 1 .. n /\ (kids = << >> <=> n = 0)
    BY Lengths
  <1>2. /\ kids = << >> => last = first - 1
        /\ kids # << >> => kids[1].start = first
        /\ \A j \in DOMAIN kids :
             kids[j].stop = IF j = Len(kids) THEN last ELSE kids[j + 1].start - 1
    BY DEF Tiles
  <1>3. \A j \in 1 .. n : kids[j].stop = IF j = n THEN last ELSE kids[j + 1].start - 1
    BY <1>1, <1>2
  <1>4. n # 0
    BY <1>1, <1>2
  <1> HIDE DEF n
  <1>5. n \in A
    <2>1. n \in 1 .. n
      BY <1>1, <1>4
    <2> QED BY <1>3, <2>1
  <1>6. PICK j \in A : \A k \in A : j <= k
    <2>1. A \subseteq Nat
      OBVIOUS
    <2> HIDE DEF A
    <2> QED BY <1>5, <2>1, LeastPlace
  <1>7. j \in 1 .. n /\ i <= kids[j].stop
    BY <1>6
  <1>8. kids[j].start <= i
    <2>1. CASE j = 1
      BY <1>1, <1>2, <1>4, <2>1
    <2>2. CASE j # 1
      <3>1. j - 1 \in 1 .. n /\ j - 1 # n /\ (j - 1) + 1 = j
        BY <1>1, <1>7, <2>2
      <3>2. j - 1 \notin A
        <4>1. ~(j <= j - 1)
          BY <1>7
        <4> QED BY <1>6, <4>1
      <3>3. ~(i <= kids[j - 1].stop)
        BY <3>1, <3>2
      <3>4. kids[j - 1].stop = kids[j].start - 1
        BY <1>3, <3>1
      <3>5. kids[j].start \in Int /\ i \in Int
        BY <1>1, <1>7
      <3> QED BY <3>3, <3>4, <3>5
    <2> QED BY <2>1, <2>2
  <1>9. kids[j].start \in Int /\ kids[j].stop \in Int
    BY <1>1, <1>7
  <1>10. i \in kids[j].start .. kids[j].stop
    BY <1>7, <1>8, <1>9
  <1> QED BY <1>1, <1>7, <1>10

\* With a tree, S has the trees below it.
Hereditary(S) == \A n \in S : \A j \in DOMAIN n.kids : n.kids[j] \in S

\* The tree t has the words of its places below it.
HoldsIn(s, t) ==
  /\ t.start \in Int /\ t.stop \in Int
  /\ \A i \in t.start .. t.stop :
       /\ i \in DOMAIN s
       /\ \A S : t \in S /\ Hereditary(S) => Token(s[i], i) \in S

\* The tree t is as the grammar and the source s want it, after so many errors.
NodeOK(s, errors, t) ==
  /\ IsSequence(t.kids)
  /\ CoversIn(s, t)
  /\ HoldsIn(s, t)
  /\ Binds(t)
  /\ DerivedWith(t, errors)

\* It stays so when a word is read or an error is met.
LEMMA NodeStays ==
  ASSUME NEW s, IsSequence(s), NEW u, u = s \/ \E w : u = Append(s, w),
         NEW errors, NEW others, errors > 0 => others > 0,
         NEW t, NodeOK(s, errors, t)
  PROVE  NodeOK(u, others, t)
  <1> DEFINE n == Len(s)
  <1>1. n \in Nat /\ DOMAIN s = 1 .. n
    BY Lengths
  <1> HIDE DEF n
  <1>2. /\ \A i \in DOMAIN s : i \in DOMAIN u /\ u[i] = s[i]
        /\ CoversIn(u, t)
    <2>1. CASE u = s
      BY <2>1 DEF NodeOK
    <2>2. CASE \E w : u = Append(s, w)
      <3>1. PICK w : u = Append(s, w)
        BY <2>2
      <3>2. IsSequence(u) /\ Len(u) = n + 1 /\ \A i \in 1 .. n : u[i] = s[i]
        BY <3>1, SequenceFacts, Appended DEF n
      <3>3. DOMAIN u = 1 .. n + 1
        BY <3>2, Lengths
      <3>4. \A i \in 1 .. n : i \in 1 .. n + 1
        BY <1>1
      <3>5. CoversIn(u, t)
        BY <3>1, CoversGrown DEF NodeOK
      <3> QED BY <1>1, <3>2, <3>3, <3>4, <3>5
    <2> QED BY <2>1, <2>2
  <1>3. HoldsIn(u, t)
    <2>1. HoldsIn(s, t)
      BY DEF NodeOK
    <2>2. ASSUME NEW i \in t.start .. t.stop
          PROVE  /\ i \in DOMAIN u
                 /\ \A S : t \in S /\ Hereditary(S) => Token(u[i], i) \in S
      <3>1. /\ i \in DOMAIN s
            /\ \A S : t \in S /\ Hereditary(S) => Token(s[i], i) \in S
        BY <2>1 DEF HoldsIn
      <3>2. i \in DOMAIN u /\ u[i] = s[i]
        BY <1>2, <3>1
      <3> QED BY <3>1, <3>2
    <2> QED BY <2>1, <2>2 DEF HoldsIn
  <1>4. DerivedWith(t, others)
    BY DerivedStays DEF NodeOK
  <1> QED BY <1>2, <1>3, <1>4 DEF NodeOK

\* A token just read.
LEMMA TokenOK ==
  ASSUME NEW s, IsSequence(s), NEW w, NEW errors
  PROVE  NodeOK(Append(s, w), errors, Token(w, Len(s) + 1))
  <1> DEFINE u == Append(s, w)
             n == Len(s) + 1
             t == Token(w, n)
  <1>1. n \in Nat /\ n \in DOMAIN u /\ u[n] = w
    <2> DEFINE m == Len(s)
    <2>1. m \in Nat
      BY Lengths
    <2>2. IsSequence(u) /\ Len(u) = m + 1 /\ u[m + 1] = w
      BY SequenceFacts, Appended
    <2>3. DOMAIN u = 1 .. m + 1
      BY <2>2, Lengths
    <2> HIDE DEF m, u
    <2>4. m + 1 \in Nat /\ m + 1 \in 1 .. m + 1
      BY <2>1
    <2> QED BY <2>2, <2>3, <2>4 DEF m
  <1>2. t.rule = "<token>" /\ t.start = n /\ t.stop = n /\ t.kids = << >>
    BY DEF Token
  <1>3. CoversIn(u, t)
    BY TokensCover
  <1>4. t = Token(u[n], n)
    BY <1>1
  <1> HIDE DEF u, n, t
  <1>5. HoldsIn(u, t)
    <2>1. n .. n = {n} /\ n \in Int
      BY <1>1
    <2> QED BY <1>1, <1>2, <1>4, <2>1 DEF HoldsIn
  <1>6. Binds(t)
    BY <1>2, OnlyExpressionsBind
  <1>7. NodeOK(u, errors, t)
    BY <1>2, <1>3, <1>5, <1>6, SequenceFacts DEF NodeOK, DerivedWith, IsToken
  <1> QED BY <1>7 DEF u, n, t

\* A token conjured up.
LEMMA MissingOK ==
  ASSUME NEW s, NEW at \in Int, NEW errors PROVE NodeOK(s, errors, Missing(at))
  <1> DEFINE t == Missing(at)
  <1>1. t.rule = "<token>" /\ t.start = at /\ t.stop = at - 1 /\ t.kids = << >>
    BY DEF Missing, Token
  <1>2. CoversIn(s, t)
    BY MissingCovers
  <1> HIDE DEF t
  <1>3. HoldsIn(s, t)
    <2>1. at .. at - 1 = {} /\ at - 1 \in Int
      OBVIOUS
    <2> QED BY <1>1, <2>1 DEF HoldsIn
  <1>4. Binds(t)
    BY <1>1, OnlyExpressionsBind
  <1>5. NodeOK(s, errors, t)
    BY <1>1, <1>2, <1>3, <1>4, SequenceFacts DEF NodeOK, DerivedWith, IsToken
  <1> QED BY <1>5 DEF t

\* A context has the words of its places below it if its children have.
LEMMA ContextHolds ==
  ASSUME NEW s, NEW t, IsSequence(t.kids), t.start \in Int, t.stop \in Int,
         Tiles(t.kids, t.start, t.stop),
         \A j \in DOMAIN t.kids : HoldsIn(s, t.kids[j])
  PROVE  HoldsIn(s, t)
  <1> DEFINE kids == t.kids
             first == t.start
             last == t.stop
  <1>1. \A j \in DOMAIN kids : kids[j].start \in Int /\ kids[j].stop \in Int
    BY DEF HoldsIn
  <1>2. ASSUME NEW i \in first .. last
        PROVE  /\ i \in DOMAIN s
               /\ \A S : t \in S /\ Hereditary(S) => Token(s[i], i) \in S
    <2> HIDE DEF kids, first, last
    <2>1. /\ IsSequence(kids) /\ first \in Int /\ last \in Int /\ Tiles(kids, first, last)
      BY DEF kids, first, last
    <2>2. PICK j \in DOMAIN kids : i \in kids[j].start .. kids[j].stop
      BY <1>1, <2>1, PlacesShared
    <2>3. /\ i \in DOMAIN s
          /\ \A S : kids[j] \in S /\ Hereditary(S) => Token(s[i], i) \in S
      BY <2>2 DEF HoldsIn, kids
    <2>4. \A S : t \in S /\ Hereditary(S) => kids[j] \in S
      BY DEF Hereditary, kids
    <2> QED BY <2>3, <2>4
  <1> QED BY <1>2 DEF HoldsIn

-----------------------------------------------------------------------------
(* Whole trees: the stack *)

\* The rule method f follows its production, and its children are in S.
FrameIn(f, S, errors) ==
  /\ FrameDerives(f, errors)
  /\ IsSequence(f.kids)
  /\ \A j \in DOMAIN f.kids : f.kids[j] \in S

\* So do and are those of every rule method of s.
AllIn(s, S, errors) == \A i \in 1 .. Len(s) : FrameIn(s[i], S, errors)

\* A child more.
LEMMA ChildIn ==
  ASSUME NEW f, NEW S, NEW errors, FrameIn(f, S, errors), NEW t \in S, NEW g, NEW others,
         g.kids = Append(f.kids, t), FrameDerives(g, others)
  PROVE  FrameIn(g, S, others)
  <1> DEFINE n == Len(f.kids)
  <1>1. n \in Nat /\ DOMAIN f.kids = 1 .. n /\ IsSequence(f.kids)
    BY Lengths DEF FrameIn
  <1>2. /\ IsSequence(g.kids) /\ Len(g.kids) = n + 1 /\ g.kids[n + 1] = t
        /\ \A i \in 1 .. n : g.kids[i] = f.kids[i]
    BY <1>1, SequenceFacts, Appended
  <1>3. DOMAIN g.kids = 1 .. n + 1
    BY <1>2, Lengths
  <1> HIDE DEF n
  <1>4. \A j \in 1 .. n + 1 : j = n + 1 \/ j \in 1 .. n
    BY <1>1
  <1>5. \A j \in 1 .. n : f.kids[j] \in S
    BY <1>1 DEF FrameIn
  <1>6. \A j \in 1 .. n + 1 : g.kids[j] \in S
    BY <1>2, <1>4, <1>5
  <1> QED BY <1>2, <1>3, <1>6 DEF FrameIn

\* They stay so in a larger set and after more errors.
LEMMA AllStay ==
  ASSUME NEW s, NEW S, NEW errors, AllIn(s, S, errors),
         NEW X, S \subseteq X, NEW others, errors > 0 => others > 0
  PROVE  AllIn(s, X, others)
  <1> SUFFICES ASSUME NEW i \in 1 .. Len(s) PROVE FrameIn(s[i], X, others)
    BY DEF AllIn
  <1> DEFINE f == s[i]
  <1>1. FrameIn(f, S, errors)
    BY DEF AllIn
  <1> HIDE DEF f
  <1>2. FrameIn(f, X, others)
    BY <1>1, FrameStays DEF FrameIn
  <1> QED BY <1>2 DEF f

\* A step of the innermost rule method.
LEMMA InMoved ==
  ASSUME NEW s, IsSequence(s), NEW S, NEW errors, AllIn(s, S, errors), NEW t, NEW kids,
         NEW todo, Moves(s, t, kids, todo), FrameIn(t[1], S, errors)
  PROVE  AllIn(t, S, errors)
  <1> DEFINE n == Len(s)
  <1>1. n \in Nat
    BY Lengths
  <1>2. /\ Len(t) = n /\ \A i \in 2 .. n : t[i] = s[i]
        /\ \A i \in 1 .. n : FrameIn(s[i], S, errors)
    BY DEF Moves, AllIn
  <1> HIDE DEF n
  <1>3. ASSUME NEW i \in 1 .. n PROVE FrameIn(t[i], S, errors)
    <2>1. i = 1 \/ i \in 2 .. n
      BY <1>1
    <2> QED BY <1>2, <2>1
  <1> QED BY <1>2, <1>3 DEF AllIn

\* A call.
LEMMA InEntered ==
  ASSUME NEW s, IsSequence(s), NEW S, NEW errors, AllIn(s, S, errors), NEW f,
         FrameIn(f, S, errors), NEW t, Enters(s, t, f)
  PROVE  AllIn(t, S, errors)
  <1> DEFINE n == Len(s)
  <1>1. n \in Nat
    BY Lengths
  <1>2. /\ Len(t) = n + 1 /\ t[1] = f /\ \A i \in 1 .. n : t[i + 1] = s[i]
        /\ \A i \in 1 .. n : FrameIn(s[i], S, errors)
    BY DEF Enters, AllIn
  <1> HIDE DEF n
  <1>3. ASSUME NEW i \in 1 .. n + 1 PROVE FrameIn(t[i], S, errors)
    <2>1. CASE i = 1
      BY <1>2, <2>1
    <2>2. CASE i # 1
      <3>1. i - 1 \in 1 .. n /\ (i - 1) + 1 = i
        BY <1>1, <2>2
      <3>2. t[(i - 1) + 1] = s[i - 1] /\ FrameIn(s[i - 1], S, errors)
        BY <1>2, <3>1
      <3> QED BY <3>1, <3>2
    <2> QED BY <2>1, <2>2
  <1> QED BY <1>2, <1>3 DEF AllIn

\* A return.
LEMMA InReturned ==
  ASSUME NEW s, IsSequence(s), NEW S, NEW errors, AllIn(s, S, errors), NEW node, NEW t,
         Returns(s, t, node), FrameIn(t[1], S, errors)
  PROVE  AllIn(t, S, errors)
  <1> DEFINE n == Len(s)
             m == Len(t)
  <1>1. n \in Nat
    BY Lengths
  <1>2. /\ m = n - 1 /\ \A i \in 2 .. m : t[i] = s[i + 1]
        /\ \A i \in 1 .. n : FrameIn(s[i], S, errors)
    BY DEF Returns, AllIn
  <1> HIDE DEF n, m
  <1>3. ASSUME NEW i \in 1 .. m PROVE FrameIn(t[i], S, errors)
    <2>1. i = 1 \/ (i \in 2 .. m /\ i + 1 \in 1 .. n)
      BY <1>1, <1>2
    <2> QED BY <1>2, <2>1
  <1>4. \A i \in 1 .. Len(t) : FrameIn(t[i], S, errors)
    BY <1>3 DEF m
  <1> QED BY <1>4 DEF AllIn

\* S has trees only that are as the grammar and the source s want them, with all below them.
Forest(S, s, errors) == Hereditary(S) /\ \A n \in S : NodeOK(s, errors, n)

\* A tree whose children are in a forest makes a forest with it.
LEMMA ForestGrown ==
  ASSUME NEW S, NEW s, NEW errors, Forest(S, s, errors), NEW t, NodeOK(s, errors, t),
         \A j \in DOMAIN t.kids : t.kids[j] \in S
  PROVE  Forest(S \cup {t}, s, errors)
  BY DEF Forest, Hereditary

\* A forest stays one when a word is read or an error is met.
LEMMA ForestStays ==
  ASSUME NEW S, NEW s, IsSequence(s), NEW u, u = s \/ \E w : u = Append(s, w),
         NEW errors, NEW others, errors > 0 => others > 0, Forest(S, s, errors)
  PROVE  Forest(S, u, others)
  BY NodeStays DEF Forest

\* The inductive invariant of whole trees.
TreeInv ==
  \E S : /\ Forest(S, source, repairs)
         /\ AllIn(stack, S, repairs)
         /\ ~Parsing => tree \in S

\* The innermost frame.
LEMMA TopIn ==
  ASSUME TypingInv, Parsing, NEW S, NEW errors, AllIn(stack, S, errors)
  PROVE  FrameIn(Top, S, errors)
  <1> DEFINE n == Len(stack)
  <1>1. n \in Nat /\ n >= 1
    BY TopOK DEF TypingInv
  <1> HIDE DEF n
  <1>2. 1 \in 1 .. n
    BY <1>1
  <1> QED BY <1>2 DEF AllIn, Top, n

\* A step that leaves the children and the source keeps the trees.
LEMMA TreesKept ==
  ASSUME TypingInv, Parsing, TreeInv, NEW todo, Moves(stack, stack', Top.kids, todo),
         UNCHANGED <<source, repairs>>,
         FrameDerives(Top, repairs) => FrameDerives(stack'[1], repairs)
  PROVE  TreeInv'
  <1>1. PICK S : Forest(S, source, repairs) /\ AllIn(stack, S, repairs)
    BY DEF TreeInv
  <1>2. FrameIn(Top, S, repairs)
    BY <1>1, TopIn
  <1>3. stack'[1].kids = Top.kids /\ stack' # << >>
    BY DEF Moves, Moved, Top
  <1>4. FrameIn(stack'[1], S, repairs)
    BY <1>2, <1>3 DEF FrameIn
  <1>5. AllIn(stack', S, repairs)
    BY <1>1, <1>4, InMoved, TopOK DEF TypingInv
  <1> QED BY <1>1, <1>3, <1>5 DEF TreeInv, Parsing

\* A step that puts a tree behind the children keeps the trees.
LEMMA TreesAdded ==
  ASSUME TypingInv, Parsing, Top.todo # << >>, TreeInv,
         Next1.op \in {"match", "set"},
         NEW t, NodeOK(source', repairs', t), t.kids = << >>,
         Accepts(Next1, t, repairs'),
         IsSequence(source), source' = source \/ \E w : source' = Append(source, w),
         repairs > 0 => repairs' > 0,
         Moves(stack, stack', Append(Top.kids, t), Tail(Top.todo))
  PROVE  TreeInv'
  <1>1. PICK S : Forest(S, source, repairs) /\ AllIn(stack, S, repairs)
    BY DEF TreeInv
  <1> DEFINE X == S \cup {t}
  <1>2. Forest(S, source', repairs')
    BY <1>1, ForestStays
  <1>3. Forest(X, source', repairs')
    <2>1. \A j \in DOMAIN t.kids : t.kids[j] \in S
      OBVIOUS
    <2> QED BY <1>2, <2>1, ForestGrown
  <1>4. S \subseteq X /\ t \in X
    OBVIOUS
  <1> HIDE DEF X
  <1>5. AllIn(stack, X, repairs')
    BY <1>1, <1>4, AllStay
  <1>6. FrameIn(Top, S, repairs) /\ FrameIn(Top, X, repairs')
    BY <1>1, <1>5, TopIn
  <1>7. Moved(Top, stack'[1], Append(Top.kids, t), Tail(Top.todo)) /\ stack' # << >>
    BY DEF Moves, Top
  <1>8. FrameDerives(stack'[1], repairs')
    <2> HIDE DEF Top
    <2> QED BY <1>6, <1>7, ReadDerives DEF FrameIn, Next1
  <1>9. FrameIn(stack'[1], X, repairs')
    <2>1. stack'[1].kids = Append(Top.kids, t)
      BY <1>7 DEF Moved
    <2> HIDE DEF Top
    <2> QED BY <1>4, <1>6, <1>8, <2>1, ChildIn
  <1>10. AllIn(stack', X, repairs')
    BY <1>5, <1>9, InMoved, TopOK DEF TypingInv
  <1> QED BY <1>3, <1>7, <1>10 DEF TreeInv, Parsing

\* The context of the innermost rule method, once it is derived, is as it should be.
LEMMA ContextOK ==
  ASSUME TypingInv, CoverInv, BindInv, Parsing, NEW S, NEW errors,
         Forest(S, source, errors), FrameIn(Top, S, errors),
         NEW others, DerivedWith(Context, others)
  PROVE  NodeOK(source, others, Context)
  <1>1. /\ Context.start = Top.start /\ Context.stop = Len(source)
        /\ CoversIn(source, Context)
        /\ Top.start \in Int /\ Len(source) \in Nat
        /\ Tiles(Top.kids, Top.start, Len(source))
    BY TopSpan
  <1>2. Context.kids = Top.kids /\ IsContextOf(Context, Top)
    BY DEF Context, Node, IsContextOf
  <1>3. FrameOK(Top) /\ FrameBinds(Top)
    BY TopBinds
  <1>4. IsSequence(Top.kids) /\ \A j \in DOMAIN Top.kids : HoldsIn(source, Top.kids[j])
    BY DEF FrameIn, Forest, NodeOK
  <1> HIDE DEF Context, Top
  <1>5. Binds(Context)
    BY <1>2, <1>3, ContextBinds
  <1>6. HoldsIn(source, Context)
    <2> DEFINE t == Context
               n == Len(source)
    <2>1. /\ t.start \in Int /\ t.stop \in Int /\ Tiles(t.kids, t.start, t.stop)
          /\ IsSequence(t.kids) /\ \A j \in DOMAIN t.kids : HoldsIn(source, t.kids[j])
      <3>1. n \in Int
        <4>1. n \in Nat
          BY <1>1
        <4> HIDE DEF n
        <4> QED BY <4>1
      <3> QED BY <1>1, <1>2, <1>4, <3>1
    <2> HIDE DEF t
    <2>2. HoldsIn(source, t)
      BY <2>1, ContextHolds
    <2> QED BY <2>2 DEF t
  <1> QED BY <1>1, <1>2, <1>4, <1>5, <1>6 DEF NodeOK

\* A return keeps the trees.
LEMMA TreesReturned ==
  ASSUME TypingInv, CoverInv, BindInv, TreeInv, Parsing, Returned,
         UNCHANGED source, repairs > 0 => repairs' > 0, DerivedWith(Context, repairs')
  PROVE  TreeInv'
  <1>1. PICK S : Forest(S, source, repairs) /\ AllIn(stack, S, repairs)
    BY DEF TreeInv
  <1>2. FrameIn(Top, S, repairs)
    BY <1>1, TopIn
  <1>3. NodeOK(source, repairs', Context)
    BY <1>1, <1>2, ContextOK
  <1>4. Context.kids = Top.kids /\ Context.rule = Top.rule
    BY DEF Context, Node
  <1>5. IsSequence(source)
    BY TopSpan
  <1> DEFINE t == Context
             X == S \cup {t}
  <1> HIDE DEF t
  <1>6. Forest(X, source, repairs')
    <2>1. Forest(S, source, repairs')
      BY <1>1, <1>5, ForestStays
    <2>2. \A j \in DOMAIN t.kids : t.kids[j] \in S
      BY <1>2, <1>4 DEF FrameIn, t
    <2> QED BY <1>3, <2>1, <2>2, ForestGrown DEF t
  <1>7. S \subseteq X /\ t \in X
    OBVIOUS
  <1> HIDE DEF X
  <1>8. AllIn(stack, X, repairs')
    BY <1>1, <1>7, AllStay
  <1>9. CASE Len(stack) = 1 /\ stack' = << >> /\ tree' = t
    <2>1. AllIn(stack', X, repairs')
      <3>1. Len(<< >>) = 0 /\ 1 .. 0 = {}
        OBVIOUS
      <3>2. 1 .. Len(stack') = {}
        BY <1>9, <3>1
      <3> QED BY <3>2 DEF AllIn
    <2> QED BY <1>6, <1>7, <1>9, <2>1 DEF TreeInv
  <1>10. CASE /\ Len(stack) # 1 /\ 2 \in 2 .. Len(stack)
              /\ FrameOK(stack[2]) /\ Awaits(stack[2], Top)
              /\ Returns(stack, stack', t)
    <2> DEFINE f == stack[2]
               g == stack'[1]
    <2>1. Moved(f, g, Append(f.kids, t), Tail(f.todo)) /\ stack' # << >>
      BY <1>10 DEF Returns
    <2>2. FrameIn(f, X, repairs')
      <3> DEFINE n == Len(stack)
      <3>1. 2 \in 2 .. n
        BY <1>10
      <3> HIDE DEF n
      <3>2. 2 \in 1 .. n
        BY <3>1
      <3> QED BY <1>8, <3>2 DEF AllIn, n
    <2>3. f.todo # << >> /\ Head(f.todo).op = "rule" /\ Head(f.todo).rule = t.rule
      BY <1>4, <1>10 DEF Awaits, t
    <2> HIDE DEF f, g
    <2>4. Accepts(Head(f.todo), t, repairs')
      BY <2>3, Zenon DEF Accepts
    <2>5. FrameDerives(g, repairs')
      BY <2>1, <2>2, <2>3, <2>4, ReadDerives DEF FrameIn
    <2>6. FrameIn(g, X, repairs')
      BY <1>7, <2>1, <2>2, <2>5, ChildIn DEF Moved
    <2>7. AllIn(stack', X, repairs')
      BY <1>8, <1>10, <2>6, InReturned, TopOK DEF TypingInv, g
    <2> QED BY <1>6, <2>1, <2>7 DEF TreeInv, Parsing
  <1> QED BY <1>9, <1>10 DEF Returned, t

\* An expression that is extended keeps the trees.
LEMMA TreesExtended ==
  ASSUME TypingInv, CoverInv, BindInv, TreeInv, Extend PROVE TreeInv'
  <1>0. Parsing /\ Top.todo # << >> /\ Head(Top.todo).op = "suffixes"
        /\ UNCHANGED <<source, repairs>>
    BY DEF Extend, AboutTo, Next1
  <1>1. PICK S : Forest(S, source, repairs) /\ AllIn(stack, S, repairs)
    BY DEF TreeInv
  <1>2. PICK p \in Suffix[1].alts :
          p # << >> /\ Moves(stack, stack', <<Context>>, Tail(p) \o Top.todo)
    BY ExtendEffect
  <1>3. FrameIn(Top, S, repairs)
    BY <1>0, <1>1, TopIn
  <1>4. /\ Context.kids = Top.kids /\ Context.rule = Top.rule /\ IsContextOf(Context, Top)
    BY DEF Context, Node, IsContextOf
  <1> DEFINE t == Context
             X == S \cup {t}
             g == stack'[1]
  <1>5. Moved(Top, g, <<t>>, Tail(p) \o Top.todo) /\ stack' # << >>
    BY <1>2 DEF Moves, Top
  <1>6. Moves(stack, stack', <<t>>, Tail(p) \o Top.todo)
    BY <1>2
  <1>7. /\ t.kids = Top.kids /\ t.rule = Top.rule /\ IsContextOf(t, Top)
    BY <1>4
  <1> HIDE DEF t, g
  <1>8. DerivedWith(t, repairs) /\ FrameDerives(g, repairs)
    <2> HIDE DEF Top
    <2>1. DerivedWith(t, repairs)
      BY <1>0, <1>3, <1>7, ContextDerived DEF FrameIn
    <2>2. FrameDerives(g, repairs)
      BY <1>0, <1>2, <1>3, <1>5, <1>7, ExtendDerives DEF FrameIn
    <2> QED BY <2>1, <2>2
  <1>9. NodeOK(source, repairs, t)
    BY <1>0, <1>1, <1>3, <1>8, ContextOK DEF t
  <1>10. Forest(X, source, repairs)
    <2>1. \A j \in DOMAIN t.kids : t.kids[j] \in S
      BY <1>3, <1>7 DEF FrameIn
    <2> QED BY <1>1, <1>9, <2>1, ForestGrown
  <1>11. S \subseteq X /\ t \in X
    OBVIOUS
  <1> HIDE DEF X
  <1>12. FrameIn(g, X, repairs)
    <2>1. IsSequence(<<t>>) /\ DOMAIN <<t>> = {1} /\ <<t>>[1] = t
      BY SequenceFacts
    <2> QED BY <1>5, <1>8, <1>11, <2>1 DEF FrameIn, Moved
  <1>13. AllIn(stack, X, repairs)
    BY <1>1, <1>11, AllStay
  <1>14. AllIn(stack', X, repairs)
    BY <1>0, <1>6, <1>12, <1>13, InMoved, TopOK DEF TypingInv, g
  <1> QED BY <1>0, <1>5, <1>10, <1>14 DEF TreeInv, Parsing

\* In every behaviour of the parser every rule method follows its production, and all trees
\* built so far are derivations that hold their words and bind their operators.
THEOREM TreesGrow == ParserSpec => []TreeInv
  <1>1. ASSUME ParserInit PROVE TreeInv
    <2> DEFINE f == Frame("crate", 0, 1, 0)
    <2>1. FrameDerives(f, repairs)
      BY RuleNames, EnterDerives
    <2>2. f.kids = << >>
      BY DEF Frame
    <2>3. stack = <<f>>
      BY <1>1 DEF ParserInit
    <2> HIDE DEF f
    <2>4. Len(<<f>>) = 1 /\ <<f>>[1] = f /\ 1 .. 1 = {1} /\ <<f>> # << >>
      OBVIOUS
    <2>5. FrameIn(f, {}, repairs)
      BY <2>1, <2>2, SequenceFacts DEF FrameIn
    <2>6. AllIn(stack, {}, repairs)
      BY <2>3, <2>4, <2>5 DEF AllIn
    <2>7. Forest({}, source, repairs)
      BY DEF Forest, Hereditary
    <2> QED BY <2>3, <2>4, <2>6, <2>7 DEF TreeInv, Parsing
  <1>2. ASSUME TypingInv, CoverInv, BindInv, TreeInv, [ParserNext]_parserVars PROVE TreeInv'
    <2>0. repairs \in Nat
      <3>1. Profiles[profile].repairs \in Nat /\ repairs \in 0 .. Profiles[profile].repairs
        BY <1>2, BoundsAssumption DEF TypingInv, BooksOK
      <3> QED BY <3>1
    <2>1. CASE EnterRule
      <3>1. Parsing /\ Top.todo # << >> /\ UNCHANGED <<source, repairs>>
        BY <2>1 DEF EnterRule, AboutTo
      <3>2. PICK owed : /\ Enters(stack, stack', Frame(Next1.rule, Next1.level, Here, owed))
                        /\ FrameOK(Frame(Next1.rule, Next1.level, Here, owed))
        BY <1>2, <2>1, EnterEffect
      <3> DEFINE f == Frame(Next1.rule, Next1.level, Here, owed)
      <3>3. f.rule = Next1.rule /\ f.kids = << >>
        BY DEF Frame
      <3>4. Next1.rule \in Rules
        BY <3>2, <3>3 DEF FrameOK
      <3>5. FrameDerives(f, repairs)
        BY <3>4, EnterDerives
      <3>6. Enters(stack, stack', f)
        BY <3>2
      <3> HIDE DEF f
      <3>7. PICK S : Forest(S, source, repairs) /\ AllIn(stack, S, repairs)
        BY <1>2 DEF TreeInv
      <3>8. FrameIn(f, S, repairs)
        BY <3>3, <3>5, SequenceFacts DEF FrameIn
      <3>9. AllIn(stack', S, repairs) /\ stack' # << >>
        BY <1>2, <3>1, <3>6, <3>7, <3>8, InEntered, TopOK DEF TypingInv, Enters
      <3> QED BY <3>1, <3>7, <3>9 DEF TreeInv, Parsing
    <2>2. CASE Choose
      <3>1. /\ Parsing /\ Top.todo # << >> /\ Next1.op \in {"decision", "primary"}
            /\ UNCHANGED <<source, repairs>>
        BY <2>2 DEF Choose, AboutTo
      <3>2. PICK a \in AlternativesOf(Top.rule, Next1) :
              Moves(stack, stack', Top.kids, a \o Rest)
        BY <1>2, <2>2, ChooseEffect
      <3>3. Moved(Top, stack'[1], Top.kids, a \o Tail(Top.todo))
        BY <3>2 DEF Moves, Top, Rest
      <3>4. /\ IsSequence(Top.kids) /\ WellFormed(Top.todo)
        BY <1>2, <3>1, TopOK DEF TypingInv, FrameOK
      <3>5. /\ Next1.op = "primary" => a \in Primary[1].alts
            /\ Next1.op = "decision" => a \in Next1.alts
        BY <3>2 DEF AlternativesOf
      <3>6. FrameDerives(Top, repairs) => FrameDerives(stack'[1], repairs)
        <4> SUFFICES ASSUME FrameDerives(Top, repairs)
                     PROVE  FrameDerives(stack'[1], repairs)
          OBVIOUS
        <4>1. CASE Next1.op = "primary"
          <5> HIDE DEF Top
          <5> QED BY <3>1, <3>3, <3>5, <4>1, PrimaryDerives DEF Next1
        <4>2. CASE Next1.op = "decision"
          <5>1. Plain(a)
            <6> HIDE DEF Top
            <6>1. PICK q : q # << >> /\ Plain(q) /\ Head(Top.todo) = Head(q)
              BY <3>1, <4>2, InProduction DEF FollowsFrom, Next1, LeftRecursion
            <6> QED BY <3>5, <4>2, <6>1, PlainHeadOf DEF Next1
          <5> HIDE DEF Top
          <5> QED BY <3>1, <3>3, <3>4, <3>5, <4>2, <5>1, ExpandDerives DEF Next1
        <4> QED BY <3>1, <4>1, <4>2
      <3> QED BY <1>2, <3>1, <3>2, <3>6, TreesKept
    <2>3. CASE Iterate
      <3>1. /\ Parsing /\ Top.todo # << >> /\ Head(Top.todo).op = "loop"
            /\ UNCHANGED <<source, repairs>>
        BY <2>3 DEF Iterate, AboutTo, Next1
      <3>2. Moves(stack, stack', Top.kids, Head(Top.todo).body \o Top.todo)
        BY <1>2, <2>3, IterateEffect DEF Next1
      <3>3. Moved(Top, stack'[1], Top.kids, Head(Top.todo).body \o Top.todo)
        BY <3>2 DEF Moves, Top
      <3>4. IsSequence(Top.kids)
        BY <1>2, <3>1, TopOK DEF TypingInv, FrameOK
      <3>5. FrameDerives(Top, repairs) => FrameDerives(stack'[1], repairs)
        <4> SUFFICES ASSUME FrameDerives(Top, repairs)
                     PROVE  FrameDerives(stack'[1], repairs)
          OBVIOUS
        <4> HIDE DEF Top
        <4>1. PICK q : q # << >> /\ Plain(q) /\ Head(Top.todo) = Head(q)
          BY <3>1, InProduction DEF FollowsFrom, LeftRecursion
        <4>2. Plain(Head(Top.todo).body)
          BY <3>1, <4>1, PlainHeadOf
        <4> QED BY <3>1, <3>3, <3>4, <4>2, ExpandDerives
      <3> QED BY <1>2, <3>1, <3>2, <3>5, TreesKept
    <2>4. CASE LeaveLoop
      <3>1. /\ Parsing /\ Top.todo # << >> /\ Head(Top.todo).op \in {"loop", "suffixes"}
            /\ UNCHANGED <<source, repairs>>
        BY <2>4 DEF LeaveLoop, AboutTo, Next1
      <3>2. Moves(stack, stack', Top.kids, Tail(Top.todo))
        BY <1>2, <2>4, LeaveEffect DEF Rest
      <3>3. Moved(Top, stack'[1], Top.kids, Tail(Top.todo))
        BY <3>2 DEF Moves, Top
      <3>4. IsSequence(Top.kids) /\ IsSequence(Tail(Top.todo))
        BY <1>2, <3>1, TopOK, HeadOf, WellFormedIsSequence DEF TypingInv, FrameOK
      <3>5. FrameDerives(Top, repairs) => FrameDerives(stack'[1], repairs)
        <4> SUFFICES ASSUME FrameDerives(Top, repairs)
                     PROVE  FrameDerives(stack'[1], repairs)
          OBVIOUS
        <4>1. CASE Head(Top.todo).op = "suffixes"
          <5> HIDE DEF Top
          <5> QED BY <3>1, <3>3, <4>1, EndDerives
        <4>2. CASE Head(Top.todo).op = "loop"
          <5>1. Tail(Top.todo) = << >> \o Tail(Top.todo)
            BY <3>4, EmptyJoined
          <5>2. Moved(Top, stack'[1], Top.kids, << >> \o Tail(Top.todo))
            BY <3>3, <5>1
          <5> HIDE DEF Top
          <5> QED BY <3>1, <3>4, <4>2, <5>2, ExpandDerives
        <4> QED BY <3>1, <4>1, <4>2
      <3> QED BY <1>2, <3>1, <3>2, <3>5, TreesKept
    <2>5. CASE Extend
      BY <1>2, <2>5, TreesExtended
    <2>6. CASE Match
      <3>1. Parsing /\ Top.todo # << >> /\ Next1.op \in {"match", "set"} /\ repairs' = repairs
        BY <2>6 DEF Match, AboutTo
      <3>2. PICK w : /\ TokenType(w) \in Next1.types
                     /\ source' = Append(source, w)
                     /\ Moves(stack, stack', Append(Top.kids, Token(w, Here)), Tail(Top.todo))
        BY <1>2, <2>6, MatchEffect DEF Rest
      <3>3. IsSequence(source)
        BY <1>2, <3>1, TopSpan
      <3> DEFINE t == Token(w, Here)
      <3>4. NodeOK(source', repairs', t)
        BY <3>2, <3>3, TokenOK DEF Here
      <3>5. t.kids = << >> /\ t.word = w /\ t.rule = "<token>"
        BY DEF Token
      <3> HIDE DEF t, Next1
      <3>6. Accepts(Next1, t, repairs')
        BY <3>1, <3>2, <3>5, Zenon DEF Accepts, IsToken
      <3> QED BY <1>2, <3>1, <3>2, <3>3, <3>4, <3>5, <3>6, TreesAdded DEF t
    <2>7. CASE ExitRule
      <3>1. /\ Parsing /\ Top.todo = << >> /\ Return(Context)
            /\ UNCHANGED <<source, repairs>>
        BY <2>7 DEF ExitRule
      <3>2. Returned
        BY <1>2, <3>1, Returning
      <3>3. FrameDerives(Top, repairs)
        BY <1>2, <3>1, TopIn DEF TreeInv, FrameIn
      <3>4. IsContextOf(Context, Top)
        BY DEF Context, Node, IsContextOf
      <3>5. DerivedWith(Context, repairs)
        <4> HIDE DEF Context, Top
        <4> QED BY <3>1, <3>3, <3>4, ContextDerived
      <3> QED BY <1>2, <3>1, <3>2, <3>5, TreesReturned
    <2>8. CASE MissingToken
      <3>1. /\ Parsing /\ Moves(stack, stack', Append(Top.kids, Missing(Here)), << >>)
        BY <1>2, <2>8, MissingEffect
      <3>2. repairs' = repairs + 1 /\ source' = source
        BY <2>8 DEF MissingToken, RepairDone
      <3>3. Top.todo = T(";") \/ Top.todo = T("}")
        BY <2>8 DEF MissingToken
      <3>4. /\ Top.todo # << >> /\ Tail(Top.todo) = << >>
            /\ Next1 \in {MatchItem(";"), MatchItem("}")} /\ Next1.op = "match"
        <4>1. \A w : /\ T(w) # << >> /\ Tail(T(w)) = << >> /\ Head(T(w)) = MatchItem(w)
                     /\ MatchItem(w).op = "match"
          <5> TAKE w
          <5> DEFINE t == MatchItem(w)
          <5>1. T(w) = <<t>>
            BY Zenon DEF T, MatchItem
          <5>2. t.op = "match"
            BY DEF MatchItem
          <5> HIDE DEF t
          <5>3. <<t>> # << >> /\ Tail(<<t>>) = << >> /\ Head(<<t>>) = t
            OBVIOUS
          <5> QED BY <5>1, <5>2, <5>3 DEF t
        <4> QED BY <3>3, <4>1, Zenon DEF Next1
      <3>5. IsSequence(source) /\ Here \in Int
        BY <1>2, <3>1, TopSpan DEF Here
      <3> DEFINE t == Missing(Here)
      <3>6. NodeOK(source, repairs', t)
        BY <3>5, MissingOK
      <3>7. t.kids = << >> /\ t = Missing(t.start)
        BY DEF Missing, Token
      <3>8. repairs' > 0
        BY <2>0, <3>2
      <3> HIDE DEF t, Next1
      <3>9. Accepts(Next1, t, repairs')
        BY <3>4, <3>7, <3>8, Zenon DEF Accepts
      <3>10. Moves(stack, stack', Append(Top.kids, t), Tail(Top.todo))
        BY <3>1, <3>4 DEF t
      <3> QED BY <1>2, <3>1, <3>2, <3>4, <3>5, <3>6, <3>7, <3>8, <3>9, <3>10, TreesAdded
    <2>9. CASE AbandonBlock
      <3>1. /\ Parsing /\ Top.rule = "blockExpression" /\ Len(Top.kids) = 1
            /\ Return(Context) /\ repairs' = repairs + 1 /\ UNCHANGED source
        BY <2>9 DEF AbandonBlock, Repairable, RepairDone
      <3>2. Returned
        BY <1>2, <3>1, Returning
      <3>3. FrameDerives(Top, repairs) /\ IsSequence(Top.kids)
        BY <1>2, <3>1, TopIn DEF TreeInv, FrameIn
      <3>4. IsContextOf(Context, Top)
        BY DEF Context, Node, IsContextOf
      <3>5. repairs' > 0
        BY <2>0, <3>1
      <3>6. DerivedWith(Context, repairs')
        <4> HIDE DEF Context, Top
        <4> QED BY <3>1, <3>3, <3>4, <3>5, AbandonedDerived
      <3> QED BY <1>2, <3>1, <3>2, <3>5, <3>6, TreesReturned
    <2>10. CASE UNCHANGED parserVars
      BY <1>2, <2>10 DEF parserVars, TreeInv, Parsing
    <2> QED BY <1>2, <2>1, <2>2, <2>3, <2>4, <2>5, <2>6, <2>7, <2>8, <2>9, <2>10
        DEF ParserNext
  <1> QED BY <1>1, <1>2, Typing, Coverage, OperatorsBind, PTL DEF ParserSpec

\* The tree that crate() returns and every tree below it is derived by its rule, covers its words
\* and binds its operators.
DerivationsHold ==
  ~Parsing => \E S : /\ tree \in S /\ Hereditary(S)
                     /\ \A n \in S : Derived(n) /\ Covers(n) /\ Binds(n)

\* What the rule methods build is what the grammar says: every tree below the one returned is
\* derived by a production of its rule in the left-recursive grammar of expressions, whatever
\* the loops of expression(_p) and its unrolled contexts did to build it.  Without a syntax
\* error the derivation is exact; a repair lets a missing ; or } and a block that ends behind
\* its brace into it and nothing else.
THEOREM TreesAreDerivations == ParserSpec => []DerivationsHold
  <1>1. TreeInv => DerivationsHold
    <2> SUFFICES ASSUME TreeInv, ~Parsing
                 PROVE  \E S : /\ tree \in S /\ Hereditary(S)
                               /\ \A n \in S : Derived(n) /\ Covers(n) /\ Binds(n)
      BY DEF DerivationsHold
    <2>1. PICK S : Forest(S, source, repairs) /\ tree \in S
      BY DEF TreeInv
    <2>2. \A t : CoversIn(source, t) => Covers(t)
      BY DEF CoversIn, Covers
    <2> QED BY <2>1, <2>2 DEF Forest, NodeOK, Derived
  <1> QED BY <1>1, TreesGrow, PTL

\* Every word of the source, at its own place, is in every set that holds the tree returned and,
\* with a tree, its children.
WordsHeld ==
  ~Parsing => \A S : tree \in S /\ Hereditary(S) =>
                       \A i \in DOMAIN source : Token(source[i], i) \in S

\* No word of a source is lost on the way to the tree: however deep the trees and whatever the
\* repairs, each one is a leaf below the tree that crate() returns.
THEOREM EveryWordIsInTheTree == ParserSpec => []WordsHeld
  <1>1. TypingInv /\ CoverInv /\ TreeInv => WordsHeld
    <2> SUFFICES ASSUME TypingInv, CoverInv, TreeInv, ~Parsing,
                        NEW S, tree \in S, Hereditary(S), NEW i \in DOMAIN source
                 PROVE  Token(source[i], i) \in S
      BY DEF WordsHeld
    <2>1. HoldsIn(source, tree)
      BY DEF TreeInv, Forest, NodeOK
    <2>2. tree.start = 1 /\ tree.stop = Len(source)
      BY DEF CoverInv, DoneOK
    <2>3. DOMAIN source = 1 .. Len(source)
      BY Lengths DEF TypingInv, BooksOK, IsSequence
    <2> QED BY <2>1, <2>2, <2>3 DEF HoldsIn
  <1> QED BY <1>1, Typing, Coverage, TreesGrow, PTL

=============================================================================
