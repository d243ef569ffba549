----------------------------- MODULE RustLexer -----------------------------
(***************************************************************************)
(* The words a source is made of.  A keyword or a punctuation mark is its  *)
(* own token type; Lexeme lists one word, or a few, of each type that has  *)
(* many, with what parser/gen_parse_tree.py can tell of its text: whether  *)
(* it is quoted, all digits, a number to Python's float(), and what stands *)
(* before and after its first underscore.                                  *)
(***************************************************************************)
EXTENDS Naturals, Sequences

NoText == "<none>"
EOF == "<EOF>"

Word(type) ==
    [type |-> type, quoted |-> FALSE, digits |-> FALSE, dot |-> FALSE, float |-> FALSE,
     underscore |-> FALSE, before |-> NoText, after |-> NoText]
Name == Word("NON_KEYWORD_IDENTIFIER")
Quoted(type) == [Word(type) EXCEPT !.quoted = TRUE]
Number(dot, float) ==
    [Word(IF dot THEN "FLOAT_LITERAL" ELSE "INTEGER_LITERAL")
        EXCEPT !.dot = dot, !.float = float, !.digits = float /\ ~dot]
Suffixed(word, before, after) ==
    [word EXCEPT !.underscore = TRUE, !.digits = FALSE, !.float = FALSE,
                 !.before = before, !.after = after]

\* Numbers without and with a fraction; Python's float() refuses a Rust suffix.
Whole == Number(FALSE, TRUE)
Decimal == Number(TRUE, TRUE)
WholeTyped == Number(FALSE, FALSE)
DecimalTyped == Number(TRUE, FALSE)

\* Words with what they are.
Lexicon ==
    { <<"x", Name>>, <<"f", Name>>, <<"i32", Name>>,
      <<"r#y", Word("RAW_IDENTIFIER")>>,
      <<"'a", Word("LIFETIME_OR_LABEL")>>,
      <<"1", Whole>>, <<"3.14", Decimal>>,
      <<"1u32", WholeTyped>>, <<"1.5f64", DecimalTyped>>,
      <<"1_i64", Suffixed(WholeTyped, "1", "i64")>>,
      <<"1_000", Suffixed(WholeTyped, "1", "000")>>,
      <<"1.5_f64", Suffixed(DecimalTyped, "1.5", "f64")>>,
      <<"'c'", Quoted("CHAR_LITERAL")>>, <<"s", Quoted("STRING_LITERAL")>>,
      <<"r_s", Suffixed(Word("RAW_STRING_LITERAL"), "r", "s")>>,
      <<"b'c'", Word("BYTE_LITERAL")>>, <<"bs", Word("BYTE_STRING_LITERAL")>>,
      <<"brs", Word("RAW_BYTE_STRING_LITERAL")>> }

Lexeme == [w \in {entry[1] : entry \in Lexicon} |-> (CHOOSE entry \in Lexicon : entry[1] = w)[2]]

TokenType(word) == IF word \in DOMAIN Lexeme THEN Lexeme[word].type ELSE word
=============================================================================
