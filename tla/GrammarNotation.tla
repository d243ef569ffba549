--------------------------- MODULE GrammarNotation ---------------------------
(***************************************************************************)
(* How the grammar that parser/RustParser.py recognises is written down:   *)
(* one definition for each rule method, under its name.  A rule method is  *)
(* straight-line code over five calls, and a production writes them down   *)
(* in the order the method makes them:                                     *)
(*                                                                         *)
(*   T("if")          self.match(RustParser.KW_IF), by the token's text    *)
(*   OneOf(S)         the set test on LA(1) followed by consume()          *)
(*   R("item")        self.item()                                          *)
(*   E(p)             self.expression(p)                                   *)
(*   a & b, a | b     sequence, and a decision between alternatives        *)
(*   Opt, Star, Plus  a decision that may skip, and the two loops          *)
(*                                                                         *)
(* A decision is a set: which alternative adaptivePredict would pick when  *)
(* two of them read the same tokens is settled by Shadowed and barred of   *)
(* RustParser.tla.  The predicate of shl and shr, that the next character  *)
(* is a second < or >, is the second token they match.                     *)
(***************************************************************************)
EXTENDS Naturals, Sequences

a & b == a \o b
Alternatives(p) == IF Len(p) = 1 /\ p[1].op = "decision" THEN p[1].alts ELSE {p}
a | b == << [op |-> "decision", alts |-> Alternatives(a) \union Alternatives(b)] >>

T(type) == << [op |-> "match", types |-> {type}] >>
OneOf(types) == << [op |-> "set", types |-> types] >>
E(p) == << [op |-> "rule", rule |-> "expression", level |-> p] >>
R(rule) == << [op |-> "rule", rule |-> rule, level |-> 0] >>
Level(k) == << [op |-> "precpred", level |-> k] >>

Opt(p) == p | << >>
Star(p) == << [op |-> "loop", body |-> p] >>
Plus(p) == p & Star(p)

=============================================================================
