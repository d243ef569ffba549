---------------------------- MODULE SourceReader ----------------------------
(***************************************************************************)
(* What the front end promises the rest of the program: it reads a source  *)
(* word by word, never goes back, and hands over once, either nothing or   *)
(* names that stand in the source, in the order in which they stand there. *)
(***************************************************************************)
EXTENDS Naturals, Sequences

CONSTANT Words

VARIABLES
  text,      \* the words read
  outcome,   \* "reading", "tree" or "nothing"
  names      \* the places in the text of the names handed over

vars == <<text, outcome, names>>

Init == text = << >> /\ outcome = "reading" /\ names = << >>

Read ==
    /\ outcome = "reading"
    /\ \E word \in Words : text' = Append(text, word)
    /\ UNCHANGED <<outcome, names>>

Refuse ==
    /\ outcome = "reading"
    /\ outcome' = "nothing"
    /\ UNCHANGED <<text, names>>

Increasing(s) == \A i \in 1 .. Len(s) - 1 : s[i] < s[i + 1]

HandOver ==
    /\ outcome = "reading"
    /\ outcome' = "tree"
    /\ names' \in Seq(1 .. Len(text))
    /\ Increasing(names')
    /\ UNCHANGED text

Next == Read \/ Refuse \/ HandOver

Spec == Init /\ [][Next]_vars
=============================================================================
