------------------------------ MODULE MCDriver ------------------------------
(* Runs of the driver on a source that takes every kind of contents. *)
EXTENDS Driver, TLC

CONSTANTS good, wrong, bare, odd, noisy

\* Programs that compile, that the compiler rejects, whose tree does not decode
\* (an empty block), that trim_tree does not translate, and that the parser
\* reports many syntax errors of.
MCMessages == good :> 0 @@ wrong :> 0 @@ bare :> 0 @@ odd :> 1 @@ noisy :> 3
=============================================================================
