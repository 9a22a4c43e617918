----------------------------- MODULE MCSession -----------------------------
(* Small instances of Session. *)
EXTENDS Session, TLC

CONSTANTS ch1, u1, u2, c1, c2

\* Handlers differ in nothing but what they handle.
Symmetry == Permutations(Command)
=============================================================================
