----------------------------- MODULE MCRiposte -----------------------------
(* Small instances of Riposte. *)
EXTENDS Riposte, TLC

CONSTANTS fighter, bard, c1, c2, t1, t2, k1, k2

OneChannel == fighter :> c1

\* An eligible and an ineligible character, each in a channel of its own.
TwoChannels == (fighter :> c1) @@ (bard :> c2)

\* Interactions and row ids are interchangeable (used by safety runs only).
Interchangeable == Permutations(Click) \cup Permutations(Timer)
=============================================================================
