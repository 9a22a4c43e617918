---------------------------- MODULE MCPartyMode ----------------------------
(* Small instances of PartyMode. *)
EXTENDS PartyMode, TLC

CONSTANTS ch1, ch2, i1, i2, i3, u1, u2, a1

\* Two intents of one player in the first channel, one of another in the second.
Authors == [i \in Intent |-> IF i = i3 THEN u2 ELSE u1]
Homes == [i \in Intent |-> IF i = i3 THEN ch2 ELSE ch1]

\* set_active_party_size is called for the second channel only.  (Nothing under
\* src/ calls it yet: every size is unknown there.)
OneKnown == ch1 :> 0 @@ ch2 :> 1
NoneKnown == [ch \in Channel |-> 0]

\* The two intents of the first player differ in nothing.
Symmetry == Permutations({i1, i2})
=============================================================================
