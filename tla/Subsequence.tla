---------------------------- MODULE Subsequence ----------------------------
(***************************************************************************)
(* What is left of an OrderedDict when some of its entries are deleted:    *)
(* SelectSeq, by positions.  The definition is visible to the provers,     *)
(* which know nothing of SelectSeq; PartsProofs states what it returns.    *)
(***************************************************************************)
EXTENDS Naturals, Sequences

\* The elements of s at the positions in I, in their order.
SelectAt(s, I) ==
    LET kept[n \in 0 .. Len(s)] ==
          IF n = 0 THEN <<>>
          ELSE IF n \in I THEN Append(kept[n - 1], s[n]) ELSE kept[n - 1]
    IN  kept[Len(s)]
=============================================================================
