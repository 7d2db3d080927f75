--------------------------------- MODULE Lists ---------------------------------
(***************************************************************************)
(* What the program does to a vector element by element.  The definition   *)
(* is a recursive function, about which the provers can reason, where      *)
(* SelectSeq, which says the same, is known to them by its name only.      *)
(***************************************************************************)
EXTENDS Naturals, Sequences

\* s with everything that is in S erased, one element after the other
Without(s, S) ==
  LET kept[n \in 0..Len(s)] ==
        IF n = 0 THEN <<>>
        ELSE IF s[n] \in S THEN kept[n - 1]
        ELSE Append(kept[n - 1], s[n])
  IN  kept[Len(s)]
================================================================================
