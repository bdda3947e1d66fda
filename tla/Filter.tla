-------------------------------- MODULE Filter --------------------------------
(***************************************************************************)
(* Array.prototype.filter, with the elements that pass given as a set.  It *)
(* is SelectSeq, written as a recursive function so that it can be         *)
(* reasoned about.                                                         *)
(***************************************************************************)
EXTENDS Naturals, Sequences

filter(s, Passing) ==
  LET kept[i \in 0 .. Len(s)] ==
        IF i = 0 THEN <<>>
        ELSE IF s[i] \in Passing THEN Append(kept[i - 1], s[i])
        ELSE kept[i - 1]
  IN  kept[Len(s)]
================================================================================
