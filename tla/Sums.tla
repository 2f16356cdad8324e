-------------------------------- MODULE Sums --------------------------------
(***************************************************************************)
(* Loops over a sequence: the running totals of the contract               *)
(* (`for x in xs { total += x }`), and a list or map rebuilt without some  *)
(* of its elements.  They are recursive functions rather than RECURSIVE    *)
(* operators so that facts about them can be proved (module SumsProofs).   *)
(***************************************************************************)
EXTENDS Integers, Sequences

\* Totals(s)[i] is the value of the accumulator after i iterations.
Totals(s) ==
  LET t[i \in 0..Len(s)] == IF i = 0 THEN 0 ELSE t[i - 1] + s[i] IN t

SeqSum(s) == Totals(s)[Len(s)]

\* The elements of s whose positions are not in I, in their order.
Dropping(s, I) ==
  LET kept[i \in 0..Len(s)] ==
        IF i = 0 THEN <<>>
        ELSE IF i \in I THEN kept[i - 1] ELSE Append(kept[i - 1], s[i])
  IN kept[Len(s)]
=============================================================================
