---------------------------- MODULE Subsequences ----------------------------
(***************************************************************************)
(* Python's [x for x in s if x in S], as a recursive function, which can   *)
(* be proved about.                                                        *)
(***************************************************************************)
EXTENDS Naturals, Sequences

\* For each n, the elements among the first n of s that are in S.
Upto(s, S) ==
  LET f[n \in 0 .. Len(s)] ==
        IF n = 0 THEN << >>
        ELSE IF s[n] \in S THEN Append(f[n - 1], s[n]) ELSE f[n - 1]
  IN f

\* The elements of s that are in S, in their order.
Only(s, S) == Upto(s, S)[Len(s)]
=============================================================================
