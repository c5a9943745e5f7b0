---------------------------- MODULE Subsequences ----------------------------
(***************************************************************************)
(* Sequences without some of their elements.  SelectSeq of the standard    *)
(* module is built into the provers without a meaning; this one is a       *)
(* recursive function that can be reasoned about.                          *)
(***************************************************************************)
EXTENDS Naturals, Sequences

\* The elements of s that are in K, in their order.
Kept(s, K) ==
  LET kept[i \in 0 .. Len(s)] ==
        IF i = 0 THEN <<>>
        ELSE IF s[i] \in K THEN Append(kept[i - 1], s[i]) ELSE kept[i - 1]
  IN kept[Len(s)]
=============================================================================
