---------------------------- MODULE Subsequences -----------------------------
(* The elements of a sequence, and those of them that are in a set.        *)
EXTENDS Integers, Sequences

Elems(s) == {s[i] : i \in DOMAIN s}

(* The elements that are in S, in their order.  (SelectSeq, which the       *)
(* provers have no definition of.)                                         *)
Chosen(s, S) ==
  LET upTo[k \in 0 .. Len(s)] ==
        IF k = 0 THEN <<>>
        ELSE IF s[k] \in S THEN Append(upTo[k - 1], s[k]) ELSE upTo[k - 1]
  IN upTo[Len(s)]

Numbered(s) == [i \in DOMAIN s |-> i]
=============================================================================
