--------------------------- MODULE MCAndroidSparse --------------------------
(* Instances of AndroidSparse for TLC: blocks of three words, so that two    *)
(* extents may lie in one block with a hole between them.                   *)
EXTENDS AndroidSparse

\* The data of a file in extents, zero in its holes
File(words, x) ==
    [words |-> [w \in DOMAIN words |->
                  IF \E n \in DOMAIN x : w - 1 \in x[n][1]..(x[n][2] - 1)
                  THEN words[w] ELSE 0],
     extents |-> x]

\* Up to three extents in a file of n words
Extents(n) ==
    LET pairs == {p \in (0..n) \X (0..n) : p[1] < p[2]}
    IN  {<<>>} \cup {<<p>> : p \in pairs}
          \cup {<<p, q>> : p, q \in pairs}
          \cup {<<p, q, r>> : p, q, r \in pairs}

SomeInputs ==
    {File(w, x) : w \in {[i \in 1..8 |-> 1], <<1, 2, 3, 3, 3, 3, 4, 4>>,
                         <<1, 1, 1, 2, 2, 2, 1, 2>>},
                  x \in {y \in Extents(8) : InOrder(y)}}
      \cup {File(w, x) : w \in [1..4 -> 1..2], x \in {y \in Extents(4) : InOrder(y)}}
      \cup {File(<<1, 2, 3, 4, 5, 6, 7, 8, 9>>, <<<<0, 9>>>>), File(<<>>, <<>>)}
=============================================================================
