---------------------------- MODULE MCFlashTypes ----------------------------
(* An instance of FlashTypes for TLC: all graphs over three images, in all  *)
(* orders, two flash sections and a name that is none.                      *)
EXTENDS FlashTypes

CONSTANTS a, b, c, s, t, other, none

Orders == {o \in [1..3 -> Image] : RangeOf(o) = Image}

\* A graph without cycles, up to the names of the images.
Graphs ==
    {[i \in Image |-> CASE i = a -> p [] i = b -> q [] i = c -> <<>>] :
        p \in {<<>>, <<b>>, <<c>>, <<b, c>>, <<c, b>>}, q \in {<<>>, <<c>>}}

AllLists ==
    {[order |-> o, parts |-> g, flashtype |-> f, needs |-> n] :
        o \in Orders, g \in Graphs, f \in [Image -> FlashName],
        n \in {{}, {c}, {a, b}}}
=============================================================================
