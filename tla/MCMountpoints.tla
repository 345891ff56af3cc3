---------------------------- MODULE MCMountpoints ---------------------------
(* Instances of Mountpoints for TLC: up to three images.                     *)
EXTENDS Mountpoints

a == <<"a">>
b == <<"b">>
ab == <<"a", "b">>

Tree == {<<>>, <<a>>, <<a, a>>, <<a, b>>, <<a, b, a>>, <<b>>, <<b, a>>, <<ab>>, <<ab, b>>}
With(p) == [mountpoint |-> p, srcpath |-> FALSE, filled |-> TRUE]

\* Mount points of which some are nested, one is missing and some share a
\* directory, an image without one, an image that needs none but has one, and
\* one with srcpath.
Images ==
    {With(p) : p \in {<<>>, <<a>>, <<b>>, <<a, b>>, <<b, a>>, <<a, b, a>>, <<b, b>>, <<ab>>, <<a, <<"">>>>}}
      \cup {[With(<<a, a>>) EXCEPT !.filled = FALSE], [With(<<>>) EXCEPT !.srcpath = TRUE]}

SomeWords == {"root", "mp", "a", "b", ""}
SomeConfigs ==
    {[tree |-> Tree, images |-> x] : x \in UNION {[1..n -> Images] : n \in 0..3}}
=============================================================================
