----------------------------- MODULE MCGenimage -----------------------------
(* Instances of Genimage for TLC: three images a, b, c and a fourth, d.     *)
EXTENDS Genimage

CONSTANTS a, b, c, d

\* Sequences of up to two of the images: no, one or two partitions, the same
\* image in both included.
UpToTwo == {<<>>} \cup {<<i>> : i \in Image} \cup {<<i, j>> : i, j \in Image}

\* Configurations with these sections; an image without one is a file.
With(sections) ==
    {[sections |-> sections,
      parts |-> [i \in Image |-> IF i \in RangeOf(sections) THEN p[i] ELSE <<>>]] :
        p \in [RangeOf(sections) -> UpToTwo]}

\* Every dependency graph over three images, cyclic ones included.
AllGraphs == With(<<a, b, c>>) \cup With(<<a, b>>)

Parts(x, y, z, w) ==
    [i \in Image |-> CASE i = a -> x [] i = b -> y [] i = c -> z [] i = d -> w]

\* A shared child listed last, a chain with an input file, a cycle.
SomeGraphs ==
    {[sections |-> <<a, b, c>>, parts |-> Parts(<<c>>, <<c, c>>, <<>>, <<>>)],
     [sections |-> <<d, b, a>>, parts |-> Parts(<<b, c>>, <<c>>, <<>>, <<a>>)],
     [sections |-> <<a, b>>, parts |-> Parts(<<b>>, <<a>>, <<>>, <<>>)]}
=============================================================================
