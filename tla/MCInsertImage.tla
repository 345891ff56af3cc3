---------------------------- MODULE MCInsertImage ---------------------------
(* Instances of InsertImage for TLC: files of a few bytes.                  *)
EXTENDS InsertImage

\* Inputs: no data, one or two extents with holes around them, an extent that
\* is longer than the file, one that ends with it.
SomeExtents ==
    {<<>>, <<<<0, 4>>>>, <<<<0, 2>>>>, <<<<1, 3>>>>, <<<<2, 4>>>>,
     <<<<0, 1>>, <<3, 4>>>>, <<<<1, 2>>, <<4, 6>>>>}
Subs == {s \in [len : {0, 3, 5}, extents : SomeExtents] :
            \A n \in DOMAIN s.extents : s.extents[n][1] < s.len}

SomeCalls ==
    {c \in [sub : Subs, given : BOOLEAN, size : 0..5, offset : {0, 2},
            imageoffset : {0, 2}, byte : {Zero, Pad}, sparse : BOOLEAN, punch : BOOLEAN] :
        c.given => c.byte = Zero \/ EndsInData(c)}
=============================================================================
