---------------------------- MODULE MCFlashImage ----------------------------
(* Instances of FlashImage for TLC: erase blocks of 2 bytes.                *)
EXTENDS FlashImage

Part(offset, bytes, child, data) ==
    [offset |-> offset, size |-> bytes, child |-> child, data |-> data]

\* Partitions at any place, of any size, some no multiple of a block, without
\* an image, with a smaller one, one that is too large, known too late or, when
\* the flash image is written, larger than it was.
Options ==
    {Part(o, s, -1, 0) : o \in {0, 1, 2, 4, 8}, s \in {0, 1, 2, 4}}
      \cup {Part(o, s, d, d) : o \in {0, 4}, s \in {0, 2, 4}, d \in {1, 3, 4}}
      \cup {Part(o, s, 0, d) : o \in {0, 4}, s \in {0, 4}, d \in {0, 3, 5}}
      \cup {Part(o, s, 1, d) : o \in {0, 4}, s \in {0, 2}, d \in {2, 3}}

Flash(blocks, bytes, p) ==
    [typed |-> TRUE, pebsize |-> 2, numpebs |-> blocks, size |-> bytes, parts |-> p]

FlashConfigs ==
    {Flash(n, 0, p) : n \in {0, 2, 5},
                      p \in {<<>>} \cup {<<x>> : x \in Options}
                              \cup {<<x, y>> : x, y \in Options}}
      \cup {Flash(5, 10, <<x, y>>) : x, y \in Options}
      \cup {[Flash(4, 0, <<x>>) EXCEPT !.typed = FALSE] : x \in Options}
      \cup {Flash(5, 0, <<x, y, z>>) :
              x, y, z \in {Part(0, 2, -1, 0), Part(4, 2, 1, 1), Part(8, 2, 2, 2),
                           Part(0, 0, 0, 1), Part(2, 4, 3, 3), Part(0, 2, 0, 3)}}
=============================================================================
