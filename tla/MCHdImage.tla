----------------------------- MODULE MCHdImage ------------------------------
(* Instances of HdImage for TLC.                                            *)
EXTENDS HdImage

\* A partition in the table, of a sector, without an image
Plain ==
    [intable |-> TRUE, forced |-> FALSE, offset |-> 0, size |-> 512,
     align |-> 0, autoresize |-> FALSE, ptype |-> FALSE, child |-> -1,
     data |-> 0, holes |-> {}, imageoffset |-> 0, fill |-> FALSE]

\* ... holding an image of known size
Holding(p, bytes) == [p EXCEPT !.size = 0, !.child = bytes, !.data = bytes]
At(p, where) == [p EXCEPT !.offset = where]
Outside(p) == [p EXCEPT !.intable = FALSE]
Forced(p) == [p EXCEPT !.forced = TRUE]
Typed(p) == [p EXCEPT !.ptype = TRUE]
Aligned(p, bytes) == [p EXCEPT !.align = bytes]
\* ... where cylinders have more than eight bits, and more sectors than a track
Far(n) == [At(Plain, 2105671680 + n * 131072) EXCEPT !.size = 65536]
WithHole(p, from, to) == [p EXCEPT !.holes = {<<from, to>>}]

Disk ==
    [type |-> "mbr", align |-> 0, gptloc |-> 0, nobackup |-> FALSE,
     fill |-> FALSE, size |-> 0, extended |-> 0, parts |-> <<>>]

UpTo(n, options) == UNION {[1..m -> options] : m \in 0..n}

(* Primary, extended and logical partitions: up to six partitions in and    *)
(* out of the table.                                                        *)
LogicalOptions ==
    {Plain, Forced(Plain), Holding(Plain, 700),
     Outside(At(Holding(Plain, 512), 2560))}
LogicalConfigs ==
    {[Disk EXCEPT !.align = a, !.extended = e, !.parts = p] :
        a \in {0, 1024}, e \in 0..5, p \in UpTo(5, LogicalOptions)}
      \cup
    {[Disk EXCEPT !.parts = p] :
        p \in [1..6 -> {Plain, At(Plain, 4096), Outside(At(Plain, 2048))}]}
      \cup
    {[Disk EXCEPT !.align = a, !.extended = e, !.parts = p] :
        a \in {0, 1024}, e \in 1..2,
        p \in UpTo(3, {Plain, Aligned(Plain, 512), Aligned(Plain, 2048), Far(0), Far(1)})}

(* Data that overlaps partitions, boot records and tables, with holes.      *)
OverlapOptions ==
    {Plain, At(Plain, 512), At(Plain, 1024), At(Plain, 20480),
     Typed(At(Plain, 17408)), Typed(Holding(Plain, 600)),
     Outside(WithHole(Holding(Plain, 512), 440, 512)),
     Outside(WithHole(Holding(Plain, 1200), 440, 1024)),
     Outside(WithHole(Holding(Plain, 1200), 440, 900)),
     Outside(At(WithHole(Holding(Plain, 1536), 512, 1024), 17408)),
     Outside(At(Holding(Plain, 300), 18000)),
     [Plain EXCEPT !.autoresize = TRUE],
     [Holding(Plain, 900) EXCEPT !.imageoffset = 500],
     Aligned(Holding(Plain, 600), 1536)}
OverlapConfigs ==
    {[Disk EXCEPT !.type = t, !.size = s, !.fill = f, !.parts = p] :
        t \in {"none", "mbr", "gpt", "hybrid"}, s \in {0, 49152},
        f \in BOOLEAN, p \in UpTo(2, OverlapOptions)}
      \cup
    {[Disk EXCEPT !.type = "gpt", !.gptloc = l, !.nobackup = b, !.parts = p] :
        l \in {0, 512, 2048}, b \in BOOLEAN, p \in UpTo(2, OverlapOptions)}
      \cup
    {[Disk EXCEPT !.type = t, !.parts = p] :
        t \in {"mbr", "hybrid"}, p \in [1..3 -> OverlapOptions]}

(* Images that get their size, or another one, only after the layout, and   *)
(* partitions that are filled up.                                           *)
Late(p, bytes) == [p EXCEPT !.child = 0, !.data = bytes]
Filled(p) == [p EXCEPT !.fill = TRUE]
LateOptions ==
    {Plain, At(Plain, 20480), Late(Plain, 0), Late(Plain, 300), Late(At(Plain, 20480), 512),
     Late(Plain, 600), Filled(Late(Plain, 0)), Filled(Late(Plain, 300)),
     Filled([Plain EXCEPT !.child = 200, !.data = 200]),
     [Plain EXCEPT !.child = 100, !.data = 500], [Plain EXCEPT !.child = 500, !.data = 100],
     [Late(Plain, 400) EXCEPT !.imageoffset = 400],
     Outside(Filled(Late(At(Plain, 512), 100))), Outside(Late(At(Plain, 19968), 500))}
LateConfigs ==
    {[Disk EXCEPT !.type = t, !.size = s, !.nobackup = b, !.fill = f, !.extended = e, !.parts = p] :
        t \in {"none", "mbr", "gpt"}, s \in {0, 49152}, b \in BOOLEAN,
        f \in BOOLEAN, e \in {0, 1}, p \in UpTo(2, LateOptions)}

DiskConfigs == LogicalConfigs \cup OverlapConfigs \cup LateConfigs
=============================================================================
