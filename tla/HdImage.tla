------------------------------ MODULE HdImage -------------------------------
(***************************************************************************)
(* The hdimage handler (image-hd.c): hdimage_setup() lays out the          *)
(* partitions and the areas of the partition table one after the other,    *)
(* hdimage_generate() writes them into the output file in list order and   *)
(* the table last.  All offsets and sizes are bytes.                       *)
(*                                                                         *)
(* The output is a regular file; the image size is given or 0.  UUIDs,     *)
(* names, flags and the contents of table entries other than the places    *)
(* they name are left out.                                                 *)
(***************************************************************************)
EXTENDS Integers, Sequences, FiniteSets

CONSTANTS
    Configs         \* the configurations of a disk image to consider

Sector == 512
MbrTail == 72                       \* sizeof(struct mbr_tail)
GptSectors == 33                    \* GPT_SECTORS: header and array
GptHeader == 92                     \* sizeof(struct gpt_header)
GptArray == 128 * 128               \* GPT_ENTRIES entries

(* A configured partition.  child is the size of its image when the disk    *)
(* image is set up: -1 without one, 0 if it is only known once the image    *)
(* is generated; data is the size then.  holes are byte ranges of it.       *)
PartConf ==
    [intable : BOOLEAN, forced : BOOLEAN, offset : Nat, size : Nat,
     align : Nat, autoresize : BOOLEAN, ptype : BOOLEAN, child : Nat \cup {-1},
     data : Nat, holes : SUBSET (Nat \X Nat), imageoffset : Nat, fill : BOOLEAN]

Conf ==
    [type : {"none", "mbr", "gpt", "hybrid"}, align : Nat, gptloc : Nat,
     nobackup : BOOLEAN, fill : BOOLEAN, size : Nat, extended : Nat,
     parts : Seq(PartConf)]

ASSUME ConfigsType == Configs \subseteq Conf

VARIABLES
    conf,           \* the configuration
    pc,             \* the step of hdimage_setup() or hdimage_generate()
    ret,            \* "ok", or the error that was returned
    align,          \* hd->align
    parts,          \* image->partitions
    extended,       \* hd->extended_partition: its place in the list, or 0
    k,              \* loop cursor
    now,            \* the end of everything placed so far
    size,           \* image->size
    fileSize,       \* hd->file_size
    resized,        \* partition_resized
    writes,         \* what generate wrote: byte ranges in order
    length          \* length of the output file, -1 if there is none

setupVars == <<align, parts, extended, k, now, size, fileSize, resized>>
vars == <<conf, pc, ret, setupVars, writes, length>>

Part ==
    [name : {"user", "extended", "mbr", "header", "array", "backup"},
     logical : BOOLEAN, intable : BOOLEAN, forced : BOOLEAN, offset : Nat,
     size : Nat, align : Nat, autoresize : BOOLEAN, ptype : BOOLEAN,
     child : Nat \cup {-1}, data : Nat, holes : SUBSET (Nat \X Nat),
     imageoffset : Nat, fill : BOOLEAN]

TypeOK ==
    /\ conf \in Conf
    /\ pc \in {"align", "logical", "fakes", "place", "prepare",
               "data", "table", "fill", "check", "end"}
    /\ ret \in STRING
    /\ parts \in Seq(Part)
    /\ extended \in 0..Len(parts)
    /\ {align, k, now, size, fileSize} \subseteq Nat
    /\ resized \in BOOLEAN
    /\ writes \in Seq([lo : Nat, hi : Nat, part : Nat])
    /\ length \in Nat \cup {-1}

-----------------------------------------------------------------------------
(* roundup(v, a) is ((v - 1) / a + 1) * a in unsigned 64 bit arithmetic: at  *)
(* 0 the subtraction wraps, and the result is -2^64 modulo a, which is 0     *)
(* for the powers of two only.                                               *)
TwoTo64Mod(a) ==
    LET mod16 == 65536 % a
        mod32 == (mod16 * mod16) % a
    IN  (mod32 * mod32) % a

RoundUp(v, a) == IF v = 0 THEN (a - TwoTo64Mod(a)) % a
                 ELSE ((v - 1) \div a + 1) * a
RoundDown(v, a) == v - (v % a)

MaxOf(x, y) == IF x > y THEN x ELSE y
MinOf(x, y) == IF x < y THEN x ELSE y

Gpt == conf.type \in {"gpt", "hybrid"}
End(p) == p.offset + p.size
Indices == DOMAIN parts
HasImage(p) == p.child >= 0

FromConf(c) ==
    [name |-> "user", logical |-> FALSE, intable |-> c.intable,
     forced |-> c.forced, offset |-> c.offset, size |-> c.size,
     align |-> c.align, autoresize |-> c.autoresize, ptype |-> c.ptype,
     child |-> c.child, data |-> c.data, holes |-> c.holes,
     imageoffset |-> c.imageoffset, fill |-> c.fill]

\* fake_partition()
Fake(name, offset, bytes) ==
    [name |-> name, logical |-> FALSE, intable |-> FALSE, forced |-> FALSE,
     offset |-> offset, size |-> bytes, align |-> 1, autoresize |-> FALSE,
     ptype |-> FALSE, child |-> -1, data |-> 0, holes |-> {},
     imageoffset |-> 0, fill |-> FALSE]

Init ==
    /\ conf \in Configs
    /\ pc = "align"
    /\ ret = "ok"
    /\ align = conf.align
    /\ parts = [n \in DOMAIN conf.parts |-> FromConf(conf.parts[n])]
    /\ extended = 0
    /\ k = 1
    /\ now = 0
    /\ size = conf.size
    /\ fileSize = 0
    /\ resized = FALSE
    /\ writes = <<>>
    /\ length = -1

Error(reason) ==
    /\ ret' = reason
    /\ pc' = "end"
    /\ UNCHANGED <<conf, setupVars, writes, length>>

-----------------------------------------------------------------------------
\* The default of align, and its check.
SetupAlign ==
    /\ pc = "align"
    /\ LET a == IF conf.align = 0 THEN (IF conf.type = "none" THEN 1 ELSE Sector)
                ELSE conf.align
       IN \/ /\ conf.type # "none" /\ a % Sector # 0
             /\ Error("bad align")
          \/ /\ conf.type = "none" \/ a % Sector = 0
             /\ align' = a
             /\ pc' = "logical"
             /\ UNCHANGED <<conf, ret, parts, extended, k, now, size, fileSize,
                            resized, writes, length>>

(* setup_logical_partitions().  The extended partition takes the number the *)
(* configuration gives it, or 4 if more than four partitions are in the     *)
(* table; from there on partitions are logical, until the first             *)
(* forced-primary one.                                                      *)
InTable == {n \in Indices : parts[n].intable}
Number(n) == Cardinality({m \in InTable : m <= n})
ExtendedIndex == IF conf.extended # 0 THEN conf.extended
                 ELSE IF Cardinality(InTable) > 4 THEN 4 ELSE 0

\* The partition in the table that the extended one is put in front of
FirstInside == {n \in InTable : Number(n) = ExtendedIndex}
Inside(n) == \E f \in FirstInside : f <= n
ForcedUpTo(n) == \E m \in InTable : /\ m <= n /\ parts[m].forced
                                    /\ Inside(m)
IsLogical(n) == n \in InTable /\ Inside(n) /\ ~ForcedUpTo(n)

\* Entries of the MBR used up by the partitions up to n
MbrEntries(n) ==
    Cardinality({m \in InTable : m <= n /\ ~IsLogical(m)})
      + Cardinality({f \in FirstInside : f <= n})

Misplaced(n) ==
    \/ parts[n].forced /\ ~Inside(n)
    \/ ~parts[n].forced /\ Inside(n) /\ ~IsLogical(n)
    \/ MbrEntries(n) > 4

WithExtended(f) ==
    LET marked == [n \in Indices |-> [parts[n] EXCEPT !.logical = IsLogical(n)]]
        offset == IF parts[f].offset = 0 THEN 0 ELSE parts[f].offset - align
        p == [Fake("extended", offset, 0) EXCEPT
                !.intable = TRUE, !.ptype = TRUE, !.align = align]
    IN  SubSeq(marked, 1, f - 1) \o <<p>> \o SubSeq(marked, f, Len(parts))

SetupLogical ==
    /\ pc = "logical"
    /\ \/ /\ conf.extended > 4
          /\ Error("bad extended partition index")
       \/ /\ conf.extended <= 4
          /\ conf.type # "mbr" \/ ExtendedIndex = 0
          /\ pc' = "fakes"
          /\ UNCHANGED <<conf, ret, setupVars, writes, length>>
       \/ /\ conf.extended <= 4
          /\ conf.type = "mbr" /\ ExtendedIndex # 0
          /\ \E n \in InTable : Misplaced(n)
          /\ Error("primary and logical partitions do not fit")
       \/ /\ conf.extended <= 4
          /\ conf.type = "mbr" /\ ExtendedIndex # 0
          /\ \A n \in InTable : ~Misplaced(n)
          /\ IF FirstInside = {}
             THEN UNCHANGED <<parts, extended>>
             ELSE \E f \in FirstInside :
                    /\ parts' = WithExtended(f)
                    /\ extended' = f
          /\ pc' = "fakes"
          /\ UNCHANGED <<conf, ret, align, k, now, size, fileSize, resized,
                         writes, length>>

\* The areas of the table join the list behind the configured partitions.
\* (A gpt-location that is no multiple of a sector is only complained about.)
GptLocation == IF conf.gptloc = 0 THEN 2 * Sector ELSE conf.gptloc
BackupSize == GptSectors * Sector

SetupFakes ==
    /\ pc = "fakes"
    /\ LET mbr == Fake("mbr", Sector - MbrTail, MbrTail)
           header == Fake("header", Sector, Sector)
           array == Fake("array", GptLocation, (GptSectors - 1) * Sector)
           backup == Fake("backup", IF size = 0 THEN 0 ELSE size - BackupSize,
                          BackupSize)
           fakes == CASE conf.type = "none" -> <<>>
                      [] conf.type = "mbr" -> <<mbr>>
                      [] Gpt -> <<mbr, header, array, backup>>
           end == CASE conf.type = "none" -> 0
                    [] conf.type = "mbr" -> End(mbr)
                    [] Gpt -> End(array)
       IN /\ parts' = parts \o fakes
          /\ now' = end
          /\ fileSize' = end
    /\ pc' = "place"
    /\ UNCHANGED <<conf, ret, align, extended, k, size, resized, writes, length>>

-----------------------------------------------------------------------------
(* The loop over the partitions.  A partition gets its align, offset and    *)
(* size from its options, from `now' and from its image, in this order.     *)
WithAlign(p) ==
    LET in == p.intable /\ conf.type # "none"
    IN  [p EXCEPT !.intable = in,
                  !.align = IF p.align # 0 THEN p.align
                            ELSE IF in \/ conf.type = "none" THEN align ELSE 1]

\* Mutant: no room for the boot record.
ReservedNothing(p) == IF p.logical THEN RoundUp(now, p.align) ELSE now

\* A logical partition leaves room for its extended boot record; the backup
\* table goes to the end, such that the image ends at a multiple of 4096.
Reserved(p) == IF p.logical THEN RoundUp(now + align, p.align) ELSE now

WithOffset(p) ==
    IF p.offset # 0 THEN p
    ELSE IF p.name = "backup"
    THEN [p EXCEPT !.offset = RoundUp(Reserved(p) + p.size, 4096) - p.size]
    ELSE IF p.intable \/ conf.type = "none"
    THEN [p EXCEPT !.offset = RoundUp(Reserved(p), p.align)]
    ELSE p

\* setup_part_autoresize(): what is left of the image behind the offset
Room(p) ==
    RoundDown(size - p.offset - (IF Gpt THEN BackupSize ELSE 0), p.align)

CanResize(p) ==
    p.autoresize => ~resized /\ size > 0 /\ Room(p) > 0 /\ Room(p) >= p.size
WithAutoresize(p) ==
    IF p.autoresize /\ CanResize(p) THEN [p EXCEPT !.size = Room(p)] ELSE p

\* setup_part_image(): an image of unknown size counts as empty here
DataSize(p) == IF p.child > 0 THEN p.child - p.imageoffset ELSE 0
WithSize(p) ==
    IF ~HasImage(p) \/ p.size # 0 THEN p
    ELSE [p EXCEPT !.size = IF p.intable THEN RoundUp(DataSize(p), p.align)
                            ELSE DataSize(p)]
ImageFits(p) == HasImage(p) => DataSize(p) \in 0..p.size

Placed(p) == WithSize(WithAutoresize(WithOffset(WithAlign(p))))

\* image_has_hole_covering() and check_overlap(): p may only cover what an
\* earlier partition q declares as a hole of its image.
HoleCovers(q, from, to) ==
    HasImage(q) /\ \E h \in q.holes : h[1] <= from /\ to <= h[2]

Overlaps(p, q) ==
    /\ p.offset < End(q) /\ q.offset < End(p)
    /\ ~HoleCovers(q, MaxOf(p.offset, q.offset) - q.offset,
                      MinOf(End(p), End(q)) - q.offset)

\* (An align that is no multiple of the image's is only complained about.)
Accepted(p) ==
    /\ p.ptype => conf.type \in {"mbr", "hybrid"}
    /\ p.offset % p.align = 0
    /\ CanResize(WithOffset(WithAlign(parts[k])))
    /\ ImageFits(p)
    /\ p.size = 0 => k = extended
    /\ IF p.logical THEN Reserved(p) <= p.offset
       ELSE \A n \in 1..(k - 1) : ~Overlaps(p, parts[n])
    /\ p.intable => p.size % Sector = 0

\* Mutant: the last partition counts, not the farthest one.
AdvanceTo(p) == End(p)

\* The end of everything placed, with p
Advance(p) == MaxOf(now, End(p))

\* Mutant: boot records do not count for the file size.
EbrEndIgnored(p) == IF p.logical THEN 0 ELSE 0

EbrEnd(p) == IF p.logical THEN p.offset - align + Sector ELSE 0

PlacePart ==
    /\ pc = "place" /\ k <= Len(parts)
    /\ LET p == Placed(parts[k])
           end == Advance(p)
           data == IF HasImage(p) THEN p.offset + DataSize(p) ELSE 0
       IN \/ /\ Accepted(p)
             /\ parts' = IF p.logical
                         THEN [parts EXCEPT ![k] = p,
                                 ![extended].size = end - parts[extended].offset]
                         ELSE [parts EXCEPT ![k] = p]
             /\ now' = end
             /\ fileSize' = MaxOf(fileSize, MaxOf(data, EbrEnd(p)))
             /\ resized' = (resized \/ p.autoresize)
             /\ k' = k + 1
             /\ UNCHANGED <<conf, pc, ret, align, extended, size, writes, length>>
          \/ /\ ~Accepted(p)
             /\ Error("partition cannot be placed")

HybridEntries == IF Gpt THEN {n \in Indices : parts[n].intable /\ parts[n].ptype}
                 ELSE {}

FinalFileSize(total) ==
    IF conf.fill \/ (Gpt /\ ~conf.nobackup) THEN total ELSE fileSize

SetupFinish ==
    /\ pc = "place" /\ k > Len(parts)
    /\ LET bad == \/ Cardinality(HybridEntries) > 3
                  \/ conf.type = "hybrid" /\ HybridEntries = {}
                  \/ size > 0 /\ now > size
           total == IF size = 0 THEN now ELSE size
       IN \/ bad /\ Error("bad layout")
          \/ /\ ~bad
             /\ size' = total
             /\ fileSize' = FinalFileSize(total)
             /\ k' = 1
             /\ pc' = "prepare"
             /\ UNCHANGED <<conf, ret, align, parts, extended, now, resized,
                            writes, length>>

-----------------------------------------------------------------------------
(* hdimage_generate().  A write makes the file longer if it has to.         *)
Extent(lo, bytes, n) == [lo |-> lo, hi |-> lo + bytes, part |-> n]
Longest(ws, from) ==
    LET ends == {from} \cup {IF w.lo = w.hi THEN 0 ELSE w.hi : w \in ws}
    IN  CHOOSE e \in ends : \A f \in ends : f <= e

Write(ws) ==
    /\ writes' = writes \o ws
    /\ length' = Longest({ws[n] : n \in DOMAIN ws}, length)

\* prepare_image(): a file of the final size, or none at all
Prepare ==
    /\ pc = "prepare"
    /\ length' = IF fileSize = 0 THEN -1 ELSE fileSize
    /\ pc' = "data"
    /\ UNCHANGED <<conf, ret, setupVars, writes>>

\* Mutant: the boot record goes to the partition it describes.
EbrInside(p) == IF p.logical THEN <<Extent(p.offset + 446, 66, 0)>> ELSE <<>>

\* One partition: hdimage_insert_ebr() for a logical one, then the image.
Ebr(p) == IF p.logical THEN <<Extent(p.offset - align + 446, 66, 0)>> ELSE <<>>

WriteData ==
    /\ pc = "data" /\ k <= Len(parts)
    /\ LET p == parts[k]
           bytes == p.data - p.imageoffset
       IN \/ /\ ~HasImage(p) \/ (p.data = 0 /\ ~p.fill)
             /\ Write(Ebr(p))
             /\ k' = k + 1
             /\ UNCHANGED <<conf, pc, ret, align, parts, extended, now, size,
                            fileSize, resized>>
          \/ /\ HasImage(p) /\ (p.data # 0 \/ p.fill)
             /\ bytes \in 0..p.size
             /\ Write(Append(Ebr(p),
                             Extent(p.offset, IF p.fill THEN p.size ELSE bytes, k)))
             /\ k' = k + 1
             /\ UNCHANGED <<conf, pc, ret, align, parts, extended, now, size,
                            fileSize, resized>>
          \/ /\ HasImage(p) /\ (p.data # 0 \/ p.fill)
             /\ bytes \notin 0..p.size
             /\ Write(Ebr(p))
             /\ ret' = "image and partition do not fit"
             /\ pc' = "end"
             /\ UNCHANGED <<conf, setupVars>>

DataDone ==
    /\ pc = "data" /\ k > Len(parts)
    /\ pc' = "table"
    /\ UNCHANGED <<conf, ret, setupVars, writes, length>>

\* The range of usable sectors in the GPT header: from the end of the last
\* data in front of all partitions to where the backup begins.
Entries == {n \in Indices : parts[n].intable}

\* Mutant: data anywhere counts.
Anywhere(end) == end >= 0

InFront(end) == \A n \in Entries : end <= parts[n].offset

FirstUsable ==
    LET ends == {0} \cup {End(parts[n]) : n \in
                   {m \in Indices \ Entries : /\ parts[m].name # "backup"
                                              /\ InFront(End(parts[m]))}}
    IN  RoundUp(CHOOSE e \in ends : \A f \in ends : f <= e, Sector) \div Sector

LastUsable == size \div Sector - 1 - GptSectors

-----------------------------------------------------------------------------
(* What the entries of the tables say, in sectors.                          *)

\* lba_to_chs(), with the two upper bits of the cylinder put to its others
Chs(lba) ==
    LET c == lba \div (63 * 255)
    IN  [head |-> (lba \div 63) % 255, cylinder |-> c % 1024,
         sector |-> IF lba > 0 THEN (lba % 63) + 1 ELSE 0]

Entry(what, start, total, from) ==
    [what |-> what, start |-> start, total |-> total,
     first |-> Chs(start + from), last |-> Chs(start + total - 1 + from)]

\* The partitions in the MBR, and the one that comes i-th
Shown == {n \in Entries : /\ ~parts[n].logical
                          /\ conf.type = "hybrid" => parts[n].ptype}
ShownAs(i) == CHOOSE n \in Shown : Cardinality({m \in Shown : m <= n}) = i

\* hdimage_insert_mbr(), also for the protective MBR of a GPT
MbrTable ==
    LET entries == [i \in 1..Cardinality(Shown) |->
                      LET p == parts[ShownAs(i)]
                      IN  Entry(p.name, p.offset \div Sector, p.size \div Sector, 0)]
    IN  CASE conf.type = "mbr" -> entries
          [] conf.type = "hybrid" ->
               Append(entries, Entry("gpt", 1, GptLocation \div Sector + GptSectors - 2, 0))
          [] conf.type = "gpt" -> <<Entry("gpt", 1, (size - Sector) \div Sector, 0)>>

\* Mutant: counted from this boot record on.
LinkFromHere(p, q) == (q.offset - p.offset) \div Sector

\* The sector of the next boot record, counted from the extended partition on
Link(p, q) == (q.offset - align - parts[extended].offset) \div Sector

\* hdimage_insert_ebr() for partition n
EbrTable(n) ==
    LET p == parts[n]
        later == {m \in Indices : m > n /\ parts[m].logical}
    IN  <<Entry("user", align \div Sector, p.size \div Sector,
                (p.offset - align) \div Sector)>>
          \o IF later = {} THEN <<>>
             ELSE LET q == parts[CHOOSE m \in later : \A l \in later : m <= l]
                  IN  <<Entry("extended", Link(p, q), (q.size + align) \div Sector,
                              parts[extended].offset \div Sector)>>

\* Mutant: the copy at the end names the array at the beginning.
OneArray(backup) == GptLocation

\* The array that a header names, and the headers as they are written
ArrayOf(backup) == IF backup THEN size - BackupSize ELSE GptLocation
HeaderOf(backup) ==
    [at |-> IF backup THEN size - Sector ELSE Sector,
     current |-> IF backup THEN size \div Sector - 1 ELSE 1,
     other |-> IF backup \/ conf.nobackup THEN 1 ELSE size \div Sector - 1,
     starting |-> ArrayOf(backup) \div Sector]

\* hdimage_insert_gpt() and hdimage_insert_mbr(); before the backup is
\* written the file is extended to the size of the image.
TableWrites ==
    LET mbr == <<Extent(Sector - MbrTail, MbrTail, 0)>>
        gpt == <<Extent(Sector, GptHeader, 0), Extent(GptLocation, GptArray, 0)>>
        backup == IF conf.nobackup THEN <<>>
                  ELSE <<Extent(size - BackupSize, GptArray, 0),
                         Extent(size - Sector, GptHeader, 0)>>
    IN  CASE conf.type = "none" -> <<>>
          [] conf.type = "mbr" -> mbr
          [] Gpt -> gpt \o backup \o mbr

WriteTable ==
    /\ pc = "table"
    /\ \/ /\ Gpt /\ ~conf.nobackup /\ length > size
          /\ Error("output file is larger than requested size")
       \/ /\ Gpt /\ ~conf.nobackup => length <= size
          /\ writes' = writes \o TableWrites
          /\ length' = Longest({TableWrites[n] : n \in DOMAIN TableWrites},
                               IF Gpt /\ ~conf.nobackup THEN size ELSE length)
          /\ pc' = "fill"
          /\ UNCHANGED <<conf, ret, setupVars>>

\* extend_file() for "fill"
Fill ==
    /\ pc = "fill"
    /\ \/ /\ conf.fill /\ length > size
          /\ Error("output file is larger than requested size")
       \/ /\ conf.fill => length <= size
          /\ length' = IF conf.fill THEN size ELSE length
          /\ pc' = "check"
          /\ UNCHANGED <<conf, ret, setupVars, writes>>

CheckSize ==
    /\ pc = "check"
    /\ \/ /\ length = fileSize
          /\ pc' = "end"
          /\ UNCHANGED <<conf, ret, setupVars, writes, length>>
       \/ /\ length = -1
          /\ Error("stat of the output file failed")
       \/ /\ length \notin {-1, fileSize}
          /\ Error("unexpected output file size")

Next ==
    \/ SetupAlign \/ SetupLogical \/ SetupFakes \/ PlacePart \/ SetupFinish
    \/ Prepare \/ WriteData \/ DataDone \/ WriteTable \/ Fill \/ CheckSize

Spec == Init /\ [][Next]_vars

-----------------------------------------------------------------------------
(* Properties *)

SetupDone == pc \in {"prepare", "data", "table", "fill", "check"}
                \/ (pc = "end" /\ ret = "ok")
User == {n \in Indices : parts[n].name = "user"}
Disjoint(lo1, hi1, lo2, hi2) == hi1 <= lo2 \/ hi2 <= lo1

(* What is written later never destroys what was written before, be it a    *)
(* partition's data, an extended boot record or the table, except where the *)
(* earlier image has a hole.  check_overlap() looks at partitions only, not *)
(* at boot records, and at the layout only, not at what is written.         *)
OverwritesOnlyHoles ==
    \A m, n \in DOMAIN writes :
        LET a == writes[m]
            b == writes[n]
            q == parts[a.part]
            from == MaxOf(a.lo, b.lo) - q.offset + q.imageoffset
            to == MinOf(a.hi, b.hi) - q.offset + q.imageoffset
        IN  m < n /\ ~Disjoint(a.lo, a.hi, b.lo, b.hi) =>
              a.part # 0 /\ \E h \in q.holes : h[1] <= from /\ to <= h[2]

(* The extended partition spans every logical partition together with the   *)
(* boot record in front of it, and no primary one.  Without logical ones it *)
(* stays empty, and may then be anywhere.                                   *)
ExtendedCovers ==
    SetupDone /\ extended # 0 =>
        LET e == parts[extended]
        IN  \A n \in Entries \ {extended} :
              IF parts[n].logical
              THEN e.offset <= parts[n].offset - align /\ End(parts[n]) <= End(e)
              ELSE e.size = 0 \/ Disjoint(e.offset, End(e), parts[n].offset, End(parts[n]))

(* hdimage_setup() computes the size of the file before the images exist,   *)
(* and does not look at `fill'.  It is wrong only if an image that is       *)
(* filled up, or has another size by then, ends behind all that was         *)
(* counted; then hdimage_generate() never succeeds.  It is never wrong if   *)
(* the file is as large as the image (`fill', or a backup of the GPT).  A   *)
(* file that does not exist has nothing to be written to it.                *)
WrittenTo(p) == p.offset + IF p.fill THEN p.size ELSE p.data - p.imageoffset
Beyond(p) == HasImage(p) /\ WrittenTo(p) > fileSize
Uncounted(p) == p.fill \/ p.data # p.child

FileSizeExact ==
    /\ ret # "output file is larger than requested size"
    /\ ret = "unexpected output file size" =>
          /\ ~conf.fill /\ (Gpt => conf.nobackup)
          /\ \E n \in Indices : Beyond(parts[n]) /\ Uncounted(parts[n])
    /\ pc = "end" /\ ret \in {"ok", "stat of the output file failed"} =>
          \A n \in Indices : ~Beyond(parts[n])
    /\ ret = "stat of the output file failed" => conf.type = "none" /\ fileSize = 0

(* The partitions in a GPT lie within its range of usable sectors, which    *)
(* hdimage_insert_gpt() derives from the places of everything else, and     *)
(* that range ends where the backup begins.                                 *)
GptRangeUsable ==
    SetupDone /\ Gpt =>
        /\ \A n \in Entries :
              /\ FirstUsable <= parts[n].offset \div Sector
              /\ End(parts[n]) \div Sector - 1 <= LastUsable
        /\ (LastUsable + 1) * Sector <= size - BackupSize

(* A partition without an offset comes after all that precede it in the     *)
(* list and after the areas of the table (README: "placed after the end of  *)
(* all previously defined partitions"), also when those are out of order.   *)
AutoOffsetComesAfter ==
    SetupDone =>
        \A n \in DOMAIN conf.parts :
            conf.parts[n].offset = 0 /\ conf.parts[n].intable /\ conf.type # "none" =>
                LET at == IF extended \in 1..n THEN n + 1 ELSE n
                IN  /\ \A m \in 1..(at - 1) :
                          m # extended => End(parts[m]) <= parts[at].offset
                    /\ \A m \in Indices \ User :
                          m # extended /\ parts[m].name # "backup" =>
                             End(parts[m]) <= parts[at].offset

\* The boot records that a reader finds: the first one where the extended
\* partition begins, the others where the links lead to, and no more.
Extended == {e \in {MbrTable[i] : i \in DOMAIN MbrTable} : e.what = "extended"}
EbrAt(s) == {n \in Indices : parts[n].logical /\ parts[n].offset - align = s * Sector}
Links(s, e) ==
    {[base |-> e, entry |-> EbrTable(n)[2]] : n \in {m \in EbrAt(s) : Len(EbrTable(m)) = 2}}
Target(x) == x.base + x.entry.start
Sectors(e) ==
    {e} \cup {e + EbrTable(n)[2].start :
                n \in {m \in Indices : parts[m].logical /\ Len(EbrTable(m)) = 2}}
Followed(S, e) == e \in S /\ \A s \in S : \A x \in Links(s, e) : Target(x) \in S
Chain(e) == {s \in Sectors(e) : \A S \in SUBSET Sectors(e) : Followed(S, e) => s \in S}

\* All entries that are read, with the sector that they count from.
Read ==
    {[base |-> 0, entry |-> MbrTable[i]] : i \in DOMAIN MbrTable}
      \cup UNION {UNION {Links(s, e.start)
                           \cup {[base |-> s, entry |-> EbrTable(n)[1]] : n \in EbrAt(s)} :
                        s \in Chain(e.start)} : e \in Extended}

ChsNames(chs, lba) ==
    lba < 1024 * 255 * 63 =>
        (chs.cylinder * 255 + chs.head) * 63 + chs.sector - 1 = lba

\* The first logical partition is aligned like the image, or placed by hand.
FirstAligned ==
    \A n \in Indices :
        n = extended + 1 /\ parts[n].logical =>
            parts[n].align = align \/ conf.parts[extended].offset # 0

(* The MBR and the boot records that it leads to name the partitions that   *)
(* have been laid out, each with its sectors, in both forms of address,     *)
(* relative to three different places; and the MBR has room for its         *)
(* entries, which hdimage_insert_mbr() does not count.  A first logical     *)
(* partition with its own align breaks the chain at its start: then no      *)
(* logical partition is found, but still nothing that is not there.         *)
Spans(N) == {[start |-> parts[n].offset \div Sector, total |-> parts[n].size \div Sector] : n \in N}
Named == {[start |-> x.base + x.entry.start, total |-> x.entry.total] :
             x \in {r \in Read : r.entry.what = "user"}}

MbrRead ==
    SetupDone /\ conf.type # "none" =>
        /\ Len(MbrTable) <= 4
        /\ conf.type = "mbr" =>
              /\ Spans({n \in Entries \ {extended} : ~parts[n].logical}) \subseteq Named
              /\ Named \subseteq Spans(Entries \ {extended})
              /\ FirstAligned => Named = Spans(Entries \ {extended})
        /\ \A x \in Read :
              /\ ChsNames(x.entry.first, x.base + x.entry.start)
              /\ x.entry.total # 0 =>
                    ChsNames(x.entry.last, x.base + x.entry.start + x.entry.total - 1)

(* Both headers of a GPT say where they are, where the other one is and     *)
(* where their array is, in the file as it has been written, whether the    *)
(* size was given or found.                                                 *)
GptRead ==
    pc \in {"fill", "check"} /\ Gpt =>
        \A backup \in IF conf.nobackup THEN {FALSE} ELSE BOOLEAN :
            LET h == HeaderOf(backup)
                o == HeaderOf(~backup)
                Has(sector, bytes) ==
                    \E n \in DOMAIN writes :
                        writes[n] = Extent(sector * Sector, bytes, 0)
            IN  /\ h.at = h.current * Sector /\ Has(h.current, GptHeader)
                /\ Has(h.starting, GptArray)
                /\ h.other = IF conf.nobackup THEN h.current ELSE o.current
                /\ ~conf.nobackup => h.starting # o.starting
=============================================================================
