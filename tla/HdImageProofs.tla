---------------------------- MODULE HdImageProofs ---------------------------
(***************************************************************************)
(* Theorems about the layout of disk images, for any configuration.        *)
(* hdimage_setup() places partitions one by one, behind everything that    *)
(* has been placed unless they say where they go, and lets the extended    *)
(* partition grow with each logical one.  Why it cannot grow over a        *)
(* primary one takes most of the invariant: those in front of it end where *)
(* it begins, since the first logical partition must follow them by the    *)
(* length of a boot record, and behind it no logical one comes after them. *)
(* A second invariant then says that partitions are apart or in each       *)
(* other's holes, as check_overlap() finds, and that what is written stays *)
(* in the partition it is written for; others that the headers of a GPT,   *)
(* which are computed from the size of the image, agree with that layout,  *)
(* that its range of usable sectors holds the partitions, that the output  *)
(* file gets the size that has been predicted, but for images of which     *)
(* that size took no account, and that the MBR and the boot records lead a *)
(* reader to the partitions.                                               *)
(***************************************************************************)
EXTENDS HdImage, FiniteSetTheorems, SequenceTheorems, WellFoundedInduction, TLAPS

\* Offsets are no natural numbers before they are checked.
AnyPart ==
    [name : {"user", "extended", "mbr", "header", "array", "backup"},
     logical : BOOLEAN, intable : BOOLEAN, forced : BOOLEAN, offset : Int,
     size : Int, align : Nat, autoresize : BOOLEAN, ptype : BOOLEAN,
     child : Int, data : Nat, holes : SUBSET (Nat \X Nat),
     imageoffset : Nat, fill : BOOLEAN]

Early == {"align", "logical"}
Laid == pc \in {"fakes", "place"} \/ SetupDone
\* The partitions that the loop has placed
Settled == IF pc = "place" THEN 1..(k - 1) ELSE IF SetupDone THEN Indices ELSE {}

TypeInv ==
    /\ conf \in Conf
    /\ pc \in Early \cup {"fakes", "place", "prepare", "data", "table", "fill", "check", "end"}
    /\ parts \in Seq(AnyPart)
    /\ extended \in 0..Len(parts)
    /\ align \in Nat /\ k \in Nat \ {0} /\ now \in Nat /\ size \in Nat
    /\ pc # "end" => ret = "ok"
    /\ pc # "align" /\ (pc # "end" \/ SetupDone) => align # 0
    /\ pc \in Early \cup {"fakes"} => k = 1
    /\ pc = "place" => k <= Len(parts) + 1

\* The list before anything has been put into it
StartInv ==
    pc \in Early =>
        /\ parts = [n \in DOMAIN conf.parts |-> FromConf(conf.parts[n])]
        /\ extended = 0

\* Where partition n of the configuration is
PlaceOf(n) == IF extended \in 1..n THEN n + 1 ELSE n
\* Areas of the table other than the backup at the end
IsTable(m) == parts[m].name \in {"mbr", "header", "array"}

ListInv ==
    Laid =>
        /\ \A n \in DOMAIN conf.parts :
              /\ PlaceOf(n) \in Indices /\ parts[PlaceOf(n)].name = "user"
              /\ PlaceOf(n) \notin Settled =>
                    /\ parts[PlaceOf(n)].offset = conf.parts[n].offset
                    /\ parts[PlaceOf(n)].intable = conf.parts[n].intable
        /\ \A m \in Indices :
              /\ IsTable(m) => /\ pc # "fakes" /\ parts[m].offset # 0 /\ parts[m].child = -1
                               /\ ~parts[m].autoresize /\ ~parts[m].logical
                               /\ End(parts[m]) <= now
              /\ parts[m].name = "extended" => m = extended
              /\ parts[m].logical => extended # 0 /\ extended < m
        /\ pc # "fakes" /\ conf.type # "none" => 0 < now

\* Once a partition behind the extended one is primary, all others are.
ExtendedInv ==
    Laid /\ extended # 0 =>
        /\ conf.type = "mbr"
        /\ extended + 1 \in Indices /\ parts[extended + 1].intable
        /\ parts[extended].child = -1 /\ ~parts[extended].logical /\ parts[extended].intable
        /\ parts[extended].name = "extended"
        /\ \A m, n \in Indices :
              extended < m /\ m < n /\ parts[m].intable /\ ~parts[m].logical => ~parts[n].logical

\* The extended partition until it is placed
FirstInv ==
    Laid /\ extended # 0 /\ extended \notin Settled =>
        LET e == parts[extended]
            first == parts[extended + 1]
        IN  /\ e.size = 0 /\ ~e.autoresize
            /\ e.offset = 0 \/ (first.offset = e.offset + align /\ first.offset # 0)

EndInv ==
    \A m \in Settled \ {extended} : End(parts[m]) <= now

Before(at) ==
    /\ \A m \in 1..(at - 1) : m # extended => End(parts[m]) <= parts[at].offset
    /\ \A m \in Indices : IsTable(m) => End(parts[m]) <= parts[at].offset
AutoInv ==
    \A n \in DOMAIN conf.parts :
        PlaceOf(n) \in Settled /\ conf.parts[n].offset = 0 /\ conf.parts[n].intable
            /\ conf.type # "none" => Before(PlaceOf(n))

Covers(n) ==
    LET e == parts[extended]
    IN  IF parts[n].logical
        THEN e.offset <= parts[n].offset - align /\ End(parts[n]) <= End(e)
        ELSE e.size = 0 \/ Disjoint(e.offset, End(e), parts[n].offset, End(parts[n]))
CoverInv ==
    extended # 0 /\ extended \in Settled =>
        LET e == parts[extended]
            first == parts[extended + 1]
        IN  /\ e.offset <= now
            /\ \A n \in Settled \ {extended} : parts[n].intable => Covers(n)
            /\ extended + 1 \notin Settled =>
                  /\ e.size = 0
                  /\ now = e.offset \/ (first.offset = e.offset + align /\ first.offset # 0)
            /\ extended + 1 \in Settled /\ first.logical =>
                  \A m \in 1..(extended - 1) : End(parts[m]) <= e.offset

LayoutInv == ListInv /\ ExtendedInv /\ FirstInv /\ EndInv /\ AutoInv /\ CoverInv
IInv == TypeInv /\ StartInv /\ LayoutInv

-----------------------------------------------------------------------------
(* The second invariant, for what is written.  Its assumption: an image     *)
(* that is not written from its first byte on has no holes, because         *)
(* check_overlap() looks for them as if it were.                            *)

HolesFromStart ==
    \A c \in Configs : \A n \in DOMAIN c.parts :
        c.parts[n].holes # {} => c.parts[n].imageoffset = 0

PartInv(p) ==
    /\ p.size >= 0
    /\ p.logical => p.intable
    /\ p.holes # {} => p.imageoffset = 0
PartsInv == Laid => \A m \in Indices \ {extended} : PartInv(parts[m])

\* A boot record fits in front of a logical partition.
AlignInv == pc \notin {"align", "end"} /\ conf.type # "none" => align >= Sector

\* The areas of the table are at the end of the list.
IsArea(m, offset, bytes) ==
    m \in Indices /\ IsTable(m) /\ parts[m].offset = offset /\ parts[m].size = bytes
IsBackup(m, offset) ==
    /\ m \in Indices /\ parts[m].name = "backup" /\ parts[m].child = -1
    /\ ~parts[m].logical /\ ~parts[m].autoresize
    /\ parts[m].offset = offset /\ parts[m].size = BackupSize
\* Where the backup is; an image that has no room for it is given up later.
BackupOffset ==
    IF Len(parts) \in Settled THEN (IF size = 0 THEN now ELSE size) - BackupSize
    ELSE IF size = 0 THEN 0 ELSE size - BackupSize
AreasInv ==
    Laid /\ pc # "fakes" =>
        /\ conf.type = "mbr" => IsArea(Len(parts), Sector - MbrTail, MbrTail)
        /\ Gpt => /\ IsArea(Len(parts) - 3, Sector - MbrTail, MbrTail)
                  /\ IsArea(Len(parts) - 2, Sector, Sector)
                  /\ IsArea(Len(parts) - 1, GptLocation, GptArray)
                  /\ SetupDone => size > 0
                  /\ \/ IsBackup(Len(parts), BackupOffset)
                     \/ IsBackup(Len(parts), parts[Len(parts)].offset)
                           /\ pc = "place" /\ 0 < size /\ size < now

\* Where a partition begins, with its boot record
From(p) == IF p.logical THEN p.offset - align ELSE p.offset

\* Partition n comes after m in the list, and may only be put into its holes.
Apart(m, n) == Disjoint(From(parts[m]), End(parts[m]), From(parts[n]), End(parts[n]))
InHole(m, n) ==
    LET p == parts[m]
        q == parts[n]
    IN  /\ ~p.logical /\ ~q.logical
        /\ HoleCovers(p, MaxOf(q.offset, p.offset) - p.offset, MinOf(End(q), End(p)) - p.offset)
ApartInv ==
    \A m, n \in Settled \ {extended} : m < n => Apart(m, n) \/ InHole(m, n)

Extents == [lo : Int, hi : Int, part : Nat]
\* What one partition makes hdimage_generate() write
WrittenFor(w, j) ==
    \/ /\ w.part = j /\ HasImage(parts[j])
       /\ parts[j].offset <= w.lo /\ w.hi <= End(parts[j])
    \/ /\ w.part = 0 /\ parts[j].logical
       /\ From(parts[j]) <= w.lo /\ w.hi <= parts[j].offset
WritesInv ==
    /\ writes \in Seq(Extents)
    /\ pc \in Early \cup {"fakes", "place", "prepare"} => writes = <<>>
    /\ pc \in {"data", "table"} =>
          \A i \in DOMAIN writes :
             \E j \in Indices : j < k /\ j # extended /\ WrittenFor(writes[i], j)

DiskInv ==
    /\ conf \in Configs
    /\ PartsInv /\ AlignInv /\ AreasInv /\ ApartInv /\ WritesInv /\ OverwritesOnlyHoles

-----------------------------------------------------------------------------
(* Lemmas about a partition on its way through the loop                     *)

LEMMA RoundUpType ==
    ASSUME NEW v \in Int, NEW a \in Nat \ {0}
    PROVE  RoundUp(v, a) \in Int /\ (v > 0 => RoundUp(v, a) >= v)
<1>1. \A x \in Int : x % a \in Int /\ x \div a \in Int
  BY Z3
<1>2. \A x, y \in Int : x * y \in Int
  BY Z3
<1>3. TwoTo64Mod(a) \in Int
  BY <1>1, <1>2 DEF TwoTo64Mod
<1>4. RoundUp(v, a) \in Int
  <2>1. CASE v = 0
    <3>1. a - TwoTo64Mod(a) \in Int
      BY <1>3
    <3> QED
      BY <1>1, <2>1, <3>1 DEF RoundUp
  <2>2. CASE v # 0
    BY <1>1, <1>2, <2>2 DEF RoundUp
  <2> QED
    BY <2>1, <2>2
<1>5. v > 0 => RoundUp(v, a) >= v
  <2>1. PICK q \in Int : q = (v - 1) \div a
    BY <1>1
  <2>2. v - 1 < (q + 1) * a
    <3>1. \A x \in Int, n \in Nat \ {0} : x < (x \div n + 1) * n
      BY Z3
    <3> QED
      BY <2>1, <3>1
  <2>3. (q + 1) * a \in Int
    BY <1>2
  <2> QED
    BY <2>1, <2>2, <2>3 DEF RoundUp
<1> QED
  BY <1>4, <1>5

\* What the loop never changes of a partition
Kept(q, p) ==
    /\ q.name = p.name /\ q.logical = p.logical
    /\ q.child = p.child /\ q.autoresize = p.autoresize
    /\ q.holes = p.holes /\ q.imageoffset = p.imageoffset
    /\ q.data = p.data /\ q.fill = p.fill

LEMMA AlignType ==
    ASSUME TypeInv, align # 0, NEW p \in AnyPart
    PROVE  /\ WithAlign(p) \in AnyPart /\ WithAlign(p).align # 0
           /\ Kept(WithAlign(p), p)
           /\ WithAlign(p).offset = p.offset /\ WithAlign(p).size = p.size
           /\ WithAlign(p).intable <=> p.intable /\ conf.type # "none"
<1> DEFINE in == p.intable /\ conf.type # "none"
           a == IF p.align # 0 THEN p.align
                ELSE IF in \/ conf.type = "none" THEN align ELSE 1
<1>1. in \in BOOLEAN
  BY DEF AnyPart
<1>2. a \in Nat \ {0}
  BY DEF AnyPart, TypeInv
<1>3. WithAlign(p) = [p EXCEPT !.intable = in, !.align = a]
  BY DEF WithAlign
<1> HIDE DEF in, a
<1>4. /\ WithAlign(p) \in AnyPart /\ WithAlign(p).align = a /\ WithAlign(p).intable = in
      /\ Kept(WithAlign(p), p)
      /\ WithAlign(p).offset = p.offset /\ WithAlign(p).size = p.size
  BY <1>1, <1>2, <1>3 DEF AnyPart, Kept
<1> QED
  BY <1>2, <1>4 DEF in

LEMMA ReservedType ==
    ASSUME TypeInv, align # 0, NEW p \in AnyPart, p.align # 0
    PROVE  /\ Reserved(p) \in Int /\ Reserved(p) >= now
           /\ p.logical => Reserved(p) >= now + align
<1>1. p.align \in Nat \ {0} /\ now + align \in Int /\ now + align > 0 /\ now \in Nat
      /\ align \in Nat
  BY DEF AnyPart, TypeInv
<1>2. RoundUp(now + align, p.align) \in Int /\ RoundUp(now + align, p.align) >= now + align
  BY <1>1, RoundUpType
<1> QED
  BY <1>1, <1>2 DEF Reserved

(* A partition without an offset is put behind everything placed.           *)
LEMMA OffsetType ==
    ASSUME TypeInv, align # 0, NEW p \in AnyPart, p.align # 0
    PROVE  /\ WithOffset(p) \in AnyPart /\ WithOffset(p).align = p.align
           /\ Kept(WithOffset(p), p)
           /\ WithOffset(p).size = p.size /\ WithOffset(p).intable = p.intable
           /\ p.offset # 0 => WithOffset(p).offset = p.offset
           /\ p.offset = 0 /\ p.name # "backup" /\ p.intable /\ now > 0 =>
                 WithOffset(p).offset >= Reserved(p)
<1>1. Reserved(p) \in Int /\ (now > 0 => Reserved(p) > 0) /\ p.align \in Nat \ {0}
  <2>1. Reserved(p) \in Int /\ Reserved(p) >= now
    BY ReservedType
  <2>2. now \in Nat /\ p.align \in Nat \ {0}
    BY DEF AnyPart, TypeInv
  <2> QED
    BY <2>1, <2>2
<1>2. RoundUp(Reserved(p), p.align) \in Int
      /\ (now > 0 => RoundUp(Reserved(p), p.align) >= Reserved(p))
  BY <1>1, RoundUpType
<1>3. RoundUp(Reserved(p) + p.size, 4096) - p.size \in Int
  <2>1. p.size \in Int /\ Reserved(p) + p.size \in Int
    BY <1>1 DEF AnyPart
  <2> QED
    BY SMTT(30), <2>1, RoundUpType
<1>4. ASSUME NEW o \in Int
      PROVE  LET q == [p EXCEPT !.offset = o]
             IN  /\ q \in AnyPart /\ q.align = p.align /\ Kept(q, p) /\ q.offset = o
                 /\ q.size = p.size /\ q.intable = p.intable
  BY DEF AnyPart, Kept
<1> QED
  BY <1>2, <1>3, <1>4 DEF WithOffset, Kept

LEMMA ResizeType ==
    ASSUME TypeInv, NEW p \in AnyPart, p.align # 0, NEW n \in Int
    PROVE  LET q == [p EXCEPT !.size = n]
           IN  /\ q \in AnyPart /\ q.align = p.align /\ Kept(q, p) /\ q.offset = p.offset
               /\ q.size = n /\ q.intable = p.intable
BY DEF AnyPart, Kept

LEMMA RoomType ==
    ASSUME TypeInv, NEW p \in AnyPart, p.align # 0
    PROVE  Room(p) \in Int
<1>1. \A x \in Int, n \in Nat \ {0} : x - (x % n) \in Int
  BY Z3
<1>2. size - p.offset - (IF Gpt THEN BackupSize ELSE 0) \in Int /\ p.align \in Nat \ {0}
  BY SMTT(30) DEF TypeInv, AnyPart, BackupSize, Sector, GptSectors
<1> QED
  BY <1>1, <1>2 DEF Room, RoundDown

(* A partition that has been placed is where WithOffset has put it.         *)
LEMMA PlacedType ==
    ASSUME TypeInv, align # 0, NEW p \in AnyPart
    PROVE  /\ Placed(p) \in AnyPart /\ Placed(p).align # 0 /\ Kept(Placed(p), p)
           /\ Placed(p).intable <=> p.intable /\ conf.type # "none"
           /\ p.offset # 0 => Placed(p).offset = p.offset
           /\ p.offset = 0 /\ p.name # "backup" /\ Placed(p).intable /\ now > 0 =>
                 Placed(p).offset >= now
           /\ p.child = -1 /\ ~p.autoresize => Placed(p).size = p.size
           /\ Reserved(Placed(p)) >= now
           /\ Placed(p).logical => Reserved(Placed(p)) >= now + align
<1> DEFINE a == WithAlign(p)
           o == WithOffset(a)
           r == WithAutoresize(o)
           q == WithSize(r)
<1>0. Placed(p) = q
  BY DEF Placed
<1>1. /\ a \in AnyPart /\ a.align # 0 /\ Kept(a, p)
      /\ a.offset = p.offset /\ a.size = p.size
      /\ a.intable <=> p.intable /\ conf.type # "none"
  BY AlignType
<1> HIDE DEF a
<1>2. /\ o \in AnyPart /\ o.align # 0 /\ Kept(o, a)
      /\ o.size = a.size /\ o.intable = a.intable
      /\ a.offset # 0 => o.offset = a.offset
      /\ a.offset = 0 /\ a.name # "backup" /\ a.intable /\ now > 0 => o.offset >= Reserved(a)
      /\ Reserved(a) >= now
  BY <1>1, OffsetType, ReservedType
<1> HIDE DEF o
<1>3. /\ r \in AnyPart /\ r.align # 0 /\ Kept(r, o)
      /\ r.offset = o.offset /\ r.intable = o.intable
      /\ ~o.autoresize => r.size = o.size
  <2>1. Room(o) \in Int
    BY <1>2, RoomType
  <2> QED
    BY <1>2, <2>1, ResizeType DEF WithAutoresize, Kept
<1> HIDE DEF r
<1>4. /\ q \in AnyPart /\ q.align # 0 /\ Kept(q, r)
      /\ q.offset = r.offset /\ q.intable = r.intable
      /\ r.child = -1 => q.size = r.size
  <2>1. DataSize(r) \in Int /\ r.align \in Nat \ {0}
    BY <1>3 DEF DataSize, AnyPart
  <2>2. RoundUp(DataSize(r), r.align) \in Int
    BY <2>1, RoundUpType
  <2>3. r.child = -1 => ~HasImage(r)
    BY DEF HasImage
  <2> QED
    BY <1>3, <2>1, <2>2, <2>3, ResizeType DEF WithSize, Kept
<1> HIDE DEF q
<1>5. Reserved(q) >= now /\ (q.logical => Reserved(q) >= now + align)
  BY <1>4, ReservedType
<1>6. Reserved(a) \in Int /\ now \in Int /\ o.offset \in Int
  <2>1. Reserved(a) \in Int
    BY <1>1, ReservedType
  <2>2. now \in Int /\ o.offset \in Int
    BY <1>2 DEF AnyPart, TypeInv
  <2> QED
    BY <2>1, <2>2
<1> QED
  BY <1>0, <1>1, <1>2, <1>3, <1>4, <1>5, <1>6 DEF Kept

-----------------------------------------------------------------------------
(* A step that leaves the layout alone, or gives it up                      *)
LEMMA StopStep ==
    ASSUME IInv, pc' = "end", ret' # "ok", UNCHANGED <<conf, setupVars>>
    PROVE  IInv'
<1>1. ~SetupDone' /\ ~Laid' /\ Settled' = {}
  BY DEF SetupDone, Laid, Settled
<1>2. TypeInv'
  BY <1>1 DEF IInv, TypeInv, setupVars, Early
<1>3. StartInv' /\ LayoutInv'
  BY <1>1 DEF StartInv, LayoutInv, ListInv, ExtendedInv, FirstInv, EndInv, AutoInv, CoverInv, Early
<1> QED
  BY <1>2, <1>3 DEF IInv

LEMMA RestStep ==
    ASSUME IInv, SetupDone, pc' \in {"data", "table", "fill", "check", "end"},
           ret' = "ok",
           UNCHANGED <<conf, align, parts, extended, now, size>>, k' \in Nat \ {0}
    PROVE  IInv'
<1>1. SetupDone' /\ Laid /\ Laid' /\ Settled = Indices /\ Settled' = Indices
      /\ pc \notin Early \cup {"fakes", "place"} /\ pc' \notin Early \cup {"fakes", "place"}
  BY DEF SetupDone, Laid, Settled, Early, Indices
<1>2. TypeInv' /\ StartInv'
  BY <1>1 DEF IInv, TypeInv, StartInv, Early
<1>3. /\ \A n : PlaceOf(n)' = PlaceOf(n) /\ Before(n)' = Before(n)
      /\ \A n : IsTable(n)' = IsTable(n) /\ Covers(n)' = Covers(n)
      /\ Indices' = Indices
  BY DEF PlaceOf, Before, IsTable, Covers, Indices
<1>4. ListInv' /\ ExtendedInv' /\ FirstInv'
  BY <1>1, <1>3 DEF IInv, LayoutInv, ListInv, ExtendedInv, FirstInv
<1>5. EndInv' /\ AutoInv' /\ CoverInv'
  BY <1>1, <1>3 DEF IInv, LayoutInv, EndInv, AutoInv, CoverInv
<1> QED
  BY <1>2, <1>4, <1>5 DEF IInv, LayoutInv

LEMMA FinishStep ==
    ASSUME IInv, SetupFinish
    PROVE  IInv'
<1>1. CASE pc' = "end"
  BY <1>1, StopStep DEF SetupFinish, Error
<1>2. CASE pc' # "end"
  <2>1. /\ pc = "place" /\ k = Len(parts) + 1 /\ pc' = "prepare" /\ k' = 1
        /\ UNCHANGED <<conf, ret, align, parts, extended, now>>
        /\ size' = IF size = 0 THEN now ELSE size
    <3>1. pc = "place" /\ k > Len(parts)
      BY DEF SetupFinish
    <3>2. k <= Len(parts) + 1 /\ k \in Nat /\ Len(parts) \in Nat
      BY <3>1 DEF IInv, TypeInv
    <3>3. k = Len(parts) + 1
      BY <3>1, <3>2
    <3> QED
      BY <1>2, <3>1, <3>3 DEF SetupFinish, Error
  <2>2. Indices = 1..Len(parts)
    BY DEF IInv, TypeInv, Indices
  <2>3. SetupDone' /\ Laid /\ Laid' /\ Settled = Indices /\ Settled' = Indices
        /\ pc \notin Early \cup {"fakes"} /\ pc' \notin Early \cup {"fakes", "place"}
    BY <2>1, <2>2 DEF SetupDone, Laid, Settled, Early, Indices, IInv, TypeInv
  <2>4. TypeInv' /\ StartInv'
    BY <2>1, <2>3 DEF IInv, TypeInv, StartInv, Early
  <2>5. /\ \A n : PlaceOf(n)' = PlaceOf(n) /\ Before(n)' = Before(n)
        /\ \A n : IsTable(n)' = IsTable(n) /\ Covers(n)' = Covers(n)
        /\ Indices' = Indices
    BY <2>1 DEF PlaceOf, Before, IsTable, Covers, Indices
  <2>6. ListInv' /\ ExtendedInv' /\ FirstInv'
    BY <2>1, <2>3, <2>5 DEF IInv, LayoutInv, ListInv, ExtendedInv, FirstInv
  <2>7. EndInv' /\ AutoInv' /\ CoverInv'
    BY <2>1, <2>3, <2>5 DEF IInv, LayoutInv, EndInv, AutoInv, CoverInv
  <2> QED
    BY <2>4, <2>6, <2>7 DEF IInv, LayoutInv
<1> QED
  BY <1>1, <1>2

-----------------------------------------------------------------------------
LEMMA SetAt ==
    ASSUME NEW S, NEW s \in Seq(S), NEW i \in DOMAIN s, NEW x \in S
    PROVE  LET t == [s EXCEPT ![i] = x]
           IN  /\ t \in Seq(S) /\ Len(t) = Len(s) /\ DOMAIN t = DOMAIN s /\ t[i] = x
               /\ \A m \in DOMAIN s : m # i => t[m] = s[m]
OBVIOUS

\* What the placement of p makes of the list
PartsWith(p) ==
    parts' = IF p.logical
             THEN [parts EXCEPT ![k] = p,
                     ![extended].size = Advance(p) - parts[extended].offset]
             ELSE [parts EXCEPT ![k] = p]

(* What the placement of a partition changes: itself, and the size of the   *)
(* extended one around it.                                                  *)
LEMMA PlaceChanges ==
    ASSUME IInv, NEW p, p = Placed(parts[k]), pc = "place", k <= Len(parts), Accepted(p),
           PartsWith(p), now' = Advance(p), k' = k + 1,
           UNCHANGED <<conf, pc, ret, align, extended, size>>
    PROVE  /\ /\ Indices = 1..Len(parts) /\ k \in Indices /\ Len(parts) \in Nat /\ k \in Nat \ {0}
              /\ \A m \in Indices : parts[m] \in AnyPart
              /\ now \in Nat /\ align \in Nat \ {0} /\ extended \in 0..Len(parts)
           /\ \A m \in Indices :
                 /\ parts[m].offset \in Int /\ parts[m].size \in Int /\ End(parts[m]) \in Int
                 /\ parts[m].logical \in BOOLEAN
           /\ /\ p \in AnyPart /\ p.align # 0 /\ Kept(p, parts[k])
              /\ p.intable <=> parts[k].intable /\ conf.type # "none"
              /\ parts[k].offset # 0 => p.offset = parts[k].offset
              /\ parts[k].offset = 0 /\ parts[k].name # "backup" /\ p.intable /\ now > 0 =>
                    p.offset >= now
              /\ parts[k].child = -1 /\ ~parts[k].autoresize => p.size = parts[k].size
              /\ p.logical => Reserved(p) >= now + align
           /\ p.offset \in Int /\ p.size \in Int /\ End(p) = p.offset + p.size /\ Reserved(p) \in Int
           /\ now' \in Nat /\ now' >= now /\ now' >= End(p) /\ (now' = now \/ now' = End(p))
           /\ p.logical => extended # 0 /\ extended < k
           /\ /\ Len(parts') = Len(parts) /\ Indices' = Indices /\ parts'[k] = p
              /\ \A m \in Indices : m # k /\ (m # extended \/ ~p.logical) => parts'[m] = parts[m]
              /\ p.logical => parts'[extended] = [parts[extended] EXCEPT !.size = now' - parts[extended].offset]
              /\ parts' \in Seq(AnyPart)
           /\ \A m \in Indices :
                /\ Kept(parts'[m], parts[m])
                /\ m # k => parts'[m].offset = parts[m].offset /\ parts'[m].intable = parts[m].intable
           /\ /\ ~SetupDone /\ ~SetupDone' /\ Laid /\ Laid' /\ Settled = 1..(k - 1) /\ Settled' = 1..k
              /\ pc \notin Early \cup {"fakes"} /\ pc' = "place"
<1> DEFINE e == parts[extended]
           f == parts'[extended]
<1>0. TypeInv /\ ListInv /\ ExtendedInv /\ FirstInv /\ EndInv /\ AutoInv /\ CoverInv
  BY DEF IInv, LayoutInv
<1>1. /\ Indices = 1..Len(parts) /\ k \in Indices /\ Len(parts) \in Nat /\ k \in Nat \ {0}
      /\ \A m \in Indices : parts[m] \in AnyPart
      /\ now \in Nat /\ align \in Nat \ {0} /\ extended \in 0..Len(parts)
  BY <1>0 DEF TypeInv, Indices, Early
<1>2. \A m \in Indices :
         /\ parts[m].offset \in Int /\ parts[m].size \in Int /\ End(parts[m]) \in Int
         /\ parts[m].logical \in BOOLEAN
  BY <1>1 DEF AnyPart, End
<1>3. /\ p \in AnyPart /\ p.align # 0 /\ Kept(p, parts[k])
      /\ p.intable <=> parts[k].intable /\ conf.type # "none"
      /\ parts[k].offset # 0 => p.offset = parts[k].offset
      /\ parts[k].offset = 0 /\ parts[k].name # "backup" /\ p.intable /\ now > 0 =>
            p.offset >= now
      /\ parts[k].child = -1 /\ ~parts[k].autoresize => p.size = parts[k].size
      /\ p.logical => Reserved(p) >= now + align
  BY <1>0, <1>1, PlacedType
<1>4. p.offset \in Int /\ p.size \in Int /\ End(p) = p.offset + p.size /\ Reserved(p) \in Int
  <2>1. Reserved(p) \in Int
    BY <1>0, <1>1, <1>3, ReservedType
  <2> QED
    BY <1>3, <2>1 DEF AnyPart, End
<1>5. now' \in Nat /\ now' >= now /\ now' >= End(p) /\ (now' = now \/ now' = End(p))
  BY <1>1, <1>4 DEF Advance, MaxOf
<1>6. p.logical => extended # 0 /\ extended < k
  BY <1>0, <1>1, <1>3 DEF ListInv, Laid, Kept
<1>7. /\ Len(parts') = Len(parts) /\ Indices' = Indices /\ parts'[k] = p
      /\ \A m \in Indices : m # k /\ (m # extended \/ ~p.logical) => parts'[m] = parts[m]
      /\ p.logical => f = [e EXCEPT !.size = now' - e.offset]
      /\ parts' \in Seq(AnyPart)
  <2> DEFINE one == [parts EXCEPT ![k] = p]
             g == [e EXCEPT !.size = now' - e.offset]
             two == [one EXCEPT ![extended] = g]
  <2>0. parts \in Seq(AnyPart) /\ Indices = DOMAIN parts
    BY <1>0 DEF TypeInv, Indices
  <2>1. /\ one \in Seq(AnyPart) /\ Len(one) = Len(parts) /\ DOMAIN one = Indices /\ one[k] = p
        /\ \A m \in Indices : m # k => one[m] = parts[m]
    BY <1>1, <1>3, <2>0, SetAt
  <2>2. CASE ~p.logical
    <3>1. parts' = one
      BY <2>2 DEF PartsWith
    <3> QED
      BY <2>0, <2>1, <2>2, <3>1 DEF Indices
  <2>3. CASE p.logical
    <3>1. extended \in Indices /\ extended # k
      BY <1>1, <1>6, <2>3
    <3>2. g \in AnyPart
      <4>1. e \in AnyPart /\ now' - e.offset \in Int
        BY <1>1, <1>2, <1>5, <3>1
      <4> QED
        BY <4>1 DEF AnyPart
    <3>3. parts' = two
      BY <2>3, <3>1 DEF PartsWith
    <3> HIDE DEF one
    <3>4. /\ two \in Seq(AnyPart) /\ Len(two) = Len(one) /\ DOMAIN two = DOMAIN one
          /\ two[extended] = g
          /\ \A m \in Indices : m # extended => two[m] = one[m]
      <4> HIDE DEF g
      <4> QED
        BY <2>1, <3>1, <3>2, SetAt
    <3> HIDE DEF two, g
    <3>5. f = g /\ Len(parts') = Len(parts) /\ parts' \in Seq(AnyPart) /\ Indices' = Indices
      BY <2>0, <2>1, <3>1, <3>3, <3>4 DEF Indices
    <3>6. parts'[k] = p /\ \A m \in Indices : m # k /\ m # extended => parts'[m] = parts[m]
      BY <1>1, <2>1, <3>1, <3>3, <3>4
    <3> QED
      BY <2>3, <3>5, <3>6 DEF g
  <2> QED
    BY <2>2, <2>3
<1>8. \A m \in Indices :
        /\ Kept(parts'[m], parts[m])
        /\ m # k => parts'[m].offset = parts[m].offset /\ parts'[m].intable = parts[m].intable
  <2>1. p.logical => /\ Kept(f, e) /\ f.offset = e.offset /\ f.intable = e.intable
                     /\ f.size = now' - e.offset
    <3> SUFFICES ASSUME p.logical
                 PROVE  /\ Kept(f, e) /\ f.offset = e.offset /\ f.intable = e.intable
                        /\ f.size = now' - e.offset
      OBVIOUS
    <3>1. e \in AnyPart /\ f = [e EXCEPT !.size = now' - e.offset]
      BY <1>1, <1>6, <1>7
    <3> HIDE DEF e, f
    <3> QED
      BY <3>1 DEF AnyPart, Kept
  <2>2. \A m \in Indices : m # k /\ parts'[m] = parts[m] => Kept(parts'[m], parts[m])
    BY DEF Kept
  <2> QED
    BY <1>3, <1>7, <2>1, <2>2
<1>9. /\ ~SetupDone /\ ~SetupDone' /\ Laid /\ Laid' /\ Settled = 1..(k - 1) /\ Settled' = 1..k
      /\ pc \notin Early \cup {"fakes"} /\ pc' = "place"
  BY <1>1 DEF SetupDone, Laid, Settled, Early
<1> QED
  BY <1>1, <1>2, <1>3, <1>4, <1>5, <1>6, <1>7, <1>8, <1>9

(* One more partition is placed.                                            *)
LEMMA PlaceOk ==
    ASSUME IInv, NEW p, p = Placed(parts[k]), pc = "place", k <= Len(parts), Accepted(p),
           PartsWith(p), now' = Advance(p), k' = k + 1,
           UNCHANGED <<conf, pc, ret, align, extended, size>>
    PROVE  IInv'
<1> DEFINE e == parts[extended]
           f == parts'[extended]
<1>0. TypeInv /\ ListInv /\ ExtendedInv /\ FirstInv /\ EndInv /\ AutoInv /\ CoverInv
  BY DEF IInv, LayoutInv
<1>1. /\ Indices = 1..Len(parts) /\ k \in Indices /\ Len(parts) \in Nat /\ k \in Nat \ {0}
      /\ \A m \in Indices : parts[m] \in AnyPart
      /\ now \in Nat /\ align \in Nat \ {0} /\ extended \in 0..Len(parts)
  BY PlaceChanges
<1>2. \A m \in Indices :
         /\ parts[m].offset \in Int /\ parts[m].size \in Int /\ End(parts[m]) \in Int
         /\ parts[m].logical \in BOOLEAN
  BY PlaceChanges
<1>3. /\ p \in AnyPart /\ p.align # 0 /\ Kept(p, parts[k])
      /\ p.intable <=> parts[k].intable /\ conf.type # "none"
      /\ parts[k].offset # 0 => p.offset = parts[k].offset
      /\ parts[k].offset = 0 /\ parts[k].name # "backup" /\ p.intable /\ now > 0 =>
            p.offset >= now
      /\ parts[k].child = -1 /\ ~parts[k].autoresize => p.size = parts[k].size
      /\ p.logical => Reserved(p) >= now + align
  BY PlaceChanges
<1>4. p.offset \in Int /\ p.size \in Int /\ End(p) = p.offset + p.size /\ Reserved(p) \in Int
  BY PlaceChanges
<1>5. now' \in Nat /\ now' >= now /\ now' >= End(p) /\ (now' = now \/ now' = End(p))
  BY PlaceChanges
<1>6. p.logical => extended # 0 /\ extended < k
  BY PlaceChanges
<1>7. /\ Len(parts') = Len(parts) /\ Indices' = Indices /\ parts'[k] = p
      /\ \A m \in Indices : m # k /\ (m # extended \/ ~p.logical) => parts'[m] = parts[m]
      /\ p.logical => f = [e EXCEPT !.size = now' - e.offset]
      /\ parts' \in Seq(AnyPart)
  BY PlaceChanges
<1>8. \A m \in Indices :
        /\ Kept(parts'[m], parts[m])
        /\ m # k => parts'[m].offset = parts[m].offset /\ parts'[m].intable = parts[m].intable
  BY PlaceChanges
<1>9. /\ ~SetupDone /\ ~SetupDone' /\ Laid /\ Laid' /\ Settled = 1..(k - 1) /\ Settled' = 1..k
      /\ pc \notin Early \cup {"fakes"} /\ pc' = "place"
  BY PlaceChanges
<1>10. TypeInv' /\ StartInv'
  <2>1. k' \in Nat \ {0} /\ k' <= Len(parts') + 1 /\ extended' \in 0..Len(parts')
    BY <1>1, <1>7
  <2> QED
    BY <1>0, <1>5, <1>7, <1>9, <2>1 DEF TypeInv, StartInv, Early
<1>11. \A m \in Indices : IsTable(m)' = IsTable(m)
  BY <1>8 DEF IsTable, Kept
<1>12. ASSUME NEW m \in Indices, IsTable(m)
       PROVE  End(parts'[m]) = End(parts[m]) /\ End(parts[m]) <= now /\ m # extended
  <2>1. m # extended
    <3>1. extended # 0 => e.name = "extended"
      BY <1>0, <1>9 DEF ExtendedInv
    <3> QED
      BY <1>1, <1>12, <3>1 DEF IsTable
  <2>2. /\ parts[m].offset # 0 /\ parts[m].child = -1 /\ ~parts[m].autoresize
        /\ End(parts[m]) <= now
    BY <1>0, <1>9, <1>12 DEF ListInv
  <2> QED
    BY <1>3, <1>7, <2>1, <2>2 DEF End
<1>13. ListInv'
  <2>1. ASSUME NEW n \in DOMAIN conf.parts
        PROVE  /\ PlaceOf(n) \in Indices /\ parts'[PlaceOf(n)].name = "user"
               /\ PlaceOf(n) \notin Settled' =>
                     /\ parts'[PlaceOf(n)].offset = conf.parts[n].offset
                     /\ parts'[PlaceOf(n)].intable = conf.parts[n].intable
    <3>1. /\ PlaceOf(n) \in Indices /\ parts[PlaceOf(n)].name = "user"
          /\ PlaceOf(n) \notin Settled =>
                /\ parts[PlaceOf(n)].offset = conf.parts[n].offset
                /\ parts[PlaceOf(n)].intable = conf.parts[n].intable
      BY <1>0, <1>9 DEF ListInv
    <3>2. PlaceOf(n) \notin Settled' => PlaceOf(n) \notin Settled /\ PlaceOf(n) # k
      BY <1>1, <1>9
    <3> QED
      BY <1>8, <3>1, <3>2 DEF Kept
  <2>2. ASSUME NEW m \in Indices
        PROVE  /\ IsTable(m) => /\ parts'[m].offset # 0 /\ parts'[m].child = -1
                                 /\ ~parts'[m].autoresize /\ ~parts'[m].logical
                                 /\ End(parts'[m]) <= now'
               /\ parts'[m].name = "extended" => m = extended
               /\ parts'[m].logical => extended # 0 /\ extended < m
    <3>1. /\ IsTable(m) => /\ parts[m].offset # 0 /\ parts[m].child = -1
                            /\ ~parts[m].autoresize /\ ~parts[m].logical
          /\ parts[m].name = "extended" => m = extended
          /\ parts[m].logical => extended # 0 /\ extended < m
      BY <1>0, <1>9 DEF ListInv
    <3>2. IsTable(m) => End(parts'[m]) <= now'
      BY <1>1, <1>2, <1>5, <1>12
    <3>3. Kept(parts'[m], parts[m]) /\ (IsTable(m) => parts'[m].offset # 0)
      BY <1>3, <1>7, <1>8, <3>1
    <3> QED
      BY <3>1, <3>2, <3>3 DEF Kept
  <2>3. conf.type # "none" => 0 < now'
    BY <1>0, <1>1, <1>5, <1>9 DEF ListInv
  <2>4. \A n : PlaceOf(n)' = PlaceOf(n)
    BY DEF PlaceOf
  <2> QED
    BY <1>7, <1>9, <1>11, <2>1, <2>2, <2>3, <2>4 DEF ListInv
<1>14. ExtendedInv' /\ FirstInv'
  <2>1. ASSUME extended # 0
        PROVE  /\ conf.type = "mbr"
               /\ extended \in Indices
               /\ extended + 1 \in Indices /\ parts'[extended + 1].intable
               /\ f.child = -1 /\ ~f.logical /\ f.intable /\ f.name = "extended"
               /\ \A m, n \in Indices :
                     extended < m /\ m < n /\ parts'[m].intable /\ ~parts'[m].logical =>
                        ~parts'[n].logical
    <3>1. /\ conf.type = "mbr"
          /\ extended + 1 \in Indices /\ parts[extended + 1].intable
          /\ e.child = -1 /\ ~e.logical /\ e.intable /\ e.name = "extended"
          /\ \A m, n \in Indices :
                extended < m /\ m < n /\ parts[m].intable /\ ~parts[m].logical =>
                   ~parts[n].logical
      BY <1>0, <1>9, <2>1 DEF ExtendedInv
    <3>2. \A m \in Indices : parts'[m].intable <=> parts[m].intable
      BY <1>3, <1>7, <1>8, <3>1
    <3>3. extended \in Indices
      BY <1>1, <2>1
    <3> QED
      BY <1>8, <3>1, <3>2, <3>3 DEF Kept
  <2>2. ASSUME extended # 0, extended \notin Settled'
        PROVE  /\ f.size = 0 /\ ~f.autoresize
               /\ f.offset = 0 \/ (/\ parts'[extended + 1].offset = f.offset + align
                                   /\ parts'[extended + 1].offset # 0)
    <3>1. extended > k /\ ~p.logical /\ extended \notin Settled
      BY <1>1, <1>6, <1>9, <2>2
    <3>2. extended \in Indices /\ extended + 1 \in Indices
      BY <2>1, <2>2
    <3>3. f = e /\ parts'[extended + 1] = parts[extended + 1]
      BY <1>1, <1>7, <3>1, <3>2
    <3> QED
      BY <1>0, <1>9, <2>2, <3>1, <3>3 DEF FirstInv
  <2> QED
    BY <1>7, <1>9, <2>1, <2>2 DEF ExtendedInv, FirstInv
<1>15. EndInv'
  <2>1. ASSUME NEW m \in 1..k, m # extended PROVE End(parts'[m]) <= now'
    <3>1. CASE m = k
      BY <1>5, <1>7, <3>1
    <3>2. CASE m # k
      <4>1. m \in Settled \ {extended} /\ m \in Indices
        BY <1>1, <1>9, <2>1, <3>2
      <4>2. End(parts[m]) <= now /\ parts'[m] = parts[m]
        BY <1>0, <1>7, <3>2, <4>1 DEF EndInv
      <4> QED
        BY <1>1, <1>2, <1>5, <4>1, <4>2
    <3> QED
      BY <3>1, <3>2
  <2> QED
    BY <1>9, <2>1 DEF EndInv, End
<1>16. AutoInv'
  <2>1. ASSUME NEW n \in DOMAIN conf.parts, PlaceOf(n) \in 1..k,
               conf.parts[n].offset = 0, conf.parts[n].intable, conf.type # "none"
        PROVE  /\ \A m \in 1..(PlaceOf(n) - 1) :
                     m # extended => End(parts'[m]) <= parts'[PlaceOf(n)].offset
               /\ \A m \in Indices : IsTable(m) => End(parts'[m]) <= parts'[PlaceOf(n)].offset
    <3>1. \A m \in 1..(PlaceOf(n) - 1) : m # extended => parts'[m] = parts[m] /\ m \in Settled
      BY <1>1, <1>7, <1>9, <2>1
    <3>2. CASE PlaceOf(n) # k
      <4>1. PlaceOf(n) \in Settled /\ PlaceOf(n) \in Indices
        BY <1>1, <1>9, <2>1, <3>2
      <4>2. Before(PlaceOf(n))
        BY <1>0, <2>1, <4>1 DEF AutoInv
      <4>3. parts'[PlaceOf(n)].offset = parts[PlaceOf(n)].offset
        BY <1>8, <3>2, <4>1
      <4> QED
        BY <1>12, <3>1, <4>2, <4>3 DEF Before
    <3>3. CASE PlaceOf(n) = k
      <4>1. k \notin Settled /\ now > 0
        BY <1>0, <1>1, <1>9, <2>1 DEF ListInv
      <4>2. parts[k].offset = 0 /\ parts[k].intable /\ parts[k].name = "user"
        BY <1>0, <1>9, <2>1, <3>3, <4>1 DEF ListInv
      <4>3. p.offset >= now
        BY <1>3, <2>1, <4>1, <4>2
      <4>4. \A m \in Settled \ {extended} : m \in Indices /\ End(parts[m]) <= now
        BY <1>0, <1>1, <1>9 DEF EndInv
      <4>5. \A m \in 1..(k - 1) : m # extended => End(parts'[m]) <= p.offset
        BY <1>1, <1>2, <1>4, <3>1, <3>3, <4>3, <4>4
      <4>6. \A m \in Indices : IsTable(m) => End(parts'[m]) <= p.offset
        BY <1>1, <1>2, <1>4, <1>12, <4>3
      <4> QED
        BY <1>7, <3>3, <4>5, <4>6
    <3> QED
      BY <3>2, <3>3
  <2>2. \A n : PlaceOf(n)' = PlaceOf(n)
    BY DEF PlaceOf
  <2> QED
    BY <1>7, <1>9, <1>11, <2>1, <2>2 DEF AutoInv, Before, End
<1>17. CoverInv'
  <2> DEFINE CoveredNow(n) ==
               IF parts'[n].logical
               THEN f.offset <= parts'[n].offset - align /\ End(parts'[n]) <= End(f)
               ELSE f.size = 0 \/ Disjoint(f.offset, End(f), parts'[n].offset, End(parts'[n]))
             first == parts[extended + 1]
             firstNow == parts'[extended + 1]
  <2> SUFFICES ASSUME extended # 0, extended \in 1..k
               PROVE  /\ f.offset <= now'
                      /\ \A n \in 1..k : n # extended /\ parts'[n].intable => CoveredNow(n)
                      /\ extended + 1 > k =>
                            /\ f.size = 0
                            /\ now' = f.offset \/ (/\ firstNow.offset = f.offset + align
                                                   /\ firstNow.offset # 0)
                      /\ extended + 1 <= k /\ firstNow.logical =>
                            \A m \in 1..(extended - 1) : End(parts'[m]) <= f.offset
    <3>1. \A n : Covers(n)' <=> CoveredNow(n)
      BY DEF Covers, End
    <3>2. extended + 1 \in 1..k <=> extended + 1 <= k
      BY <1>1
    <3>3. extended # 0 /\ extended \in 1..k =>
             \A n \in 1..k : n # extended /\ parts'[n].intable => Covers(n)'
      BY <3>1
    <3> HIDE DEF CoveredNow
    <3>4. extended' = extended /\ Settled' = 1..k /\ align' = align
      BY <1>9
    <3>5. (extended + 1 \in 1..k) <=> ~(extended + 1 > k)
      BY <1>1, <3>2
    <3>6. extended # 0 /\ extended \in 1..k =>
            /\ f.offset <= now'
            /\ \A n \in 1..k : n # extended /\ parts'[n].intable => Covers(n)'
            /\ extended + 1 \notin 1..k =>
                  /\ f.size = 0
                  /\ now' = f.offset \/ (/\ firstNow.offset = f.offset + align
                                         /\ firstNow.offset # 0)
            /\ extended + 1 \in 1..k /\ firstNow.logical =>
                  \A m \in 1..(extended - 1) : End(parts'[m]) <= f.offset
      BY <3>2, <3>3, <3>5
    <3> QED
      BY <3>4, <3>6 DEF CoverInv, End
  <2>1. /\ extended \in Indices /\ extended + 1 \in Indices /\ first.intable
        /\ conf.type = "mbr"
        /\ e.child = -1 /\ ~e.logical /\ e.intable /\ e.name = "extended"
        /\ \A m, n \in Indices :
              extended < m /\ m < n /\ parts[m].intable /\ ~parts[m].logical => ~parts[n].logical
        /\ \A m \in Indices : parts[m].logical => extended < m
    BY <1>0, <1>1, <1>9 DEF ExtendedInv, ListInv
  <2>2. CASE extended = k
    <3>1. extended \notin Settled /\ ~p.logical /\ p.intable
      BY <1>3, <1>9, <2>1, <2>2, <1>1 DEF Kept
    <3>2. /\ e.size = 0 /\ ~e.autoresize
          /\ e.offset = 0 \/ (first.offset = e.offset + align /\ first.offset # 0)
      BY <1>0, <1>9, <3>1 DEF FirstInv
    <3>3. f = p /\ p.size = 0 /\ firstNow = first
      BY <1>1, <1>3, <1>7, <2>1, <2>2, <3>1, <3>2
    <3>4. End(p) = p.offset
      BY <1>4, <3>3
    <3>5. \A n \in 1..k : n # extended => ~parts'[n].logical
      <4>1. \A n \in 1..k : n # extended => n \in Indices /\ parts'[n] = parts[n]
        BY <1>1, <1>7, <2>2
      <4> QED
        BY <1>1, <2>1, <2>2, <4>1
    <3>6. now' = f.offset \/ (firstNow.offset = f.offset + align /\ firstNow.offset # 0)
      <4>1. CASE e.offset = 0
        <5>1. now > 0
          BY <1>0, <1>9, <2>1 DEF ListInv
        <5>2. p.offset >= now
          BY <1>3, <2>1, <2>2, <3>1, <4>1, <5>1
        <5> QED
          BY <1>1, <1>4, <1>5, <3>3, <3>4, <5>2
      <4>2. CASE e.offset # 0
        BY <1>3, <2>2, <3>2, <3>3, <4>2
      <4> QED
        BY <4>1, <4>2
    <3> QED
      BY <1>1, <1>5, <2>2, <3>3, <3>4, <3>5, <3>6
  <2>3. CASE extended # k
    <3>1. extended < k /\ extended \in Settled /\ f.offset = e.offset
      BY <1>1, <1>8, <1>9, <2>1, <2>3
    <3>2. /\ e.offset <= now
          /\ \A n \in Settled \ {extended} : parts[n].intable => Covers(n)
          /\ extended + 1 \notin Settled =>
                now = e.offset \/ (first.offset = e.offset + align /\ first.offset # 0)
          /\ extended + 1 \in Settled /\ first.logical =>
                \A m \in 1..(extended - 1) : End(parts[m]) <= e.offset
      BY <1>0, <2>1, <3>1 DEF CoverInv
    <3>3. \A n \in 1..k : n # extended /\ n # k =>
             n \in Settled /\ n \in Indices /\ parts'[n] = parts[n]
      BY <1>1, <1>7, <1>9
    <3>4. f.offset <= now'
      BY <1>1, <1>2, <1>5, <2>1, <3>1, <3>2
    <3>5. CASE ~p.logical
      <4>1. f = e
        BY <1>7, <2>1, <2>3, <3>5
      <4>2. ASSUME NEW n \in 1..k, n # extended, parts'[n].intable PROVE CoveredNow(n)
        <5>1. CASE n # k
          BY <3>2, <3>3, <4>1, <4>2, <5>1 DEF Covers
        <5>2. CASE n = k
          <6>1. ~Overlaps(p, e)
            BY <1>1, <3>1, <3>5 DEF Accepted
          <6>2. ~HoleCovers(e, MaxOf(p.offset, e.offset) - e.offset,
                            MinOf(End(p), End(e)) - e.offset)
            BY <2>1 DEF HoleCovers, HasImage
          <6>3. p.offset >= End(e) \/ e.offset >= End(p)
            BY <1>2, <1>4, <2>1, <6>1, <6>2 DEF Overlaps
          <6> QED
            BY <1>2, <1>4, <1>7, <2>1, <3>5, <4>1, <5>2, <6>3 DEF Disjoint
        <5> QED
          BY <5>1, <5>2
      <4>3. extended + 1 <= k /\ firstNow.logical =>
               extended + 1 \in Settled /\ first.logical
        <5>1. extended + 1 = k => ~firstNow.logical
          BY <1>7, <3>5
        <5>2. extended + 1 < k => firstNow = first /\ extended + 1 \in Settled
          BY <1>1, <1>7, <1>9, <2>1, <3>5
        <5> QED
          BY <1>1, <5>1, <5>2
      <4>4. \A m \in 1..(extended - 1) : parts'[m] = parts[m]
        BY <1>1, <3>1, <3>3
      <4>5. extended + 1 <= k
        BY <1>1, <3>1
      <4> QED
        BY <1>1, <3>1, <3>2, <3>4, <4>2, <4>3, <4>4, <4>5
    <3>6. CASE p.logical
      <4>1. f.size = now' - e.offset /\ e.offset \in Int /\ End(f) = now'
        <5>1. e \in AnyPart /\ e.offset \in Int /\ f = [e EXCEPT !.size = now' - e.offset]
          BY <1>1, <1>2, <1>7, <2>1, <3>6
        <5>2. f.size = now' - e.offset
          BY <5>1 DEF AnyPart
        <5> QED
          BY <1>5, <3>1, <5>1, <5>2 DEF End
      <4>2. parts[k].logical /\ now + align <= p.offset
        BY <1>1, <1>3, <1>4, <3>6 DEF Kept, Accepted
      <4>3. first.logical
        BY <1>1, <2>1, <3>1, <4>2
      <4>4. \A m \in 1..(extended - 1) : End(parts[m]) <= e.offset
        <5>1. CASE extended + 1 # k
          <6>1. extended + 1 \in Settled
            BY <1>1, <1>9, <3>1, <5>1
          <6> QED
            BY <3>2, <4>3, <6>1
        <5>2. CASE extended + 1 = k
          <6>1. now <= e.offset
            <7>1. now = e.offset \/ (first.offset = e.offset + align /\ first.offset # 0)
              BY <1>1, <1>9, <3>1, <3>2, <5>2
            <7> QED
              BY <1>1, <1>2, <1>3, <1>4, <4>1, <4>2, <5>2, <7>1
          <6>2. \A m \in 1..(extended - 1) : End(parts[m]) <= now /\ m \in Indices
            BY <1>0, <1>1, <1>9, <3>1 DEF EndInv
          <6> QED
            BY <1>1, <1>2, <4>1, <6>1, <6>2
        <5> QED
          BY <5>1, <5>2
      <4>5. ASSUME NEW n \in 1..k, n # extended, parts'[n].intable PROVE CoveredNow(n)
        <5>1. CASE n = k
          <6>1. parts'[n] = p /\ p.logical
            BY <1>7, <3>6, <5>1
          <6>2. f.offset <= p.offset - align
            BY <1>1, <1>4, <3>1, <3>2, <4>1, <4>2
          <6>3. End(p) <= End(f)
            BY <1>5, <4>1
          <6> QED
            BY <6>1, <6>2, <6>3
        <5>2. CASE n # k /\ parts[n].logical
          <6>1. e.offset <= parts[n].offset - align /\ End(parts[n]) <= End(e)
            BY <3>2, <3>3, <4>5, <5>2 DEF Covers
          <6>2. End(parts[n]) <= now
            BY <1>0, <3>3, <4>5, <5>2 DEF EndInv
          <6> QED
            BY SMTT(30), <1>1, <1>2, <1>5, <3>1, <3>3, <4>1, <4>5, <5>2, <6>1, <6>2
        <5>3. CASE n # k /\ ~parts[n].logical
          <6>1. n < extended
            BY <1>1, <2>1, <3>3, <4>2, <4>5, <5>3
          <6>2. End(parts[n]) <= e.offset
            BY <1>1, <4>4, <6>1
          <6> QED
            BY <1>2, <3>1, <3>3, <4>5, <5>3, <6>2 DEF Disjoint
        <5> QED
          BY <5>1, <5>2, <5>3
      <4>6. \A m \in 1..(extended - 1) : parts'[m] = parts[m]
        BY <1>1, <3>1, <3>3
      <4>7. extended + 1 <= k
        BY <1>1, <3>1
      <4> QED
        BY <1>1, <3>1, <3>4, <4>4, <4>5, <4>6, <4>7
    <3> QED
      BY <3>5, <3>6
  <2> QED
    BY <2>2, <2>3
<1> QED
  BY <1>10, <1>13, <1>14, <1>15, <1>16, <1>17 DEF IInv, LayoutInv

LEMMA PlaceStep ==
    ASSUME IInv, PlacePart
    PROVE  IInv'
<1>1. CASE Error("partition cannot be placed")
  BY <1>1, StopStep DEF Error
<1>2. CASE ~Error("partition cannot be placed")
  <2>1. PICK p : p = Placed(parts[k])
    OBVIOUS
  <2>2. /\ Accepted(p) /\ PartsWith(p) /\ now' = Advance(p) /\ k' = k + 1
        /\ pc = "place" /\ k <= Len(parts)
        /\ UNCHANGED <<conf, pc, ret, align, extended, size>>
    BY <1>2, <2>1 DEF PlacePart, PartsWith
  <2> QED
    BY <2>1, <2>2, PlaceOk
<1> QED
  BY <1>1, <1>2

-----------------------------------------------------------------------------
(* The steps before the loop                                                *)

LEMMA ConfType ==
    ASSUME conf \in Conf
    PROVE  /\ conf.parts \in Seq(PartConf) /\ Len(conf.parts) \in Nat
           /\ conf.align \in Nat /\ conf.size \in Nat /\ conf.gptloc \in Nat
           /\ \A n \in DOMAIN conf.parts :
                 /\ FromConf(conf.parts[n]) \in AnyPart
                 /\ conf.parts[n].offset \in Nat /\ conf.parts[n].intable \in BOOLEAN
<1>1. /\ conf.parts \in Seq(PartConf) /\ Len(conf.parts) \in Nat
      /\ conf.align \in Nat /\ conf.size \in Nat /\ conf.gptloc \in Nat
  BY DEF Conf
<1>2. \A n \in DOMAIN conf.parts : conf.parts[n] \in PartConf
  BY <1>1
<1>3. ASSUME NEW c \in PartConf
      PROVE  FromConf(c) \in AnyPart /\ c.offset \in Nat /\ c.intable \in BOOLEAN
  BY DEF FromConf, PartConf, AnyPart
<1> QED
  BY <1>1, <1>2, <1>3

LEMMA InitHolds == Init => IInv
<1> SUFFICES ASSUME Init PROVE IInv
  OBVIOUS
<1>1. conf \in Conf
  BY ConfigsType DEF Init
<1>2. parts \in Seq(AnyPart) /\ Len(parts) \in Nat
  BY <1>1, ConfType DEF Init
<1>3. ~SetupDone /\ ~Laid /\ Settled = {}
  BY DEF Init, SetupDone, Laid, Settled
<1> QED
  BY <1>1, <1>2, <1>3, ConfType DEF Init, IInv, TypeInv, StartInv, Early, LayoutInv, ListInv,
     ExtendedInv, FirstInv, EndInv, AutoInv, CoverInv

LEMMA AlignStep ==
    ASSUME IInv, SetupAlign
    PROVE  IInv'
<1>1. CASE pc' = "end"
  BY <1>1, StopStep DEF SetupAlign, Error
<1>2. CASE pc' # "end"
  <2>1. /\ pc = "align" /\ pc' = "logical" /\ align' \in Nat \ {0}
        /\ UNCHANGED <<conf, ret, parts, extended, k, now, size>>
    <3> DEFINE a == IF conf.align = 0 THEN (IF conf.type = "none" THEN 1 ELSE Sector)
                    ELSE conf.align
    <3>1. a \in Nat \ {0}
      BY ConfType DEF IInv, TypeInv, Sector
    <3>2. /\ pc = "align"
          /\ \/ pc' = "end"
             \/ /\ align' = a /\ pc' = "logical"
                /\ UNCHANGED <<conf, ret, parts, extended, k, now, size>>
      BY DEF SetupAlign, Error
    <3> QED
      BY <1>2, <3>1, <3>2
  <2>2. ~SetupDone' /\ ~Laid' /\ Settled' = {}
    BY <2>1 DEF SetupDone, Laid, Settled
  <2>3. TypeInv' /\ StartInv'
    BY <2>1, <2>2 DEF IInv, TypeInv, StartInv, Early
  <2> QED
    BY <2>2, <2>3 DEF IInv, LayoutInv, ListInv, ExtendedInv, FirstInv, EndInv, AutoInv, CoverInv
<1> QED
  BY <1>1, <1>2

\* What SetupFakes puts behind the partitions
FakeAt(p, name, offset, bytes) ==
    p.name = name /\ p.offset = offset /\ p.size = bytes /\ p.child = -1 /\ ~p.autoresize
FakesOf(fs) ==
    /\ \A m \in DOMAIN fs : /\ fs[m].size >= 0 /\ fs[m].holes = {}
                            /\ ~fs[m].logical /\ ~fs[m].intable /\ fs[m].child = -1
    /\ conf.type = "mbr" => Len(fs) = 1 /\ FakeAt(fs[1], "mbr", Sector - MbrTail, MbrTail)
    /\ Gpt => /\ Len(fs) = 4
              /\ FakeAt(fs[1], "mbr", Sector - MbrTail, MbrTail)
              /\ FakeAt(fs[2], "header", Sector, Sector)
              /\ FakeAt(fs[3], "array", GptLocation, GptArray)
              /\ FakeAt(fs[4], "backup", IF size = 0 THEN 0 ELSE size - BackupSize, BackupSize)

(* The areas of the table are put behind the partitions.                    *)
LEMMA FakesStep ==
    ASSUME IInv, SetupFakes
    PROVE  /\ IInv' /\ AreasInv'
           /\ \A m \in Indices' \ Indices : PartInv(parts'[m]) /\ ~parts'[m].intable /\ parts'[m].child = -1
<1>1. PICK fakes, end :
        /\ parts' = parts \o fakes /\ now' = end
        /\ end \in Nat /\ (conf.type # "none" => end > 0)
        /\ fakes \in Seq(AnyPart)
        /\ \A m \in DOMAIN fakes :
              /\ fakes[m].name \in {"mbr", "header", "array", "backup"}
              /\ ~fakes[m].logical
              /\ fakes[m].name # "backup" =>
                    /\ fakes[m].offset # 0 /\ fakes[m].child = -1 /\ ~fakes[m].autoresize
                    /\ End(fakes[m]) <= end
        /\ FakesOf(fakes)
  <2> DEFINE mbr == Fake("mbr", Sector - MbrTail, MbrTail)
             header == Fake("header", Sector, Sector)
             array == Fake("array", GptLocation, (GptSectors - 1) * Sector)
             backup == Fake("backup", IF size = 0 THEN 0 ELSE size - BackupSize, BackupSize)
  <2>1. GptLocation \in Nat \ {0} /\ BackupSize \in Nat
    <3>1. conf.gptloc \in Nat
      BY ConfType DEF IInv, TypeInv
    <3> QED
      BY <3>1 DEF GptLocation, BackupSize, Sector, GptSectors
  <2>3. /\ Sector - MbrTail \in Int /\ MbrTail \in Int /\ Sector \in Int
        /\ (GptSectors - 1) * Sector = 16384 /\ size \in Nat
        /\ Sector = 512 /\ Sector - MbrTail = 440
    BY DEF Sector, MbrTail, GptSectors, IInv, TypeInv
  <2>4. /\ mbr \in AnyPart /\ mbr.name = "mbr" /\ ~mbr.logical /\ mbr.offset # 0
        /\ mbr.child = -1 /\ ~mbr.autoresize /\ End(mbr) = 512
        /\ FakeAt(mbr, "mbr", Sector - MbrTail, MbrTail) /\ mbr.size >= 0 /\ mbr.holes = {}
        /\ ~mbr.intable
    BY DEF Fake, AnyPart, End, Sector, MbrTail, FakeAt
  <2>5. /\ header \in AnyPart /\ header.name = "header" /\ ~header.logical /\ header.offset # 0
        /\ header.child = -1 /\ ~header.autoresize /\ End(header) = 1024
        /\ FakeAt(header, "header", Sector, Sector) /\ header.size >= 0 /\ header.holes = {}
        /\ ~header.intable
    BY DEF Fake, AnyPart, End, Sector, FakeAt
  <2>6. /\ array \in AnyPart /\ array.name = "array" /\ ~array.logical /\ array.offset # 0
        /\ array.child = -1 /\ ~array.autoresize /\ End(array) = GptLocation + 16384
        /\ FakeAt(array, "array", GptLocation, GptArray) /\ array.size >= 0 /\ array.holes = {}
        /\ ~array.intable
    BY <2>1, <2>3 DEF Fake, AnyPart, End, FakeAt, GptArray
  <2>7. /\ backup \in AnyPart /\ backup.name = "backup" /\ ~backup.logical
        /\ FakeAt(backup, "backup", IF size = 0 THEN 0 ELSE size - BackupSize, BackupSize)
        /\ backup.size >= 0 /\ backup.holes = {}
        /\ ~backup.intable /\ backup.child = -1
    BY <2>1, <2>3 DEF Fake, AnyPart, FakeAt
  <2> HIDE DEF mbr, header, array, backup
  <2>8. CASE conf.type = "none"
    <3>1. parts' = parts \o <<>> /\ now' = 0
      <4>1. conf.type # "mbr" /\ ~Gpt
        BY <2>8 DEF Gpt
      <4> QED
        BY <2>8, <4>1 DEF SetupFakes
    <3>2. <<>> \in Seq(AnyPart) /\ DOMAIN <<>> = {} /\ FakesOf(<<>>)
      BY <2>8 DEF FakesOf, Gpt
    <3> QED
      BY <2>8, <3>1, <3>2
  <2>9. CASE conf.type = "mbr"
    <3>1. parts' = parts \o <<mbr>> /\ now' = End(mbr)
      <4>1. conf.type # "none" /\ ~Gpt
        BY <2>9 DEF Gpt
      <4> QED
        BY <2>9, <4>1 DEF SetupFakes, mbr
    <3> DEFINE fs == <<mbr>>
    <3>2. fs \in Seq(AnyPart) /\ DOMAIN fs = {1} /\ fs[1] = mbr /\ Len(fs) = 1
      BY <2>4
    <3>3. parts' = parts \o fs
      BY <3>1
    <3> HIDE DEF fs
    <3>4. FakesOf(fs)
      BY <2>4, <2>9, <3>2 DEF FakesOf, Gpt
    <3> QED
      BY SMTT(30), <2>4, <3>1, <3>2, <3>3, <3>4
  <2>10. CASE Gpt
    <3>1. parts' = parts \o <<mbr, header, array, backup>> /\ now' = End(array)
      <4>1. conf.type # "none" /\ conf.type # "mbr"
        BY <2>10 DEF Gpt
      <4> QED
        BY <2>10, <4>1 DEF SetupFakes, mbr, header, array, backup
    <3> DEFINE fs == <<mbr, header, array, backup>>
    <3>2. /\ fs \in Seq(AnyPart) /\ DOMAIN fs = 1..4 /\ Len(fs) = 4
          /\ fs[1] = mbr /\ fs[2] = header /\ fs[3] = array /\ fs[4] = backup
      BY <2>4, <2>5, <2>6, <2>7
    <3>3. parts' = parts \o fs
      BY <3>1
    <3> HIDE DEF fs
    <3>4. \A m \in DOMAIN fs : fs[m] \in {mbr, header, array, backup}
      BY <3>2
    <3>5. GptLocation + 16384 \in Nat /\ GptLocation + 16384 >= 16384
      BY <2>1
    <3>6. \A m \in DOMAIN fs :
              /\ fs[m].name \in {"mbr", "header", "array", "backup"}
              /\ ~fs[m].logical
              /\ fs[m].name # "backup" =>
                    /\ fs[m].offset # 0 /\ fs[m].child = -1 /\ ~fs[m].autoresize
                    /\ End(fs[m]) <= End(array)
      BY <2>4, <2>5, <2>6, <2>7, <3>4, <3>5
    <3>7. End(array) \in Nat /\ End(array) > 0
      BY <2>6, <3>5
    <3>8. FakesOf(fs)
      <4>1. \A m \in DOMAIN fs : /\ fs[m].size >= 0 /\ fs[m].holes = {}
                                /\ ~fs[m].logical /\ ~fs[m].intable /\ fs[m].child = -1
        BY <2>4, <2>5, <2>6, <2>7, <3>4
      <4>2. conf.type # "mbr"
        BY <2>10 DEF Gpt
      <4> QED
        BY <2>4, <2>5, <2>6, <2>7, <3>2, <4>1, <4>2 DEF FakesOf
    <3> QED
      BY <3>1, <3>2, <3>3, <3>6, <3>7, <3>8
  <2>11. conf.type \in {"none", "mbr", "gpt", "hybrid"}
    BY DEF IInv, TypeInv, Conf
  <2> QED
    BY <2>8, <2>9, <2>10, <2>11 DEF Gpt
<1>2. /\ pc = "fakes" /\ pc' = "place" /\ k = 1 /\ parts \in Seq(AnyPart)
      /\ UNCHANGED <<conf, ret, align, extended, k, size>>
  BY DEF SetupFakes, IInv, TypeInv
<1>3. /\ Len(parts) \in Nat /\ Indices = 1..Len(parts) /\ Indices' = 1..Len(parts')
      /\ Len(parts') = Len(parts) + Len(fakes) /\ parts' \in Seq(AnyPart) /\ Len(fakes) \in Nat
      /\ \A m \in Indices : parts'[m] = parts[m] /\ m \in Indices'
      /\ \A m \in Indices' \ Indices : m - Len(parts) \in DOMAIN fakes /\ parts'[m] = fakes[m - Len(parts)]
  BY <1>1, <1>2 DEF Indices
<1>4. ~SetupDone' /\ Laid /\ Laid' /\ Settled = {} /\ Settled' = {} /\ ~SetupDone
  BY <1>2 DEF SetupDone, Laid, Settled
<1>5. TypeInv' /\ StartInv'
  BY <1>1, <1>2, <1>3, <1>4 DEF IInv, TypeInv, StartInv, Early
<1>6. ListInv'
  <2>1. ASSUME NEW n \in DOMAIN conf.parts
        PROVE  /\ PlaceOf(n) \in Indices' /\ parts'[PlaceOf(n)].name = "user"
               /\ parts'[PlaceOf(n)].offset = conf.parts[n].offset
               /\ parts'[PlaceOf(n)].intable = conf.parts[n].intable
    BY <1>3, <1>4 DEF IInv, LayoutInv, ListInv
  <2>2. ASSUME NEW m \in Indices'
        PROVE  /\ IsTable(m)' => /\ parts'[m].offset # 0 /\ parts'[m].child = -1
                                  /\ ~parts'[m].autoresize /\ ~parts'[m].logical
                                  /\ End(parts'[m]) <= now'
               /\ parts'[m].name = "extended" => m = extended
               /\ parts'[m].logical => extended # 0 /\ extended < m
    <3>1. CASE m \in Indices
      BY <1>2, <1>3, <1>4, <3>1 DEF IInv, LayoutInv, ListInv, IsTable
    <3>2. CASE m \notin Indices
      <4>1. PICK q \in DOMAIN fakes : parts'[m] = fakes[q]
        BY <1>3, <3>2
      <4> QED
        BY <1>1, <4>1 DEF IsTable
    <3> QED
      BY <3>1, <3>2
  <2>3. \A n : PlaceOf(n)' = PlaceOf(n)
    BY <1>2 DEF PlaceOf
  <2> QED
    BY <1>1, <1>2, <1>4, <2>1, <2>2, <2>3 DEF ListInv
<1>7. ExtendedInv' /\ FirstInv'
  <2> SUFFICES ASSUME extended # 0
               PROVE  /\ conf.type = "mbr"
                      /\ extended + 1 \in Indices' /\ parts'[extended + 1].intable
                      /\ parts'[extended].child = -1 /\ ~parts'[extended].logical
                      /\ parts'[extended].intable /\ parts'[extended].name = "extended"
                      /\ \A m, n \in Indices' :
                            extended < m /\ m < n /\ parts'[m].intable /\ ~parts'[m].logical =>
                               ~parts'[n].logical
                      /\ parts'[extended].size = 0 /\ ~parts'[extended].autoresize
                      /\ parts'[extended].offset = 0
                            \/ (/\ parts'[extended + 1].offset = parts'[extended].offset + align
                                /\ parts'[extended + 1].offset # 0)
    BY <1>2, <1>4 DEF ExtendedInv, FirstInv
  <2>1. extended \in Indices /\ extended + 1 \in Indices
    BY <1>3, <1>4 DEF IInv, LayoutInv, ExtendedInv, TypeInv
  <2>2. /\ parts'[extended] = parts[extended] /\ parts'[extended + 1] = parts[extended + 1]
        /\ extended + 1 \in Indices'
    BY <1>3, <2>1
  <2>3. ASSUME NEW m \in Indices', NEW n \in Indices', m < n, n \in Indices PROVE m \in Indices
    BY <1>3, <2>3
  <2>4. \A n \in Indices' \ Indices : ~parts'[n].logical
    BY <1>1, <1>3
  <2>5. \A m, n \in Indices' :
           extended < m /\ m < n /\ parts'[m].intable /\ ~parts'[m].logical => ~parts'[n].logical
    BY <1>3, <1>4, <2>3, <2>4 DEF IInv, LayoutInv, ExtendedInv
  <2> QED
    BY <1>4, <2>2, <2>5 DEF IInv, LayoutInv, ExtendedInv, FirstInv
<1>8. EndInv' /\ AutoInv' /\ CoverInv'
  BY <1>4 DEF EndInv, AutoInv, CoverInv
<1>9. IInv'
  BY <1>5, <1>6, <1>7, <1>8 DEF IInv, LayoutInv
<1>10. ASSUME NEW m \in Indices' \ Indices PROVE PartInv(parts'[m]) /\ ~parts'[m].intable /\ parts'[m].child = -1
  BY <1>1, <1>3 DEF FakesOf, PartInv
<1>11. AreasInv'
  <2>0. PICK l \in Nat : l = Len(parts') /\ l = Len(parts) + Len(fakes)
    BY <1>3
  <2>1. \A m \in 1..Len(fakes) : Len(parts) + m \in Indices' /\ parts'[Len(parts) + m] = fakes[m]
    BY <1>1, <1>2, <1>3
  <2>2. l \notin Settled'
    BY <1>4
  <2>6. FakesOf(fakes) /\ Len(parts) \in Nat
    BY <1>1, <1>3
  <2>3. CASE conf.type = "mbr"
    <3>1. l = Len(parts) + 1 /\ FakeAt(fakes[1], "mbr", Sector - MbrTail, MbrTail) /\ 1 \in 1..Len(fakes)
      <4>1. Len(fakes) = 1 /\ FakeAt(fakes[1], "mbr", Sector - MbrTail, MbrTail)
        BY <2>3, <2>6 DEF FakesOf
      <4> QED
        BY <2>0, <2>6, <4>1
    <3>2. l \in Indices' /\ FakeAt(parts'[l], "mbr", Sector - MbrTail, MbrTail)
      BY <2>1, <3>1
    <3> QED
      BY <1>2, <2>0, <2>3, <3>2 DEF AreasInv, IsArea, IsTable, FakeAt, Gpt
  <2>4. CASE Gpt
    <3>1. /\ Len(fakes) = 4 /\ l = Len(parts) + 4
          /\ l - 3 = Len(parts) + 1 /\ l - 2 = Len(parts) + 2 /\ l - 1 = Len(parts) + 3
          /\ 1 \in 1..Len(fakes) /\ 2 \in 1..Len(fakes) /\ 3 \in 1..Len(fakes) /\ 4 \in 1..Len(fakes)
      <4>1. Len(fakes) = 4
        BY <2>4, <2>6 DEF FakesOf
      <4> QED
        BY <2>0, <2>6, <4>1
    <3>2. /\ l - 3 \in Indices' /\ parts'[l - 3] = fakes[1]
          /\ l - 2 \in Indices' /\ parts'[l - 2] = fakes[2]
          /\ l - 1 \in Indices' /\ parts'[l - 1] = fakes[3]
          /\ l \in Indices' /\ parts'[l] = fakes[4]
      BY <2>1, <3>1
    <3>3. /\ IsArea(l - 3, Sector - MbrTail, MbrTail)'
          /\ IsArea(l - 2, Sector, Sector)'
          /\ IsArea(l - 1, GptLocation, GptArray)'
      <4>1. /\ FakeAt(fakes[1], "mbr", Sector - MbrTail, MbrTail)
            /\ FakeAt(fakes[2], "header", Sector, Sector)
            /\ FakeAt(fakes[3], "array", GptLocation, GptArray)
        BY <1>1, <2>4 DEF FakesOf
      <4>2. GptLocation' = GptLocation /\ Sector' = Sector /\ GptArray' = GptArray /\ MbrTail' = MbrTail
        BY <1>2 DEF GptLocation, Sector, GptArray, MbrTail
      <4> QED
        BY <3>2, <4>1, <4>2 DEF IsArea, IsTable, FakeAt
    <3>4. BackupOffset' = IF size = 0 THEN 0 ELSE size - BackupSize
      BY <1>2, <2>0, <2>2 DEF BackupOffset, BackupSize
    <3>5. IsBackup(l, BackupOffset)'
      <4>1. /\ FakeAt(fakes[4], "backup", IF size = 0 THEN 0 ELSE size - BackupSize, BackupSize)
            /\ ~fakes[4].logical
        BY <1>1, <2>4, <3>1 DEF FakesOf
      <4> QED
        BY <3>2, <3>4, <4>1 DEF IsBackup, FakeAt, BackupSize
    <3>6. conf.type # "mbr" /\ Gpt' = Gpt
      BY <1>2, <2>4 DEF Gpt
    <3> QED
      BY <1>2, <1>4, <2>0, <2>4, <3>3, <3>5, <3>6 DEF AreasInv
  <2>5. CASE conf.type # "mbr" /\ ~Gpt
    BY <1>2, <2>5 DEF AreasInv, Gpt
  <2> QED
    BY <2>3, <2>4, <2>5
<1> QED
  BY <1>9, <1>10, <1>11

-----------------------------------------------------------------------------
(* Where the extended partition is put                                      *)

Inserted(s, x, f) == SubSeq(s, 1, f - 1) \o <<x>> \o SubSeq(s, f, Len(s))

LEMMA InsertedAt ==
    ASSUME NEW S, NEW s \in Seq(S), NEW x \in S, NEW f \in 1..Len(s)
    PROVE  /\ Inserted(s, x, f) \in Seq(S) /\ Len(Inserted(s, x, f)) = Len(s) + 1
           /\ \A m \in 1..Len(Inserted(s, x, f)) :
                 Inserted(s, x, f)[m] = IF m < f THEN s[m] ELSE IF m = f THEN x ELSE s[m - 1]
<1> DEFINE a == SubSeq(s, 1, f - 1)
           b == SubSeq(s, f, Len(s))
           u == a \o <<x>>
           t == u \o b
<1>0. Len(s) \in Nat /\ f \in Int /\ f - 1 \in Int /\ 1 <= f /\ f <= Len(s)
  OBVIOUS
<1>1. a \in Seq(S) /\ Len(a) = f - 1 /\ \A i \in 1..(f - 1) : a[i] = s[i]
  <2>1. \A i \in 1..(f - 1) : s[i] \in S
    BY <1>0
  <2>2. /\ a \in Seq(S) /\ Len(a) = (IF 1 <= f - 1 THEN f - 1 - 1 + 1 ELSE 0)
        /\ \A i \in 1..(f - 1 - 1 + 1) : a[i] = s[1 + i - 1]
    BY <1>0, <2>1, SubSeqProperties
  <2> QED
    BY <1>0, <2>2
<1>2. /\ b \in Seq(S) /\ Len(b) = Len(s) - f + 1
      /\ \A i \in 1..(Len(s) - f + 1) : b[i] = s[f + i - 1]
  <2>1. \A i \in f..Len(s) : s[i] \in S
    BY <1>0
  <2> QED
    BY <1>0, <2>1, SubSeqProperties
<1> HIDE DEF a, b
<1>3. u \in Seq(S) /\ Len(u) = f /\ u[f] = x /\ \A i \in 1..(f - 1) : u[i] = a[i]
  BY <1>0, <1>1
<1> HIDE DEF u
<1>4. /\ t \in Seq(S) /\ Len(t) = Len(s) + 1
      /\ \A m \in 1..(Len(s) + 1) : t[m] = IF m <= f THEN u[m] ELSE b[m - f]
  BY <1>0, <1>2, <1>3
<1> HIDE DEF t
<1>5. ASSUME NEW m \in 1..(Len(s) + 1)
      PROVE  t[m] = IF m < f THEN s[m] ELSE IF m = f THEN x ELSE s[m - 1]
  <2>1. CASE m < f
    BY <1>0, <1>1, <1>3, <1>4, <2>1
  <2>2. CASE m = f
    BY <1>0, <1>3, <1>4, <2>2
  <2>3. CASE m > f
    <3>1. m - f \in 1..(Len(s) - f + 1) /\ f + (m - f) - 1 = m - 1 /\ m > f /\ m # f
      BY <1>0, <2>3
    <3>2. t[m] = b[m - f]
      BY <1>0, <1>4, <3>1
    <3>3. b[m - f] = s[f + (m - f) - 1]
      BY <1>2, <3>1
    <3>4. b[m - f] = s[m - 1]
      BY <3>1, <3>3, Zenon
    <3> QED
      BY <1>0, <3>1, <3>2, <3>4
  <2> QED
    BY <1>0, <2>1, <2>2, <2>3
<1>6. Inserted(s, x, f) = t
  BY DEF Inserted, t, u, a, b
<1> QED
  BY <1>4, <1>5, <1>6

(* Numbers tell partitions apart: the place of the extended one is unique.  *)
LEMMA NumberOnce ==
    ASSUME NEW f \in InTable, NEW n \in InTable, Number(f) = Number(n),
           Indices = 1..Len(parts), Len(parts) \in Nat
    PROVE  f = n
<1>1. IsFiniteSet(Indices)
  BY FS_Interval
<1>2. \A S \in SUBSET Indices : IsFiniteSet(S)
  BY <1>1, FS_Subset
<1>3. ASSUME NEW a \in InTable, NEW b \in InTable, a < b PROVE Number(a) # Number(b)
  <2> DEFINE A == {m \in InTable : m <= a}
             B == {m \in InTable : m <= b}
  <2>1. A \in SUBSET B /\ B \in SUBSET Indices
    BY <1>3 DEF InTable
  <2>2. b \in B /\ b \notin A
    BY <1>3 DEF InTable
  <2>3. IsFiniteSet(B)
    BY <1>2, <2>1
  <2>4. Cardinality(B) # Cardinality(A)
    <3> HIDE DEF A, B
    <3> QED
      BY <2>1, <2>2, <2>3, FS_Subset
  <2> QED
    BY <2>4 DEF Number
<1>4. f \in Int /\ n \in Int
  BY DEF InTable
<1>5. f < n \/ f = n \/ n < f
  BY <1>4
<1> QED
  BY <1>3, <1>5

LEMMA LogicalAfter ==
    ASSUME NEW f \in FirstInside, Indices = 1..Len(parts), Len(parts) \in Nat
    PROVE  /\ \A n \in Indices : IsLogical(n) => f <= n
           /\ \A m, n \in Indices :
                 f <= m /\ m < n /\ parts[m].intable /\ ~IsLogical(m) => ~IsLogical(n)
<1>1. FirstInside = {f}
  BY NumberOnce DEF FirstInside
<1>2. \A n : Inside(n) <=> f <= n
  BY <1>1 DEF Inside
<1>3. ASSUME NEW m \in Indices, NEW n \in Indices, m < n, ForcedUpTo(m) PROVE ForcedUpTo(n)
  <2>1. PICK q \in InTable : q <= m /\ parts[q].forced /\ Inside(q)
    BY <1>3 DEF ForcedUpTo
  <2>2. q <= n
    BY <1>3, <2>1 DEF InTable
  <2> QED
    BY <2>1, <2>2 DEF ForcedUpTo
<1> QED
  BY <1>2, <1>3 DEF IsLogical, InTable

\* A configured partition, as setup_logical_partitions() leaves it
Sourced(p) ==
    /\ p.name = "user" /\ (p.logical => p.intable)
    /\ \E n \in DOMAIN conf.parts :
          /\ p.intable = conf.parts[n].intable /\ p.offset = conf.parts[n].offset
          /\ p.align = conf.parts[n].align /\ p.size = conf.parts[n].size
          /\ p.holes = conf.parts[n].holes /\ p.imageoffset = conf.parts[n].imageoffset
          /\ p.child = conf.parts[n].child /\ p.data = conf.parts[n].data
          /\ p.fill = conf.parts[n].fill

\* The list with the extended partition in it
MovedFrom(m, n) ==
    /\ n \in Indices /\ parts'[m].intable = parts[n].intable
    /\ parts'[m].logical = IsLogical(n)
Opened ==
    /\ extended' \in FirstInside /\ extended' \in DOMAIN conf.parts
    /\ parts'[extended'].align = align
    /\ parts'[extended'].offset = 0 => parts'[extended' + 1].offset \in {0, align}
    /\ \A m \in Indices' \ {extended'} : MovedFrom(m, IF m < extended' THEN m ELSE m - 1)

LEMMA LogicalStep ==
    ASSUME IInv, SetupLogical
    PROVE  /\ IInv'
           /\ pc' # "end" =>
                 /\ \A m \in Indices' \ {extended'} : Sourced(parts'[m])
                 /\ extended' # 0 => Opened
<1>0. /\ pc = "logical" /\ parts \in Seq(AnyPart) /\ Len(parts) \in Nat /\ Indices = 1..Len(parts)
      /\ align \in Nat \ {0} /\ k = 1 /\ now \in Nat /\ size \in Nat /\ conf \in Conf
  <2>1. pc = "logical"
    BY DEF SetupLogical
  <2> QED
    BY <2>1 DEF IInv, TypeInv, Early, Indices
<1>1. /\ parts = [n \in DOMAIN conf.parts |-> FromConf(conf.parts[n])] /\ extended = 0
      /\ DOMAIN conf.parts = Indices
      /\ \A n \in Indices : parts[n] = FromConf(conf.parts[n])
  BY <1>0 DEF IInv, StartInv, Early, Indices
<1>2. \A n \in Indices :
         /\ parts[n].name = "user" /\ ~parts[n].logical
         /\ parts[n].offset = conf.parts[n].offset /\ parts[n].intable = conf.parts[n].intable
         /\ Sourced(parts[n])
  BY <1>1 DEF FromConf, Sourced
<1>3. CASE pc' = "end"
  BY <1>3, StopStep DEF SetupLogical, Error
<1>4. CASE pc' # "end" /\ UNCHANGED <<parts, extended>>
  <2>1. pc' = "fakes" /\ UNCHANGED <<conf, ret, align, k, now, size, parts, extended>>
    BY <1>4 DEF SetupLogical, Error, setupVars
  <2>2. ~SetupDone' /\ Laid' /\ Settled' = {}
    BY <2>1 DEF SetupDone, Laid, Settled
  <2>3. TypeInv' /\ StartInv'
    BY <1>0, <2>1, <2>2 DEF IInv, TypeInv, StartInv, Early
  <2>4. ListInv'
    <3>1. \A n : PlaceOf(n)' = n
      BY <1>1, <2>1, <1>0 DEF PlaceOf
    <3>2. \A m \in Indices : ~IsTable(m)' /\ parts'[m].name = "user" /\ ~parts'[m].logical
      BY <1>2, <2>1 DEF IsTable
    <3>3. Indices' = Indices
      BY <2>1 DEF Indices
    <3>4. \A n \in DOMAIN conf.parts :
             /\ PlaceOf(n)' \in Indices' /\ parts'[PlaceOf(n)'].name = "user"
             /\ parts'[PlaceOf(n)'].offset = conf.parts[n].offset
             /\ parts'[PlaceOf(n)'].intable = conf.parts[n].intable
      BY <1>1, <1>2, <2>1, <3>1, <3>3
    <3> QED
      BY <2>1, <3>2, <3>3, <3>4 DEF ListInv
  <2>5. IInv'
    BY <1>1, <2>1, <2>2, <2>3, <2>4 DEF IInv, LayoutInv, ExtendedInv, FirstInv, EndInv, AutoInv, CoverInv
  <2>6. \A m \in Indices' \ {extended'} : Sourced(parts'[m])
    BY <1>2, <2>1 DEF Indices
  <2> QED
    BY <1>1, <2>1, <2>5, <2>6
<1>5. CASE pc' # "end" /\ ~UNCHANGED <<parts, extended>>
  <2>1. PICK f \in FirstInside :
           /\ conf.type = "mbr" /\ parts' = WithExtended(f) /\ extended' = f
           /\ pc' = "fakes" /\ UNCHANGED <<conf, ret, align, k, now, size>>
    BY <1>5 DEF SetupLogical, Error, setupVars
  <2>2. /\ f \in Indices /\ f \in 1..Len(parts) /\ f \in Nat \ {0} /\ parts[f].intable
        /\ parts[f].offset \in Int
    <3>1. parts[f] \in AnyPart
      BY <1>0, <2>1 DEF FirstInside, InTable
    <3>2. f \in Indices /\ parts[f].intable
      BY <2>1 DEF FirstInside, InTable
    <3>3. f \in 1..Len(parts) /\ f \in Nat \ {0}
      BY <1>0, <3>2
    <3>4. parts[f].offset \in Int
      BY <3>1 DEF AnyPart
    <3> QED
      BY <3>2, <3>3, <3>4
  <2> DEFINE marked == [n \in Indices |-> [parts[n] EXCEPT !.logical = IsLogical(n)]]
             offset == IF parts[f].offset = 0 THEN 0 ELSE parts[f].offset - align
             e == [Fake("extended", offset, 0) EXCEPT
                     !.intable = TRUE, !.ptype = TRUE, !.align = align]
  <2>3. parts' = Inserted(marked, e, f)
    <3>1. Len(marked) = Len(parts)
      BY <1>0
    <3> QED
      BY <2>1, <3>1 DEF WithExtended, Inserted
  <2>4. /\ marked \in Seq(AnyPart) /\ Len(marked) = Len(parts)
        /\ \A n \in Indices :
              /\ marked[n].name = "user" /\ marked[n].offset = parts[n].offset
              /\ marked[n].intable = parts[n].intable /\ marked[n].logical = IsLogical(n)
              /\ Sourced(marked[n])
    <3>1. ASSUME NEW p \in AnyPart, NEW b \in BOOLEAN
          PROVE  LET q == [p EXCEPT !.logical = b]
                 IN  /\ q \in AnyPart /\ q.name = p.name /\ q.offset = p.offset
                     /\ q.intable = p.intable /\ q.logical = b /\ q.size = p.size
                     /\ q.align = p.align
                     /\ q.holes = p.holes /\ q.imageoffset = p.imageoffset
                     /\ q.child = p.child /\ q.data = p.data /\ q.fill = p.fill
      BY DEF AnyPart
    <3>2. \A n \in Indices : /\ parts[n] \in AnyPart /\ IsLogical(n) \in BOOLEAN
                             /\ IsLogical(n) => parts[n].intable
      BY <1>0 DEF IsLogical, InTable
    <3>3. \A n \in Indices :
              /\ marked[n] \in AnyPart
              /\ marked[n].name = "user" /\ marked[n].offset = parts[n].offset
              /\ marked[n].intable = parts[n].intable /\ marked[n].logical = IsLogical(n)
              /\ Sourced(marked[n])
      <4> TAKE n \in Indices
      <4>1. /\ parts[n] \in AnyPart /\ IsLogical(n) \in BOOLEAN /\ parts[n].name = "user"
            /\ IsLogical(n) => parts[n].intable
            /\ Sourced(parts[n])
        BY <1>2, <3>2
      <4>2. marked[n] = [parts[n] EXCEPT !.logical = IsLogical(n)]
        OBVIOUS
      <4> HIDE DEF marked
      <4>3. /\ marked[n] \in AnyPart
            /\ marked[n].name = "user" /\ marked[n].offset = parts[n].offset
            /\ marked[n].intable = parts[n].intable /\ marked[n].logical = IsLogical(n)
            /\ marked[n].size = parts[n].size /\ marked[n].align = parts[n].align
            /\ marked[n].holes = parts[n].holes /\ marked[n].imageoffset = parts[n].imageoffset
            /\ marked[n].child = parts[n].child /\ marked[n].data = parts[n].data
            /\ marked[n].fill = parts[n].fill
        BY <3>1, <4>1, <4>2
      <4> QED
        BY <4>1, <4>3 DEF Sourced
    <3>4. DOMAIN marked = 1..Len(parts) /\ marked = [n \in 1..Len(parts) |-> marked[n]]
      BY <1>0
    <3> HIDE DEF marked
    <3>5. marked \in Seq(AnyPart) /\ Len(marked) = Len(parts)
      BY <1>0, <3>3, <3>4
    <3> QED
      BY <3>3, <3>5
  <2>5. /\ e \in AnyPart /\ e.name = "extended" /\ ~e.logical /\ e.intable /\ e.child = -1
        /\ e.size = 0 /\ ~e.autoresize /\ e.offset = offset /\ e.align = align
    <3>1. offset \in Int /\ align \in Nat
      BY <1>0, <2>2
    <3> HIDE DEF offset
    <3> DEFINE e0 == Fake("extended", offset, 0)
    <3>2. /\ e0 \in AnyPart /\ e0.name = "extended" /\ ~e0.logical /\ e0.child = -1
          /\ e0.size = 0 /\ ~e0.autoresize /\ e0.offset = offset
      BY <3>1 DEF Fake, AnyPart
    <3> HIDE DEF e0
    <3>3. e = [e0 EXCEPT !.intable = TRUE, !.ptype = TRUE, !.align = align]
      BY DEF e0
    <3> QED
      BY <3>1, <3>2, <3>3 DEF AnyPart
  <2> HIDE DEF e, marked
  <2>6. /\ parts' \in Seq(AnyPart) /\ Len(parts') = Len(parts) + 1 /\ Indices' = 1..(Len(parts) + 1)
        /\ \A m \in Indices' :
              parts'[m] = IF m < f THEN marked[m] ELSE IF m = f THEN e ELSE marked[m - 1]
    <3>1. /\ parts' \in Seq(AnyPart) /\ Len(parts') = Len(marked) + 1
          /\ \A m \in 1..Len(parts') :
                parts'[m] = IF m < f THEN marked[m] ELSE IF m = f THEN e ELSE marked[m - 1]
      <4>1. f \in 1..Len(marked)
        BY <2>2, <2>4
      <4>2. marked \in Seq(AnyPart) /\ e \in AnyPart
        BY <2>4, <2>5
      <4>3. /\ Inserted(marked, e, f) \in Seq(AnyPart)
            /\ Len(Inserted(marked, e, f)) = Len(marked) + 1
            /\ \A m \in 1..Len(Inserted(marked, e, f)) :
                  Inserted(marked, e, f)[m] =
                     IF m < f THEN marked[m] ELSE IF m = f THEN e ELSE marked[m - 1]
        BY <4>1, <4>2, InsertedAt
      <4> QED
        BY <2>3, <4>3
    <3>2. Indices' = 1..Len(parts')
      BY <3>1 DEF Indices
    <3> QED
      BY <2>4, <3>1, <3>2
  <2>7. ~SetupDone' /\ Laid' /\ Settled' = {}
    BY <2>1 DEF SetupDone, Laid, Settled
  <2>8. TypeInv' /\ StartInv'
    <3>1. extended' \in 0..Len(parts')
      BY <1>0, <2>1, <2>2, <2>6
    <3> QED
      BY <1>0, <2>1, <2>6, <2>7, <3>1 DEF IInv, TypeInv, StartInv, Early
  <2>9. ASSUME NEW m \in Indices', m # f
        PROVE  \E n \in Indices : parts'[m] = marked[n] /\ n = IF m < f THEN m ELSE m - 1
    BY <1>0, <2>2, <2>6, <2>9
  <2>10. ListInv'
    <3>1. \A n \in Indices : PlaceOf(n)' = IF f <= n THEN n + 1 ELSE n
      BY <1>0, <2>1, <2>2 DEF PlaceOf
    <3>2. \A n \in Indices : PlaceOf(n)' \in Indices' /\ parts'[PlaceOf(n)'] = marked[n]
      BY <1>0, <2>2, <2>6, <3>1
    <3>3. \A m \in Indices' : ~IsTable(m)' /\ (parts'[m].name = "extended" => m = f)
      BY <2>4, <2>5, <2>6, <2>9 DEF IsTable
    <3>4. ASSUME NEW m \in Indices', parts'[m].logical PROVE f < m
      <4>1. m # f
        BY <2>2, <2>5, <2>6, <3>4
      <4>2. PICK n \in Indices : parts'[m] = marked[n] /\ n = IF m < f THEN m ELSE m - 1
        BY <2>9, <4>1
      <4>3. f <= n
        BY <1>0, <2>1, <2>4, <3>4, <4>2, LogicalAfter
      <4> QED
        BY <1>0, <2>2, <2>6, <4>1, <4>2, <4>3
    <3>5. f # 0
      BY <2>2
    <3> QED
      BY <1>1, <1>2, <2>1, <2>4, <2>7, <3>2, <3>3, <3>4, <3>5 DEF ListInv
  <2>11. f + 1 \in Indices' /\ f \in Indices' /\ parts'[f + 1] = marked[f] /\ parts'[f] = e
    BY <1>0, <2>2, <2>6
  <2>12. ASSUME NEW m \in Indices', NEW n \in Indices', f < m, m < n,
                parts'[m].intable, ~parts'[m].logical
         PROVE  ~parts'[n].logical
    <3>1. /\ m - 1 \in Indices /\ n - 1 \in Indices /\ f <= m - 1 /\ m - 1 < n - 1
          /\ parts'[m] = marked[m - 1] /\ parts'[n] = marked[n - 1]
      BY <1>0, <2>2, <2>6, <2>12
    <3> QED
      BY <1>0, <2>1, <2>4, <2>12, <3>1, LogicalAfter
  <2>13. ExtendedInv'
    BY <2>1, <2>2, <2>4, <2>5, <2>11, <2>12 DEF ExtendedInv
  <2>14. FirstInv'
    <3>1. e.offset = 0 \/ (marked[f].offset = e.offset + align /\ marked[f].offset # 0)
      BY <1>0, <2>2, <2>4, <2>5
    <3> QED
      BY <2>1, <2>5, <2>11, <3>1 DEF FirstInv
  <2>15. IInv'
    BY <2>7, <2>8, <2>10, <2>13, <2>14 DEF IInv, LayoutInv, EndInv, AutoInv, CoverInv
  <2>16. \A m \in Indices' \ {extended'} : Sourced(parts'[m])
    BY <2>1, <2>4, <2>9
  <2>17. Opened
    <3>1. f \in DOMAIN conf.parts
      BY <1>1, <2>2
    <3>2. e.offset = 0 => marked[f].offset \in {0, align}
      BY <1>0, <2>2, <2>4, <2>5
    <3>3. ASSUME NEW m \in Indices', m # f PROVE MovedFrom(m, IF m < f THEN m ELSE m - 1)
      <4>1. PICK n \in Indices : parts'[m] = marked[n] /\ n = IF m < f THEN m ELSE m - 1
        BY <2>9, <3>3
      <4>2. MovedFrom(m, n)
        BY <2>4, <4>1 DEF MovedFrom
      <4> QED
        BY <4>1, <4>2
    <3> QED
      BY <2>1, <2>5, <2>11, <3>1, <3>2, <3>3 DEF Opened
  <2> QED
    BY <2>15, <2>16, <2>17
<1> QED
  BY <1>3, <1>4, <1>5
-----------------------------------------------------------------------------
(* The theorems                                                             *)

LEMMA GenerateStep ==
    ASSUME IInv, Prepare \/ WriteData \/ DataDone \/ WriteTable \/ Fill \/ CheckSize
    PROVE  IInv'
<1>1. SetupDone /\ ret = "ok" /\ k \in Nat \ {0}
  <2>1. pc \in {"prepare", "data", "table", "fill", "check"}
    BY DEF Prepare, WriteData, DataDone, WriteTable, Fill, CheckSize
  <2> QED
    BY <2>1 DEF SetupDone, IInv, TypeInv
<1> DEFINE Gone == pc' = "end" /\ ret' # "ok" /\ UNCHANGED <<conf, setupVars>>
           Going == /\ pc' \in {"data", "table", "fill", "check", "end"}
                    /\ UNCHANGED <<conf, ret, align, parts, extended, now, size>>
                    /\ k' \in {k, k + 1}
<1>2. Prepare \/ DataDone => Going
  BY DEF Prepare, DataDone, setupVars
<1>3. WriteData => Gone \/ Going
  BY DEF WriteData, Error
<1>4. WriteTable \/ Fill \/ CheckSize => Gone \/ Going
  BY DEF WriteTable, Fill, CheckSize, Error, setupVars
<1>5. CASE Gone
  BY <1>5, StopStep
<1>6. CASE Going
  <2>1. k' \in Nat \ {0}
    BY <1>1, <1>6
  <2> QED
    BY <1>1, <1>6, <2>1, RestStep
<1> QED
  BY <1>2, <1>3, <1>4, <1>5, <1>6

LEMMA NextHolds == IInv /\ [Next]_vars => IInv'
<1> SUFFICES ASSUME IInv, [Next]_vars PROVE IInv'
  OBVIOUS
<1>1. CASE SetupAlign
  BY <1>1, AlignStep
<1>2. CASE SetupLogical
  BY <1>2, LogicalStep
<1>3. CASE SetupFakes
  BY <1>3, FakesStep
<1>4. CASE PlacePart
  BY <1>4, PlaceStep
<1>5. CASE SetupFinish
  BY <1>5, FinishStep
<1>6. CASE Prepare \/ WriteData \/ DataDone \/ WriteTable \/ Fill \/ CheckSize
  BY <1>6, GenerateStep
<1>7. CASE UNCHANGED vars
  <2>1. UNCHANGED <<conf, pc, ret, align, parts, extended, k, now, size>>
    BY <1>7 DEF vars, setupVars
  <2>2. /\ SetupDone' = SetupDone /\ Laid' = Laid /\ Settled' = Settled /\ Indices' = Indices
        /\ \A n : PlaceOf(n)' = PlaceOf(n) /\ Before(n)' = Before(n)
        /\ \A n : IsTable(n)' = IsTable(n) /\ Covers(n)' = Covers(n)
    BY <2>1 DEF SetupDone, Laid, Settled, Indices, PlaceOf, Before, IsTable, Covers
  <2>3. TypeInv' /\ StartInv'
    BY <2>1, <2>2 DEF IInv, TypeInv, StartInv
  <2>4. ListInv' /\ ExtendedInv' /\ FirstInv'
    BY <2>1, <2>2 DEF IInv, LayoutInv, ListInv, ExtendedInv, FirstInv
  <2>5. EndInv' /\ AutoInv' /\ CoverInv'
    BY <2>1, <2>2 DEF IInv, LayoutInv, EndInv, AutoInv, CoverInv
  <2> QED
    BY <2>3, <2>4, <2>5 DEF IInv, LayoutInv
<1> QED
  BY <1>1, <1>2, <1>3, <1>4, <1>5, <1>6, <1>7 DEF Next

(* The invariant that the two theorems follow from: what is where in the    *)
(* list, and how far hdimage_setup() has come in placing it.                *)
THEOREM LayoutHolds == Spec => []IInv
  BY InitHolds, NextHolds, PTL DEF Spec

(* The extended partition that hdimage_setup() ends up with spans every     *)
(* logical partition with the boot record in front of it and no primary     *)
(* one, wherever the configuration puts them.                               *)
THEOREM ExtendedCoversHolds == Spec => []ExtendedCovers
<1>1. IInv => ExtendedCovers
  <2> SUFFICES ASSUME IInv, SetupDone, extended # 0
               PROVE  \A n \in Entries \ {extended} : Covers(n)
    BY DEF ExtendedCovers, Covers
  <2>1. Settled = Indices /\ extended \in Indices
    BY DEF SetupDone, Settled, IInv, TypeInv, Indices
  <2> QED
    BY <2>1 DEF IInv, LayoutInv, CoverInv, Entries
<1> QED
  BY <1>1, LayoutHolds, PTL

(* A partition without an offset ends up behind all that precede it in the  *)
(* list and behind the areas of the table at the start of the image.        *)
THEOREM AutoOffsetComesAfterHolds == Spec => []AutoOffsetComesAfter
<1>1. IInv => AutoOffsetComesAfter
  <2> SUFFICES ASSUME IInv, SetupDone, NEW n \in DOMAIN conf.parts,
                      conf.parts[n].offset = 0, conf.parts[n].intable, conf.type # "none"
               PROVE  /\ \A m \in 1..(PlaceOf(n) - 1) :
                            m # extended => End(parts[m]) <= parts[PlaceOf(n)].offset
                      /\ \A m \in Indices \ User :
                            m # extended /\ parts[m].name # "backup" =>
                               End(parts[m]) <= parts[PlaceOf(n)].offset
    BY DEF AutoOffsetComesAfter, PlaceOf
  <2>1. Settled = Indices /\ Laid
    BY DEF SetupDone, Settled, Laid
  <2>2. Before(PlaceOf(n))
    BY <2>1 DEF IInv, LayoutInv, ListInv, AutoInv
  <2>3. ASSUME NEW m \in Indices \ User, m # extended, parts[m].name # "backup"
        PROVE  IsTable(m)
    <3>1. parts[m] \in AnyPart /\ m \in Indices
      BY <2>3 DEF IInv, TypeInv, Indices
    <3>2. parts[m].name \in {"user", "extended", "mbr", "header", "array", "backup"}
      BY <3>1 DEF AnyPart
    <3>3. parts[m].name # "user"
      BY <2>3 DEF User
    <3>4. parts[m].name # "extended"
      BY <2>1, <2>3, <3>1 DEF IInv, LayoutInv, ListInv
    <3> QED
      BY <2>3, <3>2, <3>3, <3>4 DEF IsTable
  <2> QED
    BY <2>2, <2>3 DEF Before
<1> QED
  BY <1>1, LayoutHolds, PTL

-----------------------------------------------------------------------------
(* Nothing that has been written is destroyed                               *)

\* A pair of writes that OverwritesOnlyHoles is content with
Harmless(a, b) ==
    LET q == parts[a.part]
        from == MaxOf(a.lo, b.lo) - q.offset + q.imageoffset
        to == MinOf(a.hi, b.hi) - q.offset + q.imageoffset
    IN  ~Disjoint(a.lo, a.hi, b.lo, b.hi) =>
          a.part # 0 /\ \E h \in q.holes : h[1] <= from /\ to <= h[2]

Within(w, m) == From(parts[m]) <= w.lo /\ w.hi <= End(parts[m])

LEMMA PartType ==
    ASSUME NEW p \in AnyPart, align \in Nat
    PROVE  /\ p.offset \in Int /\ p.size \in Int /\ p.logical \in BOOLEAN
           /\ p.holes \in SUBSET (Nat \X Nat) /\ p.imageoffset \in Nat
           /\ End(p) = p.offset + p.size /\ End(p) \in Int /\ From(p) \in Int
<1>1. /\ p.offset \in Int /\ p.size \in Int /\ p.logical \in BOOLEAN
      /\ p.holes \in SUBSET (Nat \X Nat) /\ p.imageoffset \in Nat
  BY DEF AnyPart
<1> QED
  BY <1>1 DEF End, From

LEMMA HarmlessPairs ==
    OverwritesOnlyHoles <=>
        \A m, n \in DOMAIN writes : m < n => Harmless(writes[m], writes[n])
BY Zenon DEF OverwritesOnlyHoles, Harmless

LEMMA WithinApart ==
    ASSUME NEW m \in Indices, NEW n \in Indices, NEW a \in Extents, NEW b \in Extents,
           parts \in Seq(AnyPart), align \in Nat,
           Within(a, m), Within(b, n), Apart(m, n) \/ Apart(n, m)
    PROVE  Harmless(a, b)
<1>1. /\ From(parts[m]) \in Int /\ End(parts[m]) \in Int
      /\ From(parts[n]) \in Int /\ End(parts[n]) \in Int
  <2>1. parts[m] \in AnyPart /\ parts[n] \in AnyPart
    BY DEF Indices
  <2> QED
    BY <2>1, PartType
<1>2. a.lo \in Int /\ a.hi \in Int /\ b.lo \in Int /\ b.hi \in Int
  BY DEF Extents
<1>3. Disjoint(a.lo, a.hi, b.lo, b.hi)
  BY <1>1, <1>2 DEF Disjoint, Apart, Within
<1> QED
  BY <1>3 DEF Harmless

(* check_overlap() compares with a hole the bytes that two partitions have  *)
(* in common; what is written is part of them.                              *)
LEMMA WithinHole ==
    ASSUME NEW m \in Indices, NEW n \in Indices, NEW a \in Extents, NEW b \in Extents,
           parts \in Seq(AnyPart), align \in Nat, PartInv(parts[m]),
           WrittenFor(a, m), Within(b, n), InHole(m, n)
    PROVE  Harmless(a, b)
<1> DEFINE p == parts[m]
           q == parts[n]
<1>1. /\ p.offset \in Int /\ End(p) \in Int /\ q.offset \in Int /\ End(q) \in Int
      /\ p.holes \in SUBSET (Nat \X Nat) /\ m \in Nat \ {0}
  <2>1. p \in AnyPart /\ q \in AnyPart /\ m \in Nat \ {0}
    BY DEF Indices
  <2> QED
    BY <2>1, PartType
<1>2. a.lo \in Int /\ a.hi \in Int /\ b.lo \in Int /\ b.hi \in Int
  BY DEF Extents
<1>3. /\ ~p.logical /\ ~q.logical
      /\ HoleCovers(p, MaxOf(q.offset, p.offset) - p.offset, MinOf(End(q), End(p)) - p.offset)
  BY DEF InHole
<1>4. a.part = m /\ p.offset <= a.lo /\ a.hi <= End(p)
  BY <1>3 DEF WrittenFor
<1>5. q.offset <= b.lo /\ b.hi <= End(q)
  BY <1>3 DEF Within, From
<1>6. PICK h \in p.holes : /\ h[1] <= MaxOf(q.offset, p.offset) - p.offset
                           /\ MinOf(End(q), End(p)) - p.offset <= h[2]
  BY <1>3 DEF HoleCovers
<1>7. h[1] \in Int /\ h[2] \in Int /\ p.imageoffset = 0
  BY <1>1, <1>6 DEF PartInv
<1> DEFINE lo == MaxOf(a.lo, b.lo)
           hi == MinOf(a.hi, b.hi)
<1>8. lo \in Int /\ hi \in Int /\ lo >= MaxOf(q.offset, p.offset) /\ hi <= MinOf(End(q), End(p))
  BY SMTT(30), <1>1, <1>2, <1>4, <1>5 DEF MaxOf, MinOf
<1>9. MaxOf(q.offset, p.offset) \in Int /\ MinOf(End(q), End(p)) \in Int
  BY <1>1 DEF MaxOf, MinOf
<1> HIDE DEF lo, hi
<1>10. h[1] <= lo - p.offset + p.imageoffset /\ hi - p.offset + p.imageoffset <= h[2]
  <2> DEFINE from == MaxOf(q.offset, p.offset)
             to == MinOf(End(q), End(p))
  <2>1. /\ from \in Int /\ to \in Int /\ h[1] <= from - p.offset /\ to - p.offset <= h[2]
        /\ lo >= from /\ hi <= to /\ p.offset \in Int
    BY <1>1, <1>6, <1>8, <1>9
  <2> HIDE DEF from, to
  <2> QED
    BY SMTT(30), <1>7, <1>8, <2>1
<1> QED
  BY <1>1, <1>4, <1>6, <1>10 DEF Harmless, lo, hi

\* What is written for a partition lies in it or in its boot record.
LEMMA WrittenWithin ==
    ASSUME NEW m \in Indices, NEW w \in Extents, parts \in Seq(AnyPart), align \in Nat,
           PartInv(parts[m]), WrittenFor(w, m)
    PROVE  Within(w, m)
<1>1. parts[m] \in AnyPart
  BY DEF Indices
<1>2. /\ parts[m].offset \in Int /\ parts[m].size \in Int /\ End(parts[m]) = parts[m].offset + parts[m].size
      /\ w.lo \in Int /\ w.hi \in Int
  BY <1>1 DEF AnyPart, End, Extents
<1> QED
  BY <1>2 DEF PartInv, WrittenFor, Within, From

LEMMA AppendedWrites ==
    ASSUME NEW ws \in Seq(Extents), writes \in Seq(Extents), OverwritesOnlyHoles,
           writes' = writes \o ws, UNCHANGED parts,
           \A i \in DOMAIN writes, j \in DOMAIN ws : Harmless(writes[i], ws[j]),
           \A i, j \in DOMAIN ws : i < j => Harmless(ws[i], ws[j])
    PROVE  /\ OverwritesOnlyHoles' /\ writes' \in Seq(Extents)
           /\ \A i \in DOMAIN writes' :
                 \/ i \in DOMAIN writes /\ writes'[i] = writes[i]
                 \/ \E j \in DOMAIN ws : writes'[i] = ws[j]
<1>0. Len(writes) \in Nat /\ Len(ws) \in Nat
  OBVIOUS
<1>1. /\ writes' \in Seq(Extents) /\ DOMAIN writes' = 1..(Len(writes) + Len(ws))
      /\ \A i \in 1..Len(writes) : writes'[i] = writes[i]
      /\ \A i \in 1..Len(ws) : writes'[Len(writes) + i] = ws[i]
  OBVIOUS
<1>2. DOMAIN writes = 1..Len(writes) /\ DOMAIN ws = 1..Len(ws)
  OBVIOUS
<1>3. ASSUME NEW i \in DOMAIN writes', i > Len(writes)
      PROVE  i - Len(writes) \in DOMAIN ws /\ writes'[i] = ws[i - Len(writes)]
  <2>1. i - Len(writes) \in 1..Len(ws) /\ Len(writes) + (i - Len(writes)) = i
    BY <1>0, <1>1, <1>3
  <2> QED
    BY <1>1, <1>2, <2>1
<1>4. ASSUME NEW i \in DOMAIN writes', ~(i > Len(writes))
      PROVE  i \in DOMAIN writes /\ writes'[i] = writes[i]
  <2>1. i \in 1..Len(writes)
    BY <1>0, <1>1, <1>4
  <2> QED
    BY <1>1, <1>2, <2>1
<1>5. ASSUME NEW m \in DOMAIN writes', NEW n \in DOMAIN writes', m < n
      PROVE  Harmless(writes'[m], writes'[n])
  <2>1. CASE ~(n > Len(writes))
    <3>1. ~(m > Len(writes))
      BY <1>0, <1>1, <1>5, <2>1
    <3>2. m \in DOMAIN writes /\ n \in DOMAIN writes /\ writes'[m] = writes[m] /\ writes'[n] = writes[n]
      BY <1>4, <2>1, <3>1
    <3> QED
      BY <1>5, <3>2, HarmlessPairs
  <2>2. CASE n > Len(writes) /\ ~(m > Len(writes))
    BY <1>3, <1>4, <2>2
  <2>3. CASE n > Len(writes) /\ m > Len(writes)
    <3>1. m - Len(writes) < n - Len(writes)
      BY <1>0, <1>1, <1>5
    <3> QED
      BY <1>3, <2>3, <3>1
  <2> QED
    BY <2>1, <2>2, <2>3
<1>6. OverwritesOnlyHoles'
  BY <1>5 DEF OverwritesOnlyHoles, Harmless
<1>7. ASSUME NEW i \in DOMAIN writes'
      PROVE  \/ i \in DOMAIN writes /\ writes'[i] = writes[i]
             \/ \E j \in DOMAIN ws : writes'[i] = ws[j]
  BY <1>3, <1>4
<1> QED
  BY <1>1, <1>6, <1>7

-----------------------------------------------------------------------------
(* The steps and the second invariant                                       *)

LEMMA DiskInit == HolesFromStart /\ Init => DiskInv
<1> SUFFICES ASSUME Init PROVE DiskInv
  OBVIOUS
<1>1. ~SetupDone /\ ~Laid /\ Settled = {} /\ writes = <<>> /\ DOMAIN writes = {} /\ pc = "align"
  BY DEF Init, SetupDone, Laid, Settled
<1>2. writes \in Seq(Extents)
  BY <1>1
<1> QED
  BY <1>1, <1>2 DEF Init, DiskInv, PartsInv, AlignInv, AreasInv, ApartInv, WritesInv,
     OverwritesOnlyHoles, Extents

\* After an error only what has been written is left to be said.
LEMMA DiskGone ==
    ASSUME DiskInv, pc' = "end", ret' # "ok", conf' = conf,
           writes' \in Seq(Extents), OverwritesOnlyHoles'
    PROVE  DiskInv'
<1>1. ~SetupDone' /\ ~Laid' /\ Settled' = {}
  BY DEF SetupDone, Laid, Settled
<1>2. PartsInv' /\ AlignInv' /\ AreasInv' /\ ApartInv'
  BY <1>1 DEF PartsInv, AlignInv, AreasInv, ApartInv
<1>3. WritesInv' /\ conf' \in Configs
  BY DEF DiskInv, WritesInv, Early, Extents
<1> QED
  BY <1>2, <1>3 DEF DiskInv

LEMMA DiskStop ==
    ASSUME DiskInv, pc' = "end", ret' # "ok", UNCHANGED <<conf, setupVars, writes>>
    PROVE  DiskInv'
<1>1. writes' \in Seq(Extents)
  BY DEF DiskInv, WritesInv
<1>2. OverwritesOnlyHoles'
  BY DEF DiskInv, OverwritesOnlyHoles, setupVars
<1> QED
  BY <1>1, <1>2, DiskGone

LEMMA DiskAlign ==
    ASSUME IInv, DiskInv, SetupAlign
    PROVE  DiskInv'
<1>1. CASE pc' = "end"
  BY <1>1, DiskStop DEF SetupAlign, Error
<1>2. CASE pc' # "end"
  <2>1. /\ pc = "align" /\ pc' = "logical" /\ UNCHANGED <<conf, parts, extended, writes>>
        /\ conf.type # "none" => align' % Sector = 0
        /\ align' = IF conf.align = 0 THEN (IF conf.type = "none" THEN 1 ELSE Sector)
                     ELSE conf.align
    BY <1>2 DEF SetupAlign, Error
  <2>2. ~SetupDone' /\ ~Laid' /\ Settled' = {} /\ writes = <<>>
    BY <2>1 DEF SetupDone, Laid, Settled, DiskInv, WritesInv, Early
  <2>3. align' \in Nat \ {0}
    BY <2>1, ConfType DEF IInv, TypeInv, Sector
  <2>4. \A x \in Nat \ {0} : x % 512 = 0 => x >= 512
    BY Z3
  <2>5. AlignInv'
    BY <2>1, <2>3, <2>4 DEF AlignInv, Sector
  <2>6. PartsInv' /\ AreasInv' /\ ApartInv'
    BY <2>2 DEF PartsInv, AreasInv, ApartInv
  <2>7. WritesInv' /\ OverwritesOnlyHoles'
    BY <2>1, <2>2 DEF DiskInv, WritesInv, OverwritesOnlyHoles, Early
  <2> QED
    BY <2>1, <2>5, <2>6, <2>7 DEF DiskInv
<1> QED
  BY <1>1, <1>2

\* The invariant, but for the writes, is about what hdimage_setup() left.
LEMMA DiskStill ==
    ASSUME DiskInv, SetupDone, SetupDone', pc # "end" \/ pc' = "end",
           UNCHANGED <<conf, align, parts, extended, now, size>>
    PROVE  conf' \in Configs /\ PartsInv' /\ AlignInv' /\ AreasInv' /\ ApartInv'
<1>1. Laid /\ Laid' /\ pc # "fakes" /\ pc' # "fakes" /\ pc # "place" /\ pc' # "place"
      /\ Settled = Indices /\ Settled' = Indices /\ Indices' = Indices /\ pc # "align"
  BY DEF SetupDone, Laid, Settled, Indices
<1>2. /\ \A m, o, b : IsArea(m, o, b)' = IsArea(m, o, b)
      /\ \A m, o : IsBackup(m, o)' = IsBackup(m, o)
      /\ BackupOffset' = BackupOffset /\ GptLocation' = GptLocation /\ Gpt' = Gpt
      /\ \A m, n : Apart(m, n)' = Apart(m, n) /\ InHole(m, n)' = InHole(m, n)
  BY <1>1 DEF IsArea, IsTable, IsBackup, BackupOffset, GptLocation, Gpt, Apart, InHole, Disjoint, From,
     End, HoleCovers, HasImage, Indices
<1>3. conf' \in Configs /\ PartsInv' /\ ApartInv'
  BY <1>1, <1>2 DEF DiskInv, PartsInv, ApartInv, PartInv
<1>4. AreasInv'
  BY <1>1, <1>2 DEF DiskInv, AreasInv
<1>5. AlignInv'
  BY <1>1 DEF DiskInv, AlignInv, SetupDone
<1> QED
  BY <1>3, <1>4, <1>5

(* A partition without an image has the size of its options, or what is     *)
(* left of the disk; one with an image is at least as large as that.        *)
LEMMA PlacedSize ==
    ASSUME TypeInv, align # 0, NEW p \in AnyPart, p.size >= 0,
           CanResize(WithOffset(WithAlign(p))), ImageFits(Placed(p))
    PROVE  Placed(p).size >= 0
<1> DEFINE o == WithOffset(WithAlign(p))
           r == WithAutoresize(o)
           q == WithSize(r)
<1>0. Placed(p) = q /\ q \in AnyPart /\ q.size \in Int
  <2>1. Placed(p) = q
    BY DEF Placed
  <2>2. Placed(p) \in AnyPart
    BY PlacedType
  <2> QED
    BY <2>1, <2>2 DEF AnyPart
<1>1. o \in AnyPart /\ o.size = p.size /\ o.align # 0
  <2>1. WithAlign(p) \in AnyPart /\ WithAlign(p).align # 0 /\ WithAlign(p).size = p.size
    BY AlignType
  <2> QED
    BY <2>1, OffsetType
<1>2. CASE HasImage(q)
  <2>1. q.size \in Int /\ DataSize(q) \in 0..q.size
    BY <1>0, <1>2 DEF ImageFits
  <2> QED
    BY <1>0, <2>1
<1>3. CASE ~HasImage(q)
  <2>1. q = r
    <3>1. CASE HasImage(r) /\ r.size = 0
      <4>1. q.child = r.child
        <5>1. r \in AnyPart
          <6>1. CASE o.autoresize /\ CanResize(o)
            <7>1. Room(o) \in Int
              BY <1>1, RoomType
            <7> QED
              BY <1>1, <7>1, ResizeType DEF WithAutoresize
          <6>2. CASE ~(o.autoresize /\ CanResize(o))
            BY <1>1, <6>2 DEF WithAutoresize
          <6> QED
            BY <6>1, <6>2
        <5> HIDE DEF r
        <5> QED
          BY <5>1 DEF WithSize, AnyPart
      <4> QED
        BY <1>3, <3>1, <4>1 DEF HasImage
    <3>2. CASE ~(HasImage(r) /\ r.size = 0)
      BY <3>2 DEF WithSize
    <3> QED
      BY <3>1, <3>2
  <2>2. CASE o.autoresize
    <3>1. Room(o) > 0 /\ r = [o EXCEPT !.size = Room(o)]
      BY <2>2 DEF CanResize, WithAutoresize
    <3>2. r.size = Room(o)
      BY <1>1, <3>1 DEF AnyPart
    <3>3. Room(o) \in Int
      BY <1>0, <2>1, <3>2
    <3> QED
      BY <1>0, <2>1, <3>1, <3>2, <3>3
  <2>3. CASE ~o.autoresize
    BY <1>0, <1>1, <2>1, <2>3 DEF WithAutoresize
  <2> QED
    BY <2>2, <2>3
<1> QED
  BY <1>2, <1>3

\* Without a size of the image, the backup goes behind everything.
LEMMA PlacedBackup ==
    ASSUME TypeInv, align # 0, NEW p \in AnyPart, p.name = "backup", p.child = -1,
           ~p.logical, ~p.autoresize, p.offset = 0
    PROVE  Placed(p).offset = RoundUp(now + p.size, 4096) - p.size
<1> DEFINE a == WithAlign(p)
           o == WithOffset(a)
<1>1. /\ a \in AnyPart /\ a.align # 0 /\ a.offset = 0 /\ a.size = p.size
      /\ a.name = "backup" /\ a.child = -1 /\ ~a.logical /\ ~a.autoresize
  BY AlignType DEF Kept
<1> HIDE DEF a
<1>2. Reserved(a) = now
  BY <1>1 DEF Reserved
<1>3. o = [a EXCEPT !.offset = RoundUp(now + a.size, 4096) - a.size]
  BY <1>1, <1>2 DEF WithOffset
<1>4. /\ o \in AnyPart /\ o.child = -1 /\ ~o.autoresize
  BY <1>1, OffsetType DEF Kept
<1>5. o.offset = RoundUp(now + a.size, 4096) - a.size
  BY <1>1, <1>3 DEF AnyPart
<1> HIDE DEF o
<1>6. WithSize(WithAutoresize(o)) = o
  BY <1>4 DEF WithSize, WithAutoresize, HasImage
<1> QED
  BY <1>1, <1>5, <1>6 DEF Placed, o, a

\* Without an offset of its own, the backup becomes the end of the disk.
LEMMA BackupPlace ==
    ASSUME IInv, AreasInv, NEW p, p = Placed(parts[k]), pc = "place", k = Len(parts), Accepted(p),
           PartsWith(p), now' = Advance(p), k' = k + 1,
           UNCHANGED <<conf, pc, ret, align, extended, size>>, Gpt, parts[k].offset = 0
    PROVE  /\ p.offset = RoundUp(now + BackupSize, 4096) - BackupSize
           /\ RoundUp(now + BackupSize, 4096) \in Int
           /\ RoundUp(now + BackupSize, 4096) >= now + BackupSize
           /\ now' = p.offset + BackupSize
<1>1. /\ Indices = 1..Len(parts) /\ k \in Indices /\ Len(parts) \in Nat /\ k <= Len(parts)
      /\ parts[k] \in AnyPart /\ now \in Nat /\ align \in Nat \ {0}
      /\ p.offset \in Int /\ End(p) = p.offset + p.size
      /\ Kept(p, parts[k])
      /\ parts[k].child = -1 /\ ~parts[k].autoresize => p.size = parts[k].size
      /\ now' \in Nat /\ now' >= now /\ now' >= End(p) /\ (now' = now \/ now' = End(p))
  <2>1. k <= Len(parts)
    BY DEF IInv, TypeInv
  <2> QED
    BY <2>1, PlaceChanges
<1>2. /\ parts[k].name = "backup" /\ parts[k].child = -1 /\ ~parts[k].logical
      /\ ~parts[k].autoresize /\ parts[k].size = BackupSize
  BY DEF AreasInv, IsBackup, Laid
<1>3. BackupSize = 16896
  BY DEF BackupSize, GptSectors, Sector
<1>4. p.offset = RoundUp(now + BackupSize, 4096) - BackupSize
  <2>1. TypeInv
    BY DEF IInv
  <2> QED
    BY <1>1, <1>2, <2>1, PlacedBackup
<1>5. RoundUp(now + BackupSize, 4096) \in Int /\ RoundUp(now + BackupSize, 4096) >= now + BackupSize
  <2>1. PICK v \in Int : v = now + BackupSize /\ v > 0
    BY <1>1, <1>3
  <2>2. PICK a \in Nat \ {0} : a = 4096
    OBVIOUS
  <2>3. RoundUp(v, a) \in Int /\ RoundUp(v, a) >= v
    BY <2>1, RoundUpType
  <2> QED
    BY <2>1, <2>2, <2>3
<1>6. p.size = BackupSize
  BY <1>1, <1>2
<1>7. now' = p.offset + BackupSize
  BY <1>1, <1>3, <1>4, <1>5, <1>6
<1> QED
  BY <1>4, <1>5, <1>7

\* The areas of the table stay where they are, and the backup gets its place.
LEMMA AreasPlace ==
    ASSUME IInv, AreasInv, NEW p, p = Placed(parts[k]), pc = "place", k <= Len(parts), Accepted(p),
           PartsWith(p), now' = Advance(p), k' = k + 1,
           UNCHANGED <<conf, pc, ret, align, extended, size>>
    PROVE  AreasInv'
<1>0. /\ TypeInv /\ ListInv /\ ExtendedInv /\ EndInv /\ CoverInv
      /\ AreasInv
  BY DEF IInv, LayoutInv
<1>1. /\ Indices = 1..Len(parts) /\ k \in Indices /\ Len(parts) \in Nat /\ k \in Nat \ {0}
      /\ \A m \in Indices : parts[m] \in AnyPart
      /\ now \in Nat /\ align \in Nat \ {0} /\ extended \in 0..Len(parts)
  BY PlaceChanges
<1>2. \A m \in Indices :
         /\ parts[m].offset \in Int /\ parts[m].size \in Int /\ End(parts[m]) \in Int
         /\ parts[m].logical \in BOOLEAN
  BY PlaceChanges
<1>3. /\ p \in AnyPart /\ p.align # 0 /\ Kept(p, parts[k])
      /\ p.intable <=> parts[k].intable /\ conf.type # "none"
      /\ parts[k].offset # 0 => p.offset = parts[k].offset
      /\ parts[k].child = -1 /\ ~parts[k].autoresize => p.size = parts[k].size
      /\ p.logical => Reserved(p) >= now + align
  BY PlaceChanges
<1>4. p.offset \in Int /\ p.size \in Int /\ End(p) = p.offset + p.size /\ Reserved(p) \in Int
  BY PlaceChanges
<1>5. now' \in Nat /\ now' >= now /\ now' >= End(p) /\ (now' = now \/ now' = End(p))
  BY PlaceChanges
<1>6. /\ Len(parts') = Len(parts) /\ Indices' = Indices /\ parts'[k] = p
      /\ \A m \in Indices : m # k /\ m # extended => parts'[m] = parts[m]
  BY PlaceChanges
<1>7. /\ ~SetupDone /\ ~SetupDone' /\ Laid /\ Laid' /\ Settled = 1..(k - 1) /\ Settled' = 1..k
      /\ pc \notin Early \cup {"fakes"} /\ pc' = "place"
  BY PlaceChanges
<1>8. ASSUME NEW m, NEW o, NEW b, IsArea(m, o, b) PROVE IsArea(m, o, b)'
  <2>1. /\ m \in Indices /\ IsTable(m) /\ parts[m].offset = o /\ parts[m].size = b
        /\ parts[m].offset # 0 /\ parts[m].child = -1 /\ ~parts[m].autoresize
    BY <1>0, <1>7, <1>8 DEF IsArea, ListInv
  <2>2. m # extended
    BY <1>0, <1>1, <1>7, <2>1 DEF ExtendedInv, IsTable
  <2>3. parts'[m].offset = o /\ parts'[m].size = b /\ parts'[m].name = parts[m].name
    BY <1>3, <1>6, <2>1, <2>2 DEF Kept
  <2> QED
    BY <1>6, <2>1, <2>3 DEF IsArea, IsTable
<1>9. AreasInv'
  <2>1. CASE Gpt
    <3> DEFINE l == Len(parts)
    <3>1. extended = 0 /\ now > 0 /\ conf.type # "none" /\ l \in Indices /\ size \in Nat
      <4>1. extended = 0 /\ now > 0 /\ conf.type # "none"
        BY <1>0, <1>7, <2>1 DEF Gpt, ExtendedInv, ListInv
      <4> QED
        BY <1>0, <1>1, <4>1 DEF TypeInv
    <3>2. \/ IsBackup(l, BackupOffset)
          \/ IsBackup(l, parts[l].offset) /\ 0 < size /\ size < now
      BY <1>0, <1>7, <2>1 DEF AreasInv
    <3>3. parts[l].name = "backup" /\ parts[l].child = -1 /\ ~parts[l].logical
          /\ ~parts[l].autoresize /\ parts[l].size = BackupSize
      BY <3>2 DEF IsBackup
    <3>4. BackupSize = 16896
      BY DEF BackupSize, GptSectors, Sector
    <3>5. CASE k # l
      <4>1. parts'[l] = parts[l] /\ l \notin Settled /\ l \notin Settled' /\ Len(parts') = l
        BY <1>1, <1>6, <1>7, <3>1, <3>5
      <4>2. BackupOffset' = BackupOffset
        BY <4>1 DEF BackupOffset, BackupSize
      <4>3. \/ IsBackup(l, BackupOffset)'
            \/ IsBackup(l, parts[l].offset)' /\ 0 < size /\ size < now'
        BY <1>1, <1>5, <1>6, <3>1, <3>2, <4>1, <4>2 DEF IsBackup, BackupSize
      <4> QED
        BY <1>0, <1>6, <1>7, <1>8, <2>1, <4>1, <4>3 DEF AreasInv, Gpt, GptLocation
    <3>6. CASE k = l
      <4>1. l \notin Settled /\ l \in Settled' /\ Len(parts') = l /\ parts'[l] = p
        BY <1>1, <1>6, <1>7, <3>6
      <4>2. /\ p.name = "backup" /\ p.child = -1 /\ ~p.logical /\ ~p.autoresize
            /\ p.size = BackupSize
        BY <1>3, <3>3, <3>6 DEF Kept
      <4>3. IsBackup(l, p.offset)'
        BY <1>6, <3>1, <4>1, <4>2 DEF IsBackup, BackupSize
      <4>4. BackupOffset = IF size = 0 THEN 0 ELSE size - BackupSize
        BY <4>1 DEF BackupOffset
      <4>5. BackupOffset' = (IF size = 0 THEN now' ELSE size) - BackupSize
        BY <4>1 DEF BackupOffset, BackupSize
      <4>6. p.offset = BackupOffset' \/ (0 < size /\ size < now')
        <5>1. CASE 0 < size /\ size < now
          BY <1>1, <1>5, <3>1, <5>1
        <5>2. CASE IsBackup(l, BackupOffset) /\ parts[l].offset # 0
          <6>1. p.offset = parts[l].offset /\ parts[l].offset = BackupOffset
            BY <1>3, <3>6, <5>2 DEF IsBackup
          <6> QED
            BY <4>4, <4>5, <5>2, <6>1
        <5>3. CASE IsBackup(l, BackupOffset) /\ parts[l].offset = 0
          <6>1. /\ p.offset = RoundUp(now + BackupSize, 4096) - BackupSize
                /\ RoundUp(now + BackupSize, 4096) \in Int
                /\ RoundUp(now + BackupSize, 4096) >= now + BackupSize
                /\ now' = p.offset + BackupSize
            BY <2>1, <3>6, <5>3, BackupPlace
          <6>5. size # 0 => size = BackupSize /\ now' > size
            <7>1. size # 0 => size - BackupSize = 0
              BY <4>4, <5>3 DEF IsBackup
            <7> QED
              BY <1>1, <1>4, <3>1, <3>4, <6>1, <6>1, <7>1
          <6> QED
            BY <1>4, <1>5, <3>1, <3>4, <4>5, <6>1, <6>5
        <5> QED
          BY <3>2, <5>1, <5>2, <5>3
      <4>7. \/ IsBackup(l, BackupOffset)'
            \/ IsBackup(l, parts[l].offset)' /\ 0 < size /\ size < now'
        <5>1. CASE p.offset = BackupOffset'
          BY <4>1, <4>3, <5>1 DEF IsBackup
        <5>2. CASE 0 < size /\ size < now'
          BY <4>1, <4>3, <5>2 DEF IsBackup
        <5> QED
          BY <4>6, <5>1, <5>2
      <4> QED
        BY <1>0, <1>6, <1>7, <1>8, <2>1, <4>1, <4>7 DEF AreasInv, Gpt, GptLocation
    <3> QED
      BY <3>5, <3>6
  <2>2. CASE ~Gpt
    BY <1>0, <1>6, <1>7, <1>8, <2>2 DEF AreasInv, Gpt
  <2> QED
    BY <2>1, <2>2
<1> QED
  BY <1>9

LEMMA DiskPlaceOk ==
    ASSUME IInv, DiskInv, NEW p, p = Placed(parts[k]), pc = "place", k <= Len(parts), Accepted(p),
           PartsWith(p), now' = Advance(p), k' = k + 1,
           UNCHANGED <<conf, pc, ret, align, extended, size, writes>>
    PROVE  DiskInv'
<1>0. /\ TypeInv /\ ListInv /\ ExtendedInv /\ EndInv /\ CoverInv
      /\ PartsInv /\ AlignInv /\ AreasInv /\ ApartInv /\ WritesInv
  BY DEF IInv, LayoutInv, DiskInv
<1>1. /\ Indices = 1..Len(parts) /\ k \in Indices /\ Len(parts) \in Nat /\ k \in Nat \ {0}
      /\ \A m \in Indices : parts[m] \in AnyPart
      /\ now \in Nat /\ align \in Nat \ {0} /\ extended \in 0..Len(parts)
  BY PlaceChanges
<1>2. \A m \in Indices :
         /\ parts[m].offset \in Int /\ parts[m].size \in Int /\ End(parts[m]) \in Int
         /\ parts[m].logical \in BOOLEAN
  BY PlaceChanges
<1>3. /\ p \in AnyPart /\ p.align # 0 /\ Kept(p, parts[k])
      /\ p.intable <=> parts[k].intable /\ conf.type # "none"
      /\ parts[k].offset # 0 => p.offset = parts[k].offset
      /\ parts[k].child = -1 /\ ~parts[k].autoresize => p.size = parts[k].size
      /\ p.logical => Reserved(p) >= now + align
  BY PlaceChanges
<1>4. p.offset \in Int /\ p.size \in Int /\ End(p) = p.offset + p.size /\ Reserved(p) \in Int
  BY PlaceChanges
<1>5. now' \in Nat /\ now' >= now /\ now' >= End(p) /\ (now' = now \/ now' = End(p))
  BY PlaceChanges
<1>6. /\ Len(parts') = Len(parts) /\ Indices' = Indices /\ parts'[k] = p
      /\ \A m \in Indices : m # k /\ m # extended => parts'[m] = parts[m]
  BY PlaceChanges
<1>7. /\ ~SetupDone /\ ~SetupDone' /\ Laid /\ Laid' /\ Settled = 1..(k - 1) /\ Settled' = 1..k
      /\ pc \notin Early \cup {"fakes"} /\ pc' = "place"
  BY PlaceChanges
<1>8. PartsInv'
  <2>1. ASSUME NEW m \in Indices, m # extended PROVE PartInv(parts'[m])
    <3>1. PartInv(parts[m])
      BY <1>0, <1>7, <2>1 DEF PartsInv
    <3>2. CASE m # k
      BY <1>6, <2>1, <3>1, <3>2
    <3>3. CASE m = k
      <4>1. p.size >= 0
        BY <1>0, <1>1, <3>1, <3>3, PlacedSize DEF Accepted, PartInv
      <4>2. p.logical => p.intable
        <5>1. parts[k].logical => parts[k].intable /\ conf.type = "mbr"
          BY <1>0, <1>1, <1>7, <3>1, <3>3 DEF PartInv, ListInv, ExtendedInv
        <5> QED
          BY <1>3, <5>1 DEF Kept
      <4>3. p.holes # {} => p.imageoffset = 0
        BY <1>3, <3>1, <3>3 DEF PartInv, Kept
      <4> QED
        BY <1>6, <3>3, <4>1, <4>2, <4>3 DEF PartInv
    <3> QED
      BY <3>2, <3>3
  <2> QED
    BY <1>6, <2>1 DEF PartsInv, PartInv
<1>9. AlignInv' /\ WritesInv' /\ conf' \in Configs
  BY <1>0, <1>7 DEF AlignInv, WritesInv, DiskInv, Early
<1>10. OverwritesOnlyHoles'
  <2>1. writes' = <<>> /\ DOMAIN <<>> = {}
    BY <1>0 DEF WritesInv, Early
  <2> QED
    BY <2>1 DEF OverwritesOnlyHoles
<1>12. AreasInv'
  BY <1>0, AreasPlace
<1>13. ApartInv'
  <2>1. ASSUME NEW m \in 1..k, NEW n \in 1..k, m # extended, n # extended, m < n
        PROVE  Apart(m, n)' \/ InHole(m, n)'
    <3>1. /\ m \in Indices /\ n \in Indices /\ m # k /\ parts'[m] = parts[m] /\ m \in Settled
      BY <1>1, <1>6, <1>7, <2>1
    <3>2. CASE n # k
      <4>1. parts'[n] = parts[n] /\ n \in Settled
        BY <1>1, <1>6, <1>7, <2>1, <3>2
      <4>2. Apart(m, n) \/ InHole(m, n)
        BY <1>0, <2>1, <3>1, <4>1 DEF ApartInv
      <4> QED
        BY <3>1, <4>1, <4>2 DEF Apart, InHole, Disjoint, From, End, HoleCovers, HasImage
    <3>3. CASE n = k
      <4> DEFINE q == parts[m]
      <4>1. q.offset \in Int /\ End(q) \in Int /\ q.logical \in BOOLEAN /\ End(q) <= now
        BY <1>0, <1>2, <2>1, <3>1 DEF EndInv
      <4>2. CASE p.logical
        <5>1. p.offset - align >= now
          BY <1>1, <1>3, <1>4, <4>2 DEF Accepted
        <5>2. Disjoint(From(q), End(q), p.offset - align, End(p))
          BY <1>1, <1>4, <4>1, <5>1 DEF Disjoint
        <5> QED
          BY <1>6, <3>1, <3>3, <4>2, <5>2 DEF Apart, Disjoint, From, End
      <4>3. CASE ~p.logical
        <5>1. \A i \in 1..(k - 1) : ~Overlaps(p, parts[i])
          BY <4>3 DEF Accepted
        <5>2. CASE q.logical
          <6> DEFINE e == parts[extended]
          <6>1. extended # 0 /\ extended < m /\ q.intable
            BY <1>0, <1>7, <2>1, <3>1, <5>2 DEF ListInv, PartsInv, PartInv
          <6>2. extended \in Settled /\ extended \in 1..(k - 1) /\ extended \in Indices
            BY <1>1, <1>7, <2>1, <6>1
          <6>3. e.offset <= q.offset - align /\ End(q) <= End(e)
            BY <1>0, <2>1, <3>1, <5>2, <6>1, <6>2 DEF CoverInv, Covers
          <6>4. ~HasImage(e)
            BY <1>0, <1>7, <6>1 DEF ExtendedInv, HasImage
          <6>5. p.offset >= End(e) \/ e.offset >= End(p)
            BY <1>2, <1>4, <5>1, <6>2, <6>4 DEF Overlaps, HoleCovers
          <6>6. e.offset \in Int /\ End(e) \in Int
            BY <1>2, <6>2
          <6>7. Disjoint(q.offset - align, End(q), p.offset, End(p))
            BY SMTT(30), <1>1, <1>4, <4>1, <6>3, <6>5, <6>6 DEF Disjoint
          <6> QED
            BY <1>6, <3>1, <3>3, <4>3, <5>2, <6>7 DEF Apart, Disjoint, From, End
        <5>3. CASE ~q.logical
          <6>1. ~Overlaps(p, q)
            BY <1>1, <2>1, <3>3, <5>1
          <6>2. CASE ~HoleCovers(q, MaxOf(p.offset, q.offset) - q.offset, MinOf(End(p), End(q)) - q.offset)
            <7>1. Disjoint(q.offset, End(q), p.offset, End(p))
              BY <1>4, <4>1, <6>1, <6>2 DEF Overlaps, Disjoint
            <7> QED
              BY <1>6, <3>1, <3>3, <4>3, <5>3, <7>1 DEF Apart, Disjoint, From, End
          <6>3. CASE HoleCovers(q, MaxOf(p.offset, q.offset) - q.offset, MinOf(End(p), End(q)) - q.offset)
            <7>1. parts'[n] = p /\ parts'[m] = q
              BY <1>6, <3>1, <3>3
            <7> QED
              BY <4>3, <5>3, <6>3, <7>1 DEF InHole, HoleCovers, HasImage, End
          <6> QED
            BY <6>2, <6>3
        <5> QED
          BY <4>1, <5>2, <5>3
      <4> QED
        BY <4>2, <4>3
    <3> QED
      BY <3>2, <3>3
  <2> QED
    BY <1>7, <2>1 DEF ApartInv
<1> QED
  BY <1>8, <1>9, <1>10, <1>12, <1>13 DEF DiskInv

LEMMA DiskPlace ==
    ASSUME IInv, DiskInv, PlacePart
    PROVE  DiskInv'
<1>1. CASE Error("partition cannot be placed")
  BY <1>1, DiskStop DEF Error
<1>2. CASE ~Error("partition cannot be placed")
  <2>1. PICK p : p = Placed(parts[k])
    OBVIOUS
  <2>2. /\ Accepted(p) /\ PartsWith(p) /\ now' = Advance(p) /\ k' = k + 1
        /\ pc = "place" /\ k <= Len(parts)
        /\ UNCHANGED <<conf, pc, ret, align, extended, size, writes>>
    BY <1>2, <2>1 DEF PlacePart, PartsWith
  <2> QED
    BY <2>1, <2>2, DiskPlaceOk
<1> QED
  BY <1>1, <1>2

LEMMA DiskLogical ==
    ASSUME IInv, DiskInv, HolesFromStart, SetupLogical
    PROVE  DiskInv'
<1>1. CASE pc' = "end"
  BY <1>1, DiskStop DEF SetupLogical, Error
<1>2. CASE pc' # "end"
  <2>1. pc = "logical" /\ pc' = "fakes" /\ UNCHANGED <<conf, align, writes>>
    BY <1>2 DEF SetupLogical, Error, setupVars
  <2>2. ~SetupDone' /\ Settled' = {} /\ writes = <<>>
    BY <2>1 DEF SetupDone, Settled, DiskInv, WritesInv, Early
  <2>3. \A m \in Indices' \ {extended'} : Sourced(parts'[m])
    BY <1>2, LogicalStep
  <2>4. ASSUME NEW p, Sourced(p) PROVE PartInv(p)
    <3>1. PICK n \in DOMAIN conf.parts :
             /\ p.size = conf.parts[n].size
             /\ p.holes = conf.parts[n].holes /\ p.imageoffset = conf.parts[n].imageoffset
      BY <2>4 DEF Sourced
    <3>2. conf.parts[n] \in PartConf
      <4>1. conf.parts \in Seq(PartConf)
        BY ConfType DEF IInv, TypeInv
      <4> QED
        BY <4>1
    <3>3. conf.parts[n].size >= 0
      BY <3>2 DEF PartConf
    <3>4. conf.parts[n].holes # {} => conf.parts[n].imageoffset = 0
      BY DEF HolesFromStart, DiskInv
    <3> QED
      BY <2>4, <3>1, <3>3, <3>4 DEF PartInv, Sourced
  <2>5. PartsInv'
    BY <2>3, <2>4 DEF PartsInv, PartInv
  <2>6. AlignInv'
    BY <2>1 DEF DiskInv, AlignInv
  <2>7. AreasInv' /\ ApartInv'
    BY <2>1, <2>2 DEF AreasInv, ApartInv
  <2>8. WritesInv' /\ OverwritesOnlyHoles'
    BY <2>1, <2>2 DEF DiskInv, WritesInv, OverwritesOnlyHoles, Early
  <2> QED
    BY <2>1, <2>5, <2>6, <2>7, <2>8 DEF DiskInv
<1> QED
  BY <1>1, <1>2

LEMMA DiskFakes ==
    ASSUME IInv, DiskInv, SetupFakes
    PROVE  DiskInv'
<1>1. pc = "fakes" /\ pc' = "place" /\ k = 1 /\ UNCHANGED <<conf, align, extended, k, writes>>
  BY DEF SetupFakes, IInv, TypeInv
<1>2. ~SetupDone' /\ Laid /\ Settled' = {} /\ writes = <<>>
  BY <1>1 DEF SetupDone, Laid, Settled, DiskInv, WritesInv
<1>3. AreasInv' /\ \A m \in Indices' \ Indices : PartInv(parts'[m])
  BY FakesStep
<1>4. \A m \in Indices : parts'[m] = parts[m]
  <2>1. PICK fakes : parts' = parts \o fakes
    BY DEF SetupFakes
  <2>2. parts \in Seq(AnyPart) /\ Len(parts) \in Nat
    BY DEF IInv, TypeInv
  <2> QED
    BY <2>1, <2>2 DEF Indices
<1>5. PartsInv'
  BY <1>1, <1>2, <1>3, <1>4 DEF DiskInv, PartsInv, PartInv
<1>6. AlignInv' /\ ApartInv'
  BY <1>1, <1>2 DEF DiskInv, AlignInv, ApartInv
<1>7. WritesInv' /\ OverwritesOnlyHoles'
  BY <1>1, <1>2 DEF DiskInv, WritesInv, OverwritesOnlyHoles, Early
<1> QED
  BY <1>1, <1>3, <1>5, <1>6, <1>7 DEF DiskInv

\* A layout that is accepted has the backup at the end of the image.
LEMMA AreasFinish ==
    ASSUME IInv, AreasInv, SetupFinish, pc' # "end"
    PROVE  AreasInv'
<1>1. /\ pc = "place" /\ k > Len(parts) /\ pc' = "prepare" /\ ret' = ret
      /\ UNCHANGED <<conf, align, parts, extended, now>>
      /\ size' = IF size = 0 THEN now ELSE size
      /\ ~(size > 0 /\ now > size)
  BY DEF SetupFinish, Error
<1>2. /\ k = Len(parts) + 1 /\ Len(parts) \in Nat /\ now \in Nat /\ size \in Nat
      /\ Indices = 1..Len(parts)
  <2>1. k <= Len(parts) + 1 /\ k \in Nat /\ parts \in Seq(AnyPart) /\ now \in Nat /\ size \in Nat
    BY <1>1 DEF IInv, TypeInv
  <2> QED
    BY <1>1, <2>1 DEF Indices
<1>3. /\ SetupDone' /\ ~SetupDone /\ Laid /\ Laid' /\ Settled = Indices /\ Settled' = Indices
      /\ Indices' = Indices
  BY <1>1, <1>2 DEF SetupDone, Laid, Settled, Indices
<1>4. /\ \A m, o, b : IsArea(m, o, b)' = IsArea(m, o, b)
      /\ GptLocation' = GptLocation /\ Gpt' = Gpt
  BY <1>1 DEF IsArea, IsTable, Indices, GptLocation, Gpt
<1>5. AreasInv'
  <2>1. CASE Gpt
    <3>0. size' > 0
      BY <1>1, <1>2, <1>3, <2>1 DEF Gpt, IInv, LayoutInv, ListInv
    <3>1. /\ IsArea(Len(parts) - 3, Sector - MbrTail, MbrTail)
          /\ IsArea(Len(parts) - 2, Sector, Sector)
          /\ IsArea(Len(parts) - 1, GptLocation, GptArray)
          /\ IsBackup(Len(parts), BackupOffset)
      BY <1>1, <1>3, <2>1 DEF AreasInv
    <3>2. now > 0 /\ conf.type # "mbr"
      BY <1>1, <1>3, <2>1 DEF Gpt, IInv, LayoutInv, ListInv
    <3>3. Len(parts) \in Settled /\ Len(parts)' \in Settled'
      <4>1. Len(parts) \in Indices
        BY <3>1 DEF IsBackup
      <4> QED
        BY <1>1, <1>3, <4>1
    <3>4. BackupOffset' = BackupOffset
      BY <1>1, <1>2, <3>2, <3>3 DEF BackupOffset, BackupSize
    <3>5. IsBackup(Len(parts), BackupOffset)'
      BY <1>1, <1>3, <3>1, <3>4 DEF IsBackup, BackupSize
    <3> QED
      BY <1>1, <1>3, <1>4, <3>0, <3>1, <3>2, <3>5 DEF AreasInv, Sector, MbrTail, GptArray
  <2>2. CASE ~Gpt
    BY <1>1, <1>3, <1>4, <2>2 DEF AreasInv, Sector, MbrTail
  <2> QED
    BY <2>1, <2>2
<1> QED
  BY <1>5

LEMMA DiskFinish ==
    ASSUME IInv, DiskInv, SetupFinish
    PROVE  DiskInv'
<1>1. CASE pc' = "end"
  BY <1>1, DiskStop DEF SetupFinish, Error
<1>2. CASE pc' # "end"
  <2>1. /\ pc = "place" /\ k > Len(parts) /\ pc' = "prepare" /\ ret' = ret
        /\ UNCHANGED <<conf, align, parts, extended, now, writes>>
        /\ size' = IF size = 0 THEN now ELSE size
        /\ ~(size > 0 /\ now > size)
    BY <1>2 DEF SetupFinish, Error
  <2>2. /\ k = Len(parts) + 1 /\ Len(parts) \in Nat /\ now \in Nat /\ size \in Nat
        /\ Indices = 1..Len(parts)
    <3>1. k <= Len(parts) + 1 /\ k \in Nat /\ parts \in Seq(AnyPart) /\ now \in Nat /\ size \in Nat
      BY <2>1 DEF IInv, TypeInv
    <3> QED
      BY <2>1, <3>1 DEF Indices
  <2>3. /\ SetupDone' /\ ~SetupDone /\ Laid /\ Laid' /\ Settled = Indices /\ Settled' = Indices
        /\ Indices' = Indices
    BY <2>1, <2>2 DEF SetupDone, Laid, Settled, Indices
  <2>4. \A m, n : Apart(m, n)' = Apart(m, n) /\ InHole(m, n)' = InHole(m, n)
    BY <2>1 DEF Apart, InHole, Disjoint, From, End, HoleCovers, HasImage
  <2>5. PartsInv' /\ AlignInv' /\ ApartInv'
    BY <2>1, <2>3, <2>4 DEF DiskInv, PartsInv, AlignInv, ApartInv, PartInv
  <2>6. AreasInv'
    BY <1>2, AreasFinish DEF DiskInv
  <2>7. WritesInv' /\ OverwritesOnlyHoles'
    <3>1. writes = <<>>
      BY <2>1 DEF DiskInv, WritesInv
    <3> QED
      BY <2>1, <3>1 DEF DiskInv, WritesInv, OverwritesOnlyHoles, Early
  <2> QED
    BY <2>1, <2>5, <2>6, <2>7 DEF DiskInv
<1> QED
  BY <1>1, <1>2

(* What is written for a later partition, or for an area of the table.      *)
LEMMA LaterHarmless ==
    ASSUME IInv, DiskInv, SetupDone, NEW m \in Indices, NEW n \in Indices,
           m # extended, n # extended, m < n,
           NEW a \in Extents, NEW b \in Extents, WrittenFor(a, m), Within(b, n)
    PROVE  Harmless(a, b)
<1>1. /\ parts \in Seq(AnyPart) /\ align \in Nat /\ Settled = Indices /\ Laid
      /\ PartInv(parts[m])
  <2>1. Settled = Indices /\ Laid
    BY DEF SetupDone, Settled, Laid
  <2> QED
    BY <2>1 DEF IInv, TypeInv, DiskInv, PartsInv
<1>2. Within(a, m)
  BY <1>1, WrittenWithin
<1>3. Apart(m, n) \/ InHole(m, n)
  BY <1>1 DEF DiskInv, ApartInv
<1>4. CASE Apart(m, n)
  BY <1>1, <1>2, <1>4, WithinApart
<1>5. CASE InHole(m, n)
  BY <1>1, <1>5, WithinHole
<1> QED
  BY <1>3, <1>4, <1>5

LEMMA DiskWrite ==
    ASSUME IInv, DiskInv, WriteData
    PROVE  DiskInv'
<1> DEFINE p == parts[k]
           x == Extent(p.offset - align + 446, 66, 0)
           bytes == p.data - p.imageoffset
           y == Extent(p.offset, IF p.fill THEN p.size ELSE bytes, k)
<1>1. /\ pc = "data" /\ k <= Len(parts)
      /\ UNCHANGED <<conf, align, parts, extended, now, size>>
      /\ \/ pc' = "data" /\ k' = k + 1
         \/ pc' = "end" /\ ret' # "ok"
      /\ \/ writes' = writes \o Ebr(p)
         \/ /\ HasImage(p) /\ bytes \in 0..p.size
            /\ writes' = writes \o Append(Ebr(p), y)
  BY ZenonT(60) DEF WriteData, Write, setupVars
<1>2. /\ k \in Indices /\ p \in AnyPart /\ align \in Nat /\ SetupDone /\ Laid
      /\ Indices = 1..Len(parts) /\ Len(parts) \in Nat /\ k \in Nat \ {0} /\ parts \in Seq(AnyPart)
      /\ writes \in Seq(Extents)
  BY <1>1 DEF IInv, TypeInv, SetupDone, Laid, Indices, DiskInv, WritesInv, Extents
<1>3. /\ p.offset \in Int /\ p.size \in Int /\ p.logical \in BOOLEAN /\ p.fill \in BOOLEAN
      /\ bytes \in Int /\ End(p) = p.offset + p.size
  <2>1. ASSUME NEW q \in AnyPart
        PROVE  /\ q.offset \in Int /\ q.size \in Int /\ q.logical \in BOOLEAN /\ q.fill \in BOOLEAN
               /\ q.data \in Int /\ q.imageoffset \in Int
    BY DEF AnyPart
  <2>2. /\ p.offset \in Int /\ p.size \in Int /\ p.logical \in BOOLEAN /\ p.fill \in BOOLEAN
        /\ p.data \in Int /\ p.imageoffset \in Int
    BY <1>2, <2>1
  <2> QED
    BY <2>2 DEF End
<1>4. p.logical => align >= 512 /\ k # extended
  <2>1. p.logical => extended # 0 /\ extended < k
    BY <1>2 DEF IInv, LayoutInv, ListInv
  <2>2. extended # 0 => conf.type = "mbr"
    BY <1>2 DEF IInv, LayoutInv, ExtendedInv
  <2>3. conf.type = "mbr" => align >= 512
    BY <1>1 DEF DiskInv, AlignInv, Sector
  <2> QED
    BY <1>2, <2>1, <2>2, <2>3
<1>5. HasImage(p) => k # extended
  BY <1>2 DEF IInv, LayoutInv, ExtendedInv, HasImage
<1>6. p.logical => x \in Extents /\ WrittenFor(x, k) /\ x.hi <= p.offset
  BY <1>2, <1>3, <1>4 DEF Extent, Extents, WrittenFor, From
<1>7. HasImage(p) /\ bytes \in 0..p.size => y \in Extents /\ WrittenFor(y, k) /\ y.lo = p.offset
  BY <1>2, <1>3 DEF Extent, Extents, WrittenFor
<1>8. p.logical /\ HasImage(p) /\ bytes \in 0..p.size => Harmless(x, y)
  BY <1>6, <1>7 DEF Harmless, Disjoint
<1> HIDE DEF x, y, bytes
<1>9. PICK ws \in Seq(Extents) :
        /\ writes' = writes \o ws
        /\ \A j \in DOMAIN ws : k # extended /\ WrittenFor(ws[j], k)
        /\ \A i, j \in DOMAIN ws : i < j => Harmless(ws[i], ws[j])
  <2>1. CASE p.logical /\ writes' = writes \o Ebr(p)
    <3>1. Ebr(p) = <<x>>
      BY <2>1 DEF Ebr, x
    <3> DEFINE ws == <<x>>
    <3>2. ws \in Seq(Extents) /\ DOMAIN ws = {1} /\ ws[1] = x
      BY <1>6, <2>1
    <3>3. writes' = writes \o ws
      BY <2>1, <3>1
    <3> HIDE DEF ws
    <3>4. \A j \in DOMAIN ws : k # extended /\ WrittenFor(ws[j], k)
      BY <1>4, <1>6, <2>1, <3>2
    <3>5. \A i, j \in DOMAIN ws : ~(i < j)
      BY <3>2
    <3> QED
      BY <3>2, <3>3, <3>4, <3>5
  <2>2. CASE ~p.logical /\ writes' = writes \o Ebr(p)
    <3>1. writes' = writes \o <<>> /\ <<>> \in Seq(Extents) /\ DOMAIN <<>> = {}
      BY <2>2 DEF Ebr
    <3> QED
      BY <3>1
  <2>3. CASE p.logical /\ HasImage(p) /\ bytes \in 0..p.size /\ writes' = writes \o Append(Ebr(p), y)
    <3> DEFINE one == <<x>>
               ws == Append(one, y)
    <3>1. Ebr(p) = one
      BY <2>3 DEF Ebr, x
    <3>2. ws \in Seq(Extents) /\ DOMAIN ws = 1..2 /\ ws[1] = x /\ ws[2] = y
      <4>1. one \in Seq(Extents) /\ Len(one) = 1 /\ one[1] = x /\ y \in Extents
        BY <1>6, <1>7, <2>3
      <4> HIDE DEF one
      <4>2. /\ ws \in Seq(Extents) /\ Len(ws) = Len(one) + 1
            /\ \A i \in 1..Len(one) : ws[i] = one[i]
            /\ ws[Len(one) + 1] = y
        BY ZenonT(90), <4>1, AppendProperties
      <4> HIDE DEF ws
      <4> QED
        BY <4>1, <4>2
    <3>3. writes' = writes \o ws
      BY <2>3, <3>1
    <3> HIDE DEF ws, one
    <3>4. \A j \in DOMAIN ws : k # extended /\ WrittenFor(ws[j], k)
      BY <1>4, <1>6, <1>7, <2>3, <3>2
    <3>5. \A i, j \in DOMAIN ws : i < j => Harmless(ws[i], ws[j])
      BY <1>8, <2>3, <3>2
    <3> QED
      BY <3>2, <3>3, <3>4, <3>5
  <2>4. CASE ~p.logical /\ HasImage(p) /\ bytes \in 0..p.size /\ writes' = writes \o Append(Ebr(p), y)
    <3> DEFINE ws == <<y>>
    <3>1. Append(Ebr(p), y) = ws
      <4>1. Ebr(p) = <<>>
        BY <2>4 DEF Ebr
      <4> QED
        BY <4>1
    <3>2. ws \in Seq(Extents) /\ DOMAIN ws = {1} /\ ws[1] = y
      BY <1>7, <2>4
    <3>3. writes' = writes \o ws
      BY <2>4, <3>1
    <3> HIDE DEF ws
    <3>4. \A j \in DOMAIN ws : k # extended /\ WrittenFor(ws[j], k)
      BY <1>5, <1>7, <2>4, <3>2
    <3>5. \A i, j \in DOMAIN ws : ~(i < j)
      BY <3>2
    <3> QED
      BY <3>2, <3>3, <3>4, <3>5
  <2> QED
    BY <1>1, <1>3, <2>1, <2>2, <2>3, <2>4 DEF y, bytes
<1>10. \A i \in DOMAIN writes : \E j \in Indices : j < k /\ j # extended /\ WrittenFor(writes[i], j)
  BY <1>1 DEF DiskInv, WritesInv
<1>11. ASSUME NEW i \in DOMAIN writes, NEW j \in DOMAIN ws PROVE Harmless(writes[i], ws[j])
  <2>1. PICK m \in Indices : m < k /\ m # extended /\ WrittenFor(writes[i], m)
    BY <1>10
  <2>2. ws[j] \in Extents /\ writes[i] \in Extents /\ k # extended /\ WrittenFor(ws[j], k)
    BY <1>2, <1>9
  <2>3. Within(ws[j], k)
    <3>1. PartInv(parts[k])
      BY <1>2, <2>2 DEF DiskInv, PartsInv
    <3> QED
      BY <1>2, <2>2, <3>1, WrittenWithin
  <2> QED
    BY <1>2, <2>1, <2>2, <2>3, LaterHarmless
<1>12. /\ OverwritesOnlyHoles' /\ writes' \in Seq(Extents)
       /\ \A i \in DOMAIN writes' :
             \/ i \in DOMAIN writes /\ writes'[i] = writes[i]
             \/ \E j \in DOMAIN ws : writes'[i] = ws[j]
  <2>1. OverwritesOnlyHoles /\ UNCHANGED parts
    BY <1>1 DEF DiskInv
  <2> QED
    BY <1>2, <1>9, <1>11, <2>1, AppendedWrites
<1>13. ASSUME NEW i \in DOMAIN writes'
       PROVE  \E j \in Indices : j < k + 1 /\ j # extended /\ WrittenFor(writes'[i], j)
  <2>1. CASE i \in DOMAIN writes /\ writes'[i] = writes[i]
    <3>1. PICK m \in Indices : m < k /\ m # extended /\ WrittenFor(writes[i], m)
      BY <1>10, <2>1
    <3>2. m < k + 1
      BY <1>2, <3>1
    <3> QED
      BY <2>1, <3>1, <3>2
  <2>2. CASE \E j \in DOMAIN ws : writes'[i] = ws[j]
    <3>1. k < k + 1
      BY <1>2
    <3> QED
      BY <1>2, <1>9, <2>2, <3>1
  <2> QED
    BY <1>12, <2>1, <2>2
<1>14. CASE pc' = "data" /\ k' = k + 1
  <2>1. Indices' = Indices /\ SetupDone'
    BY <1>1, <1>14 DEF Indices, SetupDone
  <2>2. WritesInv'
    BY <1>1, <1>12, <1>13, <1>14, <2>1
    DEF WritesInv, WrittenFor, Extents, Early, HasImage, From, End
  <2> QED
    BY <1>1, <1>2, <1>12, <2>1, <2>2, DiskStill DEF DiskInv
<1>15. CASE pc' = "end" /\ ret' # "ok"
  BY <1>1, <1>12, <1>15, DiskGone
<1> QED
  BY <1>1, <1>14, <1>15

\* The places of the table's areas in the list: they are its last ones.
Areas == IF Gpt THEN (Len(parts) - 3)..Len(parts)
         ELSE IF conf.type = "mbr" THEN {Len(parts)} ELSE {}

LEMMA AreasLast ==
    ASSUME IInv, DiskInv, SetupDone
    PROVE  /\ \A n \in Areas : /\ n \in Indices /\ n # extended
                              /\ parts[n].child = -1 /\ ~parts[n].logical
           /\ \A m \in Indices \ Areas, n \in Areas : m < n
           /\ \A m, n \in Areas : m < n => Apart(m, n)
<1>1. /\ Indices = 1..Len(parts) /\ Len(parts) \in Nat /\ Laid /\ pc # "fakes" /\ pc # "place"
      /\ Settled = Indices
  BY DEF IInv, TypeInv, Indices, SetupDone, Laid, Settled
<1>2. \A m \in Indices : IsTable(m) => parts[m].child = -1 /\ ~parts[m].logical
  BY <1>1 DEF IInv, LayoutInv, ListInv
<1>3. \A m \in Indices : IsTable(m) \/ parts[m].name = "backup" => m # extended
  <2>1. extended # 0 => parts[extended].name = "extended"
    BY <1>1 DEF IInv, LayoutInv, ExtendedInv
  <2> QED
    BY <1>1, <2>1 DEF IsTable
<1>4. ASSUME NEW n \in Areas
      PROVE  /\ n \in Indices /\ n # extended /\ parts[n].child = -1 /\ ~parts[n].logical
  <2>1. CASE Gpt
    <3>1. /\ IsArea(Len(parts) - 3, Sector - MbrTail, MbrTail)
          /\ IsArea(Len(parts) - 2, Sector, Sector)
          /\ IsArea(Len(parts) - 1, GptLocation, GptArray)
          /\ IsBackup(Len(parts), BackupOffset)
      BY <1>1, <2>1 DEF DiskInv, AreasInv
    <3>2. n \in {Len(parts) - 3, Len(parts) - 2, Len(parts) - 1, Len(parts)}
      BY <1>1, <2>1 DEF Areas
    <3>3. n \in Indices /\ (IsTable(n) \/ IsBackup(n, BackupOffset))
      BY <3>1, <3>2 DEF IsArea, IsBackup
    <3> QED
      BY <1>2, <1>3, <3>3 DEF IsBackup
  <2>2. CASE ~Gpt
    <3>1. conf.type = "mbr" /\ n = Len(parts)
      BY <2>2 DEF Areas
    <3>2. n \in Indices /\ IsTable(n)
      BY <1>1, <3>1 DEF DiskInv, AreasInv, IsArea
    <3> QED
      BY <1>2, <1>3, <3>2
  <2> QED
    BY <2>1, <2>2
<1>5. ASSUME NEW m \in Indices \ Areas, NEW n \in Areas PROVE m < n
  BY <1>1 DEF Areas
<1>6. ASSUME NEW m \in Areas, NEW n \in Areas, m < n PROVE Apart(m, n)
  <2>1. m \in Settled \ {extended} /\ n \in Settled \ {extended}
    BY <1>1, <1>4
  <2>2. Apart(m, n) \/ InHole(m, n)
    BY <1>6, <2>1 DEF DiskInv, ApartInv
  <2>3. ~InHole(m, n)
    BY <1>4 DEF InHole, HoleCovers, HasImage
  <2> QED
    BY <2>2, <2>3
<1> QED
  BY <1>4, <1>5, <1>6

LEMMA AreasHarmless ==
    ASSUME IInv, DiskInv, SetupDone, NEW m \in Areas, NEW n \in Areas, m # n,
           NEW a \in Extents, NEW b \in Extents, Within(a, m), Within(b, n)
    PROVE  Harmless(a, b)
<1>1. parts \in Seq(AnyPart) /\ align \in Nat /\ m \in Indices /\ n \in Indices /\ Indices = 1..Len(parts)
      /\ Len(parts) \in Nat
  BY AreasLast DEF IInv, TypeInv, Indices
<1>2. m < n \/ n < m
  BY <1>1
<1>3. Apart(m, n) \/ Apart(n, m)
  BY <1>2, AreasLast
<1> QED
  BY <1>1, <1>3, WithinApart

\* Each write of the table stays in an area of its own, but the backup takes
\* two, which are apart.
LEMMA TableHarmless ==
    ASSUME IInv, DiskInv, SetupDone
    PROVE  /\ TableWrites \in Seq(Extents)
           /\ \A j \in DOMAIN TableWrites : \E n \in Areas : Within(TableWrites[j], n)
           /\ \A i, j \in DOMAIN TableWrites : i < j => Harmless(TableWrites[i], TableWrites[j])
<1> DEFINE w1 == Extent(Sector, GptHeader, 0)
           w2 == Extent(GptLocation, GptArray, 0)
           w3 == Extent(size - BackupSize, GptArray, 0)
           w4 == Extent(size - Sector, GptHeader, 0)
           w5 == Extent(Sector - MbrTail, MbrTail, 0)
           l == Len(parts)
<1>0. /\ l \in Nat /\ Laid /\ pc # "fakes" /\ pc # "place" /\ size \in Nat /\ conf.gptloc \in Nat
      /\ conf.type \in {"none", "mbr", "gpt", "hybrid"}
  <2>1. conf.gptloc \in Nat /\ conf.type \in {"none", "mbr", "gpt", "hybrid"}
    BY DEF IInv, TypeInv, Conf
  <2> QED
    BY <2>1 DEF IInv, TypeInv, SetupDone, Laid
<1>1. /\ Sector = 512 /\ GptHeader = 92 /\ MbrTail = 72 /\ GptArray = 16384 /\ BackupSize = 16896
      /\ GptLocation \in Int
  BY <1>0 DEF Sector, GptHeader, MbrTail, GptArray, BackupSize, GptSectors, GptLocation
<1>2. ASSUME NEW lo \in Int, NEW b \in Int
      PROVE  /\ Extent(lo, b, 0) \in Extents /\ Extent(lo, b, 0).lo = lo
             /\ Extent(lo, b, 0).hi = lo + b
  BY DEF Extent, Extents
<1>3. /\ w1 \in Extents /\ w1.lo = 512 /\ w1.hi = 604
      /\ w2 \in Extents /\ w2.lo = GptLocation /\ w2.hi = GptLocation + 16384
      /\ w3 \in Extents /\ w3.lo = size - 16896 /\ w3.hi = size - 512
      /\ w4 \in Extents /\ w4.lo = size - 512 /\ w4.hi = size - 512 + 92
      /\ w5 \in Extents /\ w5.lo = 440 /\ w5.hi = 512
  <2>1. w1 \in Extents /\ w1.lo = 512 /\ w1.hi = 604
    <3>1. Sector \in Int /\ GptHeader \in Int
      BY <1>1
    <3>2. w1 \in Extents /\ w1.lo = Sector /\ w1.hi = Sector + GptHeader
      BY <1>2, <3>1
    <3> QED
      BY <1>1, <3>2
  <2>2. w2 \in Extents /\ w2.lo = GptLocation /\ w2.hi = GptLocation + 16384
    BY <1>1, <1>2
  <2>3. w3 \in Extents /\ w3.lo = size - 16896 /\ w3.hi = size - 512
    <3>1. size - BackupSize \in Int /\ GptArray \in Int
      BY <1>0, <1>1
    <3>2. w3 \in Extents /\ w3.lo = size - BackupSize /\ w3.hi = size - BackupSize + GptArray
      BY <1>2, <3>1
    <3> QED
      BY <1>0, <1>1, <3>2
  <2>4. w4 \in Extents /\ w4.lo = size - 512 /\ w4.hi = size - 512 + 92
    <3>1. size - Sector \in Int /\ GptHeader \in Int
      BY <1>0, <1>1
    <3>2. w4 \in Extents /\ w4.lo = size - Sector /\ w4.hi = size - Sector + GptHeader
      BY <1>2, <3>1
    <3> QED
      BY <1>0, <1>1, <3>2
  <2>5. w5 \in Extents /\ w5.lo = 440 /\ w5.hi = 512
    <3>1. Sector - MbrTail \in Int /\ MbrTail \in Int
      BY <1>1
    <3>2. w5 \in Extents /\ w5.lo = Sector - MbrTail /\ w5.hi = Sector - MbrTail + MbrTail
      BY <1>2, <3>1
    <3> QED
      BY <1>1, <3>2
  <2> QED
    BY <2>1, <2>2, <2>3, <2>4, <2>5
<1> HIDE DEF w1, w2, w3, w4, w5
<1>4. ASSUME NEW m, NEW o, NEW b, NEW w, m \in Areas, parts[m].offset = o, parts[m].size = b,
             o <= w.lo, w.hi <= o + b
      PROVE  Within(w, m)
  BY <1>4, AreasLast DEF Within, From, End
<1>5. CASE conf.type = "none"
  <2>1. TableWrites = <<>>
    BY <1>5 DEF TableWrites, Gpt
  <2> QED
    BY <2>1
<1>6. CASE conf.type = "mbr"
  <2> DEFINE ws == <<w5>>
  <2>1. TableWrites = ws
    BY <1>6 DEF TableWrites, Gpt, w5
  <2>2. l \in Areas /\ parts[l].offset = 440 /\ parts[l].size = 72
    BY <1>0, <1>1, <1>6 DEF DiskInv, AreasInv, IsArea, Areas, Gpt
  <2>3. Within(w5, l)
    BY <1>3, <1>4, <2>2
  <2>4. ws \in Seq(Extents) /\ DOMAIN ws = {1} /\ ws[1] = w5
    BY <1>3
  <2> HIDE DEF ws
  <2>5. \A i, j \in DOMAIN ws : ~(i < j)
    BY <2>4
  <2> QED
    BY <2>1, <2>2, <2>3, <2>4, <2>5
<1>7. CASE Gpt
  <2>1. /\ IsArea(l - 3, Sector - MbrTail, MbrTail)
        /\ IsArea(l - 2, Sector, Sector)
        /\ IsArea(l - 1, GptLocation, GptArray)
        /\ IsBackup(l, BackupOffset) /\ size > 0
    BY <1>0, <1>7 DEF DiskInv, AreasInv
  <2>2. BackupOffset = size - BackupSize
    <3>1. l \in Settled
      BY <1>0, <2>1 DEF IsBackup, Settled
    <3> QED
      BY <1>0, <2>1, <3>1 DEF BackupOffset
  <2>3. l - 3 \in Areas /\ l - 2 \in Areas /\ l - 1 \in Areas /\ l \in Areas
    BY <1>0, <1>7 DEF Areas
  <2>4. /\ Within(w1, l - 2) /\ Within(w2, l - 1) /\ Within(w5, l - 3)
        /\ Within(w3, l) /\ Within(w4, l)
    <3>1. /\ parts[l - 3].offset = 440 /\ parts[l - 3].size = 72
          /\ parts[l - 2].offset = 512 /\ parts[l - 2].size = 512
          /\ parts[l - 1].offset = GptLocation /\ parts[l - 1].size = 16384
          /\ parts[l].offset = size - 16896 /\ parts[l].size = 16896
      BY <1>1, <2>1, <2>2 DEF IsArea, IsBackup
    <3>2. Within(w1, l - 2)
      BY <1>3, <1>4, <2>3, <3>1
    <3>3. Within(w2, l - 1)
      BY <1>1, <1>3, <1>4, <2>3, <3>1
    <3>4. Within(w5, l - 3)
      BY <1>3, <1>4, <2>3, <3>1
    <3>5. Within(w3, l)
      BY SMTT(30), <1>0, <1>3, <1>4, <2>3, <3>1
    <3>6. Within(w4, l)
      BY SMTT(30), <1>0, <1>3, <1>4, <2>3, <3>1
    <3> QED
      BY <3>2, <3>3, <3>4, <3>5, <3>6
  <2>5. /\ l - 3 # l - 2 /\ l - 3 # l - 1 /\ l - 3 # l /\ l - 2 # l - 1 /\ l - 2 # l /\ l - 1 # l
    BY <1>0
  <2> HIDE DEF l
  <2>6. /\ Harmless(w1, w2) /\ Harmless(w1, w3) /\ Harmless(w1, w4) /\ Harmless(w1, w5)
    BY <1>3, <2>3, <2>4, <2>5, AreasHarmless
  <2>7. /\ Harmless(w2, w3) /\ Harmless(w2, w4) /\ Harmless(w2, w5)
    BY <1>3, <2>3, <2>4, <2>5, AreasHarmless
  <2>8. /\ Harmless(w3, w5) /\ Harmless(w4, w5)
    BY <1>3, <2>3, <2>4, <2>5, AreasHarmless
  <2>9. Harmless(w3, w4)
    BY <1>0, <1>3 DEF Harmless, Disjoint
  <2>10. conf.type # "none" /\ conf.type # "mbr"
    BY <1>7 DEF Gpt
  <2>11. CASE conf.nobackup
    <3> DEFINE ws == <<w1, w2>> \o <<>> \o <<w5>>
    <3>1. TableWrites = ws
      BY <1>7, <2>10, <2>11 DEF TableWrites, w1, w2, w5
    <3>2. ws \in Seq(Extents) /\ DOMAIN ws = 1..3 /\ ws[1] = w1 /\ ws[2] = w2 /\ ws[3] = w5
      BY <1>3
    <3> HIDE DEF ws
    <3>3. \A j \in DOMAIN ws : \E n \in Areas : Within(ws[j], n)
      BY <2>3, <2>4, <3>2
    <3>4. \A i, j \in DOMAIN ws : i < j => Harmless(ws[i], ws[j])
      BY <2>6, <2>7, <3>2
    <3> QED
      BY <3>1, <3>2, <3>3, <3>4
  <2>12. CASE ~conf.nobackup
    <3> DEFINE ws == <<w1, w2>> \o <<w3, w4>> \o <<w5>>
    <3>1. TableWrites = ws
      BY <1>7, <2>10, <2>12 DEF TableWrites, w1, w2, w3, w4, w5
    <3>2. /\ ws \in Seq(Extents) /\ DOMAIN ws = 1..5
          /\ ws[1] = w1 /\ ws[2] = w2 /\ ws[3] = w3 /\ ws[4] = w4 /\ ws[5] = w5
      BY <1>3
    <3> HIDE DEF ws
    <3>3. \A j \in DOMAIN ws : \E n \in Areas : Within(ws[j], n)
      BY <2>3, <2>4, <3>2
    <3>4. \A i, j \in DOMAIN ws : i < j => Harmless(ws[i], ws[j])
      BY <2>6, <2>7, <2>8, <2>9, <3>2
    <3> QED
      BY <3>1, <3>2, <3>3, <3>4
  <2> QED
    BY <2>11, <2>12
<1> QED
  BY <1>0, <1>5, <1>6, <1>7 DEF Gpt

LEMMA DiskTable ==
    ASSUME IInv, DiskInv, WriteTable
    PROVE  DiskInv'
<1>1. CASE pc' = "end"
  BY <1>1, DiskStop DEF WriteTable, Error
<1>2. CASE pc' # "end"
  <2>1. /\ pc = "table" /\ pc' = "fill" /\ writes' = writes \o TableWrites
        /\ UNCHANGED <<conf, align, parts, extended, now, size>>
    BY <1>2 DEF WriteTable, Error, setupVars
  <2>2. /\ SetupDone /\ SetupDone' /\ writes \in Seq(Extents) /\ OverwritesOnlyHoles
        /\ \A i \in DOMAIN writes : \E j \in Indices : j # extended /\ WrittenFor(writes[i], j)
    BY <2>1 DEF SetupDone, DiskInv, WritesInv, Extents
  <2>3. PICK ws \in Seq(Extents) :
           /\ ws = TableWrites
           /\ \A j \in DOMAIN ws : \E n \in Areas : Within(ws[j], n)
           /\ \A i, j \in DOMAIN ws : i < j => Harmless(ws[i], ws[j])
    BY <2>2, TableHarmless
  <2>4. ASSUME NEW i \in DOMAIN writes, NEW j \in DOMAIN ws PROVE Harmless(writes[i], ws[j])
    <3>1. PICK m \in Indices : m # extended /\ WrittenFor(writes[i], m)
      BY <2>2
    <3>2. PICK n \in Areas : Within(ws[j], n)
      BY <2>3
    <3>3. m \notin Areas
      BY <2>2, <3>1, AreasLast DEF WrittenFor, HasImage
    <3>4. m < n /\ n \in Indices /\ n # extended
      BY <2>2, <3>1, <3>2, <3>3, AreasLast
    <3>5. writes[i] \in Extents /\ ws[j] \in Extents
      BY <2>2, <2>3
    <3> QED
      BY <2>2, <3>1, <3>2, <3>4, <3>5, LaterHarmless
  <2>5. OverwritesOnlyHoles' /\ writes' \in Seq(Extents)
    <3>1. writes' = writes \o ws /\ UNCHANGED parts
      BY <2>1, <2>3
    <3> QED
      BY <2>2, <2>3, <2>4, <3>1, AppendedWrites
  <2>6. WritesInv'
    BY <2>1, <2>5 DEF WritesInv, Extents, Early
  <2> QED
    BY <2>1, <2>2, <2>5, <2>6, DiskStill DEF DiskInv
<1> QED
  BY <1>1, <1>2

LEMMA DiskRest ==
    ASSUME IInv, DiskInv, Prepare \/ DataDone \/ Fill \/ CheckSize
    PROVE  DiskInv'
<1> DEFINE Gone == pc' = "end" /\ ret' # "ok" /\ UNCHANGED <<conf, setupVars, writes>>
           Going == /\ <<pc, pc'>> \in {<<"prepare", "data">>, <<"data", "table">>,
                                        <<"fill", "check">>, <<"check", "end">>}
                    /\ UNCHANGED <<conf, ret, align, parts, extended, k, now, size, writes>>
<1>1. Prepare => Going
  BY DEF Prepare, setupVars
<1>2. DataDone => Going
  BY DEF DataDone, setupVars
<1>3. Fill => Gone \/ Going
  BY DEF Fill, Error, setupVars
<1>4. CheckSize => Gone \/ Going
  BY DEF CheckSize, Error, setupVars
<1>5. CASE Gone
  BY <1>5, DiskStop
<1>6. CASE Going
  <2>1. /\ pc \in {"prepare", "data", "fill", "check"} /\ pc' \in {"data", "table", "check", "end"}
        /\ pc = "prepare" => pc' = "data"
        /\ pc = "data" => pc' = "table"
        /\ pc \in {"fill", "check"} => pc' \in {"check", "end"}
        /\ UNCHANGED <<conf, ret, align, parts, extended, k, now, size, writes>>
    BY <1>6
  <2> HIDE DEF Going
  <2>2. ret = "ok" /\ SetupDone /\ SetupDone'
    BY <2>1 DEF IInv, TypeInv, SetupDone
  <2>3. OverwritesOnlyHoles'
    BY <2>1 DEF DiskInv, OverwritesOnlyHoles
  <2>4. WritesInv'
    <3>1. /\ writes \in Seq(Extents) /\ Indices' = Indices
          /\ \A w, j : WrittenFor(w, j)' = WrittenFor(w, j)
      BY <2>1 DEF DiskInv, WritesInv, Extents, Indices, WrittenFor, HasImage, From, End
    <3>2. CASE pc = "prepare"
      <4>1. writes' = <<>> /\ DOMAIN <<>> = {}
        BY <2>1, <3>2 DEF DiskInv, WritesInv
      <4> QED
        BY <2>1, <3>1, <3>2, <4>1 DEF WritesInv, Extents, Early
    <3>3. CASE pc = "data"
      <4>1. \A i \in DOMAIN writes : \E j \in Indices : j < k /\ j # extended /\ WrittenFor(writes[i], j)
        BY <3>3 DEF DiskInv, WritesInv
      <4> QED
        BY <2>1, <3>1, <3>3, <4>1 DEF WritesInv, Extents, Early
    <3>4. CASE pc \in {"fill", "check"}
      BY <2>1, <3>1, <3>4 DEF WritesInv, Extents, Early
    <3> QED
      BY <2>1, <3>2, <3>3, <3>4
  <2>5. pc # "end"
    BY <2>1
  <2> QED
    BY <2>1, <2>2, <2>3, <2>4, <2>5, DiskStill DEF DiskInv
<1> QED
  BY <1>1, <1>2, <1>3, <1>4, <1>5, <1>6

LEMMA DiskNext == HolesFromStart /\ IInv /\ DiskInv /\ [Next]_vars => DiskInv'
<1> SUFFICES ASSUME HolesFromStart, IInv, DiskInv, [Next]_vars PROVE DiskInv'
  OBVIOUS
<1>1. CASE SetupAlign
  BY <1>1, DiskAlign
<1>2. CASE SetupLogical
  BY <1>2, DiskLogical
<1>3. CASE SetupFakes
  BY <1>3, DiskFakes
<1>4. CASE PlacePart
  BY <1>4, DiskPlace
<1>5. CASE SetupFinish
  BY <1>5, DiskFinish
<1>6. CASE WriteData
  BY <1>6, DiskWrite
<1>7. CASE WriteTable
  BY <1>7, DiskTable
<1>8. CASE Prepare \/ DataDone \/ Fill \/ CheckSize
  BY <1>8, DiskRest
<1>9. CASE UNCHANGED vars
  <2>1. UNCHANGED <<conf, pc, ret, align, parts, extended, k, now, size, writes>>
    BY <1>9 DEF vars, setupVars
  <2>2. /\ SetupDone' = SetupDone /\ Laid' = Laid /\ Settled' = Settled /\ Indices' = Indices
    BY <2>1 DEF SetupDone, Laid, Settled, Indices
  <2>3. /\ \A m, o, b : IsArea(m, o, b)' = IsArea(m, o, b)
        /\ \A m, o : IsBackup(m, o)' = IsBackup(m, o)
        /\ BackupOffset' = BackupOffset /\ GptLocation' = GptLocation /\ Gpt' = Gpt
        /\ \A m, n : Apart(m, n)' = Apart(m, n) /\ InHole(m, n)' = InHole(m, n)
        /\ \A w, j : WrittenFor(w, j)' = WrittenFor(w, j)
    BY <2>1, <2>2 DEF IsArea, IsTable, IsBackup, BackupOffset, GptLocation, Gpt, Apart, InHole,
       Disjoint, From, End, HoleCovers, HasImage, WrittenFor
  <2>4. PartsInv' /\ AlignInv' /\ ApartInv'
    BY <2>1, <2>2, <2>3 DEF DiskInv, PartsInv, PartInv, AlignInv, ApartInv
  <2>5. AreasInv'
    BY <2>1, <2>2, <2>3 DEF DiskInv, AreasInv
  <2>6. WritesInv'
    BY <2>1, <2>2, <2>3 DEF DiskInv, WritesInv
  <2>7. OverwritesOnlyHoles'
    BY <2>1 DEF DiskInv, OverwritesOnlyHoles
  <2> QED
    BY <2>1, <2>4, <2>5, <2>6, <2>7 DEF DiskInv
<1> QED
  BY <1>1, <1>2, <1>3, <1>4, <1>5, <1>6, <1>7, <1>8, <1>9 DEF Next

(* Nothing that hdimage_generate() writes destroys what it has written      *)
(* before, image data, boot records and table alike, except in the holes    *)
(* of an earlier image: what hdimage_setup() checks of the partitions is    *)
(* enough for everything that is written on their behalf.  Images with      *)
(* holes are written from their first byte on.                              *)
THEOREM OverwritesOnlyHolesHolds ==
    ASSUME HolesFromStart
    PROVE  Spec => []OverwritesOnlyHoles
<1>1. Init => IInv /\ DiskInv
  BY InitHolds, DiskInit
<1>2. IInv /\ DiskInv /\ [Next]_vars => IInv' /\ DiskInv'
  BY NextHolds, DiskNext
<1>3. DiskInv => OverwritesOnlyHoles
  BY DEF DiskInv
<1> QED
  BY <1>1, <1>2, <1>3, PTL DEF Spec

-----------------------------------------------------------------------------
(* The headers of a GPT.  A third invariant says that the backup begins     *)
(* elsewhere than the array and ends at the end of a sector, and that both  *)
(* have been written when the table has.                                    *)

WholeSectors ==
    \A c \in Configs : c.size % Sector = 0 /\ c.gptloc % Sector = 0

SizeInv ==
    /\ pc # "end" /\ ~SetupDone => size = conf.size
    /\ Gpt /\ Laid /\ pc # "fakes" /\ Len(parts) \in Settled =>
          /\ parts[Len(parts)].offset # GptLocation
          /\ IF SetupDone THEN size % Sector = 0 ELSE size = 0 => now % Sector = 0

TableInv ==
    Gpt =>
        /\ writes \in Seq(Extents)
        /\ pc \in {"fill", "check"} =>
              \A j \in DOMAIN TableWrites : \E n \in DOMAIN writes : writes[n] = TableWrites[j]

GptInv == conf \in Configs /\ AreasInv /\ SizeInv /\ TableInv

\* What is written for a GPT.
LEMMA GptWrites ==
    ASSUME TypeInv, Gpt
    PROVE  /\ TableWrites \in Seq(Extents)
           /\ \E j \in DOMAIN TableWrites : TableWrites[j] = Extent(Sector, GptHeader, 0)
           /\ \E j \in DOMAIN TableWrites : TableWrites[j] = Extent(GptLocation, GptArray, 0)
           /\ ~conf.nobackup =>
                 /\ \E j \in DOMAIN TableWrites : TableWrites[j] = Extent(size - BackupSize, GptArray, 0)
                 /\ \E j \in DOMAIN TableWrites : TableWrites[j] = Extent(size - Sector, GptHeader, 0)
<1> DEFINE w1 == Extent(Sector, GptHeader, 0)
           w2 == Extent(GptLocation, GptArray, 0)
           w3 == Extent(size - BackupSize, GptArray, 0)
           w4 == Extent(size - Sector, GptHeader, 0)
           w5 == Extent(Sector - MbrTail, MbrTail, 0)
<1>1. \A lo, bytes \in Int : Extent(lo, bytes, 0) \in Extents
  BY DEF Extent, Extents
<1>2. /\ Sector \in Int /\ GptHeader \in Int /\ GptArray \in Int /\ MbrTail \in Int
      /\ Sector - MbrTail \in Int
      /\ GptLocation \in Int /\ size - BackupSize \in Int /\ size - Sector \in Int
  <2>1. size \in Nat /\ GptLocation \in Nat
    BY ConfType DEF TypeInv, GptLocation, Sector
  <2>2. Sector = 512 /\ GptHeader = 92 /\ GptArray = 16384 /\ MbrTail = 72 /\ BackupSize = 16896
    BY DEF Sector, GptHeader, GptArray, MbrTail, BackupSize, GptSectors
  <2> QED
    BY <2>1, <2>2
<1>3. w1 \in Extents /\ w2 \in Extents /\ w3 \in Extents /\ w4 \in Extents /\ w5 \in Extents
  BY <1>1, <1>2
<1> HIDE DEF w1, w2, w3, w4, w5
<1>4. conf.type # "none" /\ conf.type # "mbr"
  BY DEF Gpt
<1>5. CASE conf.nobackup
  <2> DEFINE ws == <<w1, w2>> \o <<>> \o <<w5>>
  <2>1. TableWrites = ws
    BY <1>4, <1>5 DEF TableWrites, w1, w2, w3, w4, w5
  <2>2. ws \in Seq(Extents) /\ DOMAIN ws = 1..3 /\ ws[1] = w1 /\ ws[2] = w2
    BY <1>3
  <2> HIDE DEF ws
  <2>3. 1 \in DOMAIN ws /\ 2 \in DOMAIN ws
    BY <2>2
  <2> QED
    BY <1>5, <2>1, <2>2, <2>3 DEF w1, w2
<1>6. CASE ~conf.nobackup
  <2> DEFINE ws == <<w1, w2>> \o <<w3, w4>> \o <<w5>>
  <2>1. TableWrites = ws
    BY <1>4, <1>6 DEF TableWrites, w1, w2, w3, w4, w5
  <2>2. /\ ws \in Seq(Extents) /\ DOMAIN ws = 1..5
        /\ ws[1] = w1 /\ ws[2] = w2 /\ ws[3] = w3 /\ ws[4] = w4
    BY <1>3
  <2> HIDE DEF ws
  <2>3. 1 \in DOMAIN ws /\ 2 \in DOMAIN ws /\ 3 \in DOMAIN ws /\ 4 \in DOMAIN ws
    BY <2>2
  <2> QED
    BY <2>1, <2>2, <2>3 DEF w1, w2, w3, w4
<1> QED
  BY <1>5, <1>6

LEMMA GptInit == Init => GptInv
<1> SUFFICES ASSUME Init PROVE GptInv
  OBVIOUS
<1>1. ~SetupDone /\ ~Laid /\ Settled = {} /\ writes = <<>> /\ pc = "align" /\ size = conf.size
  BY DEF Init, SetupDone, Laid, Settled
<1>2. writes \in Seq(Extents)
  BY <1>1
<1> QED
  BY <1>1, <1>2 DEF Init, GptInv, AreasInv, SizeInv, TableInv

LEMMA GptGone ==
    ASSUME GptInv, pc' = "end", ret' # "ok", conf' = conf, Gpt => writes' \in Seq(Extents)
    PROVE  GptInv'
<1>1. ~SetupDone' /\ ~Laid'
  BY DEF SetupDone, Laid
<1>2. AreasInv' /\ SizeInv'
  BY <1>1 DEF AreasInv, SizeInv
<1>3. TableInv' /\ conf' \in Configs
  BY DEF GptInv, TableInv, Gpt, Extents
<1> QED
  BY <1>2, <1>3 DEF GptInv

LEMMA GptStop ==
    ASSUME GptInv, pc' = "end", ret' # "ok", UNCHANGED <<conf, setupVars, writes>>
    PROVE  GptInv'
<1>1. Gpt => writes' \in Seq(Extents)
  BY DEF GptInv, TableInv
<1> QED
  BY <1>1, GptGone

\* Before the areas are in the list.
LEMMA GptEarly ==
    ASSUME IInv, GptInv, SetupAlign \/ SetupLogical
    PROVE  GptInv'
<1>1. CASE pc' = "end"
  <2>1. ret' # "ok" /\ UNCHANGED <<conf, setupVars, writes>>
    BY <1>1 DEF SetupAlign, SetupLogical, Error
  <2> QED
    BY <1>1, <2>1, GptStop
<1>2. CASE pc' # "end"
  <2>1. /\ pc \in {"align", "logical"} /\ pc' \in {"logical", "fakes"}
        /\ UNCHANGED <<conf, size, writes>>
    BY <1>2 DEF SetupAlign, SetupLogical, Error, setupVars
  <2>2. ~SetupDone /\ ~SetupDone' /\ (~Laid' \/ pc' = "fakes")
    BY <2>1 DEF SetupDone, Laid
  <2>3. AreasInv' /\ SizeInv'
    BY <2>1, <2>2 DEF AreasInv, SizeInv, GptInv
  <2>4. TableInv'
    BY <2>1 DEF GptInv, TableInv, Gpt, Extents
  <2> QED
    BY <2>1, <2>3, <2>4 DEF GptInv
<1> QED
  BY <1>1, <1>2

LEMMA GptFakes ==
    ASSUME IInv, GptInv, SetupFakes
    PROVE  GptInv'
<1>1. pc = "fakes" /\ pc' = "place" /\ k' = 1 /\ UNCHANGED <<conf, size, writes>>
  BY DEF SetupFakes, IInv, TypeInv
<1>2. ~SetupDone /\ ~SetupDone' /\ Settled' = {}
  BY <1>1 DEF SetupDone, Settled
<1>3. AreasInv'
  BY FakesStep
<1>4. SizeInv'
  BY <1>1, <1>2 DEF GptInv, SizeInv
<1>5. TableInv'
  BY <1>1 DEF GptInv, TableInv, Gpt, Extents
<1> QED
  BY <1>1, <1>3, <1>4, <1>5 DEF GptInv

\* The backup is kept apart from the array, and its end is that of a sector.
LEMMA GptPlace ==
    ASSUME IInv, GptInv, PlacePart
    PROVE  GptInv'
<1>1. CASE Error("partition cannot be placed")
  BY <1>1, GptStop DEF Error
<1>2. CASE ~Error("partition cannot be placed")
  <2>1. PICK p : p = Placed(parts[k])
    OBVIOUS
  <2>2. /\ Accepted(p) /\ PartsWith(p) /\ now' = Advance(p) /\ k' = k + 1
        /\ pc = "place" /\ k <= Len(parts)
        /\ UNCHANGED <<conf, pc, ret, align, extended, size, writes>>
    BY <1>2, <2>1 DEF PlacePart, PartsWith
  <2>3. AreasInv /\ AreasInv'
    BY <2>1, <2>2, AreasPlace DEF GptInv
  <2>4. /\ Indices = 1..Len(parts) /\ k \in Indices /\ Len(parts) \in Nat /\ k \in Nat \ {0}
        /\ now \in Nat /\ Kept(p, parts[k])
        /\ parts[k].child = -1 /\ ~parts[k].autoresize => p.size = parts[k].size
        /\ p.offset \in Int /\ End(p) = p.offset + p.size
    BY <2>1, <2>2, PlaceChanges
  <2>5. /\ Len(parts') = Len(parts) /\ parts'[k] = p
        /\ ~SetupDone /\ ~SetupDone' /\ Laid /\ Settled = 1..(k - 1) /\ Settled' = 1..k
    BY <2>1, <2>2, PlaceChanges
  <2>6. ASSUME Gpt, Len(parts) \in Settled'
        PROVE  p.offset # GptLocation /\ (size = 0 => now' % Sector = 0) /\ k = Len(parts)
    <3>1. k = Len(parts)
      BY <2>2, <2>4, <2>5, <2>6
    <3>2. /\ parts[k].child = -1 /\ ~parts[k].logical /\ ~parts[k].autoresize
          /\ parts[k].size = BackupSize /\ BackupSize = 16896
      BY <2>2, <2>3, <2>6, <3>1 DEF AreasInv, IsBackup, Laid, BackupSize, GptSectors, Sector
    <3>3. p.size = 16896 /\ ~p.logical
      BY <2>4, <3>2 DEF Kept
    <3>4. PICK q : q = parts[k - 1]
      OBVIOUS
    <3>5. /\ k - 1 \in Indices /\ IsTable(k - 1) /\ q.offset = GptLocation /\ q.size = 16384
      BY <2>2, <2>3, <2>6, <3>1, <3>4 DEF AreasInv, IsArea, Laid, GptArray
    <3>6. ~HasImage(q)
      <4>1. q.child = -1
        BY <2>2, <2>5, <3>4, <3>5 DEF IInv, LayoutInv, ListInv
      <4> QED
        BY <4>1 DEF HasImage
    <3>7. ~(p.offset < End(q) /\ q.offset < End(p))
      <4>1. k - 1 \in 1..(k - 1)
        BY <2>4, <3>5
      <4>2. ~Overlaps(p, q)
        BY <2>2, <3>3, <3>4, <4>1 DEF Accepted
      <4> QED
        BY <3>6, <4>2 DEF Overlaps, HoleCovers
    <3>8. p.offset # GptLocation
      <4>1. End(q) = q.offset + 16384 /\ End(p) = p.offset + 16896
        BY <2>4, <3>3, <3>5 DEF End
      <4> QED
        BY <2>4, <3>5, <3>7, <4>1
    <3>9. ASSUME size = 0 PROVE now' % Sector = 0
      <4>1. Len(parts) \notin Settled
        BY <2>4, <2>5, <3>1
      <4>2. parts[k].offset = 0
        BY <2>2, <2>3, <2>6, <3>1, <3>9, <4>1 DEF AreasInv, IsBackup, BackupOffset, Laid
      <4>3. /\ now' = p.offset + 16896 /\ p.offset = RoundUp(now + 16896, 4096) - 16896
            /\ RoundUp(now + 16896, 4096) \in Int
        BY <2>1, <2>2, <2>3, <2>6, <3>1, <3>2, <4>2, BackupPlace
      <4>4. now' = RoundUp(now + 16896, 4096)
        BY <4>3
      <4>5. PICK v \in Nat : v = now + 16896 /\ v # 0
        BY <2>4
      <4>6. RoundUp(v, 4096) = ((v - 1) \div 4096 + 1) * 4096
        BY <4>5 DEF RoundUp
      <4>7. \A x \in Nat : (((x - 1) \div 4096 + 1) * 4096) % 512 = 0
        BY Z3
      <4>8. RoundUp(v, 4096) % 512 = 0
        BY <4>6, <4>7
      <4> QED
        BY <4>4, <4>5, <4>8 DEF Sector
    <3> QED
      BY <3>1, <3>8, <3>9
  <2>7. Gpt' = Gpt /\ GptLocation' = GptLocation
    BY <2>2 DEF Gpt, GptLocation, Sector
  <2>8. SizeInv'
    <3>1. size' = conf'.size
      BY <2>2, <2>5 DEF GptInv, SizeInv
    <3>2. ASSUME Gpt', Len(parts') \in Settled'
          PROVE  parts'[Len(parts')].offset # GptLocation' /\ (size' = 0 => now' % Sector = 0)
      BY <2>2, <2>5, <2>6, <2>7, <3>2
    <3> QED
      BY <2>5, <3>1, <3>2 DEF SizeInv, Sector
  <2>9. TableInv'
    BY <2>2 DEF GptInv, TableInv, Gpt, Extents
  <2> QED
    BY <2>2, <2>3, <2>8, <2>9 DEF GptInv
<1> QED
  BY <1>1, <1>2

\* The size of the image, given or found, is one of whole sectors.
LEMMA GptFinish ==
    ASSUME WholeSectors, IInv, GptInv, SetupFinish
    PROVE  GptInv'
<1>1. CASE pc' = "end"
  <2>1. ret' # "ok" /\ UNCHANGED <<conf, setupVars, writes>>
    BY <1>1 DEF SetupFinish, Error
  <2> QED
    BY <1>1, <2>1, GptStop
<1>2. CASE pc' # "end"
  <2>1. /\ pc = "place" /\ k > Len(parts) /\ pc' = "prepare"
        /\ UNCHANGED <<conf, parts, now, writes>>
        /\ size' = IF size = 0 THEN now ELSE size
    BY <1>2 DEF SetupFinish, Error
  <2>2. ~SetupDone /\ SetupDone' /\ Laid
    BY <2>1 DEF SetupDone, Laid
  <2>3. AreasInv /\ AreasInv'
    BY <1>2, AreasFinish DEF GptInv
  <2>4. ASSUME Gpt PROVE parts[Len(parts)].offset # GptLocation /\ size' % Sector = 0
    <3>1. Len(parts) \in Settled
      <4>1. Len(parts) \in Indices /\ parts \in Seq(AnyPart)
        BY <2>1, <2>2, <2>3, <2>4 DEF AreasInv, IsBackup, IInv, TypeInv
      <4>2. Len(parts) \in 1..Len(parts) /\ Len(parts) \in Nat
        BY <4>1 DEF Indices
      <4>3. k \in Nat /\ k > Len(parts)
        BY <2>1 DEF IInv, TypeInv
      <4>4. Len(parts) \in 1..(k - 1)
        BY <4>2, <4>3
      <4> QED
        BY <2>1, <4>4 DEF Settled
    <3>2. /\ parts[Len(parts)].offset # GptLocation
          /\ size = 0 => now % Sector = 0
          /\ size = conf.size
      BY <2>1, <2>2, <2>4, <3>1 DEF GptInv, SizeInv
    <3>3. conf.size % Sector = 0
      BY DEF WholeSectors, GptInv
    <3> QED
      BY <2>1, <3>2, <3>3
  <2>5. SizeInv'
    <3>1. Gpt' = Gpt /\ GptLocation' = GptLocation
      BY <2>1 DEF Gpt, GptLocation, Sector
    <3> QED
      BY <2>1, <2>2, <2>4, <3>1 DEF SizeInv, Sector
  <2>6. TableInv'
    BY <2>1 DEF GptInv, TableInv, Gpt, Extents
  <2> QED
    BY <2>1, <2>3, <2>5, <2>6 DEF GptInv
<1> QED
  BY <1>1, <1>2

\* The invariant, but for the writes, is about what hdimage_setup() left.
LEMMA GptStill ==
    ASSUME AreasInv, SetupDone, SetupDone',
           UNCHANGED <<conf, align, parts, extended, now, size>>
    PROVE  AreasInv' /\ (SizeInv => SizeInv')
<1>1. Laid /\ Laid' /\ pc # "fakes" /\ pc' # "fakes" /\ pc # "place" /\ pc' # "place"
      /\ Settled = Indices /\ Settled' = Indices /\ Indices' = Indices
  BY DEF SetupDone, Laid, Settled, Indices
<1>2. /\ \A m, o, b : IsArea(m, o, b)' = IsArea(m, o, b)
      /\ \A m, o : IsBackup(m, o)' = IsBackup(m, o)
      /\ BackupOffset' = BackupOffset /\ GptLocation' = GptLocation /\ Gpt' = Gpt
  BY <1>1 DEF IsArea, IsTable, IsBackup, BackupOffset, GptLocation, Gpt, Indices
<1>3. AreasInv'
  BY <1>1, <1>2 DEF AreasInv
<1>4. SizeInv => SizeInv'
  BY <1>1, <1>2 DEF SizeInv, Sector
<1> QED
  BY <1>3, <1>4

\* The disk of a GPT has no boot records.
LEMMA GptWrite ==
    ASSUME IInv, GptInv, WriteData
    PROVE  GptInv'
<1> DEFINE p == parts[k]
           bytes == p.data - p.imageoffset
           y == Extent(p.offset, IF p.fill THEN p.size ELSE bytes, k)
<1>1. /\ pc = "data" /\ k <= Len(parts)
      /\ pc' = "data" \/ (pc' = "end" /\ ret' # "ok")
      /\ UNCHANGED <<conf, align, parts, extended, now, size>>
      /\ \/ writes' = writes \o Ebr(p)
         \/ writes' = writes \o Append(Ebr(p), y)
  BY ZenonT(60) DEF WriteData, Write, setupVars
<1>2. SetupDone /\ Laid
  BY <1>1 DEF SetupDone, Laid
<1>3. ASSUME Gpt PROVE writes' \in Seq(Extents)
  <2>1. k \in Indices /\ p \in AnyPart /\ k \in Nat
    BY <1>1 DEF IInv, TypeInv, Indices
  <2>2. y \in Extents
    <3>1. /\ p.offset \in Int /\ p.size \in Int /\ p.data \in Int /\ p.imageoffset \in Int
      BY <2>1 DEF AnyPart
    <3> QED
      BY <2>1, <3>1 DEF Extent, Extents
  <2>3. ~p.logical
    <3>1. p.logical => extended # 0
      BY <1>2, <2>1 DEF IInv, LayoutInv, ListInv
    <3>2. extended = 0
      BY <1>2, <1>3 DEF IInv, LayoutInv, ExtendedInv, Gpt
    <3> QED
      BY <3>1, <3>2
  <2> HIDE DEF y, p
  <2>4. Ebr(p) = <<>>
    BY <2>3 DEF Ebr
  <2>5. writes \in Seq(Extents) /\ <<>> \in Seq(Extents) /\ <<y>> \in Seq(Extents)
    BY <1>3, <2>2 DEF GptInv, TableInv
  <2>6. Append(<<>>, y) = <<y>>
    OBVIOUS
  <2>7. writes' = writes \o <<>> \/ writes' = writes \o <<y>>
    BY <1>1, <2>4, <2>6 DEF y, bytes
  <2> QED
    BY <2>5, <2>7, ConcatProperties
<1>4. CASE pc' = "data"
  <2>1. TableInv' /\ SetupDone'
    BY <1>1, <1>3, <1>4 DEF TableInv, Gpt, Extents, SetupDone
  <2> QED
    BY <1>1, <1>2, <2>1, GptStill DEF GptInv
<1>5. CASE pc' = "end" /\ ret' # "ok"
  BY <1>1, <1>3, <1>5, GptGone
<1> QED
  BY <1>1, <1>4, <1>5

LEMMA GptTable ==
    ASSUME IInv, GptInv, WriteTable
    PROVE  GptInv'
<1>1. CASE pc' = "end"
  <2>1. ret' # "ok" /\ UNCHANGED <<conf, setupVars, writes>>
    BY <1>1 DEF WriteTable, Error
  <2> QED
    BY <1>1, <2>1, GptStop
<1>2. CASE pc' # "end"
  <2>1. /\ pc = "table" /\ pc' = "fill" /\ writes' = writes \o TableWrites
        /\ UNCHANGED <<conf, align, parts, extended, now, size>>
    BY <1>2 DEF WriteTable, Error, setupVars
  <2>2. SetupDone /\ SetupDone'
    BY <2>1 DEF SetupDone
  <2>3. ASSUME Gpt
        PROVE  /\ writes' \in Seq(Extents)
               /\ \A j \in DOMAIN TableWrites : \E n \in DOMAIN writes' : writes'[n] = TableWrites[j]
    <3>1. PICK ws \in Seq(Extents) : ws = TableWrites
      BY <2>3, GptWrites DEF IInv
    <3>2. writes \in Seq(Extents) /\ writes' = writes \o ws
      BY <2>1, <2>3, <3>1 DEF GptInv, TableInv
    <3>3. /\ writes' \in Seq(Extents) /\ Len(writes) \in Nat /\ Len(ws) \in Nat
          /\ DOMAIN writes' = 1..(Len(writes) + Len(ws)) /\ DOMAIN ws = 1..Len(ws)
          /\ \A i \in 1..Len(ws) : writes'[Len(writes) + i] = ws[i]
      BY <3>2
    <3>4. ASSUME NEW j \in DOMAIN ws PROVE \E n \in DOMAIN writes' : writes'[n] = ws[j]
      <4>1. Len(writes) + j \in DOMAIN writes' /\ writes'[Len(writes) + j] = ws[j]
        BY <3>3
      <4> QED
        BY <4>1
    <3> QED
      BY <3>1, <3>3, <3>4
  <2>4. TableWrites' = TableWrites /\ Gpt' = Gpt
    BY <2>1 DEF TableWrites, Gpt, GptLocation, Extent, Sector, MbrTail, GptHeader, GptArray, BackupSize
  <2>5. TableInv'
    BY <2>3, <2>4 DEF TableInv, Extents
  <2> QED
    BY <2>1, <2>2, <2>5, GptStill DEF GptInv
<1> QED
  BY <1>1, <1>2

LEMMA GptRest ==
    ASSUME IInv, GptInv, Prepare \/ DataDone \/ Fill \/ CheckSize
    PROVE  GptInv'
<1>1. CASE pc' = "end" /\ ret' # "ok" /\ UNCHANGED <<conf, setupVars, writes>>
  BY <1>1, GptStop
<1>2. CASE ~(pc' = "end" /\ ret' # "ok" /\ UNCHANGED <<conf, setupVars, writes>>)
  <2>1. /\ pc \in {"prepare", "data", "fill", "check"} /\ pc' \in {"data", "table", "check", "end"}
        /\ pc' = "check" => pc = "fill"
        /\ UNCHANGED <<conf, ret, align, parts, extended, now, size, writes>>
    <3>1. CASE Prepare \/ DataDone
      BY <3>1 DEF Prepare, DataDone, setupVars
    <3>2. CASE Fill
      BY <1>2, <3>2 DEF Fill, Error, setupVars
    <3>3. CASE CheckSize
      BY <1>2, <3>3 DEF CheckSize, Error, setupVars
    <3> QED
      BY <3>1, <3>2, <3>3
  <2>2. SetupDone /\ SetupDone'
    BY <2>1 DEF IInv, TypeInv, SetupDone
  <2>3. TableWrites' = TableWrites /\ Gpt' = Gpt
    BY <2>1 DEF TableWrites, Gpt, GptLocation, Extent, Sector, MbrTail, GptHeader, GptArray, BackupSize
  <2>4. TableInv'
    BY <2>1, <2>3 DEF GptInv, TableInv, Extents
  <2> QED
    BY <2>1, <2>2, <2>4, GptStill DEF GptInv
<1> QED
  BY <1>1, <1>2

LEMMA GptNext == WholeSectors /\ IInv /\ GptInv /\ [Next]_vars => GptInv'
<1> SUFFICES ASSUME WholeSectors, IInv, GptInv, [Next]_vars PROVE GptInv'
  OBVIOUS
<1>1. CASE SetupAlign \/ SetupLogical
  BY <1>1, GptEarly
<1>2. CASE SetupFakes
  BY <1>2, GptFakes
<1>3. CASE PlacePart
  BY <1>3, GptPlace
<1>4. CASE SetupFinish
  BY <1>4, GptFinish
<1>5. CASE WriteData
  BY <1>5, GptWrite
<1>6. CASE WriteTable
  BY <1>6, GptTable
<1>7. CASE Prepare \/ DataDone \/ Fill \/ CheckSize
  BY <1>7, GptRest
<1>8. CASE UNCHANGED vars
  <2>1. UNCHANGED <<conf, pc, ret, align, parts, extended, k, now, size, writes>>
    BY <1>8 DEF vars, setupVars
  <2>2. /\ SetupDone' = SetupDone /\ Laid' = Laid /\ Settled' = Settled /\ Indices' = Indices
    BY <2>1 DEF SetupDone, Laid, Settled, Indices
  <2>3. /\ \A m, o, b : IsArea(m, o, b)' = IsArea(m, o, b)
        /\ \A m, o : IsBackup(m, o)' = IsBackup(m, o)
        /\ BackupOffset' = BackupOffset /\ GptLocation' = GptLocation /\ Gpt' = Gpt
    BY <2>1, <2>2 DEF IsArea, IsTable, IsBackup, BackupOffset, GptLocation, Gpt
  <2>4. TableWrites' = TableWrites
    BY <2>1 DEF TableWrites, Gpt, GptLocation, Extent, Sector, MbrTail, GptHeader, GptArray, BackupSize
  <2>5. AreasInv'
    BY <2>1, <2>2, <2>3 DEF GptInv, AreasInv
  <2>6. SizeInv'
    BY <2>1, <2>2, <2>3 DEF GptInv, SizeInv, Sector
  <2>7. TableInv'
    BY <2>1, <2>3, <2>4 DEF GptInv, TableInv, Extents
  <2> QED
    BY <2>1, <2>5, <2>6, <2>7 DEF GptInv
<1> QED
  BY <1>1, <1>2, <1>3, <1>4, <1>5, <1>6, <1>7, <1>8 DEF Next

\* What the headers say, in sectors, is where things are, in bytes.
LEMMA HeadersRight ==
    ASSUME WholeSectors, IInv, GptInv, Gpt, pc \in {"fill", "check"}
    PROVE  GptRead
<1>1. SetupDone /\ Laid /\ Settled = Indices /\ pc \notin {"fakes", "place"}
  BY DEF SetupDone, Laid, Settled
<1>2. AreasInv /\ SizeInv /\ TableInv /\ conf \in Configs /\ TypeInv
  BY DEF GptInv, IInv
<1>3. /\ Len(parts) \in Indices /\ parts[Len(parts)].offset = BackupOffset /\ size > 0
      /\ parts[Len(parts)].offset # GptLocation /\ size % 512 = 0
  <2>1. Len(parts) \in Indices /\ parts[Len(parts)].offset = BackupOffset /\ size > 0
    BY <1>1, <1>2 DEF AreasInv, IsBackup
  <2> QED
    BY <1>1, <1>2, <2>1 DEF SizeInv, Sector
<1>4. PICK s \in Nat : size = s * 512
  <2>1. \A x \in Nat : x % 512 = 0 => x = (x \div 512) * 512 /\ x \div 512 \in Nat
    BY Z3
  <2> QED
    BY <1>2, <1>3, <2>1 DEF TypeInv
<1>5. PICK g \in Nat : GptLocation = g * 512
  <2>1. \A x \in Nat : x % 512 = 0 => x = (x \div 512) * 512 /\ x \div 512 \in Nat
    BY Z3
  <2>2. conf.gptloc \in Nat /\ conf.gptloc % 512 = 0
    BY <1>2, ConfType DEF TypeInv, WholeSectors, Sector
  <2>3. CASE conf.gptloc = 0
    BY <2>3 DEF GptLocation, Sector
  <2>4. CASE conf.gptloc # 0
    BY <2>1, <2>2, <2>4 DEF GptLocation
  <2> QED
    BY <2>3, <2>4
<1>6. BackupSize = 33 * 512 /\ Sector = 512
  BY DEF BackupSize, GptSectors, Sector
<1>7. s - 33 # g
  <2>1. size - BackupSize # GptLocation
    BY <1>1, <1>3 DEF BackupOffset
  <2> QED
    BY <1>4, <1>5, <1>6, <2>1
<1>8. /\ size \div 512 = s /\ GptLocation \div 512 = g /\ (size - BackupSize) \div 512 = s - 33
  <2>1. \A x \in Int : (x * 512) \div 512 = x
    BY Z3
  <2>2. size - BackupSize = (s - 33) * 512
    BY <1>4, <1>6
  <2> QED
    BY <1>4, <1>5, <2>1, <2>2
<1> DEFINE Has(sector, bytes) ==
             \E n \in DOMAIN writes : writes[n] = Extent(sector * Sector, bytes, 0)
<1>9. ASSUME NEW w, \E j \in DOMAIN TableWrites : TableWrites[j] = w
      PROVE  \E n \in DOMAIN writes : writes[n] = w
  BY <1>2, <1>9 DEF TableInv
<1>10. /\ HeaderOf(FALSE).at = 512 /\ HeaderOf(FALSE).current = 1
       /\ HeaderOf(FALSE).starting = g
       /\ HeaderOf(FALSE).other = IF conf.nobackup THEN 1 ELSE s - 1
  BY <1>6, <1>8 DEF HeaderOf, ArrayOf
<1>11. /\ HeaderOf(TRUE).at = size - 512 /\ HeaderOf(TRUE).current = s - 1
       /\ HeaderOf(TRUE).starting = s - 33 /\ HeaderOf(TRUE).other = 1
  BY <1>6, <1>8 DEF HeaderOf, ArrayOf
<1>12. Has(1, GptHeader) /\ Has(g, GptArray)
  <2>1. \E n \in DOMAIN writes : writes[n] = Extent(Sector, GptHeader, 0)
    BY <1>2, <1>9, GptWrites
  <2>2. \E n \in DOMAIN writes : writes[n] = Extent(GptLocation, GptArray, 0)
    BY <1>2, <1>9, GptWrites
  <2>3. 1 * Sector = Sector /\ g * Sector = GptLocation
    BY <1>5, <1>6
  <2> QED
    BY <2>1, <2>2, <2>3
<1>13. ~conf.nobackup => Has(s - 1, GptHeader) /\ Has(s - 33, GptArray)
  <2>1. ~conf.nobackup => \E n \in DOMAIN writes : writes[n] = Extent(size - Sector, GptHeader, 0)
    BY <1>2, <1>9, GptWrites
  <2>2. ~conf.nobackup => \E n \in DOMAIN writes : writes[n] = Extent(size - BackupSize, GptArray, 0)
    BY <1>2, <1>9, GptWrites
  <2>3. (s - 1) * Sector = size - Sector /\ (s - 33) * Sector = size - BackupSize
    BY <1>4, <1>6
  <2> QED
    BY <2>1, <2>2, <2>3
<1>14. 512 = 1 * Sector /\ size - 512 = (s - 1) * Sector
  BY <1>4, <1>6
<1> HIDE DEF Has
<1>15. ASSUME NEW backup \in IF conf.nobackup THEN {FALSE} ELSE BOOLEAN
       PROVE  LET h == HeaderOf(backup)
                  o == HeaderOf(~backup)
              IN  /\ h.at = h.current * Sector /\ Has(h.current, GptHeader)
                  /\ Has(h.starting, GptArray)
                  /\ h.other = IF conf.nobackup THEN h.current ELSE o.current
                  /\ ~conf.nobackup => h.starting # o.starting
  <2> DEFINE h == HeaderOf(backup)
             o == HeaderOf(~backup)
  <2>1. CASE backup = FALSE
    <3>1. (~backup) = TRUE
      BY <2>1
    <3>2. h = HeaderOf(FALSE) /\ o = HeaderOf(TRUE)
      BY <2>1, <3>1
    <3> HIDE DEF h, o
    <3>3. h.at = h.current * Sector
      BY <1>10, <1>14, <3>2
    <3>4. Has(h.current, GptHeader) /\ Has(h.starting, GptArray)
      BY <1>10, <1>12, <3>2
    <3>5. h.other = IF conf.nobackup THEN h.current ELSE o.current
      <4>1. h.current = 1 /\ o.current = s - 1
        BY <1>10, <1>11, <3>2
      <4>2. h.other = IF conf.nobackup THEN 1 ELSE s - 1
        BY <1>10, <3>2
      <4> QED
        BY <4>1, <4>2
    <3>6. h.starting # o.starting
      <4>1. h.starting = g
        BY <1>10, <3>2
      <4>2. o.starting = s - 33
        BY <1>11, <3>2
      <4> QED
        BY <1>7, <4>1, <4>2
    <3> QED
      BY <3>3, <3>4, <3>5, <3>6 DEF h, o
  <2>2. CASE backup = TRUE
    <3>1. (~backup) = FALSE /\ ~conf.nobackup
      BY <2>2
    <3>2. h = HeaderOf(TRUE) /\ o = HeaderOf(FALSE)
      BY <2>2, <3>1
    <3> HIDE DEF h, o
    <3>3. h.at = h.current * Sector
      BY <1>11, <1>14, <3>2
    <3>4. Has(h.current, GptHeader) /\ Has(h.starting, GptArray)
      BY <1>11, <1>13, <3>1, <3>2
    <3>5. h.other = IF conf.nobackup THEN h.current ELSE o.current
      BY <1>10, <1>11, <3>1, <3>2
    <3>6. h.starting # o.starting
      <4>1. h.starting = s - 33
        BY <1>11, <3>2
      <4>2. o.starting = g
        BY <1>10, <3>2
      <4> QED
        BY <1>7, <4>1, <4>2
    <3> QED
      BY <3>3, <3>4, <3>5, <3>6 DEF h, o
  <2>3. backup = FALSE \/ backup = TRUE
    BY <1>15
  <2> QED
    BY <2>1, <2>2, <2>3
<1> QED
  BY <1>15 DEF GptRead, Has

(* Once the table has been written, both headers of a GPT say where they    *)
(* are, where the other one is and where their array is, in the file, and   *)
(* the arrays are two: hdimage_insert_gpt() computes all of it again from   *)
(* the size, which hdimage_setup() may have found itself.  The size of the  *)
(* image and gpt-location are multiples of a sector.                        *)
THEOREM GptReadHolds ==
    ASSUME WholeSectors
    PROVE  Spec => []GptRead
<1>1. Init => IInv /\ GptInv
  BY InitHolds, GptInit
<1>2. IInv /\ GptInv /\ [Next]_vars => IInv' /\ GptInv'
  BY NextHolds, GptNext
<1>3. IInv /\ GptInv => GptRead
  BY HeadersRight DEF GptRead
<1> QED
  BY <1>1, <1>2, <1>3, PTL DEF Spec

-----------------------------------------------------------------------------
(* The range of usable sectors of a GPT.  Its assumption, for the           *)
(* partitions in such a table: they have no holes, which the backup of the  *)
(* table could be in, and an align of their own is one of whole sectors.    *)

SolidEntries ==
    \A c \in Configs : \A n \in DOMAIN c.parts :
        c.type \in {"gpt", "hybrid"} /\ c.parts[n].intable =>
            c.parts[n].holes = {} /\ c.parts[n].align % Sector = 0

\* A partition in the table before it is placed, and then
Solid(p) ==
    /\ p.name = "user" /\ p.holes = {} /\ p.align % Sector = 0
    /\ p.offset >= 0 /\ p.size >= 0
Ready(p) == p.size > 0 /\ p.offset % Sector = 0 /\ p.size % Sector = 0
EntryInv ==
    Gpt /\ Laid =>
        \A m \in Indices : parts[m].intable =>
            Solid(parts[m]) /\ (m \in Settled => Ready(parts[m]))

\* The backup, once it has been placed, is apart from them.
Beside(p, q) == Disjoint(p.offset, End(p), q.offset, End(q))
BackupInv ==
    Gpt /\ Laid /\ pc # "fakes" /\ Len(parts) \in Settled =>
        \A m \in Settled : parts[m].intable => Beside(parts[m], parts[Len(parts)])

RangeInv ==
    /\ conf \in Configs /\ AreasInv /\ EntryInv /\ BackupInv
    /\ Gpt /\ pc \notin {"align", "end"} => align % Sector = 0
    /\ Gpt /\ SetupDone => now <= size

(* Numbers: the largest of a set, and what is aligned to whole sectors.     *)
LEMMA Least ==
    ASSUME NEW T \in SUBSET Nat, T # {}
    PROVE  \E x \in T : \A y \in T : x <= y
<1> DEFINE R == {ss \in Nat \X Nat : ss[1] < ss[2]}
<1>1. IsWellFoundedOn(R, Nat)
  BY NatLessThanWellFounded DEF OpToRel
<1>2. PICK x \in T : \A y \in T : ~(<<y, x>> \in R)
  <2> HIDE DEF R
  <2> QED
    BY <1>1, WFMin
<1>3. ASSUME NEW y \in T PROVE x <= y
  <2>1. ~(<<y, x>> \in R) /\ x \in Nat /\ y \in Nat
    BY <1>2
  <2>2. ~(y < x)
    BY <2>1
  <2> QED
    BY <2>1, <2>2
<1> QED
  BY <1>3

LEMMA Largest ==
    ASSUME NEW T \in SUBSET Int, T # {}, NEW b \in Int, \A y \in T : y <= b
    PROVE  \E x \in T : \A y \in T : y <= x
<1> DEFINE D == {d \in Nat : b - d \in T}
<1>1. ASSUME NEW y \in T PROVE b - y \in D
  <2>1. b - y \in Nat /\ b - (b - y) = y
    BY <1>1
  <2> QED
    BY <2>1
<1>2. D # {} /\ D \subseteq Nat
  BY <1>1
<1>3. PICK d \in D : \A e \in D : d <= e
  BY <1>2, Least
<1>4. ASSUME NEW y \in T PROVE y <= b - d
  <2>1. d <= b - y /\ d \in Nat
    BY <1>1, <1>3
  <2> QED
    BY <2>1
<1>5. b - d \in T
  BY <1>3
<1> QED
  BY <1>4, <1>5

LEMMA WholeMultiples ==
    ASSUME NEW o \in Int, NEW a \in Nat \ {0}, a % Sector = 0, o % a = 0
    PROVE  o % Sector = 0
<1>1. PICK q \in Int : a = q * 512
  <2>1. a = (a \div 512) * 512 /\ a \div 512 \in Int
    BY Z3 DEF Sector
  <2> QED
    BY <2>1
<1>2. PICK j \in Int : o = j * a
  <2>1. o = (o \div a) * a /\ o \div a \in Int
    BY Z3
  <2> QED
    BY <2>1
<1>3. PICK x \in Int : x = j * q
  OBVIOUS
<1>4. o = x * 512
  <2>1. \A u, v, w \in Int : u * (v * w) = (u * v) * w
    BY Z3
  <2> QED
    BY <1>1, <1>2, <1>3, <2>1
<1>5. (x * 512) % 512 = 0
  BY Z3
<1> QED
  BY <1>4, <1>5 DEF Sector

(* The first sector behind what ends in front of a partition is none of its *)
(* sectors.                                                                 *)
LEMMA SectorUp ==
    ASSUME NEW e \in Nat, NEW o \in Nat, e <= o, o % Sector = 0
    PROVE  RoundUp(e, Sector) \div Sector <= o \div Sector
<1>1. CASE e = 0
  <2>1. 65536 % 512 = 0 /\ 0 % 512 = 0 /\ 512 % 512 = 0 /\ 0 \div 512 = 0
    OBVIOUS
  <2>2. RoundUp(e, Sector) = 0
    BY <1>1, <2>1 DEF RoundUp, TwoTo64Mod, Sector
  <2>3. 0 <= o \div 512
    BY Z3
  <2> QED
    BY <2>1, <2>2, <2>3 DEF Sector
<1>2. CASE e # 0
  <2>1. PICK q \in Int : q = (e - 1) \div 512
    BY Z3
  <2>2. PICK j \in Int : o = j * 512 /\ o \div 512 = j
    <3>1. o = (o \div 512) * 512 /\ o \div 512 \in Int
      BY Z3 DEF Sector
    <3> QED
      BY <3>1
  <2>3. q + 1 <= j
    <3>1. q * 512 <= e - 1
      BY <2>1, Z3
    <3> QED
      BY <2>2, <3>1
  <2>4. RoundUp(e, Sector) = (q + 1) * 512
    BY <1>2, <2>1 DEF RoundUp, Sector
  <2>5. \A x \in Int : (x * 512) \div 512 = x
    BY Z3
  <2>6. RoundUp(e, Sector) \div Sector = q + 1
    BY <2>4, <2>5 DEF Sector
  <2> QED
    BY <2>2, <2>3, <2>6 DEF Sector
<1> QED
  BY <1>1, <1>2

(* What the invariant says of the range, in sectors.                        *)
LEMMA RangeRight ==
    ASSUME IInv, RangeInv, SetupDone, Gpt
    PROVE  /\ \A n \in Entries :
                 /\ FirstUsable <= parts[n].offset \div Sector
                 /\ End(parts[n]) \div Sector - 1 <= LastUsable
           /\ (LastUsable + 1) * Sector <= size - BackupSize
<1>1. /\ Laid /\ Settled = Indices /\ pc \notin {"fakes", "place"}
  BY DEF SetupDone, Laid, Settled
<1>2. /\ parts \in Seq(AnyPart) /\ size \in Nat /\ now \in Nat /\ now <= size
      /\ \A m \in Indices : /\ parts[m].offset \in Int /\ parts[m].size \in Int
                            /\ End(parts[m]) = parts[m].offset + parts[m].size
  <2>1. parts \in Seq(AnyPart) /\ size \in Nat /\ now \in Nat /\ now <= size
    BY DEF IInv, TypeInv, RangeInv
  <2>2. \A m \in Indices : parts[m] \in AnyPart
    BY <2>1 DEF Indices
  <2> QED
    BY <2>1, <2>2 DEF AnyPart, End
<1>3. BackupSize = 16896 /\ GptSectors = 33 /\ Sector = 512
  BY DEF BackupSize, GptSectors, Sector
<1>4. /\ Len(parts) \in Indices /\ size > 0
      /\ parts[Len(parts)].offset = size - 16896 /\ parts[Len(parts)].size = 16896
  BY <1>1, <1>2, <1>3 DEF RangeInv, AreasInv, IsBackup, BackupOffset
<1>5. PICK s \in Int : s = size \div 512 /\ s * 512 <= size /\ size < s * 512 + 512
  BY <1>2, Z3
<1>6. LastUsable = s - 34
  BY <1>3, <1>5 DEF LastUsable
<1>7. ASSUME NEW n \in Entries
      PROVE  /\ FirstUsable <= parts[n].offset \div Sector
             /\ End(parts[n]) \div Sector - 1 <= LastUsable
  <2>1. n \in Indices /\ parts[n].intable
    BY DEF Entries
  <2>2. /\ parts[n].offset >= 0 /\ parts[n].size > 0
        /\ parts[n].offset % Sector = 0 /\ parts[n].size % Sector = 0
    BY <1>1, <2>1 DEF RangeInv, EntryInv, Solid, Ready
  <2>3. FirstUsable <= parts[n].offset \div Sector
    <3> DEFINE ends == {0} \cup {End(parts[m]) : m \in
                         {m \in Indices \ Entries : /\ parts[m].name # "backup"
                                                    /\ InFront(End(parts[m]))}}
               e == CHOOSE e \in ends : \A f \in ends : f <= e
    <3>1. ends \in SUBSET Int
      BY <1>2
    <3>2. \A y \in ends : y <= parts[n].offset
      BY <2>2 DEF InFront
    <3>3. 0 \in ends
      OBVIOUS
    <3>4. FirstUsable = RoundUp(e, Sector) \div Sector
      BY DEF FirstUsable
    <3> HIDE DEF ends
    <3>5. \E x \in ends : \A y \in ends : y <= x
      BY <1>2, <2>1, <3>1, <3>2, <3>3, Largest
    <3>6. e \in ends /\ \A y \in ends : y <= e
      BY <3>5
    <3> HIDE DEF e
    <3>7. e \in Nat /\ e <= parts[n].offset /\ parts[n].offset \in Nat
      BY <1>2, <2>1, <2>2, <3>1, <3>2, <3>3, <3>6
    <3> QED
      BY <2>2, <3>4, <3>7, SectorUp
  <2>4. End(parts[n]) <= size - 16896
    <3>1. End(parts[n]) <= now
      <4>1. extended = 0
        BY <1>1 DEF Gpt, IInv, LayoutInv, ExtendedInv
      <4>2. n \in Settled /\ n # 0
        BY <1>1, <1>2, <2>1 DEF Indices
      <4>3. n \in Settled \ {extended}
        BY <4>1, <4>2
      <4> QED
        BY <4>3 DEF IInv, LayoutInv, EndInv
    <3>2. Beside(parts[n], parts[Len(parts)])
      BY <1>1, <1>4, <2>1 DEF RangeInv, BackupInv
    <3>3. \/ End(parts[n]) <= size - 16896
          \/ size <= parts[n].offset
      BY <1>2, <1>4, <3>2 DEF Beside, Disjoint
    <3> QED
      BY <1>2, <2>1, <2>2, <3>1, <3>3
  <2>5. End(parts[n]) \div 512 - 1 <= s - 34
    <3>1. PICK x \in Int : x = End(parts[n]) \div 512 /\ x * 512 <= End(parts[n])
      <4>1. End(parts[n]) \in Int
        BY <1>2, <2>1
      <4> QED
        BY <4>1, Z3
    <3>2. x * 512 <= size - 16896
      BY <1>2, <2>1, <2>4, <3>1
    <3>3. x < s - 33 + 1
      BY <1>2, <1>5, <3>2
    <3> QED
      BY <3>1, <3>3
  <2> QED
    BY <1>3, <1>6, <2>3, <2>5
<1>8. (LastUsable + 1) * Sector <= size - BackupSize
  BY <1>2, <1>3, <1>5, <1>6
<1> QED
  BY <1>7, <1>8

LEMMA RangeInit == Init => RangeInv
<1> SUFFICES ASSUME Init PROVE RangeInv
  OBVIOUS
<1>1. ~SetupDone /\ ~Laid /\ pc = "align"
  BY DEF Init, SetupDone, Laid
<1> QED
  BY <1>1 DEF Init, RangeInv, AreasInv, EntryInv, BackupInv

LEMMA RangeStop ==
    ASSUME RangeInv, pc' = "end", ret' # "ok", UNCHANGED <<conf, setupVars>>
    PROVE  RangeInv'
<1>1. ~SetupDone' /\ ~Laid'
  BY DEF SetupDone, Laid
<1> QED
  BY <1>1 DEF RangeInv, AreasInv, EntryInv, BackupInv

\* Before the areas are in the list
LEMMA RangeEarly ==
    ASSUME SolidEntries, IInv, RangeInv, SetupAlign \/ SetupLogical
    PROVE  RangeInv'
<1>1. CASE pc' = "end"
  <2>1. ret' # "ok" /\ UNCHANGED <<conf, setupVars>>
    BY <1>1 DEF SetupAlign, SetupLogical, Error
  <2> QED
    BY <1>1, <2>1, RangeStop
<1>2. CASE pc' # "end"
  <2>1. /\ pc \in {"align", "logical"} /\ pc' \in {"logical", "fakes"} /\ conf' = conf
        /\ pc' = "fakes" => pc = "logical"
        /\ pc = "logical" => align' = align
        /\ pc = "align" /\ conf.type # "none" => align' % Sector = 0
    BY <1>2 DEF SetupAlign, SetupLogical, Error, setupVars
  <2>2. ~SetupDone' /\ Settled' = {} /\ (~Laid' \/ pc' = "fakes")
    BY <2>1 DEF SetupDone, Laid, Settled
  <2>3. AreasInv' /\ BackupInv'
    BY <2>1, <2>2 DEF AreasInv, BackupInv
  <2>4. Gpt' => align' % Sector = 0
    BY <2>1 DEF RangeInv, Gpt, Sector
  <2>5. EntryInv'
    <3>1. CASE ~Gpt \/ ~Laid'
      <4>1. Gpt' = Gpt
        BY <2>1 DEF Gpt
      <4> QED
        BY <3>1, <4>1 DEF EntryInv
    <3>2. CASE Gpt /\ Laid'
      <4>1. pc = "logical" /\ SetupLogical
        BY <2>1, <2>2, <3>2 DEF SetupAlign, SetupLogical
      <4>2. parts' = parts /\ parts = [n \in DOMAIN conf.parts |-> FromConf(conf.parts[n])]
        BY <1>2, <3>2, <4>1 DEF SetupLogical, Error, setupVars, Gpt, IInv, StartInv, Early
      <4>3. conf.parts \in Seq(PartConf) /\ conf \in Configs
        BY ConfType DEF IInv, TypeInv, RangeInv
      <4>4. ASSUME NEW m \in Indices', parts'[m].intable PROVE Solid(parts'[m])
        <5>1. m \in DOMAIN conf.parts /\ parts'[m] = FromConf(conf.parts[m])
          BY <4>2 DEF Indices
        <5>2. PICK c \in PartConf : c = conf.parts[m]
          BY <4>3, <5>1
        <5>3. c.intable
          BY <4>4, <5>1, <5>2 DEF FromConf
        <5>4. c.holes = {} /\ c.align % Sector = 0
          BY <3>2, <4>3, <5>1, <5>2, <5>3 DEF SolidEntries, Gpt
        <5>5. c.offset >= 0 /\ c.size >= 0
          BY <5>2 DEF PartConf
        <5> QED
          BY <5>1, <5>2, <5>4, <5>5 DEF Solid, FromConf
      <4>5. \A m : m \notin Settled'
        BY <2>2
      <4> QED
        BY <4>4, <4>5 DEF EntryInv, Solid, Ready, Sector
    <3> QED
      BY <3>1, <3>2
  <2> QED
    BY <2>1, <2>2, <2>3, <2>4, <2>5 DEF RangeInv
<1> QED
  BY <1>1, <1>2

\* The areas are in the list, none of them is in the table.
LEMMA RangeFakes ==
    ASSUME IInv, RangeInv, SetupFakes
    PROVE  RangeInv'
<1>1. pc = "fakes" /\ pc' = "place" /\ k' = 1 /\ UNCHANGED <<conf, align>>
  BY DEF SetupFakes, IInv, TypeInv
<1>2. ~SetupDone' /\ Laid /\ Settled' = {} /\ Settled = {} /\ Gpt' = Gpt
  BY <1>1 DEF SetupDone, Laid, Settled, Gpt
<1>3. AreasInv' /\ \A m \in Indices' \ Indices : ~parts'[m].intable
  BY FakesStep
<1>4. \A m \in Indices : parts'[m] = parts[m]
  <2>1. PICK fakes : parts' = parts \o fakes
    BY DEF SetupFakes
  <2>2. parts \in Seq(AnyPart) /\ Len(parts) \in Nat
    BY DEF IInv, TypeInv
  <2> QED
    BY <2>1, <2>2 DEF Indices
<1>5. EntryInv'
  <2>1. ASSUME Gpt, NEW m \in Indices', parts'[m].intable
        PROVE  Solid(parts'[m])
    <3>1. m \in Indices /\ parts'[m] = parts[m]
      BY <1>3, <1>4, <2>1
    <3> QED
      BY <1>2, <2>1, <3>1 DEF RangeInv, EntryInv
  <2>2. \A m : m \notin Settled'
    BY <1>2
  <2> QED
    BY <1>2, <2>1, <2>2 DEF EntryInv, Solid, Ready, Sector
<1>6. BackupInv'
  BY <1>2 DEF BackupInv
<1>7. conf' \in Configs /\ (Gpt' => align' % Sector' = 0)
  BY <1>1, <1>2 DEF RangeInv, Sector
<1> QED
  BY <1>2, <1>3, <1>5, <1>6, <1>7 DEF RangeInv, Sector

\* A partition keeps its align, and without one takes that of the image.
LEMMA PlacedAlign ==
    ASSUME TypeInv, align # 0, NEW p \in AnyPart
    PROVE  Placed(p).intable => Placed(p).align = IF p.align # 0 THEN p.align ELSE align
<1> DEFINE a == WithAlign(p)
           o == WithOffset(a)
           r == WithAutoresize(o)
           q == WithSize(r)
<1>1. /\ a \in AnyPart /\ a.align # 0
      /\ p.intable /\ conf.type # "none" => a.align = IF p.align # 0 THEN p.align ELSE align
  <2>1. a \in AnyPart /\ a.align # 0
    BY AlignType
  <2>2. p.intable /\ conf.type # "none" => a.align = IF p.align # 0 THEN p.align ELSE align
    BY DEF WithAlign, AnyPart
  <2> QED
    BY <2>1, <2>2
<1>2. Placed(p) = q /\ (Placed(p).intable => p.intable /\ conf.type # "none")
  BY PlacedType DEF Placed
<1> HIDE DEF a
<1>3. o \in AnyPart /\ o.align = a.align
  BY <1>1, OffsetType
<1> HIDE DEF o
<1>4. r \in AnyPart /\ r.align = a.align
  <2>1. Room(o) \in Int
    BY <1>1, <1>3, RoomType
  <2> QED
    BY <1>1, <1>3, <2>1, ResizeType DEF WithAutoresize
<1> HIDE DEF r
<1>5. q.align = a.align
  <2>1. DataSize(r) \in Int /\ r.align \in Nat \ {0}
    BY <1>1, <1>4 DEF DataSize, AnyPart
  <2>2. RoundUp(DataSize(r), r.align) \in Int
    BY <2>1, RoundUpType
  <2> QED
    BY <1>1, <1>4, <2>1, <2>2, ResizeType DEF WithSize
<1> HIDE DEF q
<1> QED
  BY <1>1, <1>2, <1>5

(* A partition in the table is put on whole sectors, and the backup, which  *)
(* comes last in the list, is kept apart from all of them.                  *)
LEMMA RangePlace ==
    ASSUME IInv, RangeInv, PlacePart
    PROVE  RangeInv'
<1>1. CASE Error("partition cannot be placed")
  BY <1>1, RangeStop DEF Error
<1>2. CASE ~Error("partition cannot be placed")
  <2>1. PICK p : p = Placed(parts[k])
    OBVIOUS
  <2>2. /\ Accepted(p) /\ PartsWith(p) /\ now' = Advance(p) /\ k' = k + 1
        /\ pc = "place" /\ k <= Len(parts)
        /\ UNCHANGED <<conf, pc, ret, align, extended, size>>
    BY <1>2, <2>1 DEF PlacePart, PartsWith
  <2>3. AreasInv /\ AreasInv' /\ conf' \in Configs
    BY <2>1, <2>2, AreasPlace DEF RangeInv
  <2>4. /\ Indices = 1..Len(parts) /\ k \in Indices /\ Len(parts) \in Nat /\ k \in Nat \ {0}
        /\ now \in Nat /\ align \in Nat \ {0} /\ Kept(p, parts[k])
        /\ parts[k] \in AnyPart /\ p \in AnyPart /\ p.align # 0
        /\ p.intable <=> parts[k].intable /\ conf.type # "none"
        /\ parts[k].offset # 0 => p.offset = parts[k].offset
        /\ parts[k].offset = 0 /\ parts[k].name # "backup" /\ p.intable /\ now > 0 =>
              p.offset >= now
        /\ p.offset \in Int /\ p.size \in Int /\ End(p) = p.offset + p.size
        /\ p.logical => extended # 0
    BY <2>1, <2>2, PlaceChanges
  <2>5. /\ Len(parts') = Len(parts) /\ Indices' = Indices /\ parts'[k] = p
        /\ ~SetupDone /\ ~SetupDone' /\ Laid /\ Laid' /\ Settled = 1..(k - 1) /\ Settled' = 1..k
        /\ \A m \in Indices : m # k /\ (m # extended \/ ~p.logical) => parts'[m] = parts[m]
    BY <2>1, <2>2, PlaceChanges
  <2>6. Gpt' = Gpt
    BY <2>2 DEF Gpt
  <2>7. CASE ~Gpt
    <3>1. EntryInv' /\ BackupInv'
      BY <2>6, <2>7 DEF EntryInv, BackupInv
    <3> QED
      BY <2>3, <2>5, <2>6, <2>7, <3>1 DEF RangeInv
  <2>8. CASE Gpt
    <3>1. extended = 0 /\ ~p.logical /\ now > 0
      <4>1. extended = 0
        BY <2>5, <2>8 DEF Gpt, IInv, LayoutInv, ExtendedInv
      <4>2. now > 0
        BY <2>2, <2>4, <2>5, <2>8 DEF Gpt, IInv, LayoutInv, ListInv
      <4> QED
        BY <2>4, <4>1, <4>2 DEF AnyPart
    <3>2. \A m \in Indices : m # k => parts'[m] = parts[m]
      BY <2>5, <3>1
    <3>3. align % Sector = 0
      BY <2>2, <2>8 DEF RangeInv
    <3>4. ASSUME p.intable PROVE Solid(p) /\ Ready(p)
      <4>1. Solid(parts[k])
        BY <2>4, <2>5, <2>8, <3>4 DEF RangeInv, EntryInv
      <4>2. p.align % Sector = 0 /\ p.align \in Nat \ {0}
        <5>1. p.align = IF parts[k].align # 0 THEN parts[k].align ELSE align
          BY <2>1, <2>4, <3>4, PlacedAlign DEF IInv
        <5> QED
          BY <2>4, <3>3, <4>1, <5>1 DEF Solid, AnyPart
      <4>3. p.name = "user" /\ p.holes = {}
        BY <2>4, <4>1 DEF Solid, Kept
      <4>4. p.offset >= 0
        <5>1. parts[k].offset >= 0 /\ parts[k].name # "backup"
          BY <4>1 DEF Solid
        <5> QED
          BY <2>4, <3>1, <3>4, <5>1
      <4>5. p.size > 0
        <5>1. p.size >= 0
          <6>1. parts[k].size >= 0
            BY <4>1 DEF Solid
          <6>2. CanResize(WithOffset(WithAlign(parts[k]))) /\ ImageFits(Placed(parts[k]))
            BY <2>1, <2>2 DEF Accepted
          <6> QED
            BY <2>1, <2>4, <6>1, <6>2, PlacedSize DEF IInv
        <5>2. p.size = 0 => k = extended
          BY <2>2 DEF Accepted
        <5> QED
          BY <2>4, <3>1, <5>1, <5>2
      <4>6. p.offset % p.align = 0 /\ p.size % Sector = 0
        BY <2>2, <3>4 DEF Accepted
      <4>7. p.offset % Sector = 0
        BY <2>4, <4>2, <4>6, WholeMultiples
      <4> QED
        BY <2>4, <4>2, <4>3, <4>4, <4>5, <4>6, <4>7 DEF Solid, Ready
    <3>5. EntryInv'
      <4>1. ASSUME NEW m \in Indices, parts'[m].intable
            PROVE  Solid(parts'[m]) /\ (m \in Settled' => Ready(parts'[m]))
        <5>1. CASE m = k
          BY <2>5, <3>4, <4>1, <5>1
        <5>2. CASE m # k
          <6>1. parts'[m] = parts[m] /\ (m \in Settled' => m \in Settled)
            BY <2>4, <2>5, <3>2, <5>2
          <6> QED
            BY <2>5, <2>8, <4>1, <6>1 DEF RangeInv, EntryInv
        <5> QED
          BY <5>1, <5>2
      <4> QED
        BY <2>5, <4>1 DEF EntryInv, Solid, Ready, Sector
    <3>6. ASSUME Len(parts) \in Settled', NEW m \in Settled', parts'[m].intable
          PROVE  Beside(parts'[m], parts'[Len(parts)])
      <4>1. k = Len(parts)
        BY <2>2, <2>4, <2>5, <3>6
      <4>2. p.name = "backup"
        <5>1. parts[k].name = "backup"
          BY <2>2, <2>3, <2>5, <2>8, <4>1 DEF AreasInv, IsBackup
        <5> QED
          BY <2>4, <5>1 DEF Kept
      <4>3. m \in Indices /\ m # k
        <5>1. ~p.intable
          BY <3>4, <4>2 DEF Solid
        <5> QED
          BY <2>4, <2>5, <3>6, <5>1
      <4>4. PICK q : q = parts[m] /\ q = parts'[m]
        BY <3>2, <4>3
      <4>5. q.holes = {} /\ q.offset \in Int /\ End(q) \in Int
        <5>1. q.holes = {}
          BY <2>5, <2>8, <3>6, <4>3, <4>4 DEF RangeInv, EntryInv, Solid
        <5>2. q.offset \in Int /\ End(q) \in Int
          BY <2>1, <2>2, <4>3, <4>4, PlaceChanges
        <5> QED
          BY <5>1, <5>2
      <4>6. ~(p.offset < End(q) /\ q.offset < End(p))
        <5>1. m \in 1..(k - 1)
          BY <2>4, <2>5, <3>6, <4>3
        <5>2. ~Overlaps(p, q)
          BY <2>2, <3>1, <4>4, <5>1 DEF Accepted
        <5> QED
          BY <4>5, <5>2 DEF Overlaps, HoleCovers
      <4>7. Disjoint(q.offset, End(q), p.offset, End(p))
        BY <2>4, <4>5, <4>6 DEF Disjoint
      <4> QED
        BY <2>5, <4>1, <4>4, <4>7 DEF Beside
    <3>7. BackupInv'
      BY <2>5, <3>6 DEF BackupInv, Beside, Disjoint, End
    <3> QED
      BY <2>2, <2>3, <2>5, <3>3, <3>5, <3>7 DEF RangeInv, Sector
  <2> QED
    BY <2>7, <2>8
<1> QED
  BY <1>1, <1>2

\* What has been placed is within the image.
LEMMA RangeFinish ==
    ASSUME IInv, RangeInv, SetupFinish
    PROVE  RangeInv'
<1>1. CASE pc' = "end"
  <2>1. ret' # "ok" /\ UNCHANGED <<conf, setupVars>>
    BY <1>1 DEF SetupFinish, Error
  <2> QED
    BY <1>1, <2>1, RangeStop
<1>2. CASE pc' # "end"
  <2>1. /\ pc = "place" /\ k > Len(parts) /\ pc' = "prepare"
        /\ UNCHANGED <<conf, align, parts, now>>
        /\ size' = IF size = 0 THEN now ELSE size
        /\ ~(size > 0 /\ now > size)
    BY <1>2 DEF SetupFinish, Error
  <2>2. /\ k \in Nat \ {0} /\ k <= Len(parts) + 1 /\ Len(parts) \in Nat
        /\ Indices = 1..Len(parts) /\ now \in Nat /\ size \in Nat
    <3>1. /\ k \in Nat \ {0} /\ k <= Len(parts) + 1 /\ parts \in Seq(AnyPart)
          /\ now \in Nat /\ size \in Nat
      BY <2>1 DEF IInv, TypeInv
    <3> QED
      BY <3>1 DEF Indices
  <2>3. /\ Laid /\ Laid' /\ SetupDone' /\ ~SetupDone /\ Gpt' = Gpt
        /\ Settled = Indices /\ Settled' = Indices /\ Indices' = Indices
    BY <2>1, <2>2 DEF SetupDone, Laid, Settled, Gpt, Indices
  <2>4. AreasInv' /\ conf' \in Configs
    BY <1>2, <2>1, AreasFinish DEF RangeInv
  <2>5. EntryInv'
    BY <2>1, <2>3 DEF RangeInv, EntryInv, Solid, Ready, Sector
  <2>6. BackupInv'
    BY <2>1, <2>3 DEF RangeInv, BackupInv, Beside, Disjoint, End
  <2>7. now' <= size'
    BY <2>1, <2>2
  <2>8. Gpt' => align' % Sector' = 0
    BY <2>1, <2>3 DEF RangeInv, Sector
  <2> QED
    BY <2>4, <2>5, <2>6, <2>7, <2>8 DEF RangeInv, Sector
<1> QED
  BY <1>1, <1>2

\* hdimage_generate() leaves the layout alone.
LEMMA RangeStill ==
    ASSUME IInv, RangeInv, Prepare \/ WriteData \/ DataDone \/ WriteTable \/ Fill \/ CheckSize
    PROVE  RangeInv'
<1> DEFINE Gone == pc' = "end" /\ ret' # "ok" /\ UNCHANGED <<conf, setupVars>>
           Going == /\ pc \in {"prepare", "data", "table", "fill", "check"}
                    /\ pc' \in {"data", "table", "fill", "check", "end"}
                    /\ UNCHANGED <<conf, ret, align, parts, extended, now, size>>
<1>1. Prepare \/ DataDone => Going
  BY DEF Prepare, DataDone, setupVars
<1>2. WriteData => Gone \/ Going
  BY DEF WriteData, Error
<1>3. WriteTable \/ Fill \/ CheckSize => Gone \/ Going
  BY DEF WriteTable, Fill, CheckSize, Error, setupVars
<1>4. CASE Gone
  BY <1>4, RangeStop
<1>5. CASE Going
  <2>1. SetupDone /\ SetupDone' /\ Laid /\ Laid' /\ pc # "fakes" /\ pc # "align" /\ pc # "end"
    BY <1>5 DEF SetupDone, Laid, IInv, TypeInv
  <2>2. Settled = Indices /\ Settled' = Indices /\ Indices' = Indices /\ Gpt' = Gpt
    BY <1>5, <2>1 DEF Settled, Gpt, Indices, SetupDone
  <2>3. AreasInv'
    BY <1>5, <2>1, GptStill DEF RangeInv
  <2>4. EntryInv'
    BY <1>5, <2>1, <2>2 DEF RangeInv, EntryInv, Solid, Ready, Sector
  <2>5. BackupInv'
    BY <1>5, <2>1, <2>2 DEF RangeInv, BackupInv, Beside, Disjoint, End
  <2>6. conf' \in Configs /\ (Gpt' => align' % Sector' = 0 /\ now' <= size')
    BY <1>5, <2>1, <2>2 DEF RangeInv, Sector
  <2> QED
    BY <2>3, <2>4, <2>5, <2>6 DEF RangeInv, Sector
<1> QED
  BY <1>1, <1>2, <1>3, <1>4, <1>5

LEMMA RangeNext == SolidEntries /\ IInv /\ RangeInv /\ [Next]_vars => RangeInv'
<1> SUFFICES ASSUME SolidEntries, IInv, RangeInv, [Next]_vars PROVE RangeInv'
  OBVIOUS
<1>1. CASE SetupAlign \/ SetupLogical
  BY <1>1, RangeEarly
<1>2. CASE SetupFakes
  BY <1>2, RangeFakes
<1>3. CASE PlacePart
  BY <1>3, RangePlace
<1>4. CASE SetupFinish
  BY <1>4, RangeFinish
<1>5. CASE Prepare \/ WriteData \/ DataDone \/ WriteTable \/ Fill \/ CheckSize
  BY <1>5, RangeStill
<1>6. CASE UNCHANGED vars
  <2>1. UNCHANGED <<conf, pc, ret, align, parts, extended, k, now, size>>
    BY <1>6 DEF vars, setupVars
  <2>2. /\ SetupDone' = SetupDone /\ Laid' = Laid /\ Settled' = Settled /\ Indices' = Indices
    BY <2>1 DEF SetupDone, Laid, Settled, Indices
  <2>3. /\ \A m, o, b : IsArea(m, o, b)' = IsArea(m, o, b)
        /\ \A m, o : IsBackup(m, o)' = IsBackup(m, o)
        /\ BackupOffset' = BackupOffset /\ GptLocation' = GptLocation /\ Gpt' = Gpt
    BY <2>1, <2>2 DEF IsArea, IsTable, IsBackup, BackupOffset, GptLocation, Gpt
  <2>4. AreasInv'
    BY <2>1, <2>2, <2>3 DEF RangeInv, AreasInv
  <2>5. EntryInv' /\ BackupInv'
    BY <2>1, <2>2, <2>3 DEF RangeInv, EntryInv, BackupInv, Solid, Ready, Beside, Disjoint, End, Sector
  <2>6. /\ conf' \in Configs
        /\ Gpt' /\ pc' \notin {"align", "end"} => align' % Sector' = 0
        /\ Gpt' /\ SetupDone' => now' <= size'
    BY <2>1, <2>2, <2>3 DEF RangeInv, Sector
  <2> QED
    BY <2>4, <2>5, <2>6 DEF RangeInv
<1> QED
  BY <1>1, <1>2, <1>3, <1>4, <1>5, <1>6 DEF Next

(* The partitions in a GPT lie within the range of usable sectors that      *)
(* hdimage_insert_gpt() puts into the headers: it begins at the end of what *)
(* lies in front of all of them, rounded up, and ends where the backup of   *)
(* the table begins.  Partitions in the table have no holes and are aligned *)
(* to sectors.                                                              *)
THEOREM GptRangeUsableHolds ==
    ASSUME SolidEntries
    PROVE  Spec => []GptRangeUsable
<1>1. Init => IInv /\ RangeInv
  BY InitHolds, RangeInit
<1>2. IInv /\ RangeInv /\ [Next]_vars => IInv' /\ RangeInv'
  BY NextHolds, RangeNext
<1>3. IInv /\ RangeInv => GptRangeUsable
  BY RangeRight DEF GptRangeUsable
<1> QED
  BY <1>1, <1>2, <1>3, PTL DEF Spec

-----------------------------------------------------------------------------
(* The size of the output file: the one that hdimage_setup() has computed,  *)
(* or that of what is written beyond it.                                    *)

Known(p) == p.size >= 0
KnownInv == Laid => \A m \in Indices \ {extended} : Known(parts[m])

\* How far hdimage_setup() counts on a partition to make the file
DataEnd(p) == IF HasImage(p) THEN p.offset + DataSize(p) ELSE 0
Reaches(p, end) ==
    DataEnd(p) <= end /\ EbrEnd(p) <= end /\ (HasImage(p) => p.offset <= end)
ReachInv ==
    \A m \in Settled \ {extended} : Reaches(parts[m], fileSize) /\ Reaches(parts[m], now)

\* ... and the table
TableEnd == IF Gpt THEN GptLocation + GptArray ELSE IF conf.type = "mbr" THEN Sector ELSE 0
SpanInv ==
    /\ fileSize \in Nat
    /\ Laid /\ pc # "fakes" => TableEnd <= fileSize /\ TableEnd <= now
    /\ SetupDone => now <= size
    /\ SetupDone /\ (conf.fill \/ (Gpt /\ ~conf.nobackup)) => fileSize = size

\* The file is as long as it is going to be, but for one that is empty.
IsLong(bytes) == bytes = fileSize \/ (fileSize = 0 /\ bytes = -1)
IsLonger(bytes) == bytes \in Int /\ fileSize < bytes /\ bytes <= now

\* How long it is once the partitions N have been written
FileAs(bytes, N) ==
    IF \E n \in N : Beyond(parts[n]) THEN IsLonger(bytes) ELSE IsLong(bytes)
Written == IF pc = "data" THEN 1..(k - 1) ELSE Indices
FileInv ==
    /\ pc = "prepare" => k = 1
    /\ pc = "data" => k <= Len(parts) + 1
    /\ pc \in {"data", "table", "fill", "check"} => FileAs(length, Written)

LengthInv ==
    /\ conf \in Configs /\ AlignInv
    /\ KnownInv /\ ReachInv /\ SpanInv /\ FileInv /\ FileSizeExact

(* The file becomes as long as the farthest write makes it.                 *)
LEMMA LongestBounds ==
    ASSUME NEW ws, NEW from \in Int, NEW top \in Int, from <= top, 0 <= top,
           \A w \in ws : w.hi \in Int /\ w.hi <= top
    PROVE  /\ Longest(ws, from) \in Int /\ from <= Longest(ws, from) /\ Longest(ws, from) <= top
           /\ \A w \in ws : w.lo # w.hi => w.hi <= Longest(ws, from)
<1> DEFINE Reach(w) == IF w.lo = w.hi THEN 0 ELSE w.hi
           ends == {from} \cup {Reach(w) : w \in ws}
           e == CHOOSE e \in ends : \A f \in ends : f <= e
<1>1. \A w \in ws : Reach(w) \in Int /\ Reach(w) <= top
  OBVIOUS
<1>2. Longest(ws, from) = e
  BY DEF Longest
<1>3. \A w \in ws : Reach(w) \in ends /\ (w.lo # w.hi => Reach(w) = w.hi)
  OBVIOUS
<1>4. \A x \in ends : x = from \/ \E w \in ws : x = Reach(w)
  OBVIOUS
<1>5. from \in ends
  OBVIOUS
<1> HIDE DEF Reach, ends
<1>6. ends \in SUBSET Int /\ \A y \in ends : y <= top
  BY <1>1, <1>4
<1>7. \E x \in ends : \A y \in ends : y <= x
  BY <1>5, <1>6, Largest
<1>8. e \in ends /\ \A y \in ends : y <= e
  BY <1>7
<1> HIDE DEF e
<1>9. e \in Int /\ from <= e /\ e <= top /\ \A w \in ws : w.lo # w.hi => w.hi <= e
  BY <1>3, <1>5, <1>6, <1>8
<1> QED
  BY <1>2, <1>9

(* Writes that end within what is counted leave the length alone.           *)
LEMMA FileStays ==
    ASSUME fileSize \in Nat, now \in Nat, NEW ws, NEW from, NEW N, FileAs(from, N),
           \A w \in ws : w.hi \in Int /\ w.hi <= fileSize
    PROVE  FileAs(Longest(ws, from), N)
<1>1. CASE \E n \in N : Beyond(parts[n])
  <2>1. IsLonger(from)
    BY <1>1 DEF FileAs
  <2>2. \A w \in ws : w.hi \in Int /\ w.hi <= now
    BY <2>1 DEF IsLonger
  <2>3. IsLonger(Longest(ws, from))
    BY <2>1, <2>2, LongestBounds DEF IsLonger
  <2> QED
    BY <1>1, <2>3 DEF FileAs
<1>2. CASE ~\E n \in N : Beyond(parts[n])
  <2>1. IsLong(from) /\ from \in Int /\ from <= fileSize
    BY <1>2 DEF FileAs, IsLong
  <2>2. /\ Longest(ws, from) \in Int /\ from <= Longest(ws, from)
        /\ Longest(ws, from) <= fileSize
    BY <2>1, LongestBounds
  <2>3. IsLong(Longest(ws, from))
    BY <2>1, <2>2 DEF IsLong
  <2> QED
    BY <1>2, <2>3 DEF FileAs
<1> QED
  BY <1>1, <1>2

LEMMA LengthInit == Init => LengthInv
<1> SUFFICES ASSUME Init PROVE LengthInv
  OBVIOUS
<1>1. ~SetupDone /\ ~Laid /\ Settled = {} /\ pc = "align" /\ ret = "ok" /\ fileSize = 0
  BY DEF Init, SetupDone, Laid, Settled
<1> QED
  BY <1>1 DEF Init, LengthInv, AlignInv, KnownInv, ReachInv, SpanInv, FileInv, FileSizeExact

\* After an error only that it was the right one is left to be said.
LEMMA LengthGone ==
    ASSUME LengthInv, pc' = "end", ret' # "ok", UNCHANGED <<conf, setupVars>>, FileSizeExact'
    PROVE  LengthInv'
<1>1. ~SetupDone' /\ ~Laid' /\ Settled' = {} /\ fileSize' = fileSize
  BY DEF SetupDone, Laid, Settled, setupVars
<1> QED
  BY <1>1 DEF LengthInv, AlignInv, KnownInv, ReachInv, SpanInv, FileInv

LEMMA LengthStop ==
    ASSUME LengthInv, pc' = "end", UNCHANGED <<conf, setupVars>>,
           ret' \notin {"ok", "unexpected output file size", "stat of the output file failed",
                        "output file is larger than requested size"}
    PROVE  LengthInv'
<1>1. FileSizeExact'
  BY DEF FileSizeExact
<1> QED
  BY <1>1, LengthGone

\* Before the end there is nothing to be said of the result.
LEMMA LengthSilent ==
    ASSUME IInv, pc # "end", pc' # "end", ret' = ret
    PROVE  FileSizeExact'
<1>1. ret' = "ok"
  BY DEF IInv, TypeInv
<1> QED
  BY <1>1 DEF FileSizeExact

\* The align of the image, and which partitions there are
LEMMA LengthEarly ==
    ASSUME IInv, LengthInv, SetupAlign \/ SetupLogical
    PROVE  LengthInv'
<1>1. CASE pc' = "end"
  <2>1. /\ UNCHANGED <<conf, setupVars>>
        /\ ret' \notin {"ok", "unexpected output file size", "stat of the output file failed",
                        "output file is larger than requested size"}
    BY <1>1 DEF SetupAlign, SetupLogical, Error
  <2> QED
    BY <1>1, <2>1, LengthStop
<1>2. CASE pc' # "end"
  <2>1. /\ pc \in {"align", "logical"} /\ pc' \in {"logical", "fakes"}
        /\ UNCHANGED <<conf, ret, fileSize>>
        /\ pc' = "fakes" => pc = "logical"
        /\ pc = "logical" => align' = align /\ SetupLogical
        /\ pc = "align" => align' = (IF conf.align = 0 THEN (IF conf.type = "none" THEN 1 ELSE Sector)
                                     ELSE conf.align)
        /\ pc = "align" /\ conf.type # "none" => align' % Sector = 0
    BY <1>2 DEF SetupAlign, SetupLogical, Error, setupVars
  <2>2. ~SetupDone' /\ Settled' = {} /\ (~Laid' \/ pc' = "fakes")
    BY <2>1 DEF SetupDone, Laid, Settled
  <2>3. AlignInv'
    <3>1. CASE pc = "align"
      <4>1. align' \in Nat \ {0}
        <5>1. align' \in Nat
          BY <2>1, <3>1, ConfType DEF IInv, TypeInv, Sector
        <5>2. align' # 0
          BY <2>1, <3>1 DEF Sector
        <5> QED
          BY <5>1, <5>2
      <4>2. \A x \in Nat \ {0} : x % 512 = 0 => x >= 512
        BY Z3
      <4> QED
        BY <2>1, <3>1, <4>1, <4>2 DEF AlignInv, Sector
    <3>2. CASE pc = "logical"
      BY <2>1, <3>2 DEF LengthInv, AlignInv, Sector
    <3> QED
      BY <2>1, <3>1, <3>2
  <2>4. KnownInv'
    <3>1. CASE pc' # "fakes"
      BY <2>2, <3>1 DEF KnownInv
    <3>2. CASE pc' = "fakes"
      <4>1. \A m \in Indices' \ {extended'} : Sourced(parts'[m])
        BY <1>2, <2>1, <3>2, LogicalStep
      <4>2. ASSUME NEW p, Sourced(p) PROVE Known(p)
        <5>1. PICK n \in DOMAIN conf.parts : p.size = conf.parts[n].size
          BY <4>2 DEF Sourced
        <5>2. conf.parts[n] \in PartConf
          <6>1. conf.parts \in Seq(PartConf)
            BY ConfType DEF IInv, TypeInv
          <6> QED
            BY <6>1
        <5>3. conf.parts[n].size >= 0
          BY <5>2 DEF PartConf
        <5> QED
          BY <5>1, <5>3 DEF Known
      <4> QED
        BY <4>1, <4>2 DEF KnownInv, Known
    <3> QED
      BY <3>1, <3>2
  <2>5. ReachInv' /\ FileInv'
    BY <2>1, <2>2 DEF ReachInv, FileInv
  <2>6. SpanInv'
    BY <2>1, <2>2 DEF LengthInv, SpanInv
  <2>7. FileSizeExact' /\ conf' \in Configs
    BY <2>1, LengthSilent DEF LengthInv
  <2> QED
    BY <2>3, <2>4, <2>5, <2>6, <2>7 DEF LengthInv
<1> QED
  BY <1>1, <1>2

\* The areas of the table are where the file begins.
LEMMA LengthFakes ==
    ASSUME IInv, LengthInv, SetupFakes
    PROVE  LengthInv'
<1>1. /\ pc = "fakes" /\ pc' = "place" /\ k' = 1
      /\ UNCHANGED <<conf, ret, align, extended, size>>
  BY DEF SetupFakes, IInv, TypeInv
<1>2. ~SetupDone' /\ Laid /\ Settled' = {} /\ Gpt' = Gpt /\ TableEnd' = TableEnd
  BY <1>1 DEF SetupDone, Laid, Settled, Gpt, TableEnd, GptLocation, GptArray, Sector
<1>3. \A m \in Indices' \ Indices : Known(parts'[m])
  BY FakesStep DEF PartInv, Known
<1>4. \A m \in Indices : parts'[m] = parts[m]
  <2>1. PICK fakes : parts' = parts \o fakes
    BY DEF SetupFakes
  <2>2. parts \in Seq(AnyPart) /\ Len(parts) \in Nat
    BY DEF IInv, TypeInv
  <2> QED
    BY <2>1, <2>2 DEF Indices
<1>5. KnownInv'
  <2>1. \A m \in Indices \ {extended} : Known(parts[m])
    BY <1>2 DEF LengthInv, KnownInv
  <2>2. \A m \in Indices' \ {extended} : Known(parts'[m])
    BY <1>3, <1>4, <2>1
  <2> QED
    BY <1>1, <2>2 DEF KnownInv, Known
<1>6. fileSize' = TableEnd /\ now' = TableEnd /\ TableEnd \in Nat
  <2>1. CASE Gpt
    <3>1. now' = End(Fake("array", GptLocation, (GptSectors - 1) * Sector)) /\ fileSize' = now'
      BY <2>1 DEF SetupFakes, Gpt
    <3>2. End(Fake("array", GptLocation, (GptSectors - 1) * Sector)) = GptLocation + (GptSectors - 1) * Sector
      BY DEF End, Fake
    <3>3. (GptSectors - 1) * Sector = 16384 /\ GptArray = 16384
      BY DEF GptSectors, Sector, GptArray
    <3>4. GptLocation \in Nat
      BY ConfType DEF IInv, TypeInv, GptLocation, Sector
    <3> QED
      BY <2>1, <3>1, <3>2, <3>3, <3>4 DEF TableEnd
  <2>2. CASE conf.type = "mbr"
    <3>1. now' = End(Fake("mbr", Sector - MbrTail, MbrTail)) /\ fileSize' = now'
      BY <2>2 DEF SetupFakes, Gpt
    <3>2. End(Fake("mbr", Sector - MbrTail, MbrTail)) = 512
      BY DEF End, Fake, Sector, MbrTail
    <3> QED
      BY <2>2, <3>1, <3>2 DEF TableEnd, Gpt, Sector
  <2>3. CASE conf.type = "none"
    BY <2>3 DEF SetupFakes, Gpt, TableEnd
  <2>4. conf.type \in {"none", "mbr", "gpt", "hybrid"}
    BY DEF IInv, TypeInv, Conf
  <2> QED
    BY <2>1, <2>2, <2>3, <2>4 DEF Gpt
<1>7. SpanInv'
  BY <1>2, <1>6 DEF SpanInv
<1>8. ReachInv' /\ FileInv' /\ FileSizeExact' /\ AlignInv' /\ conf' \in Configs
  BY <1>1, <1>2, LengthSilent DEF LengthInv, ReachInv, FileInv, AlignInv, Sector
<1> QED
  BY <1>5, <1>7, <1>8 DEF LengthInv

\* What a partition makes of the file is counted, and within what is placed.
LEMMA LengthPlace ==
    ASSUME IInv, LengthInv, PlacePart
    PROVE  LengthInv'
<1>1. CASE Error("partition cannot be placed")
  BY <1>1, LengthStop DEF Error
<1>2. CASE ~Error("partition cannot be placed")
  <2>1. PICK p : p = Placed(parts[k])
    OBVIOUS
  <2>2. /\ Accepted(p) /\ PartsWith(p) /\ now' = Advance(p) /\ k' = k + 1
        /\ fileSize' = MaxOf(fileSize, MaxOf(IF HasImage(p) THEN p.offset + DataSize(p) ELSE 0, EbrEnd(p)))
        /\ pc = "place" /\ k <= Len(parts)
        /\ UNCHANGED <<conf, pc, ret, align, extended, size>>
    BY <1>2, <2>1 DEF PlacePart, PartsWith
  <2>3. /\ Indices = 1..Len(parts) /\ k \in Indices /\ Len(parts) \in Nat /\ k \in Nat \ {0}
        /\ now \in Nat /\ align \in Nat \ {0} /\ Kept(p, parts[k])
        /\ parts[k] \in AnyPart /\ p \in AnyPart /\ p.align # 0
        /\ p.offset \in Int /\ p.size \in Int /\ End(p) = p.offset + p.size
        /\ p.logical => extended # 0 /\ extended < k
        /\ now' \in Nat /\ now' >= now /\ now' >= End(p)
    BY <2>1, <2>2, PlaceChanges
  <2>4. /\ Indices' = Indices /\ parts'[k] = p
        /\ ~SetupDone /\ ~SetupDone' /\ Laid /\ Laid' /\ Settled = 1..(k - 1) /\ Settled' = 1..k
        /\ \A m \in Indices : m # k /\ (m # extended \/ ~p.logical) => parts'[m] = parts[m]
    BY <2>1, <2>2, PlaceChanges
  <2>5. \A m \in Indices \ {extended} : m # k => parts'[m] = parts[m]
    BY <2>4
  <2>6. DataSize(p) \in Int /\ DataEnd(p) \in Int /\ EbrEnd(p) \in Int
    <3>1. DataSize(p) \in Int
      BY <2>3 DEF DataSize, AnyPart
    <3>2. EbrEnd(p) \in Int
      BY <2>3 DEF EbrEnd, Sector
    <3> QED
      BY <2>3, <3>1, <3>2 DEF DataEnd
  <2>7. /\ fileSize \in Nat /\ fileSize' \in Nat /\ fileSize <= fileSize'
        /\ DataEnd(p) <= fileSize' /\ EbrEnd(p) <= fileSize'
        /\ HasImage(p) => p.offset <= DataEnd(p)
    <3>1. fileSize \in Nat
      BY DEF LengthInv, SpanInv
    <3>2. fileSize' = MaxOf(fileSize, MaxOf(DataEnd(p), EbrEnd(p)))
      BY <2>2 DEF DataEnd
    <3>3. HasImage(p) => DataSize(p) >= 0
      BY <2>2, <2>3, <2>6 DEF Accepted, ImageFits
    <3>4. HasImage(p) => p.offset <= DataEnd(p)
      BY <2>3, <2>6, <3>3 DEF DataEnd
    <3> QED
      BY <2>6, <3>1, <3>2, <3>4 DEF MaxOf
  <2>8. ASSUME k # extended PROVE Known(p) /\ DataEnd(p) <= now' /\ EbrEnd(p) <= now'
    <3>1. Known(parts[k])
      BY <2>3, <2>4, <2>8 DEF LengthInv, KnownInv
    <3>2. p.size >= 0
      <4>1. CanResize(WithOffset(WithAlign(parts[k]))) /\ ImageFits(Placed(parts[k]))
        BY <2>1, <2>2 DEF Accepted
      <4> QED
        BY <2>1, <2>3, <3>1, <4>1, PlacedSize DEF IInv, Known
    <3>3. Known(p)
      BY <3>2 DEF Known
    <3>4. DataEnd(p) <= now'
      <4>1. CASE HasImage(p)
        <5>1. DataSize(p) \in 0..p.size
          BY <2>2, <4>1 DEF Accepted, ImageFits
        <5> QED
          BY <2>3, <2>6, <4>1, <5>1 DEF DataEnd
      <4>2. CASE ~HasImage(p)
        BY <2>3, <4>2 DEF DataEnd
      <4> QED
        BY <4>1, <4>2
    <3>5. EbrEnd(p) <= now'
      <4>1. CASE p.logical
        <5>1. align >= 512
          <6>1. conf.type = "mbr"
            BY <2>3, <2>4, <4>1 DEF IInv, LayoutInv, ExtendedInv
          <6> QED
            BY <2>2, <6>1 DEF LengthInv, AlignInv, Sector
        <5> QED
          BY <2>3, <3>2, <4>1, <5>1 DEF EbrEnd, Sector
      <4>2. CASE ~p.logical
        BY <2>3, <4>2 DEF EbrEnd
      <4> QED
        BY <4>1, <4>2
    <3> QED
      BY <3>3, <3>4, <3>5
  <2>9. KnownInv'
    <3>1. \A m \in Indices \ {extended} : Known(parts'[m])
      BY <2>4, <2>5, <2>8 DEF LengthInv, KnownInv
    <3> QED
      BY <2>2, <2>4, <3>1 DEF KnownInv, Known
  <2>10. ReachInv'
    <3>1. ASSUME NEW m \in Settled' \ {extended}
          PROVE  /\ DataEnd(parts'[m]) <= fileSize' /\ EbrEnd(parts'[m]) <= fileSize'
                 /\ DataEnd(parts'[m]) <= now' /\ EbrEnd(parts'[m]) <= now'
                 /\ HasImage(parts'[m]) => parts'[m].offset <= fileSize' /\ parts'[m].offset <= now'
      <4>1. CASE m = k
        BY <2>3, <2>4, <2>6, <2>7, <2>8, <3>1, <4>1
      <4>2. CASE m # k
        <5>1. m \in Settled \ {extended} /\ m \in Indices
          BY <2>3, <2>4, <3>1, <4>2
        <5>2. PICK q : q = parts[m] /\ q = parts'[m]
          BY <2>5, <4>2, <5>1
        <5>3. /\ DataEnd(q) <= fileSize /\ EbrEnd(q) <= fileSize
              /\ DataEnd(q) <= now /\ EbrEnd(q) <= now
              /\ HasImage(q) => q.offset <= fileSize /\ q.offset <= now
          BY <5>1, <5>2 DEF LengthInv, ReachInv, Reaches
        <5>4. DataEnd(q) \in Int /\ EbrEnd(q) \in Int /\ q.offset \in Int
          <6>1. q \in AnyPart
            BY <2>1, <2>2, <5>1, <5>2, PlaceChanges
          <6>2. DataSize(q) \in Int /\ q.offset \in Int
            BY <6>1 DEF DataSize, AnyPart
          <6> QED
            BY <2>3, <6>2 DEF DataEnd, EbrEnd, Sector
        <5> QED
          BY <2>3, <2>7, <5>2, <5>3, <5>4
      <4> QED
        BY <4>1, <4>2
    <3> QED
      BY <2>2, <3>1 DEF ReachInv, Reaches, DataEnd, EbrEnd, HasImage, DataSize, Sector
  <2>11. SpanInv'
    <3>1. TableEnd' = TableEnd /\ TableEnd \in Nat
      <4>1. GptLocation \in Nat
        BY ConfType DEF IInv, TypeInv, GptLocation, Sector
      <4> QED
        BY <2>2, <4>1 DEF TableEnd, Gpt, GptLocation, GptArray, Sector
    <3>2. TableEnd <= fileSize /\ TableEnd <= now
      BY <2>2, <2>4 DEF LengthInv, SpanInv
    <3> QED
      BY <2>3, <2>4, <2>7, <3>1, <3>2 DEF SpanInv
  <2>12. FileInv' /\ FileSizeExact' /\ AlignInv' /\ conf' \in Configs
    BY <2>2, LengthSilent DEF LengthInv, FileInv, AlignInv, Sector
  <2> QED
    BY <2>9, <2>10, <2>11, <2>12 DEF LengthInv
<1> QED
  BY <1>1, <1>2

\* A file of the size of the image holds all of it.
LEMMA LengthFinish ==
    ASSUME IInv, LengthInv, SetupFinish
    PROVE  LengthInv'
<1>1. CASE pc' = "end"
  BY <1>1, LengthStop DEF SetupFinish, Error
<1>2. CASE pc' # "end"
  <2>1. /\ pc = "place" /\ k > Len(parts) /\ pc' = "prepare"
        /\ UNCHANGED <<conf, ret, align, parts, extended, now>> /\ k' = 1
        /\ size' = IF size = 0 THEN now ELSE size
        /\ fileSize' = IF conf.fill \/ (Gpt /\ ~conf.nobackup) THEN size' ELSE fileSize
        /\ ~(size > 0 /\ now > size)
    BY <1>2 DEF SetupFinish, Error, FinalFileSize
  <2>2. /\ k \in Nat \ {0} /\ k <= Len(parts) + 1 /\ Len(parts) \in Nat
        /\ Indices = 1..Len(parts) /\ now \in Nat /\ size \in Nat /\ align \in Nat
        /\ \A m \in Indices : parts[m] \in AnyPart
    <3>1. /\ k \in Nat \ {0} /\ k <= Len(parts) + 1 /\ parts \in Seq(AnyPart)
          /\ now \in Nat /\ size \in Nat /\ align \in Nat
      BY <2>1 DEF IInv, TypeInv
    <3> QED
      BY <3>1 DEF Indices
  <2>3. /\ Laid /\ Laid' /\ SetupDone' /\ ~SetupDone /\ Gpt' = Gpt /\ TableEnd' = TableEnd
        /\ Settled = Indices /\ Settled' = Indices /\ Indices' = Indices
    BY <2>1, <2>2 DEF SetupDone, Laid, Settled, Gpt, Indices, TableEnd, GptLocation, GptArray, Sector
  <2>4. fileSize \in Nat /\ fileSize' \in Nat /\ (fileSize' = fileSize \/ now <= fileSize')
    BY <2>1, <2>2 DEF LengthInv, SpanInv
  <2>5. ReachInv'
    <3>1. ASSUME NEW m \in Settled \ {extended}
          PROVE  /\ DataEnd(parts[m]) <= fileSize' /\ EbrEnd(parts[m]) <= fileSize'
                 /\ HasImage(parts[m]) => parts[m].offset <= fileSize'
      <4>1. /\ DataEnd(parts[m]) <= fileSize /\ EbrEnd(parts[m]) <= fileSize
            /\ DataEnd(parts[m]) <= now /\ EbrEnd(parts[m]) <= now
            /\ HasImage(parts[m]) => parts[m].offset <= fileSize /\ parts[m].offset <= now
        BY <3>1 DEF LengthInv, ReachInv, Reaches
      <4>2. DataEnd(parts[m]) \in Int /\ EbrEnd(parts[m]) \in Int /\ parts[m].offset \in Int
        <5>1. parts[m] \in AnyPart
          BY <2>2, <2>3, <3>1
        <5>2. DataSize(parts[m]) \in Int /\ parts[m].offset \in Int
          BY <5>1 DEF DataSize, AnyPart
        <5> QED
          BY <2>2, <5>2 DEF DataEnd, EbrEnd, Sector
      <4> QED
        BY <2>2, <2>4, <4>1, <4>2
    <3> QED
      BY <2>1, <2>3, <3>1 DEF LengthInv, ReachInv, Reaches, DataEnd, EbrEnd, HasImage, DataSize, Sector
  <2>6. SpanInv'
    <3>1. TableEnd <= fileSize /\ TableEnd <= now /\ TableEnd \in Nat
      <4>1. GptLocation \in Nat
        BY ConfType DEF IInv, TypeInv, GptLocation, Sector
      <4>2. TableEnd \in Nat
        BY <4>1 DEF TableEnd, GptArray, Sector
      <4> QED
        BY <2>1, <2>3, <4>2 DEF LengthInv, SpanInv
    <3>2. TableEnd <= fileSize' /\ now' <= size'
      BY <2>1, <2>2, <2>4, <3>1
    <3> QED
      BY <2>1, <2>3, <2>4, <3>1, <3>2 DEF SpanInv
  <2>7. KnownInv'
    BY <2>1, <2>3 DEF LengthInv, KnownInv, Known
  <2>8. FileInv' /\ FileSizeExact' /\ AlignInv' /\ conf' \in Configs
    BY <2>1, LengthSilent DEF LengthInv, FileInv, AlignInv, Sector
  <2> QED
    BY <2>5, <2>6, <2>7, <2>8 DEF LengthInv
<1> QED
  BY <1>1, <1>2

(* What generate changes of the invariant is the length of the file, in     *)
(* time; after a last step without an error it has been found right.        *)
LEMMA LengthStill ==
    ASSUME IInv, LengthInv, SetupDone, SetupDone', pc # "end",
           UNCHANGED <<conf, ret, align, parts, extended, now, size, fileSize>>,
           pc' # "prepare", pc' = "data" => k' <= Len(parts) + 1,
           pc' \in {"data", "table", "fill", "check"} => FileAs(length', Written'),
           pc' = "end" => \A n \in Indices : ~Beyond(parts[n])
    PROVE  LengthInv'
<1>1. /\ Laid /\ Laid' /\ pc # "fakes" /\ pc # "align" /\ pc' # "fakes" /\ Gpt' = Gpt
      /\ TableEnd' = TableEnd
      /\ Settled = Indices /\ Settled' = Indices /\ Indices' = Indices
  BY DEF SetupDone, Laid, Settled, Indices, Gpt, TableEnd, GptLocation, GptArray, Sector
<1>2. KnownInv'
  BY <1>1 DEF LengthInv, KnownInv, Known
<1>3. ReachInv'
  BY <1>1 DEF LengthInv, ReachInv, Reaches, DataEnd, EbrEnd, HasImage, DataSize, Sector
<1>4. SpanInv'
  BY <1>1 DEF LengthInv, SpanInv
<1>5. FileInv'
  <2>1. \A x : (FileAs(length', x) => (FileAs(length, x))')
    BY DEF FileAs, IsLong, IsLonger, Beyond, HasImage, WrittenTo
  <2> QED
    BY <2>1 DEF FileInv
<1>6. FileSizeExact' /\ AlignInv' /\ conf' \in Configs
  <2>1. ret' = "ok"
    BY DEF IInv, TypeInv
  <2>2. pc' = "end" => \A n \in Indices' : ~Beyond(parts[n])'
    BY <1>1 DEF Beyond, HasImage, WrittenTo
  <2>3. FileSizeExact'
    BY <2>1, <2>2 DEF FileSizeExact
  <2> QED
    BY <1>1, <2>3 DEF LengthInv, AlignInv, Sector
<1> QED
  BY <1>2, <1>3, <1>4, <1>5, <1>6 DEF LengthInv

\* An image begins, and as far as it has been counted also ends, in the file.
LEMMA ImageReach ==
    ASSUME IInv, LengthInv, SetupDone, NEW n \in Indices, NEW p, p = parts[n],
           p.logical \/ HasImage(p)
    PROVE  /\ p \in AnyPart /\ p.offset \in Int /\ p.size \in Int /\ p.size >= 0
           /\ p.data \in Nat /\ p.imageoffset \in Nat /\ p.child \in Int
           /\ p.fill \in BOOLEAN /\ p.logical \in BOOLEAN
           /\ p.offset + p.size <= now /\ EbrEnd(p) <= fileSize /\ DataEnd(p) <= fileSize
           /\ HasImage(p) => p.offset <= fileSize
<1>1. /\ parts \in Seq(AnyPart) /\ extended \in 0..Len(parts) /\ Indices = 1..Len(parts)
      /\ Settled = Indices /\ Laid
  BY DEF IInv, TypeInv, Indices, SetupDone, Settled, Laid
<1>2. p \in AnyPart
  BY <1>1 DEF Indices
<1>3. n # extended
  <2>1. extended = n => ~parts[n].logical /\ parts[n].child = -1
    BY <1>1 DEF IInv, LayoutInv, ExtendedInv
  <2> QED
    BY <2>1 DEF HasImage
<1>4. p.size >= 0 /\ Reaches(p, fileSize)
  BY <1>1, <1>3 DEF LengthInv, KnownInv, Known, ReachInv
<1>5. End(p) <= now
  BY <1>1, <1>3 DEF IInv, LayoutInv, EndInv
<1>6. /\ p.offset \in Int /\ p.size \in Int /\ p.data \in Nat /\ p.imageoffset \in Nat
      /\ p.child \in Int /\ p.fill \in BOOLEAN /\ p.logical \in BOOLEAN
  BY <1>2 DEF AnyPart
<1> QED
  BY <1>2, <1>4, <1>5, <1>6 DEF Reaches, End

(* What is written within the file leaves its length alone; the data of a   *)
(* partition that goes beyond it makes it longer, but not than the image.   *)
LEMMA LengthWrite ==
    ASSUME IInv, LengthInv, WriteData
    PROVE  LengthInv'
<1>1. CASE pc' = "end" /\ ret' = "image and partition do not fit" /\ UNCHANGED <<conf, setupVars>>
  BY <1>1, LengthStop
<1>2. CASE pc' = pc
  <2>1. PICK p, bytes : p = parts[k] /\ bytes = p.data - p.imageoffset
    OBVIOUS
  <2>2. /\ pc = "data" /\ k <= Len(parts) /\ k' = k + 1
        /\ UNCHANGED <<conf, ret, align, parts, extended, now, size, fileSize>>
        /\ \/ (~HasImage(p) \/ (p.data = 0 /\ ~p.fill)) /\ Write(Ebr(p))
           \/ /\ HasImage(p) /\ bytes \in 0..p.size
              /\ Write(Append(Ebr(p), Extent(p.offset, IF p.fill THEN p.size ELSE bytes, k)))
    BY ZenonT(60), <1>2, <2>1 DEF WriteData
  <2>3. /\ k \in Indices /\ k \in Nat \ {0} /\ align \in Nat /\ now \in Nat
        /\ SetupDone /\ SetupDone' /\ Len(parts) \in Nat
    <3>1. /\ k \in Nat \ {0} /\ parts \in Seq(AnyPart) /\ align \in Nat /\ now \in Nat
      BY <2>2 DEF IInv, TypeInv
    <3> QED
      BY <1>2, <2>2, <3>1 DEF SetupDone, Indices
  <2>4. fileSize \in Nat /\ FileAs(length, 1..(k - 1))
    BY <2>2 DEF LengthInv, SpanInv, FileInv, Written
  <2>5. p.logical \/ HasImage(p) =>
           /\ p \in AnyPart /\ p.offset \in Int /\ p.size \in Int /\ p.size >= 0
           /\ p.data \in Nat /\ p.imageoffset \in Nat /\ p.child \in Int
           /\ p.fill \in BOOLEAN /\ p.logical \in BOOLEAN
           /\ p.offset + p.size <= now /\ EbrEnd(p) <= fileSize /\ DataEnd(p) <= fileSize
           /\ HasImage(p) => p.offset <= fileSize
    BY <2>1, <2>3, ImageReach
  <2>6. \A i \in DOMAIN Ebr(p) : Ebr(p)[i].hi \in Int /\ Ebr(p)[i].hi <= fileSize
    <3>1. CASE p.logical
      <4>1. Extent(p.offset - align + 446, 66, 0).hi = p.offset - align + 446 + 66
        BY DEF Extent
      <4>2. p.offset - align + 446 + 66 = EbrEnd(p) /\ EbrEnd(p) \in Int
        BY <2>3, <2>5, <3>1 DEF EbrEnd, Sector
      <4>3. PICK x : x = Extent(p.offset - align + 446, 66, 0)
        OBVIOUS
      <4>4. Ebr(p) = <<x>>
        BY <3>1, <4>3 DEF Ebr
      <4>5. x.hi \in Int /\ x.hi <= fileSize
        BY <2>5, <3>1, <4>1, <4>2, <4>3
      <4> QED
        BY <4>4, <4>5
    <3>2. CASE ~p.logical
      <4>1. Ebr(p) = <<>>
        BY <3>2 DEF Ebr
      <4> QED
        BY <4>1
    <3> QED
      BY <3>1, <3>2
  <2>7. ASSUME HasImage(p), Write(Append(Ebr(p), Extent(p.offset, IF p.fill THEN p.size ELSE bytes, k)))
        PROVE  \E set, y : /\ length' = Longest(set, length)
                           /\ y \in set /\ y.lo = p.offset /\ y.hi = WrittenTo(p)
                           /\ \A w \in set : w = y \/ (w.hi \in Int /\ w.hi <= fileSize)
    <3>1. PICK y : y = Extent(p.offset, IF p.fill THEN p.size ELSE bytes, k)
      OBVIOUS
    <3>2. y.lo = p.offset /\ y.hi = WrittenTo(p)
      BY <2>1, <3>1 DEF Extent, WrittenTo
    <3>3. PICK s : Ebr(p) \in Seq(s) /\ y \in s
      <4>1. PICK x : x = Extent(p.offset - align + 446, 66, 0)
        OBVIOUS
      <4>2. Ebr(p) = <<x>> \/ Ebr(p) = <<>>
        BY <4>1 DEF Ebr
      <4>3. <<x>> \in Seq({x, y}) /\ <<>> \in Seq({x, y})
        OBVIOUS
      <4>4. Ebr(p) \in Seq({x, y}) /\ y \in {x, y}
        BY <4>2, <4>3
      <4> QED
        BY <4>4
    <3> DEFINE e == Ebr(p)
               ws == Append(e, y)
               set == {ws[i] : i \in DOMAIN ws}
    <3>4. e \in Seq(s) /\ y \in s /\ \A i \in DOMAIN e : e[i].hi \in Int /\ e[i].hi <= fileSize
      BY <2>6, <3>3
    <3>5. length' = Longest(set, length)
      BY <2>7, <3>1 DEF Write
    <3> HIDE DEF e
    <3>6. /\ \A i \in DOMAIN ws : ws[i] = y \/ (i \in DOMAIN e /\ ws[i] = e[i])
          /\ Len(ws) \in DOMAIN ws /\ ws[Len(ws)] = y
      BY <3>4
    <3> HIDE DEF ws
    <3>7. y \in set /\ \A w \in set : w = y \/ (w.hi \in Int /\ w.hi <= fileSize)
      BY <3>4, <3>6
    <3> HIDE DEF set
    <3> QED
      BY <3>2, <3>5, <3>7
  <2>8. FileAs(length', 1..k)
    <3>1. CASE ~Beyond(p)
      <4>1. PICK set : /\ length' = Longest(set, length)
                       /\ \A w \in set : w.hi \in Int /\ w.hi <= fileSize
        <5>1. CASE Write(Ebr(p))
          <6> DEFINE e == Ebr(p)
                     set == {e[i] : i \in DOMAIN e}
          <6>1. length' = Longest(set, length)
            BY <5>1 DEF Write
          <6>2. \A w \in set : w.hi \in Int /\ w.hi <= fileSize
            BY <2>6
          <6> HIDE DEF set
          <6> QED
            BY <6>1, <6>2
        <5>2. CASE ~Write(Ebr(p))
          <6>1. PICK set, y : /\ length' = Longest(set, length)
                              /\ y \in set /\ y.lo = p.offset /\ y.hi = WrittenTo(p)
                              /\ \A w \in set : w = y \/ (w.hi \in Int /\ w.hi <= fileSize)
            BY <2>2, <2>7, <5>2
          <6>2. WrittenTo(p) \in Int /\ WrittenTo(p) <= fileSize
            <7>1. HasImage(p) /\ WrittenTo(p) \in Int
              BY <2>2, <2>5, <5>2 DEF WrittenTo
            <7> QED
              BY <2>4, <3>1, <7>1 DEF Beyond
          <6> QED
            BY <6>1, <6>2
        <5> QED
          BY <5>1, <5>2
      <4>2. FileAs(length', 1..(k - 1))
        BY <2>3, <2>4, <4>1, FileStays
      <4>3. (\E n \in 1..k : Beyond(parts[n])) <=> (\E n \in 1..(k - 1) : Beyond(parts[n]))
        <5>1. 1..k = 1..(k - 1) \cup {k}
          BY <2>3
        <5> QED
          BY <2>1, <3>1, <5>1
      <4> QED
        BY <4>2, <4>3 DEF FileAs
    <3>2. CASE Beyond(p)
      <4>1. HasImage(p) /\ WrittenTo(p) \in Int /\ WrittenTo(p) > fileSize
        BY <2>5, <3>2 DEF Beyond, WrittenTo
      <4>2. ~(p.data = 0 /\ ~p.fill)
        BY <2>4, <2>5, <4>1 DEF WrittenTo
      <4>3. bytes \in 0..p.size /\ Write(Append(Ebr(p), Extent(p.offset, IF p.fill THEN p.size ELSE bytes, k)))
        BY <2>2, <4>1, <4>2
      <4>4. WrittenTo(p) <= now
        BY <2>1, <2>3, <2>5, <4>1, <4>3 DEF WrittenTo
      <4>5. PICK set, y : /\ length' = Longest(set, length)
                          /\ y \in set /\ y.lo = p.offset /\ y.hi = WrittenTo(p)
                          /\ \A w \in set : w = y \/ (w.hi \in Int /\ w.hi <= fileSize)
        BY <2>7, <4>1, <4>3
      <4>6. \A w \in set : w.hi \in Int /\ w.hi <= now
        BY <2>3, <2>4, <4>1, <4>4, <4>5
      <4>7. length \in Int /\ length <= now
        BY <2>3, <2>4, <4>1, <4>4 DEF FileAs, IsLong, IsLonger
      <4>8. /\ Longest(set, length) \in Int /\ Longest(set, length) <= now
            /\ y.hi <= Longest(set, length)
        <5>1. y.lo # y.hi
          BY <2>4, <2>5, <4>1, <4>5
        <5> QED
          BY <2>3, <4>5, <4>6, <4>7, <5>1, LongestBounds
      <4>9. IsLonger(length')
        BY <2>4, <4>1, <4>5, <4>8 DEF IsLonger
      <4>10. \E n \in 1..k : Beyond(parts[n])
        BY <2>1, <2>3, <3>2
      <4> QED
        BY <4>9, <4>10 DEF FileAs
    <3> QED
      BY <3>1, <3>2
  <2>9. Written' = 1..k /\ k' <= Len(parts) + 1
    BY <1>2, <2>2, <2>3 DEF Written
  <2> QED
    BY <1>2, <2>2, <2>3, <2>8, <2>9, LengthStill
<1> QED
  BY ZenonT(60), <1>1, <1>2 DEF WriteData

\* The table is written within the file, too.
LEMMA TableWithin ==
    ASSUME IInv, LengthInv, pc = "table"
    PROVE  \A i \in DOMAIN TableWrites : TableWrites[i].hi \in Int /\ TableWrites[i].hi <= fileSize
<1>1. /\ fileSize \in Nat /\ size \in Nat /\ TableEnd <= fileSize
      /\ Gpt /\ ~conf.nobackup => fileSize = size
  BY DEF IInv, TypeInv, LengthInv, SpanInv, SetupDone, Laid
<1>2. /\ Sector = 512 /\ GptHeader = 92 /\ GptArray = 16384 /\ MbrTail = 72 /\ BackupSize = 16896
  BY DEF Sector, GptHeader, GptArray, MbrTail, BackupSize, GptSectors
<1>3. GptLocation \in Nat /\ GptLocation > 0
  BY ConfType DEF IInv, TypeInv, GptLocation, Sector
<1>4. PICK w1, w2, w3, w4, w5 :
         /\ w1 = Extent(Sector, GptHeader, 0)
         /\ w2 = Extent(GptLocation, GptArray, 0)
         /\ w3 = Extent(size - BackupSize, GptArray, 0)
         /\ w4 = Extent(size - Sector, GptHeader, 0)
         /\ w5 = Extent(Sector - MbrTail, MbrTail, 0)
  OBVIOUS
<1>5. /\ w1.hi = 604 /\ w2.hi = GptLocation + 16384 /\ w3.hi = size - 16896 + 16384
      /\ w4.hi = size - 512 + 92 /\ w5.hi = 512
  BY <1>2, <1>4 DEF Extent
<1> DEFINE Fits(w) == w.hi \in Int /\ w.hi <= fileSize
<1>6. CASE conf.type = "none"
  <2>1. TableWrites = <<>>
    BY <1>6 DEF TableWrites, Gpt
  <2> QED
    BY <2>1
<1>7. CASE conf.type = "mbr"
  <2>1. TableWrites = <<w5>>
    BY <1>4, <1>7 DEF TableWrites, Gpt
  <2>2. Fits(w5)
    BY <1>1, <1>2, <1>5, <1>7 DEF TableEnd, Gpt
  <2> QED
    BY <2>1, <2>2
<1>8. CASE Gpt
  <2>1. GptLocation + 16384 <= fileSize
    BY <1>1, <1>2, <1>8 DEF TableEnd
  <2>2. Fits(w1) /\ Fits(w2) /\ Fits(w5)
    BY <1>1, <1>3, <1>5, <2>1
  <2>3. conf.type # "none" /\ conf.type # "mbr"
    BY <1>8 DEF Gpt
  <2> HIDE DEF Fits
  <2>4. CASE conf.nobackup
    <3> DEFINE ws == <<w1, w2>> \o <<>> \o <<w5>>
    <3>1. TableWrites = ws
      BY <1>4, <1>8, <2>3, <2>4 DEF TableWrites
    <3>2. DOMAIN ws = 1..3 /\ ws[1] = w1 /\ ws[2] = w2 /\ ws[3] = w5
      OBVIOUS
    <3> HIDE DEF ws
    <3>3. \A i \in DOMAIN ws : Fits(ws[i])
      BY <2>2, <3>2
    <3> QED
      BY <3>1, <3>3 DEF Fits
  <2>5. CASE ~conf.nobackup
    <3> DEFINE ws == <<w1, w2>> \o <<w3, w4>> \o <<w5>>
    <3>1. TableWrites = ws
      BY <1>4, <1>8, <2>3, <2>5 DEF TableWrites
    <3>2. /\ DOMAIN ws = 1..5 /\ ws[1] = w1 /\ ws[2] = w2 /\ ws[3] = w3 /\ ws[4] = w4
          /\ ws[5] = w5
      OBVIOUS
    <3> HIDE DEF ws
    <3>3. Fits(w3) /\ Fits(w4)
      BY <1>1, <1>5, <1>8, <2>5 DEF Fits
    <3>4. \A i \in DOMAIN ws : Fits(ws[i])
      BY <2>2, <3>2, <3>3
    <3> QED
      BY <3>1, <3>4 DEF Fits
  <2> QED
    BY <2>4, <2>5
<1>9. conf.type \in {"none", "mbr", "gpt", "hybrid"}
  BY DEF IInv, TypeInv, Conf
<1> QED
  BY <1>6, <1>7, <1>8, <1>9 DEF Gpt

\* A file as large as the image has nothing written beyond it.
LEMMA NoneBeyond ==
    ASSUME IInv, LengthInv, SetupDone, NEW N, FileAs(length, N),
           conf.fill \/ (Gpt /\ ~conf.nobackup)
    PROVE  /\ fileSize = size /\ size \in Nat /\ IsLong(length)
           /\ ~\E n \in N : Beyond(parts[n])
<1>1. fileSize = size /\ now <= size /\ size \in Nat /\ now \in Nat
  BY DEF LengthInv, SpanInv, IInv, TypeInv
<1>2. ~IsLonger(length)
  BY <1>1 DEF IsLonger
<1> QED
  BY <1>1, <1>2 DEF FileAs

LEMMA LengthTable ==
    ASSUME IInv, LengthInv, WriteTable
    PROVE  LengthInv'
<1>1. /\ pc = "table" /\ SetupDone /\ fileSize \in Nat /\ now \in Nat /\ FileAs(length, Indices)
  BY DEF WriteTable, SetupDone, IInv, TypeInv, LengthInv, SpanInv, FileInv, Written
<1> DEFINE set == {TableWrites[n] : n \in DOMAIN TableWrites}
           from == IF Gpt /\ ~conf.nobackup THEN size ELSE length
<1>2. FileAs(from, Indices) /\ (Gpt /\ ~conf.nobackup => ~(length > size))
  <2>1. CASE Gpt /\ ~conf.nobackup
    <3>1. /\ fileSize = size /\ size \in Nat /\ IsLong(length)
          /\ ~\E n \in Indices : Beyond(parts[n])
      BY <1>1, <2>1, NoneBeyond
    <3> QED
      BY <2>1, <3>1 DEF FileAs, IsLong
  <2>2. CASE ~(Gpt /\ ~conf.nobackup)
    BY <1>1, <2>2
  <2> QED
    BY <2>1, <2>2
<1>3. /\ pc' = "fill" /\ length' = Longest(set, from)
      /\ UNCHANGED <<conf, ret, align, parts, extended, now, size, fileSize>>
  BY <1>2 DEF WriteTable, setupVars
<1>5. \A w \in set : w.hi \in Int /\ w.hi <= fileSize
  BY <1>1, TableWithin
<1> HIDE DEF set, from
<1>6. FileAs(length', Indices)
  BY <1>1, <1>2, <1>3, <1>5, FileStays
<1>7. SetupDone' /\ Written' = Indices
  BY <1>3 DEF SetupDone, Written, Indices
<1> QED
  BY <1>1, <1>3, <1>6, <1>7, LengthStill

\* The check at the end: what it finds wrong is beyond what was counted.
LEMMA LengthCheck ==
    ASSUME IInv, LengthInv, CheckSize
    PROVE  LengthInv'
<1>1. /\ pc = "check" /\ SetupDone /\ Laid /\ pc # "fakes" /\ ret = "ok" /\ fileSize \in Nat
      /\ now \in Nat /\ FileAs(length, Indices)
  BY DEF CheckSize, SetupDone, Laid, IInv, TypeInv, LengthInv, SpanInv, FileInv, Written
<1>2. CASE length = fileSize /\ pc' = "end" /\ UNCHANGED <<conf, ret, setupVars, writes, length>>
  <2>1. SetupDone' /\ UNCHANGED <<align, parts, extended, now, size, fileSize>>
    BY <1>1, <1>2 DEF SetupDone, setupVars
  <2>2. \A n \in Indices : ~Beyond(parts[n])
    BY <1>1, <1>2 DEF FileAs, IsLonger
  <2> QED
    BY <1>1, <1>2, <2>1, <2>2, LengthStill
<1>3. length = -1 => fileSize = 0 /\ \A n \in Indices : ~Beyond(parts[n])
  BY <1>1 DEF FileAs, IsLong, IsLonger
<1>4. CASE length = -1 /\ Error("stat of the output file failed")
  <2>1. fileSize = 0 /\ \A n \in Indices : ~Beyond(parts[n])
    BY <1>3, <1>4
  <2>2. conf.type = "none"
    <3>1. TableEnd <= 0
      BY <1>1, <2>1 DEF LengthInv, SpanInv
    <3>2. GptLocation \in Nat /\ conf.type \in {"none", "mbr", "gpt", "hybrid"}
      BY ConfType DEF IInv, TypeInv, Conf, GptLocation, Sector
    <3> QED
      BY <3>1, <3>2 DEF TableEnd, Gpt, GptArray, Sector
  <2>3. /\ pc' = "end" /\ ret' = "stat of the output file failed" /\ UNCHANGED <<conf, setupVars>>
    BY <1>4 DEF Error
  <2>4. fileSize' = 0 /\ conf'.type = "none" /\ \A n \in Indices' : ~Beyond(parts[n])'
    BY <2>1, <2>2, <2>3 DEF setupVars, Indices, Beyond, HasImage, WrittenTo
  <2>5. FileSizeExact'
    BY <2>3, <2>4 DEF FileSizeExact
  <2> QED
    BY <2>3, <2>5, LengthGone
<1>5. CASE length \notin {-1, fileSize} /\ Error("unexpected output file size")
  <2>1. PICK n \in Indices : Beyond(parts[n])
    BY <1>1, <1>5 DEF FileAs, IsLong
  <2>2. ~conf.fill /\ (Gpt => conf.nobackup)
    <3>1. ~conf.fill /\ ~(Gpt /\ ~conf.nobackup)
      BY <1>1, <2>1, NoneBeyond
    <3> QED
      BY <3>1
  <2>3. Uncounted(parts[n])
    <3>1. PICK p : p = parts[n]
      OBVIOUS
    <3>2. HasImage(p) /\ WrittenTo(p) > fileSize
      BY <2>1, <3>1 DEF Beyond
    <3>3. /\ p.offset \in Int /\ p.size \in Int /\ p.data \in Nat /\ p.imageoffset \in Nat
          /\ p.child \in Int /\ DataEnd(p) <= fileSize /\ p.offset <= fileSize
      BY <1>1, <3>1, <3>2, ImageReach
    <3>4. ASSUME ~p.fill, p.data = p.child PROVE FALSE
      <4>1. WrittenTo(p) = p.offset + (p.child - p.imageoffset)
        BY <3>4 DEF WrittenTo
      <4>2. DataEnd(p) = p.offset + (IF p.child > 0 THEN p.child - p.imageoffset ELSE 0)
        BY <3>2 DEF DataEnd, DataSize
      <4>3. p.child >= 0
        BY <3>2 DEF HasImage
      <4> QED
        BY <1>1, <3>2, <3>3, <4>1, <4>2, <4>3
    <3> QED
      BY <3>1, <3>4 DEF Uncounted
  <2>4. /\ pc' = "end" /\ ret' = "unexpected output file size" /\ UNCHANGED <<conf, setupVars>>
    BY <1>5 DEF Error
  <2>5. /\ ~conf'.fill /\ (Gpt' => conf'.nobackup)
        /\ n \in Indices' /\ Beyond(parts[n])' /\ Uncounted(parts[n])'
    BY <2>1, <2>2, <2>3, <2>4 DEF setupVars, Gpt, Indices, Beyond, Uncounted, HasImage, WrittenTo
  <2>6. FileSizeExact'
    BY <2>4, <2>5 DEF FileSizeExact
  <2> QED
    BY <2>4, <2>6, LengthGone
<1> QED
  BY <1>2, <1>4, <1>5 DEF CheckSize

LEMMA LengthRest ==
    ASSUME IInv, LengthInv, Prepare \/ DataDone \/ Fill
    PROVE  LengthInv'
<1>1. /\ pc \in {"prepare", "data", "fill"} /\ SetupDone /\ ret = "ok" /\ fileSize \in Nat
      /\ Len(parts) \in Nat
  <2>1. pc \in {"prepare", "data", "fill"} /\ parts \in Seq(AnyPart)
    BY DEF Prepare, DataDone, Fill, IInv, TypeInv
  <2> QED
    BY <2>1 DEF SetupDone, IInv, TypeInv, LengthInv, SpanInv
<1>2. CASE Prepare
  <2>1. /\ pc' = "data" /\ SetupDone' /\ IsLong(length') /\ k' = k /\ k = 1
        /\ UNCHANGED <<conf, ret, align, parts, extended, now, size, fileSize>>
    BY <1>2 DEF Prepare, IsLong, SetupDone, setupVars, LengthInv, FileInv
  <2>2. Written' = {} /\ FileAs(length', {})
    BY <2>1 DEF Written, FileAs
  <2> QED
    BY <1>1, <2>1, <2>2, LengthStill
<1>3. CASE DataDone
  <2>1. /\ pc = "data" /\ pc' = "table" /\ SetupDone' /\ k > Len(parts) /\ length' = length
        /\ UNCHANGED <<conf, ret, align, parts, extended, now, size, fileSize>>
    BY <1>3 DEF DataDone, SetupDone, setupVars
  <2>2. Written = Indices /\ Written' = Indices
    <3>1. k <= Len(parts) + 1 /\ k \in Nat /\ parts \in Seq(AnyPart)
      BY <2>1 DEF LengthInv, FileInv, IInv, TypeInv
    <3>2. k - 1 = Len(parts)
      BY <1>1, <2>1, <3>1
    <3> QED
      BY <2>1, <3>1, <3>2 DEF Written, Indices
  <2>3. FileAs(length', Written')
    BY <2>1, <2>2 DEF LengthInv, FileInv
  <2> QED
    BY <1>1, <2>1, <2>3, LengthStill
<1>4. CASE Fill
  <2>1. FileAs(length, Indices) /\ pc = "fill"
    BY <1>4 DEF Fill, LengthInv, FileInv, Written
  <2>2. conf.fill => /\ fileSize = size /\ size \in Nat /\ IsLong(length)
                     /\ ~\E n \in Indices : Beyond(parts[n])
    BY <1>1, <2>1, NoneBeyond
  <2>3. conf.fill => ~(length > size)
    BY <2>2 DEF IsLong
  <2>4. /\ pc' = "check" /\ length' = (IF conf.fill THEN size ELSE length)
        /\ UNCHANGED <<conf, ret, align, parts, extended, now, size, fileSize>>
    BY <1>4, <2>3 DEF Fill, setupVars
  <2>5. SetupDone' /\ Written' = Indices /\ FileAs(length', Indices)
    BY <2>1, <2>2, <2>4 DEF SetupDone, Written, Indices, FileAs, IsLong
  <2> QED
    BY <1>1, <2>4, <2>5, LengthStill
<1> QED
  BY <1>2, <1>3, <1>4

LEMMA LengthNext == IInv /\ LengthInv /\ [Next]_vars => LengthInv'
<1> SUFFICES ASSUME IInv, LengthInv, [Next]_vars PROVE LengthInv'
  OBVIOUS
<1>1. CASE SetupAlign \/ SetupLogical
  BY <1>1, LengthEarly
<1>2. CASE SetupFakes
  BY <1>2, LengthFakes
<1>3. CASE PlacePart
  BY <1>3, LengthPlace
<1>4. CASE SetupFinish
  BY <1>4, LengthFinish
<1>5. CASE WriteData
  BY <1>5, LengthWrite
<1>6. CASE WriteTable
  BY <1>6, LengthTable
<1>7. CASE Prepare \/ DataDone \/ Fill
  BY <1>7, LengthRest
<1>8. CASE CheckSize
  BY <1>8, LengthCheck
<1>9. CASE UNCHANGED vars
  <2>1. UNCHANGED <<conf, pc, ret, align, parts, extended, k, now, size, fileSize, length>>
    BY <1>9 DEF vars, setupVars
  <2>2. /\ SetupDone' = SetupDone /\ Laid' = Laid /\ Settled' = Settled /\ Indices' = Indices
        /\ TableEnd' = TableEnd /\ Gpt' = Gpt
    BY <2>1 DEF SetupDone, Laid, Settled, Indices, TableEnd, Gpt, GptLocation, GptArray, Sector
  <2>3. KnownInv'
    BY <2>1, <2>2 DEF LengthInv, KnownInv, Known
  <2>4. ReachInv'
    BY <2>1, <2>2 DEF LengthInv, ReachInv, Reaches, DataEnd, EbrEnd, HasImage, DataSize, Sector
  <2>5. SpanInv' /\ FileInv'
    <3>1. Written' = Written /\ \A n : Beyond(parts[n])' = Beyond(parts[n])
      BY <2>1, <2>2 DEF Written, Beyond, HasImage, WrittenTo
    <3>2. FileAs(length, Written)' = FileAs(length, Written)
      BY <2>1, <3>1 DEF FileAs, IsLong, IsLonger
    <3> QED
      BY <2>1, <2>2, <3>2 DEF LengthInv, SpanInv, FileInv
  <2>6. FileSizeExact' /\ AlignInv' /\ conf' \in Configs
    <3>1. \A n : Beyond(parts[n])' = Beyond(parts[n]) /\ Uncounted(parts[n])' = Uncounted(parts[n])
      BY <2>1 DEF Beyond, Uncounted, HasImage, WrittenTo
    <3>2. FileSizeExact'
      BY <2>1, <2>2, <3>1 DEF LengthInv, FileSizeExact
    <3> QED
      BY <2>1, <3>2 DEF LengthInv, AlignInv, Sector
  <2> QED
    BY <2>3, <2>4, <2>5, <2>6 DEF LengthInv
<1> QED
  BY <1>1, <1>2, <1>3, <1>4, <1>5, <1>6, <1>7, <1>8, <1>9 DEF Next

(* The size that hdimage_setup() computes is that of the output file in the *)
(* end, or hdimage_generate() fails over a partition whose image is filled  *)
(* up, or has become another one, beyond it; for an output as large as the  *)
(* image that cannot be.  A file that is missing in the end is one of size  *)
(* 0 that nothing had to be written to.                                     *)
THEOREM FileSizeExactHolds == Spec => []FileSizeExact
<1>1. Init => IInv /\ LengthInv
  BY InitHolds, LengthInit
<1>2. IInv /\ LengthInv /\ [Next]_vars => IInv' /\ LengthInv'
  BY NextHolds, LengthNext
<1>3. LengthInv => FileSizeExact
  BY DEF LengthInv
<1> QED
  BY <1>1, <1>2, <1>3, PTL DEF Spec

-----------------------------------------------------------------------------
(* The MBR and the boot records.  Their assumption, for the partitions in   *)
(* a table: an align of their own is one of whole sectors.                  *)

SectorAligns ==
    \A c \in Configs : \A n \in DOMAIN c.parts :
        c.type # "none" /\ c.parts[n].intable => c.parts[n].align % Sector = 0

(* Numbering the elements of a set in their order reaches all of them.      *)
LEMMA Numbered ==
    ASSUME NEW T \in SUBSET Nat, IsFiniteSet(T)
    PROVE  LET Rank(n) == Cardinality({m \in T : m <= n})
               Nth(i) == CHOOSE n \in T : Rank(n) = i
           IN  /\ Cardinality(T) \in Nat
               /\ \A i \in 1..Cardinality(T) : Nth(i) \in T
               /\ \A n \in T : \E i \in 1..Cardinality(T) : Nth(i) = n
<1> DEFINE Rank(n) == Cardinality({m \in T : m <= n})
           Nth(i) == CHOOSE n \in T : Rank(n) = i
           N == Cardinality(T)
           f == [n \in T |-> Rank(n)]
<1>1. N \in Nat
  BY FS_CardinalityType
<1>2. ASSUME NEW n \in T PROVE Rank(n) \in 1..N
  <2> DEFINE A == {m \in T : m <= n}
  <2>1. n \in A /\ A \in SUBSET T
    OBVIOUS
  <2> HIDE DEF A
  <2>2. IsFiniteSet(A) /\ Cardinality(A) <= N /\ Cardinality(A) \in Nat
    BY <2>1, FS_Subset, FS_CardinalityType
  <2>3. Cardinality(A) # 0
    BY <2>1, <2>2, FS_EmptySet
  <2> QED
    BY <1>1, <2>2, <2>3 DEF A
<1>3. ASSUME NEW a \in T, NEW b \in T, a < b PROVE Rank(a) # Rank(b)
  <2> DEFINE A == {m \in T : m <= a}
             B == {m \in T : m <= b}
  <2>0. a \in Nat /\ b \in Nat /\ \A m \in T : m \in Nat
    OBVIOUS
  <2>1. A \in SUBSET B /\ B \in SUBSET T /\ b \in B /\ b \notin A
    <3>1. \A m \in T : m <= a => m <= b
      BY <1>3, <2>0
    <3>2. ~(b <= a) /\ b <= b
      BY <1>3, <2>0
    <3> QED
      BY <3>1, <3>2
  <2> HIDE DEF A, B
  <2>2. IsFiniteSet(B)
    BY <2>1, FS_Subset
  <2>3. Cardinality(B) # Cardinality(A)
    BY <2>1, <2>2, FS_Subset
  <2> QED
    BY <2>3 DEF A, B
<1>4. ASSUME NEW a \in T, NEW b \in T, Rank(a) = Rank(b) PROVE a = b
  <2>1. a < b \/ a = b \/ b < a
    OBVIOUS
  <2> HIDE DEF Rank
  <2> QED
    BY <1>3, <1>4, <2>1
<1> HIDE DEF Rank, N
<1>5. f \in Injection(T, 1..N)
  BY <1>2, <1>4 DEF Injection, IsInjective
<1>6. IsFiniteSet(1..N) /\ Cardinality(1..N) = N
  BY <1>1, FS_Interval
<1>7. f \in Surjection(T, 1..N)
  <2> HIDE DEF f
  <2> QED
    BY <1>5, <1>6, FS_Injection DEF N
<1>8. \A i \in 1..N : \E n \in T : Rank(n) = i
  BY <1>7 DEF Surjection
<1>9. \A i \in 1..N : Nth(i) \in T /\ Rank(Nth(i)) = i
  BY <1>8
<1>10. ASSUME NEW n \in T PROVE \E i \in 1..N : Nth(i) = n
  <2>1. Rank(n) \in 1..N
    BY <1>2
  <2>2. Nth(Rank(n)) \in T /\ Rank(Nth(Rank(n))) = Rank(n)
    BY <1>9, <2>1
  <2> HIDE DEF Nth
  <2>3. Nth(Rank(n)) = n
    BY <1>4, <2>2
  <2> QED
    BY <2>1, <2>3
<1> QED
  BY <1>1, <1>9, <1>10 DEF N, Rank

(* Cylinder, head and sector name the sector they are made of.              *)
LEMMA ChsRight ==
    ASSUME NEW lba \in Int, lba > 0
    PROVE  ChsNames(Chs(lba), lba)
<1> DEFINE q == lba \div 63
           c == lba \div 16065
<1>1. 63 * 255 = 16065 /\ 1024 * 255 * 63 = 16450560
  OBVIOUS
<1>2. ASSUME lba < 16450560
      PROVE  ((c % 1024) * 255 + (q % 255)) * 63 + ((lba % 63) + 1) - 1 = lba
  BY <1>2, Z3
<1> QED
  BY <1>1, <1>2 DEF ChsNames, Chs

\* Both addresses of an entry that has been read, with where it counts from
BothForms(x) ==
    /\ ChsNames(x.entry.first, x.base + x.entry.start)
    /\ x.entry.total # 0 =>
          ChsNames(x.entry.last, x.base + x.entry.start + x.entry.total - 1)

LEMMA EntryRight ==
    ASSUME NEW what, NEW start \in Int, NEW total \in Nat, NEW from \in Int, start + from > 0
    PROVE  BothForms([base |-> from, entry |-> Entry(what, start, total, from)])
<1>1. ChsNames(Chs(start + from), from + start)
  <2>1. start + from = from + start /\ start + from \in Int
    OBVIOUS
  <2> QED
    BY <2>1, ChsRight
<1>2. total # 0 => ChsNames(Chs(start + total - 1 + from), from + start + total - 1)
  <2>1. start + total - 1 + from = from + start + total - 1 /\ start + total - 1 + from \in Int
    OBVIOUS
  <2>2. total # 0 => start + total - 1 + from > 0
    OBVIOUS
  <2> QED
    BY <2>1, <2>2, ChsRight
<1> QED
  BY <1>1, <1>2 DEF BothForms, Entry

LEMMA AlreadyRound ==
    ASSUME NEW j \in Int, NEW a \in Nat \ {0}, NEW v \in Int, v = j * a, v > 0
    PROVE  RoundUp(v, a) = v
<1>1. (v - 1) \div a = j - 1
  <2>1. \A x \in Int, y \in Int : x * y <= v - 1 /\ v - 1 < x * y + y /\ y > 0 => (v - 1) \div y = x
    BY Z3
  <2>2. (j - 1) * a = v - a /\ (j - 1) * a <= v - 1 /\ v - 1 < (j - 1) * a + a
    <3>1. \A x, y \in Int : (x - 1) * y = x * y - y
      BY Z3
    <3> QED
      BY <3>1
  <2> QED
    BY <2>1, <2>2
<1> QED
  BY <1>1 DEF RoundUp

(* What is in the MBR: all that is in the table and not logical.            *)
Primary == {m \in Indices : parts[m].intable /\ ~parts[m].logical}

LEMMA SmallList ==
    ASSUME TypeInv
    PROVE  IsFiniteSet(Indices) /\ IsFiniteSet(Primary) /\ IsFiniteSet(Entries)
<1>1. IsFiniteSet(Indices)
  <2>1. Indices = 1..Len(parts) /\ Len(parts) \in Nat
    BY DEF TypeInv, Indices
  <2> QED
    BY <2>1, FS_Interval
<1>2. Primary \in SUBSET Indices /\ Entries \in SUBSET Indices
  BY DEF Primary, Entries
<1> QED
  BY <1>1, <1>2, FS_Subset

\* A partition in the table, and where it is once it has been placed
Slot(p) ==
    /\ p.name = "user" /\ p.align % Sector = 0 /\ p.offset >= 0 /\ p.size >= 0
OnSectors(p) == p.offset > 0 /\ p.offset % Sector = 0 /\ p.size >= 0
SlotInv ==
    conf.type # "none" /\ Laid =>
        \A m \in Indices :
            /\ parts[m].logical => parts[m].intable
            /\ parts[m].intable /\ m # extended => Slot(parts[m])
            /\ parts[m].intable /\ m \in Settled => OnSectors(parts[m])

\* Where the extended partition begins, and the first one in it
FirstLinked ==
    LET e == parts[extended]
        first == parts[extended + 1]
    IN  /\ extended \in DOMAIN conf.parts /\ e.align = align
        /\ extended \notin Settled /\ e.offset = 0 => first.offset \in {0, align}
        /\ extended \in Settled => e.offset % align = 0
        /\ extended \in Settled /\ extended + 1 \notin Settled =>
              first.offset \in {0, align, e.offset + align}
        /\ extended + 1 \in Settled /\ first.logical
             /\ (first.align = align \/ conf.parts[extended].offset # 0) =>
              first.offset = e.offset + align
LinkInv == Laid /\ extended # 0 => FirstLinked

CountInv ==
    /\ Laid /\ conf.type = "mbr" => Cardinality(Primary) <= 4
    /\ SetupDone /\ conf.type = "hybrid" => Cardinality(HybridEntries) <= 3

BeginInv ==
    /\ conf.type # "none" /\ (Laid \/ pc = "logical") => align % Sector = 0
    /\ Gpt /\ Laid /\ pc # "fakes" => now >= 2 * Sector
    /\ SetupDone => now <= size

MbrInv == conf \in Configs /\ BeginInv /\ SlotInv /\ LinkInv /\ CountInv

LEMMA MbrInit == Init => MbrInv
<1> SUFFICES ASSUME Init PROVE MbrInv
  OBVIOUS
<1>1. ~SetupDone /\ ~Laid /\ pc = "align"
  BY DEF Init, SetupDone, Laid
<1> QED
  BY <1>1 DEF Init, MbrInv, BeginInv, SlotInv, LinkInv, CountInv

LEMMA MbrStop ==
    ASSUME MbrInv, pc' = "end", ret' # "ok", UNCHANGED <<conf, setupVars>>
    PROVE  MbrInv'
<1>1. ~SetupDone' /\ ~Laid' /\ pc' # "logical"
  BY DEF SetupDone, Laid
<1> QED
  BY <1>1 DEF MbrInv, BeginInv, SlotInv, LinkInv, CountInv

(* No more than four: setup_logical_partitions() counts them one by one,    *)
(* and the last one counts all.                                             *)
LEMMA FourEntries ==
    ASSUME Indices = 1..Len(parts), Len(parts) \in Nat, \A n \in InTable : ~Misplaced(n)
    PROVE  /\ IsFiniteSet(InTable) /\ IsFiniteSet(FirstInside)
           /\ Cardinality({m \in InTable : ~IsLogical(m)}) \in Nat
           /\ InTable # {} =>
                 Cardinality({m \in InTable : ~IsLogical(m)}) + Cardinality(FirstInside) <= 4
<1> DEFINE L == {m \in InTable : ~IsLogical(m)}
<1>1. IsFiniteSet(Indices)
  BY FS_Interval
<1>2. InTable \in SUBSET Indices /\ FirstInside \in SUBSET Indices /\ L \in SUBSET Indices
  BY DEF InTable, FirstInside
<1>3. IsFiniteSet(InTable) /\ IsFiniteSet(FirstInside) /\ IsFiniteSet(L)
  <2> HIDE DEF L
  <2> QED
    BY <1>1, <1>2, FS_Subset
<1>4. Cardinality(L) \in Nat /\ Cardinality(FirstInside) \in Nat
  <2> HIDE DEF L
  <2> QED
    BY <1>3, FS_CardinalityType
<1>5. ASSUME InTable # {} PROVE Cardinality(L) + Cardinality(FirstInside) <= 4
  <2>1. InTable \in SUBSET Int /\ \A y \in InTable : y <= Len(parts)
    BY <1>2
  <2>2. PICK n \in InTable : \A y \in InTable : y <= n
    <3>1. PICK T \in SUBSET Int, b \in Int : T = InTable /\ b = Len(parts)
      BY <2>1
    <3>2. \E x \in T : \A y \in T : y <= x
      BY <1>5, <2>1, <3>1, Largest
    <3> QED
      BY <3>1, <3>2
  <2>3. {m \in InTable : m <= n /\ ~IsLogical(m)} = L
    BY <2>2
  <2>4. {f \in FirstInside : f <= n} = FirstInside
    BY <2>2 DEF FirstInside
  <2>5. MbrEntries(n) = Cardinality(L) + Cardinality(FirstInside)
    BY <2>3, <2>4 DEF MbrEntries
  <2>6. ~(MbrEntries(n) > 4)
    BY <2>2 DEF Misplaced
  <2> HIDE DEF L
  <2> QED
    BY <1>4, <2>5, <2>6
<1> QED
  BY <1>3, <1>4, <1>5

LEMMA LogicalCount ==
    ASSUME IInv, SetupLogical, pc' # "end", conf.type = "mbr"
    PROVE  Cardinality(Primary') <= 4
<1>1. /\ pc = "logical" /\ parts \in Seq(AnyPart) /\ Len(parts) \in Nat /\ Indices = 1..Len(parts)
      /\ IInv' /\ (extended' # 0 => Opened)
  <2>1. pc = "logical"
    BY DEF SetupLogical
  <2> QED
    BY <2>1, LogicalStep DEF IInv, TypeInv, Indices
<1>2. IsFiniteSet(InTable) /\ Cardinality(InTable) \in Nat
  <2>1. InTable \in SUBSET Indices /\ IsFiniteSet(Indices)
    BY <1>1, FS_Interval DEF InTable
  <2>2. IsFiniteSet(InTable)
    BY <2>1, FS_Subset
  <2> QED
    BY <2>2, FS_CardinalityType
<1>3. extended = 0
  BY <1>1 DEF IInv, StartInv, Early
<1>4. CASE extended' = 0
  <2>1. parts' = parts /\ (ExtendedIndex = 0 \/ (FirstInside = {} /\ \A n \in InTable : ~Misplaced(n)))
    <3>1. ASSUME NEW f \in FirstInside, extended' = f PROVE FALSE
      BY <1>1, <1>4, <3>1 DEF FirstInside, InTable
    <3> QED
      BY <3>1 DEF SetupLogical, Error, setupVars
  <2>2. Primary' \in SUBSET InTable
    BY <2>1 DEF Primary, InTable, Indices
  <2>3. Cardinality(Primary') <= Cardinality(InTable) /\ Cardinality(Primary') \in Nat
    BY <1>2, <2>2, FS_Subset, FS_CardinalityType
  <2>4. Cardinality(InTable) <= 4
    <3>1. CASE ExtendedIndex = 0
      <4>1. ~(Cardinality(InTable) > 4)
        BY <3>1 DEF ExtendedIndex
      <4> QED
        BY <1>2, <4>1
    <3>2. CASE FirstInside = {} /\ \A n \in InTable : ~Misplaced(n)
      <4>1. {m \in InTable : ~IsLogical(m)} = InTable
        BY <3>2 DEF IsLogical, Inside
      <4>2. Cardinality(FirstInside) = 0
        BY <3>2, FS_EmptySet
      <4>3. InTable # {} => Cardinality(InTable) + 0 <= 4
        BY <1>1, <3>2, <4>1, <4>2, FourEntries
      <4>4. InTable = {} => Cardinality(InTable) = 0
        BY FS_EmptySet
      <4> QED
        BY <1>2, <4>3, <4>4
    <3> QED
      BY <2>1, <3>1, <3>2
  <2> QED
    BY <1>2, <2>3, <2>4
<1>5. CASE extended' # 0
  <2> DEFINE f == extended'
             L == {m \in InTable : ~IsLogical(m)}
             P == Primary' \ {f}
             From2(m) == IF m < f THEN m ELSE m - 1
             g == [m \in P |-> From2(m)]
  <2>1. Opened /\ (\A n \in InTable : ~Misplaced(n))
    BY <1>1, <1>3, <1>5 DEF SetupLogical, Error, setupVars
  <2>2. f \in FirstInside /\ f \in InTable /\ f \in Nat
    BY <1>1, <2>1 DEF Opened, FirstInside, InTable
  <2>3. FirstInside = {f}
    BY <1>1, <2>2, NumberOnce DEF FirstInside
  <2>4. /\ IsFiniteSet(L) /\ Cardinality(L) \in Nat /\ Cardinality(L) + Cardinality(FirstInside) <= 4
    <3>1. Cardinality(L) + Cardinality(FirstInside) <= 4 /\ IsFiniteSet(InTable)
      BY <1>1, <2>1, <2>2, FourEntries
    <3>2. L \in SUBSET InTable
      OBVIOUS
    <3> HIDE DEF L
    <3> QED
      BY <3>1, <3>2, FS_Subset, FS_CardinalityType
  <2>5. Cardinality(L) <= 3
    <3>1. Cardinality(FirstInside) = 1
      BY <2>3, FS_Singleton
    <3> HIDE DEF L
    <3> QED
      BY <2>4, <3>1
  <2>6. \A m \in Indices' : m \in Int
    BY <1>1 DEF IInv, TypeInv, Indices
  <2>7. ASSUME NEW m \in P PROVE From2(m) \in L
    <3>1. m \in Indices' \ {f} /\ parts'[m].intable /\ ~parts'[m].logical
      BY DEF Primary
    <3>2. MovedFrom(m, From2(m))
      BY <2>1, <3>1 DEF Opened
    <3> HIDE DEF From2
    <3> QED
      BY <3>1, <3>2 DEF MovedFrom, InTable
  <2>8. ASSUME NEW a \in P, NEW b \in P, From2(a) = From2(b) PROVE a = b
    <3>1. a \in Int /\ b \in Int /\ a # f /\ b # f
      BY <2>6 DEF Primary
    <3> QED
      BY <2>2, <2>8, <3>1
  <2>9. g \in Injection(P, L)
    <3> HIDE DEF From2, P, L
    <3> QED
      BY <2>7, <2>8 DEF Injection, IsInjective
  <2>10. IsFiniteSet(P) /\ Cardinality(P) <= Cardinality(L) /\ Cardinality(P) \in Nat
    <3> HIDE DEF g, P, L
    <3> QED
      BY <2>4, <2>9, FS_Injection, FS_CardinalityType
  <2>11. IsFiniteSet(P \cup {f}) /\ Cardinality(P \cup {f}) = Cardinality(P) + 1
    <3>1. f \notin P
      OBVIOUS
    <3> HIDE DEF P
    <3> QED
      BY <2>10, <3>1, FS_AddElement
  <2>12. Primary' \in SUBSET (P \cup {f})
    OBVIOUS
  <2>13. Cardinality(Primary') <= Cardinality(P \cup {f}) /\ Cardinality(Primary') \in Nat
    <3> HIDE DEF P
    <3> QED
      BY <2>11, <2>12, FS_Subset, FS_CardinalityType
  <2> HIDE DEF P, L
  <2> QED
    BY <2>4, <2>5, <2>10, <2>11, <2>13
<1> QED
  BY <1>4, <1>5

\* Before the areas are in the list
LEMMA MbrEarly ==
    ASSUME SectorAligns, IInv, MbrInv, SetupAlign \/ SetupLogical
    PROVE  MbrInv'
<1>1. CASE pc' = "end"
  <2>1. ret' # "ok" /\ UNCHANGED <<conf, setupVars>>
    BY <1>1 DEF SetupAlign, SetupLogical, Error
  <2> QED
    BY <1>1, <2>1, MbrStop
<1>2. CASE pc' # "end"
  <2>1. /\ pc \in {"align", "logical"} /\ pc' \in {"logical", "fakes"} /\ conf' = conf
        /\ pc' = "fakes" => pc = "logical"
        /\ pc = "logical" => align' = align /\ SetupLogical
        /\ pc = "align" /\ conf.type # "none" => align' % Sector = 0
    BY <1>2 DEF SetupAlign, SetupLogical, Error, setupVars
  <2>2. ~SetupDone' /\ Settled' = {} /\ (~Laid' \/ pc' = "fakes")
    BY <2>1 DEF SetupDone, Laid, Settled
  <2>3. BeginInv'
    BY <2>1, <2>2 DEF MbrInv, BeginInv, Sector
  <2>4. CASE ~Laid'
    <3>1. SlotInv' /\ LinkInv' /\ CountInv'
      BY <2>2, <2>4 DEF SlotInv, LinkInv, CountInv
    <3> QED
      BY <2>1, <2>3, <3>1 DEF MbrInv
  <2>5. CASE Laid'
    <3>1. /\ SetupLogical /\ align' = align
          /\ IInv' /\ \A m \in Indices' \ {extended'} : Sourced(parts'[m])
          /\ extended' # 0 => Opened
      <4>1. pc = "logical" /\ SetupLogical /\ align' = align
        BY <2>1, <2>2, <2>5
      <4> QED
        BY <1>2, <4>1, LogicalStep
    <3>2. ASSUME NEW p, Sourced(p), conf.type # "none" PROVE (p.logical => p.intable) /\ (p.intable => Slot(p))
      <4>1. PICK n \in DOMAIN conf.parts :
               /\ p.size = conf.parts[n].size /\ p.offset = conf.parts[n].offset
               /\ p.align = conf.parts[n].align /\ p.intable = conf.parts[n].intable
        BY <3>2 DEF Sourced
      <4>2. PICK c \in PartConf : c = conf.parts[n]
        <5>1. conf.parts \in Seq(PartConf)
          BY ConfType DEF IInv, TypeInv
        <5> QED
          BY <5>1
      <4>3. c.size >= 0 /\ c.offset >= 0
        BY <4>2 DEF PartConf
      <4>4. c.intable => c.align % Sector = 0
        BY <3>2, <4>2 DEF SectorAligns, MbrInv
      <4> QED
        BY <3>2, <4>1, <4>2, <4>3, <4>4 DEF Slot, Sourced
    <3>3. SlotInv'
      <4>1. ASSUME conf.type # "none", NEW m \in Indices'
            PROVE  /\ parts'[m].logical => parts'[m].intable
                   /\ parts'[m].intable /\ m # extended' => Slot(parts'[m])
        <5>1. CASE m = extended'
          <6>1. extended' # 0
            BY <3>1, <4>1, <5>1 DEF IInv, TypeInv, Indices
          <6>2. ~parts'[extended'].logical
            BY <2>5, <3>1, <6>1 DEF IInv, LayoutInv, ExtendedInv
          <6> QED
            BY <5>1, <6>2
        <5>2. CASE m # extended'
          BY <3>1, <3>2, <4>1, <5>2
        <5> QED
          BY <5>1, <5>2
      <4> QED
        BY <2>1, <2>2, <4>1 DEF SlotInv, Slot, OnSectors, Sector
    <3>4. LinkInv'
      <4>1. ASSUME extended' # 0
            PROVE  /\ extended' \in DOMAIN conf.parts /\ parts'[extended'].align = align
                   /\ parts'[extended'].offset = 0 => parts'[extended' + 1].offset \in {0, align}
        BY <3>1, <4>1 DEF Opened
      <4> QED
        BY <2>1, <2>2, <3>1, <4>1 DEF LinkInv, FirstLinked
    <3>5. CountInv'
      <4>1. conf.type = "mbr" => Cardinality(Primary') <= 4
        BY <1>2, <3>1, LogicalCount
      <4> QED
        BY <2>1, <2>2, <4>1 DEF CountInv
    <3> QED
      BY <2>1, <2>3, <3>3, <3>4, <3>5 DEF MbrInv
  <2> QED
    BY <2>4, <2>5
<1> QED
  BY <1>1, <1>2

\* The areas are in the list, none of them is in the table.
LEMMA MbrFakes ==
    ASSUME IInv, MbrInv, SetupFakes
    PROVE  MbrInv'
<1>1. pc = "fakes" /\ pc' = "place" /\ k' = 1 /\ UNCHANGED <<conf, align, extended>>
  BY DEF SetupFakes, IInv, TypeInv
<1>2. ~SetupDone' /\ ~SetupDone /\ Laid /\ Laid' /\ Settled' = {} /\ Settled = {} /\ Gpt' = Gpt
  BY <1>1 DEF SetupDone, Laid, Settled, Gpt
<1>3. /\ IInv' /\ AreasInv'
      /\ \A m \in Indices' \ Indices : ~parts'[m].intable /\ ~parts'[m].logical
  BY FakesStep DEF PartInv
<1>4. \A m \in Indices : parts'[m] = parts[m]
  <2>1. PICK fakes : parts' = parts \o fakes
    BY DEF SetupFakes
  <2>2. parts \in Seq(AnyPart) /\ Len(parts) \in Nat
    BY DEF IInv, TypeInv
  <2> QED
    BY <2>1, <2>2 DEF Indices
<1>5. ASSUME NEW m \in Indices', parts'[m].intable \/ parts'[m].logical
      PROVE  m \in Indices /\ parts'[m] = parts[m]
  BY <1>3, <1>4, <1>5
<1>6. SlotInv'
  <2>1. \A m \in Settled' : FALSE
    BY <1>2
  <2> QED
    BY <1>1, <1>2, <1>5, <2>1 DEF MbrInv, SlotInv, Slot, OnSectors, Sector
<1>7. LinkInv'
  <2>1. ASSUME extended # 0
        PROVE  /\ parts'[extended] = parts[extended] /\ parts'[extended + 1] = parts[extended + 1]
               /\ extended \in DOMAIN conf.parts /\ parts[extended].align = align
               /\ parts[extended].offset = 0 => parts[extended + 1].offset \in {0, align}
    <3>1. extended \in Indices /\ extended + 1 \in Indices
      BY <1>2, <2>1 DEF IInv, TypeInv, LayoutInv, ExtendedInv, Indices
    <3>2. FirstLinked
      BY <1>2, <2>1 DEF MbrInv, LinkInv
    <3> QED
      BY <1>2, <1>4, <3>1, <3>2 DEF FirstLinked
  <2> QED
    BY <1>1, <1>2, <2>1 DEF LinkInv, FirstLinked
<1>8. CountInv'
  <2>1. Primary' \in SUBSET Primary
    BY <1>5 DEF Primary
  <2>2. IsFiniteSet(Primary)
    BY SmallList DEF IInv
  <2>3. Cardinality(Primary') <= Cardinality(Primary) /\ Cardinality(Primary) \in Nat /\ Cardinality(Primary') \in Nat
    BY <2>1, <2>2, FS_Subset, FS_CardinalityType
  <2>4. conf.type = "mbr" => Cardinality(Primary) <= 4
    BY <1>2 DEF MbrInv, CountInv
  <2> QED
    BY <1>1, <1>2, <2>3, <2>4 DEF CountInv
<1>9. BeginInv'
  <2>1. Gpt => now' >= 2 * Sector
    <3>1. ASSUME Gpt PROVE \E m \in Indices' : IsTable(m)' /\ parts'[m].offset = 512 /\ parts'[m].size = 512
      BY <1>1, <1>2, <1>3, <3>1 DEF AreasInv, IsArea, Sector
    <3>2. ASSUME NEW m \in Indices', IsTable(m)' PROVE End(parts'[m]) <= now'
      BY <1>2, <1>3, <3>2 DEF IInv, LayoutInv, ListInv, End
    <3>3. now' \in Nat
      BY <1>3 DEF IInv, TypeInv
    <3> QED
      BY <3>1, <3>2, <3>3 DEF End, Sector
  <2> QED
    BY <1>1, <1>2, <2>1 DEF MbrInv, BeginInv, Sector
<1> QED
  BY <1>1, <1>6, <1>7, <1>8, <1>9 DEF MbrInv

\* A logical partition without an offset follows its boot record, which
\* follows everything placed, where that ends on a multiple of its align.
LEMMA PlacedAuto ==
    ASSUME TypeInv, align # 0, NEW p \in AnyPart, p.logical, p.offset = 0, p.name # "backup",
           Placed(p).intable, Placed(p).align = align, now % align = 0
    PROVE  Placed(p).offset = now + align
<1> DEFINE a == WithAlign(p)
           o == WithOffset(a)
           r == WithAutoresize(o)
           q == WithSize(r)
<1>1. a \in AnyPart /\ a.align = align /\ a.logical /\ a.offset = 0 /\ a.name # "backup" /\ a.intable
  <2>1. /\ a \in AnyPart /\ Kept(a, p) /\ a.offset = p.offset
        /\ a.intable <=> p.intable /\ conf.type # "none"
    BY AlignType
  <2>2. Placed(p).intable <=> p.intable /\ conf.type # "none"
    BY PlacedType
  <2>3. p.intable /\ conf.type # "none" => a.align = IF p.align # 0 THEN p.align ELSE align
    BY DEF WithAlign, AnyPart
  <2>4. Placed(p).align = IF p.align # 0 THEN p.align ELSE align
    BY PlacedAlign
  <2> QED
    BY <2>1, <2>2, <2>3, <2>4 DEF Kept
<1>2. Placed(p) = q
  BY DEF Placed
<1> HIDE DEF a
<1>3. Reserved(a) = now + align /\ RoundUp(now + align, align) = now + align
  <2>1. now \in Nat /\ align \in Nat \ {0}
    BY DEF TypeInv
  <2>2. PICK j \in Int : now = j * align
    <3>1. now = (now \div align) * align /\ now \div align \in Int
      BY <2>1, Z3
    <3> QED
      BY <3>1
  <2>3. PICK i \in Int : i = j + 1
    OBVIOUS
  <2>4. now + align = i * align
    <3>1. \A x, y \in Int : (x + 1) * y = x * y + y
      BY Z3
    <3> QED
      BY <2>1, <2>2, <2>3, <3>1
  <2>5. PICK v \in Int : v = now + align /\ v > 0
    BY <2>1
  <2>6. RoundUp(v, align) = v
    BY <2>1, <2>4, <2>5, AlreadyRound
  <2> QED
    BY <1>1, <2>5, <2>6 DEF Reserved
<1>4. o = [a EXCEPT !.offset = now + align]
  BY <1>1, <1>3 DEF WithOffset
<1>5. o \in AnyPart /\ o.align = align
  BY <1>1, OffsetType
<1>6. o.offset = now + align
  BY <1>1, <1>4 DEF AnyPart
<1> HIDE DEF o
<1>7. r \in AnyPart /\ r.align = align /\ r.offset = o.offset
  <2>1. Room(o) \in Int
    BY <1>5, RoomType
  <2> QED
    BY <1>5, <2>1, ResizeType DEF WithAutoresize
<1> HIDE DEF r
<1>8. q.offset = r.offset
  <2>1. DataSize(r) \in Int /\ r.align \in Nat \ {0}
    BY <1>7 DEF DataSize, AnyPart
  <2>2. RoundUp(DataSize(r), r.align) \in Int
    BY <2>1, RoundUpType
  <2> QED
    BY <1>7, <2>1, <2>2, ResizeType DEF WithSize
<1> QED
  BY <1>2, <1>6, <1>7, <1>8

\* The partition being placed, and the extended one, are on whole sectors.
LEMMA SlotPlace ==
    ASSUME IInv, MbrInv, NEW p, p = Placed(parts[k]), pc = "place", k <= Len(parts), Accepted(p),
           PartsWith(p), now' = Advance(p), k' = k + 1,
           UNCHANGED <<conf, pc, ret, align, extended, size>>, conf.type # "none"
    PROVE  /\ SlotInv'
           /\ extended # 0 => /\ parts'[extended].align = align
                              /\ extended = k => p.offset % align = 0
<1>1. /\ Indices = 1..Len(parts) /\ k \in Indices /\ Len(parts) \in Nat /\ k \in Nat \ {0}
      /\ now \in Nat /\ align \in Nat \ {0} /\ extended \in 0..Len(parts) /\ Kept(p, parts[k])
      /\ parts[k] \in AnyPart /\ p \in AnyPart /\ p.align # 0
      /\ p.intable <=> parts[k].intable
      /\ parts[k].offset # 0 => p.offset = parts[k].offset
      /\ parts[k].offset = 0 /\ parts[k].name # "backup" /\ p.intable /\ now > 0 =>
            p.offset >= now
      /\ parts[k].child = -1 /\ ~parts[k].autoresize => p.size = parts[k].size
      /\ p.offset \in Int /\ p.size \in Int
      /\ p.logical => extended # 0 /\ extended < k
  BY PlaceChanges
<1>2. /\ Indices' = Indices /\ parts'[k] = p
      /\ ~SetupDone /\ ~SetupDone' /\ Laid /\ Laid' /\ Settled = 1..(k - 1) /\ Settled' = 1..k
      /\ \A m \in Indices : m # k /\ (m # extended \/ ~p.logical) => parts'[m] = parts[m]
      /\ p.logical => parts'[extended] = [parts[extended] EXCEPT !.size = now' - parts[extended].offset]
      /\ now' \in Nat /\ now' >= now
  BY PlaceChanges
<1>3. now > 0 /\ (align % Sector = 0)
  <2>1. now > 0
    BY <1>1, <1>2 DEF IInv, LayoutInv, ListInv
  <2>2. align % Sector = 0
    BY <1>2 DEF MbrInv, BeginInv
  <2> QED
    BY <2>1, <2>2
<1>4. /\ p.offset % p.align = 0
      /\ p.intable => /\ p.align = IF parts[k].align # 0 THEN parts[k].align ELSE align
                      /\ p.size % Sector = 0
  <2>1. p.intable => p.align = IF parts[k].align # 0 THEN parts[k].align ELSE align
    BY <1>1, PlacedAlign DEF IInv
  <2> QED
    BY <2>1 DEF Accepted
<1>5. /\ \A m \in Indices : /\ parts[m].logical => parts[m].intable
                            /\ parts[m].intable /\ m # extended => Slot(parts[m])
                            /\ parts[m].intable /\ m \in Settled => OnSectors(parts[m])
  BY <1>2 DEF MbrInv, SlotInv
<1>6. ASSUME p.intable, k # extended PROVE Slot(p) /\ OnSectors(p)
  <2>1. Slot(parts[k])
    BY <1>1, <1>5, <1>6
  <2>2. p.align % Sector = 0 /\ p.align \in Nat \ {0}
    BY <1>1, <1>3, <1>4, <1>6, <2>1 DEF Slot, AnyPart
  <2>3. p.offset > 0
    <3>1. parts[k].offset \in Int /\ parts[k].offset >= 0 /\ parts[k].name # "backup"
      BY <1>1, <2>1 DEF Slot, AnyPart
    <3> QED
      BY <1>1, <1>3, <1>6, <3>1
  <2>4. p.size >= 0
    <3>1. CanResize(WithOffset(WithAlign(parts[k]))) /\ ImageFits(Placed(parts[k]))
      BY DEF Accepted
    <3> QED
      BY <1>1, <2>1, <3>1, PlacedSize DEF IInv, Slot
  <2>5. p.offset % Sector = 0
    BY <1>1, <1>4, <2>2, WholeMultiples
  <2>6. p.name = "user"
    BY <1>1, <2>1 DEF Kept, Slot
  <2> QED
    BY <1>1, <2>2, <2>3, <2>4, <2>5, <2>6 DEF Slot, OnSectors
<1>7. ASSUME k = extended
      PROVE  OnSectors(p) /\ ~p.logical /\ p.align = align /\ p.offset % align = 0
  <2>1. /\ extended # 0 /\ extended \notin Settled /\ FirstLinked
        /\ parts[extended].intable /\ extended + 1 \in Indices /\ parts[extended + 1].intable
        /\ parts[extended].child = -1 /\ parts[extended].name = "extended"
        /\ ~parts[extended].logical
    BY <1>1, <1>2, <1>7 DEF IInv, LayoutInv, ExtendedInv, MbrInv, LinkInv
  <2>2. /\ parts[k].size = 0 /\ ~parts[k].autoresize
        /\ \/ parts[k].offset = 0
           \/ /\ parts[extended + 1].offset = parts[k].offset + align
              /\ parts[extended + 1].offset # 0
    BY <1>2, <1>7, <2>1 DEF IInv, LayoutInv, FirstInv
  <2>3. p.align = align
    BY <1>1, <1>4, <1>7, <2>1 DEF FirstLinked
  <2>4. p.offset % align = 0 /\ (p.offset % Sector = 0)
    <3>1. p.offset % align = 0
      BY <1>4, <2>3
    <3> QED
      BY <1>1, <1>3, <3>1, WholeMultiples
  <2>5. p.offset > 0
    <3>1. CASE parts[k].offset = 0
      BY <1>1, <1>3, <1>7, <2>1, <3>1
    <3>2. CASE parts[k].offset # 0
      <4>1. p.offset = parts[k].offset /\ p.offset # 0
        BY <1>1, <3>2
      <4>2. p.offset + align > 0
        <5>1. Slot(parts[extended + 1])
          BY <1>1, <1>5, <2>1
        <5> QED
          BY <1>1, <2>2, <3>2, <4>1, <5>1 DEF Slot
      <4>3. PICK x \in Int, y \in Nat \ {0} : x = p.offset /\ y = align
        BY <1>1
      <4>4. x # 0 /\ x + y > 0 /\ (x % y = 0)
        BY <2>4, <4>1, <4>2, <4>3
      <4>5. x > 0
        BY <4>4, Z3
      <4> QED
        BY <4>3, <4>5
    <3> QED
      BY <3>1, <3>2
  <2>6. p.size = 0 /\ ~p.logical
    BY <1>1, <1>7, <2>1, <2>2 DEF Kept
  <2> QED
    BY <2>3, <2>4, <2>5, <2>6 DEF OnSectors
<1>8. ASSUME p.logical
      PROVE  /\ extended \in Settled /\ extended \in Indices /\ parts[extended].intable
             /\ OnSectors(parts'[extended]) /\ ~parts'[extended].logical
             /\ parts'[extended].align = align
  <2>1. extended # 0 /\ extended < k /\ extended \in Settled /\ extended \in Indices
    BY <1>1, <1>2, <1>8
  <2>2. FirstLinked /\ parts[extended].intable /\ ~parts[extended].logical
    BY <1>2, <2>1 DEF MbrInv, LinkInv, IInv, LayoutInv, ExtendedInv
  <2>3. parts[extended].offset <= now
    BY <2>1 DEF IInv, LayoutInv, CoverInv
  <2>4. PICK e \in AnyPart : e = parts[extended]
    BY <2>1, PlaceChanges
  <2>5. OnSectors(e)
    BY <1>5, <2>1, <2>2, <2>4
  <2>6. PICK f : f = parts'[extended] /\ f = [e EXCEPT !.size = now' - e.offset]
    BY <1>2, <1>8, <2>4
  <2>7. f.offset = e.offset /\ f.size = now' - e.offset /\ f.logical = e.logical /\ f.align = e.align
    BY <2>6 DEF AnyPart
  <2>8. now' - e.offset >= 0
    <3>1. e.offset \in Int /\ e.offset <= now
      BY <2>3, <2>4 DEF AnyPart
    <3> QED
      BY <1>1, <1>2, <3>1
  <2> QED
    BY <2>1, <2>2, <2>4, <2>5, <2>6, <2>7, <2>8 DEF OnSectors, FirstLinked
<1>9. ASSUME NEW m \in Indices
      PROVE  /\ parts'[m].logical => parts'[m].intable
             /\ parts'[m].intable /\ m # extended => Slot(parts'[m])
             /\ parts'[m].intable /\ m \in Settled' => OnSectors(parts'[m])
  <2>1. CASE m = k
    <3>1. p.logical => p.intable
      BY <1>1, <1>5 DEF Kept
    <3> QED
      BY <1>2, <1>6, <1>7, <2>1, <3>1
  <2>2. CASE m # k /\ (m # extended \/ ~p.logical)
    <3>1. m \in Settled' => m \in Settled
      BY <1>1, <1>2, <2>2
    <3> QED
      BY <1>2, <1>5, <2>2, <3>1
  <2>3. CASE m # k /\ m = extended /\ p.logical
    BY <1>8, <2>3
  <2> QED
    BY <2>1, <2>2, <2>3
<1>10. SlotInv'
  BY <1>2, <1>9 DEF SlotInv, Slot, OnSectors, Sector
<1>11. ASSUME extended # 0 PROVE parts'[extended].align = align
  <2>1. CASE extended = k
    BY <1>2, <1>7, <2>1
  <2>2. CASE extended # k /\ ~p.logical
    <3>1. FirstLinked /\ extended \in Indices
      BY <1>1, <1>2, <1>11 DEF MbrInv, LinkInv
    <3> QED
      BY <1>2, <2>2, <3>1 DEF FirstLinked
  <2>3. CASE p.logical
    BY <1>8, <2>3
  <2> QED
    BY <2>1, <2>2, <2>3
<1> QED
  BY <1>7, <1>10, <1>11

(* The extended partition begins where the boot record of the first logical *)
(* one is: a given offset is that of the partition, and it is taken over;   *)
(* without one both follow what has been placed.                            *)
LEMMA LinkPlace ==
    ASSUME IInv, MbrInv, NEW p, p = Placed(parts[k]), pc = "place", k <= Len(parts), Accepted(p),
           PartsWith(p), now' = Advance(p), k' = k + 1,
           UNCHANGED <<conf, pc, ret, align, extended, size>>
    PROVE  LinkInv'
<1> SUFFICES ASSUME extended # 0 PROVE FirstLinked'
  BY DEF LinkInv
<1>1. /\ Indices = 1..Len(parts) /\ k \in Indices /\ Len(parts) \in Nat /\ k \in Nat \ {0}
      /\ now \in Nat /\ align \in Nat \ {0} /\ extended \in 0..Len(parts) /\ Kept(p, parts[k])
      /\ parts[k] \in AnyPart /\ p \in AnyPart
      /\ p.intable <=> parts[k].intable /\ conf.type # "none"
      /\ parts[k].offset # 0 => p.offset = parts[k].offset
      /\ p.logical => Reserved(p) >= now + align
      /\ p.offset \in Int /\ Reserved(p) \in Int
      /\ p.logical => extended # 0 /\ extended < k
  BY PlaceChanges
<1>2. /\ Indices' = Indices /\ parts'[k] = p
      /\ ~SetupDone /\ ~SetupDone' /\ Laid /\ Laid' /\ Settled = 1..(k - 1) /\ Settled' = 1..k
      /\ \A m \in Indices : m # k /\ (m # extended \/ ~p.logical) => parts'[m] = parts[m]
      /\ \A m \in Indices : m # k => parts'[m].offset = parts[m].offset
  BY PlaceChanges
<1>3. /\ FirstLinked /\ conf.type = "mbr" /\ extended \in Indices /\ extended + 1 \in Indices
      /\ parts[extended].intable /\ parts[extended + 1].intable
  BY <1>1, <1>2 DEF MbrInv, LinkInv, IInv, LayoutInv, ExtendedInv
<1>4. parts'[extended].align = align /\ (extended = k => p.offset % align = 0)
  BY <1>3, SlotPlace
<1>5. extended \notin Settled' /\ parts'[extended].offset = 0 => parts'[extended + 1].offset \in {0, align}
  <2>1. extended \notin Settled' => extended # k /\ extended + 1 # k /\ extended \notin Settled
    BY <1>1, <1>2
  <2> QED
    BY <1>2, <1>3, <2>1 DEF FirstLinked
<1>6. extended \in Settled' => parts'[extended].offset % align = 0
  <2>1. extended \in Settled' => extended = k \/ extended \in Settled
    BY <1>1, <1>2
  <2>2. CASE extended = k
    BY <1>2, <1>4, <2>2
  <2>3. CASE extended # k
    BY <1>2, <1>3, <2>1, <2>3 DEF FirstLinked
  <2> QED
    BY <2>2, <2>3
<1>7. ASSUME extended \in Settled', extended + 1 \notin Settled'
      PROVE  parts'[extended + 1].offset \in {0, align, parts'[extended].offset + align}
  <2>1. k = extended /\ k # extended + 1 /\ extended \notin Settled
    BY <1>1, <1>2, <1>7
  <2>2. parts'[extended + 1].offset = parts[extended + 1].offset
    BY <1>2, <1>3, <2>1
  <2>3. \/ parts[extended].offset = 0
        \/ parts[extended + 1].offset = parts[extended].offset + align
    BY <1>2, <2>1 DEF IInv, LayoutInv, FirstInv
  <2> QED
    BY <1>1, <1>2, <1>3, <2>1, <2>2, <2>3 DEF FirstLinked
<1>8. ASSUME extended + 1 \in Settled', parts'[extended + 1].logical,
             parts'[extended + 1].align = align \/ conf.parts[extended].offset # 0
      PROVE  parts'[extended + 1].offset = parts'[extended].offset + align
  <2>1. parts'[extended].offset = parts[extended].offset
    BY <1>1, <1>2, <1>3, <1>8
  <2>2. CASE extended + 1 # k
    <3>1. extended + 1 \in Settled /\ parts'[extended + 1] = parts[extended + 1]
      BY <1>1, <1>2, <1>3, <1>8, <2>2
    <3> QED
      BY <1>3, <1>8, <2>1, <3>1 DEF FirstLinked
  <2>3. CASE extended + 1 = k
    <3>1. extended \in Settled /\ extended + 1 \notin Settled
      BY <1>1, <1>2, <2>3
    <3>2. parts[k].offset \in {0, align, parts[extended].offset + align}
      BY <1>3, <2>3, <3>1 DEF FirstLinked
    <3>3. p.logical /\ p.intable /\ (p.align = align \/ conf.parts[extended].offset # 0)
          /\ parts[k].logical /\ parts[k].name # "backup"
      <4>1. Slot(parts[k])
        BY <1>1, <1>2, <1>3, <2>3 DEF MbrInv, SlotInv
      <4> QED
        BY <1>1, <1>2, <1>3, <1>8, <2>3, <4>1 DEF Kept, Slot
    <3>4. OnSectors(parts[extended]) /\ parts[extended].offset % align = 0
          /\ parts[extended].offset \in Int
      <4>1. parts[extended] \in AnyPart
        BY <1>3, PlaceChanges
      <4> QED
        BY <1>2, <1>3, <3>1, <4>1 DEF MbrInv, SlotInv, FirstLinked, AnyPart
    <3>5. now > 0
      BY <1>1, <1>2, <1>3 DEF IInv, LayoutInv, ListInv
    <3>6. CASE parts[k].offset = 0
      <4>1. now = parts[extended].offset
        BY <2>3, <3>1, <3>6 DEF IInv, LayoutInv, CoverInv
      <4>2. conf.parts[extended].offset = 0
        <5>1. PlaceOf(extended) = k
          BY <1>1, <2>3 DEF PlaceOf
        <5> QED
          BY <1>2, <1>3, <2>3, <3>1, <3>6, <5>1 DEF FirstLinked, IInv, LayoutInv, ListInv
      <4>3. p.offset = now + align
        BY <1>1, <3>3, <3>4, <3>6, <4>1, <4>2, PlacedAuto DEF IInv
      <4> QED
        BY <1>2, <2>1, <2>3, <4>1, <4>3
    <3>7. CASE parts[k].offset = align
      <4>1. Reserved(p) <= p.offset
        BY <3>3 DEF Accepted
      <4>2. p.offset = align
        BY <1>1, <3>7
      <4> QED
        BY <1>1, <3>3, <3>5, <4>1, <4>2
    <3>8. CASE parts[k].offset = parts[extended].offset + align
      <4>1. parts[k].offset # 0
        BY <1>1, <3>4, <3>8 DEF OnSectors
      <4> QED
        BY <1>1, <1>2, <2>1, <2>3, <3>8, <4>1
    <3> QED
      BY <3>2, <3>6, <3>7, <3>8
  <2> QED
    BY <2>2, <2>3
<1> QED
  BY <1>3, <1>4, <1>5, <1>6, <1>7, <1>8 DEF FirstLinked

LEMMA MbrPlace ==
    ASSUME IInv, MbrInv, PlacePart
    PROVE  MbrInv'
<1>1. CASE Error("partition cannot be placed")
  BY <1>1, MbrStop DEF Error
<1>2. CASE ~Error("partition cannot be placed")
  <2>1. PICK p : p = Placed(parts[k])
    OBVIOUS
  <2>2. /\ Accepted(p) /\ PartsWith(p) /\ now' = Advance(p) /\ k' = k + 1
        /\ pc = "place" /\ k <= Len(parts)
        /\ UNCHANGED <<conf, pc, ret, align, extended, size>>
    BY <1>2, <2>1 DEF PlacePart, PartsWith
  <2>3. /\ Indices' = Indices /\ parts'[k] = p /\ now \in Nat /\ now' \in Nat /\ now' >= now
        /\ ~SetupDone' /\ Laid /\ Laid'
        /\ p.intable <=> parts[k].intable /\ conf.type # "none"
        /\ \A m \in Indices :
              /\ Kept(parts'[m], parts[m])
              /\ m # k => parts'[m].intable = parts[m].intable
    BY <2>1, <2>2, PlaceChanges
  <2>4. SlotInv' /\ LinkInv'
    <3>1. conf.type = "none" => SlotInv'
      BY <2>2 DEF SlotInv
    <3> QED
      BY <2>1, <2>2, <3>1, SlotPlace, LinkPlace
  <2>5. CountInv'
    <3>1. Primary' \in SUBSET Primary
      BY <2>3 DEF Primary, Kept
    <3>2. IsFiniteSet(Primary)
      BY SmallList DEF IInv
    <3>3. /\ Cardinality(Primary') <= Cardinality(Primary)
          /\ Cardinality(Primary) \in Nat /\ Cardinality(Primary') \in Nat
      BY <3>1, <3>2, FS_Subset, FS_CardinalityType
    <3>4. conf.type = "mbr" => Cardinality(Primary) <= 4
      BY <2>3 DEF MbrInv, CountInv
    <3> QED
      BY <2>2, <2>3, <3>3, <3>4 DEF CountInv
  <2>6. BeginInv'
    <3>1. Gpt' = Gpt
      BY <2>2 DEF Gpt
    <3>2. Gpt => now' >= 2 * Sector
      BY <2>2, <2>3 DEF MbrInv, BeginInv, Sector
    <3> QED
      BY <2>2, <2>3, <3>1, <3>2 DEF MbrInv, BeginInv, Sector
  <2> QED
    BY <2>2, <2>4, <2>5, <2>6 DEF MbrInv
<1> QED
  BY <1>1, <1>2

\* A step that leaves the layout alone
LEMMA MbrSame ==
    ASSUME MbrInv, SetupDone' = SetupDone, Laid' = Laid, Settled' = Settled,
           UNCHANGED <<conf, align, parts, extended, now, size>>,
           pc' = "logical" => pc = "logical", pc = "fakes" <=> pc' = "fakes"
    PROVE  MbrInv'
<1>1. Indices' = Indices /\ Gpt' = Gpt /\ Primary' = Primary /\ HybridEntries' = HybridEntries
  BY DEF Indices, Gpt, Primary, HybridEntries
<1>2. BeginInv'
  BY <1>1 DEF MbrInv, BeginInv, Sector
<1>3. SlotInv'
  BY <1>1 DEF MbrInv, SlotInv, Slot, OnSectors, Sector
<1>4. LinkInv'
  BY DEF MbrInv, LinkInv, FirstLinked
<1>5. CountInv'
  BY <1>1 DEF MbrInv, CountInv
<1> QED
  BY <1>2, <1>3, <1>4, <1>5 DEF MbrInv

\* What has been placed is within the image.
LEMMA MbrFinish ==
    ASSUME IInv, MbrInv, SetupFinish
    PROVE  MbrInv'
<1>1. CASE pc' = "end"
  <2>1. ret' # "ok" /\ UNCHANGED <<conf, setupVars>>
    BY <1>1 DEF SetupFinish, Error
  <2> QED
    BY <1>1, <2>1, MbrStop
<1>2. CASE pc' # "end"
  <2>1. /\ pc = "place" /\ k > Len(parts) /\ pc' = "prepare"
        /\ UNCHANGED <<conf, align, parts, extended, now>>
        /\ size' = IF size = 0 THEN now ELSE size
        /\ ~(size > 0 /\ now > size) /\ ~(Cardinality(HybridEntries) > 3)
    BY <1>2 DEF SetupFinish, Error
  <2>2. /\ k \in Nat \ {0} /\ k <= Len(parts) + 1 /\ Len(parts) \in Nat
        /\ Indices = 1..Len(parts) /\ now \in Nat /\ size \in Nat
    <3>1. /\ k \in Nat \ {0} /\ k <= Len(parts) + 1 /\ parts \in Seq(AnyPart)
          /\ now \in Nat /\ size \in Nat
      BY <2>1 DEF IInv, TypeInv
    <3> QED
      BY <3>1 DEF Indices
  <2>3. /\ Laid /\ Laid' /\ SetupDone' /\ ~SetupDone /\ Gpt' = Gpt
        /\ Settled = Indices /\ Settled' = Indices /\ Indices' = Indices
        /\ Primary' = Primary /\ HybridEntries' = HybridEntries
    BY <2>1, <2>2 DEF SetupDone, Laid, Settled, Gpt, Indices, Primary, HybridEntries
  <2>4. BeginInv'
    BY <2>1, <2>2, <2>3 DEF MbrInv, BeginInv, Sector
  <2>5. SlotInv'
    BY <2>1, <2>3 DEF MbrInv, SlotInv, Slot, OnSectors, Sector
  <2>6. LinkInv'
    BY <2>1, <2>3 DEF MbrInv, LinkInv, FirstLinked
  <2>7. Cardinality(HybridEntries) <= 3
    <3>1. HybridEntries \in SUBSET Indices
      BY DEF HybridEntries
    <3>2. Cardinality(HybridEntries) \in Nat
      BY <3>1, SmallList, FS_Subset, FS_CardinalityType DEF IInv
    <3> QED
      BY <2>1, <3>2
  <2>8. CountInv'
    BY <2>1, <2>3, <2>7 DEF MbrInv, CountInv
  <2> QED
    BY <2>1, <2>4, <2>5, <2>6, <2>8 DEF MbrInv
<1> QED
  BY <1>1, <1>2

\* hdimage_generate() leaves the layout alone.
LEMMA MbrStill ==
    ASSUME IInv, MbrInv, Prepare \/ WriteData \/ DataDone \/ WriteTable \/ Fill \/ CheckSize
    PROVE  MbrInv'
<1> DEFINE Gone == pc' = "end" /\ ret' # "ok" /\ UNCHANGED <<conf, setupVars>>
           Going == /\ pc \in {"prepare", "data", "table", "fill", "check"}
                    /\ pc' \in {"data", "table", "fill", "check", "end"}
                    /\ UNCHANGED <<conf, ret, align, parts, extended, now, size>>
<1>1. Prepare \/ DataDone => Going
  BY DEF Prepare, DataDone, setupVars
<1>2. WriteData => Gone \/ Going
  BY DEF WriteData, Error
<1>3. WriteTable \/ Fill \/ CheckSize => Gone \/ Going
  BY DEF WriteTable, Fill, CheckSize, Error, setupVars
<1>4. CASE Gone
  BY <1>4, MbrStop
<1>5. CASE Going
  <2>1. SetupDone /\ SetupDone' /\ Laid /\ Laid'
    BY <1>5 DEF SetupDone, Laid, IInv, TypeInv
  <2>2. Settled = Indices /\ Settled' = Indices
    BY <1>5, <2>1 DEF Settled, Indices, SetupDone
  <2> QED
    BY <1>5, <2>1, <2>2, MbrSame
<1> QED
  BY <1>1, <1>2, <1>3, <1>4, <1>5

LEMMA MbrNext == SectorAligns /\ IInv /\ MbrInv /\ [Next]_vars => MbrInv'
<1> SUFFICES ASSUME SectorAligns, IInv, MbrInv, [Next]_vars PROVE MbrInv'
  OBVIOUS
<1>1. CASE SetupAlign \/ SetupLogical
  BY <1>1, MbrEarly
<1>2. CASE SetupFakes
  BY <1>2, MbrFakes
<1>3. CASE PlacePart
  BY <1>3, MbrPlace
<1>4. CASE SetupFinish
  BY <1>4, MbrFinish
<1>5. CASE Prepare \/ WriteData \/ DataDone \/ WriteTable \/ Fill \/ CheckSize
  BY <1>5, MbrStill
<1>6. CASE UNCHANGED vars
  <2>1. UNCHANGED <<conf, pc, ret, align, parts, extended, k, now, size>>
    BY <1>6 DEF vars, setupVars
  <2>2. SetupDone' = SetupDone /\ Laid' = Laid /\ Settled' = Settled
    BY <2>1 DEF SetupDone, Laid, Settled, Indices
  <2> QED
    BY <2>1, <2>2, MbrSame
<1> QED
  BY <1>1, <1>2, <1>3, <1>4, <1>5, <1>6 DEF Next

(* What a reader finds.                                                     *)
Readable == IInv /\ MbrInv /\ SetupDone /\ conf.type # "none"
LogicalOnes == {n \in Indices : parts[n].logical}
Later(n) == {m \in Indices : m > n /\ parts[m].logical}
Start == parts[extended].offset \div Sector
\* The sector of a boot record
BootSector(n) == (parts[n].offset - align) \div Sector

LEMMA SectorMath ==
    /\ \A x \in Int : x % 512 = 0 => x = (x \div 512) * 512 /\ x \div 512 \in Int
    /\ \A x, y \in Int : (x % 512 = 0) /\ (y % 512 = 0) =>
          /\ (x - y) % 512 = 0
          /\ (x - y) \div 512 = x \div 512 - y \div 512
    /\ \A x \in Int : x >= 0 => x \div 512 \in Nat
    /\ \A x \in Int : x > 0 /\ (x % 512 = 0) => x \div 512 > 0
<1>1. \A x \in Int : x % 512 = 0 => x = (x \div 512) * 512 /\ x \div 512 \in Int
  BY Z3
<1>2. \A x, y \in Int : (x % 512 = 0) /\ (y % 512 = 0) =>
          /\ (x - y) % 512 = 0
          /\ (x - y) \div 512 = x \div 512 - y \div 512
  BY Z3
<1>3. \A x \in Int : x >= 0 => x \div 512 \in Nat
  BY Z3
<1>4. \A x \in Int : x > 0 /\ (x % 512 = 0) => x \div 512 > 0
  BY Z3
<1> QED
  BY <1>1, <1>2, <1>3, <1>4

LEMMA ReadFacts ==
    ASSUME Readable
    PROVE  /\ Indices = 1..Len(parts) /\ Len(parts) \in Nat
           /\ align \in Nat \ {0} /\ align % 512 = 0 /\ size \in Nat /\ (Gpt => size >= 1024)
           /\ \A n \in Entries :
                 /\ n \in Indices /\ parts[n].offset \in Int /\ parts[n].size \in Int
                 /\ parts[n].offset > 0 /\ parts[n].offset % 512 = 0 /\ parts[n].size >= 0
                 /\ n # extended => parts[n].name = "user"
           /\ extended # 0 =>
                 /\ extended \in Entries /\ parts[extended].name = "extended"
                 /\ ~parts[extended].logical /\ extended \in Nat /\ FirstLinked
           /\ \A n \in LogicalOnes :
                 /\ n \in Entries /\ extended # 0 /\ n > extended
                 /\ parts[extended].offset <= parts[n].offset - align
<1>1. Laid /\ Settled = Indices /\ IInv /\ MbrInv /\ pc # "fakes" /\ pc # "place"
  BY DEF Readable, SetupDone, Laid, Settled
<1>2. /\ Indices = 1..Len(parts) /\ Len(parts) \in Nat
      /\ align \in Nat \ {0} /\ align % 512 = 0 /\ size \in Nat /\ extended \in 0..Len(parts)
      /\ \A n \in Indices : parts[n] \in AnyPart
  <2>1. parts \in Seq(AnyPart) /\ align \in Nat \ {0} /\ size \in Nat /\ extended \in 0..Len(parts)
    BY <1>1 DEF IInv, TypeInv, Readable, SetupDone
  <2>2. align % 512 = 0
    BY <1>1 DEF MbrInv, BeginInv, Readable, Sector
  <2> QED
    BY <2>1, <2>2 DEF Indices
<1>3. Gpt => size >= 1024
  <2>1. now \in Nat /\ (Gpt => now >= 1024) /\ now <= size
    BY <1>1 DEF IInv, TypeInv, MbrInv, BeginInv, Readable, Sector
  <2> QED
    BY <1>2, <2>1
<1>4. ASSUME NEW n \in Entries
      PROVE  /\ n \in Indices /\ parts[n].offset \in Int /\ parts[n].size \in Int
             /\ parts[n].offset > 0 /\ parts[n].offset % 512 = 0 /\ parts[n].size >= 0
             /\ n # extended => parts[n].name = "user"
  <2>1. n \in Indices /\ parts[n].intable /\ parts[n] \in AnyPart
    BY <1>2 DEF Entries
  <2>2. OnSectors(parts[n]) /\ (n # extended => Slot(parts[n]))
    BY <1>1, <2>1 DEF MbrInv, SlotInv, Readable
  <2> QED
    BY <2>1, <2>2 DEF AnyPart, OnSectors, Slot, Sector
<1>5. ASSUME extended # 0
      PROVE  /\ extended \in Entries /\ parts[extended].name = "extended"
             /\ ~parts[extended].logical /\ extended \in Nat /\ FirstLinked
  <2>1. extended \in Indices /\ extended \in Nat
    BY <1>2, <1>5
  <2> QED
    BY <1>1, <1>5, <2>1 DEF IInv, LayoutInv, ExtendedInv, MbrInv, LinkInv, Entries
<1>6. ASSUME NEW n \in LogicalOnes
      PROVE  /\ n \in Entries /\ extended # 0 /\ n > extended
             /\ parts[extended].offset <= parts[n].offset - align
  <2>1. n \in Indices /\ parts[n].logical /\ parts[n].intable
    BY <1>1 DEF LogicalOnes, MbrInv, SlotInv, Readable
  <2>2. extended # 0 /\ extended < n
    BY <1>1, <2>1 DEF IInv, LayoutInv, ListInv
  <2>3. n \in Settled \ {extended} /\ extended \in Settled /\ n > extended
    BY <1>1, <1>2, <2>1, <2>2
  <2>4. Covers(n)
    BY <2>1, <2>2, <2>3 DEF IInv, LayoutInv, CoverInv, Readable
  <2> QED
    BY <2>1, <2>2, <2>3, <2>4 DEF Covers, Entries
<1> QED
  BY <1>2, <1>3, <1>4, <1>5, <1>6

\* In sectors
LEMMA BootFacts ==
    ASSUME Readable, NEW n \in LogicalOnes
    PROVE  /\ BootSector(n) \in Int /\ BootSector(n) * Sector = parts[n].offset - align
           /\ align \div Sector \in Int /\ align \div Sector > 0
           /\ BootSector(n) + align \div Sector = parts[n].offset \div Sector
           /\ Start \in Int /\ Start > 0 /\ BootSector(n) > 0
           /\ (parts[n].offset - align - parts[extended].offset) \div Sector = BootSector(n) - Start
<1>1. /\ n \in Entries /\ extended \in Entries /\ align \in Nat \ {0} /\ align % 512 = 0
      /\ parts[extended].offset <= parts[n].offset - align
  BY ReadFacts
<1>2. PICK o \in Int, e \in Int, a \in Int :
        /\ o = parts[n].offset /\ e = parts[extended].offset /\ a = align
        /\ o > 0 /\ e > 0 /\ a > 0 /\ (o % 512 = 0) /\ (e % 512 = 0) /\ (a % 512 = 0)
        /\ e <= o - a
  BY <1>1, ReadFacts
<1>3. PICK d \in Int : d = o - a
  OBVIOUS
<1>4. (d % 512 = 0) /\ d \div 512 = o \div 512 - a \div 512 /\ d > 0
  BY <1>2, <1>3, SectorMath
<1>5. /\ o \div 512 \in Int /\ e \div 512 \in Int /\ a \div 512 \in Int /\ d \div 512 \in Int
      /\ (d \div 512) * 512 = d
      /\ a \div 512 > 0 /\ e \div 512 > 0 /\ d \div 512 > 0
      /\ (d - e) \div 512 = d \div 512 - e \div 512
  BY <1>2, <1>4, SectorMath
<1> QED
  BY <1>2, <1>3, <1>4, <1>5 DEF BootSector, Start, Sector

\* The entries of a boot record
LEMMA EbrEntries ==
    ASSUME Readable, NEW n \in LogicalOnes
    PROVE  /\ EbrTable(n)[1] = Entry("user", align \div Sector, parts[n].size \div Sector, BootSector(n))
           /\ Len(EbrTable(n)) = 2 <=> Later(n) # {}
           /\ Later(n) # {} =>
                 \E q \in Later(n) :
                    /\ \A l \in Later(n) : q <= l
                    /\ EbrTable(n)[2] = Entry("extended", BootSector(q) - Start,
                                              (parts[q].size + align) \div Sector, Start)
<1> DEFINE a == Entry("user", align \div Sector, parts[n].size \div Sector, BootSector(n))
           q == CHOOSE m \in Later(n) : \A l \in Later(n) : m <= l
           b == Entry("extended", Link(parts[n], parts[q]), (parts[q].size + align) \div Sector, Start)
<1>1. EbrTable(n) = <<a>> \o IF Later(n) = {} THEN <<>> ELSE <<b>>
  BY DEF EbrTable, Later, BootSector, Start
<1>2. CASE Later(n) = {}
  <2>1. EbrTable(n) = <<a>>
    BY <1>1, <1>2
  <2> QED
    BY <1>2, <2>1
<1>3. CASE Later(n) # {}
  <2>1. EbrTable(n)[1] = a /\ EbrTable(n)[2] = b /\ Len(EbrTable(n)) = 2
    <3>1. PICK u, v : u = a /\ v = b /\ EbrTable(n) = <<u>> \o <<v>>
      BY <1>1, <1>3
    <3>2. /\ <<u>> \in Seq({u, v}) /\ <<v>> \in Seq({u, v})
          /\ Len(<<u>>) = 1 /\ Len(<<v>>) = 1 /\ <<u>>[1] = u /\ <<v>>[1] = v
      OBVIOUS
    <3>3. PICK s \in Seq({u, v}), t \in Seq({u, v}) : s = <<u>> /\ t = <<v>>
      BY <3>2
    <3>4. Len(s \o t) = 2 /\ (s \o t)[1] = s[1] /\ (s \o t)[2] = t[1]
      BY <3>2, <3>3
    <3> QED
      BY <3>1, <3>2, <3>3, <3>4
  <2>2. Later(n) \in SUBSET Nat /\ Later(n) \in SUBSET LogicalOnes
    BY ReadFacts DEF Later, LogicalOnes
  <2>3. \E m \in Later(n) : \A l \in Later(n) : m <= l
    BY <1>3, <2>2, Least
  <2>4. q \in Later(n) /\ \A l \in Later(n) : q <= l
    BY <2>3
  <2> HIDE DEF q
  <2>5. Link(parts[n], parts[q]) = BootSector(q) - Start
    BY <2>2, <2>4, BootFacts DEF Link
  <2> QED
    BY <1>3, <2>1, <2>4, <2>5
<1> QED
  BY <1>2, <1>3

LEMMA EntryParts ==
    ASSUME NEW w, NEW s, NEW t, NEW f
    PROVE  Entry(w, s, t, f).what = w /\ Entry(w, s, t, f).start = s /\ Entry(w, s, t, f).total = t
BY DEF Entry

(* The links lead from each boot record to the next one: else there would   *)
(* be a first one that is not reached.                                      *)
LEMMA AllFollowed ==
    ASSUME Readable, conf.type = "mbr", FirstAligned, NEW S, Followed(S, Start), NEW n \in LogicalOnes
    PROVE  BootSector(n) \in S
<1> DEFINE B == {m \in LogicalOnes : BootSector(m) \notin S}
<1> SUFFICES ASSUME n \in B PROVE FALSE
  OBVIOUS
<1>1. B \in SUBSET Nat /\ B # {} /\ LogicalOnes \in SUBSET Nat
  BY ReadFacts DEF LogicalOnes
<1>2. PICK x \in B : \A y \in B : x <= y
  <2> HIDE DEF B
  <2> QED
    BY <1>1, Least
<1>3. /\ x \in LogicalOnes /\ BootSector(x) \notin S /\ x \in Nat /\ x \in Indices /\ parts[x].logical
      /\ extended # 0 /\ extended \in Nat /\ x > extended /\ FirstLinked
      /\ Start \in S
  BY <1>1, <1>2, ReadFacts DEF Followed, LogicalOnes
<1>4. x # extended + 1
  <2>1. ASSUME x = extended + 1 PROVE BootSector(x) = Start
    <3>1. extended + 1 \in Settled
      BY <1>3, <2>1 DEF Readable, SetupDone, Settled
    <3>2. parts[x].offset = parts[extended].offset + align
      BY <1>3, <2>1, <3>1 DEF FirstAligned, FirstLinked
    <3>3. parts[extended].offset \in Int /\ align \in Nat
      BY <1>3, ReadFacts
    <3>4. parts[x].offset - align = parts[extended].offset
      BY <3>2, <3>3
    <3> QED
      BY <3>4 DEF BootSector, Start
  <2> QED
    BY <1>3, <2>1
<1>5. extended + 1 \in LogicalOnes
  <2>1. Laid /\ IInv
    BY DEF Readable, Laid
  <2>2. /\ extended + 1 \in Indices /\ parts[extended + 1].intable
        /\ extended + 1 < x /\ extended < extended + 1
    BY <1>3, <1>4, <2>1 DEF IInv, LayoutInv, ExtendedInv
  <2>3. parts[extended + 1].logical
    BY <1>3, <2>1, <2>2 DEF IInv, LayoutInv, ExtendedInv
  <2> QED
    BY <2>2, <2>3 DEF LogicalOnes
<1>6. PICK m \in LogicalOnes : m < x /\ \A l \in LogicalOnes : l < x => l <= m
  <2>0. \A l \in LogicalOnes : l \in Int
    BY <1>1
  <2>1. PICK T \in SUBSET Int : T = {l \in LogicalOnes : l < x}
    BY <2>0
  <2>2. T # {} /\ \A y \in T : y <= x
    BY <1>1, <1>3, <1>4, <1>5, <2>1
  <2>3. PICK z \in T : \A y \in T : y <= z
    <3>1. x \in Int
      BY <1>3
    <3> QED
      BY <2>2, <3>1, Largest
  <2> QED
    BY <2>1, <2>3
<1>7. BootSector(m) \in S
  BY <1>1, <1>2, <1>3, <1>6
<1>8. x \in Later(m) /\ m \in Nat
  BY <1>1, <1>3, <1>6 DEF Later
<1>9. PICK q \in Later(m) :
         /\ \A l \in Later(m) : q <= l
         /\ EbrTable(m)[2] = Entry("extended", BootSector(q) - Start,
                                   (parts[q].size + align) \div Sector, Start)
  BY <1>8, EbrEntries
<1>10. q = x
  <2>1. q \in LogicalOnes /\ q > m /\ q \in Nat /\ q <= x
    BY <1>1, <1>8, <1>9 DEF Later, LogicalOnes
  <2> QED
    BY <1>3, <1>6, <1>8, <2>1
<1>11. m \in EbrAt(BootSector(m)) /\ Len(EbrTable(m)) = 2
  <2>1. BootSector(m) * Sector = parts[m].offset - align
    BY <1>6, BootFacts
  <2>2. Len(EbrTable(m)) = 2
    BY <1>6, <1>8, EbrEntries
  <2> QED
    BY <1>6, <2>1, <2>2 DEF EbrAt, LogicalOnes
<1>12. PICK r : r = [base |-> Start, entry |-> EbrTable(m)[2]]
  OBVIOUS
<1>13. r \in Links(BootSector(m), Start)
  BY <1>11, <1>12 DEF Links
<1>14. Target(r) \in S
  BY <1>7, <1>13 DEF Followed
<1>15. Target(r) = Start + (BootSector(x) - Start)
  BY <1>9, <1>10, <1>12, EntryParts DEF Target
<1>16. Start + (BootSector(x) - Start) = BootSector(x)
  BY <1>3, BootFacts
<1> QED
  BY <1>3, <1>14, <1>15, <1>16

LEMMA InChain ==
    ASSUME Readable, conf.type = "mbr", FirstAligned, NEW n \in LogicalOnes
    PROVE  BootSector(n) \in Chain(Start)
<1>1. Followed(Sectors(Start), Start)
  <2>1. Start \in Sectors(Start)
    BY DEF Sectors
  <2>2. ASSUME NEW s \in Sectors(Start), NEW x \in Links(s, Start)
        PROVE  Target(x) \in Sectors(Start)
    <3>1. PICK m \in EbrAt(s) : Len(EbrTable(m)) = 2 /\ x = [base |-> Start, entry |-> EbrTable(m)[2]]
      BY DEF Links
    <3>2. m \in Indices /\ parts[m].logical
      BY DEF EbrAt
    <3>3. Target(x) = Start + EbrTable(m)[2].start
      BY <3>1 DEF Target
    <3> QED
      BY <3>1, <3>2, <3>3 DEF Sectors
  <2> QED
    BY <2>1, <2>2 DEF Followed
<1>2. BootSector(n) \in Sectors(Start)
  BY <1>1, AllFollowed
<1>3. \A S \in SUBSET Sectors(Start) : Followed(S, Start) => BootSector(n) \in S
  BY AllFollowed
<1> QED
  BY <1>2, <1>3 DEF Chain

\* The entry of a partition in the MBR
RowOf(n) == Entry(parts[n].name, parts[n].offset \div Sector, parts[n].size \div Sector, 0)

LEMMA Rows ==
    ASSUME Readable
    PROVE  /\ Len(MbrTable) <= 4
           /\ \A i \in DOMAIN MbrTable :
                 \/ \E n \in Shown : MbrTable[i] = RowOf(n)
                 \/ conf.type # "mbr" /\ \E t \in Nat : MbrTable[i] = Entry("gpt", 1, t, 0)
           /\ conf.type = "mbr" => \A n \in Shown : \E i \in DOMAIN MbrTable : MbrTable[i] = RowOf(n)
<1> DEFINE N == Cardinality(Shown)
           rows == [i \in 1..N |-> RowOf(ShownAs(i))]
<1>0. /\ IInv /\ MbrInv /\ TypeInv /\ SetupDone /\ Laid /\ conf.type \in {"mbr", "gpt", "hybrid"}
      /\ Indices = 1..Len(parts) /\ Len(parts) \in Nat
  BY ReadFacts DEF Readable, Laid, IInv, TypeInv, Conf
<1>1. Shown \in SUBSET Entries /\ Entries \in SUBSET Nat /\ IsFiniteSet(Entries)
  BY <1>0, SmallList DEF Shown, Entries
<1>2. Shown \in SUBSET Nat /\ IsFiniteSet(Shown)
  BY <1>1, FS_Subset
<1>3. /\ N \in Nat
      /\ \A i \in 1..N : ShownAs(i) \in Shown
      /\ \A n \in Shown : \E i \in 1..N : ShownAs(i) = n
  BY <1>2, Numbered DEF ShownAs
<1>4. /\ DOMAIN rows = 1..N /\ \A i \in 1..N : rows[i] = RowOf(ShownAs(i))
      /\ \A i \in 1..N : \E n \in Shown : rows[i] = RowOf(n)
      /\ \A n \in Shown : \E i \in 1..N : rows[i] = RowOf(n)
  BY <1>3
<1>5. rows \in Seq({RowOf(n) : n \in Shown}) /\ Len(rows) = N
  <2>1. \A i \in 1..N : rows[i] \in {RowOf(n) : n \in Shown}
    BY <1>4
  <2> HIDE DEF N
  <2> QED
    BY <1>3, <2>1
<1>6. CASE conf.type = "mbr"
  <2>1. MbrTable = rows
    BY <1>6 DEF MbrTable, RowOf
  <2>2. N <= 4
    <3>1. Shown = Primary
      BY <1>6 DEF Shown, Primary, Entries
    <3> QED
      BY <1>0, <1>6, <3>1 DEF MbrInv, CountInv
  <2> HIDE DEF rows, N
  <2> QED
    BY <1>4, <1>5, <1>6, <2>1, <2>2
<1>7. CASE conf.type = "hybrid"
  <2> DEFINE t == GptLocation \div Sector + GptSectors - 2
             g == Entry("gpt", 1, t, 0)
  <2>1. MbrTable = Append(rows, g)
    BY <1>7 DEF MbrTable, RowOf
  <2>2. t \in Nat
    <3>1. GptLocation \in Nat
      BY <1>0, ConfType DEF TypeInv, GptLocation, Sector
    <3>2. GptLocation \div 512 \in Nat
      BY <3>1, SectorMath
    <3> QED
      BY <3>2 DEF Sector, GptSectors
  <2>3. N <= 3
    <3>1. Shown \in SUBSET HybridEntries /\ HybridEntries \in SUBSET Entries
      BY <1>7 DEF Shown, HybridEntries, Entries, Gpt
    <3>2. Cardinality(HybridEntries) <= 3
      BY <1>0, <1>7 DEF MbrInv, CountInv
    <3>3. IsFiniteSet(HybridEntries) /\ Cardinality(HybridEntries) \in Nat
      BY <1>1, <3>1, FS_Subset, FS_CardinalityType
    <3>4. Cardinality(Shown) <= Cardinality(HybridEntries)
      BY <3>1, <3>3, FS_Subset
    <3> QED
      BY <1>3, <3>2, <3>3, <3>4
  <2> HIDE DEF rows, N, t
  <2>4. /\ Len(MbrTable) = N + 1 /\ DOMAIN MbrTable = 1..(N + 1)
        /\ \A i \in 1..N : MbrTable[i] = rows[i]
        /\ MbrTable[N + 1] = g
    <3>1. PICK S : rows \in Seq(S) /\ g \in S
      <4>1. rows \in Seq({RowOf(n) : n \in Shown} \cup {g})
        BY <1>5
      <4> QED
        BY <4>1
    <3> HIDE DEF g
    <3> QED
      BY <1>3, <1>5, <2>1, <3>1
  <2>5. ASSUME NEW i \in DOMAIN MbrTable
        PROVE  \/ \E n \in Shown : MbrTable[i] = RowOf(n)
               \/ MbrTable[i] = g
    <3>1. i \in 1..N \/ i = N + 1
      BY <1>3, <2>4
    <3> HIDE DEF g
    <3> QED
      BY <1>4, <2>4, <3>1
  <2> QED
    BY <1>3, <1>7, <2>2, <2>3, <2>4, <2>5
<1>8. CASE conf.type = "gpt"
  <2> DEFINE t == (size - Sector) \div Sector
             g == Entry("gpt", 1, t, 0)
  <2>1. MbrTable = <<g>>
    BY <1>8 DEF MbrTable
  <2>2. t \in Nat
    <3>1. size - 512 \in Int /\ size - 512 >= 0
      BY <1>8, ReadFacts DEF Gpt
    <3> QED
      BY <3>1, SectorMath DEF Sector
  <2>3. Len(MbrTable) = 1 /\ \A i \in DOMAIN MbrTable : MbrTable[i] = g
    <3> HIDE DEF g
    <3> QED
      BY <2>1
  <2> QED
    BY <1>8, <2>2, <2>3
<1> QED
  BY <1>0, <1>6, <1>7, <1>8

\* The only extended partition in the MBR is the one that has been laid out.
LEMMA OneExtended ==
    ASSUME Readable, NEW e \in Extended
    PROVE  e.start = Start
<1>1. PICK i \in DOMAIN MbrTable : e = MbrTable[i] /\ e.what = "extended"
  BY DEF Extended
<1>2. ASSUME NEW t, e = Entry("gpt", 1, t, 0) PROVE FALSE
  <2>1. Entry("gpt", 1, t, 0).what = "gpt"
    BY EntryParts
  <2> QED
    BY <1>1, <1>2, <2>1
<1>3. PICK n \in Shown : e = RowOf(n)
  BY <1>1, <1>2, Rows
<1>4. parts[n].name = "extended" /\ e.start = parts[n].offset \div Sector
  BY <1>1, <1>3, EntryParts DEF RowOf
<1>5. n = extended
  BY <1>4, ReadFacts DEF Shown
<1> QED
  BY <1>4, <1>5 DEF Start

\* All that is read is an entry of the MBR or one of a logical partition.
Onward(n) == [base |-> Start, entry |-> EbrTable(n)[2]]
Own(n) == [base |-> BootSector(n), entry |-> EbrTable(n)[1]]
LEMMA ReadParts ==
    ASSUME Readable, NEW x \in Read
    PROVE  \/ \E i \in DOMAIN MbrTable : x = [base |-> 0, entry |-> MbrTable[i]]
           \/ \E n \in LogicalOnes : x = Own(n) \/ (Later(n) # {} /\ x = Onward(n))
<1>1. CASE x \in {[base |-> 0, entry |-> MbrTable[i]] : i \in DOMAIN MbrTable}
  BY <1>1
<1>2. CASE x \notin {[base |-> 0, entry |-> MbrTable[i]] : i \in DOMAIN MbrTable}
  <2>1. PICK e \in Extended : \E s \in Chain(e.start) :
           \/ x \in Links(s, e.start)
           \/ x \in {[base |-> s, entry |-> EbrTable(n)[1]] : n \in EbrAt(s)}
    BY <1>2 DEF Read
  <2>2. PICK s \in Chain(Start) :
           \/ x \in Links(s, Start)
           \/ x \in {[base |-> s, entry |-> EbrTable(n)[1]] : n \in EbrAt(s)}
    BY <2>1, OneExtended
  <2>3. CASE x \in Links(s, Start)
    <3>1. PICK n \in EbrAt(s) : Len(EbrTable(n)) = 2 /\ x = Onward(n)
      BY <2>3 DEF Links, Onward
    <3>2. n \in LogicalOnes
      BY DEF EbrAt, LogicalOnes
    <3>3. Later(n) # {}
      BY <3>1, <3>2, EbrEntries
    <3> QED
      BY <3>1, <3>2, <3>3
  <2>4. CASE x \in {[base |-> s, entry |-> EbrTable(n)[1]] : n \in EbrAt(s)}
    <3>1. PICK n \in EbrAt(s) : x = [base |-> s, entry |-> EbrTable(n)[1]]
      BY <2>4
    <3>2. n \in LogicalOnes /\ parts[n].offset - align = s * Sector
      BY DEF EbrAt, LogicalOnes
    <3>3. Start \in Int /\ BootSector(n) \in Int /\ BootSector(n) * Sector = s * Sector
      BY <3>2, BootFacts
    <3>4. s \in Int
      <4>1. s \in Sectors(Start)
        BY DEF Chain
      <4>2. ASSUME NEW m \in LogicalOnes, Len(EbrTable(m)) = 2
            PROVE  EbrTable(m)[2].start \in Int
        <5>1. PICK q \in Later(m) :
                 EbrTable(m)[2] = Entry("extended", BootSector(q) - Start,
                                        (parts[q].size + align) \div Sector, Start)
          BY <4>2, EbrEntries
        <5>2. q \in LogicalOnes
          BY DEF Later, LogicalOnes
        <5>3. BootSector(q) \in Int
          BY <5>2, BootFacts
        <5>4. EbrTable(m)[2].start = BootSector(q) - Start
          BY <5>1, EntryParts
        <5> QED
          BY <3>3, <5>3, <5>4
      <4>3. s = Start \/ \E m \in LogicalOnes : Len(EbrTable(m)) = 2 /\ s = Start + EbrTable(m)[2].start
        BY <4>1 DEF Sectors, LogicalOnes
      <4> QED
        BY <3>3, <4>2, <4>3
    <3>5. s = BootSector(n)
      BY <3>3, <3>4 DEF Sector
    <3> QED
      BY <3>1, <3>2, <3>5 DEF Own
  <2> QED
    BY <2>2, <2>3, <2>4
<1> QED
  BY <1>1, <1>2

\* Both addresses of all entries are right.
LEMMA FormsRight ==
    ASSUME Readable, NEW x \in Read
    PROVE  BothForms(x)
<1>1. CASE \E i \in DOMAIN MbrTable : x = [base |-> 0, entry |-> MbrTable[i]]
  <2>1. PICK i \in DOMAIN MbrTable : x = [base |-> 0, entry |-> MbrTable[i]]
    BY <1>1
  <2>2. ASSUME NEW w, NEW s \in Int, NEW t \in Nat, s > 0, MbrTable[i] = Entry(w, s, t, 0)
        PROVE  BothForms(x)
    <3>1. PICK f \in Int : f = 0
      OBVIOUS
    <3>2. BothForms([base |-> f, entry |-> Entry(w, s, t, f)])
      BY <2>2, <3>1, EntryRight
    <3> QED
      BY <2>1, <2>2, <3>1, <3>2
  <2>3. BothForms(x)
    <3>1. CASE \E n \in Shown : MbrTable[i] = RowOf(n)
      <4>1. PICK n \in Entries : MbrTable[i] = RowOf(n)
        BY <3>1 DEF Shown
      <4>2. /\ parts[n].offset \in Int /\ parts[n].size \in Int
            /\ parts[n].offset > 0 /\ (parts[n].offset % 512 = 0) /\ parts[n].size >= 0
        BY ReadFacts
      <4>3. /\ parts[n].offset \div 512 \in Int /\ parts[n].offset \div 512 > 0
            /\ parts[n].size \div 512 \in Nat
        BY <4>2, SectorMath
      <4>4. MbrTable[i] = Entry(parts[n].name, parts[n].offset \div 512, parts[n].size \div 512, 0)
        BY <4>1 DEF RowOf, Sector
      <4> QED
        BY <2>2, <4>3, <4>4
    <3>2. CASE \E t \in Nat : MbrTable[i] = Entry("gpt", 1, t, 0)
      <4>1. PICK t \in Nat : MbrTable[i] = Entry("gpt", 1, t, 0)
        BY <3>2
      <4> QED
        BY <2>2, <4>1
    <3> QED
      BY <3>1, <3>2, Rows
  <2> QED
    BY <2>3
<1>2. ASSUME NEW n \in LogicalOnes PROVE BothForms(Own(n))
  <2>1. PICK s \in Int, f \in Int : s = align \div Sector /\ f = BootSector(n) /\ s + f > 0
    BY BootFacts
  <2>2. PICK t \in Nat : t = parts[n].size \div Sector
    <3>1. n \in Entries
      BY ReadFacts
    <3>2. parts[n].size \in Int /\ parts[n].size >= 0
      BY <3>1, ReadFacts
    <3> QED
      BY <3>2, SectorMath DEF Sector
  <2>3. BothForms([base |-> f, entry |-> Entry("user", s, t, f)])
    BY <2>1, EntryRight
  <2> QED
    BY <2>1, <2>2, <2>3, EbrEntries DEF Own
<1>3. ASSUME NEW n \in LogicalOnes, Later(n) # {} PROVE BothForms(Onward(n))
  <2>1. PICK q \in Later(n) :
           EbrTable(n)[2] = Entry("extended", BootSector(q) - Start,
                                  (parts[q].size + align) \div Sector, Start)
    BY <1>3, EbrEntries
  <2>2. q \in LogicalOnes
    BY DEF Later, LogicalOnes
  <2>3. PICK s \in Int, f \in Int : s = BootSector(q) - Start /\ f = Start /\ s + f > 0
    <3>1. BootSector(q) \in Int /\ Start \in Int /\ BootSector(q) > 0
      BY <2>2, BootFacts
    <3> QED
      BY <3>1
  <2>4. PICK t \in Nat : t = (parts[q].size + align) \div Sector
    <3>1. q \in Entries /\ align \in Nat
      BY <2>2, ReadFacts
    <3>2. parts[q].size + align \in Int /\ parts[q].size + align >= 0
      BY <3>1, ReadFacts
    <3> QED
      BY <3>2, SectorMath DEF Sector
  <2>5. BothForms([base |-> f, entry |-> Entry("extended", s, t, f)])
    BY <2>3, EntryRight
  <2> QED
    BY <2>1, <2>3, <2>4, <2>5 DEF Onward
<1> QED
  BY <1>1, <1>2, <1>3, ReadParts

\* The sectors of a partition that has been laid out
Place(n) == [start |-> parts[n].offset \div Sector, total |-> parts[n].size \div Sector]

LEMMA OwnPlace ==
    ASSUME Readable, NEW n \in LogicalOnes
    PROVE  /\ Own(n).entry.what = "user"
           /\ [start |-> Own(n).base + Own(n).entry.start, total |-> Own(n).entry.total] = Place(n)
<1>1. PICK s, t, f : /\ s = align \div Sector /\ t = parts[n].size \div Sector /\ f = BootSector(n)
                     /\ EbrTable(n)[1] = Entry("user", s, t, f)
  BY EbrEntries
<1>2. EbrTable(n)[1].what = "user" /\ EbrTable(n)[1].start = s /\ EbrTable(n)[1].total = t
  BY <1>1, EntryParts
<1>3. f + s = parts[n].offset \div Sector
  BY <1>1, BootFacts
<1> QED
  BY <1>1, <1>2, <1>3 DEF Own, Place

LEMMA RowPlace ==
    ASSUME Readable, NEW n \in Entries
    PROVE  LET x == [base |-> 0, entry |-> RowOf(n)]
           IN  /\ x.entry.what = parts[n].name
               /\ [start |-> x.base + x.entry.start, total |-> x.entry.total] = Place(n)
<1>1. PICK s, t : /\ s = parts[n].offset \div Sector /\ t = parts[n].size \div Sector
                  /\ RowOf(n) = Entry(parts[n].name, s, t, 0)
  BY DEF RowOf
<1>2. RowOf(n).what = parts[n].name /\ RowOf(n).start = s /\ RowOf(n).total = t
  BY <1>1, EntryParts
<1>3. s \in Int /\ 0 + s = s
  <2>1. parts[n].offset \in Int /\ parts[n].offset > 0
    BY ReadFacts
  <2>2. s \in Nat
    BY <1>1, <2>1, SectorMath DEF Sector
  <2> QED
    BY <2>2
<1> QED
  BY <1>1, <1>2, <1>3 DEF Place

(* A reader finds nothing else, the primary ones, and all if the chain of   *)
(* boot records is whole.                                                   *)
LEMMA AllFound ==
    ASSUME Readable, conf.type = "mbr"
    PROVE  /\ Spans({n \in Entries \ {extended} : ~parts[n].logical}) \subseteq Named
           /\ Named \subseteq Spans(Entries \ {extended})
           /\ FirstAligned => Named = Spans(Entries \ {extended})
<1>1. ASSUME NEW x \in Read, x.entry.what = "user"
      PROVE  \E n \in Entries \ {extended} :
                [start |-> x.base + x.entry.start, total |-> x.entry.total] = Place(n)
  <2>1. CASE \E i \in DOMAIN MbrTable : x = [base |-> 0, entry |-> MbrTable[i]]
    <3>1. PICK n \in Shown : x = [base |-> 0, entry |-> RowOf(n)]
      BY <2>1, Rows
    <3>2. n \in Entries
      BY DEF Shown
    <3>3. parts[n].name = "user"
      BY <1>1, <3>1, <3>2, RowPlace
    <3>4. n # extended
      <4>1. n # 0
        BY <3>2, ReadFacts
      <4> QED
        BY <3>3, <4>1, ReadFacts
    <3> QED
      BY <3>1, <3>2, <3>4, RowPlace
  <2>2. CASE \E n \in LogicalOnes : x = Own(n)
    <3>1. PICK n \in LogicalOnes : x = Own(n)
      BY <2>2
    <3>2. n \in Entries \ {extended}
      BY ReadFacts
    <3> QED
      BY <3>1, <3>2, OwnPlace
  <2>3. CASE \E n \in LogicalOnes : Later(n) # {} /\ x = Onward(n)
    <3>1. PICK n \in LogicalOnes : Later(n) # {} /\ x = Onward(n)
      BY <2>3
    <3>2. EbrTable(n)[2].what = "extended"
      BY <3>1, EbrEntries, EntryParts
    <3> QED
      BY <1>1, <3>1, <3>2 DEF Onward
  <2> QED
    BY <2>1, <2>2, <2>3, ReadParts
<1>2. ASSUME NEW n \in Entries \ {extended}, ~parts[n].logical \/ FirstAligned
      PROVE  \E x \in Read :
                /\ x.entry.what = "user"
                /\ [start |-> x.base + x.entry.start, total |-> x.entry.total] = Place(n)
  <2>1. CASE ~parts[n].logical
    <3>1. n \in Shown
      BY <2>1 DEF Shown
    <3>2. PICK i \in DOMAIN MbrTable : MbrTable[i] = RowOf(n)
      BY <3>1, Rows
    <3>3. PICK x : x = [base |-> 0, entry |-> RowOf(n)]
      OBVIOUS
    <3>4. x \in Read
      BY <3>2, <3>3 DEF Read
    <3>5. parts[n].name = "user"
      BY ReadFacts
    <3> QED
      BY <3>3, <3>4, <3>5, RowPlace
  <2>2. CASE parts[n].logical
    <3>1. n \in LogicalOnes
      BY <2>2 DEF Entries, LogicalOnes
    <3>2. extended \in Shown
      BY <3>1, ReadFacts DEF Shown
    <3>3. PICK i \in DOMAIN MbrTable : MbrTable[i] = RowOf(extended)
      BY <3>2, Rows
    <3>4. PICK e : e = RowOf(extended)
      OBVIOUS
    <3>5. e \in Extended
      <4>1. e.what = "extended"
        <5>1. e.what = parts[extended].name
          BY <3>4, EntryParts DEF RowOf
        <5> QED
          BY <3>1, <5>1, ReadFacts
      <4> QED
        BY <3>3, <3>4, <4>1 DEF Extended
    <3>6. e.start = Start
      BY <3>5, OneExtended
    <3>7. PICK s : s = BootSector(n) /\ s \in Chain(e.start) /\ n \in EbrAt(s)
      <4>1. BootSector(n) \in Chain(Start)
        BY <1>2, <2>2, <3>1, InChain
      <4>2. n \in EbrAt(BootSector(n))
        BY <3>1, BootFacts DEF EbrAt, LogicalOnes
      <4> QED
        BY <3>6, <4>1, <4>2
    <3>8. Own(n) \in {[base |-> s, entry |-> EbrTable(m)[1]] : m \in EbrAt(s)}
      BY <3>7 DEF Own
    <3>9. Own(n) \in Read
      BY <3>5, <3>7, <3>8 DEF Read
    <3> QED
      BY <3>1, <3>9, OwnPlace
  <2> QED
    BY <2>1, <2>2
<1>3. \A N : Spans(N) = {Place(n) : n \in N}
  BY DEF Spans, Place
<1>4. Named \subseteq Spans(Entries \ {extended})
  BY <1>1, <1>3 DEF Named
<1>5. \A N \in SUBSET (Entries \ {extended}) :
        (\A n \in N : ~parts[n].logical \/ FirstAligned) => Spans(N) \subseteq Named
  BY <1>2, <1>3 DEF Named
<1>6. Spans({n \in Entries \ {extended} : ~parts[n].logical}) \subseteq Named
  BY <1>5
<1>7. FirstAligned => Spans(Entries \ {extended}) \subseteq Named
  BY <1>5
<1> QED
  BY <1>4, <1>6, <1>7

(* The MBR and the chain of boot records that it leads to name partitions   *)
(* as hdimage_setup() has laid them out and nothing else, all of them if    *)
(* the chain begins where the extended partition does, in both forms of     *)
(* address, and the MBR has no more than its four entries, for any          *)
(* configuration whose partitions in the table are aligned to sectors.      *)
THEOREM MbrReadHolds ==
    ASSUME SectorAligns
    PROVE  Spec => []MbrRead
<1>1. Init => IInv /\ MbrInv
  BY InitHolds, MbrInit
<1>2. IInv /\ MbrInv /\ [Next]_vars => IInv' /\ MbrInv'
  BY NextHolds, MbrNext
<1>3. IInv /\ MbrInv => MbrRead
  <2> SUFFICES ASSUME IInv, MbrInv, SetupDone, conf.type # "none"
               PROVE  /\ Len(MbrTable) <= 4
                      /\ conf.type = "mbr" =>
                            /\ Spans({n \in Entries \ {extended} : ~parts[n].logical}) \subseteq Named
                            /\ Named \subseteq Spans(Entries \ {extended})
                            /\ FirstAligned => Named = Spans(Entries \ {extended})
                      /\ \A x \in Read : BothForms(x)
    BY DEF MbrRead, BothForms
  <2>1. Readable
    BY DEF Readable
  <2> QED
    BY <2>1, Rows, AllFound, FormsRight
<1> QED
  BY <1>1, <1>2, <1>3, PTL DEF Spec
=============================================================================
