----------------------------- MODULE FlashImage -----------------------------
(***************************************************************************)
(* The flash handler (image-flash.c): flash_setup() places the partitions  *)
(* one behind the other, flash_generate() writes them in this order, with  *)
(* 0xFF in all gaps.  Sizes are in bytes.                                  *)
(***************************************************************************)
EXTENDS Integers, Sequences

CONSTANT Configs        \* the configurations of a flash image to consider

\* child: size of the partition's image when the flash image is set up, -1
\* without one, 0 if it is not known yet; data: its size once generated.
PartConf == [offset : Nat, size : Nat, child : Nat \cup {-1}, data : Nat]
Conf == [typed : BOOLEAN, pebsize : Nat \ {0}, numpebs : Nat, size : Nat,
         parts : Seq(PartConf)]

ASSUME ConfigsType == Configs \subseteq Conf

VARIABLES
    conf,
    pc,             \* "setup", "prepare", "write", "end"
    ret,            \* "ok" or "error"
    parts,          \* image->partitions
    k,              \* loop cursor
    last,           \* a partition of size 0 was seen
    partsize,       \* end of the last partition
    size,           \* image->size
    end,            \* how far generate has written
    writes,         \* the ranges written, in order
    length          \* length of the output file

setupVars == <<parts, last, partsize, size>>
vars == <<conf, pc, ret, setupVars, k, end, writes, length>>

Write == [lo : Nat, hi : Nat, what : {"padding", "image"}]

TypeOK ==
    /\ conf \in Conf
    /\ pc \in {"setup", "prepare", "write", "end"}
    /\ ret \in {"ok", "error"}
    /\ parts \in Seq(PartConf)
    /\ k \in Nat \ {0}
    /\ last \in BOOLEAN
    /\ {partsize, size, end, length} \subseteq Nat
    /\ writes \in Seq(Write)

MaxOf(x, y) == IF x > y THEN x ELSE y

Init ==
    /\ conf \in Configs
    /\ pc = "setup"
    /\ ret = "ok"
    /\ parts = conf.parts
    /\ k = 1
    /\ last = FALSE
    /\ partsize = 0
    /\ size = conf.size
    /\ end = 0
    /\ writes = <<>>
    /\ length = 0

Error ==
    /\ ret' = "error"
    /\ pc' = "end"
    /\ UNCHANGED <<conf, setupVars, k, end, writes, length>>

-----------------------------------------------------------------------------
FlashSize == conf.pebsize * conf.numpebs

\* A partition without a size gets the rest of the flash, one without an
\* offset goes behind the one before.
Rest == FlashSize - partsize
Placed(p) == [p EXCEPT !.size = IF @ = 0 THEN Rest ELSE @,
                       !.offset = IF @ = 0 THEN partsize ELSE @]

HasRoom(p) == p.size = 0 => Rest >= 0

\* Mutant: an overlap with the partition before is not noticed.
InOrderAnyway(p) == p.offset >= 0
InOrder(p) == p.offset = 0 \/ partsize <= p.offset

Fits(p) == p.child > 0 => p.child <= Placed(p).size

Accepted(p) ==
    /\ ~last
    /\ HasRoom(p)
    /\ Placed(p).size % conf.pebsize = 0
    /\ p.offset % conf.pebsize = 0
    /\ InOrder(p)
    /\ Fits(p)

SetupPart ==
    /\ pc = "setup" /\ k <= Len(parts)
    /\ LET p == parts[k]
           q == Placed(p)
       IN \/ /\ conf.typed /\ Accepted(p)
             /\ parts' = [parts EXCEPT ![k] = q]
             /\ last' = (p.size = 0)
             /\ partsize' = q.offset + q.size
             /\ k' = k + 1
             /\ UNCHANGED <<conf, pc, ret, size, end, writes, length>>
          \/ /\ ~(conf.typed /\ Accepted(p))
             /\ Error

\* Mutant: one block more than there are.
WithinOneMore == partsize <= FlashSize + conf.pebsize
WithinFlash == partsize <= FlashSize

SetupDone ==
    /\ pc = "setup" /\ k > Len(parts)
    /\ \/ /\ conf.typed /\ WithinFlash
          /\ size' = IF size = 0 THEN partsize ELSE size
          /\ k' = 1
          /\ pc' = "prepare"
          /\ UNCHANGED <<conf, ret, parts, last, partsize, end, writes, length>>
       \/ /\ ~(conf.typed /\ WithinFlash)
          /\ Error

-----------------------------------------------------------------------------
\* prepare_image(): the file has its size from the beginning.
Prepare ==
    /\ pc = "prepare"
    /\ length' = size
    /\ pc' = "write"
    /\ UNCHANGED <<conf, ret, setupVars, k, end, writes>>

\* insert_image(): a file in front of the padding, or padding only
Padding(from, to) ==
    IF from < to THEN <<[lo |-> from, hi |-> to, what |-> "padding"]>> ELSE <<>>

MinOf(x, y) == IF x < y THEN x ELSE y
Inserted(p) ==
    LET to == p.offset + (IF p.child < 0 THEN 0 ELSE MinOf(p.data, p.size))
    IN  (IF p.offset = to THEN <<>>
         ELSE <<[lo |-> p.offset, hi |-> to, what |-> "image"]>>)
        \o Padding(to, p.offset + p.size)

WritePart ==
    /\ pc = "write" /\ k <= Len(parts)
    /\ LET p == parts[k]
       IN /\ writes' = writes \o Padding(end, p.offset) \o Inserted(p)
          /\ length' = MaxOf(length, p.offset + p.size)
          /\ end' = p.offset + p.size
    /\ k' = k + 1
    /\ UNCHANGED <<conf, pc, ret, setupVars>>

PadEnd ==
    /\ pc = "write" /\ k > Len(parts)
    /\ writes' = writes \o Padding(end, size)
    /\ length' = MaxOf(length, IF end < size THEN size ELSE 0)
    /\ pc' = "end"
    /\ UNCHANGED <<conf, ret, setupVars, k, end>>

\* Any system call may fail while the image is written.
WriteFails ==
    /\ pc \in {"prepare", "write"}
    /\ Error

Next == SetupPart \/ SetupDone \/ Prepare \/ WritePart \/ PadEnd \/ WriteFails

Spec == Init /\ [][Next]_vars

-----------------------------------------------------------------------------
(* Properties *)

Done == pc = "end" /\ ret = "ok"

(* Every byte of the flash image is written exactly once, from its begin    *)
(* to its end: the order that flash_setup() insists on and the padding of   *)
(* flash_generate() fit together.  An erased byte is 0xFF, a hole of the    *)
(* output file would be 0.                                                  *)
WrittenOnce ==
    /\ \A n \in DOMAIN writes :
          writes[n].lo = IF n = 1 THEN 0 ELSE writes[n - 1].hi
    /\ Done => IF writes = <<>> THEN length = 0
               ELSE writes[Len(writes)].hi = length

(* The partitions start and end at erase blocks and lie within the flash.   *)
(* insert_image() cuts an image off at the end of its partition without a   *)
(* word: this happens to no image but one of another size than              *)
(* flash_setup() knew, because it was not known yet or the file changed.    *)
OnFlash ==
    pc \in {"prepare", "write"} \/ Done =>
        \A n \in DOMAIN parts :
            /\ parts[n].offset % conf.pebsize = 0
            /\ (parts[n].offset + parts[n].size) % conf.pebsize = 0
            /\ parts[n].offset + parts[n].size <= FlashSize
            /\ parts[n].data > parts[n].size => parts[n].data # parts[n].child
=============================================================================
