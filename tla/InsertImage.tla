---------------------------- MODULE InsertImage -----------------------------
(***************************************************************************)
(* insert_image() and write_bytes() of util.c: a range of the output file  *)
(* is written from a file with holes and padded with a byte.  Files are    *)
(* functions from offsets to what is at them.                              *)
(*                                                                         *)
(* The output is a regular file.  Whether a byte was written or is part of *)
(* a hole is kept per byte; real file systems do so per block.             *)
(***************************************************************************)
EXTENDS Integers, Sequences

CONSTANTS
    Calls,          \* the calls of insert_image() to consider
    Files,          \* the lengths the output file may have before
    Buf             \* size of the buffer

\* What a byte of the output is: a byte of the input file by its offset, or
Zero == -1
Pad == -2           \* 0xFF
Old == -3           \* what was there before

\* An input file: its length, and the extents with data as FIEMAP reports
\* them: in order and apart, the last one perhaps longer than the file.
Sub == [len : Nat, extents : Seq(Nat \X Nat)]
\* The arguments, and whether fallocate() can punch holes into the output.
Call == [sub : Sub, given : BOOLEAN, size : Nat, offset : Nat,
         imageoffset : Nat, byte : {Zero, Pad}, sparse : BOOLEAN,
         punch : BOOLEAN]

ASSUME ConstantsType ==
    /\ Calls \subseteq Call
    /\ Files \subseteq Nat
    /\ Buf \in Nat \ {0}

\* No file system reports extents behind the end of a file or out of order.
ASSUME ExtentsInOrder ==
    \A c \in Calls :
        LET all == c.sub.extents
        IN  \A n \in DOMAIN all :
               all[n][1] < c.sub.len /\ \A m \in 1..n : all[m][1] <= all[n][1]

VARIABLES
    call,           \* the arguments
    before,         \* length of the output file before the call
    pc,             \* "open", "map", "copy", "fill", "end"
    ret,            \* "ok" or "failed"
    extents, e,     \* what map_file_extents() returned, and the cursor
    inPos, size, offset,
    out,            \* the output file
    written         \* offsets that are not part of a hole

pos == <<inPos, size, offset>>
file == <<out, written>>
vars == <<call, before, pc, ret, extents, e, pos, file>>

Length == CHOOSE n \in 0..(1 + before + call.offset + call.size) :
              DOMAIN out = 0..(n - 1)

TypeOK ==
    /\ call \in Call
    /\ before \in Nat
    /\ pc \in {"open", "map", "copy", "fill", "end"}
    /\ ret \in {"ok", "failed"}
    /\ extents \in Seq(Nat \X Nat)
    /\ e \in Nat \ {0}
    /\ {inPos, size, offset} \subseteq Nat
    /\ DOMAIN out = 0..(Length - 1)
    /\ \A i \in DOMAIN out : out[i] \in Nat \cup {Zero, Pad, Old}
    /\ written \subseteq DOMAIN out

MinOf(x, y) == IF x < y THEN x ELSE y
MaxOf(x, y) == IF x > y THEN x ELSE y

Init ==
    /\ call \in Calls
    /\ before \in Files
    /\ pc = "open"
    /\ ret = "ok"
    /\ extents = <<>>
    /\ e = 1
    /\ inPos = call.imageoffset
    /\ size = call.size
    /\ offset = call.offset
    /\ out = [i \in 0..(before - 1) |-> Old]
    /\ written = 0..(before - 1)

Fail ==
    /\ ret' = "failed"
    /\ pc' = "end"
    /\ UNCHANGED <<call, before, extents, e, pos>>

-----------------------------------------------------------------------------
\* The file with the range from `at' up to `to' as in data; what lies
\* between its old end and the range is a hole.
Patched(at, to, data) ==
    [i \in 0..(MaxOf(Length, IF at < to THEN to ELSE 0) - 1) |->
        IF i \in at..(to - 1) THEN data[i]
        ELSE IF i \in DOMAIN out THEN out[i] ELSE Zero]

Bytes(n, byte) == [i \in offset..(offset + n - 1) |-> byte]

\* pwrite() of n bytes
Write(n, data) ==
    /\ out' = Patched(offset, offset + n, data)
    /\ written' = written \cup offset..(offset + n - 1)

(* write_bytes(): a range of zeros, or of the pad byte.  A sparse range of  *)
(* zeros is made by extending the file, which zeroes what is behind its old *)
(* end, and by punching a hole into what is in front of it, or writing      *)
(* zeros there if that does not work.                                       *)
\* Mutant: `sparse' is not looked at.
AsHoleAlways(byte) == byte = Zero

AsHole(byte) == byte = Zero /\ call.sparse

\* Mutant: extending the file is all that is done.
NothingLeft(n) == offset..(offset - 1)
BeforeOldEnd(n) == offset..(MinOf(offset + n, Length) - 1)

WriteBytes(n, byte) ==
    IF n > 0 /\ AsHole(byte)
    THEN /\ out' = [i \in DOMAIN out \cup 0..(offset + n - 1) |->
                       IF i \in DOMAIN out \ BeforeOldEnd(n) THEN out[i] ELSE Zero]
         /\ written' = IF call.punch THEN written \ BeforeOldEnd(n)
                       ELSE written \cup BeforeOldEnd(n)
    ELSE Write(n, Bytes(n, byte))

\* A write that fails may have written some of the bytes, or only have
\* extended the file.
WriteSome(n, data) == \E m \in 0..n : Write(m, data)

WriteBytesSome(n, byte) ==
    /\ n > 0
    /\ IF AsHole(byte)
       THEN \/ UNCHANGED file
            \/ \E m \in 0..n :
                  LET zeros == offset..(offset + m - 1) \cap BeforeOldEnd(n)
                  IN /\ out' = [i \in DOMAIN out \cup 0..(offset + n - 1) |->
                                   IF i \in DOMAIN out \ zeros THEN out[i] ELSE Zero]
                     /\ written' = written \cup zeros
       ELSE WriteSome(n, Bytes(n, byte))

Advance(n) ==
    /\ size' = size - n
    /\ offset' = offset + n
    /\ inPos' = inPos + n

-----------------------------------------------------------------------------
Open ==
    /\ pc = "open"
    /\ UNCHANGED file
    /\ \/ /\ pc' = IF call.given THEN "map" ELSE "fill"
          /\ UNCHANGED <<call, before, ret, extents, e, pos>>
       \/ Fail

(* map_file_extents(): the extents that begin in the first `upto' bytes,    *)
(* the last of them cut off there; a single one if the file system does not *)
(* know.                                                                    *)
Clip(upto) ==
    LET all == call.sub.extents
    IN  {[m \in 1..n |-> IF m = n THEN <<all[m][1], MinOf(all[m][2], upto)>> ELSE all[m]] :
            n \in {k \in 0..Len(all) : \A m \in DOMAIN all : all[m][1] < upto <=> m <= k}}

MapExtents ==
    /\ pc = "map"
    /\ UNCHANGED file
    /\ \/ /\ extents' \in Clip(call.size + call.imageoffset) \cup
                           {<<<<0, call.size + call.imageoffset>>>>}
          /\ pc' = "copy"
          /\ UNCHANGED <<call, before, ret, e, pos>>
       \/ Fail

\* The loop over the extents
Copying == pc = "copy" /\ e <= Len(extents) /\ size > 0
From == extents[e][1]
To == extents[e][2]

Gap == MinOf(From - inPos, size)

BeforeExtent == inPos < From

CopyHole ==
    /\ Copying /\ BeforeExtent
    /\ \/ /\ WriteBytes(Gap, Zero)
          /\ Advance(Gap)
          /\ UNCHANGED <<call, before, pc, ret, extents, e>>
       \/ /\ WriteBytesSome(Gap, Zero)
          /\ Fail

\* What is read into the buffer: nothing at the end of the input
Chunk == LET now == MinOf(MinOf(To - inPos, Buf), size)
         IN  MaxOf(0, MinOf(now, call.sub.len - inPos))
Data == [i \in offset..(offset + Chunk - 1) |-> inPos + (i - offset)]

CopyData ==
    /\ Copying /\ inPos \in From..(To - 1)
    /\ Chunk > 0
    /\ \/ /\ Write(Chunk, Data)
          /\ Advance(Chunk)
          /\ UNCHANGED <<call, before, pc, ret, extents, e>>
       \/ WriteSome(Chunk - 1, Data) /\ Fail

\* Mutant: the end of the input is not looked for.
AtEndOfExtent == inPos >= To
ExtentDone == inPos >= To \/ (inPos >= From /\ Chunk = 0)

NextExtent ==
    /\ Copying /\ ExtentDone
    /\ e' = e + 1
    /\ UNCHANGED <<call, before, pc, ret, extents, pos, file>>

CopyDone ==
    /\ pc = "copy" /\ (e > Len(extents) \/ size = 0)
    /\ pc' = "fill"
    /\ UNCHANGED <<call, before, ret, extents, e, pos, file>>

\* Mutant: one byte too many.
RestAndOne == size + 1
Rest == size

\* What is left of the range is padding.
Fill ==
    /\ pc = "fill"
    /\ \/ /\ WriteBytes(Rest, call.byte)
          /\ pc' = "end"
          /\ UNCHANGED <<call, before, ret, extents, e, pos>>
       \/ /\ WriteBytesSome(Rest, call.byte)
          /\ Fail

Next ==
    \/ Open \/ MapExtents \/ CopyHole \/ CopyData \/ NextExtent \/ CopyDone
    \/ Fill

\* One thread, and system calls that return.
Spec == Init /\ [][Next]_vars /\ WF_vars(Next)

-----------------------------------------------------------------------------
(* Properties *)

Range == call.offset..(call.offset + call.size - 1)
Done == pc = "end" /\ ret = "ok"

InputHole(i) == \A n \in DOMAIN call.sub.extents :
                    i \notin call.sub.extents[n][1]..(call.sub.extents[n][2] - 1)

\* The input byte for offset i of the output, and whether there is one
Source(i) == i - call.offset + call.imageoffset
HasSource(i) == call.given /\ Source(i) < call.sub.len

\* The same byte may be copied or, in a hole, written as a zero.
Intended(i) ==
    IF ~HasSource(i) THEN {call.byte}
    ELSE IF InputHole(Source(i)) THEN {Source(i), Zero} ELSE {Source(i)}

\* The part of the input that is read does not end in a hole.
EndsInData(c) ==
    LET last == MinOf(c.sub.len, c.size + c.imageoffset) - 1
    IN  last < c.imageoffset \/ \E n \in DOMAIN c.sub.extents :
            last \in c.sub.extents[n][1]..(c.sub.extents[n][2] - 1)

(* "After this call, exactly the range [offset, offset+size) in the output  *)
(* have been updated": nothing outside is touched, a failure included, and  *)
(* the file does not end beyond the range if it did not before.             *)
OnlyRange ==
    /\ \A i \in DOMAIN out \ Range : out[i] = IF i < before THEN Old ELSE Zero
    /\ Length <= MaxOf(before, call.offset + call.size)

(* ... and the range has the bytes of the input from imageoffset on, zeros  *)
(* in its holes, and padding after its end.                                 *)
RangeUpdated == Done => \A i \in Range : i \in DOMAIN out /\ out[i] \in Intended(i)

(* README: with sparse, holes of the input and the rest of the partition    *)
(* are holes in the output; without it, every byte is written.              *)
HolesAsAsked ==
    Done => \A i \in Range :
        IF call.sparse
        THEN call.punch /\ out[i] = Zero => i \notin written
        ELSE i \in written

(* The loops end, also for an input that is shorter than its extents, which *)
(* is told by a read of zero bytes.                                         *)
Terminates == <>(pc = "end")
=============================================================================
