---------------------------- MODULE AndroidSparse ---------------------------
(***************************************************************************)
(* The android-sparse handler (image-android-sparse.c): the extents of a   *)
(* file are widened to blocks and merged, then written block by block as   *)
(* raw and fill chunks with "don't care" chunks in between.  The header of *)
(* a chunk is written when the chunk begins and again, over the first one, *)
(* when its number of blocks is known.                                     *)
(*                                                                         *)
(* A word of the file is a small number; the CRC is the sequence of blocks *)
(* it was computed over.                                                   *)
(***************************************************************************)
EXTENDS Integers, Sequences, SequencesExt

CONSTANTS
    Inputs,         \* input files: their words, and extents with data
    BlockSize,      \* block-size, in words
    MaxRawBlocks    \* max_raw_blocks

Input == [words : Seq(Nat), extents : Seq(Nat \X Nat)]

ASSUME ConstantsType ==
    /\ Inputs \subseteq Input
    /\ BlockSize \in Nat \ {0}
    /\ MaxRawBlocks \in Nat \ {0}

\* Of a file, FS_IOC_FIEMAP returns the extents that begin in it, in order and
\* without overlaps, and what they leave out reads as zeros.
InOrder(x) == \A m, n \in DOMAIN x : m < n => x[m][2] <= x[n][1]
Holds(x, w) == x[1] < w /\ w <= x[2]

ASSUME ExtentsOfInput ==
    \A i \in Inputs :
        /\ InOrder(i.extents)
        /\ \A n \in DOMAIN i.extents :
              i.extents[n][1] < i.extents[n][2] /\ i.extents[n][1] < Len(i.words)
        /\ \A w \in DOMAIN i.words :
              i.words[w] # 0 => \E n \in DOMAIN i.extents : Holds(i.extents[n], w)

VARIABLES
    input,
    fillHoles, addCrc,      \* the options
    pc,             \* "map", "merge", "extent", "block", "tail", "crc",
                    \* "header", "end"
    ret,            \* "ok" or "failed"
    extents, e,     \* the extents, 0..0 if removed, and the loop cursor
    block,          \* blocks of the input accounted for
    from, size,     \* what is left of the current extent
    chunk,          \* chunk_header: type and blocks
    chunks,         \* header.input_chunks
    crc,            \* crc32
    out,            \* the chunks in the output file
    header          \* input_chunks in the file header on disk

options == <<input, fillHoles, addCrc>>
position == <<e, block, from, size>>
vars == <<options, pc, ret, extents, position, chunk, chunks, crc, out, header>>

\* A chunk in the file: the header as it is on disk, and what follows it.
Type == {"none", "raw", "fill", "skip", "crc"}
Chunk == [type : Type, blocks : Nat, body : Seq(Seq(Nat))]

TypeOK ==
    /\ input \in Input
    /\ fillHoles \in BOOLEAN /\ addCrc \in BOOLEAN
    /\ pc \in {"map", "merge", "extent", "block", "tail", "crc", "header", "end"}
    /\ ret \in {"ok", "failed"}
    /\ extents \in Seq(Nat \X Nat)
    /\ e \in Nat \ {0}
    /\ {block, from, size, chunks, header} \subseteq Nat
    /\ chunk \in [type : Type, blocks : Nat]
    /\ crc \in Seq(Seq(Nat))
    /\ out \in Seq(Chunk)

Length == Len(input.words)
Blocks(n) == (n - 1 + BlockSize) \div BlockSize
BlockCount == Blocks(Length)
ZeroBlock == [w \in 1..BlockSize |-> 0]

Init ==
    /\ input \in Inputs
    /\ fillHoles \in BOOLEAN /\ addCrc \in BOOLEAN
    /\ pc = "map"
    /\ ret = "ok"
    /\ extents = <<>>
    /\ e = 1
    /\ block = 0 /\ from = 0 /\ size = 0
    /\ chunk = [type |-> "none", blocks |-> 0]
    /\ chunks = 0
    /\ crc = <<>>
    /\ out = <<>>
    /\ header = 0

\* Any read or write may fail.
Fail ==
    /\ pc # "end"
    /\ ret' = "failed"
    /\ pc' = "end"
    /\ UNCHANGED <<options, extents, position, chunk, chunks, crc, out, header>>

-----------------------------------------------------------------------------
Whole == <<<<0, Length>>>>

\* map_file_extents(), which may fall back to the whole file, or a single
\* extent with fill-holes
Mapped == {Whole} \cup (IF fillHoles THEN {} ELSE {input.extents})

MapExtents ==
    /\ pc = "map"
    /\ extents' \in Mapped
    /\ pc' = "merge"
    /\ UNCHANGED <<options, ret, position, chunk, chunks, crc, out, header>>

\* Start and end of an extent, moved to the bounds of blocks
MinOf(x, y) == IF x < y THEN x ELSE y

WideEnd(x) == MinOf(Blocks(x[2]) * BlockSize, Length)
Widened(x) == <<(x[1] \div BlockSize) * BlockSize, WideEnd(x)>>

\* The last extent before the n-th that was not merged into another
Previous(n) == Max({1} \cup {m \in 2..(n - 1) : extents[m][2] # 0})

Meets(x, n) == x[1] <= extents[n][2]

Merge ==
    /\ pc = "merge" /\ e <= Len(extents)
    /\ LET x == Widened(extents[e])
           j == Previous(e)
       IN extents' = IF e > 1 /\ Meets(x, j)
                     THEN [extents EXCEPT ![j][2] = x[2], ![e] = <<0, 0>>]
                     ELSE [extents EXCEPT ![e] = x]
    /\ e' = e + 1
    /\ UNCHANGED <<options, pc, ret, block, from, size, chunk, chunks, crc, out,
                   header>>

\* The output file begins with a header that does not know the chunks yet.
MergeDone ==
    /\ pc = "merge" /\ e > Len(extents)
    /\ e' = 1
    /\ pc' = "extent"
    /\ UNCHANGED <<options, ret, extents, block, from, size, chunk, chunks, crc,
                   out, header>>

-----------------------------------------------------------------------------
\* flush_header() at the place where the chunk begins, in file f
Flushed(f) == IF chunk.type = "none" THEN f
              ELSE [f EXCEPT ![Len(f)].blocks = chunk.blocks]

Skip(f, n) == Append(f, [type |-> "skip", blocks |-> n, body |-> <<>>])
Zeros(n) == [m \in 1..n |-> ZeroBlock]

\* The begin of an extent, after a "don't care" chunk for the blocks before it
Extent ==
    /\ pc = "extent" /\ e <= Len(extents) /\ extents[e][2] > extents[e][1]
    /\ LET start == extents[e][1] \div BlockSize
       IN IF block < start
          THEN /\ chunks' = chunks + 1
               /\ out' = Skip(out, start - block)
               /\ crc' = crc \o Zeros(start - block)
               /\ block' = start
          ELSE UNCHANGED <<chunks, out, crc, block>>
    /\ from' = extents[e][1]
    /\ size' = extents[e][2] - extents[e][1]
    /\ chunk' = [type |-> "none", blocks |-> 0]
    /\ pc' = "block"
    /\ UNCHANGED <<options, ret, extents, e, header>>

Removed ==
    /\ pc = "extent" /\ e <= Len(extents) /\ extents[e][2] = extents[e][1]
    /\ e' = e + 1
    /\ UNCHANGED <<options, pc, ret, extents, block, from, size, chunk, chunks,
                   crc, out, header>>

\* The next block of the extent, the last one padded with zeros
Now == MinOf(size, BlockSize)
Words == [w \in 1..BlockSize |-> IF w <= Now THEN input.words[from + w] ELSE 0]

Read == Now
IsFill == \A w \in 1..BlockSize : Words[w] = Words[1]

\* Does the block go on with the chunk that was begun?  fill_value is the word
\* behind the header of a fill chunk.
\* (The mutants forget the limit of a raw chunk, and the value of a fill chunk.)
ContinuesAnyRaw == chunk.type = "raw"
ContinuesRaw == chunk.type = "raw" /\ chunk.blocks < MaxRawBlocks

ContinuesAnyFill == chunk.type = "fill"
ContinuesFill == chunk.type = "fill" /\ out[Len(out)].body[1] = <<Words[1]>>
Continues == IF IsFill THEN ContinuesFill ELSE ContinuesRaw

\* The file with the chunk for this block begun, if needed
Begun ==
    IF Continues THEN out
    ELSE Append(Flushed(out),
                [type |-> IF IsFill THEN "fill" ELSE "raw", blocks |-> 0,
                 body |-> IF IsFill THEN <<<<Words[1]>>>> ELSE <<>>])

Block ==
    /\ pc = "block" /\ size > 0
    /\ chunks' = IF Continues THEN chunks ELSE chunks + 1
    /\ chunk' = [type |-> IF IsFill THEN "fill" ELSE "raw",
                 blocks |-> IF Continues THEN chunk.blocks + 1 ELSE 1]
    /\ out' = IF IsFill THEN Begun
              ELSE [Begun EXCEPT ![Len(Begun)].body = Append(@, Words)]
    /\ crc' = Append(crc, Words)
    /\ from' = from + Read
    /\ size' = size - Read
    /\ UNCHANGED <<options, pc, ret, extents, e, block, header>>

ExtentDone ==
    /\ pc = "block" /\ size = 0
    /\ out' = Flushed(out)
    /\ block' = Blocks(extents[e][2])
    /\ e' = e + 1
    /\ pc' = "extent"
    /\ UNCHANGED <<options, ret, extents, from, size, chunk, chunks, crc, header>>

ExtentsDone ==
    /\ pc = "extent" /\ e > Len(extents)
    /\ pc' = "tail"
    /\ UNCHANGED <<options, ret, extents, position, chunk, chunks, crc, out, header>>

\* Blocks behind the last extent
TailSkip ==
    /\ pc = "tail"
    /\ IF block < BlockCount
       THEN /\ chunks' = chunks + 1
            /\ out' = Skip(out, BlockCount - block)
            /\ crc' = crc \o Zeros(BlockCount - block)
       ELSE UNCHANGED <<chunks, out, crc>>
    /\ pc' = "crc"
    /\ UNCHANGED <<options, ret, extents, position, chunk, header>>

Crc ==
    /\ pc = "crc"
    /\ IF addCrc
       THEN /\ chunks' = chunks + 1
            /\ out' = Append(out, [type |-> "crc", blocks |-> 0, body |-> crc])
       ELSE UNCHANGED <<chunks, out>>
    /\ pc' = "header"
    /\ UNCHANGED <<options, ret, extents, position, chunk, crc, header>>

\* The header at the begin of the file is written once more.
Header ==
    /\ pc = "header"
    /\ header' = chunks
    /\ pc' = "end"
    /\ UNCHANGED <<options, ret, extents, position, chunk, chunks, crc, out>>

Next ==
    \/ MapExtents \/ Merge \/ MergeDone \/ Extent \/ Removed \/ Block
    \/ ExtentDone \/ ExtentsDone \/ TailSkip \/ Crc \/ Header \/ Fail

Spec == Init /\ [][Next]_vars

-----------------------------------------------------------------------------
(* Properties *)

Done == pc = "end" /\ ret = "ok"
Padded == [b \in 1..BlockCount |->
              [w \in 1..BlockSize |->
                 LET at == (b - 1) * BlockSize + w
                 IN  IF at <= Length THEN input.words[at] ELSE 0]]

\* What a reader of the file makes of a chunk
Expanded(c) ==
    CASE c.type = "raw" -> SubSeq(c.body, 1, c.blocks)
      [] c.type = "fill" -> [b \in 1..c.blocks |->
                                [w \in 1..BlockSize |-> c.body[1][1]]]
      [] c.type = "skip" -> Zeros(c.blocks)
      [] c.type = "crc" -> <<>>
ExpandedAll == FlattenSeq([n \in DOMAIN out |-> Expanded(out[n])])

(* Expanding the chunks gives the input, padded to whole blocks: no block   *)
(* is lost or doubled where extents were widened and merged, and none with  *)
(* data is declared as "don't care"; and the checksum is that of the blocks *)
(* a reader gets, computed along the way.                                   *)
ExpandsToInput ==
    Done => /\ ExpandedAll = Padded
            /\ \A n \in DOMAIN out : out[n].type = "crc" => out[n].body = Padded

(* Each header tells what follows it, although most are written before that *)
(* is known: the number of chunks, the blocks of raw chunks, of which there *)
(* are never more than their 32 bit size can count.                         *)
HeadersTrue ==
    Done => /\ header = Len(out)
            /\ \A n \in DOMAIN out :
                  /\ out[n].type = "raw" =>
                        /\ out[n].blocks = Len(out[n].body)
                        /\ out[n].blocks \in 1..MaxRawBlocks
                  /\ out[n].type \in {"fill", "skip"} => out[n].blocks > 0
=============================================================================
