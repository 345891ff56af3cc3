------------------------- MODULE InsertImageProofs -------------------------
(***************************************************************************)
(* insert_image() touches its range and nothing else, for any input, any   *)
(* extents a file system may report of it, any output file and any buffer, *)
(* at every moment and whatever fails.  PosInv says that the cursor stays  *)
(* within the range, FileInv that what lies outside is untouched; AskedInv *)
(* and ValueInv, that what has been done of the range is as it should be.  *)
(***************************************************************************)
EXTENDS InsertImage, TLAPS

RangeEnd == call.offset + call.size

PosInv ==
    /\ call \in Calls /\ before \in Files
    /\ inPos \in Nat /\ size \in Nat /\ offset \in Nat
    /\ call.offset <= offset /\ offset + size = RangeEnd
    /\ extents \in Seq(Nat \X Nat) /\ e \in Nat \ {0}

\* A file of n bytes that differs from the old one only within the range
FileOf(o, n) ==
    /\ DOMAIN o = 0..(n - 1) /\ before <= n /\ n <= MaxOf(before, RangeEnd)
    /\ \A i \in DOMAIN o \ Range : o[i] = IF i < before THEN Old ELSE Zero

FileInv == \E n \in Nat : FileOf(out, n)

IInv == PosInv /\ FileInv

(* The rest of the invariant: what has been done of the range.              *)
DoneTo == IF Done THEN RangeEnd ELSE offset

AsAsked(i) ==
    IF call.sparse THEN call.punch /\ out[i] = Zero => i \notin written ELSE i \in written
AskedInv ==
    /\ written \subseteq DOMAIN out
    /\ \A i \in call.offset..(DoneTo - 1) : i \in DOMAIN out /\ AsAsked(i)

\* Padding by 0xFF is for what comes after the data of the input.
PaddingAfterData == \A c \in Calls : c.given => c.byte = Zero \/ EndsInData(c)

Upto == call.size + call.imageoffset
Passed(n) == extents[n][2] <= inPos \/ call.sub.len <= inPos
ReadInv ==
    /\ call.given => inPos = Source(offset)
    /\ pc \in {"open", "map"} => e = 1
    /\ pc \in {"map", "copy"} => call.given
    /\ pc = "copy" =>
          /\ extents \in Clip(Upto) \cup {<<<<0, Upto>>>>}
          /\ \A n \in DOMAIN extents : n < e => Passed(n)
    /\ pc = "fill" => \A i \in offset..(RangeEnd - 1) : call.byte \in Intended(i)
ValueInv == \A i \in call.offset..(DoneTo - 1) : out[i] \in Intended(i)

-----------------------------------------------------------------------------
LEMMA CallType ==
    ASSUME PosInv
    PROVE  /\ call.offset \in Nat /\ call.size \in Nat /\ before \in Nat
           /\ RangeEnd \in Nat /\ call \in Call
BY ConstantsType DEF PosInv, Call, RangeEnd

(* The length of the file is the number of its bytes.                       *)
LEMMA LengthIs ==
    ASSUME PosInv, NEW n \in Nat, FileOf(out, n)
    PROVE  Length = n
<1>1. n \in 0..(1 + before + call.offset + call.size)
  BY CallType DEF FileOf, MaxOf, RangeEnd
<1>2. DOMAIN out = 0..(n - 1)
  BY DEF FileOf
<1>3. \A m \in Nat : 0..(m - 1) = 0..(n - 1) => m = n
  <2>1. ASSUME NEW m \in Nat, 0..(m - 1) = 0..(n - 1) PROVE m = n
    <3>1. m \in 0..(n - 1) <=> m \in 0..(m - 1)
      BY <2>1
    <3>2. n \in 0..(n - 1) <=> n \in 0..(m - 1)
      BY <2>1
    <3> QED
      BY <3>1, <3>2
  <2> QED
    BY <2>1
<1> QED
  BY <1>1, <1>2, <1>3, CallType DEF Length

(* A file with changes from offset on, but not beyond the range.            *)
LEMMA Touched ==
    ASSUME IInv, NEW o, NEW n \in 0..size, NEW m \in Nat, m <= MaxOf(Length, offset + n),
           Length <= m, DOMAIN o = 0..(m - 1),
           \A i \in DOMAIN o \ offset..(offset + n - 1) :
               o[i] = IF i \in DOMAIN out THEN out[i] ELSE Zero
    PROVE  FileOf(o, m)
<1> USE DEF IInv
<1>1. PICK l \in Nat : FileOf(out, l)
  BY DEF FileInv
<1>2. Length = l
  BY <1>1, LengthIs
<1>3. /\ DOMAIN out = 0..(l - 1) /\ before <= l /\ l <= MaxOf(before, RangeEnd)
      /\ \A i \in DOMAIN out \ Range : out[i] = IF i < before THEN Old ELSE Zero
  BY <1>1 DEF FileOf
<1>4. /\ offset \in Nat /\ size \in Nat /\ call.offset <= offset /\ offset + size = RangeEnd
      /\ call.offset \in Nat /\ before \in Nat /\ RangeEnd \in Nat
  BY CallType DEF PosInv
<1>5. before <= m /\ m <= MaxOf(before, RangeEnd)
  BY <1>2, <1>3, <1>4 DEF MaxOf
<1>6. offset..(offset + n - 1) \subseteq Range
  <2>1. n \in Nat /\ n <= size
    BY <1>4
  <2>2. offset + n - 1 <= call.offset + call.size - 1 /\ call.size \in Nat
    BY <1>4, <2>1, CallType DEF RangeEnd
  <2>3. ASSUME NEW i \in offset..(offset + n - 1)
        PROVE  i \in call.offset..(call.offset + call.size - 1)
    BY <1>4, <2>1, <2>2
  <2> QED
    BY <2>3 DEF Range
<1>7. ASSUME NEW i \in DOMAIN o \ Range
      PROVE  o[i] = IF i < before THEN Old ELSE Zero
  <2>1. i \in Nat /\ o[i] = IF i \in DOMAIN out THEN out[i] ELSE Zero
    BY <1>6, <1>7
  <2>2. i \notin DOMAIN out => ~(i < before)
    BY <1>3, <1>4, <2>1
  <2> QED
    BY <1>3, <1>7, <2>1, <2>2
<1> QED
  BY <1>5, <1>7 DEF FileOf

(* What is true of the new file is true in the next state.                  *)
LEMMA FileKept ==
    ASSUME NEW m \in Nat, FileOf(out', m), call' = call, before' = before
    PROVE  FileInv'
<1>1. FileOf(out, m)'
  BY DEF FileOf, Range, RangeEnd
<1> QED
  BY <1>1 DEF FileInv

LEMMA PatchedIs ==
    ASSUME NEW at, NEW to, NEW data,
           NEW i \in 0..(MaxOf(Length, IF at < to THEN to ELSE 0) - 1)
    PROVE  /\ i \in at..(to - 1) => Patched(at, to, data)[i] = data[i]
           /\ i \notin at..(to - 1) =>
                 Patched(at, to, data)[i] = IF i \in DOMAIN out THEN out[i] ELSE Zero
BY Zenon DEF Patched

(* write() of the first n bytes of what is left of the range                *)
LEMMA WriteStep ==
    ASSUME IInv, NEW n \in 0..size, NEW data, Write(n, data), call' = call, before' = before
    PROVE  FileInv'
<1> USE DEF IInv
<1>1. PICK l \in Nat : FileOf(out, l)
  BY DEF FileInv
<1>2. Length = l /\ DOMAIN out = 0..(l - 1)
  BY <1>1, LengthIs DEF FileOf
<1>3. offset \in Nat /\ size \in Nat /\ n \in Nat
  BY DEF PosInv
<1>4. PICK m \in Nat : m = MaxOf(Length, IF offset < offset + n THEN offset + n ELSE 0)
  BY <1>2, <1>3 DEF MaxOf
<1>5. m <= MaxOf(Length, offset + n) /\ Length <= m
  BY <1>2, <1>3, <1>4 DEF MaxOf
<1>6. out' = Patched(offset, offset + n, data)
  BY DEF Write
<1>7. DOMAIN out' = 0..(m - 1)
  BY <1>4, <1>6 DEF Patched
<1>8. \A i \in DOMAIN out' \ offset..(offset + n - 1) :
         out'[i] = IF i \in DOMAIN out THEN out[i] ELSE Zero
  <2>1. ASSUME NEW i \in 0..(m - 1), i \notin offset..(offset + n - 1)
        PROVE  out'[i] = IF i \in DOMAIN out THEN out[i] ELSE Zero
    <3>1. i \in 0..(MaxOf(Length, IF offset < offset + n THEN offset + n ELSE 0) - 1)
      BY <1>4
    <3>2. i \notin offset..((offset + n) - 1)
      BY <1>3, <2>1
    <3>3. Patched(offset, offset + n, data)[i] = IF i \in DOMAIN out THEN out[i] ELSE Zero
      BY <3>1, <3>2, PatchedIs
    <3> QED
      BY <1>6, <3>3
  <2> QED
    BY <1>7, <2>1
<1>9. FileOf(out', m)
  BY <1>4, <1>5, <1>7, <1>8, Touched
<1> QED
  BY <1>4, <1>9, FileKept

(* Part of a range of zeros, as a hole                                      *)
LEMMA HoleStep ==
    ASSUME IInv, NEW n \in 0..size, n > 0, NEW zeros,
           zeros \subseteq offset..(offset + n - 1),
           out' = [i \in DOMAIN out \cup 0..(offset + n - 1) |->
                      IF i \in DOMAIN out \ zeros THEN out[i] ELSE Zero],
           call' = call, before' = before
    PROVE  FileInv'
<1> USE DEF IInv
<1>1. PICK l \in Nat : FileOf(out, l)
  BY DEF FileInv
<1>2. Length = l /\ DOMAIN out = 0..(l - 1)
  BY <1>1, LengthIs DEF FileOf
<1>3. offset \in Nat /\ size \in Nat /\ n \in Nat
  BY DEF PosInv
<1>4. PICK m \in Nat : m = MaxOf(l, offset + n)
  BY <1>3 DEF MaxOf
<1>5. DOMAIN out' = 0..(m - 1)
  <2>1. DOMAIN out \cup 0..(offset + n - 1) = 0..(m - 1)
    BY <1>2, <1>3, <1>4 DEF MaxOf
  <2> QED
    BY <2>1
<1>6. m <= MaxOf(Length, offset + n) /\ Length <= m
  BY <1>2, <1>3, <1>4 DEF MaxOf
<1>7. \A i \in DOMAIN out' \ offset..(offset + n - 1) :
         out'[i] = IF i \in DOMAIN out THEN out[i] ELSE Zero
  OBVIOUS
<1>8. FileOf(out', m)
  BY <1>4, <1>5, <1>6, <1>7, Touched
<1> QED
  BY <1>4, <1>8, FileKept

(* write_bytes(), complete or not                                           *)
LEMMA WriteBytesStep ==
    ASSUME IInv, NEW n \in 0..size, NEW byte, call' = call, before' = before,
           WriteBytes(n, byte) \/ WriteBytesSome(n, byte)
    PROVE  FileInv'
<1> USE DEF IInv
<1>1. offset \in Nat /\ size \in Nat /\ n \in Nat
  BY DEF PosInv
<1>2. PICK l \in Nat : FileOf(out, l) /\ Length = l
  BY LengthIs DEF FileInv
<1>3. BeforeOldEnd(n) \subseteq offset..(offset + n - 1)
  BY <1>1, <1>2 DEF BeforeOldEnd, MinOf
<1>4. ASSUME NEW m \in 0..n, Write(m, Bytes(n, byte))
      PROVE  FileInv'
  <2>1. m \in 0..size
    BY <1>1
  <2> QED
    BY <1>4, <2>1, WriteStep
<1>5. CASE UNCHANGED file
  BY <1>5 DEF file, FileInv, FileOf, Range, RangeEnd
<1>6. ASSUME NEW zeros \in SUBSET (offset..(offset + n - 1)), n > 0,
             out' = [i \in DOMAIN out \cup 0..(offset + n - 1) |->
                        IF i \in DOMAIN out \ zeros THEN out[i] ELSE Zero]
      PROVE  FileInv'
  BY <1>6, HoleStep
<1>7. CASE WriteBytes(n, byte)
  <2>1. CASE n > 0 /\ AsHole(byte)
    <3>1. out' = [i \in DOMAIN out \cup 0..(offset + n - 1) |->
                    IF i \in DOMAIN out \ BeforeOldEnd(n) THEN out[i] ELSE Zero]
      BY <1>7, <2>1 DEF WriteBytes
    <3> QED
      BY <1>3, <1>6, <2>1, <3>1
  <2>2. CASE ~(n > 0 /\ AsHole(byte))
    <3>1. Write(n, Bytes(n, byte)) /\ n \in 0..n
      BY <1>1, <1>7, <2>2 DEF WriteBytes
    <3> QED
      BY <1>4, <3>1
  <2> QED
    BY <2>1, <2>2
<1>8. CASE WriteBytesSome(n, byte)
  <2>1. CASE AsHole(byte)
    <3>1. CASE \E m \in 0..n :
             out' = [i \in DOMAIN out \cup 0..(offset + n - 1) |->
                       IF i \in DOMAIN out \ (offset..(offset + m - 1) \cap BeforeOldEnd(n))
                       THEN out[i] ELSE Zero]
      <4>1. PICK m \in 0..n :
             out' = [i \in DOMAIN out \cup 0..(offset + n - 1) |->
                       IF i \in DOMAIN out \ (offset..(offset + m - 1) \cap BeforeOldEnd(n))
                       THEN out[i] ELSE Zero]
        BY <3>1
      <4>2. offset..(offset + m - 1) \cap BeforeOldEnd(n) \in SUBSET (offset..(offset + n - 1))
        BY <1>3
      <4> QED
        BY <1>6, <1>8, <4>1, <4>2 DEF WriteBytesSome
    <3> QED
      BY <1>5, <1>8, <2>1, <3>1 DEF WriteBytesSome
  <2>2. CASE ~AsHole(byte)
    BY <1>4, <1>8, <2>2 DEF WriteBytesSome, WriteSome
  <2> QED
    BY <2>1, <2>2
<1> QED
  BY <1>7, <1>8

-----------------------------------------------------------------------------
(* What map_file_extents() returns are extents.                             *)
LEMMA ClipType ==
    ASSUME PosInv, NEW x \in Clip(call.size + call.imageoffset)
    PROVE  x \in Seq(Nat \X Nat)
<1> DEFINE all == call.sub.extents
           upto == call.size + call.imageoffset
<1>1. all \in Seq(Nat \X Nat) /\ upto \in Nat
  BY CallType DEF Call, Sub
<1> HIDE DEF upto, all
<1>2. PICK n \in 0..Len(all) :
         x = [m \in 1..n |-> IF m = n THEN <<all[m][1], MinOf(all[m][2], upto)>> ELSE all[m]]
  BY DEF Clip, all, upto
<1>3. ASSUME NEW m \in 1..n PROVE x[m] \in Nat \X Nat
  <2>1. all[m] \in Nat \X Nat
    BY <1>1, <1>2
  <2>2. all[m][1] \in Nat /\ MinOf(all[m][2], upto) \in Nat
    BY <1>1, <2>1 DEF MinOf
  <2> QED
    BY <1>2, <2>1, <2>2
<1> QED
  BY <1>2, <1>3

(* The cursor never leaves the range, and what is written ends with it.     *)
LEMMA InvStep == ASSUME IInv, [Next]_vars PROVE IInv'
<1> USE DEF IInv
<1>1. offset \in Nat /\ size \in Nat /\ inPos \in Nat /\ call \in Call /\ RangeEnd \in Nat
      /\ call.offset \in Nat /\ call.sub.len \in Nat /\ Buf \in Nat \ {0}
  BY CallType, ConstantsType DEF PosInv, Call, Sub
<1>x. ASSUME Copying PROVE From \in Nat /\ To \in Nat
  <2>1. extents[e] \in Nat \X Nat
    BY <1>x DEF Copying, PosInv
  <2> QED
    BY <2>1 DEF From, To
<1>k. ASSUME UNCHANGED <<call, before, file>> PROVE FileInv'
  BY <1>k DEF file, FileInv, FileOf, Range, RangeEnd
<1>p. ASSUME UNCHANGED <<call, before, pos>>,
             extents' \in Seq(Nat \X Nat), e' \in Nat \ {0}
      PROVE  PosInv'
  BY <1>p DEF pos, PosInv, RangeEnd
<1>y. ASSUME UNCHANGED <<call, before, extents, e, pos>> PROVE PosInv'
  BY <1>y, <1>p DEF PosInv
<1>v. ASSUME NEW n \in 0..size, Advance(n), UNCHANGED <<call, before, extents, e>>
      PROVE  PosInv'
  BY <1>1, <1>v DEF Advance, PosInv, RangeEnd
<1>2. CASE Open
  BY <1>2, <1>k, <1>y DEF Open, Fail
<1>3. CASE MapExtents
  <2>1. CASE /\ extents' \in Clip(call.size + call.imageoffset) \cup
                               {<<<<0, call.size + call.imageoffset>>>>}
             /\ UNCHANGED <<call, before, ret, e, pos>>
    <3>1. call.size + call.imageoffset \in Nat
      BY <1>1 DEF Call
    <3>2. extents' \in Seq(Nat \X Nat)
      BY <2>1, <3>1, ClipType
    <3> QED
      BY <1>3, <1>k, <1>p, <2>1, <3>2 DEF MapExtents, PosInv
  <2> QED
    BY <1>3, <1>k, <1>y, <2>1 DEF MapExtents, Fail
<1>4. CASE CopyHole
  <2>1. Gap \in 0..size
    BY <1>1, <1>4, <1>x DEF CopyHole, BeforeExtent, Gap, MinOf
  <2> QED
    BY <1>4, <1>y, <1>v, <2>1, WriteBytesStep DEF CopyHole, Fail
<1>5. CASE CopyData
  <2>1. Chunk \in 0..size /\ Chunk > 0
    BY <1>1, <1>5, <1>x DEF CopyData, Chunk, MinOf, MaxOf
  <2>2. CASE Write(Chunk, Data) /\ Advance(Chunk) /\ UNCHANGED <<call, before, extents, e>>
    BY <1>v, <2>1, <2>2, WriteStep
  <2>3. CASE WriteSome(Chunk - 1, Data) /\ Fail
    <3>1. PICK m \in 0..(Chunk - 1) : Write(m, Data)
      BY <2>3 DEF WriteSome
    <3>2. m \in 0..size
      BY <1>1, <2>1, <3>1
    <3> QED
      BY <1>y, <2>3, <3>1, <3>2, WriteStep DEF Fail
  <2> QED
    BY <1>5, <2>2, <2>3 DEF CopyData
<1>6. CASE NextExtent \/ CopyDone
  <2>1. e' \in Nat \ {0}
    BY <1>6 DEF NextExtent, CopyDone, PosInv
  <2> QED
    BY <1>6, <1>k, <1>p, <2>1 DEF NextExtent, CopyDone, PosInv
<1>7. CASE Fill
  <2>1. Rest \in 0..size
    BY <1>1 DEF Rest
  <2> QED
    BY <1>7, <1>y, <2>1, WriteBytesStep DEF Fill, Fail
<1>8. CASE UNCHANGED vars
  BY <1>8, <1>k, <1>y DEF vars
<1> QED
  BY <1>2, <1>3, <1>4, <1>5, <1>6, <1>7, <1>8 DEF Next

(* The range of the call is updated and nothing else.                       *)
THEOREM OnlyRangeHolds == Spec => []OnlyRange
<1>1. Init => IInv
  <2> SUFFICES ASSUME Init PROVE IInv
    OBVIOUS
  <2>1. PosInv
    BY ConstantsType DEF Init, PosInv, RangeEnd, Call
  <2>2. FileOf(out, before)
    BY <2>1, CallType DEF Init, FileOf, MaxOf
  <2> QED
    BY <2>1, <2>2, CallType DEF FileInv, IInv
<1>2. IInv /\ [Next]_vars => IInv'
  BY InvStep
<1>3. IInv => OnlyRange
  <2> SUFFICES ASSUME IInv PROVE OnlyRange
    OBVIOUS
  <2>1. PICK n \in Nat : FileOf(out, n)
    BY DEF IInv, FileInv
  <2>2. Length = n
    BY <2>1, LengthIs DEF IInv
  <2> QED
    BY <2>1, <2>2 DEF FileOf, OnlyRange, RangeEnd
<1> QED
  BY <1>1, <1>2, <1>3, PTL DEF Spec
-----------------------------------------------------------------------------
(* What has been done of the range is kept, and what is written next is as  *)
(* it should be.                                                            *)

Kept ==
    /\ written' \subseteq DOMAIN out'
    /\ \A i \in DOMAIN out : i < offset =>
          i \in DOMAIN out' /\ out'[i] = out[i] /\ (i \in written' <=> i \in written)

LEMMA WriteKeeps ==
    ASSUME IInv, written \subseteq DOMAIN out, NEW n \in 0..size, NEW data, Write(n, data)
    PROVE  /\ Kept
           /\ \A i \in offset..(offset + n - 1) :
                 i \in DOMAIN out' /\ out'[i] = data[i] /\ i \in written'
<1>1. PICK l \in Nat : DOMAIN out = 0..(l - 1) /\ Length = l
  BY LengthIs DEF IInv, FileInv, FileOf
<1>2. offset \in Nat /\ n \in Nat
  BY DEF IInv, PosInv
<1>3. PICK m \in Nat : m = MaxOf(Length, IF offset < offset + n THEN offset + n ELSE 0)
  BY <1>1, <1>2 DEF MaxOf
<1>4. l <= m /\ (0 < n => offset + n <= m)
  BY <1>1, <1>2, <1>3 DEF MaxOf
<1>5. /\ DOMAIN out' = 0..(m - 1)
      /\ \A i \in 0..(m - 1) :
            out'[i] = IF i \in offset..(offset + n - 1) THEN data[i]
                      ELSE IF i \in DOMAIN out THEN out[i] ELSE Zero
  <2>1. out' = Patched(offset, offset + n, data)
    BY DEF Write
  <2>2. DOMAIN out' = 0..(m - 1)
    BY <1>3, <2>1 DEF Patched
  <2>3. ASSUME NEW i \in 0..(m - 1)
        PROVE  out'[i] = IF i \in offset..(offset + n - 1) THEN data[i]
                         ELSE IF i \in DOMAIN out THEN out[i] ELSE Zero
    <3>1. i \in 0..(MaxOf(Length, IF offset < offset + n THEN offset + n ELSE 0) - 1)
      BY <1>3
    <3>2. offset..((offset + n) - 1) = offset..(offset + n - 1)
      BY <1>2
    <3>3. /\ i \in offset..((offset + n) - 1) =>
                Patched(offset, offset + n, data)[i] = data[i]
          /\ i \notin offset..((offset + n) - 1) =>
                Patched(offset, offset + n, data)[i] = IF i \in DOMAIN out THEN out[i] ELSE Zero
      BY <3>1, PatchedIs
    <3> QED
      BY <2>1, <3>2, <3>3
  <2> QED
    BY <2>2, <2>3
<1>6. written' = written \cup offset..(offset + n - 1)
  BY DEF Write
<1>7. offset..(offset + n - 1) \subseteq DOMAIN out' /\ DOMAIN out \subseteq DOMAIN out'
  <2>1. DOMAIN out' = 0..(m - 1)
    BY <1>5
  <2>2. offset..(offset + n - 1) \subseteq 0..(m - 1)
    BY <1>2, <1>4
  <2>3. 0..(l - 1) \subseteq 0..(m - 1)
    BY <1>4
  <2> QED
    BY <1>1, <2>1, <2>2, <2>3
<1>8. ASSUME NEW i \in DOMAIN out, i < offset
      PROVE  out'[i] = out[i] /\ (i \in written' <=> i \in written)
  <2>1. i \in 0..(m - 1) /\ i \notin offset..(offset + n - 1)
    BY <1>1, <1>2, <1>4, <1>8
  <2>2. out'[i] = out[i]
    BY <1>5, <1>8, <2>1
  <2> QED
    BY <1>6, <2>1, <2>2
<1>9. ASSUME NEW i \in offset..(offset + n - 1) PROVE out'[i] = data[i]
  <2>1. i \in 0..(m - 1)
    BY <1>2, <1>4
  <2> QED
    BY <1>5, <2>1
<1> QED
  BY <1>6, <1>7, <1>8, <1>9 DEF Kept

(* A range of the file as a hole: zeros is what had to be overwritten.      *)
LEMMA HoleKeeps ==
    ASSUME IInv, written \subseteq DOMAIN out, NEW n \in 0..size, n > 0, NEW zeros,
           zeros \subseteq offset..(offset + n - 1), zeros \subseteq DOMAIN out,
           out' = [i \in DOMAIN out \cup 0..(offset + n - 1) |->
                      IF i \in DOMAIN out \ zeros THEN out[i] ELSE Zero],
           written' = written \ zeros \/ written' = written \cup zeros
    PROVE  Kept
<1>1. DOMAIN out \subseteq DOMAIN out' /\ written' \subseteq DOMAIN out'
  BY SMT
<1>2. ASSUME NEW i \in DOMAIN out, i < offset
      PROVE  out'[i] = out[i] /\ (i \in written' <=> i \in written)
  <2>1. i \notin zeros
    <3>1. offset \in Nat /\ n \in Nat
      BY DEF IInv, PosInv
    <3>2. i \notin offset..(offset + n - 1)
      BY <1>2, <3>1
    <3> QED
      BY <3>2
  <2> QED
    BY <1>2, <2>1
<1> QED
  BY <1>1, <1>2 DEF Kept

LEMMA WriteBytesKeeps ==
    ASSUME IInv, written \subseteq DOMAIN out, NEW n \in 0..size, NEW byte,
           call' = call, WriteBytes(n, byte)
    PROVE  /\ Kept
           /\ \A i \in offset..(offset + n - 1) :
                 i \in DOMAIN out' /\ out'[i] = byte /\ AsAsked(i)'
<1>1. PICK l \in Nat : DOMAIN out = 0..(l - 1) /\ Length = l
  BY LengthIs DEF IInv, FileInv, FileOf
<1>2. offset \in Nat /\ n \in Nat
  BY DEF IInv, PosInv
<1>3. CASE n > 0 /\ AsHole(byte)
  <2>1. /\ out' = [i \in DOMAIN out \cup 0..(offset + n - 1) |->
                      IF i \in DOMAIN out \ BeforeOldEnd(n) THEN out[i] ELSE Zero]
        /\ written' = IF call.punch THEN written \ BeforeOldEnd(n)
                      ELSE written \cup BeforeOldEnd(n)
    BY <1>3 DEF WriteBytes
  <2>2. /\ BeforeOldEnd(n) \subseteq offset..(offset + n - 1)
        /\ BeforeOldEnd(n) \subseteq DOMAIN out
    BY <1>1, <1>2 DEF BeforeOldEnd, MinOf
  <2>3. Kept
    BY <1>3, <2>1, <2>2, HoleKeeps
  <2>4. ASSUME NEW i \in offset..(offset + n - 1)
        PROVE  i \in DOMAIN out' /\ out'[i] = byte /\ AsAsked(i)'
    <3>1. i \in 0..(offset + n - 1)
      BY <1>2
    <3>2. i \notin DOMAIN out \ BeforeOldEnd(n)
      BY <1>1, <1>2 DEF BeforeOldEnd, MinOf
    <3>3. i \in DOMAIN out' /\ out'[i] = Zero
      BY <2>1, <3>1, <3>2
    <3>4. call.punch => i \notin written'
      BY <2>1, <3>2
    <3> QED
      BY <1>3, <3>3, <3>4 DEF AsHole, AsAsked
  <2> QED
    BY <2>3, <2>4
<1>4. CASE ~(n > 0 /\ AsHole(byte))
  <2>1. Write(n, Bytes(n, byte))
    BY <1>4 DEF WriteBytes
  <2>2. /\ Kept
        /\ \A i \in offset..(offset + n - 1) :
              i \in DOMAIN out' /\ out'[i] = Bytes(n, byte)[i] /\ i \in written'
    BY <2>1, WriteKeeps
  <2>3. ASSUME NEW i \in offset..(offset + n - 1)
        PROVE  i \in DOMAIN out' /\ out'[i] = byte /\ AsAsked(i)'
    <3>1. Bytes(n, byte)[i] = byte
      BY DEF Bytes
    <3>2. ~AsHole(byte)
      BY <1>2, <1>4
    <3> QED
      BY <2>2, <3>1, <3>2 DEF AsHole, AsAsked
  <2> QED
    BY <2>2, <2>3
<1> QED
  BY <1>3, <1>4

(* A call that fails leaves what has been done.                             *)
LEMMA SomeKeeps ==
    ASSUME IInv, written \subseteq DOMAIN out, NEW n \in 0..size, NEW byte,
           WriteBytesSome(n, byte)
    PROVE  Kept
<1>1. PICK l \in Nat : DOMAIN out = 0..(l - 1) /\ Length = l
  BY LengthIs DEF IInv, FileInv, FileOf
<1>2. offset \in Nat /\ n \in Nat /\ size \in Nat
  BY DEF IInv, PosInv
<1>3. CASE AsHole(byte)
  <2>1. CASE UNCHANGED file
    BY <2>1 DEF file, Kept
  <2>2. CASE \E m \in 0..n :
             LET zeros == offset..(offset + m - 1) \cap BeforeOldEnd(n)
             IN /\ out' = [i \in DOMAIN out \cup 0..(offset + n - 1) |->
                              IF i \in DOMAIN out \ zeros THEN out[i] ELSE Zero]
                /\ written' = written \cup zeros
    <3>1. PICK zeros \in SUBSET BeforeOldEnd(n) :
             /\ out' = [i \in DOMAIN out \cup 0..(offset + n - 1) |->
                           IF i \in DOMAIN out \ zeros THEN out[i] ELSE Zero]
             /\ written' = written \cup zeros
      BY <2>2
    <3>2. /\ BeforeOldEnd(n) \subseteq offset..(offset + n - 1)
          /\ BeforeOldEnd(n) \subseteq DOMAIN out
      BY <1>1, <1>2 DEF BeforeOldEnd, MinOf
    <3>3. zeros \subseteq offset..(offset + n - 1) /\ zeros \subseteq DOMAIN out
      BY <3>2
    <3>4. n > 0
      BY DEF WriteBytesSome
    <3> QED
      BY <3>1, <3>3, <3>4, HoleKeeps
  <2> QED
    BY <1>3, <2>1, <2>2 DEF WriteBytesSome
<1>4. CASE ~AsHole(byte)
  <2>1. PICK m \in 0..n : Write(m, Bytes(n, byte))
    BY <1>4 DEF WriteBytesSome, WriteSome
  <2>2. m \in 0..size
    BY <1>2
  <2> QED
    BY <2>1, <2>2, WriteKeeps
<1> QED
  BY <1>3, <1>4
\* What a step puts at offset i
NewByte(i) ==
    \/ CopyHole /\ i \in offset..(offset + Gap - 1) /\ out'[i] = Zero
    \/ CopyData /\ i \in offset..(offset + Chunk - 1) /\ out'[i] = inPos + (i - offset)
    \/ Fill /\ i \in offset..(RangeEnd - 1) /\ out'[i] = call.byte
Progress(n) ==
    /\ Kept /\ ~Done /\ call' = call
    /\ DoneTo' \in Int /\ DoneTo' <= offset + n
    /\ \A i \in offset..(offset + n - 1) : i \in DOMAIN out' /\ AsAsked(i)' /\ NewByte(i)

LEMMA CursorType ==
    ASSUME IInv
    PROVE  /\ Copying => From \in Nat /\ To \in Nat
           /\ CopyHole => Gap \in 0..size
           /\ CopyData => Chunk \in 0..size /\ Chunk > 0
           /\ Rest = size
<1>1. offset \in Nat /\ size \in Nat /\ inPos \in Nat /\ call.sub.len \in Nat /\ Buf \in Nat \ {0}
  BY CallType, ConstantsType DEF IInv, PosInv, Call, Sub
<1>2. ASSUME Copying PROVE From \in Nat /\ To \in Nat
  <2>1. extents[e] \in Nat \X Nat
    BY <1>2 DEF Copying, IInv, PosInv
  <2> QED
    BY <2>1 DEF From, To
<1>3. CopyHole => Gap \in 0..size
  BY <1>1, <1>2 DEF CopyHole, BeforeExtent, Gap, MinOf
<1>4. CopyData => Chunk \in 0..size /\ Chunk > 0
  BY <1>1, <1>2 DEF CopyData, Chunk, MinOf, MaxOf
<1> QED
  BY <1>2, <1>3, <1>4 DEF Rest

LEMMA NextProgress ==
    ASSUME IInv, written \subseteq DOMAIN out, Next
    PROVE  \E n \in 0..size : Progress(n)
<1>1. offset \in Nat /\ size \in Nat /\ RangeEnd = offset + size /\ RangeEnd \in Nat
  BY CallType DEF IInv, PosInv
<1>2. ~Done /\ call' = call
  BY DEF Next, Done, Open, MapExtents, CopyHole, CopyData, Copying, NextExtent, CopyDone, Fill, Fail
<1>3. ASSUME Kept, UNCHANGED pos, ~Done' PROVE \E n \in 0..size : Progress(n)
  <2>1. DoneTo' = offset /\ 0 \in 0..size
    BY <1>1, <1>3 DEF DoneTo, pos
  <2>2. \A i \in offset..(offset + 0 - 1) : FALSE
    BY <1>1
  <2>3. Progress(0)
    BY <1>1, <1>2, <1>3, <2>1, <2>2 DEF Progress
  <2> QED
    BY <2>1, <2>3
<1>4. ASSUME UNCHANGED file PROVE Kept
  BY <1>4 DEF file, Kept
<1>5. ASSUME Fail PROVE UNCHANGED pos /\ ~Done'
  BY <1>5 DEF Fail, Done
<1>6. ASSUME NEW n \in 0..size, Advance(n), ~Done' PROVE DoneTo' = offset + n /\ DoneTo' \in Int
  BY <1>1, <1>6 DEF DoneTo, Advance
<1>7. CASE Open \/ MapExtents \/ NextExtent \/ CopyDone
  <2>1. UNCHANGED file /\ UNCHANGED pos /\ ~Done'
    BY <1>5, <1>7 DEF Open, MapExtents, NextExtent, CopyDone, Copying, Done
  <2> QED
    BY <1>3, <1>4, <2>1
<1>8. CASE CopyHole
  <2>1. Gap \in 0..size
    BY <1>8, CursorType
  <2>2. CASE WriteBytes(Gap, Zero) /\ Advance(Gap) /\ UNCHANGED <<call, before, pc, ret, extents, e>>
    <3>1. /\ Kept
          /\ \A i \in offset..(offset + Gap - 1) :
                i \in DOMAIN out' /\ out'[i] = Zero /\ AsAsked(i)'
      BY <2>1, <2>2, WriteBytesKeeps
    <3>2. ~Done'
      BY <1>8, <2>2 DEF CopyHole, Copying, Done
    <3>3. Progress(Gap)
      BY <1>2, <1>6, <1>8, <2>1, <2>2, <3>1, <3>2 DEF Progress, NewByte
    <3> QED
      BY <2>1, <3>3
  <2>3. CASE WriteBytesSome(Gap, Zero) /\ Fail
    BY <1>3, <1>5, <2>1, <2>3, SomeKeeps
  <2> QED
    BY <1>8, <2>2, <2>3 DEF CopyHole
<1>9. CASE CopyData
  <2>1. Chunk \in 0..size /\ Chunk > 0
    BY <1>9, CursorType
  <2>2. CASE Write(Chunk, Data) /\ Advance(Chunk) /\ UNCHANGED <<call, before, pc, ret, extents, e>>
    <3>1. /\ Kept
          /\ \A i \in offset..(offset + Chunk - 1) :
                i \in DOMAIN out' /\ out'[i] = Data[i] /\ i \in written'
      BY <2>1, <2>2, WriteKeeps
    <3>2. ~Done'
      BY <1>9, <2>2 DEF CopyData, Copying, Done
    <3>3. ASSUME NEW i \in offset..(offset + Chunk - 1)
          PROVE  i \in DOMAIN out' /\ AsAsked(i)' /\ NewByte(i)
      <4>1. Data[i] = inPos + (i - offset)
        BY DEF Data
      <4>2. Data[i] # Zero
        BY <1>1, <2>1, <4>1 DEF IInv, PosInv, Zero
      <4> QED
        BY <1>9, <3>1, <4>1, <4>2 DEF AsAsked, NewByte
    <3>4. Progress(Chunk)
      BY <1>2, <1>6, <2>1, <2>2, <3>1, <3>2, <3>3 DEF Progress
    <3> QED
      BY <2>1, <3>4
  <2>3. CASE WriteSome(Chunk - 1, Data) /\ Fail
    <3>1. PICK m \in 0..(Chunk - 1) : Write(m, Data)
      BY <2>3 DEF WriteSome
    <3>2. m \in 0..size
      BY <1>1, <2>1, <3>1
    <3> QED
      BY <1>3, <1>5, <2>3, <3>1, <3>2, WriteKeeps
  <2> QED
    BY <1>9, <2>2, <2>3 DEF CopyData
<1>10. CASE Fill
  <2>1. Rest = size /\ Rest \in 0..size
    BY <1>1, CursorType
  <2>2. CASE WriteBytes(Rest, call.byte) /\ UNCHANGED <<call, before, extents, e, pos>>
    <3>1. /\ Kept
          /\ \A i \in offset..(offset + Rest - 1) :
                i \in DOMAIN out' /\ out'[i] = call.byte /\ AsAsked(i)'
      BY <2>1, <2>2, WriteBytesKeeps
    <3>2. DoneTo' \in Int /\ DoneTo' <= offset + Rest
      BY <1>1, <2>1, <2>2 DEF DoneTo, RangeEnd, pos
    <3>3. offset..(RangeEnd - 1) = offset..(offset + Rest - 1)
      BY <1>1, <2>1
    <3>4. Progress(Rest)
      BY <1>2, <1>10, <3>1, <3>2, <3>3 DEF Progress, NewByte
    <3> QED
      BY <2>1, <3>4
  <2>3. CASE WriteBytesSome(Rest, call.byte) /\ Fail
    BY <1>3, <1>5, <2>1, <2>3, SomeKeeps
  <2> QED
    BY <1>10, <2>2, <2>3 DEF Fill
<1> QED
  BY <1>7, <1>8, <1>9, <1>10 DEF Next

LEMMA AskedStep == ASSUME IInv, AskedInv, [Next]_vars PROVE AskedInv'
<1>1. CASE Next
  <2>1. PICK n \in 0..size : Progress(n)
    BY <1>1, NextProgress DEF AskedInv
  <2>2. written' \subseteq DOMAIN out'
    BY <2>1 DEF Progress, Kept
  <2>3. call' = call /\ DoneTo = offset /\ offset \in Nat /\ n \in Nat /\ call.offset \in Nat
    BY <2>1, CallType DEF Progress, DoneTo, IInv, PosInv
  <2>d. PICK d \in Int : d = DoneTo' /\ d <= offset + n
    BY <2>1 DEF Progress
  <2>n. d <= offset + n /\ offset \in Int /\ n \in Int /\ call.offset \in Int
    BY <2>3, <2>d
  <2>4. ASSUME NEW i \in call.offset..(d - 1)
        PROVE  i \in DOMAIN out' /\ AsAsked(i)'
    <3>1. CASE i < offset
      <4>1. i \in DOMAIN out /\ AsAsked(i)
        BY <2>1, <2>3, <3>1 DEF AskedInv, Progress
      <4>2. i \in DOMAIN out' /\ out'[i] = out[i] /\ (i \in written' <=> i \in written)
        BY <2>1, <3>1, <4>1 DEF Progress, Kept
      <4> QED
        BY <2>3, <4>1, <4>2 DEF AsAsked
    <3>2. CASE ~(i < offset)
      <4>1. i \in offset..(offset + n - 1)
        BY <2>n, <3>2
      <4> QED
        BY <2>1, <4>1 DEF Progress
    <3> QED
      BY <3>1, <3>2
  <2> QED
    BY <2>2, <2>3, <2>d, <2>4 DEF AskedInv
<1>2. CASE UNCHANGED vars
  BY <1>2 DEF vars, pos, file, AskedInv, AsAsked, DoneTo, Done, RangeEnd
<1> QED
  BY <1>1, <1>2

LEMMA InitInv == Init => IInv /\ AskedInv
<1> SUFFICES ASSUME Init PROVE IInv /\ AskedInv
  OBVIOUS
<1>1. PosInv
  BY ConstantsType DEF Init, PosInv, RangeEnd, Call
<1>2. FileOf(out, before)
  BY <1>1, CallType DEF Init, FileOf, MaxOf
<1>3. IInv
  BY <1>1, <1>2, CallType DEF FileInv, IInv
<1>4. written \subseteq DOMAIN out /\ DoneTo = call.offset /\ call.offset \in Nat
  BY <1>1, CallType DEF Init, DoneTo, Done
<1>5. \A i \in call.offset..(DoneTo - 1) : FALSE
  BY <1>4
<1> QED
  BY <1>3, <1>4, <1>5 DEF AskedInv

(* Holes of the input and the rest of the partition are holes when sparse   *)
(* is set and the file system can, and every byte is written otherwise.     *)
THEOREM HolesAsAskedHolds == Spec => []HolesAsAsked
<1>1. IInv /\ AskedInv /\ [Next]_vars => (IInv /\ AskedInv)'
  BY InvStep, AskedStep
<1>2. IInv /\ AskedInv => HolesAsAsked
  <2> SUFFICES ASSUME IInv, AskedInv, Done, NEW i \in Range
               PROVE  IF call.sparse
                      THEN call.punch /\ out[i] = Zero => i \notin written
                      ELSE i \in written
    BY DEF HolesAsAsked
  <2>1. i \in call.offset..(DoneTo - 1)
    <3>1. call.offset \in Nat /\ call.size \in Nat
      BY CallType DEF IInv
    <3> QED
      BY <3>1 DEF Range, DoneTo, RangeEnd
  <2> QED
    BY <2>1 DEF AskedInv, AsAsked
<1> QED
  BY InitInv, <1>1, <1>2, PTL DEF Spec
-----------------------------------------------------------------------------
(* What is written is what is intended.                                     *)

LEMMA InputType ==
    ASSUME PosInv
    PROVE  LET all == call.sub.extents
           IN  /\ all \in Seq(Nat \X Nat) /\ DOMAIN all = 1..Len(all) /\ Len(all) \in Nat
               /\ \A m \in DOMAIN all : all[m][1] \in Nat /\ all[m][2] \in Nat
               /\ \A n \in DOMAIN all : \A m \in 1..n : all[m][1] <= all[n][1]
               /\ \A m \in DOMAIN all : all[m][1] < call.sub.len
               /\ call.imageoffset \in Nat /\ call.sub.len \in Nat /\ Upto \in Nat
<1> DEFINE all == call.sub.extents
<1>1. all \in Seq(Nat \X Nat)
  BY CallType DEF Call, Sub
<1>2. \A n \in DOMAIN all : all[n][1] < call.sub.len /\ \A m \in 1..n : all[m][1] <= all[n][1]
  BY ExtentsInOrder DEF PosInv
<1>3. call.imageoffset \in Nat /\ call.sub.len \in Nat /\ call.size \in Nat
  BY CallType DEF Call, Sub
<1> HIDE DEF all
<1>4. DOMAIN all = 1..Len(all) /\ Len(all) \in Nat
  BY <1>1
<1>5. ASSUME NEW m \in DOMAIN all PROVE all[m][1] \in Nat /\ all[m][2] \in Nat
  <2>1. all[m] \in Nat \X Nat
    BY <1>1, <1>4
  <2> QED
    BY <2>1
<1> QED
  BY <1>1, <1>2, <1>3, <1>4, <1>5 DEF Upto, all

(* The extents that are copied are those of the input, up to the end of     *)
(* what is asked for.                                                       *)
LEMMA ClipIs ==
    ASSUME PosInv, NEW x \in Clip(Upto)
    PROVE  LET all == call.sub.extents
           IN  \E k \in 0..Len(all) :
                  /\ DOMAIN x = 1..k
                  /\ \A m \in 1..k :
                        /\ x[m][1] = all[m][1]
                        /\ \A p \in Nat : p < Upto /\ x[m][2] <= p => all[m][2] <= p
                  /\ \A m \in DOMAIN all : all[m][1] < Upto <=> m <= k
<1> DEFINE all == call.sub.extents
<1>1. PICK k \in 0..Len(all) :
         /\ x = [m \in 1..k |-> IF m = k THEN <<all[m][1], MinOf(all[m][2], Upto)>> ELSE all[m]]
         /\ \A m \in DOMAIN all : all[m][1] < Upto <=> m <= k
  BY DEF Clip
<1>2. ASSUME NEW m \in 1..k
      PROVE  /\ x[m][1] = all[m][1]
             /\ \A p \in Nat : p < Upto /\ x[m][2] <= p => all[m][2] <= p
  <2>1. x[m][2] = all[m][2] \/ x[m][2] = MinOf(all[m][2], Upto)
    BY <1>1
  <2>2. m \in DOMAIN all
    BY <1>1, InputType
  <2>3. all[m][2] \in Nat /\ Upto \in Nat
    BY <2>2, InputType
  <2>4. x[m][1] = all[m][1]
    BY <1>1
  <2> QED
    BY <2>1, <2>3, <2>4 DEF MinOf
<1> QED
  BY <1>1, <1>2

LEMMA SourceIs ==
    ASSUME IInv, ReadInv, call.given, NEW i \in offset..(RangeEnd - 1)
    PROVE  /\ Source(i) = inPos + (i - offset) /\ Source(i) \in Nat
           /\ inPos <= Source(i) /\ Source(i) < Upto /\ call.imageoffset <= Source(i)
<1>1. /\ offset \in Nat /\ call.offset \in Nat /\ call.imageoffset \in Nat /\ call.size \in Nat
      /\ RangeEnd = call.offset + call.size /\ call.offset <= offset /\ inPos \in Nat
  BY CallType DEF IInv, PosInv, Call, RangeEnd
<1>2. inPos = offset - call.offset + call.imageoffset
  BY DEF ReadInv, Source
<1> QED
  BY <1>1, <1>2 DEF Source, Upto

(* In front of the current extent there is a hole.                          *)
LEMMA HoleAhead ==
    ASSUME IInv, ReadInv, CopyHole, NEW i \in offset..(offset + Gap - 1)
    PROVE  Zero \in Intended(i)
<1> DEFINE all == call.sub.extents
<1>1. /\ pc = "copy" /\ call.given /\ e \in 1..Len(extents) /\ inPos < From /\ From \in Nat
      /\ Gap \in 0..size /\ extents \in Seq(Nat \X Nat) /\ inPos \in Nat
      /\ offset \in Nat /\ size \in Nat /\ RangeEnd = offset + size
      /\ Gap <= From - inPos
  <2>1. Copying /\ inPos < From /\ Gap \in 0..size /\ From \in Nat
    BY CursorType DEF CopyHole, BeforeExtent
  <2>2. inPos \in Nat /\ offset \in Nat /\ size \in Nat /\ extents \in Seq(Nat \X Nat)
        /\ RangeEnd = offset + size /\ e \in Nat \ {0}
    BY DEF IInv, PosInv
  <2> QED
    BY <2>1, <2>2 DEF Copying, Gap, MinOf, ReadInv
<1>2. extents # <<<<0, Upto>>>>
  <2> SUFFICES ASSUME extents = <<<<0, Upto>>>> PROVE FALSE
    OBVIOUS
  <2>1. e = 1
    BY <1>1
  <2>2. From = 0
    BY <2>1 DEF From
  <2> QED
    BY <1>1, <2>2
<1>3. extents \in Clip(Upto) /\ \A n \in DOMAIN extents : n < e => Passed(n)
  BY <1>1, <1>2 DEF ReadInv
<1>4. PosInv
  BY DEF IInv
<1>5. PICK k \in 0..Len(all) :
         /\ DOMAIN extents = 1..k
         /\ \A m \in 1..k :
               /\ extents[m][1] = all[m][1]
               /\ \A p \in Nat : p < Upto /\ extents[m][2] <= p => all[m][2] <= p
         /\ \A m \in DOMAIN all : all[m][1] < Upto <=> m <= k
  BY <1>3, <1>4, ClipIs
<1>6. /\ DOMAIN all = 1..Len(all) /\ Len(all) \in Nat
      /\ \A m \in DOMAIN all : all[m][1] \in Nat /\ all[m][2] \in Nat
      /\ \A n \in DOMAIN all : \A m \in 1..n : all[m][1] <= all[n][1]
      /\ \A m \in DOMAIN all : all[m][1] < call.sub.len
      /\ call.sub.len \in Nat /\ Upto \in Nat
  BY <1>4, InputType
<1> HIDE DEF all
<1>7. i \in offset..(RangeEnd - 1)
  BY <1>1
<1>8. /\ Source(i) = inPos + (i - offset) /\ Source(i) \in Nat
      /\ inPos <= Source(i) /\ Source(i) < Upto
  BY <1>1, <1>7, SourceIs
<1>9. e \in 1..k /\ e \in DOMAIN all /\ From = all[e][1]
  BY <1>1, <1>5, <1>6 DEF From
<1>10. Source(i) < From
  BY <1>1, <1>8
<1>11. From < call.sub.len
  BY <1>6, <1>9
<1>12. HasSource(i)
  <2>1. Source(i) < call.sub.len
    BY <1>1, <1>6, <1>8, <1>10, <1>11
  <2> QED
    BY <1>1, <2>1 DEF HasSource
<1>s. PICK s \in Nat : s = Source(i) /\ inPos <= s /\ s < From
  BY <1>8, <1>10
<1>13. ASSUME NEW m \in DOMAIN all
       PROVE  s \notin all[m][1]..(all[m][2] - 1)
  <2>t. all[m][1] \in Nat /\ all[m][2] \in Nat
    BY <1>6
  <2>1. CASE m < e
    <3>1. m \in 1..k /\ Passed(m)
      BY <1>3, <1>5, <1>6, <1>9, <2>1
    <3>2. extents[m][2] <= inPos
      <4>1. ~(call.sub.len <= inPos)
        BY <1>1, <1>6, <1>11
      <4> QED
        BY <3>1, <4>1 DEF Passed
    <3>3. inPos < Upto
      BY <1>1, <1>6, <1>8
    <3>4. all[m][2] <= inPos
      BY <1>1, <1>5, <3>1, <3>2, <3>3
    <3>5. all[m][2] <= s
      BY <1>1, <1>s, <2>t, <3>4
    <3> QED
      BY <2>t, <3>5
  <2>2. CASE ~(m < e)
    <3>1. all[e][1] <= all[m][1]
      BY <1>6, <1>9, <2>2
    <3>2. From \in Nat /\ From <= all[m][1]
      BY <1>1, <1>9, <3>1
    <3>3. s < all[m][1]
      BY <1>s, <2>t, <3>2
    <3> QED
      BY <2>t, <3>3
  <2> QED
    BY <2>1, <2>2
<1>14. InputHole(Source(i))
  BY <1>s, <1>13 DEF InputHole, all
<1> QED
  BY <1>12, <1>14 DEF Intended

(* Behind the last extent as well.                                          *)
LEMMA HoleBehind ==
    ASSUME IInv, ReadInv, CopyDone, size # 0,
           NEW s \in Nat, inPos <= s, s < Upto, s < call.sub.len
    PROVE  InputHole(s)
<1> DEFINE all == call.sub.extents
<1>1. /\ pc = "copy" /\ e > Len(extents) /\ extents \in Seq(Nat \X Nat) /\ inPos \in Nat
      /\ e \in Nat /\ PosInv
  BY DEF CopyDone, IInv, PosInv
<1>2. /\ DOMAIN all = 1..Len(all) /\ Len(all) \in Nat
      /\ \A m \in DOMAIN all : all[m][1] \in Nat /\ all[m][2] \in Nat
      /\ call.sub.len \in Nat /\ Upto \in Nat
  BY <1>1, InputType
<1>3. \A n \in DOMAIN extents : extents[n][2] <= inPos
  <2>1. ASSUME NEW n \in DOMAIN extents PROVE extents[n][2] <= inPos
    <3>1. n < e
      BY <1>1
    <3>2. Passed(n)
      BY <1>1, <3>1 DEF ReadInv
    <3> QED
      BY <1>1, <1>2, <3>2 DEF Passed
  <2> QED
    BY <2>1
<1>4. extents # <<<<0, Upto>>>>
  <2> SUFFICES ASSUME extents = <<<<0, Upto>>>> PROVE FALSE
    OBVIOUS
  <2>1. 1 \in DOMAIN extents /\ extents[1][2] = Upto
    OBVIOUS
  <2> QED
    BY <1>1, <1>2, <1>3, <2>1
<1>5. extents \in Clip(Upto)
  BY <1>1, <1>4 DEF ReadInv
<1>6. PICK k \in 0..Len(all) :
         /\ DOMAIN extents = 1..k
         /\ \A m \in 1..k :
               /\ extents[m][1] = all[m][1]
               /\ \A p \in Nat : p < Upto /\ extents[m][2] <= p => all[m][2] <= p
         /\ \A m \in DOMAIN all : all[m][1] < Upto <=> m <= k
  BY <1>1, <1>5, ClipIs
<1> HIDE DEF all
<1>7. inPos < Upto
  BY <1>1, <1>2
<1>8. ASSUME NEW m \in DOMAIN all PROVE s \notin all[m][1]..(all[m][2] - 1)
  <2>1. CASE m <= k
    <3>1. m \in 1..k
      BY <1>2, <2>1
    <3>2. all[m][2] <= inPos
      BY <1>1, <1>3, <1>6, <1>7, <3>1
    <3> QED
      BY <1>1, <1>2, <3>2
  <2>2. CASE ~(m <= k)
    <3>1. ~(all[m][1] < Upto)
      BY <1>6, <2>2
    <3> QED
      BY <1>2, <3>1
  <2> QED
    BY <2>1, <2>2
<1> QED
  BY <1>8 DEF InputHole, all

(* Padding follows: over holes only if it is zeros.                         *)
LEMMA RestIntended ==
    ASSUME IInv, ReadInv, PaddingAfterData, CopyDone, NEW i \in offset..(RangeEnd - 1)
    PROVE  call.byte \in Intended(i)
<1>1. /\ pc = "copy" /\ call.given /\ call \in Calls /\ PosInv /\ inPos \in Nat
      /\ offset \in Nat /\ size \in Nat /\ RangeEnd = offset + size
  BY DEF CopyDone, ReadInv, IInv, PosInv
<1>2. size # 0
  BY <1>1
<1>3. /\ Source(i) \in Nat /\ inPos <= Source(i) /\ Source(i) < Upto
      /\ call.imageoffset <= Source(i)
  BY <1>1, SourceIs
<1>4. /\ call.sub.len \in Nat /\ Upto \in Nat /\ call.imageoffset \in Nat
  BY <1>1, InputType
<1>5. CASE ~HasSource(i)
  BY <1>5 DEF Intended
<1>6. CASE HasSource(i)
  <2>1. Source(i) < call.sub.len
    BY <1>6 DEF HasSource
  <2>2. InputHole(Source(i))
    BY <1>2, <1>3, <2>1, HoleBehind
  <2>3. call.byte = Zero
    <3>1. SUFFICES ASSUME EndsInData(call) PROVE FALSE
      BY <1>1 DEF PaddingAfterData
    <3>2. PICK last \in Int : last = MinOf(call.sub.len, Upto) - 1
      BY <1>4 DEF MinOf
    <3>3. /\ last \in Nat /\ Source(i) <= last /\ last < Upto /\ last < call.sub.len
          /\ inPos <= last /\ ~(last < call.imageoffset)
      BY <1>1, <1>3, <1>4, <2>1, <3>2 DEF MinOf
    <3>4. InputHole(last)
      BY <1>2, <3>3, HoleBehind
    <3> QED
      BY <3>1, <3>2, <3>3, <3>4 DEF EndsInData, InputHole, Upto
  <2> QED
    BY <1>6, <2>2, <2>3 DEF Intended
<1> QED
  BY <1>5, <1>6
LEMMA ReadStep == ASSUME IInv, ReadInv, PaddingAfterData, [Next]_vars PROVE ReadInv'
<1>1. CASE UNCHANGED vars
  <2>1. UNCHANGED <<call, pc, extents, e, inPos, size, offset>>
    BY <1>1 DEF vars, pos
  <2>2. \A i : Intended(i)' = Intended(i) /\ Passed(i)' = Passed(i)
    BY <2>1 DEF Intended, HasSource, InputHole, Source, Passed
  <2>3. Clip(Upto)' = Clip(Upto) /\ Upto' = Upto /\ RangeEnd' = RangeEnd
        /\ Source(offset)' = Source(offset)
    BY <2>1 DEF Clip, Upto, RangeEnd, Source
  <2> QED
    BY <2>1, <2>2, <2>3 DEF ReadInv
<1>2. ASSUME pc' = "end", call' = call, UNCHANGED pos PROVE ReadInv'
  BY <1>2 DEF pos, ReadInv, Source
<1>3. ASSUME pc = "copy", pc' = "copy", UNCHANGED <<call, extents, e>>, NEW n \in 0..size,
             Advance(n)
      PROVE  ReadInv'
  <2>1. /\ call.given /\ inPos = Source(offset) /\ offset \in Nat /\ inPos \in Nat
        /\ call.offset \in Nat /\ call.imageoffset \in Nat /\ n \in Nat
        /\ extents \in Seq(Nat \X Nat) /\ call.sub.len \in Nat
    BY <1>3, CallType, InputType DEF IInv, PosInv, ReadInv
  <2>2. Source(offset)' = inPos'
    BY <1>3, <2>1 DEF Source, Advance
  <2>3. ASSUME NEW m \in DOMAIN extents, m < e PROVE Passed(m)'
    <3>1. Passed(m)
      BY <1>3, <2>3 DEF ReadInv
    <3>2. extents[m] \in Nat \X Nat
      BY <2>1
    <3>3. inPos' = inPos + n
      BY <1>3 DEF Advance
    <3> QED
      BY <1>3, <2>1, <3>1, <3>2, <3>3 DEF Passed
  <2>4. Clip(Upto)' = Clip(Upto) /\ Upto' = Upto
    BY <1>3 DEF Clip, Upto
  <2> QED
    BY <1>3, <2>1, <2>2, <2>3, <2>4 DEF ReadInv
<1>4. CASE Open
  <2>1. CASE /\ pc' = IF call.given THEN "map" ELSE "fill"
             /\ UNCHANGED <<call, before, ret, extents, e, pos>>
    <3>1. \A i : ~call.given => call.byte \in Intended(i)
      BY DEF Intended, HasSource
    <3>2. \A i : Intended(i)' = Intended(i)
      BY <2>1 DEF Intended, HasSource, InputHole, Source
    <3>3. e = 1
      BY <1>4 DEF Open, ReadInv
    <3>4. ~call.given => (\A i \in offset..(RangeEnd - 1) : call.byte \in Intended(i))'
      BY <2>1, <3>1, <3>2 DEF Intended, HasSource
    <3>5. (call.given => inPos = Source(offset))'
      BY <2>1 DEF ReadInv, pos, Source
    <3> QED
      BY <2>1, <3>3, <3>4, <3>5 DEF ReadInv
  <2> QED
    BY <1>2, <1>4, <2>1 DEF Open, Fail
<1>5. CASE MapExtents
  <2>1. CASE /\ extents' \in Clip(Upto) \cup {<<<<0, Upto>>>>}
             /\ pc' = "copy"
             /\ UNCHANGED <<call, before, ret, e, pos>>
    <3>1. call.given /\ e = 1
      BY <1>5 DEF MapExtents, ReadInv
    <3>2. Clip(Upto)' = Clip(Upto) /\ Upto' = Upto
      BY <2>1 DEF Clip, Upto
    <3>3. (call.given => inPos = Source(offset))'
      BY <2>1 DEF ReadInv, pos, Source
    <3>4. extents' \in Seq(Nat \X Nat)
      BY <1>5, InvStep DEF IInv, PosInv
    <3>5. ASSUME NEW m \in DOMAIN extents' PROVE ~(m < e')
      BY <2>1, <3>1, <3>4
    <3> QED
      BY <2>1, <3>1, <3>2, <3>3, <3>5 DEF ReadInv
  <2> QED
    BY <1>2, <1>5, <2>1 DEF MapExtents, Fail, Upto
<1>6. CASE CopyHole
  <2>1. Gap \in 0..size
    BY <1>6, CursorType
  <2> QED
    BY <1>2, <1>3, <1>6, <2>1 DEF CopyHole, Copying, Fail
<1>7. CASE CopyData
  <2>1. Chunk \in 0..size
    BY <1>7, CursorType
  <2> QED
    BY <1>2, <1>3, <1>7, <2>1 DEF CopyData, Copying, Fail
<1>8. CASE NextExtent
  <2>1. /\ pc = "copy" /\ pc' = "copy" /\ UNCHANGED <<call, extents, pos>> /\ e' = e + 1
    BY <1>8 DEF NextExtent, Copying
  <2>2. Passed(e)
    <3>1. /\ inPos \in Nat /\ size \in Nat /\ size > 0 /\ Buf \in Nat \ {0}
          /\ call.sub.len \in Nat /\ From \in Nat /\ To \in Nat
      BY <1>8, CursorType, InputType, ConstantsType DEF NextExtent, Copying, IInv, PosInv
    <3> QED
      BY <1>8, <3>1 DEF NextExtent, ExtentDone, Chunk, MinOf, MaxOf, Passed, To
  <2>3. ASSUME NEW m \in DOMAIN extents, m < e + 1 PROVE Passed(m)'
    <3>1. e \in Nat /\ m \in Nat
      BY DEF IInv, PosInv
    <3>2. Passed(m)
      <4>1. CASE m = e
        BY <2>2, <4>1
      <4>2. CASE m < e
        BY <2>1, <4>2 DEF ReadInv
      <4> QED
        BY <2>3, <3>1, <4>1, <4>2
    <3> QED
      BY <2>1, <3>2 DEF Passed, pos
  <2>4. Clip(Upto)' = Clip(Upto) /\ Upto' = Upto /\ Source(offset)' = Source(offset)
        /\ inPos' = inPos
    BY <2>1 DEF Clip, Upto, Source, pos
  <2> QED
    BY <2>1, <2>3, <2>4 DEF ReadInv
<1>9. CASE CopyDone
  <2>1. pc' = "fill" /\ UNCHANGED <<call, pos>>
    BY <1>9 DEF CopyDone
  <2>2. \A i \in offset..(RangeEnd - 1) : call.byte \in Intended(i)
    BY <1>9, RestIntended
  <2>3. (\A i \in offset..(RangeEnd - 1) : call.byte \in Intended(i))'
    <3>1. \A i : Intended(i)' = Intended(i)
      BY <2>1 DEF Intended, HasSource, InputHole, Source
    <3> QED
      BY <2>1, <2>2, <3>1 DEF RangeEnd, pos
  <2>4. (call.given => inPos = Source(offset))'
    BY <2>1 DEF ReadInv, pos, Source
  <2> QED
    BY <2>1, <2>3, <2>4 DEF ReadInv
<1>10. CASE Fill
  BY <1>2, <1>10 DEF Fill, Fail
<1> QED
  BY <1>1, <1>4, <1>5, <1>6, <1>7, <1>8, <1>9, <1>10 DEF Next

LEMMA NewByteIntended ==
    ASSUME IInv, ReadInv, NEW i \in Int, NewByte(i)
    PROVE  out'[i] \in Intended(i)
<1>1. CASE CopyHole /\ i \in offset..(offset + Gap - 1) /\ out'[i] = Zero
  BY <1>1, HoleAhead
<1>2. CASE CopyData /\ i \in offset..(offset + Chunk - 1) /\ out'[i] = inPos + (i - offset)
  <2>1. /\ pc = "copy" /\ call.given /\ Chunk \in 0..size
        /\ offset \in Nat /\ size \in Nat /\ RangeEnd = offset + size
        /\ inPos \in Nat /\ call.sub.len \in Nat
    BY <1>2, CursorType, InputType DEF CopyData, Copying, ReadInv, IInv, PosInv
  <2>2. i \in offset..(RangeEnd - 1)
    BY <1>2, <2>1
  <2>3. Source(i) = inPos + (i - offset)
    BY <2>1, <2>2, SourceIs
  <2>4. Chunk > 0 /\ Chunk <= call.sub.len - inPos
    <3>1. From \in Nat /\ To \in Nat /\ Buf \in Nat /\ Chunk > 0
      BY <1>2, CursorType, ConstantsType DEF CopyData
    <3> QED
      BY <2>1, <3>1 DEF Chunk, MinOf, MaxOf
  <2>5. HasSource(i)
    BY <1>2, <2>1, <2>3, <2>4 DEF HasSource
  <2> QED
    BY <1>2, <2>3, <2>5 DEF Intended
<1>3. CASE Fill /\ i \in offset..(RangeEnd - 1) /\ out'[i] = call.byte
  BY <1>3 DEF Fill, ReadInv
<1> QED
  BY <1>1, <1>2, <1>3 DEF NewByte

LEMMA ValueStep == ASSUME IInv, AskedInv, ReadInv, ValueInv, [Next]_vars PROVE ValueInv'
<1>1. CASE Next
  <2>1. PICK n \in 0..size : Progress(n)
    BY <1>1, NextProgress DEF AskedInv
  <2>2. call' = call /\ DoneTo = offset /\ offset \in Int /\ n \in Int /\ call.offset \in Int
    BY <2>1, CallType DEF Progress, DoneTo, IInv, PosInv
  <2>3. PICK d \in Int : d = DoneTo' /\ d <= offset + n
    BY <2>1 DEF Progress
  <2>4. d <= offset + n /\ offset \in Int /\ n \in Int /\ call.offset \in Int
    BY <2>2, <2>3
  <2>5. ASSUME NEW i \in call.offset..(d - 1) PROVE out'[i] \in Intended(i)
    <3>1. CASE i < offset
      <4>1. i \in DOMAIN out /\ out[i] \in Intended(i)
        BY <2>2, <3>1 DEF AskedInv, ValueInv
      <4>2. out'[i] = out[i]
        BY <2>1, <3>1, <4>1 DEF Progress, Kept
      <4> QED
        BY <4>1, <4>2
    <3>2. CASE ~(i < offset)
      <4>1. i \in offset..(offset + n - 1)
        BY <2>4, <3>2
      <4>2. NewByte(i)
        BY <2>1, <4>1 DEF Progress
      <4> QED
        BY <4>2, NewByteIntended
    <3> QED
      BY <3>1, <3>2
  <2>6. \A i : Intended(i)' = Intended(i)
    BY <2>2 DEF Intended, HasSource, InputHole, Source
  <2> QED
    BY <2>2, <2>3, <2>5, <2>6 DEF ValueInv
<1>2. CASE UNCHANGED vars
  <2>1. \A i : Intended(i)' = Intended(i)
    BY <1>2 DEF vars, Intended, HasSource, InputHole, Source
  <2> QED
    BY <1>2, <2>1 DEF vars, pos, file, ValueInv, DoneTo, Done, RangeEnd
<1> QED
  BY <1>1, <1>2

(* After a call that succeeds, the range has the bytes of the input, zeros  *)
(* in its holes and padding behind it, whatever the extents, the buffer and *)
(* the old contents of the file are, if the padding is zero or follows data *)
(* (PaddingAfterData): behind an input that ends in a hole, the code fills  *)
(* the hole with the padding byte too.                                      *)
THEOREM RangeUpdatedHolds ==
    ASSUME PaddingAfterData
    PROVE  Spec => []RangeUpdated
<1> DEFINE Inv == IInv /\ AskedInv /\ ReadInv /\ ValueInv
<1>1. Init => Inv
  <2> SUFFICES ASSUME Init PROVE ReadInv /\ ValueInv
    BY InitInv
  <2>1. /\ DoneTo = call.offset /\ call.offset \in Nat /\ call.imageoffset \in Nat
    BY InitInv, CallType DEF Init, DoneTo, Done, IInv, Call
  <2>2. ReadInv
    BY <2>1 DEF Init, ReadInv, Source
  <2>3. \A i \in call.offset..(DoneTo - 1) : FALSE
    BY <2>1
  <2> QED
    BY <2>2, <2>3 DEF ValueInv
<1>2. Inv /\ [Next]_vars => Inv'
  BY InvStep, AskedStep, ReadStep, ValueStep
<1>3. Inv => RangeUpdated
  <2> SUFFICES ASSUME Inv, Done, NEW i \in Range
               PROVE  i \in DOMAIN out /\ out[i] \in Intended(i)
    BY DEF RangeUpdated
  <2>1. i \in call.offset..(DoneTo - 1)
    <3>1. call.offset \in Nat /\ call.size \in Nat
      BY CallType DEF IInv
    <3> QED
      BY <3>1 DEF Range, DoneTo, RangeEnd
  <2> QED
    BY <2>1 DEF AskedInv, ValueInv
<1> QED
  BY <1>1, <1>2, <1>3, PTL DEF Spec
=============================================================================
