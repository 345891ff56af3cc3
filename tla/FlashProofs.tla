---------------------------- MODULE FlashProofs ----------------------------
(***************************************************************************)
(* Theorems about flash: the images that FlashImage makes, for any         *)
(* configuration, and the types that FlashTypes gives, for every list of   *)
(* images, every graph (cyclic ones included) and all flash sections.      *)
(*                                                                         *)
(* PlaceInv is what flash_setup() has established of the partitions it has *)
(* passed, WriteInv what flash_generate() has written of them; the second  *)
(* needs the first, as generate writes whatever padding its cursor and the *)
(* offset make.                                                            *)
(***************************************************************************)
EXTENDS FlashImage, FlashTypes, SequenceTheorems, TLAPS

EndOf(p) == p.offset + p.size
EndBefore(n) == IF n = 1 THEN 0 ELSE EndOf(parts[n - 1])

\* The size that flash_setup() knew is no larger than the partition.
Fitting(p) == p.child <= p.size

\* Partition n lies behind the one before, at erase blocks, with room for
\* its image.
Placement(n) ==
    /\ EndBefore(n) <= parts[n].offset
    /\ parts[n].offset % conf.pebsize = 0 /\ EndOf(parts[n]) % conf.pebsize = 0
    /\ Fitting(parts[n])

PlaceInv ==
    /\ conf \in Configs
    /\ Len(parts) = Len(conf.parts)
    /\ pc = "setup" =>
         /\ k <= Len(parts) + 1
         /\ partsize = EndBefore(k) /\ partsize % conf.pebsize = 0
         /\ \A n \in 1..(k - 1) : Placement(n) /\ EndOf(parts[n]) <= partsize
         /\ \A n \in k..Len(parts) : parts[n] = conf.parts[n]
    /\ pc \in {"prepare", "write"} \/ Done =>
         \A n \in DOMAIN parts : Placement(n) /\ EndOf(parts[n]) <= FlashSize

\* Each range begins where the one before ends.
Chained(ws) == \A n \in DOMAIN ws : ws[n].lo = IF n = 1 THEN 0 ELSE ws[n - 1].hi
LastEnd(ws) == IF ws = <<>> THEN 0 ELSE ws[Len(ws)].hi

WriteInv ==
    /\ Chained(writes)
    /\ pc \in {"setup", "prepare"} => writes = <<>> /\ end = 0
    /\ pc = "prepare" => k = 1
    /\ pc = "write" =>
         /\ k <= Len(parts) + 1
         /\ end = EndBefore(k) /\ end = LastEnd(writes)
         /\ length = MaxOf(size, end)
    /\ Done => length = LastEnd(writes)

IInv == TypeOK /\ PlaceInv /\ WriteInv

-----------------------------------------------------------------------------
LEMMA Quotient ==
    ASSUME NEW n \in Nat \ {0}, NEW x \in Nat, x % n = 0
    PROVE  \E q \in Nat : x = n * q
BY Z3

(* Sums of erase blocks are erase blocks.                                   *)
LEMMA BlocksAdd ==
    ASSUME NEW n \in Nat \ {0}, NEW x \in Nat, NEW y \in Nat, x % n = 0, y % n = 0
    PROVE  (x + y) % n = 0
<1>1. PICK p \in Nat : x = n * p
  BY Quotient
<1>2. PICK q \in Nat : y = n * q
  BY Quotient
<1>3. n * p + n * q = n * (p + q) /\ p + q \in Nat
  BY Z3
<1>4. (n * (p + q)) % n = 0
  BY <1>3, Z3
<1> QED
  BY <1>1, <1>2, <1>3, <1>4

LEMMA FlashSizeType == ASSUME TypeOK PROVE FlashSize \in Nat
<1>1. conf.pebsize \in Nat /\ conf.numpebs \in Nat
  BY DEF TypeOK, Conf
<1>2. \A x, y \in Nat : x * y \in Nat
  BY Z3
<1> QED
  BY <1>1, <1>2 DEF FlashSize

(* A range appended where the last one ends keeps the chain.                *)
LEMMA ChainAppend ==
    ASSUME NEW ws \in Seq(Write), Chained(ws), NEW w \in Write, w.lo = LastEnd(ws)
    PROVE  /\ ws \o <<w>> \in Seq(Write) /\ Chained(ws \o <<w>>)
           /\ LastEnd(ws \o <<w>>) = w.hi
<1>1. ws \o <<w>> = Append(ws, w)
  BY AppendIsConcat
<1>2. /\ Append(ws, w) \in Seq(Write) /\ Append(ws, w) # <<>>
      /\ Len(Append(ws, w)) = Len(ws) + 1
      /\ \A i \in 1..Len(ws) : Append(ws, w)[i] = ws[i]
      /\ Append(ws, w)[Len(ws) + 1] = w
  BY AppendProperties
<1>3. \A n \in 1..(Len(ws) + 1) :
         Append(ws, w)[n].lo = IF n = 1 THEN 0 ELSE Append(ws, w)[n - 1].hi
  BY <1>2 DEF Chained, LastEnd
<1> QED
  BY <1>1, <1>2, <1>3 DEF Chained, LastEnd

(* Padding closes a gap, and is nothing where there is none.                *)
LEMMA ChainPadding ==
    ASSUME NEW ws \in Seq(Write), Chained(ws),
           NEW from \in Nat, NEW to \in Nat, from = LastEnd(ws), from <= to
    PROVE  /\ ws \o Padding(from, to) \in Seq(Write) /\ Chained(ws \o Padding(from, to))
           /\ LastEnd(ws \o Padding(from, to)) = to
<1>1. CASE from < to
  <2> DEFINE w == [lo |-> from, hi |-> to, what |-> "padding"]
  <2>1. w \in Write /\ w.lo = LastEnd(ws) /\ w.hi = to /\ Padding(from, to) = <<w>>
    BY <1>1 DEF Write, Padding
  <2> HIDE DEF w
  <2> QED
    BY <2>1, ChainAppend
<1>2. CASE from = to
  <2>1. ws \o <<>> = ws /\ Padding(from, to) = <<>>
    BY <1>2, ConcatEmptySeq DEF Padding
  <2> QED
    BY <1>2, <2>1
<1> QED
  BY <1>1, <1>2

LEMMA ChainImage ==
    ASSUME NEW ws \in Seq(Write), Chained(ws), NEW p \in PartConf, p.offset = LastEnd(ws)
    PROVE  /\ ws \o Inserted(p) \in Seq(Write) /\ Chained(ws \o Inserted(p))
           /\ LastEnd(ws \o Inserted(p)) = EndOf(p)
<1> DEFINE to == p.offset + (IF p.child < 0 THEN 0 ELSE MinOf(p.data, p.size))
           w == [lo |-> p.offset, hi |-> to, what |-> "image"]
           file == IF p.offset = to THEN <<>> ELSE <<w>>
<1>1. /\ p.offset \in Nat /\ p.size \in Nat /\ to \in Nat
      /\ p.offset <= to /\ to <= EndOf(p) /\ EndOf(p) \in Nat
  BY DEF PartConf, MinOf, EndOf
<1>2. w \in Write /\ w.lo = LastEnd(ws) /\ w.hi = to
  BY <1>1 DEF Write
<1>3. Inserted(p) = file \o Padding(to, EndOf(p))
  BY DEF Inserted, EndOf
<1>4. file \in Seq(Write) /\ Padding(to, EndOf(p)) \in Seq(Write)
  <2>1. ASSUME NEW x \in Write PROVE <<x>> \in Seq(Write)
    OBVIOUS
  <2>2. <<>> \in Seq(Write)
    OBVIOUS
  <2>3. [lo |-> to, hi |-> EndOf(p), what |-> "padding"] \in Write
    BY <1>1 DEF Write
  <2> HIDE DEF to, w
  <2> QED
    BY <1>2, <2>1, <2>2, <2>3 DEF Padding
<1> HIDE DEF to, w
<1>5. ws \o file \in Seq(Write) /\ Chained(ws \o file) /\ LastEnd(ws \o file) = to
  <2>1. CASE p.offset = to
    <3>1. ws \o <<>> = ws
      BY ConcatEmptySeq
    <3> QED
      BY <2>1, <3>1
  <2>2. CASE p.offset # to
    BY <1>2, <2>2, ChainAppend
  <2> QED
    BY <2>1, <2>2
<1>6. ws \o Inserted(p) = (ws \o file) \o Padding(to, EndOf(p))
  BY <1>3, <1>4, ConcatAssociative
<1> HIDE DEF file
<1>7. /\ (ws \o file) \o Padding(to, EndOf(p)) \in Seq(Write)
      /\ Chained((ws \o file) \o Padding(to, EndOf(p)))
      /\ LastEnd((ws \o file) \o Padding(to, EndOf(p))) = EndOf(p)
  <2> DEFINE vs == ws \o file
             x == EndOf(p)
  <2>1. vs \in Seq(Write) /\ Chained(vs) /\ LastEnd(vs) = to /\ to \in Nat /\ x \in Nat /\ to <= x
    BY <1>1, <1>5
  <2> HIDE DEF vs, x
  <2>2. /\ vs \o Padding(to, x) \in Seq(Write) /\ Chained(vs \o Padding(to, x))
        /\ LastEnd(vs \o Padding(to, x)) = x
    BY ONLY <2>1, ChainPadding
  <2> QED
    BY <2>2 DEF vs, x
<1> QED
  BY <1>6, <1>7

-----------------------------------------------------------------------------
(* A partition that flash_setup() accepts is placed behind the last one, at *)
(* erase blocks and with room for its image.                                *)
LEMMA PlacedType ==
    ASSUME TypeOK, NEW p \in PartConf, HasRoom(p)
    PROVE  /\ Placed(p) \in PartConf
           /\ Placed(p).size = (IF p.size = 0 THEN Rest ELSE p.size)
           /\ Placed(p).offset = (IF p.offset = 0 THEN partsize ELSE p.offset)
           /\ Placed(p).child = p.child /\ Placed(p).data = p.data
<1>1. p.offset \in Nat /\ p.size \in Nat /\ partsize \in Nat /\ FlashSize \in Nat
  BY FlashSizeType DEF TypeOK, PartConf
<1> DEFINE s == IF p.size = 0 THEN Rest ELSE p.size
           o == IF p.offset = 0 THEN partsize ELSE p.offset
<1>2. s \in Nat /\ o \in Nat
  BY <1>1 DEF HasRoom, Rest
<1>3. Placed(p) = [p EXCEPT !.size = s, !.offset = o]
  BY DEF Placed
<1> HIDE DEF s, o
<1>4. /\ Placed(p) \in PartConf /\ Placed(p).size = s /\ Placed(p).offset = o
      /\ Placed(p).child = p.child /\ Placed(p).data = p.data
  BY <1>2, <1>3 DEF PartConf
<1> QED
  BY <1>4 DEF s, o

LEMMA PlacedWell ==
    ASSUME TypeOK, NEW p \in PartConf, Accepted(p), partsize % conf.pebsize = 0
    PROVE  /\ partsize <= Placed(p).offset
           /\ Placed(p).offset % conf.pebsize = 0
           /\ EndOf(Placed(p)) % conf.pebsize = 0
           /\ Fitting(Placed(p))
           /\ EndOf(Placed(p)) \in Nat /\ partsize <= EndOf(Placed(p))
<1>1. /\ p.offset \in Nat /\ p.size \in Nat /\ partsize \in Nat
      /\ conf.pebsize \in Nat \ {0}
      /\ p.child \in Int /\ p.data \in Int
  BY DEF TypeOK, PartConf, Conf
<1>2. /\ Placed(p) \in PartConf
      /\ Placed(p).offset = (IF p.offset = 0 THEN partsize ELSE p.offset)
      /\ Placed(p).child = p.child /\ Placed(p).data = p.data
  BY PlacedType DEF Accepted
<1>3. Placed(p).offset \in Nat /\ Placed(p).size \in Nat
  BY <1>2 DEF PartConf
<1>4. Placed(p).offset % conf.pebsize = 0 /\ partsize <= Placed(p).offset
  BY <1>1, <1>2 DEF Accepted, InOrder
<1>5. Placed(p).size % conf.pebsize = 0
  BY DEF Accepted
<1>6. EndOf(Placed(p)) % conf.pebsize = 0
  BY <1>1, <1>3, <1>4, <1>5, BlocksAdd DEF EndOf
<1>7. Fitting(Placed(p))
  BY <1>1, <1>2, <1>3 DEF Accepted, Fits, Fitting
<1> QED
  BY <1>1, <1>2, <1>3, <1>4, <1>6, <1>7 DEF EndOf

(* flash_setup() keeps what it has established of the partitions before.    *)
LEMMA SetupPartStep ==
    ASSUME IInv, SetupPart, Accepted(parts[k]), NEW q, q = Placed(parts[k]),
           parts' = [parts EXCEPT ![k] = q],
           partsize' = q.offset + q.size, k' = k + 1,
           UNCHANGED <<conf, pc, ret, size, end, writes, length>>
    PROVE  parts' \in Seq(PartConf) /\ partsize' \in Nat /\ PlaceInv'
<1> USE DEF IInv
<1>1. /\ k \in 1..Len(parts) /\ k \in Nat \ {0} /\ parts[k] \in PartConf /\ pc = "setup"
      /\ parts \in Seq(PartConf) /\ conf.parts \in Seq(PartConf)
  BY DEF SetupPart, TypeOK, Conf
<1>3. q \in PartConf
  BY <1>1, PlacedType DEF Accepted
<1>4. /\ partsize <= q.offset /\ q.offset % conf.pebsize = 0
      /\ EndOf(q) % conf.pebsize = 0 /\ Fitting(q)
      /\ EndOf(q) \in Nat /\ partsize <= EndOf(q)
  BY <1>1, PlacedWell DEF PlaceInv
<1>5. /\ parts' \in Seq(PartConf) /\ Len(parts') = Len(parts)
      /\ parts'[k] = q /\ (\A n \in 1..Len(parts) : n # k => parts'[n] = parts[n])
      /\ partsize' = EndOf(q)
  BY <1>1, <1>3 DEF EndOf
<1>6. EndBefore(k)' = EndOf(q)
  BY <1>1, <1>5 DEF EndBefore, EndOf
<1>7. ASSUME NEW n \in 1..k
      PROVE  Placement(n)' /\ EndOf(parts'[n]) <= partsize'
  <2>1. (IF n = 1 THEN 0 ELSE EndOf(parts'[n - 1])) = EndBefore(n)
    BY <1>1, <1>5 DEF EndBefore
  <2>2. CASE n = k
    <3>1. EndBefore(n) = partsize
      BY <1>1, <2>2 DEF PlaceInv
    <3> QED
      BY <1>4, <1>5, <2>1, <2>2, <3>1 DEF Placement, EndBefore, EndOf, PartConf
  <2>3. CASE n # k
    <3>1. n \in 1..(k - 1) /\ parts'[n] = parts[n] /\ parts[n] \in PartConf
      BY <1>1, <1>5, <2>3
    <3>2. Placement(n) /\ EndOf(parts[n]) <= partsize
      BY <1>1, <3>1 DEF PlaceInv
    <3>3. Placement(n)'
      BY <2>1, <3>1, <3>2 DEF Placement, EndBefore
    <3>4. parts[n].offset \in Nat /\ parts[n].size \in Nat /\ partsize \in Nat
      BY <3>1 DEF PartConf, TypeOK
    <3>5. EndOf(parts[n]) \in Nat
      BY <3>4 DEF EndOf
    <3> QED
      BY <1>4, <1>5, <3>1, <3>2, <3>3, <3>4, <3>5
  <2> QED
    BY <2>2, <2>3
<1>8. \A n \in k'..Len(parts') : parts'[n] = conf'.parts[n]
  BY <1>1, <1>5 DEF PlaceInv
<1> QED
  BY <1>1, <1>3, <1>4, <1>5, <1>6, <1>7, <1>8 DEF PlaceInv, Done

-----------------------------------------------------------------------------
(* flash_generate() writes one partition where the last one has ended.      *)
LEMMA WritePartStep ==
    ASSUME IInv, WritePart
    PROVE  TypeOK' /\ WriteInv'
<1> USE DEF IInv
<1> DEFINE p == parts[k]
           gap == writes \o Padding(end, p.offset)
<1>1. /\ pc = "write" /\ k \in 1..Len(parts) /\ k \in Nat /\ p \in PartConf
      /\ parts \in Seq(PartConf) /\ writes \in Seq(Write)
      /\ end \in Nat /\ length \in Nat /\ size \in Nat
  BY DEF WritePart, TypeOK
<1>2. p.offset \in Nat /\ p.size \in Nat /\ EndOf(p) \in Nat /\ p.offset <= EndOf(p)
  <2>1. \A q \in PartConf : q.offset \in Nat /\ q.size \in Nat
    BY DEF PartConf
  <2> HIDE DEF p
  <2>2. p.offset \in Nat /\ p.size \in Nat
    BY <1>1, <2>1
  <2> QED
    BY <2>2 DEF EndOf
<1>3. end = LastEnd(writes) /\ end = EndBefore(k) /\ Chained(writes) /\ length = MaxOf(size, end)
  BY <1>1 DEF WriteInv
<1>4. end <= p.offset
  BY <1>1, <1>3 DEF PlaceInv, Placement
<1>5. /\ writes' = gap \o Inserted(p) /\ end' = EndOf(p) /\ k' = k + 1
      /\ length' = MaxOf(length, EndOf(p))
      /\ UNCHANGED <<conf, pc, ret, parts, last, partsize, size>>
  BY DEF WritePart, EndOf, setupVars
<1> HIDE DEF p
<1>6. gap \in Seq(Write) /\ Chained(gap) /\ LastEnd(gap) = p.offset
  <2>1. /\ writes \in Seq(Write) /\ Chained(writes) /\ end = LastEnd(writes)
        /\ end \in Nat /\ p.offset \in Nat /\ end <= p.offset
    BY <1>1, <1>2, <1>3, <1>4
  <2> QED
    BY ZenonT(30), <2>1, ChainPadding
<1> HIDE DEF gap
<1>7. writes' \in Seq(Write) /\ Chained(writes') /\ LastEnd(writes') = EndOf(p)
  BY <1>1, <1>5, <1>6, ChainImage
<1>8. length' = MaxOf(size, EndOf(p)) /\ length' \in Nat
  BY <1>1, <1>2, <1>3, <1>4, <1>5 DEF MaxOf
<1>9. EndBefore(k)' = EndOf(p)
  BY <1>1, <1>5 DEF EndBefore, p
<1>10. TypeOK'
  BY <1>1, <1>2, <1>5, <1>7, <1>8 DEF TypeOK
<1> QED
  BY <1>1, <1>5, <1>7, <1>8, <1>9, <1>10 DEF WriteInv, Done

LEMMA PadEndStep ==
    ASSUME IInv, PadEnd
    PROVE  TypeOK' /\ WriteInv'
<1> USE DEF IInv
<1>1. /\ pc = "write" /\ writes \in Seq(Write)
      /\ end \in Nat /\ length \in Nat /\ size \in Nat
      /\ end = LastEnd(writes) /\ Chained(writes) /\ length = MaxOf(size, end)
  BY DEF PadEnd, TypeOK, WriteInv
<1>2. writes' = writes \o Padding(end, size) /\ UNCHANGED <<conf, ret, parts, last, partsize, size, k, end>>
      /\ pc' = "end" /\ length' = MaxOf(length, IF end < size THEN size ELSE 0)
  BY DEF PadEnd, setupVars
<1>3. length' = MaxOf(size, end) /\ length' \in Nat
  BY <1>1, <1>2 DEF MaxOf
<1>4. writes' \in Seq(Write) /\ Chained(writes') /\ LastEnd(writes') = MaxOf(size, end)
  <2>1. CASE end <= size
    BY <1>1, <1>2, <2>1, ChainPadding DEF MaxOf
  <2>2. CASE ~(end <= size)
    <3>1. Padding(end, size) = <<>> /\ MaxOf(size, end) = end
      BY <1>1, <2>2 DEF Padding, MaxOf
    <3>2. writes \o <<>> = writes
      BY <1>1, ConcatEmptySeq
    <3> QED
      BY <1>1, <1>2, <3>1, <3>2
  <2> QED
    BY <2>1, <2>2
<1>5. TypeOK'
  BY <1>2, <1>3, <1>4 DEF TypeOK
<1> QED
  BY <1>2, <1>3, <1>4, <1>5 DEF WriteInv

(* Each step keeps types, places and the chain of what is written.          *)
LEMMA InvStep == ASSUME IInv, [Next]_vars PROVE IInv'
<1> USE DEF IInv
<1>e. ASSUME Error PROVE IInv'
  <2>1. TypeOK'
    BY <1>e DEF Error, setupVars, TypeOK
  <2>2. PlaceInv'
    BY <1>e DEF Error, setupVars, PlaceInv, Done
  <2>3. WriteInv'
    BY <1>e DEF Error, WriteInv, Done
  <2> QED
    BY <2>1, <2>2, <2>3
<1>1. CASE SetupPart
  <2>1. CASE /\ conf.typed /\ Accepted(parts[k])
             /\ parts' = [parts EXCEPT ![k] = Placed(parts[k])]
             /\ last' = (parts[k].size = 0)
             /\ partsize' = Placed(parts[k]).offset + Placed(parts[k]).size
             /\ k' = k + 1
             /\ UNCHANGED <<conf, pc, ret, size, end, writes, length>>
    <3>1. parts' \in Seq(PartConf) /\ partsize' \in Nat /\ PlaceInv'
      BY <1>1, <2>1, SetupPartStep
    <3>2. TypeOK'
      BY <2>1, <3>1 DEF TypeOK
    <3>3. WriteInv'
      BY <1>1, <2>1 DEF SetupPart, WriteInv, Done
    <3> QED
      BY <3>1, <3>2, <3>3
  <2> QED
    BY <1>1, <1>e, <2>1 DEF SetupPart
<1>2. CASE SetupDone
  <2>1. CASE /\ conf.typed /\ WithinFlash
             /\ size' = (IF size = 0 THEN partsize ELSE size)
             /\ k' = 1 /\ pc' = "prepare"
             /\ UNCHANGED <<conf, ret, parts, last, partsize, end, writes, length>>
    <3>1. TypeOK'
      BY <2>1 DEF TypeOK
    <3>2. WriteInv'
      BY <1>2, <2>1 DEF SetupDone, WriteInv, Done
    <3>3. \A n \in DOMAIN parts : Placement(n) /\ EndOf(parts[n]) <= partsize
      BY <1>2 DEF SetupDone, PlaceInv, TypeOK
    <3>4. ASSUME NEW n \in DOMAIN parts PROVE EndOf(parts[n]) <= FlashSize
      <4>1. parts[n] \in PartConf /\ partsize \in Nat /\ FlashSize \in Nat
        BY FlashSizeType DEF TypeOK
      <4>2. EndOf(parts[n]) \in Nat
        BY <4>1 DEF EndOf, PartConf
      <4> QED
        BY <2>1, <3>3, <4>1, <4>2 DEF WithinFlash
    <3>5. PlaceInv'
      BY <2>1, <3>3, <3>4 DEF PlaceInv, Placement, EndBefore, FlashSize, Done
    <3> QED
      BY <3>1, <3>2, <3>5
  <2> QED
    BY <1>2, <1>e, <2>1 DEF SetupDone
<1>p. ASSUME UNCHANGED <<conf, parts, partsize>>, pc \in {"prepare", "write"},
             pc' \in {"write", "end"}
      PROVE  PlaceInv'
  BY <1>p DEF PlaceInv, Placement, EndBefore, FlashSize, Done
<1>3. CASE Prepare
  <2>1. TypeOK'
    BY <1>3 DEF Prepare, setupVars, TypeOK
  <2>2. WriteInv'
    BY <1>3 DEF Prepare, setupVars, WriteInv, EndBefore, LastEnd, MaxOf, TypeOK, Done
  <2> QED
    BY <1>3, <1>p, <2>1, <2>2 DEF Prepare, setupVars
<1>4. CASE WritePart
  BY <1>4, <1>p, WritePartStep DEF WritePart, setupVars
<1>5. CASE PadEnd
  BY <1>5, <1>p, PadEndStep DEF PadEnd, setupVars
<1>6. CASE WriteFails
  BY <1>6, <1>e DEF WriteFails
<1>7. CASE UNCHANGED vars
  BY <1>7 DEF vars, setupVars, TypeOK, PlaceInv, WriteInv, Placement, EndBefore,
     FlashSize, Done
<1> QED
  BY <1>1, <1>2, <1>3, <1>4, <1>5, <1>6, <1>7 DEF Next

LEMMA Invariance == Spec => []IInv
<1>1. Init => IInv
  <2> SUFFICES ASSUME Init PROVE IInv
    OBVIOUS
  <2>1. conf \in Conf /\ conf.size \in Nat /\ conf.parts \in Seq(PartConf)
        /\ conf.pebsize \in Nat \ {0}
    BY ConfigsType DEF Init, Conf
  <2>2. TypeOK
    <3>1. {partsize, size, end, length} \subseteq Nat /\ writes \in Seq(Write)
      BY <2>1 DEF Init
    <3>2. last \in BOOLEAN
      BY Zenon DEF Init
    <3>3. k \in Nat \ {0} /\ pc = "setup" /\ ret = "ok" /\ parts = conf.parts
      BY DEF Init
    <3> QED
      BY <2>1, <3>1, <3>2, <3>3 DEF TypeOK
  <2>3. PlaceInv
    <3>1. 0 % conf.pebsize = 0
      BY <2>1, Z3
    <3> QED
      BY <2>1, <3>1 DEF Init, PlaceInv, EndBefore, Done
  <2>4. WriteInv
    BY DEF Init, WriteInv, Chained, Done
  <2> QED
    BY <2>2, <2>3, <2>4 DEF IInv
<1>2. IInv /\ [Next]_vars => IInv'
  BY InvStep
<1> QED
  BY <1>1, <1>2, PTL DEF Spec

(* The variables keep their types, through setup and generate.              *)
THEOREM TypeCorrect == Spec => []TypeOK
<1>1. IInv => TypeOK
  BY DEF IInv
<1> QED
  BY <1>1, Invariance, PTL

-----------------------------------------------------------------------------
(* Every byte of a flash image is written once, from its begin to its end.  *)
THEOREM WrittenOnceHolds == Spec => []WrittenOnce
<1>1. IInv => WrittenOnce
  BY DEF IInv, WriteInv, Chained, LastEnd, WrittenOnce
<1> QED
  BY <1>1, Invariance, PTL

(* The partitions flash_setup() accepts are whole erase blocks within the   *)
(* flash, and an image that flash_generate() cuts off is of another size    *)
(* than flash_setup() knew.  Nothing is assumed of late or changed sizes.   *)
THEOREM OnFlashHolds == Spec => []OnFlash
<1>1. ASSUME IInv PROVE OnFlash
  <2> SUFFICES ASSUME pc \in {"prepare", "write"} \/ Done, NEW n \in DOMAIN parts
               PROVE  /\ parts[n].offset % conf.pebsize = 0
                      /\ EndOf(parts[n]) % conf.pebsize = 0
                      /\ EndOf(parts[n]) <= FlashSize
                      /\ parts[n].data > parts[n].size
                            => parts[n].data # parts[n].child
    BY DEF OnFlash, EndOf
  <2>1. Placement(n) /\ EndOf(parts[n]) <= FlashSize
    BY <1>1 DEF IInv, PlaceInv
  <2>2. parts[n].child \in Int /\ parts[n].data \in Int /\ parts[n].size \in Int
    <3>1. parts[n] \in PartConf
      BY <1>1 DEF IInv, TypeOK
    <3> QED
      BY <3>1 DEF PartConf
  <2>3. parts[n].offset % conf.pebsize = 0 /\ EndOf(parts[n]) % conf.pebsize = 0
    BY <2>1 DEF Placement
  <2>4. parts[n].child <= parts[n].size
    BY <2>1 DEF Placement, Fitting
  <2>5. parts[n].data > parts[n].size => parts[n].data # parts[n].child
    BY <2>2, <2>4
  <2> QED
    BY <2>1, <2>3, <2>5
<1> QED
  BY <1>1, Invariance, PTL

-----------------------------------------------------------------------------
(* Flash types.                                                             *)

Images == RangeOf(graph.order)

\* What the first loops leave: a section that names a flash has it.
ParseInv ==
    stage = "parse" =>
        /\ part = 1
        /\ \A a \in DOMAIN graph.order :
              a < cur => type[graph.order[a]] = Given(graph.order[a])
GivenInv ==
    stage # "parse" => \A i \in Images : Given(i) # NoType => type[i] = Given(i)

\* An image whose type was there when set_flash_type() came to it.
Sure(i) == type[i] # NoType /\ (Given(i) # NoType \/ TopDown)
Shared(i) == \A c \in RangeOf(graph.parts[i]) : type[c] = type[i]

PassedInv ==
    stage = "propagate" =>
        /\ \A m \in DOMAIN graph.order :
              m < cur /\ Sure(graph.order[m]) => Shared(graph.order[m])
        /\ ~AtEnd /\ type[This] # NoType =>
              \A a \in DOMAIN graph.parts[This] :
                  a < part => type[graph.parts[This][a]] = type[This]

TypesInv == TypesOK /\ ParseInv /\ GivenInv /\ PassedInv /\ OneFlash

(* The loops stay in their lists, and types are those of sections.          *)
LEMMA TypesTypeStep == ASSUME TypesOK, [TypesNext]_typesVars PROVE TypesOK'
<1> USE TypesType DEF TypesOK
<1>0. /\ graph.order \in Seq(Image) /\ graph.parts \in [Image -> Seq(Image)]
      /\ graph.flashtype \in [Image -> FlashName] /\ Len(graph.order) \in Nat
  BY DEF List
<1>1. ~AtEnd => This \in Image /\ cur \in DOMAIN graph.order
  BY <1>0 DEF AtEnd, This
<1>2. HasPart => Child \in Image
  BY <1>0, <1>1 DEF HasPart, Child
<1>3. CASE ParseImage
  BY <1>0, <1>1, <1>3 DEF ParseImage, Given, AtEnd
<1>4. CASE ParseDone
  BY <1>0, <1>4 DEF ParseDone
<1>5. CASE NextImage
  BY <1>0, <1>5 DEF NextImage, AtEnd
<1>6. CASE GiveType
  BY <1>1, <1>2, <1>6 DEF GiveType, HasPart
<1>7. CASE HasType
  BY <1>7 DEF HasType
<1>8. CASE Conflict
  BY <1>2, <1>8 DEF Conflict
<1>9. CASE PropagateDone \/ AllSetUp
  BY <1>9 DEF PropagateDone, AllSetUp
<1>10. CASE \E i \in Image : Setup(i)
  BY <1>10 DEF Setup
<1>11. CASE UNCHANGED typesVars
  BY <1>11 DEF typesVars
<1> QED
  BY <1>3, <1>4, <1>5, <1>6, <1>7, <1>8, <1>9, <1>10, <1>11 DEF TypesNext

(* A type that is given away changes nothing that was settled before: an    *)
(* image that the loop has passed without a type is only given one if it    *)
(* is listed before the image it is a part of.                              *)
LEMMA GiveStep == ASSUME TypesInv, GiveType PROVE GivenInv' /\ PassedInv'
<1> USE TypesType DEF TypesInv
<1>0. /\ stage = "propagate" /\ stage' = stage /\ cur' = cur /\ graph' = graph
      /\ part' = part + 1 /\ part \in Nat
      /\ cur \in DOMAIN graph.order /\ This \in Image /\ This = graph.order[cur]
      /\ part \in DOMAIN graph.parts[This]
      /\ Child = graph.parts[This][part] /\ Child \in RangeOf(graph.parts[This])
      /\ Child \in Image
      /\ type[This] # NoType /\ type[Child] = NoType
      /\ type \in [Image -> Sections \cup {NoType}]
      /\ type' = [type EXCEPT ![Child] = type[This]]
      /\ \A i \in Image : RangeOf(graph.parts[i]) \subseteq Image
      /\ Images \subseteq Image
  BY DEF GiveType, HasPart, Receives, AtEnd, This, Child, TypesOK, List, RangeOf,
         Images
<1>1. \A i \in Image : type[i] # NoType => type'[i] = type[i]
  BY <1>0
<1>2. \A i \in Image : Given(i)' = Given(i)
  BY <1>0 DEF Given
<1>3. This' = This /\ TopDown' = TopDown /\ AtEnd' = AtEnd
  BY <1>0 DEF This, TopDown, AtEnd
<1>4. GivenInv'
  BY <1>0, <1>1, <1>2 DEF GivenInv, Images
<1>5. ASSUME NEW m \in DOMAIN graph.order, m < cur, Sure(graph.order[m])'
      PROVE  Shared(graph.order[m])'
  <2> DEFINE i == graph.order[m]
  <2>0. i \in Image /\ i \in Images /\ m \in Nat
    BY <1>0 DEF Images, RangeOf, TypesOK, List
  <2>1. i # Child
    <3>1. SUFFICES ASSUME i = Child PROVE FALSE
      OBVIOUS
    <3>2. Given(i) = NoType
      BY <1>0, <2>0, <3>1 DEF GivenInv
    <3>3. TopDown
      BY <1>0, <1>2, <1>3, <1>5, <2>0, <3>2 DEF Sure
    <3>4. cur < m
      BY <1>0, <3>1, <3>3 DEF TopDown
    <3> QED
      BY <1>0, <1>5, <2>0, <3>4 DEF TypesOK
  <2>2. type'[i] = type[i] /\ Sure(i)
    BY <1>0, <1>2, <1>3, <1>5, <2>0, <2>1 DEF Sure
  <2>3. Shared(i)
    BY <1>0, <1>5, <2>2 DEF PassedInv
  <2> QED
    BY <1>0, <1>1, <2>0, <2>2, <2>3 DEF Shared, Sure
<1>6. ASSUME NEW a \in DOMAIN graph.parts[This], a < part'
      PROVE  type'[graph.parts[This][a]] = type'[This]
  <2>1. graph.parts[This][a] \in Image /\ a \in Nat
    BY <1>0 DEF RangeOf, TypesOK, List
  <2>2. type'[This] = type[This] /\ type'[Child] = type[This]
    BY <1>0, <1>1
  <2>3. CASE a = part
    BY <1>0, <2>2, <2>3
  <2>4. CASE a < part
    <3>1. ~AtEnd
      BY <1>0 DEF AtEnd, GiveType, HasPart
    <3>2. type[graph.parts[This][a]] = type[This]
      BY <1>0, <2>4, <3>1 DEF PassedInv
    <3> QED
      BY <1>0, <1>1, <2>1, <2>2, <3>2
  <2> QED
    BY <1>0, <1>6, <2>1, <2>3, <2>4
<1>7. \A m \in DOMAIN graph'.order :
         m < cur' /\ Sure(graph.order[m])' => Shared(graph.order[m])'
  BY <1>0, <1>5
<1>8. \A a \in DOMAIN (graph.parts[This])' :
         a < part' => type'[(graph.parts[This])'[a]] = type'[This']
  <2>1. (graph.parts[This])' = graph.parts[This] /\ This' = This
    BY <1>0, <1>3
  <2> QED
    BY <1>6, <2>1
<1>9. PassedInv'
  BY <1>7, <1>8 DEF PassedInv
<1> QED
  BY <1>4, <1>9

LEMMA TypesStep == ASSUME TypesInv, [TypesNext]_typesVars PROVE TypesInv'
<1> USE TypesType DEF TypesInv
<1>t. TypesOK'
  BY TypesTypeStep
<1>0. /\ graph.order \in Seq(Image) /\ graph.parts \in [Image -> Seq(Image)]
      /\ Len(graph.order) \in Nat /\ DOMAIN graph.order = 1..Len(graph.order)
      /\ cur \in Nat /\ cur # 0
      /\ \A a \in DOMAIN graph.order : graph.order[a] \in Image
      /\ Images \subseteq Image
  BY DEF TypesOK, List, Images, RangeOf
<1>c. UNCHANGED graph /\ (\A i : Given(i)' = Given(i)) /\ TopDown' = TopDown
  BY DEF TypesNext, typesVars, ParseImage, ParseDone, NextImage, GiveType, HasType, Conflict,
         PropagateDone, Setup, AllSetUp, Given, TopDown
<1>1. CASE ParseImage
  <2>1. /\ stage = "parse" /\ stage' = "parse" /\ cur' = cur + 1 /\ cur \in DOMAIN graph.order
        /\ type' = [type EXCEPT ![graph.order[cur]] = Given(graph.order[cur])]
    BY <1>0, <1>1 DEF ParseImage, AtEnd, This
  <2>2. ASSUME NEW a \in DOMAIN graph.order, a < cur + 1
        PROVE  type'[graph.order[a]] = Given(graph.order[a])
    <3>1. type \in [Image -> Sections \cup {NoType}] /\ graph.order[a] \in Image
      BY <1>0 DEF TypesOK
    <3>2. CASE graph.order[a] = graph.order[cur]
      BY <2>1, <3>1, <3>2
    <3>3. CASE graph.order[a] # graph.order[cur]
      <4>1. a < cur
        BY <1>0, <2>2, <3>3
      <4> QED
        BY <2>1, <3>1, <3>3, <4>1 DEF ParseInv
    <3> QED
      BY <3>2, <3>3
  <2>3. ParseInv'
    BY <1>1, <1>c, <2>1, <2>2 DEF ParseInv, ParseImage
  <2> QED
    BY <1>t, <2>1, <2>3 DEF GivenInv, PassedInv, OneFlash, Propagated
<1>2. CASE ParseDone
  <2>1. /\ stage = "parse" /\ stage' = "propagate" /\ cur' = 1 /\ UNCHANGED <<type, part>>
        /\ cur > Len(graph.order)
    BY <1>2 DEF ParseDone, AtEnd
  <2>2. GivenInv'
    <3>1. ASSUME NEW i \in Images PROVE type[i] = Given(i)
      <4>1. PICK a \in DOMAIN graph.order : i = graph.order[a]
        BY DEF Images, RangeOf
      <4>2. a < cur
        BY <1>0, <2>1, <4>1
      <4> QED
        BY <2>1, <4>1, <4>2 DEF ParseInv
    <3> QED
      BY <1>c, <2>1, <3>1 DEF GivenInv, Images
  <2>3. PassedInv'
    <3>1. \A m \in DOMAIN graph.order : ~(m < 1)
      BY <1>0
    <3>2. ~AtEnd' /\ type'[This'] # NoType =>
            \A a \in DOMAIN graph.parts[This'] :
                a < part => type[graph.parts[This'][a]] = type[This']
      <4>1. ~AtEnd' => This' \in Image
        BY <1>0, <1>c, <2>1 DEF AtEnd, This
      <4>2. part = 1
        BY <2>1 DEF ParseInv
      <4> QED
        BY <1>0, <4>1, <4>2
    <3> QED
      BY <1>c, <2>1, <3>1, <3>2 DEF PassedInv
  <2> QED
    BY <1>t, <2>1, <2>2, <2>3 DEF ParseInv, OneFlash, Propagated
<1>3. CASE NextImage
  <2>1. /\ stage = "propagate" /\ stage' = stage /\ cur' = cur + 1 /\ part' = 1
        /\ type' = type /\ ~AtEnd /\ (type[This] = NoType \/ ~HasPart)
    BY <1>3 DEF NextImage
  <2>2. This \in Image /\ This = graph.order[cur]
    BY <1>0, <2>1 DEF AtEnd, This
  <2>3. type[This] # NoType => Shared(This)
    <3>1. SUFFICES ASSUME type[This] # NoType, NEW c \in RangeOf(graph.parts[This])
                   PROVE  type[c] = type[This]
      BY DEF Shared
    <3>2. PICK a \in DOMAIN graph.parts[This] : c = graph.parts[This][a]
      BY DEF RangeOf
    <3>3. part > Len(graph.parts[This]) /\ graph.parts[This] \in Seq(Image)
      BY <1>0, <2>1, <2>2, <3>1 DEF HasPart, TypesOK
    <3>4. a < part
      BY <3>2, <3>3 DEF TypesOK
    <3> QED
      BY <2>1, <3>1, <3>2, <3>4 DEF PassedInv
  <2>4. \A i : Sure(i)' = Sure(i) /\ Shared(i)' = Shared(i)
    BY <1>c, <2>1 DEF Sure, Shared
  <2>5. \A m \in DOMAIN graph.order :
          m < cur + 1 /\ Sure(graph.order[m]) => Shared(graph.order[m])
    BY <1>0, <2>1, <2>2, <2>3 DEF PassedInv, Sure
  <2>6. ~AtEnd' /\ type'[This'] # NoType =>
          \A a \in DOMAIN graph.parts[This'] : a \in Nat \ {0}
    BY SMTT(30), <1>0, <1>t, <1>c DEF AtEnd, This, TypesOK
  <2>7. PassedInv'
    BY <1>c, <2>1, <2>4, <2>5, <2>6 DEF PassedInv
  <2> QED
    BY <1>t, <1>c, <2>1, <2>7 DEF ParseInv, GivenInv, OneFlash, Propagated, Images
<1>4. CASE GiveType
  <2>1. stage = "propagate" /\ stage' = stage
    BY <1>4 DEF GiveType, HasPart
  <2> QED
    BY <1>t, <1>4, <2>1, GiveStep DEF ParseInv, OneFlash, Propagated
<1>5. CASE HasType
  <2>1. /\ stage = "propagate" /\ stage' = stage /\ UNCHANGED <<type, cur>> /\ part' = part + 1
        /\ ~AtEnd /\ part \in DOMAIN graph.parts[This]
        /\ type[graph.parts[This][part]] = type[This]
    BY <1>0, <1>5 DEF HasType, HasPart, Same, Child, TypesOK, AtEnd, This
  <2>2. This' = This /\ AtEnd' = AtEnd
    BY <1>c, <2>1 DEF This, AtEnd
  <2>3. \A i : Sure(i)' = Sure(i) /\ Shared(i)' = Shared(i)
    BY <1>c, <2>1 DEF Sure, Shared
  <2>4. type[This] # NoType =>
          \A a \in DOMAIN graph.parts[This] :
             a < part + 1 => type[graph.parts[This][a]] = type[This]
    <3>1. ASSUME type[This] # NoType, NEW a \in DOMAIN graph.parts[This], a < part
          PROVE  type[graph.parts[This][a]] = type[This]
      BY <2>1, <3>1 DEF PassedInv
    <3>2. \A a \in DOMAIN graph.parts[This] : a \in Nat
      BY <1>0, <2>1 DEF AtEnd, This
    <3> QED
      BY <2>1, <3>1, <3>2
  <2>5. PassedInv'
    BY <1>c, <2>1, <2>2, <2>3, <2>4 DEF PassedInv
  <2> QED
    BY <1>t, <1>c, <2>1, <2>5 DEF ParseInv, GivenInv, OneFlash, Propagated, Images
<1>6. CASE PropagateDone
  <2>1. stage = "propagate" /\ stage' = "setup" /\ AtEnd /\ type' = type
    BY <1>6 DEF PropagateDone
  <2>2. \A i \in Images : Sure(i) => Shared(i)
    <3>1. SUFFICES ASSUME NEW i \in Images, Sure(i) PROVE Shared(i)
      OBVIOUS
    <3>2. PICK m \in DOMAIN graph.order : i = graph.order[m]
      BY DEF Images, RangeOf
    <3>3. m < cur
      BY <1>0, <2>1, <3>2 DEF AtEnd
    <3> QED
      BY <2>1, <3>1, <3>2, <3>3 DEF PassedInv
  <2>3. OneFlash'
    BY <1>c, <2>1, <2>2 DEF OneFlash, Sure, Shared, Images
  <2> QED
    BY <1>t, <1>c, <2>1, <2>3 DEF ParseInv, GivenInv, PassedInv, Images
<1>7. CASE Conflict \/ AllSetUp \/ \E i \in Image : Setup(i)
  <2>1. /\ stage \in {"propagate", "setup"} /\ type' = type
        /\ stage' \in {"failed", "setup", "done"}
        /\ stage' # "failed" => stage = "setup"
    BY <1>7 DEF Conflict, HasPart, AllSetUp, Setup
  <2> QED
    BY <1>t, <1>c, <2>1
       DEF ParseInv, GivenInv, PassedInv, OneFlash, Propagated, Images
<1>8. CASE UNCHANGED typesVars
  BY <1>t, <1>c, <1>8 DEF typesVars, ParseInv, GivenInv, PassedInv, OneFlash, Propagated,
     Images, Sure, Shared, AtEnd, This
<1> QED
  BY <1>1, <1>2, <1>3, <1>4, <1>5, <1>6, <1>7, <1>8 DEF TypesNext

LEMMA TypesStart == ASSUME TypesInit PROVE TypesInv
<1>1. TypesOK
  BY TypesType, ListsType DEF TypesInit, TypesOK, List
<1> QED
  BY <1>1 DEF TypesInit, TypesInv, ParseInv, GivenInv, PassedInv, OneFlash, Propagated, TypesOK, List

(* An image is for the same flash as what it is made of, if its own section *)
(* names the flash or parents are listed first.                             *)
THEOREM OneFlashHolds ==
    TypesSpec => []OneFlash
<1>1. TypesInv /\ [TypesNext]_typesVars => TypesInv'
  BY TypesStep
<1>2. TypesInv => OneFlash
  BY DEF TypesInv
<1> QED
  BY TypesStart, <1>1, <1>2, PTL DEF TypesSpec
-----------------------------------------------------------------------------
(* Types come from above: what is above a parent is above its child.        *)

LEMMA AboveSelf == ASSUME NEW i \in Image PROVE i \in Above(i)
BY DEF Above

LEMMA AboveParent ==
    ASSUME NEW i \in Image, NEW c \in RangeOf(graph.parts[i])
    PROVE  Origins(i) \subseteq Origins(c)
<1>1. ASSUME NEW j \in Above(i) PROVE j \in Above(c)
  <2>1. SUFFICES ASSUME NEW S \in SUBSET Image, c \in S, UpClosed(S) PROVE j \in S
    BY DEF Above
  <2>2. i \in S
    BY <2>1 DEF UpClosed
  <2> QED
    BY <1>1, <2>1, <2>2 DEF Above
<1> QED
  BY <1>1 DEF Origins

NamedInv ==
    /\ \A i \in Image : type[i] # NoType => type[i] \in Origins(i)
    /\ clash \subseteq Image
    /\ \A i \in clash : \E s, t \in Origins(i) : s # t

LEMMA NamedStep == ASSUME TypesOK, NamedInv, [TypesNext]_typesVars PROVE NamedInv'
<1>1. UNCHANGED graph
  BY DEF TypesNext, typesVars, ParseImage, ParseDone, NextImage, GiveType, HasType, Conflict,
         PropagateDone, Setup, AllSetUp
<1>2. \A i : Origins(i)' = Origins(i)
  BY <1>1 DEF Origins, Above, UpClosed, Given
<1>3. type \in [Image -> Sections \cup {NoType}]
  BY DEF TypesOK
<1>4. ~AtEnd => This \in Image
  BY DEF TypesOK, List, AtEnd, This
<1>5. HasPart => This \in Image /\ Child \in RangeOf(graph.parts[This]) /\ Child \in Image
  BY <1>4 DEF HasPart, Child, RangeOf, TypesOK, List
<1>6. CASE UNCHANGED <<type, clash>>
  BY <1>2, <1>6 DEF NamedInv
<1>7. CASE ParseImage
  <2>1. This \in Image /\ type' = [type EXCEPT ![This] = Given(This)] /\ clash' = clash
    BY <1>4, <1>7 DEF ParseImage
  <2>2. Given(This) # NoType => Given(This) \in Origins(This)
    BY <2>1, AboveSelf DEF Origins
  <2>3. \A i \in Image : type'[i] = IF i = This THEN Given(This) ELSE type[i]
    BY <1>3, <2>1
  <2> QED
    BY <1>2, <2>1, <2>2, <2>3 DEF NamedInv
<1>8. CASE GiveType
  <2>1. /\ HasPart /\ type[This] # NoType /\ clash' = clash
        /\ type' = [type EXCEPT ![Child] = type[This]]
    BY <1>8 DEF GiveType, Receives
  <2>2. type[This] \in Origins(Child)
    BY <1>5, <2>1, AboveParent DEF NamedInv
  <2>3. \A i \in Image : type'[i] = IF i = Child THEN type[This] ELSE type[i]
    BY <1>3, <2>1
  <2> QED
    BY <1>2, <2>1, <2>2, <2>3 DEF NamedInv
<1>9. CASE Conflict
  <2>1. /\ HasPart /\ type[This] # NoType /\ type[Child] # NoType /\ type[Child] # type[This]
        /\ clash' = {Child} /\ type' = type
    BY <1>9 DEF Conflict, Receives, Same
  <2>2. type[This] \in Origins(Child) /\ type[Child] \in Origins(Child)
    BY <1>5, <2>1, AboveParent DEF NamedInv
  <2> QED
    BY <1>2, <1>5, <2>1, <2>2 DEF NamedInv
<1> QED
  BY <1>6, <1>7, <1>8, <1>9
     DEF TypesNext, ParseDone, NextImage, HasType, PropagateDone, Setup, AllSetUp, typesVars

(* No order of the list makes up a type: one that an image has was named    *)
(* above it in the graph, and a conflict is one between two such names      *)
(* (set_flash_type).                                                        *)
THEOREM TypesAreNamedHolds ==
    TypesSpec => []TypesAreNamed
<1>1. TypesInit => TypesInv /\ NamedInv
  <2> SUFFICES ASSUME TypesInit PROVE TypesInv /\ NamedInv
    OBVIOUS
  <2>1. NamedInv
    BY DEF TypesInit, NamedInv
  <2> QED
    BY <2>1, TypesStart
<1>2. TypesInv /\ NamedInv /\ [TypesNext]_typesVars => (TypesInv /\ NamedInv)'
  BY TypesStep, NamedStep DEF TypesInv
<1>3. TypesInv /\ NamedInv => TypesAreNamed
  BY DEF TypesInv, GivenInv, NamedInv, TypesAreNamed, Images
<1> QED
  BY <1>1, <1>2, <1>3, PTL DEF TypesSpec

=============================================================================
