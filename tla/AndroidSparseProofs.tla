------------------------- MODULE AndroidSparseProofs ------------------------
(***************************************************************************)
(* Theorems about AndroidSparse, for every file, block size and limit.     *)
(*                                                                         *)
(* MergeInv is what the loop over the extents has made of those it has     *)
(* passed; PlaceInv where the writer is among them; FileInv what the       *)
(* chunks in the output file stand for, with the header of the open chunk  *)
(* as it will be.                                                          *)
(***************************************************************************)
EXTENDS AndroidSparse, SequenceTheorems, FiniteSetTheorems, WellFoundedInduction, TLAPS

\* The begin of the b-th block, and its words, zero behind the end of the file
WordOf(at) == IF at <= Length THEN input.words[at] ELSE 0
BlockOf(b) == [w \in 1..BlockSize |-> WordOf((b - 1) * BlockSize + w)]
FirstBlocks(k) == [b \in 1..k |-> BlockOf(b)]

\* An extent that has been widened, and is not removed
Wide(x) ==
    /\ x[1] < x[2] /\ x[2] <= Length
    /\ x[1] % BlockSize = 0
    /\ x[2] % BlockSize = 0 \/ x[2] = Length

\* An extent as it was mapped
Plain(x) == x[1] < x[2] /\ x[1] < Length

Writing == pc \in {"extent", "block", "tail"}
Passed == {n \in DOMAIN extents : IF pc = "merge" THEN n < e ELSE Writing}
Left == {n \in DOMAIN extents : pc = "merge" /\ n >= e}

WideInv ==
    /\ \A n \in Passed : Wide(extents[n]) \/ extents[n] = <<0, 0>>
    /\ Length > 0 /\ 1 \in Passed => Wide(extents[1])
PlainInv ==
    /\ \A n \in Left : Plain(extents[n]) \/ (Length = 0 /\ extents = Whole)
    /\ \A m, n \in Left : m < n => extents[m][2] <= extents[n][1]
ApartInv ==
    \A m, n \in Passed :
        m < n /\ Wide(extents[m]) /\ Wide(extents[n]) => extents[m][2] < extents[n][1]
AheadInv ==
    \A m \in Passed, n \in Left :
        /\ extents[m][1] <= Widened(extents[n])[1]
        /\ extents[m][2] <= Widened(extents[n])[2]
\* The extents hold all data of the file.
DataInv ==
    pc = "merge" \/ Writing =>
        \A w \in DOMAIN input.words :
            input.words[w] # 0 => \E n \in DOMAIN extents : Holds(extents[n], w)

MergeInv == /\ input \in Inputs /\ WideInv /\ PlainInv /\ ApartInv /\ AheadInv
            /\ DataInv

-----------------------------------------------------------------------------
\* Chunk ch stands for the blocks behind the k-th up to the l-th.
Gives(ch, k, l) ==
    k <= l /\ Expanded(ch) = [b \in 1..(l - k) |-> BlockOf(k + b)]

\* c[n] is the number of blocks that the first n chunks stand for.
Stands(f, c) == \A n \in 1..Len(f) : Gives(f[n], c[n - 1], c[n])
Expands(f, k) ==
    \E c \in [0..Len(f) -> Nat] : c[0] = 0 /\ c[Len(f)] = k /\ Stands(f, c)

\* A chunk whose header is right
Right(ch) ==
    /\ ch.type # "none"
    /\ ch.type = "raw" => ch.blocks = Len(ch.body) /\ ch.blocks \in 1..MaxRawBlocks
    /\ ch.type = "fill" => ch.blocks > 0 /\ Len(ch.body) = 1 /\ Len(ch.body[1]) = 1
    /\ ch.type = "skip" => ch.blocks > 0
    /\ ch.type = "crc" => ch.body = Padded

Written == pc \in {"crc", "header"} \/ Done

\* The file as it is when the open chunk is complete
Final == IF pc = "block" THEN Flushed(out) ELSE out
Covered == IF pc = "block" THEN Blocks(from) ELSE IF Written THEN BlockCount ELSE block

EarlyInv ==
    /\ pc = "map" => e = 1
    /\ pc \in {"map", "merge"} =>
          out = <<>> /\ crc = <<>> /\ chunks = 0 /\ block = 0

PlaceInv ==
    /\ Writing =>
         /\ block <= BlockCount
         /\ \A n \in DOMAIN extents :
              Wide(extents[n]) => IF n < e THEN extents[n][2] <= block * BlockSize
                                  ELSE block * BlockSize <= extents[n][1]
    /\ pc = "block" =>
         /\ e \in DOMAIN extents /\ Wide(extents[e])
         /\ from + size = extents[e][2] /\ extents[e][1] <= from
         /\ size > 0 => from % BlockSize = 0
    /\ pc = "tail" => e > Len(extents)

OpenInv ==
    pc = "block" =>
        \/ chunk.type = "none"
        \/ /\ chunk.type \in {"raw", "fill"}
           /\ Len(out) > 0 /\ out[Len(out)].type = chunk.type

FileInv ==
    Writing \/ Written =>
        /\ Expands(Final, Covered)
        /\ crc = FirstBlocks(Covered)
        /\ \A n \in DOMAIN Final : Right(Final[n])
        /\ chunks = Len(out)

HeaderInv == Done => header = Len(out)

IInv == /\ TypeOK /\ MergeInv /\ EarlyInv /\ PlaceInv /\ OpenInv /\ FileInv /\ HeaderInv

-----------------------------------------------------------------------------
(* Arithmetic *)

LEMMA Multiples ==
    ASSUME NEW k \in Nat, NEW l \in Nat
    PROVE  /\ k * BlockSize \in Nat /\ (k + 1) * BlockSize = k * BlockSize + BlockSize
           /\ k <= l => k * BlockSize <= l * BlockSize
           /\ k < l => k * BlockSize + BlockSize <= l * BlockSize
<1> DEFINE B == BlockSize
<1>0. B \in Nat \ {0}
  BY ConstantsType
<1> HIDE DEF B
<1>1. \A x \in Nat, y \in Nat : x * y \in Nat
  BY Z3
<1>2. (k + 1) * B = k * B + B
  BY <1>0, Z3
<1>3. ASSUME NEW d \in Nat, l = k + d PROVE l * B = k * B + d * B
  BY <1>0, <1>3, Z3
<1>4. ASSUME k <= l PROVE k * B <= l * B
  <2>1. l - k \in Nat /\ l = k + (l - k)
    BY <1>4
  <2>2. l * B = k * B + (l - k) * B
    BY <1>3, <2>1
  <2>3. (l - k) * B \in Nat /\ k * B \in Nat
    BY <1>0, <1>1, <2>1
  <2> QED
    BY <2>2, <2>3
<1>5. ASSUME k < l PROVE k * B + B <= l * B
  <2>1. l - (k + 1) \in Nat /\ l = (k + 1) + (l - (k + 1))
    BY <1>5
  <2> DEFINE d == l - (k + 1)
  <2>2. d \in Nat /\ d * B \in Nat /\ k * B \in Nat /\ (k + 1) * B \in Nat
    BY <1>0, <1>1, <2>1
  <2>3. l * B = (k + 1) * B + d * B
    <3>1. l = (k + 1) + d
      BY <2>1
    <3> HIDE DEF d
    <3> QED
      BY <1>0, <2>2, <3>1, Z3
  <2> HIDE DEF d
  <2> QED
    BY <1>0, <1>2, <2>2, <2>3
<1>6. k * B \in Nat
  BY <1>0, <1>1
<1> QED
  BY <1>2, <1>4, <1>5, <1>6 DEF B

LEMMA Below ==
    ASSUME NEW n \in Nat
    PROVE  /\ n \div BlockSize \in Nat
           /\ (n \div BlockSize) * BlockSize <= n
           /\ n < (n \div BlockSize) * BlockSize + BlockSize
           /\ n % BlockSize = 0 => (n \div BlockSize) * BlockSize = n
BY ConstantsType, Z3

LEMMA Above ==
    ASSUME NEW n \in Nat
    PROVE  /\ Blocks(n) \in Nat
           /\ n <= Blocks(n) * BlockSize
           /\ Blocks(n) * BlockSize < n + BlockSize
<1>1. n - 1 + BlockSize \in Nat /\ BlockSize \in Nat
  BY ConstantsType
<1> DEFINE k == (n - 1 + BlockSize) \div BlockSize
<1>2. k \in Nat /\ k * BlockSize <= n - 1 + BlockSize
      /\ n - 1 + BlockSize < k * BlockSize + BlockSize
  BY <1>1, Below
<1>3. k * BlockSize \in Nat
  BY <1>2, Multiples
<1> HIDE DEF k
<1> QED
  BY <1>1, <1>2, <1>3 DEF Blocks, k

\* Between two multiples there is nothing.
LEMMA Between ==
    ASSUME NEW k \in Nat, NEW l \in Nat, k * BlockSize < l * BlockSize + BlockSize
    PROVE  k <= l
<1>1. ASSUME l < k PROVE FALSE
  <2>1. l * BlockSize + BlockSize <= k * BlockSize /\ l * BlockSize \in Nat
        /\ k * BlockSize \in Nat
    BY <1>1, Multiples
  <2> QED
    BY <2>1, ConstantsType
<1> QED
  BY <1>1

LEMMA BlocksIs ==
    ASSUME NEW n \in Nat, NEW k \in Nat,
           n <= k * BlockSize, k * BlockSize < n + BlockSize
    PROVE  Blocks(n) = k
<1> DEFINE b == Blocks(n)
<1>1. /\ b \in Nat /\ n <= b * BlockSize /\ b * BlockSize < n + BlockSize
      /\ b * BlockSize \in Nat /\ k * BlockSize \in Nat /\ BlockSize \in Nat
  BY Above, Multiples, ConstantsType
<1> HIDE DEF b
<1>2. b * BlockSize < k * BlockSize + BlockSize /\ k * BlockSize < b * BlockSize + BlockSize
  BY <1>1
<1>3. b <= k /\ k <= b
  BY <1>1, <1>2, Between
<1> QED
  BY <1>1, <1>3 DEF b

LEMMA Exact ==
    ASSUME NEW n \in Nat, n % BlockSize = 0
    PROVE  /\ Blocks(n) * BlockSize = n /\ Blocks(n) = n \div BlockSize
<1>1. n \div BlockSize \in Nat /\ (n \div BlockSize) * BlockSize = n
  BY Below
<1>2. n < n + BlockSize
  BY ConstantsType
<1>3. Blocks(n) = n \div BlockSize
  BY <1>1, <1>2, BlocksIs
<1> QED
  BY <1>1, <1>3

LEMMA MultipleMod ==
    ASSUME NEW k \in Nat
    PROVE  (k * BlockSize) % BlockSize = 0
<1> DEFINE n == k * BlockSize
           q == n \div BlockSize
           r == n % BlockSize
<1>1. n \in Nat /\ BlockSize \in Nat \ {0}
  BY Multiples, ConstantsType
<1>2. q \in Nat /\ q * BlockSize <= n /\ n < q * BlockSize + BlockSize
  BY <1>1, Below
<1>3. q * BlockSize < k * BlockSize + BlockSize
  <2>1. q * BlockSize \in Nat
    BY <1>2, Multiples
  <2> HIDE DEF q
  <2> QED
    BY <1>1, <1>2, <2>1
<1>4. q <= k /\ k <= q
  BY <1>2, <1>3, Between
<1>5. n = q * BlockSize
  BY <1>2, <1>4
<1>6. r = n - q * BlockSize
  BY <1>1, Z3
<1> QED
  BY <1>1, <1>5, <1>6

LEMMA Rising ==
    ASSUME NEW m \in Nat, NEW n \in Nat, m <= n
    PROVE  /\ Blocks(m) <= Blocks(n) /\ m \div BlockSize <= n \div BlockSize
<1>1. /\ Blocks(m) \in Nat /\ Blocks(n) \in Nat
      /\ n <= Blocks(n) * BlockSize /\ Blocks(m) * BlockSize < m + BlockSize
      /\ Blocks(n) * BlockSize \in Nat /\ Blocks(m) * BlockSize \in Nat
      /\ BlockSize \in Nat
  BY Above, Multiples, ConstantsType
<1>2. Blocks(m) * BlockSize < Blocks(n) * BlockSize + BlockSize
  BY <1>1
<1> DEFINE a == m \div BlockSize
           b == n \div BlockSize
<1>3. /\ a \in Nat /\ b \in Nat /\ a * BlockSize <= m
      /\ n < b * BlockSize + BlockSize
  BY Below
<1>4. a * BlockSize \in Nat /\ b * BlockSize \in Nat
  BY <1>3, Multiples
<1> HIDE DEF a, b
<1>5. a * BlockSize < b * BlockSize + BlockSize
  BY <1>1, <1>3, <1>4
<1> QED
  BY <1>1, <1>2, <1>3, <1>5, Between DEF a, b

-----------------------------------------------------------------------------
(* Sequences of blocks *)

\* A set of natural numbers has a least element.
LEMMA Least ==
    ASSUME NEW T \in SUBSET Nat, T # {}
    PROVE  \E x \in T : \A y \in T : x <= y
<1> DEFINE R == {ss \in Nat \X Nat : ss[1] < ss[2]}
<1>1. IsWellFoundedOn(R, Nat)
  BY NatLessThanWellFounded DEF OpToRel
<1>2. PICK x \in T : \A y \in T : ~(<<y, x>> \in R)
  <2> HIDE DEF R
  <2> QED
    BY <1>1, WFMin
<1>3. ASSUME NEW y \in T PROVE x <= y
  <2>1. ~(<<y, x>> \in R) /\ x \in Nat /\ y \in Nat
    BY <1>2
  <2>2. ~(y < x)
    BY <2>1
  <2> QED
    BY <2>1, <2>2
<1> QED
  BY <1>3

\* What one step of FlattenSeq makes of the ones before it.
Joined(ss, f, i) == IF i = 1 THEN ss[i] ELSE f[i - 1] \o ss[i]

\* The recursive function in FlattenSeq is defined: the least number up to
\* which it were not could be reached from the one before it.
LEMMA JoinedExists ==
    ASSUME NEW ss, NEW n \in Nat
    PROVE  \E f : f = [i \in 1..n |-> Joined(ss, f, i)]
<1> DEFINE Ex(k) == \E f : f = [i \in 1..k |-> Joined(ss, f, i)]
           T == {k \in Nat : ~Ex(k)}
<1>1. SUFFICES ASSUME T # {} PROVE FALSE
  OBVIOUS
<1>2. PICK k \in T : \A l \in T : k <= l
  BY <1>1, Least
<1>3. Ex(0)
  <2> DEFINE f == [i \in {} |-> 0]
  <2>1. 1..0 = {}
    OBVIOUS
  <2>2. f = [i \in 1..0 |-> Joined(ss, f, i)]
    BY <2>1
  <2> QED
    BY <2>2
<1>4. k \in Nat /\ k # 0 /\ k - 1 \in Nat /\ k - 1 \notin T
  <2>1. k \in Nat /\ k # 0
    BY <1>2, <1>3
  <2>2. k - 1 \in Nat /\ ~(k <= k - 1)
    BY <2>1
  <2> HIDE DEF T
  <2> QED
    BY <1>2, <2>1, <2>2
<1>5. PICK f : f = [i \in 1..(k - 1) |-> Joined(ss, f, i)]
  BY <1>4
<1> DEFINE g == [i \in 1..k |-> IF i = k THEN Joined(ss, f, k) ELSE f[i]]
<1>6. ASSUME NEW i \in 1..k PROVE g[i] = Joined(ss, g, i)
  <2>1. i # 1 => i - 1 \in 1..k /\ g[i - 1] = f[i - 1]
    BY <1>4
  <2>2. Joined(ss, g, i) = Joined(ss, f, i)
    BY <2>1 DEF Joined
  <2>3. i # k => i \in 1..(k - 1)
    BY <1>4
  <2>4. i # k => f[i] = Joined(ss, f, i)
    BY <1>5, <2>3
  <2> QED
    BY <2>2, <2>4
<1>7. g = [i \in 1..k |-> Joined(ss, g, i)]
  BY <1>6
<1> HIDE DEF g
<1> QED
  BY <1>2, <1>7

LEMMA BlockType ==
    ASSUME TypeOK, NEW b \in Nat \ {0}
    PROVE  /\ BlockOf(b) \in Seq(Nat) /\ Len(BlockOf(b)) = BlockSize
           /\ \A w \in 1..BlockSize : BlockOf(b)[w] = WordOf((b - 1) * BlockSize + w)
<1>1. input.words \in Seq(Nat) /\ BlockSize \in Nat
  BY ConstantsType DEF TypeOK, Input
<1>2. ASSUME NEW w \in 1..BlockSize PROVE WordOf((b - 1) * BlockSize + w) \in Nat
  <2>1. b - 1 \in Nat
    OBVIOUS
  <2>2. (b - 1) * BlockSize \in Nat
    BY <2>1, Multiples
  <2> DEFINE at == (b - 1) * BlockSize + w
  <2>3. at \in Nat \ {0}
    BY <1>1, <2>2
  <2> HIDE DEF at
  <2>4. WordOf(at) \in Nat
    BY <1>1, <2>3 DEF WordOf, Length
  <2> QED
    BY <2>4 DEF at
<1> QED
  BY <1>1, <1>2 DEF BlockOf

LEMMA FirstType ==
    ASSUME TypeOK, NEW k \in Nat
    PROVE  /\ FirstBlocks(k) \in Seq(Seq(Nat)) /\ Len(FirstBlocks(k)) = k
           /\ \A b \in 1..k : FirstBlocks(k)[b] = BlockOf(b)
<1>1. \A b \in 1..k : BlockOf(b) \in Seq(Nat)
  BY BlockType
<1> QED
  BY <1>1 DEF FirstBlocks

\* The elements of two sequences that are joined
LEMMA JoinIs ==
    ASSUME NEW S, NEW a \in Seq(S), NEW b \in Seq(S), NEW c \in Seq(S),
           Len(c) = Len(a) + Len(b),
           \A n \in 1..Len(a) : c[n] = a[n],
           \A n \in 1..Len(b) : c[Len(a) + n] = b[n]
    PROVE  a \o b = c
<1> DEFINE d == a \o b
<1>1. /\ d \in Seq(S) /\ Len(d) = Len(a) + Len(b)
      /\ \A n \in 1..(Len(a) + Len(b)) :
            d[n] = IF n <= Len(a) THEN a[n] ELSE b[n - Len(a)]
  BY ConcatProperties
<1> HIDE DEF d
<1>2. ASSUME NEW n \in 1..Len(c) PROVE d[n] = c[n]
  <2>1. CASE n <= Len(a)
    BY <1>1, <2>1
  <2>2. CASE n > Len(a)
    <3>1. n - Len(a) \in 1..Len(b) /\ Len(a) + (n - Len(a)) = n
      BY <2>2
    <3>2. c[Len(a) + (n - Len(a))] = b[n - Len(a)]
      BY <3>1
    <3> QED
      BY <1>1, <2>2, <3>1, <3>2
  <2> QED
    BY <2>1, <2>2
<1>3. d = c
  BY <1>1, <1>2, SeqEqual
<1> QED
  BY <1>3 DEF d

LEMMA AppendOther ==
    ASSUME NEW S, NEW g \in Seq(S), NEW c \in S, NEW d \in S
    PROVE  [Append(g, c) EXCEPT ![Len(g) + 1] = d] = Append(g, d)
<1> DEFINE a == [Append(g, c) EXCEPT ![Len(g) + 1] = d]
           b == Append(g, d)
<1>1. Append(g, c) \in Seq(S) /\ Len(Append(g, c)) = Len(g) + 1 /\ Len(g) \in Nat
      /\ \A n \in 1..Len(g) : Append(g, c)[n] = g[n]
  OBVIOUS
<1>2. b \in Seq(S) /\ Len(b) = Len(g) + 1 /\ b[Len(g) + 1] = d
      /\ \A n \in 1..Len(g) : b[n] = g[n]
  OBVIOUS
<1>3. a \in Seq(S) /\ Len(a) = Len(g) + 1 /\ a[Len(g) + 1] = d
      /\ \A n \in 1..Len(g) : a[n] = Append(g, c)[n]
  <2>1. PICK h \in Seq(S) : h = Append(g, c)
    BY <1>1
  <2>2. Len(h) = Len(g) + 1 /\ Len(g) + 1 \in 1..Len(h)
    BY <1>1, <2>1
  <2>3. a = [h EXCEPT ![Len(g) + 1] = d]
    BY <2>1
  <2> HIDE DEF a
  <2>4. /\ a \in Seq(S) /\ Len(a) = Len(h) /\ a[Len(g) + 1] = d
        /\ \A n \in 1..Len(h) : n # Len(g) + 1 => a[n] = h[n]
    BY <2>2, <2>3
  <2>5. \A n \in 1..Len(g) : n \in 1..Len(h) /\ n # Len(g) + 1
    BY <1>1, <2>2
  <2> QED
    BY <2>1, <2>2, <2>4, <2>5
<1> HIDE DEF a, b
<1>4. ASSUME NEW n \in 1..Len(a) PROVE a[n] = b[n]
  <2>1. n = Len(g) + 1 \/ n \in 1..Len(g)
    BY <1>1, <1>3
  <2> QED
    BY <1>1, <1>2, <1>3, <2>1
<1>5. a = b
  BY <1>2, <1>3, <1>4, SeqEqual
<1> QED
  BY <1>5 DEF a, b

LEMMA FirstJoin ==
    ASSUME TypeOK, NEW k \in Nat, NEW l \in Nat, k <= l
    PROVE  FirstBlocks(k) \o [b \in 1..(l - k) |-> BlockOf(k + b)] = FirstBlocks(l)
<1>1. PICK more : more = [b \in 1..(l - k) |-> BlockOf(k + b)]
  OBVIOUS
<1>2. PICK a : a = FirstBlocks(k)
  OBVIOUS
<1>3. PICK c : c = FirstBlocks(l)
  OBVIOUS
<1>4. more \in Seq(Seq(Nat)) /\ Len(more) = l - k
      /\ \A b \in 1..(l - k) : more[b] = BlockOf(k + b)
  <2>1. \A b \in 1..(l - k) : BlockOf(k + b) \in Seq(Nat)
    BY BlockType
  <2>2. l - k \in Nat
    OBVIOUS
  <2> QED
    BY <1>1, <2>1, <2>2
<1>5. /\ a \in Seq(Seq(Nat)) /\ Len(a) = k /\ \A b \in 1..k : a[b] = BlockOf(b)
      /\ c \in Seq(Seq(Nat)) /\ Len(c) = l /\ \A b \in 1..l : c[b] = BlockOf(b)
  BY <1>2, <1>3, FirstType
<1>6. ASSUME NEW b \in 1..k PROVE c[b] = a[b]
  <2>1. b \in 1..l
    OBVIOUS
  <2> QED
    BY <1>5, <2>1
<1>7. ASSUME NEW b \in 1..(l - k) PROVE c[k + b] = more[b]
  <2>1. k + b \in 1..l
    OBVIOUS
  <2> QED
    BY <1>4, <1>5, <2>1
<1>8. Len(c) = Len(a) + Len(more)
  BY <1>4, <1>5
<1>9. a \o more = c
  <2>1. /\ \A b \in 1..Len(a) : c[b] = a[b]
        /\ \A b \in 1..Len(more) : c[Len(a) + b] = more[b]
    BY <1>4, <1>5, <1>6, <1>7
  <2> HIDE <1>6, <1>7
  <2> QED
    BY <1>4, <1>5, <1>8, <2>1, JoinIs
<1> QED
  BY <1>1, <1>2, <1>3, <1>9

LEMMA FirstAppend ==
    ASSUME TypeOK, NEW k \in Nat
    PROVE  Append(FirstBlocks(k), BlockOf(k + 1)) = FirstBlocks(k + 1)
<1>1. PICK a : a = FirstBlocks(k)
  OBVIOUS
<1>2. PICK c : c = FirstBlocks(k + 1)
  OBVIOUS
<1>3. PICK x : x = BlockOf(k + 1)
  OBVIOUS
<1>4. /\ a \in Seq(Seq(Nat)) /\ Len(a) = k /\ \A b \in 1..k : a[b] = BlockOf(b)
      /\ c \in Seq(Seq(Nat)) /\ Len(c) = k + 1 /\ \A b \in 1..(k + 1) : c[b] = BlockOf(b)
      /\ x \in Seq(Nat)
  <2>1. k + 1 \in Nat \ {0} /\ k + 1 \in Nat
    OBVIOUS
  <2>2. x \in Seq(Nat)
    BY <1>3, <2>1, BlockType
  <2>3. a \in Seq(Seq(Nat)) /\ Len(a) = k /\ \A b \in 1..k : a[b] = BlockOf(b)
    BY <1>1, FirstType
  <2>4. c \in Seq(Seq(Nat)) /\ Len(c) = k + 1
        /\ \A b \in 1..(k + 1) : c[b] = BlockOf(b)
    BY <1>2, <2>1, FirstType
  <2> QED
    BY <2>2, <2>3, <2>4
<1>5. ASSUME NEW b \in 1..(k + 1) PROVE Append(a, x)[b] = c[b]
  <2>1. CASE b = k + 1
    BY <1>3, <1>4, <2>1
  <2>2. CASE b # k + 1
    <3>1. b \in 1..k
      BY <2>2
    <3>2. Append(a, x)[b] = a[b]
      BY <1>4, <3>1
    <3> QED
      BY <1>4, <3>1, <3>2
  <2> QED
    BY <2>1, <2>2
<1>6. Append(a, x) \in Seq(Seq(Nat)) /\ Len(Append(a, x)) = k + 1
  BY <1>4
<1>7. Append(a, x) = c
  BY <1>4, <1>5, <1>6, SeqEqual
<1> QED
  BY <1>1, <1>2, <1>3, <1>7

-----------------------------------------------------------------------------
(* Chunks and what they stand for                                           *)

LEMMA ExpandsNone == Expands(<<>>, 0)
<1> DEFINE c == [n \in 0..0 |-> 0]
<1>1. c \in [0..Len(<<>>) -> Nat] /\ c[0] = 0 /\ c[Len(<<>>)] = 0
  OBVIOUS
<1>2. Stands(<<>>, c)
  BY DEF Stands
<1> HIDE DEF c
<1> QED
  BY <1>1, <1>2 DEF Expands

LEMMA ExpandsMore ==
    ASSUME NEW f \in Seq(Chunk), NEW k \in Nat, NEW l \in Nat, NEW ch \in Chunk,
           Expands(f, k), Gives(ch, k, l)
    PROVE  Expands(Append(f, ch), l)
<1>1. PICK c \in [0..Len(f) -> Nat] : c[0] = 0 /\ c[Len(f)] = k /\ Stands(f, c)
  BY DEF Expands
<1> DEFINE g == Append(f, ch)
           d == [n \in 0..(Len(f) + 1) |-> IF n <= Len(f) THEN c[n] ELSE l]
<1>2. Len(g) = Len(f) + 1 /\ \A n \in 1..Len(f) : g[n] = f[n]
  OBVIOUS
<1>3. g[Len(f) + 1] = ch
  OBVIOUS
<1>4. d \in [0..Len(g) -> Nat] /\ d[0] = 0 /\ d[Len(g)] = l
  BY <1>1, <1>2
<1>5. ASSUME NEW n \in 1..Len(f) PROVE d[n] = c[n] /\ d[n - 1] = c[n - 1]
  OBVIOUS
<1>6. d[Len(f) + 1] = l /\ d[(Len(f) + 1) - 1] = k
  BY <1>1
<1> HIDE DEF d, g
<1>7. ASSUME NEW n \in 1..Len(g) PROVE Gives(g[n], d[n - 1], d[n])
  <2>1. CASE n = Len(f) + 1
    BY <1>3, <1>6, <2>1
  <2>2. CASE n # Len(f) + 1
    <3>1. n \in 1..Len(f)
      BY <1>2, <2>2
    <3>2. Gives(f[n], c[n - 1], c[n])
      BY <1>1, <3>1 DEF Stands
    <3> QED
      BY <1>2, <1>5, <3>1, <3>2
  <2> QED
    BY <2>1, <2>2
<1>8. Stands(g, d)
  BY <1>7 DEF Stands
<1>9. Expands(g, l)
  BY <1>4, <1>8 DEF Expands
<1> QED
  BY <1>9 DEF g

\* A chunk at the end that stands for the same blocks and maybe more
LEMMA ExpandsLast ==
    ASSUME NEW f \in Seq(Chunk), NEW k \in Nat, NEW l \in Nat, NEW ch \in Chunk,
           Len(f) > 0, Expands(f, k),
           \A i \in Nat : Gives(f[Len(f)], i, k) => Gives(ch, i, l)
    PROVE  Expands([f EXCEPT ![Len(f)] = ch], l)
<1>1. PICK c \in [0..Len(f) -> Nat] : c[0] = 0 /\ c[Len(f)] = k /\ Stands(f, c)
  BY DEF Expands
<1> DEFINE g == [f EXCEPT ![Len(f)] = ch]
           d == [c EXCEPT ![Len(f)] = l]
<1>2. /\ Len(g) = Len(f) /\ g[Len(f)] = ch /\ Len(f) \in Nat \ {0}
      /\ \A n \in 1..Len(f) : n # Len(f) => g[n] = f[n]
  OBVIOUS
<1>3. d \in [0..Len(g) -> Nat] /\ d[0] = 0 /\ d[Len(g)] = l
  BY <1>1, <1>2
<1>4. ASSUME NEW n \in 1..Len(f)
      PROVE  n - 1 \in 0..Len(f) /\ d[n - 1] = c[n - 1] /\ (n # Len(f) => d[n] = c[n])
  OBVIOUS
<1> HIDE DEF d, g
<1>5. ASSUME NEW n \in 1..Len(g) PROVE Gives(g[n], d[n - 1], d[n])
  <2>1. Gives(f[n], c[n - 1], c[n])
    BY <1>1, <1>2 DEF Stands
  <2>2. c[n - 1] \in Nat
    BY <1>2, <1>4
  <2>3. CASE n = Len(f)
    BY <1>1, <1>2, <1>3, <1>4, <2>1, <2>2, <2>3
  <2>4. CASE n # Len(f)
    BY <1>2, <1>4, <2>1, <2>4
  <2> QED
    BY <2>3, <2>4
<1>6. Stands(g, d)
  BY <1>5 DEF Stands
<1>7. Expands(g, l)
  BY <1>3, <1>6 DEF Expands
<1> QED
  BY <1>7 DEF g

(* A reader of the file gets the blocks that the chunks stand for.          *)
LEMMA AllExpanded ==
    ASSUME TypeOK, NEW k \in Nat, Expands(out, k)
    PROVE  ExpandedAll = FirstBlocks(k)
<1> DEFINE n == Len(out)
<1>1. PICK c \in [0..n -> Nat] : c[0] = 0 /\ c[n] = k /\ Stands(out, c)
  BY DEF Expands
<1>2. PICK ss : ss = [i \in DOMAIN out |-> Expanded(out[i])]
  OBVIOUS
<1>3. n \in Nat /\ DOMAIN out = 1..n
  BY DEF TypeOK
<1>4. DOMAIN ss = 1..n /\ Len(ss) = n /\ \A i \in 1..n : ss[i] = Expanded(out[i])
  <2>1. ss = [i \in 1..n |-> Expanded(out[i])]
    BY <1>2, <1>3
  <2> HIDE DEF n
  <2> QED
    BY <1>3, <2>1
<1>5. ASSUME NEW i \in 1..n
      PROVE  /\ i - 1 \in 0..n /\ i \in 0..n /\ c[i - 1] <= c[i]
             /\ ss[i] = [b \in 1..(c[i] - c[i - 1]) |-> BlockOf(c[i - 1] + b)]
  <2>1. i - 1 \in 0..n /\ i \in 0..n
    BY <1>3
  <2>2. Gives(out[i], c[i - 1], c[i])
    BY <1>1 DEF Stands
  <2> QED
    BY <1>4, <2>1, <2>2 DEF Gives
<1>6. ASSUME NEW i \in 1..n PROVE FirstBlocks(c[i - 1]) \o ss[i] = FirstBlocks(c[i])
  <2>1. c[i - 1] \in Nat /\ c[i] \in Nat /\ c[i - 1] <= c[i]
    BY <1>1, <1>5
  <2> QED
    BY <1>5, <2>1, FirstJoin
<1> HIDE DEF n
<1>7. CASE n = 0
  <2>1. FlattenSeq(ss) = ss
    BY <1>4, <1>7 DEF FlattenSeq
  <2>2. ss = [i \in 1..0 |-> Expanded(out[i])]
    BY <1>2, <1>3, <1>7
  <2>3. FirstBlocks(0) = <<>>
    BY DEF FirstBlocks
  <2>4. ss = <<>>
    BY <2>2
  <2> QED
    BY <1>1, <1>2, <1>7, <2>1, <2>3, <2>4 DEF ExpandedAll
<1>8. CASE n # 0
  <2> DEFINE f == CHOOSE f : f = [i \in 1..n |-> IF i = 1 THEN ss[i] ELSE f[i - 1] \o ss[i]]
             Good(i) == f[i] = FirstBlocks(c[i])
             T == {i \in 1..n : ~Good(i)}
  <2>1. FlattenSeq(ss) = f[n]
    BY <1>4, <1>8 DEF FlattenSeq
  <2>2. f = [i \in 1..n |-> IF i = 1 THEN ss[i] ELSE f[i - 1] \o ss[i]]
    BY <1>3, JoinedExists DEF Joined
  <2>3. \A i \in 1..n : f[i] = IF i = 1 THEN ss[i] ELSE f[i - 1] \o ss[i]
    BY <2>2
  <2> HIDE DEF f
  <2>4. T = {}
    <3>1. SUFFICES ASSUME T # {} PROVE FALSE
      OBVIOUS
    <3>2. T \in SUBSET Nat
      BY <1>3
    <3>3. PICK i \in T : \A l \in T : i <= l
      BY <3>1, <3>2, Least
    <3>4. i \in 1..n /\ ~Good(i)
      BY <3>3
    <3>5. CASE i = 1
      <4>1. f[i] = ss[1]
        BY <2>3, <3>4, <3>5
      <4>2. ss[1] = [b \in 1..(c[1] - c[0]) |-> BlockOf(c[0] + b)] /\ c[1] \in Nat
        <5>1. i - 1 = 0
          BY <3>5
        <5> QED
          BY <1>1, <1>5, <3>4, <3>5, <5>1
      <4>3. ss[1] = FirstBlocks(c[1])
        <5>1. PICK x \in Nat : x = c[1]
          BY <4>2
        <5>2. x - 0 = x /\ \A b \in 1..x : 0 + b = b
          OBVIOUS
        <5>3. [b \in 1..(x - 0) |-> BlockOf(0 + b)] = [b \in 1..x |-> BlockOf(b)]
          BY <5>2
        <5> QED
          BY <1>1, <4>2, <5>1, <5>3 DEF FirstBlocks
      <4> QED
        BY <3>4, <3>5, <4>1, <4>3
    <3>6. CASE i # 1
      <4>1. i - 1 \in 1..n /\ i - 1 \notin T
        <5>1. i - 1 \in 1..n /\ ~(i <= i - 1)
          BY <1>3, <3>4, <3>6
        <5> HIDE DEF T
        <5> QED
          BY <3>3, <5>1
      <4>2. Good(i - 1)
        BY <4>1
      <4>3. f[i] = f[i - 1] \o ss[i]
        BY <2>3, <3>4, <3>6
      <4> QED
        BY <1>6, <3>4, <4>2, <4>3
    <3> QED
      BY <3>5, <3>6
  <2>5. n \in 1..n
    BY <1>3, <1>8
  <2>6. Good(n)
    BY <2>4, <2>5
  <2> QED
    BY <1>1, <1>2, <2>1, <2>6 DEF ExpandedAll
<1> QED
  BY <1>7, <1>8

-----------------------------------------------------------------------------
(* Extents                                                                  *)

LEMMA Largest ==
    ASSUME NEW T \in SUBSET Int, T # {}, NEW b \in Int, \A y \in T : y <= b
    PROVE  \E x \in T : \A y \in T : y <= x
<1> DEFINE D == {d \in Nat : b - d \in T}
<1>1. ASSUME NEW y \in T PROVE b - y \in D
  <2>1. b - y \in Nat /\ b - (b - y) = y
    BY <1>1
  <2> QED
    BY <2>1
<1>2. D # {} /\ D \subseteq Nat
  BY <1>1
<1>3. PICK d \in D : \A c \in D : d <= c
  BY <1>2, Least
<1>4. ASSUME NEW y \in T PROVE y <= b - d
  <2>1. d <= b - y /\ d \in Nat
    BY <1>1, <1>3
  <2> QED
    BY <2>1
<1>5. b - d \in T
  BY <1>3
<1> QED
  BY <1>4, <1>5

LEMMA Types ==
    ASSUME TypeOK
    PROVE  /\ input.words \in Seq(Nat) /\ Length \in Nat
           /\ input.extents \in Seq(Nat \X Nat)
           /\ BlockSize \in Nat \ {0} /\ MaxRawBlocks \in Nat \ {0}
           /\ DOMAIN input.words = 1..Length
BY ConstantsType DEF TypeOK, Input, Length

\* An extent that begins in the file, moved to the bounds of blocks
LEMMA Widens ==
    ASSUME TypeOK, NEW x \in Nat \X Nat, Plain(x)
    PROVE  /\ Widened(x) \in Nat \X Nat /\ Wide(Widened(x))
           /\ Widened(x)[1] <= x[1]
           /\ x[2] <= Widened(x)[2] \/ Widened(x)[2] = Length
<1>1. /\ x[1] \in Nat /\ x[2] \in Nat /\ Length \in Nat /\ BlockSize \in Nat
      /\ x[1] < x[2] /\ x[1] < Length
  BY Types DEF Plain
<1> DEFINE a == (x[1] \div BlockSize) * BlockSize
           z == Blocks(x[2]) * BlockSize
<1>2. /\ x[1] \div BlockSize \in Nat /\ a \in Nat /\ a <= x[1] /\ a % BlockSize = 0
  BY <1>1, Below, Multiples, MultipleMod
<1>3. /\ Blocks(x[2]) \in Nat /\ z \in Nat /\ x[2] <= z /\ z % BlockSize = 0
  BY <1>1, Above, Multiples, MultipleMod
<1>4. Widened(x) = <<a, IF z < Length THEN z ELSE Length>>
  BY DEF Widened, WideEnd, MinOf
<1> HIDE DEF a, z
<1> QED
  BY <1>1, <1>2, <1>3, <1>4 DEF Wide

LEMMA WidensInOrder ==
    ASSUME TypeOK, NEW x \in Nat \X Nat, NEW y \in Nat \X Nat, x[1] <= y[1], x[2] <= y[2]
    PROVE  Widened(x)[1] <= Widened(y)[1] /\ Widened(x)[2] <= Widened(y)[2]
<1>1. /\ x[1] \in Nat /\ x[2] \in Nat /\ y[1] \in Nat /\ y[2] \in Nat /\ Length \in Nat
  BY Types
<1>2. /\ x[1] \div BlockSize \in Nat /\ y[1] \div BlockSize \in Nat
      /\ Blocks(x[2]) \in Nat /\ Blocks(y[2]) \in Nat
      /\ x[1] \div BlockSize <= y[1] \div BlockSize /\ Blocks(x[2]) <= Blocks(y[2])
  BY <1>1, Below, Above, Rising
<1>3. /\ (x[1] \div BlockSize) * BlockSize <= (y[1] \div BlockSize) * BlockSize
      /\ Blocks(x[2]) * BlockSize <= Blocks(y[2]) * BlockSize
      /\ Blocks(x[2]) * BlockSize \in Nat /\ Blocks(y[2]) * BlockSize \in Nat
  BY <1>2, Multiples
<1>4. WideEnd(x) <= WideEnd(y)
  BY <1>1, <1>3 DEF WideEnd, MinOf
<1> QED
  BY <1>3, <1>4 DEF Widened

LEMMA PreviousIs ==
    ASSUME TypeOK, e \in DOMAIN extents, e > 1
    PROVE  /\ Previous(e) \in 1..(e - 1)
           /\ Previous(e) = 1 \/ extents[Previous(e)][2] # 0
           /\ \A m \in 1..(e - 1) : extents[m][2] # 0 => m <= Previous(e)
<1>1. PICK T : T = {1} \cup {m \in 2..(e - 1) : extents[m][2] # 0}
  OBVIOUS
<1>2. e \in Nat /\ T \subseteq 1..(e - 1) /\ 1 \in T
  <2>1. e \in Nat
    BY DEF TypeOK
  <2>2. 1 \in 1..(e - 1) /\ \A m \in 2..(e - 1) : m \in 1..(e - 1)
    BY <2>1
  <2> QED
    BY <1>1, <2>1, <2>2
<1>3. T \in SUBSET Int /\ T # {} /\ e \in Int /\ \A y \in T : y <= e
  BY <1>2
<1>4. PICK x \in T : \A y \in T : y <= x
  BY <1>3, Largest
<1>5. \A y \in T : x >= y
  BY <1>2, <1>4
<1>6. Max(T) \in T /\ \A y \in T : Max(T) >= y
  BY <1>5 DEF Max
<1>7. Previous(e) = Max(T)
  BY <1>1 DEF Previous
<1>8. ASSUME NEW m \in 1..(e - 1), extents[m][2] # 0 PROVE m \in T
  BY <1>1, <1>2, <1>8
<1>9. Max(T) = 1 \/ extents[Max(T)][2] # 0
  BY <1>1, <1>6
<1> QED
  BY <1>2, <1>6, <1>7, <1>8, <1>9

\* The extents have been mapped.
LEMMA MapStep ==
    ASSUME TypeOK, MergeInv, PlaceInv, EarlyInv, MapExtents, e = 1
    PROVE  MergeInv'
<1>1. /\ pc' = "merge" /\ UNCHANGED <<input, e>> /\ extents' \in Mapped /\ input \in Inputs
  BY DEF MapExtents, MergeInv, options, position
<1>2. Length' = Length /\ Length \in Nat /\ DOMAIN input.words = 1..Length
  BY <1>1, Types DEF Length
<1>3. extents' = Whole \/ extents' = input.extents
  BY <1>1 DEF Mapped
<1>4. Passed' = {} /\ Left' = DOMAIN extents'
  <2>1. DOMAIN extents' \subseteq Nat \ {0}
    <3>1. input.extents \in Seq(Nat \X Nat) /\ Whole \in Seq(Nat \X Nat)
      BY <1>2, Types DEF Whole
    <3> QED
      BY <1>3, <3>1
  <2>2. \A n \in Nat \ {0} : n >= 1 /\ ~(n < 1)
    OBVIOUS
  <2> QED
    BY <1>1, <2>1, <2>2 DEF Passed, Left, Writing
<1>5. \A n \in DOMAIN extents' :
        \/ extents'[n][1] < extents'[n][2] /\ extents'[n][1] < Length
        \/ Length = 0 /\ extents' = Whole
  <2>1. CASE extents' = Whole
    <3>1. CASE Length = 0
      BY <2>1, <3>1
    <3>2. CASE Length # 0
      BY <1>2, <2>1, <3>2 DEF Whole
    <3> QED
      BY <3>1, <3>2
  <2>2. CASE extents' = input.extents
    BY <1>1, <1>2, <2>2, ExtentsOfInput DEF Length
  <2> QED
    BY <1>3, <2>1, <2>2
<1>6. \A m, n \in DOMAIN extents' : m < n => extents'[m][2] <= extents'[n][1]
  <2>1. CASE extents' = Whole
    BY <2>1 DEF Whole
  <2>2. CASE extents' = input.extents
    BY <1>1, <2>2, ExtentsOfInput DEF InOrder
  <2> QED
    BY <1>3, <2>1, <2>2
<1>7. \A w \in DOMAIN input.words :
        input.words[w] # 0 => \E n \in DOMAIN extents' : Holds(extents'[n], w)
  <2>1. CASE extents' = Whole
    BY <1>2, <2>1 DEF Whole, Holds
  <2>2. CASE extents' = input.extents
    BY <1>1, <2>2, ExtentsOfInput
  <2> QED
    BY <1>3, <2>1, <2>2
<1>8. Whole' = Whole
  BY <1>2 DEF Whole
<1>9. PlainInv'
  BY <1>2, <1>4, <1>5, <1>6, <1>8 DEF PlainInv, Plain
<1>10. WideInv' /\ ApartInv' /\ AheadInv'
  BY <1>4 DEF WideInv, ApartInv, AheadInv
<1>11. DataInv'
  BY <1>1, <1>7 DEF DataInv
<1> QED
  BY <1>1, <1>9, <1>10, <1>11 DEF MergeInv

\* The extents that are left begin and end behind the one that is widened.
LEMMA NextWidens ==
    ASSUME TypeOK, PlainInv, e \in Left, ~(Length = 0 /\ extents = Whole)
    PROVE  /\ Wide(Widened(extents[e])) /\ Widened(extents[e]) \in Nat \X Nat
           /\ \A w \in DOMAIN input.words :
                 Holds(extents[e], w) => Holds(Widened(extents[e]), w)
           /\ \A n \in Left : n > e =>
                 /\ Widened(extents[e])[1] <= Widened(extents[n])[1]
                 /\ Widened(extents[e])[2] <= Widened(extents[n])[2]
<1>1. Left \subseteq DOMAIN extents /\ \A n \in DOMAIN extents : extents[n] \in Nat \X Nat
  BY DEF Left, TypeOK
<1>2. \A n \in Left : Plain(extents[n]) /\ extents[n] \in Nat \X Nat
  BY <1>1 DEF PlainInv
<1>3. PICK x \in Nat \X Nat : x = extents[e]
  BY <1>2
<1>4. PICK y : y = Widened(x)
  OBVIOUS
<1>5. y \in Nat \X Nat /\ Wide(y) /\ y[1] <= x[1] /\ (x[2] <= y[2] \/ y[2] = Length)
  BY <1>2, <1>3, <1>4, Widens
<1>6. ASSUME NEW w \in DOMAIN input.words, Holds(x, w) PROVE Holds(y, w)
  <2>1. w \in Nat /\ w <= Length /\ Length \in Nat
    BY Types
  <2> QED
    BY <1>3, <1>5, <1>6, <2>1 DEF Holds
<1>7. ASSUME NEW n \in Left, n > e
      PROVE  y[1] <= Widened(extents[n])[1] /\ y[2] <= Widened(extents[n])[2]
  <2>1. PICK z \in Nat \X Nat : z = extents[n]
    BY <1>2
  <2>2. x[2] <= z[1]
    <3>1. e < n
      BY <1>1, <1>7 DEF TypeOK
    <3> QED
      BY <1>3, <2>1, <3>1 DEF PlainInv
  <2>3. x[1] < x[2] /\ z[1] < z[2]
    BY <1>2, <1>3, <2>1 DEF Plain
  <2>4. x[1] <= z[1] /\ x[2] <= z[2]
    BY <2>2, <2>3
  <2> QED
    BY <1>3, <1>4, <2>1, <2>4, WidensInOrder
<1> QED
  BY <1>3, <1>4, <1>5, <1>6, <1>7

\* An extent is widened, and made a part of the one before it or not.
LEMMA MergeStep ==
    ASSUME TypeOK, MergeInv, Merge
    PROVE  MergeInv'
<1> DEFINE x == Widened(extents[e])
           j == Previous(e)
           y == extents'
           Joins == e > 1 /\ Meets(x, j)
<1>1. /\ pc = "merge" /\ pc' = "merge" /\ e \in DOMAIN extents /\ e' = e + 1 /\ input' = input
      /\ y = IF Joins THEN [extents EXCEPT ![j][2] = x[2], ![e] = <<0, 0>>]
             ELSE [extents EXCEPT ![e] = x]
  BY DEF Merge, options, TypeOK
<1>2. /\ e \in Nat \ {0} /\ DOMAIN extents = 1..Len(extents) /\ Len(extents) \in Nat
      /\ \A n \in DOMAIN extents : extents[n] \in Nat \X Nat
      /\ DOMAIN y = DOMAIN extents
  <2>1. /\ e \in Nat \ {0} /\ DOMAIN extents = 1..Len(extents) /\ Len(extents) \in Nat
        /\ \A n \in DOMAIN extents : extents[n] \in Nat \X Nat
    BY DEF TypeOK
  <2> HIDE DEF x, j, y, Joins
  <2>2. DOMAIN y = DOMAIN extents
    BY <1>1
  <2> QED
    BY <2>1, <2>2
<1>3. /\ Length' = Length /\ Length \in Nat /\ DOMAIN input.words = 1..Length /\ Whole' = Whole
  BY <1>1, Types DEF Length, Whole
<1>4. /\ Passed = {n \in DOMAIN extents : n < e} /\ Left = {n \in DOMAIN extents : n >= e}
      /\ Passed' = {n \in DOMAIN extents : n < e + 1} /\ Left' = {n \in DOMAIN extents : n >= e + 1}
  BY <1>1, <1>2 DEF Passed, Left, Writing
<1>5. /\ e \in Left /\ Passed' = Passed \cup {e} /\ Left' = Left \ {e}
      /\ e \notin Passed /\ Passed \subseteq DOMAIN extents /\ Left \subseteq DOMAIN extents
      /\ \A n \in Left' : n > e /\ n \notin Passed
  BY <1>1, <1>2, <1>4
<1>6. \A z : /\ Wide(z)' = Wide(z) /\ Widened(z)' = Widened(z)
             /\ Plain(z)' = Plain(z)
  BY <1>3 DEF Wide, Widened, WideEnd, Plain
<1>9. Joins => e > 1
  OBVIOUS
<1> HIDE DEF x, j, y, Joins
<1>7. CASE Length = 0 /\ extents = Whole
  <2>1. e = 1 /\ ~Joins
    BY <1>1, <1>2, <1>7, <1>9 DEF Whole
  <2>2. x = <<0, 0>>
    <3>1. extents[e] = <<0, 0>>
      BY <1>7, <2>1 DEF Whole
    <3>2. /\ 0 \div BlockSize \in Nat /\ (0 \div BlockSize) * BlockSize <= 0
          /\ (0 \div BlockSize) * BlockSize \in Nat
          /\ Blocks(0) \in Nat /\ Blocks(0) * BlockSize \in Nat
      BY Below, Above, Multiples
    <3>3. WideEnd(<<0, 0>>) = 0
      BY <1>7, <3>2 DEF WideEnd, MinOf
    <3> QED
      BY <3>1, <3>2, <3>3 DEF x, Widened
  <2>3. y[1] = <<0, 0>> /\ Passed' = {1} /\ Left' = {}
    BY <1>1, <1>4, <1>7, <2>1, <2>2 DEF Whole
  <2>4. WideInv'
    BY <1>3, <1>7, <2>3 DEF WideInv, y
  <2>5. PlainInv' /\ AheadInv'
    BY <2>3 DEF PlainInv, AheadInv
  <2>6. ApartInv'
    <3>1. \A m, n \in {1} : ~(m < n)
      OBVIOUS
    <3> QED
      BY <2>3, <3>1 DEF ApartInv
  <2>7. DataInv'
    BY <1>1, <1>3, <1>7 DEF DataInv
  <2> QED
    BY <1>1, <2>4, <2>5, <2>6, <2>7 DEF MergeInv
<1>8. CASE ~(Length = 0 /\ extents = Whole)
  <2>1. /\ Wide(x) /\ x \in Nat \X Nat
        /\ \A w \in DOMAIN input.words : Holds(extents[e], w) => Holds(x, w)
        /\ \A n \in Left' : /\ x[1] <= Widened(extents[n])[1]
                            /\ x[2] <= Widened(extents[n])[2]
    BY <1>5, <1>8, NextWidens DEF MergeInv, x
  <2>2. Length > 0
    BY <1>3, <2>1 DEF Wide
  <2>3. \A n \in Passed :
           /\ extents[n][1] <= x[1] /\ extents[n][2] <= x[2]
           /\ Wide(extents[n]) => extents[n][2] # 0
    <3>1. \A n \in Passed : extents[n][1] <= x[1] /\ extents[n][2] <= x[2]
      BY <1>5 DEF MergeInv, AheadInv, x
    <3>2. \A n \in Passed : Wide(extents[n]) => extents[n][2] # 0
      BY <1>2, <1>5 DEF Wide
    <3> QED
      BY <3>1, <3>2
  <2>4. e > 1 \/ Joins =>
                 /\ j \in Passed /\ j # e /\ Wide(extents[j])
                 /\ \A n \in Passed : Wide(extents[n]) => n <= j
    <3> SUFFICES ASSUME e > 1
                 PROVE  /\ j \in Passed /\ j # e /\ Wide(extents[j])
                        /\ \A n \in Passed : Wide(extents[n]) => n <= j
      BY <1>9
    <3>1. /\ j \in 1..(e - 1)
          /\ j = 1 \/ extents[j][2] # 0
          /\ \A n \in 1..(e - 1) : extents[n][2] # 0 => n <= j
      BY <1>1, PreviousIs DEF j
    <3>2. j \in Passed /\ j # e /\ Passed = 1..(e - 1)
      <4>1. \A n \in DOMAIN extents : n < e <=> n \in 1..(e - 1)
        BY <1>2
      <4>2. \A n \in 1..(e - 1) : n \in DOMAIN extents
        BY <1>1, <1>2
      <4>3. Passed = 1..(e - 1)
        BY <1>4, <4>1, <4>2
      <4> QED
        BY <1>2, <3>1, <4>3
    <3>3. Wide(extents[j])
      BY <2>2, <3>1, <3>2 DEF MergeInv, WideInv
    <3>4. ASSUME NEW n \in Passed, Wide(extents[n]) PROVE n <= j
      <4>1. n \in 1..(e - 1)
        BY <3>2
      <4>2. extents[n][2] # 0
        BY <2>3, <3>4
      <4> QED
        BY <3>1, <4>1, <4>2
    <3> QED
      BY <3>2, <3>3, <3>4
  <2>5. /\ \A n \in Left' : y[n] = extents[n]
        /\ ~Joins => /\ y[e] = x /\ \A n \in Passed : y[n] = extents[n]
        /\ Joins => /\ y[e] = <<0, 0>> /\ y[j] = <<extents[j][1], x[2]>>
                    /\ \A n \in Passed \ {j} : y[n] = extents[n]
    <3>1. CASE Joins
      <4>1. j \in Passed /\ j # e /\ e > 1
        BY <1>9, <2>4, <3>1
      <4>2. y = [extents EXCEPT ![j][2] = x[2], ![e] = <<0, 0>>]
        BY <1>1, <3>1
      <4>3. extents[j] \in Nat \X Nat /\ j \in DOMAIN extents
        BY <1>2, <1>5, <4>1
      <4>4. y[e] = <<0, 0>> /\ \A n \in DOMAIN extents : n # e /\ n # j => y[n] = extents[n]
        BY <1>1, <1>2, <4>1, <4>2
      <4>5. y[j] = <<extents[j][1], x[2]>>
        BY <4>1, <4>2, <4>3
      <4> QED
        BY <1>5, <3>1, <4>1, <4>4, <4>5
    <3>2. CASE ~Joins
      BY <1>1, <1>2, <1>5, <3>2
    <3> QED
      BY <3>1, <3>2
  <2>6. Joins => Wide(y[j])
    <3> SUFFICES ASSUME Joins PROVE Wide(y[j])
      OBVIOUS
    <3>1. PICK p \in Nat \X Nat : p = extents[j]
      BY <1>2, <1>5, <2>4
    <3>2. Wide(p) /\ p[1] <= x[1]
      BY <2>3, <2>4, <3>1
    <3>3. y[j] = <<p[1], x[2]>>
      BY <2>5, <3>1
    <3> QED
      BY <1>3, <2>1, <3>1, <3>2, <3>3 DEF Wide
  <2>7. WideInv'
    <3>1. ASSUME NEW n \in Passed' PROVE Wide(y[n]) \/ y[n] = <<0, 0>>
      <4>1. n = e \/ n \in Passed
        BY <1>5
      <4>2. n \in Passed => Wide(extents[n]) \/ extents[n] = <<0, 0>>
        BY DEF MergeInv, WideInv
      <4> QED
        BY <2>1, <2>5, <2>6, <4>1, <4>2
    <3>2. 1 \in Passed' => Wide(y[1])
      <4>1. 1 \in Passed => Wide(extents[1])
        BY <2>2 DEF MergeInv, WideInv
      <4>2. 1 \notin Passed /\ 1 \in Passed' => e = 1 /\ ~Joins
        BY <1>2, <1>5, <1>9
      <4>3. 1 \in Passed => Wide(y[1])
        BY <2>5, <2>6, <4>1
      <4> QED
        BY <2>1, <2>5, <4>2, <4>3
    <3> QED
      BY <1>6, <3>1, <3>2 DEF WideInv, y
  <2>8. PlainInv'
    BY <1>3, <1>5, <1>6, <1>8, <2>5 DEF MergeInv, PlainInv, y
  <2>9. ApartInv'
    <3>1. ASSUME NEW m \in Passed', NEW n \in Passed', m < n, Wide(y[m]), Wide(y[n])
          PROVE  y[m][2] < y[n][1]
      <4>0. m \in Nat /\ n \in Nat /\ m # e
        BY <1>2, <1>5, <3>1, <1>4
      <4>1. m \in Passed
        BY <1>5, <4>0
      <4>2. CASE Joins
        <5>1. n # e
          <6>1. ~Wide(<<0, 0>>)
            BY DEF Wide
          <6> QED
            BY <2>5, <3>1, <4>2, <6>1
        <5>2. n \in Passed /\ Wide(extents[n])
          BY <1>5, <2>4, <2>5, <3>1, <4>2, <5>1
        <5>3. m # j
          <6>1. n <= j
            BY <2>4, <4>2, <5>2
          <6> QED
            BY <3>1, <4>0, <6>1
        <5>4. y[m] = extents[m]
          BY <2>5, <4>1, <4>2, <5>3
        <5>5. extents[m][2] < extents[n][1]
          BY <3>1, <4>1, <5>2, <5>4 DEF MergeInv, ApartInv
        <5>6. y[n][1] = extents[n][1]
          BY <2>5, <4>2, <5>2
        <5> QED
          BY <5>4, <5>5, <5>6
      <4>3. CASE ~Joins
        <5>1. y[m] = extents[m]
          BY <2>5, <4>1, <4>3
        <5>2. CASE n \in Passed
          <6>1. y[n] = extents[n]
            BY <2>5, <4>3, <5>2
          <6> QED
            BY <3>1, <4>1, <5>1, <5>2, <6>1 DEF MergeInv, ApartInv
        <5>3. CASE n = e
          <6>1. e > 1
            <7>1. m >= 1
              BY <1>2, <1>5, <4>1
            <7> QED
              BY <3>1, <4>0, <5>3, <7>1
          <6>2. extents[j] \in Nat \X Nat /\ extents[m] \in Nat \X Nat
            BY <1>2, <1>5, <2>4, <4>1, <6>1
          <6>3. extents[j][2] < x[1]
            BY <2>1, <4>3, <6>1, <6>2 DEF Meets, Joins
          <6>4. m <= j /\ j \in Nat
            BY <1>2, <1>5, <2>4, <3>1, <4>1, <5>1, <6>1
          <6>5. m < j => extents[m][2] < extents[j][1] /\ extents[j][1] < extents[j][2]
            BY <2>4, <3>1, <4>1, <5>1, <6>1 DEF MergeInv, ApartInv, Wide
          <6>6. extents[m][2] < x[1]
            <7>1. m = j \/ m < j
              BY <4>0, <6>4
            <7> QED
              BY <2>1, <6>2, <6>3, <6>5, <7>1
          <6> QED
            BY <2>5, <4>3, <5>1, <5>3, <6>6
        <5> QED
          BY <1>5, <5>2, <5>3
      <4> QED
        BY <4>2, <4>3
    <3> QED
      BY <1>6, <3>1 DEF ApartInv, y
  <2>10. AheadInv'
    <3>1. ASSUME NEW m \in Passed', NEW n \in Left'
          PROVE  y[m][1] <= Widened(y[n])[1] /\ y[m][2] <= Widened(y[n])[2]
      <4>1. PICK z : z = Widened(extents[n])
        OBVIOUS
      <4>2. y[n] = extents[n] /\ n \in Left /\ x[1] <= z[1] /\ x[2] <= z[2] /\ z \in Nat \X Nat
        <5>1. n \in Left /\ extents[n] \in Nat \X Nat
          BY <1>2, <1>5
        <5>2. Plain(extents[n])
          BY <1>8, <5>1 DEF MergeInv, PlainInv
        <5> QED
          BY <2>1, <2>5, <4>1, <5>1, <5>2, Widens
      <4>3. m \in Passed => extents[m][1] <= z[1] /\ extents[m][2] <= z[2]
        BY <4>1, <4>2 DEF MergeInv, AheadInv
      <4>4. y[m] = x \/ y[m] = <<0, 0>> \/ (m \in Passed /\ y[m] = extents[m])
            \/ (m = j /\ m \in Passed /\ y[m] = <<extents[m][1], x[2]>>)
        BY <1>5, <2>4, <2>5
      <4>5. y[m][1] <= z[1] /\ y[m][2] <= z[2]
        BY <4>2, <4>3, <4>4
      <4> QED
        BY <4>1, <4>2, <4>5
    <3> QED
      BY <1>6, <3>1 DEF AheadInv, y
  <2>11. DataInv'
    <3>1. ASSUME NEW w \in DOMAIN input.words, input.words[w] # 0
          PROVE  \E n \in DOMAIN y : Holds(y[n], w)
      <4>1. PICK n \in DOMAIN extents : Holds(extents[n], w)
        BY <1>1, <3>1 DEF MergeInv, DataInv
      <4>2. w \in Nat
        BY <1>3
      <4>3. n = e \/ n \in Passed \/ n \in Left'
        BY <1>2, <1>4, <1>5
      <4>4. CASE n = e
        <5>1. Holds(x, w)
          BY <2>1, <4>1, <4>4
        <5>2. CASE Joins
          <6>1. PICK p \in Nat \X Nat : p = extents[j]
            BY <1>2, <1>5, <2>4, <5>2
          <6>2. p[1] <= x[1] /\ j \in DOMAIN y
            BY <1>2, <1>5, <2>3, <2>4, <5>2, <6>1
          <6>3. Holds(y[j], w)
            BY <2>1, <2>5, <4>2, <5>1, <5>2, <6>1, <6>2 DEF Holds
          <6> QED
            BY <6>2, <6>3
        <5>3. CASE ~Joins
          BY <1>1, <1>2, <2>5, <5>1, <5>3
        <5> QED
          BY <5>2, <5>3
      <4>5. CASE n \in Left'
        BY <1>2, <2>5, <4>1, <4>5
      <4>6. CASE n \in Passed
        <5>1. CASE y[n] = extents[n]
          BY <1>2, <4>1, <5>1
        <5>2. CASE Joins /\ n = j
          <6>1. PICK p \in Nat \X Nat : p = extents[j]
            BY <1>2, <1>5, <2>4, <5>2
          <6>2. p[2] <= x[2] /\ j \in DOMAIN y
            BY <1>2, <1>5, <2>3, <2>4, <5>2, <6>1
          <6>3. Holds(y[j], w)
            BY <2>1, <2>5, <4>1, <4>2, <5>2, <6>1, <6>2 DEF Holds
          <6> QED
            BY <6>2, <6>3
        <5> QED
          BY <2>5, <4>6, <5>1, <5>2
      <4> QED
        BY <4>3, <4>4, <4>5, <4>6
    <3> QED
      BY <1>1, <1>2, <3>1 DEF DataInv, y
  <2> QED
    BY <1>1, <2>7, <2>8, <2>9, <2>10, <2>11 DEF MergeInv
<1> QED
  BY <1>7, <1>8

-----------------------------------------------------------------------------
(* Blocks                                                                   *)

LEMMA PaddedIs == Padded = FirstBlocks(BlockCount)
BY DEF Padded, FirstBlocks, BlockOf, WordOf

\* What lies between two extents, or behind the last, is zero.
LEMMA ZeroBlocks ==
    ASSUME TypeOK, MergeInv, PlaceInv, Writing, NEW b \in Nat, block < b,
           \A n \in DOMAIN extents :
              n >= e /\ Wide(extents[n]) => b * BlockSize <= extents[n][1]
    PROVE  BlockOf(b) = ZeroBlock
<1>1. /\ b - 1 \in Nat /\ block \in Nat /\ block <= b - 1 /\ BlockSize \in Nat
      /\ b = (b - 1) + 1
  BY Types DEF TypeOK
<1> DEFINE a == (b - 1) * BlockSize
<1>2. /\ a \in Nat /\ block * BlockSize \in Nat /\ block * BlockSize <= a
      /\ b * BlockSize = a + BlockSize
  BY <1>1, Multiples
<1> HIDE DEF a
<1>3. ASSUME NEW w \in 1..BlockSize PROVE WordOf(a + w) = 0
  <2>1. SUFFICES ASSUME WordOf(a + w) # 0 PROVE FALSE
    OBVIOUS
  <2> DEFINE at == a + w
  <2>2. at \in Nat /\ block * BlockSize < at /\ at <= b * BlockSize
    BY <1>1, <1>2
  <2>3. at \in DOMAIN input.words /\ input.words[at] # 0
    BY <1>1, <1>2, <2>1, Types DEF WordOf
  <2> HIDE DEF at
  <2>4. PICK n \in DOMAIN extents : Holds(extents[n], at)
    BY <2>3 DEF MergeInv, DataInv
  <2>5. PICK p \in Nat \X Nat : p = extents[n]
    BY DEF TypeOK
  <2>6. p[1] < at /\ at <= p[2]
    BY <2>4, <2>5 DEF Holds
  <2>7. Wide(p)
    <3>1. n \in Passed
      BY DEF Passed, Writing
    <3>2. Wide(extents[n]) \/ extents[n] = <<0, 0>>
      BY <3>1 DEF MergeInv, WideInv
    <3> QED
      BY <2>2, <2>5, <2>6, <3>2
  <2>8. CASE n < e
    <3>1. p[2] <= block * BlockSize
      BY <2>5, <2>7, <2>8 DEF PlaceInv
    <3> QED
      BY <1>2, <2>2, <2>5, <2>6, <3>1
  <2>9. CASE n >= e
    <3>1. b * BlockSize <= p[1]
      BY <2>5, <2>7, <2>9
    <3> QED
      BY <1>1, <1>2, <2>2, <2>5, <2>6, <3>1
  <2>10. n \in Int /\ e \in Int
    BY DEF TypeOK
  <2> QED
    BY <2>8, <2>9, <2>10
<1> QED
  BY <1>3 DEF BlockOf, ZeroBlock, a

\* The blocks behind the k-th up to the l-th are zeros.
Blank(k, l) == \A b \in Nat : k < b /\ b <= l => BlockOf(b) = ZeroBlock

AllRight(f) == \A n \in DOMAIN f : Right(f[n])

LEMMA Skips ==
    ASSUME TypeOK, NEW f \in Seq(Chunk), NEW k \in Nat, NEW l \in Nat, k < l,
           Blank(k, l), Expands(f, k)
    PROVE  /\ Expands(Skip(f, l - k), l)
           /\ Skip(f, l - k) \in Seq(Chunk) /\ Len(Skip(f, l - k)) = Len(f) + 1
           /\ AllRight(f) => AllRight(Skip(f, l - k))
           /\ FirstBlocks(k) \o Zeros(l - k) = FirstBlocks(l)
<1> DEFINE ch == [type |-> "skip", blocks |-> l - k, body |-> <<>>]
<1>1. ch \in Chunk /\ l - k \in Nat /\ l - k > 0
  BY DEF Chunk, Type
<1>2. Zeros(l - k) = [b \in 1..(l - k) |-> BlockOf(k + b)]
  <2>1. \A b \in 1..(l - k) : BlockOf(k + b) = ZeroBlock
    BY DEF Blank
  <2> QED
    BY <2>1 DEF Zeros
<1>3. Gives(ch, k, l)
  <2>1. Expanded(ch) = Zeros(l - k)
    BY DEF Expanded
  <2> QED
    BY <1>2, <2>1 DEF Gives
<1>4. Right(ch)
  BY <1>1 DEF Right
<1>5. Skip(f, l - k) = Append(f, ch)
  BY DEF Skip
<1> HIDE DEF ch
<1>6. Expands(Append(f, ch), l)
  BY <1>1, <1>3, ExpandsMore
<1>7. \A n \in DOMAIN Append(f, ch) :
         Append(f, ch)[n] = ch \/ (n \in DOMAIN f /\ Append(f, ch)[n] = f[n])
  BY <1>1
<1>8. FirstBlocks(k) \o Zeros(l - k) = FirstBlocks(l)
  <2>1. k <= l
    OBVIOUS
  <2>2. FirstBlocks(k) \o [b \in 1..(l - k) |-> BlockOf(k + b)] = FirstBlocks(l)
    BY <2>1, FirstJoin
  <2> QED
    BY <1>2, <2>2
<1>9. Append(f, ch) \in Seq(Chunk) /\ Len(Append(f, ch)) = Len(f) + 1
  BY <1>1
<1>10. AllRight(f) => AllRight(Append(f, ch))
  BY <1>4, <1>7 DEF AllRight
<1> QED
  BY <1>5, <1>6, <1>8, <1>9, <1>10

(* The next block of an extent is one of the file, although the last one    *)
(* may be shorter.                                                          *)
LEMMA NextBlock ==
    ASSUME TypeOK, PlaceInv, pc = "block", size > 0
    PROVE  /\ Now \in Nat /\ Now <= size
           /\ Blocks(from) \in Nat /\ Words = BlockOf(Blocks(from) + 1)
           /\ Blocks(from + Now) = Blocks(from) + 1
           /\ size - Now > 0 => (from + Now) % BlockSize = 0
<1> DEFINE k == Blocks(from)
           B == BlockSize
<1>1. /\ from \in Nat /\ size \in Nat /\ B \in Nat \ {0} /\ Length \in Nat
      /\ k \in Nat /\ from = k * B
  BY Types, Above, Exact DEF TypeOK, PlaceInv
<1>2. PICK z \in Nat : /\ z = from + size /\ z <= Length
                       /\ z % BlockSize = 0 \/ z = Length
  <2>1. from + size \in Nat
    BY <1>1
  <2> QED
    BY <2>1 DEF PlaceInv, Wide
<1>3. (k + 1) * B = from + B /\ k + 1 \in Nat /\ (k + 1) - 1 = k
  BY <1>1, Multiples
<1> HIDE DEF k, B
<1>4. /\ Now = IF size < B THEN size ELSE B
      /\ Words = [w \in 1..B |-> IF w <= Now THEN input.words[from + w] ELSE 0]
      /\ BlockOf(k + 1) = [w \in 1..B |-> WordOf(from + w)]
  BY <1>1, <1>3 DEF Now, MinOf, Words, BlockOf, B
<1>5. Now \in Nat /\ Now <= size /\ Now <= B /\ Now > 0
  BY <1>1, <1>4
<1>6. size < B => z = Length
  <2>1. SUFFICES ASSUME size < B, z % BlockSize = 0 PROVE FALSE
    BY <1>2
  <2>2. PICK q \in Nat : z = q * B
    BY <2>1, Below DEF B
  <2>3. q * B < k * B + B
    BY <1>1, <1>2, <2>1, <2>2
  <2>4. q <= k
    BY <1>1, <2>3, Between DEF B
  <2>5. q * B <= k * B
    BY <1>1, <2>4, Multiples DEF B
  <2> QED
    BY <1>1, <1>2, <2>2, <2>5
<1>7. ASSUME NEW w \in 1..B
      PROVE  WordOf(from + w) = IF w <= Now THEN input.words[from + w] ELSE 0
  <2>1. from + w <= Length <=> w <= Now
    BY <1>1, <1>2, <1>4, <1>6
  <2> QED
    BY <2>1 DEF WordOf
<1>8. Words = BlockOf(k + 1)
  BY <1>4, <1>7
<1>9. Blocks(from + Now) = k + 1
  <2>1. from + Now \in Nat /\ from + Now <= (k + 1) * B /\ (k + 1) * B < (from + Now) + B
    BY <1>1, <1>3, <1>5
  <2> QED
    BY <1>3, <2>1, BlocksIs DEF B
<1>10. size - Now > 0 => (from + Now) % BlockSize = 0
  <2>1. size - Now > 0 => from + Now = (k + 1) * B
    BY <1>1, <1>3, <1>4
  <2> QED
    BY <1>3, <2>1, MultipleMod DEF B
<1> QED
  BY <1>1, <1>5, <1>8, <1>9, <1>10 DEF k

\* All words of block b are v.
Filled(b, v) == BlockOf(b) = [w \in 1..BlockSize |-> v]

LEMMA FillIs ==
    ASSUME TypeOK, NEW b \in Nat, Words = BlockOf(b)
    PROVE  IsFill <=> Filled(b, Words[1])
<1>1. Words = [w \in 1..BlockSize |-> Words[w]]
  BY DEF Words
<1> QED
  BY <1>1 DEF IsFill, Filled

\* A chunk of one block
LEMMA OneBlock ==
    ASSUME TypeOK, NEW k \in Nat, NEW ch \in Chunk, ch.blocks = 1,
           \/ ch.type = "raw" /\ ch.body = <<BlockOf(k + 1)>>
           \/ ch.type = "fill" /\ \E v \in Nat : ch.body = <<<<v>>>> /\ Filled(k + 1, v)
    PROVE  Gives(ch, k, k + 1) /\ Right(ch)
<1>1. k + 1 \in Nat \ {0} /\ (k + 1) - k = 1 /\ k <= k + 1 /\ 1..1 = {1}
  OBVIOUS
<1>2. [b \in 1..((k + 1) - k) |-> BlockOf(k + b)] = <<BlockOf(k + 1)>>
  BY <1>1
<1>3. MaxRawBlocks \in Nat \ {0}
  BY Types
<1>4. CASE ch.type = "raw" /\ ch.body = <<BlockOf(k + 1)>>
  <2>1. PICK x : x = BlockOf(k + 1)
    OBVIOUS
  <2>2. x \in Seq(Nat)
    BY <1>1, <2>1, BlockType
  <2>3. SubSeq(<<x>>, 1, 1) = <<x>> /\ Len(<<x>>) = 1
    <3>1. <<x>> \in Seq(Seq(Nat)) /\ Len(<<x>>) = 1
      BY <2>2
    <3>2. SubSeq(<<x>>, 1, Len(<<x>>)) = <<x>>
      BY <3>1, SubSeqFull
    <3> QED
      BY <3>1, <3>2
  <2>4. Expanded(ch) = <<x>>
    BY <1>4, <2>1, <2>3 DEF Expanded
  <2> QED
    BY <1>1, <1>2, <1>3, <1>4, <2>1, <2>3, <2>4 DEF Gives, Right
<1>5. CASE ch.type = "fill" /\ \E v \in Nat : ch.body = <<<<v>>>> /\ Filled(k + 1, v)
  <2>1. PICK v \in Nat : ch.body = <<<<v>>>> /\ Filled(k + 1, v)
    BY <1>5
  <2>2. ch.body[1][1] = v /\ Len(ch.body) = 1 /\ Len(ch.body[1]) = 1
    BY <2>1
  <2>3. Expanded(ch) = [b \in 1..1 |-> [w \in 1..BlockSize |-> v]]
    BY <1>5, <2>2 DEF Expanded
  <2>4. Expanded(ch) = <<BlockOf(k + 1)>>
    BY <1>1, <2>1, <2>3 DEF Filled
  <2> QED
    BY <1>1, <1>2, <1>5, <2>2, <2>4 DEF Gives, Right
<1> QED
  BY <1>4, <1>5

LEMMA MoreRaw ==
    ASSUME TypeOK, NEW i \in Nat, NEW k \in Nat, NEW ch \in Chunk, ch.type = "raw",
           Right(ch), Gives(ch, i, k)
    PROVE  Gives([ch EXCEPT !.blocks = ch.blocks + 1,
                            !.body = Append(ch.body, BlockOf(k + 1))], i, k + 1)
<1> DEFINE d == [ch EXCEPT !.blocks = ch.blocks + 1, !.body = Append(ch.body, BlockOf(k + 1))]
<1>1. PICK x : x = BlockOf(k + 1)
  OBVIOUS
<1>2. PICK s \in Seq(Seq(Nat)) : s = ch.body
  BY DEF Chunk
<1>3. x \in Seq(Nat) /\ k + 1 \in Nat /\ i <= k
  <2>1. k + 1 \in Nat \ {0}
    OBVIOUS
  <2> QED
    BY <1>1, <2>1, BlockType DEF Gives
<1>4. ch.blocks = Len(s) /\ d.type = "raw" /\ d.blocks = Len(s) + 1 /\ d.body = Append(s, x)
  BY <1>1, <1>2 DEF Chunk, Right
<1>5. s = [b \in 1..(k - i) |-> BlockOf(i + b)]
  <2>1. SubSeq(s, 1, Len(s)) = s
    BY SubSeqFull
  <2>2. Expanded(ch) = s
    BY <1>2, <1>4, <2>1 DEF Expanded
  <2> QED
    BY <2>2 DEF Gives
<1>6. Len(s) = k - i /\ \A b \in 1..(k - i) : s[b] = BlockOf(i + b)
  <2>1. k - i \in Nat
    BY <1>3
  <2> QED
    BY <1>5, <2>1
<1>7. Expanded(d) = Append(s, x)
  <2>1. Append(s, x) \in Seq(Seq(Nat)) /\ Len(Append(s, x)) = Len(s) + 1
    BY <1>3
  <2>2. SubSeq(Append(s, x), 1, Len(s) + 1) = Append(s, x)
    BY <2>1, SubSeqFull
  <2> HIDE DEF d
  <2> QED
    BY <1>4, <2>2 DEF Expanded
<1>8. PICK y : y = [b \in 1..((k + 1) - i) |-> BlockOf(i + b)]
  OBVIOUS
<1>9. y \in Seq(Seq(Nat)) /\ Len(y) = (k + 1) - i /\ \A b \in 1..((k + 1) - i) : y[b] = BlockOf(i + b)
  <2>1. (k + 1) - i \in Nat
    BY <1>3
  <2>2. \A b \in 1..((k + 1) - i) : BlockOf(i + b) \in Seq(Nat)
    BY BlockType
  <2> QED
    BY <1>8, <2>1, <2>2
<1>10. Append(s, x) = y
  <2>1. Append(s, x) \in Seq(Seq(Nat)) /\ Len(Append(s, x)) = Len(y)
    BY <1>3, <1>6, <1>9
  <2>2. ASSUME NEW b \in 1..Len(y) PROVE Append(s, x)[b] = y[b]
    <3>1. CASE b = (k + 1) - i
      <4>1. i + b = k + 1 /\ b = Len(s) + 1
        BY <1>3, <1>6, <3>1
      <4>2. Append(s, x)[Len(s) + 1] = x
        OBVIOUS
      <4>3. y[b] = BlockOf(i + b)
        BY <1>9
      <4> QED
        BY <1>1, <4>1, <4>2, <4>3
    <3>2. CASE b # (k + 1) - i
      <4>1. b \in 1..(k - i) /\ b \in 1..Len(s)
        BY <1>3, <1>6, <1>9, <3>2
      <4>2. Append(s, x)[b] = s[b]
        BY <4>1
      <4>3. y[b] = BlockOf(i + b)
        BY <1>9
      <4> QED
        BY <1>6, <4>1, <4>2, <4>3
    <3> QED
      BY <3>1, <3>2
  <2> QED
    BY <1>9, <2>1, <2>2, SeqEqual
<1> HIDE DEF d
<1>11. Gives(d, i, k + 1)
  BY <1>3, <1>7, <1>8, <1>10 DEF Gives
<1> QED
  BY <1>11 DEF d

LEMMA MoreFill ==
    ASSUME TypeOK, NEW i \in Nat, NEW k \in Nat, NEW ch \in Chunk, ch.type = "fill",
           Filled(k + 1, ch.body[1][1]), Gives(ch, i, k)
    PROVE  Gives([ch EXCEPT !.blocks = ch.blocks + 1], i, k + 1)
<1> DEFINE d == [ch EXCEPT !.blocks = ch.blocks + 1]
           v == ch.body[1][1]
           row == [w \in 1..BlockSize |-> v]
<1>1. i <= k /\ k - i \in Nat /\ (k + 1) - i = (k - i) + 1 /\ ch.blocks \in Nat /\ i + ((k - i) + 1) = k + 1
  BY DEF Gives, Chunk
<1>2. d.type = "fill" /\ d.blocks = ch.blocks + 1 /\ d.body = ch.body
  BY DEF Chunk
<1>3. [b \in 1..ch.blocks |-> row] = [b \in 1..(k - i) |-> BlockOf(i + b)]
  BY DEF Gives, Expanded
<1>4. Expanded(d) = [b \in 1..(ch.blocks + 1) |-> row]
  <2> HIDE DEF d
  <2> QED
    BY <1>2 DEF Expanded
<1> HIDE DEF d, row
<1>5. 1..ch.blocks = 1..(k - i) /\ \A b \in 1..(k - i) : row = BlockOf(i + b)
  <2>1. DOMAIN [b \in 1..ch.blocks |-> row] = DOMAIN [b \in 1..(k - i) |-> BlockOf(i + b)]
    BY <1>3
  <2>2. 1..ch.blocks = 1..(k - i)
    BY <2>1
  <2>3. ASSUME NEW b \in 1..(k - i) PROVE row = BlockOf(i + b)
    <3>1. [c \in 1..ch.blocks |-> row][b] = [c \in 1..(k - i) |-> BlockOf(i + c)][b]
      BY <1>3
    <3> QED
      BY <2>2, <3>1
  <2> QED
    BY <2>2, <2>3
<1>6. ch.blocks = k - i
  BY <1>1, <1>5
<1>7. row = BlockOf(k + 1)
  BY DEF row, Filled
<1>8. ASSUME NEW b \in 1..((k - i) + 1) PROVE row = BlockOf(i + b)
  <2>1. CASE b = (k - i) + 1
    BY <1>1, <1>7, <2>1
  <2>2. CASE b # (k - i) + 1
    <3>1. b \in 1..(k - i)
      BY <1>1, <2>2
    <3> QED
      BY <1>5, <3>1
  <2> QED
    BY <2>1, <2>2
<1>9. Expanded(d) = [b \in 1..((k + 1) - i) |-> BlockOf(i + b)]
  BY <1>1, <1>4, <1>6, <1>8
<1>10. Gives(d, i, k + 1)
  BY <1>1, <1>9 DEF Gives
<1> QED
  BY <1>10 DEF d

-----------------------------------------------------------------------------
(* Steps                                                                    *)

LEMMA FlushedIs ==
    ASSUME TypeOK, OpenInv, pc = "block"
    PROVE  /\ Flushed(out) \in Seq(Chunk) /\ Len(Flushed(out)) = Len(out)
           /\ chunk.type \in {"raw", "fill"} =>
                /\ Len(out) \in DOMAIN out /\ out[Len(out)].type = chunk.type
                /\ Flushed(out)[Len(out)] = [out[Len(out)] EXCEPT !.blocks = chunk.blocks]
                /\ Flushed(out) = [out EXCEPT ![Len(out)] =
                                      [out[Len(out)] EXCEPT !.blocks = chunk.blocks]]
<1>1. out \in Seq(Chunk) /\ chunk.blocks \in Nat
  BY DEF TypeOK
<1>2. CASE chunk.type = "none"
  BY <1>1, <1>2 DEF Flushed
<1>3. CASE chunk.type # "none"
  <2>1. /\ chunk.type \in {"raw", "fill"} /\ out[Len(out)].type = chunk.type
        /\ Len(out) \in DOMAIN out
    BY <1>1, <1>3 DEF OpenInv
  <2> DEFINE ch == [out[Len(out)] EXCEPT !.blocks = chunk.blocks]
  <2>2. ch \in Chunk
    <3>1. out[Len(out)] \in Chunk
      BY <1>1, <2>1
    <3> QED
      BY <1>1, <3>1 DEF Chunk
  <2>3. Flushed(out) = [out EXCEPT ![Len(out)] = ch]
    BY <1>3 DEF Flushed
  <2> HIDE DEF ch
  <2>4. Flushed(out) \in Seq(Chunk) /\ Len(Flushed(out)) = Len(out) /\ Flushed(out)[Len(out)] = ch
    BY <1>1, <2>1, <2>2, <2>3
  <2> QED
    BY <2>1, <2>3, <2>4 DEF ch
<1> QED
  BY <1>2, <1>3

\* Another chunk begins, and the one before it is complete.
LEMMA BlockBegins ==
    ASSUME IInv, Block, ~Continues
    PROVE  /\ out' \in Seq(Chunk) /\ Len(out') = Len(out) + 1 /\ chunk'.type = out'[Len(out')].type
           /\ chunk' \in [type : Type, blocks : Nat] /\ chunk'.type \in {"raw", "fill"}
           /\ Expands(Flushed(out)', Blocks(from) + 1)
           /\ \A n \in DOMAIN Flushed(out)' : Right(Flushed(out)'[n])
<1>1. /\ TypeOK /\ PlaceInv /\ OpenInv /\ pc = "block" /\ size > 0
      /\ Expands(Flushed(out), Blocks(from))
      /\ \A n \in DOMAIN Flushed(out) : Right(Flushed(out)[n])
  BY DEF IInv, Block, FileInv, Writing, Final, Covered
<1>2. PICK g : g = Flushed(out)
  OBVIOUS
<1>3. PICK k \in Nat : k = Blocks(from)
  BY <1>1, NextBlock
<1>4. /\ g \in Seq(Chunk) /\ Len(g) = Len(out) /\ Expands(g, k) /\ \A n \in DOMAIN g : Right(g[n])
  BY <1>1, <1>2, <1>3, FlushedIs
<1>5. PICK x : x = Words
  OBVIOUS
<1>6. x = BlockOf(k + 1) /\ x \in Seq(Nat) /\ x[1] \in Nat /\ k + 1 \in Nat \ {0}
  <2>1. x = BlockOf(k + 1) /\ k + 1 \in Nat \ {0}
    BY <1>1, <1>3, <1>5, NextBlock
  <2>2. x \in Seq(Nat) /\ Len(x) = BlockSize
    BY <1>1, <2>1, BlockType
  <2>3. 1 \in 1..BlockSize
    BY <1>1, Types
  <2> QED
    BY <2>1, <2>2, <2>3
<1>7. IsFill <=> Filled(k + 1, x[1])
  BY <1>1, <1>5, <1>6, FillIs
<1> DEFINE t == IF IsFill THEN "fill" ELSE "raw"
           body == IF IsFill THEN <<<<x[1]>>>> ELSE <<x>>
           nc == [type |-> t, blocks |-> 0, body |-> IF IsFill THEN <<<<x[1]>>>> ELSE <<>>]
           ch == [type |-> t, blocks |-> 0, body |-> body]
           full == [type |-> t, blocks |-> 1, body |-> body]
<1>8. /\ ch \in Chunk /\ full \in Chunk /\ nc \in Chunk
      /\ [ch EXCEPT !.blocks = 1] = full
      /\ ~IsFill => [nc EXCEPT !.body = Append(nc.body, x)] = ch
      /\ IsFill => nc = ch
      /\ ch.type = t /\ full.type = t /\ full.blocks = 1 /\ full.body = body
  <2>1. body \in Seq(Seq(Nat)) /\ <<>> \in Seq(Seq(Nat)) /\ t \in Type
    BY <1>6 DEF Type
  <2>2. Append(<<>>, x) = <<x>>
    OBVIOUS
  <2>3. IsFill => body = <<<<x[1]>>>>
    OBVIOUS
  <2>4. ~IsFill => body = <<x>>
    OBVIOUS
  <2> HIDE DEF t, body
  <2>5. /\ ch \in Chunk /\ full \in Chunk /\ [ch EXCEPT !.blocks = 1] = full
        /\ ch.type = t /\ full.type = t /\ full.blocks = 1 /\ full.body = body
    BY <2>1 DEF Chunk
  <2>6. CASE IsFill
    <3>1. nc = ch
      BY <2>3, <2>6
    <3> QED
      BY <2>5, <2>6, <3>1
  <2>7. CASE ~IsFill
    <3>1. nc = [type |-> t, blocks |-> 0, body |-> <<>>]
      BY <2>7
    <3>2. nc \in Chunk /\ [nc EXCEPT !.body = <<x>>] = ch /\ nc.body = <<>>
      BY <2>1, <2>4, <2>7, <3>1 DEF Chunk
    <3> QED
      BY <2>2, <2>5, <2>7, <3>2
  <2> QED
    BY <2>6, <2>7
<1>9. Gives(full, k, k + 1) /\ Right(full)
  <2>1. CASE IsFill
    <3>1. full.type = "fill" /\ full.body = <<<<x[1]>>>> /\ Filled(k + 1, x[1])
      BY <1>7, <2>1
    <3> HIDE DEF full
    <3> QED
      BY <1>1, <1>6, <1>8, <3>1, OneBlock
  <2>2. CASE ~IsFill
    <3>1. full.type = "raw" /\ full.body = <<BlockOf(k + 1)>>
      BY <1>6, <2>2
    <3> HIDE DEF full
    <3> QED
      BY <1>1, <1>6, <1>8, <3>1, OneBlock
  <2> QED
    BY <2>1, <2>2
<1>10. Begun = Append(g, nc)
  BY <1>2, <1>5 DEF Begun
<1>11. out' = Append(g, ch) /\ chunk' = [type |-> t, blocks |-> 1]
  <2>1. /\ chunk' = [type |-> t, blocks |-> 1]
        /\ out' = IF IsFill THEN Begun
                   ELSE [Begun EXCEPT ![Len(Begun)].body = Append(@, x)]
    BY <1>5 DEF Block
  <2> HIDE DEF nc, ch, full, body, t
  <2>2. /\ Len(Append(g, nc)) = Len(g) + 1 /\ Append(g, nc)[Len(g) + 1] = nc
        /\ Append(g, nc) \in Seq(Chunk) /\ Len(g) + 1 \in DOMAIN Append(g, nc)
    BY <1>4, <1>8
  <2>3. [Begun EXCEPT ![Len(Begun)].body = Append(@, x)]
          = [Append(g, nc) EXCEPT ![Len(g) + 1] = [nc EXCEPT !.body = Append(nc.body, x)]]
    BY <1>10, <2>2
  <2>4. \A c, d \in Chunk : [Append(g, c) EXCEPT ![Len(g) + 1] = d] = Append(g, d)
    BY <1>4, AppendOther
  <2>5. IsFill => out' = Append(g, ch)
    <3>1. IsFill => nc = ch
      BY <1>8
    <3> QED
      BY <1>10, <2>1, <3>1
  <2>6. ~IsFill => out' = Append(g, ch)
    <3>1. ~IsFill => [nc EXCEPT !.body = Append(nc.body, x)] = ch
      BY <1>8
    <3>2. nc \in Chunk /\ ch \in Chunk
      BY <1>8
    <3>3. [Append(g, nc) EXCEPT ![Len(g) + 1] = ch] = Append(g, ch)
      BY <2>4, <3>2
    <3> QED
      BY <2>1, <2>3, <3>1, <3>3
  <2> QED
    BY <2>1, <2>5, <2>6
<1> HIDE DEF nc, ch, full, body
<1>12. Flushed(out)' = Append(g, full)
  <2>1. chunk'.type # "none" /\ chunk'.blocks = 1
    BY <1>11
  <2>2. Flushed(out)' = [out' EXCEPT ![Len(out')].blocks = 1]
    BY <2>1 DEF Flushed
  <2>3. Len(Append(g, ch)) = Len(g) + 1 /\ Append(g, ch)[Len(g) + 1] = ch
    BY <1>4, <1>8
  <2>4. [Append(g, ch) EXCEPT ![Len(g) + 1].blocks = 1]
          = [Append(g, ch) EXCEPT ![Len(g) + 1] = full]
    BY <1>4, <1>8, <2>3
  <2>5. \A c, d \in Chunk : [Append(g, c) EXCEPT ![Len(g) + 1] = d] = Append(g, d)
    BY <1>4, AppendOther
  <2> QED
    BY <1>8, <1>11, <2>2, <2>3, <2>4, <2>5
<1>13. Expands(Append(g, full), k + 1)
  BY <1>4, <1>6, <1>8, <1>9, ExpandsMore
<1>14. \A n \in DOMAIN Append(g, full) : Right(Append(g, full)[n])
  <2>1. \A n \in DOMAIN Append(g, full) :
           Append(g, full)[n] = full \/ (n \in DOMAIN g /\ Append(g, full)[n] = g[n])
    BY <1>4, <1>8
  <2> QED
    BY <1>4, <1>9, <2>1
<1>15. /\ out' \in Seq(Chunk) /\ Len(out') = Len(out) + 1 /\ out'[Len(out')] = ch
  BY <1>4, <1>8, <1>11
<1>16. /\ chunk' \in [type : Type, blocks : Nat] /\ chunk'.type \in {"raw", "fill"}
       /\ chunk'.type = t
  BY <1>11 DEF Type
<1> QED
  BY <1>3, <1>8, <1>12, <1>13, <1>14, <1>15, <1>16

LEMMA ChunkFields ==
    ASSUME NEW o \in Chunk, NEW a \in Nat, NEW b \in Nat, NEW s \in Seq(Seq(Nat))
    PROVE  /\ [[o EXCEPT !.blocks = a] EXCEPT !.blocks = b] = [o EXCEPT !.blocks = b]
           /\ [[o EXCEPT !.blocks = a] EXCEPT !.blocks = b, !.body = s]
                = [[o EXCEPT !.body = s] EXCEPT !.blocks = b]
BY DEF Chunk

LEMMA MoreBlocks ==
    ASSUME NEW o \in Chunk, NEW b \in Nat, NEW s \in Seq(Seq(Nat))
    PROVE  /\ [o EXCEPT !.blocks = b] \in Chunk
           /\ [o EXCEPT !.blocks = b, !.body = s] \in Chunk
           /\ [o EXCEPT !.blocks = b].type = o.type /\ [o EXCEPT !.blocks = b].body = o.body
           /\ [o EXCEPT !.blocks = b].blocks = b
           /\ [o EXCEPT !.blocks = b, !.body = s].type = o.type
           /\ [o EXCEPT !.blocks = b, !.body = s].body = s
           /\ [o EXCEPT !.blocks = b, !.body = s].blocks = b
BY DEF Chunk

\* The block belongs to the chunk that is open.
LEMMA BlockContinues ==
    ASSUME IInv, Block, Continues
    PROVE  /\ out' \in Seq(Chunk) /\ Len(out') = Len(out) /\ Len(out) > 0
           /\ chunk'.type = out'[Len(out')].type
           /\ chunk' \in [type : Type, blocks : Nat] /\ chunk'.type \in {"raw", "fill"}
           /\ Expands(Flushed(out)', Blocks(from) + 1)
           /\ \A n \in DOMAIN Flushed(out)' : Right(Flushed(out)'[n])
<1>1. /\ TypeOK /\ PlaceInv /\ OpenInv /\ pc = "block" /\ size > 0
      /\ Expands(Flushed(out), Blocks(from))
      /\ \A n \in DOMAIN Flushed(out) : Right(Flushed(out)[n])
  BY DEF IInv, Block, FileInv, Writing, Final, Covered
<1>2. PICK g : g = Flushed(out)
  OBVIOUS
<1>3. PICK k \in Nat : k = Blocks(from)
  BY <1>1, NextBlock
<1>4. PICK n : n = Len(out)
  OBVIOUS
<1>5. PICK x : x = Words
  OBVIOUS
<1>6. PICK f \in Seq(Chunk) : f = out
  BY <1>1 DEF TypeOK
<1>7. /\ chunk.type = (IF IsFill THEN "fill" ELSE "raw")
      /\ IsFill => f[n].body[1] = <<x[1]>>
      /\ ~IsFill => chunk.blocks < MaxRawBlocks
  BY <1>4, <1>5, <1>6 DEF Continues, ContinuesFill, ContinuesRaw
<1>8. PICK c1 \in Chunk : c1 = [f[n] EXCEPT !.blocks = chunk.blocks]
  <2>1. chunk.type \in {"raw", "fill"}
    BY <1>7
  <2>2. n \in DOMAIN f
    BY <1>1, <1>4, <1>6, <2>1, FlushedIs
  <2>3. f[n] \in Chunk /\ chunk.blocks \in Nat
    BY <1>1, <2>2 DEF TypeOK
  <2> QED
    BY <2>3 DEF Chunk
<1>9. /\ n \in DOMAIN f /\ f[n].type = chunk.type /\ g = [f EXCEPT ![n] = c1]
      /\ f[n] \in Chunk /\ n \in Nat \ {0} /\ n = Len(f)
  <2>1. chunk.type \in {"raw", "fill"}
    BY <1>7
  <2>2. n \in DOMAIN f /\ f[n].type = chunk.type /\ g = [f EXCEPT ![n] = c1]
    BY <1>1, <1>2, <1>4, <1>6, <1>8, <2>1, FlushedIs
  <2> QED
    BY <1>4, <1>6, <2>2
<1>10. /\ g \in Seq(Chunk) /\ Len(g) = n /\ g[n] = c1 /\ n \in DOMAIN g
       /\ \A m \in DOMAIN g : m # n => g[m] = f[m]
       /\ \A m \in DOMAIN g : Right(g[m])
       /\ Expands(g, k)
  BY <1>1, <1>2, <1>3, <1>9
<1>11. /\ x = BlockOf(k + 1) /\ x \in Seq(Nat) /\ k + 1 \in Nat \ {0}
  <2>1. x = BlockOf(k + 1) /\ k + 1 \in Nat \ {0}
    BY <1>1, <1>3, <1>5, NextBlock
  <2> QED
    BY <1>1, <2>1, BlockType
<1>12. IsFill <=> Filled(k + 1, x[1])
  BY <1>1, <1>5, <1>11, FillIs
<1>13. /\ c1.type = chunk.type /\ c1.blocks = chunk.blocks /\ c1.body = f[n].body
       /\ Right(c1) /\ c1.blocks \in Nat
  <2>1. Right(c1)
    BY <1>10
  <2>2. f[n] \in Chunk /\ chunk.blocks \in Nat
    BY <1>1, <1>9 DEF TypeOK
  <2> QED
    BY <1>8, <1>9, <2>1, <2>2 DEF Chunk
<1>14. Begun = f
  BY <1>6 DEF Begun
<1>15. chunk' = [type |-> IF IsFill THEN "fill" ELSE "raw", blocks |-> c1.blocks + 1]
  BY <1>13 DEF Block
<1>16. PICK c2 \in Chunk :
          /\ Flushed(out)' = [g EXCEPT ![n] = c2] /\ c2.type = c1.type
          /\ \A i \in Nat : Gives(c1, i, k) => Gives(c2, i, k + 1)
          /\ Right(c2)
          /\ out' \in Seq(Chunk) /\ Len(out') = n /\ out'[n].type = c1.type
  <2>1. \A h : [[f EXCEPT ![n] = c1] EXCEPT ![n] = h] = [f EXCEPT ![n] = h]
    OBVIOUS
  <2>2. CASE IsFill
    <3> DEFINE c2 == [c1 EXCEPT !.blocks = c1.blocks + 1]
    <3>1. out' = f
      BY <1>6, <1>14, <2>2 DEF Block
    <3>2. c2 \in Chunk /\ c2.type = "fill" /\ c2.body = c1.body /\ c2.blocks = c1.blocks + 1
          /\ c2 = [f[n] EXCEPT !.blocks = c1.blocks + 1]
      <4>1. c1.blocks + 1 \in Nat /\ chunk.blocks \in Nat /\ c1.type = "fill" /\ f[n] \in Chunk
        BY <1>7, <1>9, <1>13, <2>2
      <4>2. c1.body \in Seq(Seq(Nat))
        BY DEF Chunk
      <4>3. [[f[n] EXCEPT !.blocks = chunk.blocks] EXCEPT !.blocks = c1.blocks + 1]
              = [f[n] EXCEPT !.blocks = c1.blocks + 1]
        BY <4>1, <4>2, ChunkFields
      <4>4. c2 \in Chunk /\ c2.type = c1.type /\ c2.body = c1.body /\ c2.blocks = c1.blocks + 1
        BY <4>1, <4>2, MoreBlocks
      <4> QED
        BY <1>8, <4>1, <4>3, <4>4
    <3>3. Flushed(out)' = [f EXCEPT ![n] = [f[n] EXCEPT !.blocks = c1.blocks + 1]]
      <4>1. chunk'.type # "none" /\ chunk'.blocks = c1.blocks + 1
        BY <1>15
      <4>2. Flushed(out)' = [f EXCEPT ![Len(f)].blocks = c1.blocks + 1]
        BY <3>1, <4>1 DEF Flushed
      <4> QED
        BY <1>9, <4>2
    <3>4. Flushed(out)' = [g EXCEPT ![n] = c2]
      BY <1>9, <2>1, <3>2, <3>3
    <3>5. c1.body[1][1] = x[1]
      BY <1>7, <1>13, <2>2
    <3>6. c1.type = "fill" /\ Filled(k + 1, c1.body[1][1])
      BY <1>7, <1>12, <1>13, <2>2, <3>5
    <3>7. \A i \in Nat : Gives(c1, i, k) => Gives(c2, i, k + 1)
      BY <1>1, <3>6, MoreFill
    <3>8. Right(c2)
      BY <1>13, <3>2, <3>6 DEF Right
    <3>9. out' \in Seq(Chunk) /\ Len(out') = n /\ out'[n].type = c1.type
      BY <1>9, <1>13, <3>1
    <3> QED
      BY <3>2, <3>4, <3>6, <3>7, <3>8, <3>9
  <2>3. CASE ~IsFill
    <3> DEFINE c2 == [c1 EXCEPT !.blocks = c1.blocks + 1,
                                !.body = Append(c1.body, BlockOf(k + 1))]
               d == [f[n] EXCEPT !.body = Append(f[n].body, x)]
    <3>0. f[n] \in Chunk /\ f[n].body \in Seq(Seq(Nat)) /\ Append(f[n].body, x) \in Seq(Seq(Nat))
      BY <1>9, <1>11 DEF Chunk
    <3>1. out' = [f EXCEPT ![n] = d]
      <4>1. out' = [f EXCEPT ![Len(f)].body = Append(@, x)]
        BY <1>5, <1>14, <2>3 DEF Block
      <4> QED
        BY <1>9, <4>1
    <3>2. d \in Chunk /\ d.type = f[n].type /\ d.body = Append(f[n].body, x)
      BY <3>0 DEF Chunk
    <3>3. c2 \in Chunk /\ c2.type = "raw" /\ c2.body = Append(c1.body, x)
          /\ c2.blocks = c1.blocks + 1 /\ c2 = [d EXCEPT !.blocks = c1.blocks + 1]
      <4>1. c1.blocks + 1 \in Nat /\ chunk.blocks \in Nat /\ c1.type = "raw" /\ f[n] \in Chunk
        BY <1>7, <1>9, <1>13, <2>3
      <4>2. PICK y \in Seq(Seq(Nat)) : y = Append(f[n].body, x)
        BY <3>0
      <4>3. y = Append(c1.body, BlockOf(k + 1)) /\ y = Append(c1.body, x)
        BY <1>11, <1>13, <4>2
      <4>4. [[f[n] EXCEPT !.blocks = chunk.blocks] EXCEPT !.blocks = c1.blocks + 1, !.body = y]
              = [[f[n] EXCEPT !.body = y] EXCEPT !.blocks = c1.blocks + 1]
        BY <4>1, ChunkFields
      <4>5. c2 = [c1 EXCEPT !.blocks = c1.blocks + 1, !.body = y]
        BY <4>3
      <4>6. c2 \in Chunk /\ c2.type = c1.type /\ c2.body = y /\ c2.blocks = c1.blocks + 1
        <5>1. PICK q : q = [c1 EXCEPT !.blocks = c1.blocks + 1, !.body = y]
          OBVIOUS
        <5> HIDE DEF c2, d
        <5>2. q \in Chunk /\ q.type = c1.type /\ q.body = y /\ q.blocks = c1.blocks + 1
          BY <4>1, <5>1 DEF Chunk
        <5> QED
          BY <4>5, <5>1, <5>2
      <4>7. c2 = [d EXCEPT !.blocks = c1.blocks + 1]
        BY <1>8, <4>2, <4>4, <4>5
      <4> QED
        BY <4>1, <4>3, <4>6, <4>7
    <3> HIDE DEF d
    <3>4. out' \in Seq(Chunk) /\ Len(out') = n /\ out'[n] = d
      BY <1>9, <3>1, <3>2
    <3>5. Flushed(out)' = [out' EXCEPT ![n] = c2]
      <4>1. chunk'.type # "none" /\ chunk'.blocks = c1.blocks + 1
        BY <1>15
      <4>2. Flushed(out)' = [out' EXCEPT ![Len(out')].blocks = c1.blocks + 1]
        BY <4>1 DEF Flushed
      <4> QED
        BY <3>3, <3>4, <4>2
    <3>6. Flushed(out)' = [g EXCEPT ![n] = c2]
      <4>1. [[f EXCEPT ![n] = d] EXCEPT ![n] = c2] = [f EXCEPT ![n] = c2]
        OBVIOUS
      <4> HIDE DEF c2
      <4> QED
        BY <1>9, <2>1, <3>1, <3>5, <4>1
    <3>7. c1.type = "raw" /\ c1.blocks < MaxRawBlocks /\ c1.blocks = Len(c1.body)
      BY <1>7, <1>13, <2>3 DEF Right
    <3>8. \A i \in Nat : Gives(c1, i, k) => Gives(c2, i, k + 1)
      BY <1>1, <1>13, <3>7, MoreRaw
    <3>9. Right(c2)
      <4>1. c1.body \in Seq(Seq(Nat)) /\ Len(Append(c1.body, x)) = Len(c1.body) + 1
        BY <1>11, <1>13, <3>0
      <4>2. MaxRawBlocks \in Nat
        BY <1>1, Types
      <4> HIDE DEF c2
      <4> QED
        BY <1>13, <3>3, <3>7, <4>1, <4>2 DEF Right
    <3>10. out'[n].type = c1.type
      BY <1>9, <1>13, <3>2, <3>4
    <3> HIDE DEF c2
    <3> QED
      BY <3>3, <3>4, <3>6, <3>7, <3>8, <3>9, <3>10
  <2> QED
    BY <2>2, <2>3
<1>17. Expands([g EXCEPT ![n] = c2], k + 1)
  <2>1. \A i \in Nat : Gives(g[Len(g)], i, k) => Gives(c2, i, k + 1)
    BY <1>10, <1>16
  <2>2. Len(g) > 0 /\ k + 1 \in Nat
    BY <1>9, <1>10
  <2>3. Expands([g EXCEPT ![Len(g)] = c2], k + 1)
    BY <1>10, <2>1, <2>2, ExpandsLast
  <2> QED
    BY <1>10, <2>3
<1>18. \A m \in DOMAIN [g EXCEPT ![n] = c2] : Right([g EXCEPT ![n] = c2][m])
  BY <1>10, <1>16
<1>19. chunk' \in [type : Type, blocks : Nat] /\ chunk'.type \in {"raw", "fill"}
       /\ chunk'.type = c1.type
  BY <1>7, <1>13, <1>15 DEF Type
<1>20. Flushed(out)' = [g EXCEPT ![n] = c2]
  BY <1>16
<1>21. /\ Expands(Flushed(out)', Blocks(from) + 1)
       /\ \A m \in DOMAIN Flushed(out)' : Right(Flushed(out)'[m])
  BY <1>3, <1>17, <1>18, <1>20
<1>22. out' \in Seq(Chunk) /\ Len(out') = Len(out) /\ Len(out) > 0
       /\ chunk'.type = out'[Len(out')].type
  BY <1>4, <1>9, <1>16, <1>19
<1> QED
  BY <1>19, <1>21, <1>22

\* What depends on the file alone
LEMMA SameInput ==
    ASSUME UNCHANGED input
    PROVE  /\ \A b : BlockOf(b)' = BlockOf(b)
           /\ \A k : FirstBlocks(k)' = FirstBlocks(k)
           /\ \A z : Wide(z)' = Wide(z)
           /\ Length' = Length /\ BlockCount' = BlockCount /\ Padded' = Padded
           /\ \A f, k : Expands(f, k)' = Expands(f, k)
           /\ \A c : Right(c)' = Right(c)
<1>1. Length' = Length /\ \A b : BlockOf(b)' = BlockOf(b)
  BY DEF Length, BlockOf, WordOf
<1>2. \A k : FirstBlocks(k)' = FirstBlocks(k)
  BY <1>1 DEF FirstBlocks
<1>3. BlockCount' = BlockCount
  BY <1>1 DEF BlockCount
<1>4. Padded' = Padded
  BY <1>1, <1>3 DEF Padded
<1>5. \A z : Wide(z)' = Wide(z)
  BY <1>1 DEF Wide
<1>6. \A c : Right(c)' = Right(c)
  BY <1>4 DEF Right
<1>7. \A f, k : Expands(f, k)' = Expands(f, k)
  BY <1>1 DEF Expands, Stands, Gives
<1> QED
  BY <1>1, <1>2, <1>3, <1>4, <1>5, <1>6, <1>7

\* The extents stay as they are when they have been merged.
LEMMA SameExtents ==
    ASSUME MergeInv, UNCHANGED <<input, extents>>, Writing' => Writing, pc' # "merge"
    PROVE  MergeInv'
<1>1. Passed' \subseteq Passed /\ Left' = {}
  <2>1. Writing => pc # "merge"
    BY DEF Writing
  <2> QED
    BY <2>1 DEF Passed, Left
<1>2. /\ \A z : Wide(z)' = Wide(z)
      /\ Length' = Length
  BY SameInput
<1>3. WideInv'
  BY <1>1, <1>2 DEF MergeInv, WideInv
<1>4. PlainInv' /\ AheadInv'
  BY <1>1 DEF PlainInv, AheadInv
<1>5. ApartInv'
  BY <1>1, <1>2 DEF MergeInv, ApartInv
<1>6. DataInv'
  BY DEF MergeInv, DataInv
<1> QED
  BY <1>3, <1>4, <1>5, <1>6 DEF MergeInv

\* The step of a block
LEMMA BlockStep == IInv /\ Block => IInv'
<1> SUFFICES ASSUME IInv, Block PROVE IInv'
  OBVIOUS
<1>1. /\ TypeOK /\ MergeInv /\ PlaceInv /\ FileInv /\ pc = "block" /\ pc' = "block" /\ size > 0
      /\ UNCHANGED <<input, fillHoles, addCrc, ret, extents, e, block, header>>
      /\ from' = from + Now /\ size' = size - Now /\ crc' = Append(crc, Words)
      /\ chunks' = IF Continues THEN chunks ELSE chunks + 1
  BY DEF IInv, Block, Read, options
<1>2. /\ Now \in Nat /\ Now <= size /\ Blocks(from) \in Nat
      /\ Words = BlockOf(Blocks(from) + 1) /\ Blocks(from + Now) = Blocks(from) + 1
      /\ size - Now > 0 => (from + Now) % BlockSize = 0
      /\ from \in Nat /\ size \in Nat /\ chunks \in Nat /\ Len(out) \in Nat
  BY <1>1, NextBlock DEF TypeOK
<1>3. /\ out' \in Seq(Chunk) /\ Len(out') = Len(out) + (IF Continues THEN 0 ELSE 1)
      /\ Len(out') > 0 /\ chunk'.type = out'[Len(out')].type
      /\ chunk' \in [type : Type, blocks : Nat] /\ chunk'.type \in {"raw", "fill"}
      /\ Expands(Flushed(out)', Blocks(from) + 1)
      /\ \A n \in DOMAIN Flushed(out)' : Right(Flushed(out)'[n])
  <2>1. CASE Continues
    BY <1>2, <2>1, BlockContinues
  <2>2. CASE ~Continues
    BY <1>2, <2>2, BlockBegins
  <2> QED
    BY <2>1, <2>2
<1>4. /\ \A k : FirstBlocks(k)' = FirstBlocks(k)
      /\ \A z : Wide(z)' = Wide(z)
      /\ Length' = Length /\ BlockCount' = BlockCount
      /\ \A f, k : Expands(f, k)' = Expands(f, k)
      /\ \A c : Right(c)' = Right(c)
  BY <1>1, SameInput
<1>5. TypeOK'
  <2>1. crc' \in Seq(Seq(Nat))
    <3>1. Words \in Seq(Nat) /\ crc \in Seq(Seq(Nat))
      <4>1. Blocks(from) + 1 \in Nat \ {0}
        BY <1>2
      <4> QED
        BY <1>1, <1>2, <4>1, BlockType DEF TypeOK
    <3> QED
      BY <1>1, <3>1
  <2>2. from' \in Nat /\ size' \in Nat /\ chunks' \in Nat
    BY <1>1, <1>2
  <2> QED
    BY <1>1, <1>3, <2>1, <2>2 DEF TypeOK
<1>6. MergeInv'
  BY <1>1, SameExtents DEF Writing
<1>7. PlaceInv'
  <2>1. from' + size' = from + size /\ from <= from'
    BY <1>1, <1>2
  <2>2. extents[e][1] \in Nat
    BY <1>1 DEF PlaceInv, TypeOK
  <2>3. extents[e][1] <= from'
    BY <1>1, <1>2, <2>1, <2>2 DEF PlaceInv
  <2> QED
    BY <1>1, <1>2, <1>4, <2>1, <2>3 DEF PlaceInv, Writing
<1>8. OpenInv'
  BY <1>3 DEF OpenInv
<1>9. FileInv'
  <2>1. /\ crc = FirstBlocks(Blocks(from)) /\ chunks = Len(out)
    BY <1>1 DEF FileInv, Writing, Covered
  <2>2. crc' = FirstBlocks(Blocks(from) + 1)
    <3>1. Append(FirstBlocks(Blocks(from)), BlockOf(Blocks(from) + 1))
            = FirstBlocks(Blocks(from) + 1)
      BY <1>1, <1>2, FirstAppend
    <3> QED
      BY <1>1, <1>2, <2>1, <3>1
  <2>3. Final' = Flushed(out)' /\ Covered' = Blocks(from) + 1
    BY <1>1, <1>2 DEF Final, Covered
  <2>4. chunks' = Len(out')
    BY <1>1, <1>2, <1>3, <2>1
  <2> QED
    BY <1>3, <1>4, <2>2, <2>3, <2>4 DEF FileInv
<1>10. EarlyInv' /\ HeaderInv'
  BY <1>1 DEF EarlyInv, HeaderInv, Done
<1> QED
  BY <1>5, <1>6, <1>7, <1>8, <1>9, <1>10 DEF IInv

LEMMA MapExtentsStep == IInv /\ MapExtents => IInv'
<1> SUFFICES ASSUME IInv, MapExtents PROVE IInv'
  OBVIOUS
<1>1. /\ TypeOK /\ MergeInv /\ EarlyInv /\ PlaceInv /\ pc = "map" /\ pc' = "merge" /\ e = 1
      /\ UNCHANGED <<input, fillHoles, addCrc, ret, e, block, from, size, chunk, chunks, crc, out,
                     header>>
  BY DEF IInv, MapExtents, options, position, EarlyInv
<1>2. TypeOK'
  <2>1. extents' \in Seq(Nat \X Nat)
    <3>1. Whole \in Seq(Nat \X Nat) /\ input.extents \in Seq(Nat \X Nat)
      BY <1>1, Types DEF Whole
    <3> QED
      BY <3>1 DEF MapExtents, Mapped
  <2> QED
    BY <1>1, <2>1 DEF TypeOK
<1>3. MergeInv'
  BY <1>1, MapStep
<1>4. PlaceInv' /\ OpenInv' /\ FileInv' /\ HeaderInv' /\ EarlyInv'
  BY <1>1 DEF PlaceInv, OpenInv, FileInv, HeaderInv, EarlyInv, Writing, Written, Done
<1> QED
  BY <1>2, <1>3, <1>4 DEF IInv

LEMMA MergeExtentsStep == IInv /\ Merge => IInv'
<1> SUFFICES ASSUME IInv, Merge PROVE IInv'
  OBVIOUS
<1>1. /\ TypeOK /\ MergeInv /\ EarlyInv /\ pc = "merge" /\ pc' = "merge" /\ e' = e + 1
      /\ UNCHANGED <<input, fillHoles, addCrc, ret, block, from, size, chunk, chunks, crc, out,
                     header>>
      /\ e \in Nat \ {0} /\ e \in DOMAIN extents
  BY DEF IInv, Merge, options, TypeOK
<1>2. extents' \in Seq(Nat \X Nat)
  <2>1. PICK x : x = Widened(extents[e])
    OBVIOUS
  <2>2. x \in Nat \X Nat
    <3>1. PICK p \in Nat \X Nat : p = extents[e]
      BY <1>1 DEF TypeOK
    <3>2. /\ (p[1] \div BlockSize) * BlockSize \in Nat
          /\ Blocks(p[2]) * BlockSize \in Nat /\ Length \in Nat
      BY <1>1, Below, Above, Multiples, Types
    <3> QED
      BY <2>1, <3>1, <3>2 DEF Widened, WideEnd, MinOf
  <2>3. PICK j : j = Previous(e)
    OBVIOUS
  <2>4. PICK z \in Seq(Nat \X Nat) : z = extents
    BY <1>1 DEF TypeOK
  <2>5. PICK n \in Nat : n = e
    BY <1>1
  <2>6. n \in DOMAIN z /\ DOMAIN z = 1..Len(z)
    BY <1>1, <2>4, <2>5
  <2>7. CASE e > 1 /\ Meets(x, j)
    <3>1. extents' = [z EXCEPT ![j][2] = x[2], ![n] = <<0, 0>>]
      BY <2>1, <2>3, <2>4, <2>5, <2>7 DEF Merge
    <3>2. j \in DOMAIN z
      <4>1. j \in 1..(n - 1)
        BY <1>1, <2>3, <2>5, <2>7, PreviousIs
      <4> QED
        BY <2>6, <4>1
    <3>3. PICK p \in Nat \X Nat : p = z[j]
      BY <3>2
    <3>4. \A m \in DOMAIN z : z[m] \in Nat \X Nat
      OBVIOUS
    <3>5. PICK a \in Nat : a = x[2]
      BY <2>2
    <3>6. [p EXCEPT ![2] = a] \in Nat \X Nat /\ <<0, 0>> \in Nat \X Nat
      OBVIOUS
    <3>7. extents' = [m \in DOMAIN z |-> IF m = n THEN <<0, 0>>
                                         ELSE IF m = j THEN [p EXCEPT ![2] = a] ELSE z[m]]
      BY <3>1, <3>2, <3>3, <3>5, <2>6
    <3>8. PICK l \in Nat : l = Len(z)
      OBVIOUS
    <3>9. PICK h : h = extents'
      OBVIOUS
    <3>10. h \in [1..l -> Nat \X Nat]
      BY <2>6, <3>4, <3>6, <3>7, <3>8, <3>9
    <3>11. h \in Seq(Nat \X Nat)
      BY <3>10
    <3> QED
      BY <3>9, <3>11
  <2>8. CASE ~(e > 1 /\ Meets(x, j))
    <3>1. extents' = [z EXCEPT ![n] = x]
      BY <2>1, <2>3, <2>4, <2>5, <2>8 DEF Merge
    <3> QED
      BY <2>2, <2>6, <3>1
  <2> QED
    BY <2>7, <2>8
<1>3. TypeOK'
  BY <1>1, <1>2 DEF TypeOK
<1>4. MergeInv'
  BY <1>1, MergeStep
<1>5. PlaceInv' /\ OpenInv' /\ FileInv' /\ HeaderInv' /\ EarlyInv'
  BY <1>1 DEF PlaceInv, OpenInv, FileInv, HeaderInv, EarlyInv, Writing, Written, Done
<1> QED
  BY <1>3, <1>4, <1>5 DEF IInv

LEMMA MergeDoneStep == IInv /\ MergeDone => IInv'
<1> SUFFICES ASSUME IInv, MergeDone PROVE IInv'
  OBVIOUS
<1>1. /\ TypeOK /\ MergeInv /\ EarlyInv /\ pc = "merge" /\ pc' = "extent" /\ e' = 1
      /\ e > Len(extents)
      /\ UNCHANGED <<input, fillHoles, addCrc, ret, extents, block, from, size, chunk, chunks, crc,
                     out, header>>
      /\ out = <<>> /\ crc = <<>> /\ chunks = 0 /\ block = 0
  BY DEF IInv, MergeDone, options, EarlyInv
<1>2. TypeOK'
  BY <1>1 DEF TypeOK
<1>3. /\ \A z : Wide(z)' = Wide(z) /\ Length' = Length /\ BlockCount' = BlockCount
      /\ \A f, k : Expands(f, k)' = Expands(f, k)
      /\ FirstBlocks(0)' = FirstBlocks(0)
  BY <1>1, SameInput
<1>4. MergeInv'
  <2>1. Passed' = Passed /\ Left' = {}
    <3>1. \A n \in DOMAIN extents : n < e
      BY <1>1 DEF TypeOK
    <3> QED
      BY <1>1, <3>1 DEF Passed, Left, Writing
  <2>2. WideInv'
    BY <1>1, <1>3, <2>1 DEF MergeInv, WideInv
  <2>3. PlainInv' /\ AheadInv'
    BY <2>1 DEF PlainInv, AheadInv
  <2>4. ApartInv'
    BY <1>1, <1>3, <2>1 DEF MergeInv, ApartInv
  <2>5. DataInv'
    BY <1>1 DEF MergeInv, DataInv
  <2> QED
    BY <1>1, <2>2, <2>3, <2>4, <2>5 DEF MergeInv
<1>5. PlaceInv'
  <2>1. 0 * BlockSize = 0
    BY ConstantsType, Z3
  <2>2. BlockCount \in Nat
    BY <1>1, Types, Above DEF BlockCount
  <2>3. \A n \in DOMAIN extents : n >= 1 /\ ~(n < 1) /\ extents[n][1] \in Nat
    BY <1>1 DEF TypeOK
  <2>4. \A n \in DOMAIN extents : 0 <= extents[n][1]
    BY <2>3
  <2> QED
    BY <1>1, <1>3, <2>1, <2>2, <2>3, <2>4 DEF PlaceInv
<1>6. FileInv'
  <2>1. FirstBlocks(0) = <<>>
    BY DEF FirstBlocks
  <2>2. Final' = <<>> /\ Covered' = 0
    BY <1>1 DEF Final, Covered, Written, Done
  <2>3. Expands(<<>>, 0)'
    BY <1>3, ExpandsNone
  <2>4. DOMAIN <<>> = {} /\ Len(<<>>) = 0
    OBVIOUS
  <2> QED
    BY <1>1, <1>3, <2>1, <2>2, <2>3, <2>4 DEF FileInv
<1>7. OpenInv' /\ HeaderInv' /\ EarlyInv'
  BY <1>1 DEF OpenInv, HeaderInv, EarlyInv, Done
<1> QED
  BY <1>2, <1>4, <1>5, <1>6, <1>7 DEF IInv

\* Where an extent begins, and that those behind it begin later
LEMMA ExtentAt ==
    ASSUME TypeOK, MergeInv, Writing, e \in DOMAIN extents, Wide(extents[e])
    PROVE  /\ extents[e] \in Nat \X Nat
           /\ extents[e][1] < extents[e][2] /\ extents[e][2] <= Length
           /\ extents[e][1] \div BlockSize \in Nat
           /\ (extents[e][1] \div BlockSize) * BlockSize = extents[e][1]
           /\ Blocks(extents[e][1]) = extents[e][1] \div BlockSize
           /\ \A n \in DOMAIN extents : n > e /\ Wide(extents[n]) =>
                 /\ extents[e][2] < extents[n][1]
                 /\ Blocks(extents[e][2]) * BlockSize = extents[e][2]
           /\ \A n \in DOMAIN extents : n < e /\ Wide(extents[n]) =>
                 extents[n][2] < extents[e][1]
<1>1. PICK p \in Nat \X Nat : p = extents[e]
  BY DEF TypeOK
<1>2. /\ p[1] < p[2] /\ p[2] <= Length /\ p[1] % BlockSize = 0
      /\ p[2] % BlockSize = 0 \/ p[2] = Length
  BY <1>1 DEF Wide
<1>3. /\ p[1] \div BlockSize \in Nat /\ (p[1] \div BlockSize) * BlockSize = p[1]
      /\ Blocks(p[1]) = p[1] \div BlockSize
  <2>1. PICK a \in Nat : a = p[1]
    OBVIOUS
  <2>2. a % BlockSize = 0
    BY <1>2, <2>1
  <2>3. a \div BlockSize \in Nat
    BY Below
  <2>4. Blocks(a) = a \div BlockSize /\ (a \div BlockSize) * BlockSize = a
    BY <2>2, Exact
  <2> QED
    BY <2>1, <2>3, <2>4
<1>4. Passed = DOMAIN extents
  BY DEF Passed, Writing
<1>5. ASSUME NEW n \in DOMAIN extents, n > e, Wide(extents[n])
      PROVE  p[2] < extents[n][1] /\ Blocks(p[2]) * BlockSize = p[2]
  <2>1. p[2] < extents[n][1]
    <3>1. e < n
      BY <1>5 DEF TypeOK
    <3> QED
      BY <1>1, <1>4, <1>5, <3>1 DEF MergeInv, ApartInv
  <2>2. PICK q \in Nat \X Nat : q = extents[n]
    BY DEF TypeOK
  <2>3. q[1] < q[2] /\ q[2] <= Length /\ Length \in Nat
    BY <1>5, <2>2, Types DEF Wide
  <2>4. p[2] % BlockSize = 0
    BY <1>2, <2>1, <2>2, <2>3
  <2> QED
    BY <2>1, <2>4, Exact
<1>6. ASSUME NEW n \in DOMAIN extents, n < e, Wide(extents[n])
      PROVE  extents[n][2] < p[1]
  BY <1>1, <1>4, <1>6 DEF MergeInv, ApartInv
<1>7. extents[e] \in Nat \X Nat
  BY <1>1
<1>8. /\ extents[e][1] < extents[e][2] /\ extents[e][2] <= Length
      /\ extents[e][1] \div BlockSize \in Nat
      /\ (extents[e][1] \div BlockSize) * BlockSize = extents[e][1]
      /\ Blocks(extents[e][1]) = extents[e][1] \div BlockSize
  BY <1>1, <1>2, <1>3
<1>9. \A n \in DOMAIN extents : n > e /\ Wide(extents[n]) =>
                 /\ extents[e][2] < extents[n][1]
                 /\ Blocks(extents[e][2]) * BlockSize = extents[e][2]
  BY <1>1, <1>5
<1>10. \A n \in DOMAIN extents : n < e /\ Wide(extents[n]) =>
                 extents[n][2] < extents[e][1]
  BY <1>1, <1>6
<1> QED
  BY <1>7, <1>8, <1>9, <1>10

LEMMA ExtentStep == IInv /\ Extent => IInv'
<1> SUFFICES ASSUME IInv, Extent PROVE IInv'
  OBVIOUS
<1>1. /\ TypeOK /\ MergeInv /\ PlaceInv /\ FileInv /\ pc = "extent" /\ pc' = "block" /\ Writing
      /\ UNCHANGED <<input, fillHoles, addCrc, ret, extents, e, header>>
      /\ e \in DOMAIN extents /\ extents[e][2] > extents[e][1]
      /\ from' = extents[e][1] /\ size' = extents[e][2] - extents[e][1]
      /\ chunk' = [type |-> "none", blocks |-> 0]
  BY DEF IInv, Extent, options, Writing, TypeOK
<1>2. Wide(extents[e])
  <2>1. e \in Passed
    BY <1>1 DEF Passed, Writing
  <2>2. Wide(extents[e]) \/ extents[e] = <<0, 0>>
    BY <2>1 DEF IInv, MergeInv, WideInv
  <2> QED
    BY <1>1, <2>2
<1>3. PICK p \in Nat \X Nat : p = extents[e]
  BY <1>1, <1>2, ExtentAt
<1>4. PICK s \in Nat : s = p[1] \div BlockSize
  BY <1>1, <1>2, <1>3, ExtentAt
<1>5. /\ p[1] < p[2] /\ p[2] <= Length /\ s * BlockSize = p[1] /\ Blocks(p[1]) = s
      /\ \A n \in DOMAIN extents : n > e /\ Wide(extents[n]) => p[2] < extents[n][1]
      /\ \A n \in DOMAIN extents : n < e /\ Wide(extents[n]) => extents[n][2] < p[1]
  BY <1>1, <1>2, <1>3, <1>4, ExtentAt
<1>6. /\ block \in Nat /\ block * BlockSize <= p[1] /\ block <= s /\ chunks \in Nat
  <2>1. block \in Nat /\ chunks \in Nat /\ ~(e < e)
    BY <1>1 DEF TypeOK
  <2>2. block * BlockSize <= p[1] /\ block * BlockSize \in Nat /\ BlockSize \in Nat \ {0}
    BY <1>1, <1>2, <1>3, <2>1, Multiples, Types DEF PlaceInv
  <2>3. block * BlockSize < s * BlockSize + BlockSize
    BY <1>5, <2>2
  <2> QED
    BY <2>1, <2>2, <2>3, Between
<1>7. /\ Expands(out, block) /\ crc = FirstBlocks(block) /\ chunks = Len(out)
      /\ \A n \in DOMAIN out : Right(out[n])
  BY <1>1 DEF FileInv, Final, Covered, Written, Done
<1>8. /\ block' = s /\ Expands(out', s) /\ crc' = FirstBlocks(s) /\ chunks' = Len(out')
      /\ \A n \in DOMAIN out' : Right(out'[n])
      /\ out' \in Seq(Chunk)
  <2>1. CASE block < s
    <3>1. /\ chunks' = chunks + 1 /\ out' = Skip(out, s - block)
          /\ crc' = crc \o Zeros(s - block) /\ block' = s
      BY <1>3, <1>4, <2>1 DEF Extent
    <3>2. ASSUME NEW b \in Nat, block < b, b <= s PROVE BlockOf(b) = ZeroBlock
      <4>1. ASSUME NEW n \in DOMAIN extents, n >= e, Wide(extents[n])
            PROVE  b * BlockSize <= extents[n][1]
        <5>1. b * BlockSize <= p[1] /\ b * BlockSize \in Nat
          BY <1>5, <3>2, Multiples
        <5>2. n = e \/ n > e
          BY <1>1, <4>1 DEF TypeOK
        <5>3. extents[n][1] \in Nat
          BY <1>1 DEF TypeOK
        <5>4. n > e => p[1] < extents[n][1]
          BY <1>5, <4>1, <5>3
        <5> QED
          BY <1>3, <5>1, <5>2, <5>3, <5>4
      <4> QED
        BY <1>1, <3>2, <4>1, ZeroBlocks
    <3>3. out \in Seq(Chunk)
      BY <1>1 DEF TypeOK
    <3>4. PICK g : g = Skip(out, s - block)
      OBVIOUS
    <3>5. /\ Expands(g, s) /\ g \in Seq(Chunk) /\ Len(g) = Len(out) + 1
          /\ \A n \in DOMAIN g : Right(g[n])
          /\ FirstBlocks(block) \o Zeros(s - block) = FirstBlocks(s)
      <4>1. PICK k \in Nat : k = block
        BY <1>6
      <4>2. k < s /\ Expands(out, k)
        BY <1>7, <2>1, <4>1
      <4>3. Blank(k, s)
        BY <3>2, <4>1 DEF Blank
      <4>4. TypeOK /\ \A n \in DOMAIN out : Right(out[n])
        BY <1>1, <1>7
      <4>5. PICK f \in Seq(Chunk) : f = out
        BY <3>3
      <4>6. Expands(f, k) /\ \A n \in DOMAIN f : Right(f[n])
        BY <4>2, <4>4, <4>5
      <4>7. /\ Expands(Skip(f, s - k), s) /\ Skip(f, s - k) \in Seq(Chunk)
            /\ Len(Skip(f, s - k)) = Len(f) + 1
            /\ AllRight(f) => AllRight(Skip(f, s - k))
            /\ FirstBlocks(k) \o Zeros(s - k) = FirstBlocks(s)
        BY <4>2, <4>3, <4>4, <4>6, Skips
      <4> QED
        BY <3>4, <4>1, <4>5, <4>6, <4>7 DEF AllRight
    <3> QED
      BY <1>7, <3>1, <3>4, <3>5
  <2>2. CASE ~(block < s)
    <3>1. UNCHANGED <<chunks, out, crc, block>>
      BY <1>3, <1>4, <2>2 DEF Extent
    <3>2. block = s
      BY <1>6, <2>2
    <3> QED
      BY <1>1, <1>7, <3>1, <3>2 DEF TypeOK
  <2> QED
    BY <2>1, <2>2
<1>9. /\ \A k : FirstBlocks(k)' = FirstBlocks(k)
      /\ \A z : Wide(z)' = Wide(z) /\ BlockCount' = BlockCount
      /\ \A f, k : Expands(f, k)' = Expands(f, k)
      /\ \A c : Right(c)' = Right(c)
  BY <1>1, SameInput
<1>10. TypeOK'
  <2>1. crc' \in Seq(Seq(Nat))
    BY <1>1, <1>8, FirstType
  <2>2. from' \in Nat /\ size' \in Nat
    BY <1>1, <1>3, <1>5
  <2>3. chunk' \in [type : Type, blocks : Nat] /\ chunks' \in Nat
    BY <1>1, <1>8 DEF Type
  <2> QED
    BY <1>1, <1>8, <2>1, <2>2, <2>3 DEF TypeOK
<1>11. MergeInv'
  BY <1>1, SameExtents
<1>12. PlaceInv'
  <2>1. s <= BlockCount
    <3>1. /\ BlockCount \in Nat /\ Length <= BlockCount * BlockSize /\ Length \in Nat
          /\ BlockCount * BlockSize \in Nat /\ BlockSize \in Nat
      BY <1>1, Types, Above, Multiples DEF BlockCount
    <3>2. s * BlockSize < BlockCount * BlockSize + BlockSize
      BY <1>5, <3>1
    <3> QED
      BY <3>1, <3>2, Between
  <2>2. ASSUME NEW n \in DOMAIN extents, Wide(extents[n])
        PROVE  IF n < e THEN extents[n][2] <= s * BlockSize ELSE s * BlockSize <= extents[n][1]
    <3>1. PICK q \in Nat \X Nat : q = extents[n]
      BY <1>1 DEF TypeOK
    <3>2. n \in Int /\ e \in Int
      BY <1>1 DEF TypeOK
    <3>3. CASE n < e
      <4>1. q[2] < p[1]
        BY <1>5, <2>2, <3>1, <3>3
      <4> QED
        BY <1>5, <3>1, <3>3, <4>1
    <3>4. CASE n = e
      <4>1. ~(n < e) /\ extents[n] = p
        BY <1>3, <3>2, <3>4
      <4>2. s * BlockSize = p[1] /\ p[1] <= p[1]
        BY <1>5
      <4> QED
        BY <4>1, <4>2
    <3>5. CASE n > e
      <4>1. p[2] < q[1]
        BY <1>5, <2>2, <3>1, <3>5
      <4>2. ~(n < e) /\ s * BlockSize = p[1] /\ p[1] < p[2]
        BY <1>5, <3>2, <3>5
      <4>3. p[1] <= q[1]
        BY <4>1, <4>2
      <4> QED
        BY <3>1, <4>2, <4>3
    <3> QED
      BY <3>2, <3>3, <3>4, <3>5
  <2>3. from' + size' = extents[e][2] /\ extents[e][1] <= from' /\ from' % BlockSize = 0
    <3>1. p[1] + (p[2] - p[1]) = p[2] /\ p[1] <= p[1]
      OBVIOUS
    <3> QED
      BY <1>1, <1>2, <1>3, <3>1 DEF Wide
  <2> QED
    BY <1>1, <1>2, <1>8, <1>9, <2>1, <2>2, <2>3 DEF PlaceInv
<1>13. FileInv'
  <2>1. Final' = out' /\ Covered' = s
    BY <1>1, <1>3, <1>5 DEF Final, Covered, Flushed
  <2> QED
    BY <1>8, <1>9, <2>1 DEF FileInv
<1>14. OpenInv' /\ EarlyInv' /\ HeaderInv'
  BY <1>1 DEF OpenInv, EarlyInv, HeaderInv, Done
<1> QED
  BY <1>10, <1>11, <1>12, <1>13, <1>14 DEF IInv

LEMMA RemovedStep == IInv /\ Removed => IInv'
<1> SUFFICES ASSUME IInv, Removed PROVE IInv'
  OBVIOUS
<1>1. /\ TypeOK /\ MergeInv /\ PlaceInv /\ FileInv /\ pc = "extent" /\ pc' = "extent" /\ Writing
      /\ e \in DOMAIN extents /\ extents[e][2] = extents[e][1] /\ e' = e + 1 /\ e \in Nat
      /\ UNCHANGED <<input, fillHoles, addCrc, ret, extents, block, from, size, chunk, chunks, crc,
                     out, header>>
  BY DEF IInv, Removed, options, Writing, TypeOK
<1>2. TypeOK'
  <2>1. e' \in Nat \ {0}
    BY <1>1
  <2> QED
    BY <1>1, <2>1 DEF TypeOK
<1>3. MergeInv'
  BY <1>1, SameExtents
<1>4. /\ \A k : FirstBlocks(k)' = FirstBlocks(k)
      /\ \A z : Wide(z)' = Wide(z) /\ BlockCount' = BlockCount
      /\ \A f, k : Expands(f, k)' = Expands(f, k)
      /\ \A c : Right(c)' = Right(c)
  BY <1>1, SameInput
<1>5. PlaceInv'
  <2>1. ~Wide(extents[e])
    <3>1. PICK p \in Nat \X Nat : p = extents[e]
      BY <1>1 DEF TypeOK
    <3> QED
      BY <1>1, <3>1 DEF Wide
  <2>2. \A n \in DOMAIN extents : Wide(extents[n]) => (n < e <=> n < e + 1)
    <3>1. ASSUME NEW n \in DOMAIN extents, Wide(extents[n]) PROVE n < e <=> n < e + 1
      <4>1. n # e
        BY <2>1, <3>1
      <4>2. n \in Int
        BY <1>1 DEF TypeOK
      <4> QED
        BY <1>1, <4>1, <4>2
    <3> QED
      BY <3>1
  <2>3. block <= BlockCount /\ \A n \in DOMAIN extents :
              Wide(extents[n]) => IF n < e THEN extents[n][2] <= block * BlockSize
                                  ELSE block * BlockSize <= extents[n][1]
    BY <1>1 DEF PlaceInv
  <2>4. \A n \in DOMAIN extents :
              Wide(extents[n]) => IF n < e + 1 THEN extents[n][2] <= block * BlockSize
                                  ELSE block * BlockSize <= extents[n][1]
    BY <2>2, <2>3
  <2> QED
    BY <1>1, <1>4, <2>3, <2>4 DEF PlaceInv
<1>6. FileInv'
  BY <1>1, <1>4 DEF FileInv, Final, Covered, Written, Done
<1>7. OpenInv' /\ EarlyInv' /\ HeaderInv'
  BY <1>1 DEF OpenInv, EarlyInv, HeaderInv, Done
<1> QED
  BY <1>2, <1>3, <1>5, <1>6, <1>7 DEF IInv

LEMMA ExtentDoneStep == IInv /\ ExtentDone => IInv'
<1> SUFFICES ASSUME IInv, ExtentDone PROVE IInv'
  OBVIOUS
<1>1. /\ TypeOK /\ MergeInv /\ PlaceInv /\ FileInv /\ OpenInv
      /\ pc = "block" /\ pc' = "extent" /\ Writing /\ Writing'
      /\ e \in DOMAIN extents /\ Wide(extents[e]) /\ e' = e + 1 /\ e \in Nat /\ size = 0
      /\ from + size = extents[e][2]
      /\ out' = Flushed(out) /\ block' = Blocks(extents[e][2])
      /\ UNCHANGED <<input, fillHoles, addCrc, ret, extents, from, size, chunk, chunks, crc, header>>
  BY DEF IInv, ExtentDone, options, Writing, TypeOK, PlaceInv
<1>2. PICK p \in Nat \X Nat : p = extents[e]
  BY <1>1 DEF TypeOK
<1>3. from = p[2] /\ p[2] <= Length
  <2>1. from \in Nat /\ size \in Nat
    BY <1>1 DEF TypeOK
  <2> QED
    BY <1>1, <1>2, <2>1 DEF Wide
<1>4. PICK k \in Nat : k = Blocks(p[2])
  BY Above
<1>5. block' = k /\ p[2] <= k * BlockSize /\ k <= BlockCount /\ Covered = k
  <2>1. Length \in Nat
    BY <1>1, Types
  <2> QED
    BY <1>1, <1>2, <1>3, <1>4, <2>1, Above, Rising DEF BlockCount, Covered
<1>6. Flushed(out) \in Seq(Chunk) /\ Len(Flushed(out)) = Len(out)
  BY <1>1, FlushedIs
<1>7. TypeOK'
  BY <1>1, <1>5, <1>6 DEF TypeOK
<1>8. MergeInv'
  BY <1>1, SameExtents
<1>9. /\ \A l : FirstBlocks(l)' = FirstBlocks(l)
      /\ \A z : Wide(z)' = Wide(z) /\ BlockCount' = BlockCount
      /\ \A f, l : Expands(f, l)' = Expands(f, l)
      /\ \A c : Right(c)' = Right(c)
  BY <1>1, SameInput
<1>10. PlaceInv'
  <2>1. ASSUME NEW n \in DOMAIN extents, Wide(extents[n])
        PROVE  IF n < e + 1 THEN extents[n][2] <= k * BlockSize
               ELSE k * BlockSize <= extents[n][1]
    <3>1. PICK q \in Nat \X Nat : q = extents[n]
      BY <1>1 DEF TypeOK
    <3>2. n \in Int /\ e \in Int
      BY <1>1 DEF TypeOK
    <3>3. PICK kB \in Nat : kB = k * BlockSize
      BY <1>4, Multiples
    <3>4. p[2] <= kB
      BY <1>5, <3>3
    <3>5. CASE n < e
      <4>1. q[2] < p[1] /\ p[1] < p[2]
        BY <1>1, <1>2, <2>1, <3>1, <3>5, ExtentAt
      <4>2. q[2] <= kB /\ n < e + 1
        BY <3>2, <3>4, <3>5, <4>1
      <4> QED
        BY <3>1, <3>3, <4>2
    <3>6. CASE n = e
      <4>1. n < e + 1 /\ extents[n] = p
        BY <1>2, <3>2, <3>6
      <4> QED
        BY <3>3, <3>4, <4>1
    <3>7. CASE n > e
      <4>1. p[2] < q[1] /\ Blocks(p[2]) * BlockSize = p[2]
        BY <1>1, <1>2, <2>1, <3>1, <3>7, ExtentAt
      <4>2. kB = p[2] /\ ~(n < e + 1)
        BY <1>4, <3>2, <3>3, <3>7, <4>1
      <4>3. kB <= q[1]
        BY <4>1, <4>2
      <4> QED
        BY <3>1, <3>3, <4>2, <4>3
    <3> QED
      BY <3>2, <3>5, <3>6, <3>7
  <2> QED
    BY <1>1, <1>5, <1>9, <2>1 DEF PlaceInv
<1>11. FileInv'
  <2>1. Final = Flushed(out) /\ Final' = Flushed(out) /\ Covered' = k
    BY <1>1, <1>5 DEF Final, Covered, Written, Done
  <2> QED
    BY <1>1, <1>5, <1>6, <1>9, <2>1 DEF FileInv
<1>12. OpenInv' /\ EarlyInv' /\ HeaderInv'
  BY <1>1 DEF OpenInv, EarlyInv, HeaderInv, Done
<1> QED
  BY <1>7, <1>8, <1>10, <1>11, <1>12 DEF IInv

LEMMA ExtentsDoneStep == IInv /\ ExtentsDone => IInv'
<1> SUFFICES ASSUME IInv, ExtentsDone PROVE IInv'
  OBVIOUS
<1>1. /\ TypeOK /\ MergeInv /\ PlaceInv /\ FileInv /\ pc = "extent" /\ pc' = "tail"
      /\ Writing /\ Writing' /\ e > Len(extents)
      /\ UNCHANGED <<input, fillHoles, addCrc, ret, extents, e, block, from, size, chunk, chunks,
                     crc, out, header>>
  BY DEF IInv, ExtentsDone, options, position, Writing
<1>2. TypeOK'
  BY <1>1 DEF TypeOK
<1>3. MergeInv'
  BY <1>1, SameExtents
<1>4. /\ \A k : FirstBlocks(k)' = FirstBlocks(k)
      /\ \A z : Wide(z)' = Wide(z) /\ BlockCount' = BlockCount
      /\ \A f, k : Expands(f, k)' = Expands(f, k)
      /\ \A c : Right(c)' = Right(c)
  BY <1>1, SameInput
<1>5. PlaceInv'
  BY <1>1, <1>4 DEF PlaceInv
<1>6. FileInv'
  BY <1>1, <1>4 DEF FileInv, Final, Covered, Written, Done
<1>7. OpenInv' /\ EarlyInv' /\ HeaderInv'
  BY <1>1 DEF OpenInv, EarlyInv, HeaderInv, Done
<1> QED
  BY <1>2, <1>3, <1>5, <1>6, <1>7 DEF IInv

\* The steps of the end leave the extents alone: nothing is said of them there.
LEMMA EndInv ==
    ASSUME MergeInv, UNCHANGED <<input, extents>>, pc' \in {"crc", "header", "end"}
    PROVE  MergeInv' /\ PlaceInv' /\ OpenInv' /\ EarlyInv'
<1>1. ~Writing' /\ Passed' = {} /\ Left' = {}
  BY DEF Passed, Left, Writing
<1> QED
  BY <1>1 DEF MergeInv, WideInv, PlainInv, ApartInv, AheadInv, DataInv, PlaceInv, OpenInv,
              EarlyInv

LEMMA TailSkipStep == IInv /\ TailSkip => IInv'
<1> SUFFICES ASSUME IInv, TailSkip PROVE IInv'
  OBVIOUS
<1>1. /\ TypeOK /\ MergeInv /\ PlaceInv /\ FileInv /\ pc = "tail" /\ pc' = "crc" /\ Writing
      /\ UNCHANGED <<input, fillHoles, addCrc, ret, extents, e, block, from, size, chunk, header>>
      /\ e > Len(extents) /\ block <= BlockCount /\ block \in Nat /\ e \in Nat
  BY DEF IInv, TailSkip, options, position, Writing, TypeOK, PlaceInv
<1>2. /\ Expands(out, block) /\ crc = FirstBlocks(block) /\ chunks = Len(out)
      /\ AllRight(out)
  BY <1>1 DEF FileInv, Final, Covered, Written, Done, AllRight
<1>3. PICK k \in Nat, l \in Nat, f \in Seq(Chunk) : k = block /\ l = BlockCount /\ f = out
  <2>1. BlockCount \in Nat
    BY <1>1, Types, Above DEF BlockCount
  <2> QED
    BY <1>1, <2>1 DEF TypeOK
<1>4. /\ Expands(out', l) /\ crc' = FirstBlocks(l) /\ chunks' = Len(out')
      /\ AllRight(out') /\ out' \in Seq(Chunk)
  <2>1. CASE k < l
    <3>1. /\ chunks' = chunks + 1 /\ out' = Skip(f, l - k) /\ crc' = crc \o Zeros(l - k)
      BY <1>3, <2>1 DEF TailSkip
    <3>2. Blank(k, l)
      <4>1. ASSUME NEW b \in Nat, k < b PROVE BlockOf(b) = ZeroBlock
        <5>1. \A n \in DOMAIN extents : ~(n >= e)
          BY <1>1 DEF TypeOK
        <5> QED
          BY <1>1, <1>3, <4>1, <5>1, ZeroBlocks
      <4> QED
        BY <4>1 DEF Blank
    <3>3. Expands(f, k) /\ AllRight(f)
      BY <1>2, <1>3
    <3>4. /\ Expands(Skip(f, l - k), l)
          /\ Skip(f, l - k) \in Seq(Chunk) /\ Len(Skip(f, l - k)) = Len(f) + 1
          /\ AllRight(f) => AllRight(Skip(f, l - k))
          /\ FirstBlocks(k) \o Zeros(l - k) = FirstBlocks(l)
      BY <1>1, <2>1, <3>2, <3>3, Skips
    <3> QED
      BY <1>2, <1>3, <3>1, <3>3, <3>4
  <2>2. CASE ~(k < l)
    <3>1. UNCHANGED <<chunks, out, crc>> /\ k = l
      BY <1>1, <1>3, <2>2 DEF TailSkip
    <3> QED
      BY <1>2, <1>3, <3>1
  <2> QED
    BY <2>1, <2>2
<1>5. TypeOK'
  <2>1. crc' \in Seq(Seq(Nat)) /\ chunks' \in Nat
    BY <1>1, <1>4, FirstType
  <2> QED
    BY <1>1, <1>4, <2>1 DEF TypeOK
<1>6. MergeInv' /\ PlaceInv' /\ OpenInv' /\ EarlyInv'
  BY <1>1, EndInv
<1>7. FileInv'
  <2>1. /\ \A x : FirstBlocks(x)' = FirstBlocks(x) /\ BlockCount' = BlockCount
        /\ \A g, x : Expands(g, x)' = Expands(g, x)
        /\ \A c : Right(c)' = Right(c)
    BY <1>1, SameInput
  <2>2. Final' = out' /\ Covered' = l
    BY <1>1, <1>3, <2>1 DEF Final, Covered, Written
  <2> QED
    BY <1>4, <2>1, <2>2 DEF FileInv, AllRight
<1>8. HeaderInv'
  BY <1>1 DEF HeaderInv, Done
<1> QED
  BY <1>5, <1>6, <1>7, <1>8 DEF IInv

LEMMA CrcStep == IInv /\ Crc => IInv'
<1> SUFFICES ASSUME IInv, Crc PROVE IInv'
  OBVIOUS
<1>1. /\ TypeOK /\ MergeInv /\ FileInv /\ pc = "crc" /\ pc' = "header" /\ Written /\ Written'
      /\ UNCHANGED <<input, fillHoles, addCrc, ret, extents, e, block, from, size, chunk, crc, header>>
  BY DEF IInv, Crc, options, position, Written
<1>2. PICK l \in Nat, f \in Seq(Chunk) : l = BlockCount /\ f = out
  <2>1. BlockCount \in Nat
    BY <1>1, Types, Above DEF BlockCount
  <2> QED
    BY <1>1, <2>1 DEF TypeOK
<1>3. Expands(f, l) /\ crc = FirstBlocks(l) /\ chunks = Len(f) /\ AllRight(f)
  BY <1>1, <1>2 DEF FileInv, Final, Covered, AllRight
<1>4. Expands(out', l) /\ chunks' = Len(out') /\ AllRight(out') /\ out' \in Seq(Chunk)
  <2>1. CASE addCrc
    <3>1. PICK ch : ch = [type |-> "crc", blocks |-> 0, body |-> crc]
      OBVIOUS
    <3>2. chunks' = chunks + 1 /\ out' = Append(f, ch)
      BY <1>2, <2>1, <3>1 DEF Crc
    <3>3. ch \in Chunk
      BY <1>1, <3>1 DEF Chunk, Type, TypeOK
    <3>4. Gives(ch, l, l)
      <4>1. Expanded(ch) = <<>>
        BY <3>1 DEF Expanded
      <4>2. [b \in 1..(l - l) |-> BlockOf(l + b)] = <<>>
        <5>1. 1..(l - l) = {}
          OBVIOUS
        <5> QED
          BY <5>1
      <4> QED
        BY <4>1, <4>2 DEF Gives
    <3>5. Right(ch)
      BY <1>2, <1>3, <3>1, PaddedIs DEF Right
    <3>6. Expands(Append(f, ch), l)
      BY <1>3, <3>3, <3>4, ExpandsMore
    <3>7. \A n \in DOMAIN Append(f, ch) :
             Append(f, ch)[n] = ch \/ (n \in DOMAIN f /\ Append(f, ch)[n] = f[n])
      BY <3>3
    <3>8. AllRight(Append(f, ch))
      BY <1>3, <3>5, <3>7 DEF AllRight
    <3> QED
      BY <1>3, <3>2, <3>3, <3>6, <3>8
  <2>2. CASE ~addCrc
    BY <1>2, <1>3, <2>2 DEF Crc
  <2> QED
    BY <2>1, <2>2
<1>5. TypeOK'
  BY <1>1, <1>4 DEF TypeOK
<1>6. MergeInv' /\ PlaceInv' /\ OpenInv' /\ EarlyInv'
  BY <1>1, EndInv
<1>7. FileInv'
  <2>1. /\ \A x : FirstBlocks(x)' = FirstBlocks(x) /\ BlockCount' = BlockCount
        /\ \A g, x : Expands(g, x)' = Expands(g, x)
        /\ \A c : Right(c)' = Right(c)
    BY <1>1, SameInput
  <2>2. Final' = out' /\ Covered' = l
    BY <1>1, <1>2, <2>1 DEF Final, Covered
  <2> QED
    BY <1>1, <1>3, <1>4, <2>1, <2>2 DEF FileInv, AllRight
<1>8. HeaderInv'
  BY <1>1 DEF HeaderInv, Done
<1> QED
  BY <1>5, <1>6, <1>7, <1>8 DEF IInv

LEMMA HeaderStep == IInv /\ Header => IInv'
<1> SUFFICES ASSUME IInv, Header PROVE IInv'
  OBVIOUS
<1>1. /\ TypeOK /\ MergeInv /\ FileInv /\ pc = "header" /\ pc' = "end" /\ Written
      /\ header' = chunks
      /\ UNCHANGED <<input, fillHoles, addCrc, ret, extents, e, block, from, size, chunk, chunks, crc,
                     out>>
  BY DEF IInv, Header, options, position, Written
<1>2. TypeOK'
  BY <1>1 DEF TypeOK
<1>3. MergeInv' /\ PlaceInv' /\ OpenInv' /\ EarlyInv'
  BY <1>1, EndInv
<1>4. chunks = Len(out)
  BY <1>1 DEF FileInv
<1>5. FileInv'
  <2>1. /\ \A x : FirstBlocks(x)' = FirstBlocks(x) /\ BlockCount' = BlockCount
        /\ \A g, x : Expands(g, x)' = Expands(g, x)
        /\ \A c : Right(c)' = Right(c)
    BY <1>1, SameInput
  <2>2. CASE Done'
    <3>1. /\ Final' = Final /\ Covered' = Covered
      BY <1>1, <2>1, <2>2 DEF Final, Covered, Written
    <3> QED
      BY <1>1, <2>1, <3>1 DEF FileInv
  <2>3. CASE ~Done'
    BY <1>1, <2>3 DEF FileInv, Writing, Written
  <2> QED
    BY <2>2, <2>3
<1>6. HeaderInv'
  BY <1>1, <1>4 DEF HeaderInv
<1> QED
  BY <1>2, <1>3, <1>5, <1>6 DEF IInv

LEMMA FailStep == IInv /\ Fail => IInv'
<1> SUFFICES ASSUME IInv, Fail PROVE IInv'
  OBVIOUS
<1>1. /\ TypeOK /\ MergeInv /\ pc' = "end" /\ ret' = "failed"
      /\ UNCHANGED <<input, fillHoles, addCrc, extents, e, block, from, size, chunk, chunks, crc, out,
                     header>>
  BY DEF IInv, Fail, options, position
<1>2. TypeOK'
  BY <1>1 DEF TypeOK
<1>3. MergeInv' /\ PlaceInv' /\ OpenInv' /\ EarlyInv'
  BY <1>1, EndInv
<1>4. FileInv' /\ HeaderInv'
  BY <1>1 DEF FileInv, HeaderInv, Writing, Written, Done
<1> QED
  BY <1>2, <1>3, <1>4 DEF IInv

LEMMA StutterStep == IInv /\ UNCHANGED vars => IInv'
<1> SUFFICES ASSUME IInv, UNCHANGED vars PROVE IInv'
  OBVIOUS
<1>1. UNCHANGED <<input, fillHoles, addCrc, pc, ret, extents, e, block, from, size, chunk, chunks, crc,
                  out, header>>
  BY DEF vars, options, position
<1>2. TypeOK'
  BY <1>1 DEF IInv, TypeOK
<1>3. MergeInv'
  BY <1>1 DEF IInv, MergeInv, WideInv, PlainInv, ApartInv, AheadInv, DataInv, Passed, Left, Writing,
              Wide, Length, Whole, Plain, Widened, WideEnd, Holds
<1>4. /\ \A x : FirstBlocks(x)' = FirstBlocks(x) /\ BlockCount' = BlockCount
      /\ \A g, x : Expands(g, x)' = Expands(g, x)
      /\ \A c : Right(c)' = Right(c)
      /\ \A z : Wide(z)' = Wide(z)
  BY <1>1, SameInput
<1>5. PlaceInv'
  BY <1>1, <1>4 DEF IInv, PlaceInv, Writing
<1>6. FileInv'
  <2>1. Final' = Final /\ Covered' = Covered
    BY <1>1, <1>4 DEF Final, Covered, Flushed, Written, Done
  <2> QED
    BY <1>1, <1>4, <2>1 DEF IInv, FileInv, Writing, Written, Done
<1>7. OpenInv' /\ EarlyInv' /\ HeaderInv'
  BY <1>1 DEF IInv, OpenInv, EarlyInv, HeaderInv, Done
<1> QED
  BY <1>2, <1>3, <1>5, <1>6, <1>7 DEF IInv

-----------------------------------------------------------------------------
LEMMA Initially == Init => IInv
<1> SUFFICES ASSUME Init PROVE IInv
  OBVIOUS
<1>1. TypeOK
  BY ConstantsType DEF Init, TypeOK, Type
<1>2. Passed = {} /\ Left = {} /\ ~Writing /\ pc = "map" /\ ~Written
  BY DEF Init, Passed, Left, Writing, Written, Done
<1>3. MergeInv
  BY <1>2 DEF Init, MergeInv, WideInv, PlainInv, ApartInv, AheadInv, DataInv
<1>4. EarlyInv /\ PlaceInv /\ OpenInv /\ FileInv /\ HeaderInv
  BY <1>2 DEF Init, EarlyInv, PlaceInv, OpenInv, FileInv, HeaderInv, Done
<1> QED
  BY <1>1, <1>3, <1>4 DEF IInv

LEMMA Invariance == Spec => []IInv
<1>1. IInv /\ [Next]_vars => IInv'
  BY MapExtentsStep, MergeExtentsStep, MergeDoneStep, ExtentStep, RemovedStep, BlockStep,
     ExtentDoneStep, ExtentsDoneStep, TailSkipStep, CrcStep, HeaderStep, FailStep, StutterStep
  DEF Next
<1> QED
  BY Initially, <1>1, PTL DEF Spec

(* Expanding the chunks of a finished file gives the input, padded to whole *)
(* blocks, whatever extents the file system reports, and the checksum is    *)
(* that of the blocks expanded.                                             *)
THEOREM ExpandsToInputHolds == Spec => []ExpandsToInput
<1>1. IInv => ExpandsToInput
  <2> SUFFICES ASSUME IInv, Done PROVE ExpandsToInput
    BY DEF ExpandsToInput
  <2>1. /\ TypeOK /\ Expands(out, BlockCount) /\ \A n \in DOMAIN out : Right(out[n])
    BY DEF IInv, FileInv, Written, Final, Covered, Done
  <2>2. BlockCount \in Nat
    BY <2>1, Types, Above DEF BlockCount
  <2>3. ExpandedAll = Padded
    BY <2>1, <2>2, AllExpanded, PaddedIs
  <2>4. \A n \in DOMAIN out : out[n].type = "crc" => out[n].body = Padded
    BY <2>1 DEF Right
  <2> QED
    BY <2>3, <2>4 DEF ExpandsToInput
<1> QED
  BY <1>1, Invariance, PTL

(* The headers of a finished file tell what follows them: the number of     *)
(* chunks, and the blocks of each, which are within the limit of a raw      *)
(* chunk.                                                                   *)
THEOREM HeadersTrueHolds == Spec => []HeadersTrue
<1>1. IInv => HeadersTrue
  <2> SUFFICES ASSUME IInv, Done PROVE HeadersTrue
    BY DEF HeadersTrue
  <2>1. header = Len(out) /\ \A n \in DOMAIN out : Right(out[n])
    BY DEF IInv, HeaderInv, FileInv, Written, Final, Done
  <2> QED
    BY <2>1 DEF HeadersTrue, Right
<1> QED
  BY <1>1, Invariance, PTL

(* The variables keep their types, through all steps of the handler.        *)
THEOREM TypeCorrect == Spec => []TypeOK
<1>1. IInv => TypeOK
  BY DEF IInv
<1> QED
  BY <1>1, Invariance, PTL
=============================================================================
