-------------------------- MODULE MountpointsProofs -------------------------
(***************************************************************************)
(* Theorems about the mount points: for every tree, any list of images and *)
(* commands that fail.                                                     *)
(***************************************************************************)
EXTENDS Mountpoints, SequenceTheorems, WellFoundedInduction, TLAPS

-----------------------------------------------------------------------------
(* Names: what the two functions on paths return.                           *)

\* A set of natural numbers has a least element.
LEMMA Least ==
    ASSUME NEW T \in SUBSET Nat, T # {}
    PROVE  \E x \in T : \A y \in T : x <= y
<1> DEFINE R == {ss \in Nat \X Nat : ss[1] < ss[2]}
<1>1. IsWellFoundedOn(R, Nat)
  BY NatLessThanWellFounded DEF OpToRel
<1>2. PICK x \in T : \A y \in T : ~(<<y, x>> \in R)
  <2> HIDE DEF R
  <2> QED
    BY <1>1, WFMin
<1>3. ASSUME NEW y \in T PROVE x <= y
  <2>1. ~(<<y, x>> \in R) /\ x \in Nat /\ y \in Nat
    BY <1>2
  <2>2. ~(y < x)
    BY <2>1
  <2> QED
    BY <2>1, <2>2
<1> QED
  BY <1>3

\* What one step of FlattenSeq makes of the ones before it.
Join(ss, f, i) == IF i = 1 THEN ss[i] ELSE f[i - 1] \o ss[i]

\* The recursive function in FlattenSeq is defined: the least number up to
\* which it were not could be reached from the one before it.
LEMMA JoinExists ==
    ASSUME NEW ss, NEW n \in Nat
    PROVE  \E f : f = [i \in 1..n |-> Join(ss, f, i)]
<1> DEFINE Ex(k) == \E f : f = [i \in 1..k |-> Join(ss, f, i)]
           T == {k \in Nat : ~Ex(k)}
<1>1. SUFFICES ASSUME T # {} PROVE FALSE
  OBVIOUS
<1>2. PICK k \in T : \A l \in T : k <= l
  BY <1>1, Least
<1>3. Ex(0)
  <2> DEFINE f == [i \in {} |-> 0]
  <2>1. 1..0 = {}
    OBVIOUS
  <2>2. f = [i \in 1..0 |-> Join(ss, f, i)]
    BY <2>1
  <2> QED
    BY <2>2
<1>4. k \in Nat /\ k # 0 /\ k - 1 \in Nat /\ k - 1 \notin T
  <2>1. k \in Nat /\ k # 0
    BY <1>2, <1>3
  <2>2. k - 1 \in Nat /\ ~(k <= k - 1)
    BY <2>1
  <2> HIDE DEF T
  <2> QED
    BY <1>2, <2>1, <2>2
<1>5. PICK f : f = [i \in 1..(k - 1) |-> Join(ss, f, i)]
  BY <1>4
<1> DEFINE g == [i \in 1..k |-> IF i = k THEN Join(ss, f, k) ELSE f[i]]
<1>6. ASSUME NEW i \in 1..k PROVE g[i] = Join(ss, g, i)
  <2>1. i # 1 => i - 1 \in 1..k /\ g[i - 1] = f[i - 1]
    BY <1>4
  <2>2. Join(ss, g, i) = Join(ss, f, i)
    BY <2>1 DEF Join
  <2>3. i # k => i \in 1..(k - 1)
    BY <1>4
  <2>4. i # k => f[i] = Join(ss, f, i)
    BY <1>5, <2>3
  <2> QED
    BY <2>2, <2>4
<1>7. g = [i \in 1..k |-> Join(ss, g, i)]
  BY <1>6
<1> HIDE DEF g
<1> QED
  BY <1>2, <1>7

\* A flattened sequence of sequences is a sequence.
LEMMA FlattenType ==
    ASSUME NEW S, NEW ss \in Seq(Seq(S))
    PROVE  FlattenSeq(ss) \in Seq(S)
<1>1. CASE Len(ss) = 0
  BY <1>1 DEF FlattenSeq
<1>2. CASE Len(ss) # 0
  <2> DEFINE n == Len(ss)
             f == CHOOSE f : f = [i \in 1..n |-> IF i = 1 THEN ss[i] ELSE f[i - 1] \o ss[i]]
             T == {i \in 1..n : f[i] \notin Seq(S)}
  <2>1. FlattenSeq(ss) = f[n]
    BY <1>2 DEF FlattenSeq
  <2>2. n \in Nat \ {0} /\ \A i \in 1..n : ss[i] \in Seq(S)
    BY <1>2
  <2>3. f = [i \in 1..n |-> IF i = 1 THEN ss[i] ELSE f[i - 1] \o ss[i]]
    BY <2>2, JoinExists DEF Join
  <2>4. \A i \in 1..n : f[i] = IF i = 1 THEN ss[i] ELSE f[i - 1] \o ss[i]
    BY <2>3
  <2> HIDE DEF f
  <2>5. T = {}
    <3>1. SUFFICES ASSUME T # {} PROVE FALSE
      OBVIOUS
    <3>2. T \in SUBSET Nat
      BY <2>2
    <3>3. PICK i \in T : \A l \in T : i <= l
      BY <3>1, <3>2, Least
    <3>4. i \in 1..n /\ f[i] \notin Seq(S) /\ i # 1
      BY <2>2, <2>4, <3>3
    <3>5. i - 1 \in 1..n /\ i - 1 \notin T
      <4>1. i - 1 \in 1..n /\ ~(i <= i - 1)
        BY <2>2, <3>4
      <4> HIDE DEF T
      <4> QED
        BY <3>3, <4>1
    <3>6. f[i - 1] \in Seq(S) /\ ss[i] \in Seq(S) /\ f[i] = f[i - 1] \o ss[i]
      BY <2>2, <2>4, <3>4, <3>5
    <3> QED
      BY <3>4, <3>6
  <2> QED
    BY <2>1, <2>2, <2>5
<1> QED
  BY <1>1, <1>2

(* What the names of paths are made of.                                     *)
LEMMA NamesOf ==
    ASSUME NEW p \in Path
    PROVE  Named(p) \in Path /\ Sanitized(p) \in Name
<1> DEFINE ss == [k \in DOMAIN p |-> IF p[k] = <<"">> THEN <<>> ELSE <<p[k]>>]
<1>1. p \in Seq(Name)
  BY DEF Path
<1>2. Len(p) \in Nat /\ DOMAIN p = 1..Len(p) /\ \A k \in 1..Len(p) : p[k] \in Name
  BY <1>1
<1>3. ASSUME NEW k \in 1..Len(p) PROVE ss[k] \in Seq(Name)
  <2>1. PICK n \in Name : n = p[k]
    BY <1>2
  <2>2. <<>> \in Seq(Name) /\ <<n>> \in Seq(Name)
    OBVIOUS
  <2> QED
    BY <1>2, <2>1, <2>2
<1>4. ss \in Seq(Seq(Name))
  <2>1. ss = [k \in 1..Len(p) |-> ss[k]]
    BY <1>2
  <2> HIDE DEF ss
  <2>2. ss \in [1..Len(p) -> Seq(Name)]
    BY <1>3, <2>1
  <2> QED
    BY <1>2, <2>2, SeqDef
<1>5. Named(p) \in Path
  <2> HIDE DEF ss
  <2>1. FlattenSeq(ss) \in Seq(Name)
    BY <1>4, FlattenType
  <2> QED
    BY <2>1 DEF Named, Path, ss
<1>6. Sanitized(p) \in Name
  <2>1. p \in Seq(Seq(Words))
    BY <1>1 DEF Name
  <2>2. FlattenSeq(p) \in Seq(Words)
    BY <2>1, FlattenType
  <2> QED
    BY <2>2 DEF Sanitized, Name
<1> QED
  BY <1>5, <1>6

LEMMA NamedEmpty == Named(<<>>) = <<>>
<1> DEFINE e == <<>>
           ss == [k \in DOMAIN e |-> IF e[k] = <<"">> THEN <<>> ELSE <<e[k]>>]
<1>1. DOMAIN e = 1..0 /\ ss = <<>>
  OBVIOUS
<1>2. Len(ss) = 0
  BY <1>1
<1>3. FlattenSeq(ss) = ss
  BY <1>2 DEF FlattenSeq
<1> QED
  BY <1>1, <1>3 DEF Named

-----------------------------------------------------------------------------
(* Paths: one that is a prefix of another one, and what is left of that.    *)

Rest(p, q) == SubSeq(q, Len(p) + 1, Len(q))

LEMMA PathLen == ASSUME NEW p \in Path
                 PROVE  Len(p) \in Nat /\ DOMAIN p = 1..Len(p) /\ \A i \in 1..Len(p) : p[i] \in Name
BY LenProperties DEF Path

LEMMA PathEqual == ASSUME NEW p \in Path, NEW q \in Path, Len(p) = Len(q),
                          \A i \in 1..Len(p) : p[i] = q[i]
                   PROVE  p = q
BY SeqEqual DEF Path

LEMMA PrefixIs ==
    ASSUME NEW p \in Path, NEW q \in Path
    PROVE  IsPrefix(p, q) <=> Len(p) <= Len(q) /\ \A i \in 1..Len(p) : p[i] = q[i]
<1>1. Len(p) \in Nat /\ Len(q) \in Nat
  BY PathLen
<1>2. SubSeq(p, 1, Len(p)) = p
  BY SubSeqFull DEF Path
<1>3. ASSUME Len(p) <= Len(q)
      PROVE  SubSeq(q, 1, Len(p)) \in Path /\ Len(SubSeq(q, 1, Len(p))) = Len(p)
             /\ \A i \in 1..Len(p) : SubSeq(q, 1, Len(p))[i] = q[i]
  <2>1. \A i \in 1..Len(p) : q[i] \in Name
    BY <1>1, <1>3, PathLen
  <2> QED
    BY <1>1, <2>1, SubSeqProperties DEF Path
<1>4. ASSUME IsPrefix(p, q) PROVE Len(p) <= Len(q) /\ \A i \in 1..Len(p) : p[i] = q[i]
  BY <1>2, <1>3, <1>4 DEF IsPrefix
<1>5. ASSUME Len(p) <= Len(q), \A i \in 1..Len(p) : p[i] = q[i] PROVE IsPrefix(p, q)
  <2>1. p = SubSeq(q, 1, Len(p))
    BY <1>3, <1>5, PathEqual
  <2> QED
    BY <1>2, <1>5, <2>1 DEF IsPrefix
<1> QED
  BY <1>4, <1>5

LEMMA RestType ==
    ASSUME NEW p \in Path, NEW q \in Path, Len(p) <= Len(q)
    PROVE  /\ Rest(p, q) \in Path /\ Len(Rest(p, q)) = Len(q) - Len(p)
           /\ \A i \in 1..(Len(q) - Len(p)) : Rest(p, q)[i] = q[i + Len(p)]
<1>1. Len(p) \in Nat /\ Len(q) \in Nat /\ \A i \in (Len(p) + 1)..Len(q) : q[i] \in Name
  BY PathLen
<1> DEFINE j == Len(p) + 1
           n == Len(q)
<1>2. j \in Int /\ n \in Int /\ n - j + 1 = Len(q) - Len(p) /\ \A i \in j..n : q[i] \in Name
  BY <1>1
<1>3. /\ SubSeq(q, j, n) \in Seq(Name)
      /\ Len(SubSeq(q, j, n)) = IF j <= n THEN n - j + 1 ELSE 0
      /\ \A i \in 1..(n - j + 1) : SubSeq(q, j, n)[i] = q[j + i - 1]
  <2> HIDE DEF j, n
  <2> QED
    BY <1>2, SubSeqProperties
<1>4. \A i \in 1..(Len(q) - Len(p)) : j + i - 1 = i + Len(p)
  BY <1>1
<1> QED
  BY <1>1, <1>2, <1>3, <1>4 DEF Path, Rest

LEMMA Joined ==
    ASSUME NEW p \in Path, NEW r \in Path
    PROVE  /\ p \o r \in Path /\ Len(p \o r) = Len(p) + Len(r)
           /\ \A i \in 1..Len(p) : (p \o r)[i] = p[i]
           /\ \A i \in 1..Len(r) : (p \o r)[i + Len(p)] = r[i]
           /\ IsPrefix(p, p \o r) /\ Rest(p, p \o r) = r
<1>1. Len(p) \in Nat /\ Len(r) \in Nat
  BY PathLen
<1>2. /\ p \o r \in Path /\ Len(p \o r) = Len(p) + Len(r)
      /\ \A i \in 1..(Len(p) + Len(r)) :
            (p \o r)[i] = IF i <= Len(p) THEN p[i] ELSE r[i - Len(p)]
  BY ConcatProperties DEF Path
<1>3. \A i \in 1..Len(p) : (p \o r)[i] = p[i]
  BY <1>1, <1>2
<1>4. \A i \in 1..Len(r) : (p \o r)[i + Len(p)] = r[i]
  <2> TAKE i \in 1..Len(r)
  <2>1. i + Len(p) \in 1..(Len(p) + Len(r)) /\ ~(i + Len(p) <= Len(p)) /\ i + Len(p) - Len(p) = i
    BY <1>1
  <2> QED
    BY <1>2, <2>1
<1>5. IsPrefix(p, p \o r)
  <2>1. PICK q \in Path : q = p \o r
    BY <1>2
  <2>2. Len(p) <= Len(q) /\ \A i \in 1..Len(p) : p[i] = q[i]
    BY <1>1, <1>2, <1>3, <2>1
  <2>3. IsPrefix(p, q)
    BY <2>2, PrefixIs
  <2> QED
    BY <2>1, <2>3
<1>6. Rest(p, p \o r) = r
  <2> DEFINE q == p \o r
  <2>1. Len(p) <= Len(q) /\ Len(q) - Len(p) = Len(r) /\ q \in Path
    BY <1>1, <1>2
  <2>2. /\ Rest(p, q) \in Path /\ Len(Rest(p, q)) = Len(r)
        /\ \A i \in 1..Len(r) : Rest(p, q)[i] = q[i + Len(p)]
    <3> HIDE DEF q
    <3> QED
      BY <2>1, RestType
  <2> QED
    BY <1>4, <2>2, PathEqual
<1> QED
  BY <1>2, <1>3, <1>4, <1>5, <1>6

LEMMA SplitAt ==
    ASSUME NEW p \in Path, NEW q \in Path, IsPrefix(p, q)
    PROVE  Rest(p, q) \in Path /\ q = p \o Rest(p, q)
<1> DEFINE r == Rest(p, q)
<1>1. /\ Len(p) \in Nat /\ Len(q) \in Nat /\ Len(p) <= Len(q)
      /\ \A i \in 1..Len(p) : p[i] = q[i]
  BY PathLen, PrefixIs
<1>2. /\ r \in Path /\ Len(r) = Len(q) - Len(p)
      /\ \A i \in 1..Len(r) : r[i] = q[i + Len(p)]
  BY <1>1, RestType
<1>3. /\ p \o r \in Path /\ Len(p \o r) = Len(q)
      /\ \A i \in 1..Len(p) : (p \o r)[i] = p[i]
      /\ \A i \in 1..Len(r) : (p \o r)[i + Len(p)] = r[i]
  <2> HIDE DEF r
  <2> QED
    BY <1>1, <1>2, Joined
<1>4. ASSUME NEW i \in 1..Len(q) PROVE q[i] = (p \o r)[i]
  <2> HIDE DEF r
  <2>1. CASE i <= Len(p)
    <3>1. i \in 1..Len(p)
      BY <1>1, <2>1
    <3> QED
      BY <1>1, <1>3, <3>1
  <2>2. CASE i > Len(p)
    <3>1. PICK j \in 1..Len(r) : i = j + Len(p)
      <4>1. i - Len(p) \in 1..Len(r) /\ i = (i - Len(p)) + Len(p)
        BY <1>1, <1>2, <2>2
      <4> QED
        BY <4>1
    <3>2. r[j] = q[j + Len(p)] /\ (p \o r)[j + Len(p)] = r[j]
      BY <1>2, <1>3
    <3> QED
      BY <3>1, <3>2
  <2>3. i <= Len(p) \/ i > Len(p)
    BY <1>1
  <2> QED
    BY <2>1, <2>2, <2>3
<1>5. q = p \o r
  <2> HIDE DEF r
  <2> QED
    BY <1>3, <1>4, PathEqual
<1> QED
  BY <1>2, <1>5

(* Prefixes are ordered, and those of one path are a chain.                 *)
LEMMA PrefixOrder ==
    ASSUME NEW p \in Path, NEW q \in Path
    PROVE  /\ IsPrefix(p, p)
           /\ IsPrefix(p, q) /\ IsPrefix(q, p) => p = q
           /\ \A t \in Path : IsPrefix(p, q) /\ IsPrefix(q, t) => IsPrefix(p, t)
           /\ \A t \in Path : IsPrefix(p, t) /\ IsPrefix(q, t) => IsPrefix(p, q) \/ IsPrefix(q, p)
<1>1. Len(p) \in Nat /\ Len(q) \in Nat
  BY PathLen
<1>2. IsPrefix(p, p)
  BY <1>1, PrefixIs
<1>3. ASSUME IsPrefix(p, q), IsPrefix(q, p) PROVE p = q
  <2>1. Len(p) = Len(q) /\ \A i \in 1..Len(p) : p[i] = q[i]
    BY <1>1, <1>3, PrefixIs
  <2> QED
    BY <2>1, PathEqual
<1>4. ASSUME NEW t \in Path, IsPrefix(p, q), IsPrefix(q, t) PROVE IsPrefix(p, t)
  <2>1. Len(t) \in Nat
    BY PathLen
  <2>2. /\ Len(p) <= Len(q) /\ \A i \in 1..Len(p) : p[i] = q[i]
        /\ Len(q) <= Len(t) /\ \A i \in 1..Len(q) : q[i] = t[i]
    BY <1>4, PrefixIs
  <2>3. Len(p) <= Len(t) /\ \A i \in 1..Len(p) : p[i] = t[i]
    BY <1>1, <2>1, <2>2
  <2> QED
    BY <2>3, PrefixIs
<1>5. ASSUME NEW t \in Path, IsPrefix(p, t), IsPrefix(q, t)
      PROVE  IsPrefix(p, q) \/ IsPrefix(q, p)
  <2>1. /\ \A i \in 1..Len(p) : p[i] = t[i]
        /\ \A i \in 1..Len(q) : q[i] = t[i]
    BY <1>5, PrefixIs
  <2>2. CASE Len(p) <= Len(q)
    BY <1>1, <2>1, <2>2, PrefixIs
  <2>3. CASE Len(q) <= Len(p)
    BY <1>1, <2>1, <2>3, PrefixIs
  <2> QED
    BY <1>1, <2>2, <2>3
<1> QED
  BY <1>2, <1>3, <1>4, <1>5

LEMMA PrefixEmpty ==
    ASSUME NEW p \in Path
    PROVE  /\ <<>> \in Path /\ IsPrefix(<<>>, p) /\ (IsPrefix(p, <<>>) => p = <<>>)
           /\ Rest(<<>>, p) = p /\ Rest(p, p) = <<>>
<1>1. <<>> \in Path /\ Len(<<>>) = 0 /\ Len(p) \in Nat
  BY PathLen, EmptySeq DEF Path
<1>2. IsPrefix(<<>>, p)
  BY <1>1, PrefixIs
<1>3. IsPrefix(p, <<>>) => p = <<>>
  BY <1>1, <1>2, PrefixOrder
<1>4. <<>> \o p = p /\ p \o <<>> = p
  BY ConcatEmptySeq DEF Path
<1> QED
  BY <1>1, <1>2, <1>3, <1>4, Joined

(* A common beginning does not matter.                                      *)
LEMMA Common ==
    ASSUME NEW b \in Path, NEW p \in Path, NEW q \in Path
    PROVE  /\ b \o p = b \o q => p = q
           /\ IsPrefix(b \o p, b \o q) <=> IsPrefix(p, q)
           /\ IsPrefix(p, q) => Rest(b \o p, b \o q) = Rest(p, q)
<1>0. Len(b) \in Nat /\ Len(p) \in Nat /\ Len(q) \in Nat
  BY PathLen
<1>1. /\ b \o p \in Path /\ Len(b \o p) = Len(b) + Len(p)
      /\ b \o q \in Path /\ Len(b \o q) = Len(b) + Len(q)
      /\ \A i \in 1..Len(b) : (b \o p)[i] = b[i] /\ (b \o q)[i] = b[i]
      /\ \A i \in 1..Len(p) : (b \o p)[i + Len(b)] = p[i]
      /\ \A i \in 1..Len(q) : (b \o q)[i + Len(b)] = q[i]
  BY Joined
<1>2. b \o p = b \o q => p = q
  <2>1. Rest(b, b \o p) = p /\ Rest(b, b \o q) = q
    BY Joined
  <2> QED
    BY <2>1
<1>3. ASSUME IsPrefix(p, q)
      PROVE  IsPrefix(b \o p, b \o q) /\ Rest(b \o p, b \o q) = Rest(p, q)
  <2>1. Rest(p, q) \in Path /\ q = p \o Rest(p, q)
    BY <1>3, SplitAt
  <2>2. PICK r \in Path : r = Rest(p, q)
    BY <2>1
  <2>3. (b \o p) \o r = b \o (p \o r)
    BY ConcatAssociative DEF Path
  <2>4. b \o q = (b \o p) \o r
    BY <2>1, <2>2, <2>3
  <2>5. IsPrefix(b \o p, (b \o p) \o r) /\ Rest(b \o p, (b \o p) \o r) = r
    BY <1>1, Joined
  <2> QED
    BY <2>2, <2>4, <2>5
<1>4. ASSUME IsPrefix(b \o p, b \o q) PROVE IsPrefix(p, q)
  <2>1. Len(b \o p) <= Len(b \o q) /\ \A i \in 1..Len(b \o p) : (b \o p)[i] = (b \o q)[i]
    BY <1>1, <1>4, PrefixIs
  <2>2. Len(p) <= Len(q)
    BY <1>0, <1>1, <2>1
  <2>3. ASSUME NEW i \in 1..Len(p) PROVE p[i] = q[i]
    <3>1. i + Len(b) \in 1..Len(b \o p) /\ i \in 1..Len(q)
      BY <1>0, <1>1, <2>2
    <3> QED
      BY <1>1, <2>1, <3>1
  <2> QED
    BY <2>2, <2>3, PrefixIs
<1> QED
  BY <1>2, <1>3, <1>4

-----------------------------------------------------------------------------
(* The mount points of main() and the directories they stand for.           *)

TypeInv ==
    /\ conf \in Configs
    /\ pc \in {"start", "copy", "list", "move", "mkdir", "attributes", "end"}
    /\ ret \in {"ok", "failed"}
    /\ mountpoints \in Seq(Path)
    /\ m \in Nat \ {0}
    /\ fs \subseteq Directory

Working == {"move", "mkdir", "attributes"}

(* The list: the root, and then what the images mention, each once.  The    *)
(* cursor passes all of it before the work is done.                         *)
ListInv ==
    /\ \A k \in DOMAIN mountpoints : mountpoints[k] \in Given
    /\ \A j, k \in DOMAIN mountpoints : mountpoints[j] = mountpoints[k] => j = k
    /\ mountpoints # <<>> => mountpoints[1] = <<>>
    /\ pc \in {"start", "copy"} => mountpoints = <<>>
    /\ pc \in {"start", "copy"} => m = 1 /\ fs = {}
    /\ pc \in {"list"} \cup Working => mountpoints # <<>>
    /\ pc = "list" => \A i \in DOMAIN conf.images :
                         i < m => conf.images[i].mountpoint \in ToSet(mountpoints)
    /\ pc \in Working \/ (Done /\ mountpoints # <<>>) => Given \subseteq ToSet(mountpoints)
    /\ pc \in Working => m > 1
    /\ pc \in {"mkdir", "attributes"} => m <= Len(mountpoints)
    /\ Done /\ mountpoints # <<>> => m > Len(mountpoints)
    /\ Done /\ mountpoints = <<>> => fs = {} /\ \A i \in DOMAIN conf.images : ~UsesRoot(i)

LEMMA GivenNames ==
    ASSUME TypeInv, NEW c \in Given
    PROVE  /\ c \in Path /\ Named(c) \in Path
           /\ Root \in Path /\ Len(Root) = 1 /\ Root[1] = <<"root">>
           /\ Mountpath(c) \in Path /\ Len(Mountpath(c)) = 1
           /\ c # <<>> => Mountpath(c)[1] # <<"root">>
           /\ InRoot(c) \in Path /\ InRoot(c)[1] = <<"root">>
           /\ InRoot(c) = Root \o Named(c) /\ Len(InRoot(c)) = 1 + Len(Named(c))
<1>1. <<>> \in Path /\ <<"root">> \in Name /\ <<"mp">> \in Name
  <2>1. \A x \in Words : <<x>> \in Seq(Words)
    OBVIOUS
  <2>2. "root" \in Words /\ "mp" \in Words
    BY WordsType
  <2> QED
    BY <2>1, <2>2, EmptySeq DEF Path, Name
<1>2. conf.images \in Seq([mountpoint : Path, srcpath : BOOLEAN, filled : BOOLEAN])
  BY ConfigsType DEF TypeInv, Conf
<1>3. c \in Path
  <2> DEFINE R == [mountpoint : Path, srcpath : BOOLEAN, filled : BOOLEAN]
  <2>1. ASSUME NEW i \in DOMAIN conf.images PROVE conf.images[i] \in R
    <3> HIDE DEF R
    <3>1. conf.images \in Seq(R)
      BY <1>2 DEF R
    <3> QED
      BY <3>1, LenProperties, ElementOfSeq
  <2> QED
    BY <1>1, <2>1 DEF Given
<1>4. Named(c) \in Path /\ (c # <<>> => Sanitized(c) \in Name)
  BY <1>3, NamesOf
<1>5. Root \in Path /\ Len(Root) = 1 /\ Root[1] = <<"root">>
  BY <1>1 DEF Root, Path
<1>6. /\ Mountpath(c) \in Path /\ Len(Mountpath(c)) = 1
      /\ c # <<>> => Mountpath(c)[1] # <<"root">>
  <2>1. CASE c = <<>>
    BY <1>5, <2>1 DEF Mountpath
  <2>2. CASE c # <<>>
    <3>1. PICK w \in Seq(Words) : w = Sanitized(c)
      BY <1>4, <2>2 DEF Name
    <3>2. <<"mp">> \in Seq(Words) /\ Len(<<"mp">>) = 1 /\ <<"mp">>[1] = "mp"
      BY <1>1 DEF Name
    <3>3. PICK n \in Seq(Words) : n = <<"mp">> \o w
      BY <3>2, ConcatProperties
    <3>4. Len(w) \in Nat /\ 1 \in 1..(1 + Len(w)) /\ 1 <= 1
      BY LenProperties
    <3>5. n[1] = "mp"
      BY <3>2, <3>3, <3>4, ConcatProperties
    <3>6. n # <<"root">>
      BY <3>5
    <3>7. Mountpath(c) = <<n>>
      BY <2>2, <3>1, <3>3 DEF Mountpath
    <3>8. <<n>> \in Seq(Name) /\ Len(<<n>>) = 1 /\ <<n>>[1] = n
      BY <3>3 DEF Name
    <3> QED
      BY <3>6, <3>7, <3>8 DEF Path
  <2> QED
    BY <2>1, <2>2
<1>7. InRoot(c) = Root \o Named(c)
  BY DEF InRoot
<1>8. InRoot(c) \in Path /\ InRoot(c)[1] = <<"root">> /\ Len(InRoot(c)) = 1 + Len(Named(c))
  <2>1. 1 \in 1..Len(Root)
    BY <1>5
  <2> QED
    BY <1>4, <1>5, <1>7, <2>1, Joined DEF Path
<1> QED
  BY <1>3, <1>4, <1>5, <1>6, <1>7, <1>8

-----------------------------------------------------------------------------
(* What each step does to the directories.                                  *)

Put(q, path) == [path |-> path, files |-> q.files, owner |-> q.owner]

LEMMA MovedIs ==
    ASSUME fs \subseteq Directory, NEW p \in Path, NEW q \in Path
    PROVE  /\ Moved(p, q) \subseteq Directory
           /\ \A d \in fs : /\ IsPrefix(p, d.path) =>
                                 Put(d, q \o Rest(p, d.path)) \in Moved(p, q)
                            /\ ~IsPrefix(p, d.path) /\ ~IsPrefix(q, d.path) => d \in Moved(p, q)
           /\ \A x \in Moved(p, q) :
                 \/ x \in fs /\ ~IsPrefix(p, x.path) /\ ~IsPrefix(q, x.path)
                 \/ \E d \in fs : IsPrefix(p, d.path) /\ x = Put(d, q \o Rest(p, d.path))
<1>1. ASSUME NEW d \in fs, IsPrefix(p, d.path)
      PROVE  /\ [d EXCEPT !.path = q \o SubSeq(@, Len(p) + 1, Len(@))]
                  = Put(d, q \o Rest(p, d.path))
             /\ Put(d, q \o Rest(p, d.path)) \in Directory
  <2>1. d \in [path : Path, files : SUBSET Path, owner : SUBSET Path]
    BY DEF Directory
  <2>2. Rest(p, d.path) \in Path
    BY <1>1, <2>1, SplitAt
  <2>3. q \o Rest(p, d.path) \in Path
    BY <2>2, Joined
  <2>4. [d EXCEPT !.path = q \o SubSeq(@, Len(p) + 1, Len(@))]
          = [d EXCEPT !.path = q \o Rest(p, d.path)]
    BY DEF Rest
  <2>5. \A y \in Path : [d EXCEPT !.path = y] = Put(d, y) /\ Put(d, y) \in Directory
    BY <2>1 DEF Put, Directory
  <2> QED
    BY <2>3, <2>4, <2>5
<1>2. \A d : d \in Below(p) <=> d \in fs /\ IsPrefix(p, d.path)
  BY DEF Below
<1>3. \A d : d \in Below(q) <=> d \in fs /\ IsPrefix(q, d.path)
  BY DEF Below
<1>4. \A x : x \in Moved(p, q) <=>
         \/ x \in fs /\ ~IsPrefix(p, x.path) /\ ~IsPrefix(q, x.path)
         \/ \E d \in fs : IsPrefix(p, d.path) /\ x = Put(d, q \o Rest(p, d.path))
  BY <1>1, <1>2, <1>3 DEF Moved
<1>5. Moved(p, q) \subseteq Directory
  <2> SUFFICES ASSUME NEW x \in Moved(p, q) PROVE x \in Directory
    OBVIOUS
  <2>1. x \in fs \/ \E d \in fs : IsPrefix(p, d.path) /\ x = Put(d, q \o Rest(p, d.path))
    BY <1>4
  <2>2. ASSUME NEW d \in fs, IsPrefix(p, d.path), x = Put(d, q \o Rest(p, d.path))
        PROVE  x \in Directory
    BY <1>1, <2>2
  <2> QED
    BY <2>1, <2>2
<1>6. ASSUME NEW d \in fs
      PROVE  /\ IsPrefix(p, d.path) => Put(d, q \o Rest(p, d.path)) \in Moved(p, q)
             /\ ~IsPrefix(p, d.path) /\ ~IsPrefix(q, d.path) => d \in Moved(p, q)
  BY <1>4, <1>6
<1> QED
  BY <1>4, <1>5, <1>6

LEMMA CurrentType ==
    ASSUME TypeInv, ListInv, pc \in Working, m <= Len(mountpoints)
    PROVE  /\ Current \in Given /\ Current # <<>> /\ m \in DOMAIN mountpoints
           /\ Target \in Path /\ Len(Target) >= 1
           /\ Target[1] = Mountpath(Current)[1]
           /\ Target # Mountpath(Current) =>
                 /\ Exists(Mountpath(Current))
                 /\ Len(Target) = 2
                 /\ Front(Target) = Mountpath(Current)
<1>1. m \in DOMAIN mountpoints /\ 1 \in DOMAIN mountpoints /\ m # 1
  BY LenProperties DEF TypeInv, ListInv
<1>2. mountpoints # <<>> /\ mountpoints[1] = <<>> /\ Current \in Given
  BY <1>1 DEF ListInv, Current
<1>3. Current # <<>>
  BY <1>1, <1>2 DEF ListInv, Current
<1>4. PICK p \in Path : p = Mountpath(Current) /\ Len(p) = 1
  BY <1>2, GivenNames
<1>5. InRoot(Current) \in Path /\ Len(InRoot(Current)) >= 1
  BY <1>2, GivenNames, PathLen
<1>6. PICK n \in Name : n = Last(InRoot(Current))
  BY <1>5, PathLen DEF Last
<1>7. /\ Append(p, n) \in Path /\ Len(Append(p, n)) = 2 /\ Append(p, n)[1] = p[1]
      /\ Front(Append(p, n)) = p
  <2>1. PICK t \in Path : t = Append(p, n) /\ Len(t) = 2 /\ t[1] = p[1]
    <3>1. /\ Append(p, n) \in Path /\ Len(Append(p, n)) = Len(p) + 1
          /\ \A i \in 1..Len(p) : Append(p, n)[i] = p[i]
      BY AppendProperties DEF Path
    <3>2. 1 \in 1..Len(p) /\ Len(p) + 1 = 2
      BY <1>4
    <3> QED
      BY <3>1, <3>2
  <2>2. /\ SubSeq(t, 1, 1) \in Path /\ Len(SubSeq(t, 1, 1)) = 1
        /\ SubSeq(t, 1, 1)[1] = t[1]
    <3>1. \A i \in 1..1 : t[i] \in Name
      BY <2>1, PathLen
    <3> QED
      BY <3>1, SubSeqProperties DEF Path
  <2>3. SubSeq(t, 1, 1) = p
    <3>1. PICK u \in Path : u = SubSeq(t, 1, 1)
      BY <2>2
    <3>2. Len(u) = Len(p) /\ \A i \in 1..Len(u) : u[i] = p[i]
      BY <1>4, <2>1, <2>2, <3>1
    <3> QED
      BY <3>1, <3>2, PathEqual
  <2>4. Front(t) = SubSeq(t, 1, 1)
    BY <2>1 DEF Front
  <2> QED
    BY <2>1, <2>3, <2>4
<1>8. CASE Exists(p)
  <2>1. Target = Append(p, n)
    BY <1>4, <1>6, <1>8 DEF Target
  <2> QED
    BY <1>1, <1>2, <1>3, <1>4, <1>7, <1>8, <2>1
<1>9. CASE ~Exists(p)
  <2>1. Target = p
    BY <1>4, <1>9 DEF Target
  <2> QED
    BY <1>1, <1>2, <1>3, <1>4, <2>1
<1> QED
  BY <1>8, <1>9

Owned(x, owner) == [path |-> x.path, files |-> x.files, owner |-> owner]
OwnerNow(x, d) == IF x.path = InRoot(Current) THEN d.owner ELSE x.owner

LEMMA AttributesAre ==
    ASSUME fs \subseteq Directory, Attributes, pc' # "end"
    PROVE  /\ pc = "attributes" /\ pc' = "move" /\ m' = m + 1
           /\ UNCHANGED <<conf, ret, mountpoints>>
           /\ \E d \in fs : /\ d.path = Reference
                            /\ fs' = {Owned(x, OwnerNow(x, d)) : x \in fs}
                            /\ fs' \subseteq Directory
<1>1. /\ pc = "attributes" /\ pc' = "move" /\ m' = m + 1
      /\ UNCHANGED <<conf, ret, mountpoints>>
      /\ \E d \in fs : /\ d.path = Reference
                       /\ fs' = {[x EXCEPT !.owner = IF x.path = InRoot(Current) THEN d.owner
                                                     ELSE @] : x \in fs}
  BY DEF Attributes, Fail
<1>2. PICK d \in fs :
         /\ d.path = Reference
         /\ fs' = {[x EXCEPT !.owner = IF x.path = InRoot(Current) THEN d.owner
                                       ELSE @] : x \in fs}
  BY <1>1
<1>3. ASSUME NEW x \in fs
      PROVE  /\ [x EXCEPT !.owner = IF x.path = InRoot(Current) THEN d.owner ELSE @]
                  = Owned(x, OwnerNow(x, d))
             /\ Owned(x, OwnerNow(x, d)) \in Directory
  <2>1. x \in Directory /\ d \in Directory
    OBVIOUS
  <2>2. PICK o \in SUBSET Path : o = OwnerNow(x, d)
    BY <2>1 DEF OwnerNow, Directory
  <2>3. [x EXCEPT !.owner = IF x.path = InRoot(Current) THEN d.owner ELSE @]
          = [x EXCEPT !.owner = o]
    BY <2>2 DEF OwnerNow
  <2>4. [x EXCEPT !.owner = o] = Owned(x, o) /\ Owned(x, o) \in Directory
    BY <2>1 DEF Directory, Owned
  <2> QED
    BY <2>2, <2>3, <2>4
<1>4. fs' = {Owned(x, OwnerNow(x, d)) : x \in fs}
  BY <1>2, <1>3
<1>5. fs' \subseteq Directory
  BY <1>3, <1>4
<1> QED
  BY <1>1, <1>2, <1>4, <1>5

\* A command fails, or there is nothing to do.
Stops == /\ pc' = "end"
         /\ UNCHANGED <<conf, mountpoints, m, fs>>
         /\ \/ ret' = "failed"
            \/ /\ ret' = ret
               /\ \/ /\ pc = "start"
                     /\ \A i \in DOMAIN conf.images : ~UsesRoot(i)
                  \/ pc = "move" /\ m > Len(mountpoints)

LEMMA NextIs ==
    ASSUME Next
    PROVE  \/ Stops
           \/ NeedRoot /\ pc' = "copy"
           \/ CopyRoot /\ pc' = "list"
           \/ AddMountpoint
           \/ ListDone
           \/ Move /\ pc' = "mkdir"
           \/ MakeDir /\ pc' = "attributes"
           \/ Attributes /\ pc' = "move"
<1>1. CASE NeedRoot
  BY <1>1 DEF NeedRoot, Stops
<1>2. CASE CopyRoot
  BY <1>2 DEF CopyRoot, Fail, Stops
<1>3. CASE Move
  BY <1>3 DEF Move, Fail, Stops
<1>4. CASE MakeDir
  BY <1>4 DEF MakeDir, Fail, Stops
<1>5. CASE Attributes
  BY <1>5 DEF Attributes, Fail, Stops
<1>6. CASE MoveDone
  BY <1>6 DEF MoveDone, Fail, Stops
<1> QED
  BY <1>1, <1>2, <1>3, <1>4, <1>5, <1>6 DEF Next

LEMMA TypeStep == ASSUME TypeInv, ListInv, [Next]_vars PROVE TypeInv'
<1>1. CASE UNCHANGED vars
  BY <1>1 DEF vars, TypeInv
<1>2. CASE Stops
  BY <1>2 DEF Stops, TypeInv
<1>3. CASE NeedRoot /\ pc' = "copy"
  BY <1>3 DEF NeedRoot, TypeInv
<1>4. CASE CopyRoot /\ pc' = "list"
  <2>1. /\ fs' = {[path |-> Root \o p, files |-> {p}, owner |-> {p}] : p \in conf.tree}
        /\ mountpoints' = <<<<>>>> /\ UNCHANGED <<conf, ret, m>>
    BY <1>4 DEF CopyRoot, Fail
  <2>2. conf.tree \subseteq Path
    BY ConfigsType DEF TypeInv, Conf
  <2>3. ASSUME NEW p \in conf.tree
        PROVE  [path |-> Root \o p, files |-> {p}, owner |-> {p}] \in Directory
    <3>1. Root \o p \in Path
      BY <2>2, GivenNames, Joined DEF Given
    <3> QED
      BY <2>2, <3>1 DEF Directory
  <2>4. <<<<>>>> \in Seq(Path)
    BY GivenNames DEF Given
  <2> QED
    BY <1>4, <2>1, <2>3, <2>4 DEF TypeInv
<1>5. CASE AddMountpoint
  <2> DEFINE p == conf.images[m].mountpoint
  <2>1. p \in Path
    BY <1>5, GivenNames DEF Given, AddMountpoint
  <2>2. mountpoints' \in {mountpoints, Append(mountpoints, p)} /\ m' = m + 1
        /\ UNCHANGED <<conf, pc, ret, fs>>
    BY <1>5 DEF AddMountpoint
  <2>3. Append(mountpoints, p) \in Seq(Path)
    BY <2>1, AppendProperties DEF TypeInv
  <2> QED
    BY <2>2, <2>3 DEF TypeInv
<1>6. CASE ListDone
  BY <1>6 DEF ListDone, TypeInv
<1>7. CASE Move /\ pc' = "mkdir"
  <2>1. /\ fs' = Moved(InRoot(Current), Target) /\ m <= Len(mountpoints) /\ pc = "move"
        /\ UNCHANGED <<conf, ret, mountpoints, m>>
    BY <1>7 DEF Move, Fail
  <2>2. InRoot(Current) \in Path /\ Target \in Path
    BY <2>1, CurrentType, GivenNames DEF Working
  <2>3. fs' \subseteq Directory
    BY <2>1, <2>2, MovedIs DEF TypeInv
  <2> QED
    BY <1>7, <2>1, <2>3 DEF TypeInv
<1>8. CASE MakeDir /\ pc' = "attributes"
  <2>1. /\ fs' = fs \cup {[path |-> InRoot(Current), files |-> {}, owner |-> {}]}
        /\ pc = "mkdir" /\ UNCHANGED <<conf, ret, mountpoints, m>>
    BY <1>8 DEF MakeDir, Fail
  <2>2. InRoot(Current) \in Path
    BY <2>1, CurrentType, GivenNames DEF Working, ListInv
  <2>3. [path |-> InRoot(Current), files |-> {}, owner |-> {}] \in Directory
    BY <2>2 DEF Directory
  <2> QED
    BY <1>8, <2>1, <2>3 DEF TypeInv
<1>9. CASE Attributes /\ pc' = "move"
  BY <1>9, AttributesAre DEF TypeInv
<1> QED
  BY <1>1, <1>2, <1>3, <1>4, <1>5, <1>6, <1>7, <1>8, <1>9, NextIs

LEMMA ListStep == ASSUME TypeInv, ListInv, [Next]_vars PROVE ListInv'
<1>0. conf' = conf /\ Given' = Given /\ \A i : UsesRoot(i)' = UsesRoot(i)
  <2>1. conf' = conf
    BY DEF Next, vars, NeedRoot, CopyRoot, AddMountpoint, ListDone, Move, MakeDir,
           Attributes, MoveDone, Fail
  <2> QED
    BY <2>1 DEF Given, UsesRoot
<1>l. /\ Len(mountpoints) \in Nat /\ DOMAIN mountpoints = 1..Len(mountpoints)
      /\ mountpoints = <<>> \/ Len(mountpoints) > 0
      /\ m \in Nat \ {0}
  BY LenProperties, EmptySeq DEF TypeInv
<1>1. CASE UNCHANGED vars
  BY <1>0, <1>1 DEF vars, ListInv, Done
<1>2. CASE Stops
  <2>1. /\ pc' = "end" /\ UNCHANGED <<conf, mountpoints, m, fs>>
        /\ ret' = "ok" => \/ /\ pc = "start"
                             /\ \A i \in DOMAIN conf.images : ~UsesRoot(i)
                          \/ pc = "move" /\ m > Len(mountpoints)
    BY <1>2 DEF Stops
  <2>2. Done' /\ mountpoints # <<>> => m > Len(mountpoints) /\ pc \in Working
    BY <2>1 DEF ListInv, Working, Done
  <2>3. Done' /\ mountpoints = <<>> => fs = {} /\ \A i \in DOMAIN conf.images : ~UsesRoot(i)
    BY <2>1 DEF ListInv, Working, Done
  <2>4. ToSet(mountpoints)' = ToSet(mountpoints)
    BY <2>1 DEF ToSet
  <2> QED
    BY <1>0, <2>1, <2>2, <2>3, <2>4 DEF ListInv, Working
<1>3. CASE NeedRoot /\ pc' = "copy"
  BY <1>0, <1>3 DEF NeedRoot, ListInv, Working, Done
<1>4. CASE CopyRoot /\ pc' = "list"
  <2>1. mountpoints' = <<<<>>>> /\ pc = "copy" /\ m' = m
    BY <1>4 DEF CopyRoot, Fail
  <2>2. m' = 1
    BY <2>1 DEF ListInv
  <2>3. /\ DOMAIN mountpoints' = {1} /\ mountpoints'[1] = <<>> /\ mountpoints' # <<>>
    BY <2>1
  <2>4. \A i \in DOMAIN conf.images : ~(i < 1)
    BY ConfigsType DEF TypeInv, Conf
  <2> QED
    BY <1>0, <1>4, <2>2, <2>3, <2>4 DEF ListInv, Working, Done, Given
<1>5. CASE AddMountpoint
  <2> DEFINE p == conf.images[m].mountpoint
  <2>1. /\ pc = "list" /\ pc' = pc /\ m' = m + 1 /\ m \in DOMAIN conf.images
        /\ UNCHANGED <<conf, ret, fs>> /\ p \in Given
        /\ mountpoints' = IF p \in ToSet(mountpoints) THEN mountpoints
                          ELSE Append(mountpoints, p)
    BY <1>5 DEF AddMountpoint, Given
  <2>2. \A i \in DOMAIN conf.images : i \in Nat
    BY ConfigsType, LenProperties DEF TypeInv, Conf
  <2>3. mountpoints # <<>>
    BY <2>1 DEF ListInv
  <2>4. /\ \A k \in DOMAIN mountpoints' : mountpoints'[k] \in Given
        /\ \A j, k \in DOMAIN mountpoints' : mountpoints'[j] = mountpoints'[k] => j = k
        /\ mountpoints'[1] = <<>> /\ mountpoints' # <<>>
        /\ ToSet(mountpoints) \cup {p} \subseteq ToSet(mountpoints')
    <3>1. CASE p \in ToSet(mountpoints)
      BY <2>1, <2>3, <3>1 DEF ListInv
    <3>2. CASE p \notin ToSet(mountpoints)
      <4>1. p \in Path
        BY <2>1, GivenNames
      <4>2. PICK l \in Seq(Path) : l = Append(mountpoints, p) /\ l = mountpoints'
        BY <2>1, <3>2, <4>1, AppendProperties DEF TypeInv
      <4>3. /\ Len(l) = Len(mountpoints) + 1
            /\ \A i \in 1..Len(mountpoints) : l[i] = mountpoints[i]
            /\ l[Len(mountpoints) + 1] = p
        <5>1. PICK q \in Path : q = p
          BY <4>1
        <5>2. mountpoints \in Seq(Path)
          BY DEF TypeInv
        <5>3. /\ Len(Append(mountpoints, q)) = Len(mountpoints) + 1
              /\ \A i \in 1..Len(mountpoints) : Append(mountpoints, q)[i] = mountpoints[i]
              /\ Append(mountpoints, q)[Len(mountpoints) + 1] = q
          BY <5>2, AppendProperties
        <5> HIDE DEF p
        <5> QED
          BY <4>2, <5>1, <5>3
      <4>4. DOMAIN l = 1..(Len(mountpoints) + 1)
        BY <4>3, LenProperties
      <4>5. \A i \in DOMAIN l : l[i] \in Given
        BY <1>l, <2>1, <4>3, <4>4 DEF ListInv
      <4>6. \A i \in 1..Len(mountpoints) : mountpoints[i] # p
        BY <1>l, <3>2 DEF ToSet
      <4>7. ASSUME NEW j \in DOMAIN l, NEW k \in DOMAIN l, l[j] = l[k] PROVE j = k
        BY <1>l, <4>3, <4>4, <4>6, <4>7 DEF ListInv
      <4>8. l[1] = <<>> /\ l # <<>>
        BY <1>l, <2>3, <4>3, <4>4 DEF ListInv
      <4>9. ToSet(mountpoints) \cup {p} \subseteq ToSet(l)
        BY <1>l, <4>3, <4>4 DEF ToSet
      <4> QED
        BY <4>2, <4>5, <4>7, <4>8, <4>9
    <3> QED
      BY <3>1, <3>2
  <2>5. ASSUME NEW i \in DOMAIN conf.images, i < m + 1
        PROVE  conf.images[i].mountpoint \in ToSet(mountpoints')
    <3>1. i < m \/ i = m
      BY <1>l, <2>2, <2>5
    <3> QED
      BY <2>1, <2>4, <3>1 DEF ListInv
  <2> QED
    BY <1>0, <2>1, <2>3, <2>4, <2>5 DEF ListInv, Working, Done
<1>6. CASE ListDone
  <2>1. /\ pc = "list" /\ pc' = "move" /\ m' = 2 /\ m \notin DOMAIN conf.images
        /\ UNCHANGED <<conf, ret, mountpoints, fs>>
    BY <1>6 DEF ListDone
  <2>2. DOMAIN conf.images = 1..Len(conf.images) /\ Len(conf.images) \in Nat
    BY ConfigsType, LenProperties DEF TypeInv, Conf
  <2>3. mountpoints # <<>> /\ mountpoints[1] = <<>> /\ 1 \in DOMAIN mountpoints
    BY <1>l, <2>1 DEF ListInv
  <2>4. Given \subseteq ToSet(mountpoints)
    BY <1>l, <2>1, <2>2, <2>3 DEF ListInv, Given, ToSet
  <2>5. ToSet(mountpoints)' = ToSet(mountpoints)
    BY <2>1 DEF ToSet
  <2> QED
    BY <1>0, <2>1, <2>3, <2>4, <2>5 DEF ListInv, Working, Done
<1>7. CASE Move /\ pc' = "mkdir"
  <2>1. pc = "move" /\ m <= Len(mountpoints) /\ UNCHANGED <<ret, mountpoints, m>>
    BY <1>7 DEF Move, Fail
  <2>2. ToSet(mountpoints)' = ToSet(mountpoints)
    BY <2>1 DEF ToSet
  <2> QED
    BY <1>0, <1>7, <2>1, <2>2 DEF ListInv, Working, Done
<1>8. CASE MakeDir /\ pc' = "attributes"
  <2>1. pc = "mkdir" /\ UNCHANGED <<ret, mountpoints, m>>
    BY <1>8 DEF MakeDir, Fail
  <2>2. ToSet(mountpoints)' = ToSet(mountpoints)
    BY <2>1 DEF ToSet
  <2> QED
    BY <1>0, <1>8, <2>1, <2>2 DEF ListInv, Working, Done
<1>9. CASE Attributes /\ pc' = "move"
  <2>1. pc = "attributes" /\ m' = m + 1 /\ UNCHANGED <<ret, mountpoints>>
    BY <1>9 DEF Attributes, Fail
  <2>2. ToSet(mountpoints)' = ToSet(mountpoints)
    BY <2>1 DEF ToSet
  <2>3. m > 1 => m' > 1
    BY <1>l, <2>1
  <2> QED
    BY <1>0, <1>9, <2>1, <2>2, <2>3 DEF ListInv, Working, Done
<1> QED
  BY <1>1, <1>2, <1>3, <1>4, <1>5, <1>6, <1>7, <1>8, <1>9, NextIs

-----------------------------------------------------------------------------
(* Each file stays in one place: what mv moves it takes away, and what it   *)
(* replaces is empty.                                                       *)
LEMMA LostStep == ASSUME TypeInv, ListInv, NothingLost, [Next]_vars PROVE NothingLost'
<1>0. conf' = conf
  BY DEF Next, vars, NeedRoot, CopyRoot, AddMountpoint, ListDone, Move, MakeDir,
         Attributes, MoveDone, Fail
<1>1. CASE UNCHANGED <<fs, mountpoints>>
  BY <1>0, <1>1 DEF NothingLost
<1>2. CASE CopyRoot /\ pc' = "list"
  <2>1. fs' = {[path |-> Root \o p, files |-> {p}, owner |-> {p}] : p \in conf.tree}
    BY <1>2 DEF CopyRoot, Fail
  <2>2. ASSUME NEW t \in conf.tree PROVE \E d \in fs' : \A x \in fs' : t \in x.files <=> x = d
    <3> DEFINE d == [path |-> Root \o t, files |-> {t}, owner |-> {t}]
    <3>1. d \in fs' /\ t \in d.files
      BY <2>1
    <3>2. \A x \in fs' : t \in x.files => x = d
      BY <2>1
    <3> QED
      BY <3>1, <3>2
  <2> QED
    BY <1>0, <2>2 DEF NothingLost
<1>3. CASE AddMountpoint
  <2>1. pc = "list" /\ mountpoints # <<>> /\ fs' = fs
    BY <1>3 DEF AddMountpoint, ListInv
  <2> QED
    BY <1>0, <2>1 DEF NothingLost
<1>4. CASE Move /\ pc' = "mkdir"
  <2>1. /\ pc = "move" /\ m <= Len(mountpoints) /\ mountpoints' = mountpoints
        /\ fs' = Moved(InRoot(Current), Target) /\ CanMove
    BY <1>4 DEF Move, Fail
  <2>2. PICK p \in Path, q \in Path : p = InRoot(Current) /\ q = Target
    BY <2>1, CurrentType, GivenNames DEF Working
  <2>3. \A d \in fs : IsPrefix(q, d.path) => d.files = {}
    BY <2>1, <2>2 DEF CanMove, Below
  <2>4. fs \subseteq Directory /\ fs' = Moved(p, q)
    BY <2>1, <2>2 DEF TypeInv
  <2>5. ASSUME NEW t \in conf.tree, NEW d \in fs, \A x \in fs : t \in x.files <=> x = d
        PROVE  \E y \in fs' : \A x \in fs' : t \in x.files <=> x = y
    <3>1. CASE IsPrefix(p, d.path)
      <4> DEFINE y == Put(d, q \o Rest(p, d.path))
      <4>1. y \in fs' /\ t \in y.files
        BY <2>4, <2>5, <3>1, MovedIs DEF Put
      <4>2. ASSUME NEW x \in fs', t \in x.files PROVE x = y
        <5>1. CASE x \in fs /\ ~IsPrefix(p, x.path)
          BY <2>5, <3>1, <4>2, <5>1
        <5>2. ASSUME NEW e \in fs, x = Put(e, q \o Rest(p, e.path)) PROVE x = y
          <6>1. t \in e.files
            BY <4>2, <5>2 DEF Put
          <6> QED
            BY <2>5, <5>2, <6>1
        <5> QED
          BY <2>4, <5>1, <5>2, MovedIs
      <4> QED
        BY <4>1, <4>2
    <3>2. CASE ~IsPrefix(p, d.path)
      <4>1. ~IsPrefix(q, d.path)
        BY <2>3, <2>5
      <4>2. d \in fs'
        BY <2>4, <3>2, <4>1, MovedIs
      <4>3. ASSUME NEW x \in fs', t \in x.files PROVE x = d
        <5>1. CASE x \in fs
          BY <2>5, <4>3, <5>1
        <5>2. ASSUME NEW e \in fs, IsPrefix(p, e.path), x = Put(e, q \o Rest(p, e.path))
              PROVE  x = d
          <6>1. t \in e.files
            BY <4>3, <5>2 DEF Put
          <6> QED
            BY <2>5, <3>2, <5>2, <6>1
        <5> QED
          BY <2>4, <5>1, <5>2, MovedIs
      <4> QED
        BY <2>5, <4>2, <4>3
    <3> QED
      BY <3>1, <3>2
  <2> QED
    BY <1>0, <2>1, <2>5 DEF NothingLost
<1>5. CASE MakeDir /\ pc' = "attributes"
  <2> DEFINE new == [path |-> InRoot(Current), files |-> {}, owner |-> {}]
  <2>1. fs' = fs \cup {new} /\ mountpoints' = mountpoints
    BY <1>5 DEF MakeDir, Fail
  <2>2. \A t : t \notin new.files
    OBVIOUS
  <2>3. ASSUME NEW t \in conf.tree, NEW d \in fs, \A x \in fs : t \in x.files <=> x = d
        PROVE  d \in fs' /\ \A x \in fs' : t \in x.files <=> x = d
    <3>1. t \in d.files
      BY <2>3
    <3> QED
      BY <2>1, <2>2, <2>3, <3>1
  <2> QED
    BY <1>0, <2>1, <2>3 DEF NothingLost
<1>6. CASE Attributes /\ pc' = "move"
  <2>1. mountpoints' = mountpoints
    BY <1>6, AttributesAre DEF TypeInv
  <2>2. PICK e \in fs : fs' = {Owned(x, OwnerNow(x, e)) : x \in fs}
    BY <1>6, AttributesAre DEF TypeInv
  <2>3. ASSUME NEW t \in conf.tree, NEW d \in fs, \A x \in fs : t \in x.files <=> x = d
        PROVE  \E y \in fs' : \A x \in fs' : t \in x.files <=> x = y
    <3> DEFINE y == Owned(d, OwnerNow(d, e))
    <3>1. y \in fs' /\ t \in y.files
      BY <2>2, <2>3 DEF Owned
    <3>2. ASSUME NEW z \in fs', t \in z.files PROVE z = y
      <4>1. PICK x \in fs : z = Owned(x, OwnerNow(x, e))
        BY <2>2
      <4>2. t \in x.files
        BY <3>2, <4>1 DEF Owned
      <4> QED
        BY <2>3, <4>1, <4>2
    <3> QED
      BY <3>1, <3>2
  <2> QED
    BY <1>0, <2>1, <2>3 DEF NothingLost
<1>7. CASE Stops \/ (NeedRoot /\ pc' = "copy") \/ ListDone \/ UNCHANGED vars
  BY <1>1, <1>7 DEF Stops, NeedRoot, ListDone, vars
<1> QED
  BY <1>2, <1>3, <1>4, <1>5, <1>6, <1>7, NextIs

-----------------------------------------------------------------------------
(* fs is a tree of directories all the time.                                *)

Rooted == \A d \in fs : Len(d.path) > 1 => \E x \in fs : x.path = Front(d.path)
Single == \A d, x \in fs : d.path = x.path => d = x

LEMMA FrontIs ==
    ASSUME NEW p \in Path, p # <<>>
    PROVE  /\ Len(p) >= 1
           /\ Front(p) \in Path /\ Len(Front(p)) = Len(p) - 1
           /\ \A i \in 1..(Len(p) - 1) : Front(p)[i] = p[i]
<1>1. Len(p) \in Nat \ {0}
  BY EmptySeq DEF Path
<1>2. \A i \in 1..(Len(p) - 1) : p[i] \in Name
  BY <1>1, PathLen
<1>3. PICK n \in Nat : n = Len(p) - 1
  BY <1>1
<1>4. /\ SubSeq(p, 1, n) \in Path
      /\ Len(SubSeq(p, 1, n)) = IF 1 <= n THEN n - 1 + 1 ELSE 0
      /\ \A i \in 1..(n - 1 + 1) : SubSeq(p, 1, n)[i] = p[1 + i - 1]
  BY <1>2, <1>3, SubSeqProperties DEF Path
<1>5. Front(p) = SubSeq(p, 1, n)
  BY <1>3 DEF Front
<1> QED
  BY <1>1, <1>3, <1>4, <1>5

LEMMA FrontJoined ==
    ASSUME NEW p \in Path, NEW r \in Path, r # <<>>
    PROVE  Front(p \o r) = p \o Front(r) /\ Front(r) \in Path
<1>1. /\ Len(p) \in Nat /\ Len(r) \in Nat /\ Len(r) >= 1 /\ Front(r) \in Path
      /\ Len(Front(r)) = Len(r) - 1 /\ \A i \in 1..(Len(r) - 1) : Front(r)[i] = r[i]
  BY PathLen, FrontIs
<1>2. PICK q \in Path :
         /\ q = p \o r /\ Len(q) = Len(p) + Len(r)
         /\ \A i \in 1..Len(p) : q[i] = p[i]
         /\ \A i \in 1..Len(r) : q[i + Len(p)] = r[i]
  BY Joined
<1>3. PICK t \in Path :
         /\ t = p \o Front(r) /\ Len(t) = Len(p) + Len(r) - 1
         /\ \A i \in 1..Len(p) : t[i] = p[i]
         /\ \A i \in 1..(Len(r) - 1) : t[i + Len(p)] = r[i]
  <2>1. PICK f \in Path : f = Front(r) /\ Len(f) = Len(r) - 1
                          /\ \A i \in 1..(Len(r) - 1) : f[i] = r[i]
    BY <1>1
  <2>2. PICK t \in Path :
           /\ t = p \o f /\ Len(t) = Len(p) + Len(f)
           /\ \A i \in 1..Len(p) : t[i] = p[i]
           /\ \A i \in 1..Len(f) : t[i + Len(p)] = f[i]
    BY Joined
  <2>3. t = p \o Front(r) /\ Len(t) = Len(p) + Len(r) - 1
    BY <1>1, <2>1, <2>2
  <2>4. \A i \in 1..(Len(r) - 1) : t[i + Len(p)] = r[i]
    BY <2>1, <2>2
  <2> QED
    BY <2>2, <2>3, <2>4
<1>4. /\ Front(q) \in Path /\ Len(Front(q)) = Len(q) - 1
      /\ \A i \in 1..(Len(q) - 1) : Front(q)[i] = q[i]
  <2>1. q # <<>>
    BY <1>1, <1>2
  <2> QED
    BY <2>1, FrontIs
<1>5. ASSUME NEW i \in 1..Len(t) PROVE q[i] = t[i]
  <2>1. CASE i \in 1..Len(p)
    BY <1>2, <1>3, <2>1
  <2>2. CASE i \notin 1..Len(p)
    <3>1. PICK j \in 1..(Len(r) - 1) : i = j + Len(p)
      <4>1. i - Len(p) \in 1..(Len(r) - 1) /\ i = (i - Len(p)) + Len(p)
        BY <1>1, <1>3, <2>2
      <4> QED
        BY <4>1
    <3>2. j \in 1..Len(r)
      BY <1>1
    <3> QED
      BY <1>2, <1>3, <3>1, <3>2
  <2> QED
    BY <2>1, <2>2
<1>6. Front(q) = t
  <2>1. PICK f \in Path : f = Front(q)
    BY <1>4
  <2>2. Len(f) = Len(t) /\ Len(q) - 1 = Len(t)
    BY <1>1, <1>2, <1>3, <1>4, <2>1
  <2>3. ASSUME NEW i \in 1..Len(f) PROVE f[i] = t[i]
    <3>1. f[i] = q[i]
      BY <1>4, <2>1, <2>2
    <3> QED
      BY <1>5, <2>2, <3>1
  <2> QED
    BY <2>1, <2>2, <2>3, PathEqual
<1> QED
  BY <1>1, <1>2, <1>3, <1>6

LEMMA FrontPrefix ==
    ASSUME NEW p \in Path, NEW q \in Path, q # <<>>, IsPrefix(p, Front(q))
    PROVE  IsPrefix(p, q)
<1>1. /\ Len(p) \in Nat /\ Len(q) \in Nat /\ Len(q) >= 1
      /\ Front(q) \in Path /\ Len(Front(q)) = Len(q) - 1
      /\ \A i \in 1..(Len(q) - 1) : Front(q)[i] = q[i]
  BY PathLen, FrontIs
<1>2. Len(p) <= Len(Front(q)) /\ \A i \in 1..Len(p) : p[i] = Front(q)[i]
  BY <1>1, PrefixIs
<1>3. Len(p) <= Len(q) /\ \A i \in 1..Len(p) : p[i] = q[i]
  BY <1>1, <1>2
<1> QED
  BY <1>3, PrefixIs

LEMMA ShapeStep ==
    ASSUME TypeInv, ListInv, Rooted, Single, [Next]_vars
    PROVE  Rooted' /\ Single'
<1>d. /\ fs \subseteq Directory
      /\ \A d \in fs : d.path \in Path
      /\ Root \in Path /\ Len(Root) = 1
  BY GivenNames DEF TypeInv, Directory, Given
<1>1. CASE UNCHANGED fs
  BY <1>1 DEF Rooted, Single
<1>2. CASE CopyRoot /\ pc' = "list"
  <2>1. fs' = {[path |-> Root \o p, files |-> {p}, owner |-> {p}] : p \in conf.tree}
    BY <1>2 DEF CopyRoot, Fail
  <2>2. conf.tree \subseteq Path /\ \A t \in conf.tree : t # <<>> => Front(t) \in conf.tree
    BY ConfigsType, TreesClosed DEF TypeInv, Conf
  <2>3. ASSUME NEW d \in fs', Len(d.path) > 1 PROVE \E x \in fs' : x.path = Front(d.path)
    <3>1. PICK p \in conf.tree : d = [path |-> Root \o p, files |-> {p}, owner |-> {p}]
      BY <2>1
    <3>2. p \in Path /\ Len(Root \o p) = 1 + Len(p)
      <4>1. p \in Path
        BY <2>2
      <4>2. Len(Root \o p) = Len(Root) + Len(p)
        BY <1>d, <4>1, Joined
      <4> QED
        BY <1>d, <4>1, <4>2
    <3>3. p # <<>>
      BY <2>3, <3>1, <3>2, EmptySeq
    <3>4. Front(d.path) = Root \o Front(p) /\ Front(p) \in conf.tree
      BY <1>d, <2>2, <3>1, <3>2, <3>3, FrontJoined
    <3>5. PICK f \in conf.tree : f = Front(p)
      BY <3>4
    <3>6. [path |-> Root \o f, files |-> {f}, owner |-> {f}] \in fs'
      BY <2>1
    <3> QED
      BY <3>4, <3>5, <3>6
  <2>4. ASSUME NEW d \in fs', NEW x \in fs', d.path = x.path PROVE d = x
    <3>1. PICK p \in conf.tree : d = [path |-> Root \o p, files |-> {p}, owner |-> {p}]
      BY <2>1
    <3>2. PICK q \in conf.tree : x = [path |-> Root \o q, files |-> {q}, owner |-> {q}]
      BY <2>1
    <3>3. p = q
      BY <1>d, <2>2, <2>4, <3>1, <3>2, Common
    <3> QED
      BY <3>1, <3>2, <3>3
  <2> QED
    BY <2>3, <2>4 DEF Rooted, Single
<1>3. CASE Move /\ pc' = "mkdir"
  <2>1. pc = "move" /\ m <= Len(mountpoints) /\ fs' = Moved(InRoot(Current), Target)
    BY <1>3 DEF Move, Fail
  <2>2. PICK p \in Path, q \in Path, h \in Path :
           /\ p = InRoot(Current) /\ p[1] = <<"root">> /\ Len(p) >= 1
           /\ h = Mountpath(Current) /\ Len(h) = 1 /\ h[1] # <<"root">>
           /\ q = Target
           /\ q # h => Exists(h) /\ Len(q) = 2 /\ Front(q) = h
    BY <2>1, CurrentType, GivenNames, PathLen DEF Working
  <2>3. /\ fs' = Moved(p, q)
        /\ \A d \in fs : /\ IsPrefix(p, d.path) => Put(d, q \o Rest(p, d.path)) \in fs'
                         /\ ~IsPrefix(p, d.path) /\ ~IsPrefix(q, d.path) => d \in fs'
        /\ \A x \in fs' :
              \/ x \in fs /\ ~IsPrefix(p, x.path) /\ ~IsPrefix(q, x.path)
              \/ \E d \in fs : IsPrefix(p, d.path) /\ x = Put(d, q \o Rest(p, d.path))
    BY <1>d, <2>1, <2>2, MovedIs
  <2>4. ASSUME NEW d \in fs, IsPrefix(p, d.path)
        PROVE  Rest(p, d.path) \in Path /\ d.path = p \o Rest(p, d.path)
    BY <1>d, <2>4, SplitAt
  <2>5. ASSUME NEW d \in fs', Len(d.path) > 1 PROVE \E x \in fs' : x.path = Front(d.path)
    <3>1. CASE d \in fs /\ ~IsPrefix(p, d.path) /\ ~IsPrefix(q, d.path)
      <4>1. PICK e \in fs : e.path = Front(d.path)
        BY <2>5, <3>1 DEF Rooted
      <4>2. d.path \in Path /\ d.path # <<>>
        BY <1>d, <2>5, <3>1, EmptySeq
      <4>3. ~IsPrefix(p, e.path) /\ ~IsPrefix(q, e.path)
        BY <3>1, <4>1, <4>2, FrontPrefix
      <4> QED
        BY <2>3, <4>1, <4>3
    <3>2. ASSUME NEW y \in fs, IsPrefix(p, y.path), d = Put(y, q \o Rest(p, y.path))
          PROVE  \E x \in fs' : x.path = Front(d.path)
      <4>1. PICK r \in Path : r = Rest(p, y.path) /\ y.path = p \o r /\ d.path = q \o r
        BY <2>4, <3>2 DEF Put
      <4>2. CASE r = <<>>
        <5>1. d.path = q
          BY <4>1, <4>2, ConcatEmptySeq DEF Path
        <5>2. q # h
          BY <2>2, <2>5, <5>1
        <5>3. PICK e \in fs : e.path = h
          BY <2>2, <5>2 DEF Exists
        <5>4. ~IsPrefix(p, h) /\ ~IsPrefix(q, h)
          <6>1. ~IsPrefix(p, h)
            <7>1. 1 \in 1..Len(p)
              BY <2>2, PathLen
            <7> QED
              BY <2>2, <7>1, PrefixIs
          <6>2. ~IsPrefix(q, h)
            <7>1. Len(q) = 2 /\ Len(h) = 1
              BY <2>2, <5>2
            <7>2. IsPrefix(q, h) => Len(q) <= Len(h)
              BY PrefixIs
            <7> QED
              BY <7>1, <7>2
          <6> QED
            BY <6>1, <6>2
        <5>5. e \in fs'
          BY <2>3, <5>3, <5>4
        <5> QED
          BY <2>2, <5>1, <5>2, <5>3, <5>5
      <4>3. CASE r # <<>>
        <5>1. /\ Front(r) \in Path /\ Front(y.path) = p \o Front(r)
              /\ Front(d.path) = q \o Front(r)
          <6>1. Front(p \o r) = p \o Front(r) /\ Front(r) \in Path
            BY <4>3, FrontJoined
          <6>2. Front(q \o r) = q \o Front(r)
            BY <4>3, FrontJoined
          <6> QED
            BY <4>1, <6>1, <6>2
        <5>2. Len(y.path) > 1
          <6>1. Len(r) >= 1 /\ Len(p) >= 1
            BY <2>2, <4>3, FrontIs
          <6>3. Len(p \o r) = Len(p) + Len(r)
            BY Joined
          <6>2. Len(r) \in Nat /\ Len(p) \in Nat
            BY PathLen
          <6> QED
            BY <4>1, <6>1, <6>2, <6>3
        <5>3. PICK e \in fs : e.path = p \o Front(r)
          BY <5>1, <5>2 DEF Rooted
        <5>4. IsPrefix(p, e.path) /\ Rest(p, e.path) = Front(r)
          BY <5>1, <5>3, Joined
        <5>5. Put(e, q \o Front(r)) \in fs'
          BY <2>3, <5>3, <5>4
        <5> QED
          BY <5>1, <5>5 DEF Put
      <4> QED
        BY <4>2, <4>3
    <3> QED
      BY <2>3, <3>1, <3>2
  <2>6. ASSUME NEW x \in fs, NEW d \in fs, IsPrefix(p, d.path), ~IsPrefix(q, x.path)
        PROVE  x.path # q \o Rest(p, d.path)
    BY <2>4, <2>6, Joined
  <2>7. ASSUME NEW d \in fs', NEW x \in fs', d.path = x.path PROVE d = x
    <3>1. CASE d \in fs /\ ~IsPrefix(q, d.path) /\ x \in fs
      BY <2>7, <3>1 DEF Single
    <3>2. ASSUME d \in fs, ~IsPrefix(q, d.path),
                 NEW y \in fs, IsPrefix(p, y.path), x = Put(y, q \o Rest(p, y.path))
          PROVE  d = x
      <4>1. x.path = q \o Rest(p, y.path)
        BY <3>2 DEF Put
      <4> QED
        BY <2>6, <2>7, <3>2, <4>1
    <3>3. ASSUME x \in fs, ~IsPrefix(q, x.path),
                 NEW y \in fs, IsPrefix(p, y.path), d = Put(y, q \o Rest(p, y.path))
          PROVE  d = x
      <4>1. d.path = q \o Rest(p, y.path)
        BY <3>3 DEF Put
      <4> QED
        BY <2>6, <2>7, <3>3, <4>1
    <3>4. ASSUME NEW y \in fs, IsPrefix(p, y.path), d = Put(y, q \o Rest(p, y.path)),
                 NEW z \in fs, IsPrefix(p, z.path), x = Put(z, q \o Rest(p, z.path))
          PROVE  d = x
      <4>1. PICK r \in Path : r = Rest(p, y.path) /\ y.path = p \o r /\ d.path = q \o r
        BY <2>4, <3>4 DEF Put
      <4>2. PICK u \in Path : u = Rest(p, z.path) /\ z.path = p \o u /\ x.path = q \o u
        BY <2>4, <3>4 DEF Put
      <4>3. r = u
        <5>1. q \o r = q \o u
          BY <2>7, <4>1, <4>2
        <5> QED
          BY <5>1, Common
      <4>4. y = z
        BY <4>1, <4>2, <4>3 DEF Single
      <4> QED
        BY <3>4, <4>4
    <3> QED
      BY <2>3, <3>1, <3>2, <3>3, <3>4
  <2> QED
    BY <2>5, <2>7 DEF Rooted, Single
<1>4. CASE MakeDir /\ pc' = "attributes"
  <2> DEFINE new == [path |-> InRoot(Current), files |-> {}, owner |-> {}]
  <2>1. fs' = fs \cup {new} /\ ~Exists(InRoot(Current)) /\ Exists(Front(InRoot(Current)))
    BY <1>4 DEF MakeDir, Fail
  <2>2. \A d \in fs : d.path # new.path
    BY <2>1 DEF Exists
  <2>3. \E x \in fs : x.path = Front(new.path)
    BY <2>1 DEF Exists
  <2> HIDE DEF new
  <2> QED
    BY <2>1, <2>2, <2>3 DEF Rooted, Single
<1>5. CASE Attributes /\ pc' = "move"
  <2>1. PICK e \in fs : fs' = {Owned(x, OwnerNow(x, e)) : x \in fs}
    BY <1>5, AttributesAre DEF TypeInv
  <2>2. \A x \in fs : Owned(x, OwnerNow(x, e)) \in fs' /\ Owned(x, OwnerNow(x, e)).path = x.path
    BY <2>1 DEF Owned
  <2>3. \A y \in fs' : \E x \in fs : y = Owned(x, OwnerNow(x, e)) /\ y.path = x.path
    BY <2>1 DEF Owned
  <2>4. ASSUME NEW d \in fs', NEW x \in fs', d.path = x.path PROVE d = x
    <3>1. PICK y \in fs, z \in fs : /\ d = Owned(y, OwnerNow(y, e)) /\ d.path = y.path
                                    /\ x = Owned(z, OwnerNow(z, e)) /\ x.path = z.path
      BY <2>3
    <3>2. y = z
      BY <2>4, <3>1 DEF Single
    <3> QED
      BY <3>1, <3>2
  <2>5. ASSUME NEW d \in fs', Len(d.path) > 1 PROVE \E x \in fs' : x.path = Front(d.path)
    <3>1. PICK y \in fs : d.path = y.path
      BY <2>3
    <3>2. PICK z \in fs : z.path = Front(d.path)
      BY <2>5, <3>1 DEF Rooted
    <3> QED
      BY <2>2, <3>2
  <2> QED
    BY <2>4, <2>5 DEF Rooted, Single
<1>6. CASE Stops \/ (NeedRoot /\ pc' = "copy") \/ AddMountpoint \/ ListDone \/ UNCHANGED vars
  BY <1>1, <1>6 DEF Stops, NeedRoot, AddMountpoint, ListDone, vars
<1> QED
  BY <1>2, <1>3, <1>4, <1>5, <1>6, NextIs

-----------------------------------------------------------------------------
(* Where everything is when some mount points, the set T, have been moved:  *)
(* a directory is in the innermost of those it is below.                    *)

Home(T, x, q) ==
    /\ x \in T
    /\ IsPrefix(Named(x), q)
    /\ \A y \in T : IsPrefix(Named(y), q) => IsPrefix(Named(y), Named(x))

\* Where q is that belongs to x.
In(x, q) == Mountpath(x) \o Rest(Named(x), q)
Spot(d, T, q) == \E x \in T : Home(T, x, q) /\ d.path = In(x, q)

(* The directories are those of rootpath, and those made for the mount      *)
(* points C, of which O have got their owners.                              *)
Original(d, T) == \E t \in conf.tree : Spot(d, T, t) /\ d.files = {t} /\ d.owner = {t}
Made(d, T, z, O) ==
    /\ Spot(d, T \ {z}, Named(z))
    /\ d.files = {}
    /\ z \in O => d.owner = {Named(z)}

TreeIs(F, T, C, O) ==
    /\ \A d \in F : Original(d, T) \/ \E z \in C : Made(d, T, z, O)
    /\ \A t \in conf.tree : \E d \in F : Spot(d, T, t) /\ d.files = {t}
    /\ \A z \in C : \E d \in F : Spot(d, T \ {z}, Named(z)) /\ d.files = {}
    /\ \A z \in T \ {<<>>} : Named(z) \in conf.tree

LEMMA InIs ==
    ASSUME TypeInv, NEW x \in Given, NEW q \in Path, IsPrefix(Named(x), q)
    PROVE  /\ Rest(Named(x), q) \in Path /\ q = Named(x) \o Rest(Named(x), q)
           /\ In(x, q) \in Path /\ In(x, q)[1] = Mountpath(x)[1]
           /\ IsPrefix(Mountpath(x), In(x, q))
           /\ Rest(Mountpath(x), In(x, q)) = Rest(Named(x), q)
<1>1. Named(x) \in Path /\ Mountpath(x) \in Path /\ Len(Mountpath(x)) = 1
  BY GivenNames
<1>2. Rest(Named(x), q) \in Path /\ q = Named(x) \o Rest(Named(x), q)
  BY <1>1, SplitAt
<1>3. 1 \in 1..Len(Mountpath(x))
  BY <1>1
<1>4. PICK r \in Path : r = Rest(Named(x), q)
  BY <1>2
<1>5. PICK h \in Path : h = Mountpath(x) /\ 1 \in 1..Len(h)
  BY <1>1, <1>3
<1>6. h \o r \in Path /\ (h \o r)[1] = h[1] /\ IsPrefix(h, h \o r) /\ Rest(h, h \o r) = r
  BY <1>5, Joined
<1> QED
  BY <1>2, <1>4, <1>5, <1>6 DEF In

LEMMA InRootIs ==
    ASSUME TypeInv, NEW q \in Path
    PROVE  <<>> \in Given /\ Named(<<>>) = <<>> /\ Mountpath(<<>>) = Root
           /\ IsPrefix(Named(<<>>), q) /\ In(<<>>, q) = Root \o q
BY NamedEmpty, PrefixEmpty DEF Given, Mountpath, In

LEMMA SameEnd ==
    ASSUME NEW v \in Seq(Words), NEW w \in Seq(Words), <<"mp">> \o v = <<"mp">> \o w
    PROVE  v = w
<1>1. <<"mp">> \in Seq(Words) /\ Len(<<"mp">>) = 1
  <2>1. \A z \in Words : <<z>> \in Seq(Words)
    OBVIOUS
  <2> QED
    BY <2>1, WordsType
<1>2. PICK n \in Seq(Words) : n = <<"mp">> \o v /\ n = <<"mp">> \o w
  BY <1>1, ConcatProperties
<1>3. Len(v) \in Nat /\ Len(w) \in Nat /\ Len(n) = 1 + Len(v) /\ Len(n) = 1 + Len(w)
  BY <1>1, <1>2, ConcatProperties, LenProperties
<1>4. Len(v) = Len(w)
  BY <1>3
<1>5. ASSUME NEW i \in 1..Len(v) PROVE v[i] = w[i]
  <2>1. i + 1 \in 1..(1 + Len(v)) /\ i + 1 > 1 /\ (i + 1) - 1 = i
    BY <1>3
  <2>2. n[i + 1] = v[(i + 1) - 1]
    BY <1>1, <1>2, <2>1, ConcatProperties
  <2>3. n[i + 1] = w[(i + 1) - 1]
    BY <1>1, <1>2, <1>4, <2>1, ConcatProperties
  <2> QED
    BY <2>1, <2>2, <2>3
<1> QED
  BY <1>4, <1>5, SeqEqual

LEMMA ApartHeads ==
    ASSUME TypeInv, Apart, NEW x \in Given, NEW y \in Given
    PROVE  /\ Mountpath(x)[1] = Mountpath(y)[1] => x = y
           /\ Named(x) = Named(y) => x = y
<1>1. ASSUME Mountpath(x)[1] = Mountpath(y)[1] PROVE x = y
  <2>1. PICK a \in Path, b \in Path : /\ a = Mountpath(x) /\ b = Mountpath(y)
                                      /\ Len(a) = 1 /\ Len(b) = 1
    BY GivenNames
  <2>2. \A i \in 1..Len(a) : a[i] = b[i]
    BY <1>1, <2>1
  <2>3. a = b
    BY <2>1, <2>2, PathEqual
  <2>4. ASSUME x # <<>>, y # <<>> PROVE Sanitized(x) = Sanitized(y)
    <3>1. PICK v \in Seq(Words), w \in Seq(Words) : v = Sanitized(x) /\ w = Sanitized(y)
      <4>1. Sanitized(x) \in Seq(Words) /\ Sanitized(y) \in Seq(Words)
        BY GivenNames, NamesOf DEF Name
      <4> QED
        BY <4>1
    <3>2. <<"mp">> \o v = <<"mp">> \o w
      BY <2>1, <2>3, <2>4, <3>1 DEF Mountpath
    <3>3. v = w
      BY <3>2, SameEnd
    <3> QED
      BY <3>1, <3>3
  <2>5. x = <<>> <=> y = <<>>
    <3>1. Mountpath(<<>>)[1] = <<"root">>
      BY InRootIs, GivenNames
    <3> QED
      BY <1>1, <3>1, GivenNames
  <2> QED
    BY <2>4, <2>5 DEF Apart, Sanitized
<1> QED
  BY <1>1 DEF Apart

(* Moving the mount point c out of the root.                                *)
MovesTo(d, c) ==
    IF IsPrefix(InRoot(c), d.path)
    THEN Put(d, Mountpath(c) \o Rest(InRoot(c), d.path)) ELSE d

LEMMA SpotMoves ==
    ASSUME TypeInv, Apart, NEW T \in SUBSET Given, NEW c \in Given, c \notin T, c # <<>>,
           \A y \in T : IsPrefix(Named(y), Named(c)) => Named(y) = <<>>,
           NEW d, NEW q \in Path, Spot(d, T, q)
    PROVE  Spot(MovesTo(d, c), T \cup {c}, q)
<1>1. PICK x \in T : Home(T, x, q) /\ d.path = In(x, q)
  BY DEF Spot
<1>2. /\ x \in Given /\ Named(x) \in Path /\ Named(c) \in Path
      /\ IsPrefix(Named(x), q)
      /\ \A y \in T : IsPrefix(Named(y), q) => IsPrefix(Named(y), Named(x))
  BY <1>1, GivenNames DEF Home
<1>3. \A y \in T : Named(y) \in Path
  BY GivenNames
<1>4. CASE x = <<>> /\ IsPrefix(Named(c), q)
  <2>1. \A y \in T : IsPrefix(Named(y), q) => Named(y) = <<>>
    BY <1>2, <1>3, <1>4, InRootIs, PrefixEmpty
  <2>2. Home(T \cup {c}, c, q)
    BY <1>2, <1>4, <2>1, PrefixEmpty, PrefixOrder DEF Home
  <2>3. /\ d.path = Root \o q /\ InRoot(c) = Root \o Named(c) /\ Root \in Path
    BY <1>1, <1>4, InRootIs, GivenNames
  <2>4. IsPrefix(InRoot(c), d.path) /\ Rest(InRoot(c), d.path) = Rest(Named(c), q)
    <3>1. /\ IsPrefix(Root \o Named(c), Root \o q)
          /\ Rest(Root \o Named(c), Root \o q) = Rest(Named(c), q)
      BY <1>2, <1>4, <2>3, Common
    <3> QED
      BY <2>3, <3>1
  <2>5. MovesTo(d, c).path = In(c, q)
    BY <2>4 DEF MovesTo, Put, In
  <2> QED
    BY <2>2, <2>5 DEF Spot
<1>5. CASE ~(x = <<>> /\ IsPrefix(Named(c), q))
  <2>1. ASSUME IsPrefix(Named(c), q) PROVE IsPrefix(Named(c), Named(x))
    <3>1. SUFFICES ASSUME IsPrefix(Named(x), Named(c)) PROVE FALSE
      BY <1>2, <2>1, PrefixOrder
    <3>2. Named(x) = <<>>
      BY <1>1, <3>1
    <3>3. x = <<>>
      BY <1>2, <3>2, InRootIs, ApartHeads
    <3> QED
      BY <1>5, <2>1, <3>3
  <2>2. Home(T \cup {c}, x, q)
    BY <1>1, <1>2, <2>1 DEF Home
  <2>3. ~IsPrefix(InRoot(c), d.path)
    <3>1. SUFFICES ASSUME IsPrefix(InRoot(c), d.path) PROVE FALSE
      OBVIOUS
    <3>2. d.path \in Path /\ d.path[1] = Mountpath(x)[1]
      BY <1>1, <1>2, InIs
    <3>3. /\ InRoot(c) \in Path /\ 1 \in 1..Len(InRoot(c)) /\ InRoot(c)[1] = <<"root">>
          /\ InRoot(c) = Root \o Named(c) /\ Root \in Path
      BY <1>2, GivenNames, PathLen
    <3>4. d.path[1] = <<"root">>
      BY <3>1, <3>2, <3>3, PrefixIs
    <3>5. x = <<>>
      BY <1>2, <3>2, <3>4, GivenNames
    <3>6. d.path = Root \o q
      BY <1>1, <3>5, InRootIs
    <3>7. IsPrefix(Named(c), q)
      BY <1>2, <3>1, <3>3, <3>6, Common
    <3> QED
      BY <1>5, <3>5, <3>7
  <2>4. MovesTo(d, c) = d
    BY <2>3 DEF MovesTo
  <2> QED
    BY <1>1, <2>2, <2>4 DEF Spot
<1> QED
  BY <1>4, <1>5

\* Whatever is somewhere, has a path that begins with what it belongs to.
LEMMA SpotIs ==
    ASSUME TypeInv, NEW T \in SUBSET Given, NEW d, NEW q \in Path, Spot(d, T, q)
    PROVE  \E x \in T : /\ x \in Given /\ Home(T, x, q) /\ d.path = In(x, q)
                        /\ d.path \in Path /\ d.path[1] = Mountpath(x)[1]
<1>1. PICK x \in T : Home(T, x, q) /\ d.path = In(x, q)
  BY DEF Spot
<1>2. x \in Given /\ IsPrefix(Named(x), q)
  BY <1>1 DEF Home
<1> QED
  BY <1>1, <1>2, InIs

LEMMA TreeMove ==
    ASSUME TypeInv, ListInv, Apart, pc = "move", m <= Len(mountpoints), CanMove,
           NEW T \in SUBSET Given, <<>> \in T, Current \notin T,
           TreeIs(fs, T, T \ {<<>>}, T \ {<<>>})
    PROVE  /\ TreeIs(Moved(InRoot(Current), Target), T \cup {Current},
                     T \ {<<>>}, T \ {<<>>})
           /\ Home(T, <<>>, Named(Current))
<1> DEFINE C == T \ {<<>>}
           F == Moved(InRoot(Current), Target)
<1>0. PICK c \in Given : c = Current /\ c # <<>> /\ c \notin T
  BY CurrentType DEF Working
<1>1. /\ Named(c) \in Path /\ Mountpath(c) \in Path /\ InRoot(c) \in Path
      /\ Root \in Path /\ InRoot(c) = Root \o Named(c) /\ InRoot(c)[1] = <<"root">>
      /\ Mountpath(c)[1] # <<"root">> /\ Len(Mountpath(c)) = 1
      /\ \A z \in T : Named(z) \in Path
      /\ conf.tree \subseteq Path /\ <<>> \in Given
  BY <1>0, GivenNames, ConfigsType DEF TypeInv, Conf, Given
<1>2. ASSUME NEW d \in fs
      PROVE  \E U \in SUBSET T, q \in Path : Spot(d, U, q)
             /\ \/ U = T /\ q \in conf.tree
                \/ \E z \in C : U = T \ {z} /\ q = Named(z)
  <2>1. CASE Original(d, T)
    BY <1>1, <2>1 DEF Original
  <2>2. ASSUME NEW z \in C, Made(d, T, z, C)
        PROVE  Spot(d, T \ {z}, Named(z)) /\ Named(z) \in Path
    BY <1>1, <2>2 DEF Made
  <2>3. Original(d, T) \/ \E z \in C : Made(d, T, z, C)
    BY DEF TreeIs
  <2> QED
    BY <2>1, <2>2, <2>3
<1>3. \A d \in fs : \E x \in T : d.path \in Path /\ d.path[1] = Mountpath(x)[1]
  <2> SUFFICES ASSUME NEW d \in fs
               PROVE  \E x \in T : d.path \in Path /\ d.path[1] = Mountpath(x)[1]
    OBVIOUS
  <2>1. PICK U \in SUBSET T, q \in Path : Spot(d, U, q)
    BY <1>2
  <2> QED
    BY <2>1, SpotIs
\* Nothing is where c shall go.
<1>4. \A d \in fs : ~IsPrefix(Mountpath(c), d.path)
  <2> SUFFICES ASSUME NEW d \in fs, IsPrefix(Mountpath(c), d.path) PROVE FALSE
    OBVIOUS
  <2>1. PICK x \in T : d.path \in Path /\ d.path[1] = Mountpath(x)[1]
    BY <1>3
  <2>2. 1 \in 1..Len(Mountpath(c))
    BY <1>1
  <2>3. Mountpath(c)[1] = Mountpath(x)[1]
    BY <1>1, <2>1, <2>2, PrefixIs
  <2> QED
    BY <1>0, <2>3, ApartHeads
<1>5. Target = Mountpath(c)
  <2>1. \A d \in fs : d.path # Mountpath(c)
    BY <1>1, <1>4, PrefixOrder
  <2> QED
    BY <1>0, <2>1, CurrentType DEF Exists, Working
\* What is moved is a directory of rootpath, and still there.
<1>6. PICK e \in fs : e.path = InRoot(c)
  BY <1>0 DEF CanMove, Exists
<1>7. PICK U \in SUBSET T, q \in Path :
         /\ Spot(e, U, q)
         /\ \/ U = T /\ q \in conf.tree
            \/ \E z \in C : U = T \ {z} /\ q = Named(z)
  BY <1>2
<1>8. Home(U, <<>>, q) /\ q = Named(c)
  <2>1. PICK x \in U : /\ x \in Given /\ Home(U, x, q) /\ e.path = In(x, q)
                       /\ e.path[1] = Mountpath(x)[1]
    BY <1>7, SpotIs
  <2>2. x = <<>>
    BY <1>1, <1>6, <2>1, GivenNames
  <2>3. Root \o q = Root \o Named(c)
    BY <1>1, <1>6, <2>1, <2>2, InRootIs
  <2> QED
    BY <1>1, <2>1, <2>2, <2>3, Common
<1>9. U = T /\ Named(c) \in conf.tree
  <2>1. \A z \in C : Named(z) # Named(c)
    BY <1>0, ApartHeads
  <2> QED
    BY <1>7, <1>8, <2>1
<1>10. \A y \in T : IsPrefix(Named(y), Named(c)) => Named(y) = <<>>
  BY <1>1, <1>8, <1>9, InRootIs, PrefixEmpty DEF Home
\* All are somewhere, and are where they shall be afterwards.
<1>11. \A V \in SUBSET T : \A p \in Path : \A d :
          Spot(d, V, p) => Spot(MovesTo(d, c), V \cup {c}, p)
  BY <1>0, <1>10, SpotMoves
<1>12. /\ \A d \in fs : MovesTo(d, c) \in F
       /\ \A y \in F : \E d \in fs : y = MovesTo(d, c)
  <2>1. F = Moved(InRoot(c), Mountpath(c)) /\ fs \subseteq Directory
    BY <1>0, <1>5 DEF TypeInv
  <2>2. ASSUME NEW d \in fs PROVE MovesTo(d, c) \in F
    BY <1>1, <1>4, <2>1, MovedIs DEF MovesTo
  <2>3. ASSUME NEW y \in F PROVE \E d \in fs : y = MovesTo(d, c)
    BY <1>1, <1>4, <2>1, MovedIs DEF MovesTo
  <2> QED
    BY <2>2, <2>3
<1>13. \A d : MovesTo(d, c).files = d.files /\ MovesTo(d, c).owner = d.owner
  BY DEF MovesTo, Put
<1>14. \A z \in C : (T \ {z}) \cup {c} = (T \cup {c}) \ {z} /\ T \ {z} \in SUBSET T
  BY <1>0
<1> HIDE DEF F
<1>15. ASSUME NEW y \in F
       PROVE  Original(y, T \cup {c}) \/ \E z \in C : Made(y, T \cup {c}, z, C)
  <2>1. PICK d \in fs : y = MovesTo(d, c)
    BY <1>12
  <2>2. CASE Original(d, T)
    BY <1>1, <1>11, <1>13, <2>1, <2>2 DEF Original
  <2>3. ASSUME NEW z \in C, Made(d, T, z, C) PROVE Made(y, T \cup {c}, z, C)
    <3>1. Spot(y, (T \ {z}) \cup {c}, Named(z))
      BY <1>1, <1>11, <2>1, <2>3 DEF Made
    <3> QED
      BY <1>13, <1>14, <2>1, <2>3, <3>1 DEF Made
  <2> QED
    BY <2>2, <2>3 DEF TreeIs
<1>16. ASSUME NEW t \in conf.tree
       PROVE  \E y \in F : Spot(y, T \cup {c}, t) /\ y.files = {t}
  <2>1. PICK d \in fs : Spot(d, T, t) /\ d.files = {t}
    BY DEF TreeIs
  <2> QED
    BY <1>1, <1>11, <1>12, <1>13, <2>1
<1>17. ASSUME NEW z \in C
       PROVE  \E y \in F : Spot(y, (T \cup {c}) \ {z}, Named(z)) /\ y.files = {}
  <2>1. PICK d \in fs : Spot(d, T \ {z}, Named(z)) /\ d.files = {}
    BY DEF TreeIs
  <2>2. Spot(MovesTo(d, c), (T \ {z}) \cup {c}, Named(z))
    BY <1>1, <1>11, <1>14, <2>1
  <2> QED
    BY <1>12, <1>13, <1>14, <2>1, <2>2
<1>18. \A z \in (T \cup {c}) \ {<<>>} : Named(z) \in conf.tree
  BY <1>9 DEF TreeIs
<1>19. TreeIs(F, T \cup {c}, C, C)
  BY <1>15, <1>16, <1>17, <1>18 DEF TreeIs
<1> QED
  BY <1>0, <1>8, <1>9, <1>19 DEF F

LEMMA TreeMake ==
    ASSUME TypeInv, NEW T \in SUBSET Given, NEW c \in Given, c \notin T, c # <<>>,
           TreeIs(fs, T \cup {c}, T \ {<<>>}, T \ {<<>>}),
           Home(T, <<>>, Named(c))
    PROVE  TreeIs(fs \cup {[path |-> InRoot(c), files |-> {}, owner |-> {}]},
                  T \cup {c}, (T \cup {c}) \ {<<>>}, T \ {<<>>})
<1> DEFINE new == [path |-> InRoot(c), files |-> {}, owner |-> {}]
           A == T \cup {c}
           C == T \ {<<>>}
           D == A \ {<<>>}
<1>1. Named(c) \in Path /\ new.path = Root \o Named(c) /\ new.files = {}
  BY GivenNames
<1>2. A \ {c} = T /\ c \in D /\ D = C \cup {c} /\ c \notin C
  OBVIOUS
<1>3. Spot(new, A \ {c}, Named(c))
  BY <1>1, <1>2, InRootIs DEF Spot, Home
<1>4. Made(new, A, c, C)
  BY <1>1, <1>2, <1>3 DEF Made
<1> HIDE DEF new, A, C, D
<1>5. TreeIs(fs, A, C, C)
  BY DEF A, C
<1>6. \A d \in fs \cup {new} : Original(d, A) \/ \E z \in D : Made(d, A, z, C)
  BY <1>2, <1>4, <1>5 DEF TreeIs
<1>7. /\ \A t \in conf.tree : \E d \in fs \cup {new} : Spot(d, A, t) /\ d.files = {t}
      /\ \A z \in D : \E d \in fs \cup {new} : Spot(d, A \ {z}, Named(z)) /\ d.files = {}
  BY <1>1, <1>2, <1>3, <1>5 DEF TreeIs
<1>8. TreeIs(fs \cup {new}, A, D, C)
  BY <1>5, <1>6, <1>7 DEF TreeIs
<1> QED
  BY <1>8 DEF new, A, C, D

LEMMA TreeOwn ==
    ASSUME TypeInv, Apart, NEW T \in SUBSET Given, <<>> \in T,
           NEW c \in Given, c = Current, c \notin T, c # <<>>,
           TreeIs(fs, T \cup {c}, (T \cup {c}) \ {<<>>}, T \ {<<>>}),
           Home(T, <<>>, Named(c)),
           NEW e \in fs, e.path = Mountpath(c)
    PROVE  TreeIs({Owned(x, OwnerNow(x, e)) : x \in fs}, T \cup {c},
                  (T \cup {c}) \ {<<>>}, (T \cup {c}) \ {<<>>})
<1> DEFINE A == T \cup {c}
           D == A \ {<<>>}
           C == T \ {<<>>}
           F == {Owned(x, OwnerNow(x, e)) : x \in fs}
<1>0. /\ Named(c) \in Path /\ Mountpath(c) \in Path /\ A \in SUBSET Given
      /\ \A z \in A : A \ {z} \in SUBSET Given /\ Named(z) \in Path
      /\ conf.tree \subseteq Path /\ Root \in Path /\ D \subseteq A
      /\ <<>> \in Given /\ InRoot(c) = Root \o Named(c)
      /\ A \ {c} = T /\ D = C \cup {c} /\ c \notin C
  BY GivenNames, ConfigsType DEF TypeInv, Conf, Given
<1> HIDE DEF A, C, D
<1>1. TreeIs(fs, A, D, C)
  BY DEF A, D, C
\* What has been moved has the owner it had.
<1>2. ASSUME NEW U \in SUBSET Given, NEW q \in Path, Spot(e, U, q)
      PROVE  c \in U /\ q = Named(c)
  <2>1. PICK x \in U : /\ x \in Given /\ Home(U, x, q) /\ e.path = In(x, q)
                       /\ e.path[1] = Mountpath(x)[1]
    BY <1>2, SpotIs
  <2>2. x = c
    BY <2>1, ApartHeads
  <2>3. PICK r \in Path : r = Rest(Named(c), q) /\ q = Named(c) \o r
    BY <2>1, <2>2, InIs DEF Home
  <2>4. Mountpath(c) \o r = Mountpath(c)
    BY <2>1, <2>2, <2>3 DEF In
  <2>5. r = <<>>
    BY <1>0, <2>4, ConcatEqualIffEmpty DEF Path
  <2> QED
    BY <1>0, <2>1, <2>2, <2>3, <2>5, ConcatEmptySeq DEF Path
<1>3. e.owner = {Named(c)}
  <2>1. ~\E z \in D : Made(e, A, z, C)
    <3> SUFFICES ASSUME NEW z \in D, Made(e, A, z, C) PROVE FALSE
      OBVIOUS
    <3>1. c \in A \ {z} /\ Named(z) = Named(c)
      BY <1>0, <1>2 DEF Made
    <3> QED
      BY <1>0, <3>1, ApartHeads
  <2>2. Original(e, A)
    BY <1>1, <2>1 DEF TreeIs
  <2> QED
    BY <1>0, <1>2, <2>2 DEF Original
\* What is at the place of c in the root, belongs there.
<1>4. ASSUME NEW x, NEW U \in SUBSET Given, NEW q \in Path, Spot(x, U, q),
             x.path = InRoot(c)
      PROVE  q = Named(c)
  <2>1. PICK y \in U : /\ y \in Given /\ Home(U, y, q) /\ x.path = In(y, q)
                       /\ x.path[1] = Mountpath(y)[1]
    BY <1>4, SpotIs
  <2>2. y = <<>>
    BY <1>4, <2>1, GivenNames
  <2>3. Root \o q = Root \o Named(c)
    BY <1>0, <1>4, <2>1, <2>2, InRootIs
  <2> QED
    BY <1>0, <2>3, Common
<1>5. ASSUME NEW x, Spot(x, T, Named(c)) PROVE x.path = InRoot(c)
  <2>1. PICK y \in T : y \in Given /\ Home(T, y, Named(c)) /\ x.path = In(y, Named(c))
    BY <1>0, <1>5, SpotIs
  <2>2. Named(y) = <<>>
    <3>1. IsPrefix(Named(y), <<>>)
      BY <2>1, InRootIs, <1>0 DEF Home
    <3> QED
      BY <2>1, <3>1, GivenNames, PrefixEmpty
  <2>3. y = <<>>
    BY <1>0, <2>1, <2>2, InRootIs, ApartHeads
  <2> QED
    BY <1>0, <2>1, <2>3, InRootIs
<1>6. \A x : LET y == Owned(x, OwnerNow(x, e))
             IN  /\ y.path = x.path /\ y.files = x.files
                 /\ \A U, q : Spot(y, U, q) <=> Spot(x, U, q)
                 /\ x.path = InRoot(c) => y.owner = {Named(c)}
                 /\ x.path # InRoot(c) => y.owner = x.owner
  BY <1>3 DEF Owned, OwnerNow, Spot
<1>7. ASSUME NEW x \in fs
      PROVE  LET y == Owned(x, OwnerNow(x, e))
             IN  Original(y, A) \/ \E z \in D : Made(y, A, z, D)
  <2> DEFINE y == Owned(x, OwnerNow(x, e))
  <2>0. /\ y.path = x.path /\ y.files = x.files
        /\ \A U, q : Spot(y, U, q) <=> Spot(x, U, q)
        /\ x.path = InRoot(c) => y.owner = {Named(c)}
        /\ x.path # InRoot(c) => y.owner = x.owner
    BY <1>6
  <2> HIDE DEF y
  <2>1. CASE Original(x, A)
    <3>1. PICK t \in conf.tree : Spot(x, A, t) /\ x.files = {t} /\ x.owner = {t}
      BY <2>1 DEF Original
    <3>2. x.path = InRoot(c) => t = Named(c)
      BY <1>0, <1>4, <3>1
    <3>3. Original(y, A)
      BY <2>0, <3>1, <3>2 DEF Original
    <3> QED
      BY <3>3 DEF y
  <2>2. ASSUME NEW z \in D, Made(x, A, z, C) PROVE Made(y, A, z, D)
    <3>1. Spot(x, A \ {z}, Named(z)) /\ x.files = {} /\ (z \in C => x.owner = {Named(z)})
      BY <2>2 DEF Made
    <3>2. x.path = InRoot(c) => Named(z) = Named(c)
      BY <1>0, <1>4, <3>1
    <3>3. CASE x.path = InRoot(c)
      BY <2>0, <3>1, <3>2, <3>3 DEF Made
    <3>4. CASE x.path # InRoot(c)
      <4>1. z # c
        BY <1>0, <1>5, <3>1, <3>4
      <4> QED
        BY <1>0, <2>0, <3>1, <3>4, <4>1 DEF Made
    <3> QED
      BY <3>3, <3>4
  <2>3. Original(y, A) \/ \E z \in D : Made(y, A, z, D)
    BY <1>1, <2>1, <2>2 DEF TreeIs, y
  <2> QED
    BY <2>3 DEF y
<1>8. ASSUME NEW t \in conf.tree PROVE \E y \in F : Spot(y, A, t) /\ y.files = {t}
  <2>1. PICK x \in fs : Spot(x, A, t) /\ x.files = {t}
    BY <1>1 DEF TreeIs
  <2> QED
    BY <1>6, <2>1
<1>9. ASSUME NEW z \in D PROVE \E y \in F : Spot(y, A \ {z}, Named(z)) /\ y.files = {}
  <2>1. PICK x \in fs : Spot(x, A \ {z}, Named(z)) /\ x.files = {}
    BY <1>1 DEF TreeIs
  <2> QED
    BY <1>6, <2>1
<1>10. TreeIs(F, A, D, D)
  <2>1. \A y \in F : Original(y, A) \/ \E z \in D : Made(y, A, z, D)
    BY <1>7
  <2>2. \A z \in A \ {<<>>} : Named(z) \in conf.tree
    BY <1>1 DEF TreeIs
  <2> HIDE DEF F
  <2> QED
    BY <1>8, <1>9, <2>1, <2>2 DEF TreeIs
<1> QED
  BY <1>10 DEF A, C, D

-----------------------------------------------------------------------------
(* The whole invariant.                                                     *)

\* The mount points that the cursor has passed.
Passed == {mountpoints[k] : k \in {j \in DOMAIN mountpoints : j < m}}
Fresh(T) == T \ {<<>>}

TreeInv ==
    /\ pc = "list" => TreeIs(fs, {<<>>}, {}, {})
    /\ pc = "move" \/ (Done /\ mountpoints # <<>>) =>
          TreeIs(fs, Passed, Fresh(Passed), Fresh(Passed))
    /\ pc = "mkdir" => TreeIs(fs, Passed \cup {Current}, Fresh(Passed), Fresh(Passed))
    /\ pc = "attributes" =>
          TreeIs(fs, Passed \cup {Current}, Fresh(Passed \cup {Current}), Fresh(Passed))
    /\ pc \in {"mkdir", "attributes"} => Home(Passed, <<>>, Named(Current))

IInv == TypeInv /\ ListInv /\ NothingLost /\ Rooted /\ Single /\ (Apart => TreeInv)

LEMMA PassedIs ==
    ASSUME TypeInv, ListInv, pc \in Working
    PROVE  /\ Passed \in SUBSET Given /\ <<>> \in Passed
           /\ m <= Len(mountpoints) => Current \notin Passed /\ Current \in Given /\ Current # <<>>
<1>1. 1 \in DOMAIN mountpoints /\ 1 < m /\ mountpoints[1] = <<>>
  BY LenProperties, EmptySeq DEF TypeInv, ListInv, Working
<1>2. Passed \in SUBSET Given
  BY DEF Passed, ListInv
<1>3. <<>> \in Passed
  BY <1>1 DEF Passed
<1>4. ASSUME m <= Len(mountpoints)
      PROVE  Current \notin Passed /\ Current \in Given /\ Current # <<>>
  <2>1. m \in DOMAIN mountpoints /\ Current \in Given /\ Current # <<>>
    BY <1>4, CurrentType
  <2>2. \A j \in DOMAIN mountpoints : mountpoints[j] = Current => j = m
    BY <2>1 DEF ListInv, Current
  <2>3. \A j \in DOMAIN mountpoints : j < m => j # m
    BY DEF TypeInv
  <2> QED
    BY <2>1, <2>2, <2>3 DEF Passed
<1> QED
  BY <1>2, <1>3, <1>4

LEMMA TreeStep ==
    ASSUME TypeInv, ListInv, Apart, TreeInv, [Next]_vars
    PROVE  TreeInv'
<1>0. conf' = conf
  BY DEF Next, vars, NeedRoot, CopyRoot, AddMountpoint, ListDone, Move, MakeDir,
         Attributes, MoveDone, Fail
<1>s. TreeIs(fs, {<<>>}, {}, {})' <=> TreeIs(fs', {<<>>}, {}, {})
  BY <1>0 DEF TreeIs, Original
<1>1. CASE UNCHANGED vars
  <2>1. UNCHANGED <<conf, pc, ret, mountpoints, m, fs>>
    BY <1>1 DEF vars
  <2>2. Passed' = Passed /\ Current' = Current /\ Done' = Done
    BY <2>1 DEF Passed, Current, Done
  <2> QED
    BY <2>1, <2>2 DEF TreeInv, Fresh, TreeIs, Original
<1>2. CASE Stops
  <2>1. pc' = "end" /\ UNCHANGED <<mountpoints, m, fs>>
    BY <1>2 DEF Stops
  <2>2. Done' /\ mountpoints # <<>> => pc = "move"
    BY <1>2 DEF Stops, Done, ListInv
  <2>3. Passed' = Passed
    BY <2>1 DEF Passed
  <2>4. TreeIs(fs, Passed, Fresh(Passed), Fresh(Passed)) =>
          TreeIs(fs, Passed, Fresh(Passed), Fresh(Passed))'
    BY <1>0, <2>1, <2>3 DEF TreeIs, Original, Fresh
  <2> QED
    BY <2>1, <2>2, <2>4 DEF TreeInv
<1>3. CASE NeedRoot /\ pc' = "copy"
  BY <1>3 DEF TreeInv, Done
<1>4. CASE CopyRoot /\ pc' = "list"
  <2>1. fs' = {[path |-> Root \o p, files |-> {p}, owner |-> {p}] : p \in conf.tree}
    BY <1>4 DEF CopyRoot, Fail
  <2>2. conf.tree \subseteq Path
    BY ConfigsType DEF TypeInv, Conf
  <2>3. ASSUME NEW p \in conf.tree
        PROVE  \A d : d.path = Root \o p => Spot(d, {<<>>}, p)
    <3>1. p \in Path
      BY <2>2
    <3>2. /\ Named(<<>>) = <<>> /\ In(<<>>, p) = Root \o p
          /\ IsPrefix(<<>>, p) /\ IsPrefix(<<>>, <<>>)
      BY <3>1, InRootIs, PrefixEmpty
    <3>3. Home({<<>>}, <<>>, p)
      BY <3>2 DEF Home
    <3> QED
      BY <3>2, <3>3 DEF Spot
  <2>4. \A d \in fs' : Original(d, {<<>>})
    <3> SUFFICES ASSUME NEW d \in fs' PROVE Original(d, {<<>>})
      OBVIOUS
    <3>1. PICK p \in conf.tree : d = [path |-> Root \o p, files |-> {p}, owner |-> {p}]
      BY <2>1
    <3> QED
      BY <2>3, <3>1 DEF Original
  <2>5. ASSUME NEW t \in conf.tree
        PROVE  \E d \in fs' : Spot(d, {<<>>}, t) /\ d.files = {t}
    <3> DEFINE d == [path |-> Root \o t, files |-> {t}, owner |-> {t}]
    <3>1. d \in fs' /\ d.path = Root \o t /\ d.files = {t}
      BY <2>1
    <3> QED
      BY <2>3, <3>1
  <2>6. TreeIs(fs', {<<>>}, {}, {})
    BY <2>4, <2>5 DEF TreeIs
  <2> QED
    BY <1>4, <1>s, <2>6 DEF TreeInv, Done
<1>5. CASE AddMountpoint
  <2>1. pc = "list" /\ pc' = "list" /\ fs' = fs
    BY <1>5 DEF AddMountpoint
  <2> QED
    BY <1>s, <2>1 DEF TreeInv, Done
<1>6. CASE ListDone
  <2>1. pc = "list" /\ pc' = "move" /\ m' = 2 /\ mountpoints' = mountpoints /\ fs' = fs
    BY <1>6 DEF ListDone
  <2>2. mountpoints # <<>> /\ mountpoints[1] = <<>>
    BY <2>1 DEF ListInv
  <2>3. DOMAIN mountpoints = 1..Len(mountpoints) /\ Len(mountpoints) \in Nat \ {0}
    BY <2>2, LenProperties, EmptySeq DEF TypeInv
  <2>4. {j \in DOMAIN mountpoints : j < 2} = {1}
    BY <2>3
  <2>5. Passed' = {<<>>} /\ Fresh(Passed)' = {}
    BY <2>1, <2>2, <2>4 DEF Passed, Fresh
  <2>6. TreeIs(fs', {<<>>}, {}, {})
    BY <2>1 DEF TreeInv
  <2>7. TreeIs(fs, Passed, Fresh(Passed), Fresh(Passed))'
    BY <1>0, <2>5, <2>6 DEF TreeIs, Original
  <2> QED
    BY <2>1, <2>7 DEF TreeInv, Done
<1>7. CASE Move /\ pc' = "mkdir"
  <2>1. /\ pc = "move" /\ m <= Len(mountpoints) /\ CanMove
        /\ fs' = Moved(InRoot(Current), Target) /\ UNCHANGED <<mountpoints, m>>
    BY <1>7 DEF Move, Fail
  <2>2. Passed' = Passed /\ Current' = Current
    BY <2>1 DEF Passed, Current
  <2>3. /\ Passed \in SUBSET Given /\ <<>> \in Passed /\ Current \notin Passed
        /\ TreeIs(fs, Passed, Passed \ {<<>>}, Passed \ {<<>>})
    BY <2>1, PassedIs DEF Working, TreeInv, Fresh
  <2>4. PICK T \in SUBSET Given : T = Passed
    BY <2>3
  <2>5. /\ TreeIs(Moved(InRoot(Current), Target), T \cup {Current}, T \ {<<>>}, T \ {<<>>})
        /\ Home(T, <<>>, Named(Current))
    BY <2>1, <2>3, <2>4, TreeMove
  <2>6. TreeIs(fs, Passed \cup {Current}, Fresh(Passed), Fresh(Passed))'
    BY <1>0, <2>1, <2>2, <2>4, <2>5 DEF TreeIs, Original, Fresh
  <2> QED
    BY <1>7, <2>2, <2>4, <2>5, <2>6 DEF TreeInv, Done
<1>8. CASE MakeDir /\ pc' = "attributes"
  <2>1. /\ pc = "mkdir" /\ UNCHANGED <<mountpoints, m>>
        /\ fs' = fs \cup {[path |-> InRoot(Current), files |-> {}, owner |-> {}]}
    BY <1>8 DEF MakeDir, Fail
  <2>2. Passed' = Passed /\ Current' = Current
    BY <2>1 DEF Passed, Current
  <2>3. PICK T \in SUBSET Given, c \in Given :
           T = Passed /\ c = Current /\ c \notin T /\ c # <<>>
    BY <2>1, PassedIs DEF Working, ListInv
  <2>4. /\ TreeIs(fs, T \cup {c}, T \ {<<>>}, T \ {<<>>})
        /\ Home(T, <<>>, Named(c))
    BY <2>1, <2>3 DEF TreeInv, Fresh
  <2>5. TreeIs(fs', T \cup {c}, (T \cup {c}) \ {<<>>}, T \ {<<>>})
    BY <2>1, <2>3, <2>4, TreeMake
  <2>6. TreeIs(fs, Passed \cup {Current}, Fresh(Passed \cup {Current}), Fresh(Passed))'
    BY <1>0, <2>2, <2>3, <2>5 DEF TreeIs, Original, Fresh
  <2> QED
    BY <1>8, <2>2, <2>3, <2>4, <2>6 DEF TreeInv, Done
<1>9. CASE Attributes /\ pc' = "move"
  <2>1. /\ pc = "attributes" /\ m' = m + 1 /\ UNCHANGED mountpoints
        /\ \E e \in fs : /\ e.path = Reference
                         /\ fs' = {Owned(x, OwnerNow(x, e)) : x \in fs}
    BY <1>9, AttributesAre DEF TypeInv
  <2>2. PICK e \in fs : /\ e.path = Mountpath(Current)
                        /\ fs' = {Owned(x, OwnerNow(x, e)) : x \in fs}
    BY <2>1 DEF Reference
  <2>3. PICK T \in SUBSET Given, c \in Given :
           T = Passed /\ c = Current /\ c \notin T /\ c # <<>> /\ <<>> \in T
    BY <2>1, PassedIs DEF Working, ListInv
  <2>4. /\ TreeIs(fs, T \cup {c}, (T \cup {c}) \ {<<>>}, T \ {<<>>})
        /\ Home(T, <<>>, Named(c))
    BY <2>1, <2>3 DEF TreeInv, Fresh
  <2>5. TreeIs(fs', T \cup {c}, (T \cup {c}) \ {<<>>}, (T \cup {c}) \ {<<>>})
    BY <2>2, <2>3, <2>4, TreeOwn
  <2>6. Passed' = T \cup {c}
    <3>1. m \in DOMAIN mountpoints /\ \A j \in DOMAIN mountpoints : j \in Nat
      BY <2>1, CurrentType, LenProperties DEF Working, ListInv, TypeInv
    <3>2. {j \in DOMAIN mountpoints : j < m + 1} = {j \in DOMAIN mountpoints : j < m} \cup {m}
      BY <3>1 DEF TypeInv
    <3> QED
      BY <2>1, <2>3, <3>2 DEF Passed, Current
  <2>7. TreeIs(fs, Passed, Fresh(Passed), Fresh(Passed))'
    BY <1>0, <2>5, <2>6 DEF TreeIs, Original, Fresh
  <2> QED
    BY <1>9, <2>7 DEF TreeInv, Done
<1> QED
  BY <1>1, <1>2, <1>3, <1>4, <1>5, <1>6, <1>7, <1>8, <1>9, NextIs

LEMMA Invariance == Spec => []IInv
<1>1. Init => IInv
  <2> SUFFICES ASSUME Init PROVE IInv
    OBVIOUS
  <2> USE DEF Init
  <2>1. mountpoints \in Seq(Path) /\ DOMAIN mountpoints = {}
    BY EmptySeq
  <2>2. TypeInv
    BY <2>1 DEF TypeInv
  <2>3. ListInv
    BY <2>1 DEF ListInv, Working, Done
  <2>4. NothingLost /\ Rooted /\ Single /\ TreeInv
    BY DEF NothingLost, Rooted, Single, TreeInv, Done
  <2> QED
    BY <2>2, <2>3, <2>4 DEF IInv
<1>2. IInv /\ [Next]_vars => IInv'
  <2> SUFFICES ASSUME IInv, [Next]_vars PROVE IInv'
    OBVIOUS
  <2> USE DEF IInv
  <2>1. TypeInv' /\ ListInv'
    BY TypeStep, ListStep
  <2>2. NothingLost' /\ Rooted' /\ Single'
    BY LostStep, ShapeStep
  <2>3. Apart' => TreeInv'
    <3>1. conf' = conf
      BY DEF Next, vars, NeedRoot, CopyRoot, AddMountpoint, ListDone, Move, MakeDir,
             Attributes, MoveDone, Fail
    <3>2. Apart' <=> Apart
      BY <3>1 DEF Apart, Given
    <3> QED
      BY <3>2, TreeStep
  <2> QED
    BY <2>1, <2>2, <2>3
<1> QED
  BY <1>1, <1>2, PTL DEF Spec

-----------------------------------------------------------------------------
(* The variables stay in their domains, and the directories below tmppath   *)
(* a tree.                                                                  *)
THEOREM TypeCorrect == Spec => []TypeOK
<1>1. IInv => TypeOK
  BY ConfigsType DEF IInv, TypeInv, Rooted, Single, TypeOK
<1> QED
  BY <1>1, Invariance, PTL

(* The files of each directory of rootpath are in exactly one place, after  *)
(* each command, whether it fails or not, and however mount points are      *)
(* called.                                                                  *)
THEOREM NothingLostHolds == Spec => []NothingLost
<1>1. IInv => NothingLost
  BY DEF IInv
<1> QED
  BY <1>1, Invariance, PTL

LEMMA DoneIs ==
    ASSUME IInv, Done, Apart, mountpoints # <<>>
    PROVE  /\ ToSet(mountpoints) = Passed /\ Passed \in SUBSET Given /\ Given \subseteq Passed
           /\ TreeIs(fs, Passed, Fresh(Passed), Fresh(Passed))
<1>1. m > Len(mountpoints) /\ Given \subseteq ToSet(mountpoints)
  BY DEF IInv, ListInv
<1>2. \A j \in DOMAIN mountpoints : j < m
  BY <1>1, LenProperties DEF IInv, TypeInv
<1>3. ToSet(mountpoints) = Passed
  BY <1>2 DEF Passed, ToSet
<1>4. Passed \in SUBSET Given
  BY DEF Passed, IInv, ListInv
<1> QED
  BY <1>1, <1>3, <1>4 DEF IInv, TreeInv

(* Directories of the root tree that a mount point left behind have owner   *)
(* and mode of the one that was moved.                                      *)
THEOREM OwnersKeptHolds == Spec => []OwnersKept
<1>1. ASSUME IInv PROVE OwnersKept
  <2> SUFFICES ASSUME Done, Apart, NEW d \in Below(Root)
               PROVE  d.owner = {SubSeq(d.path, 2, Len(d.path))}
    BY DEF OwnersKept
  <2>0. TypeInv /\ d \in fs /\ IsPrefix(Root, d.path) /\ d.path \in Path
    BY <1>1 DEF IInv, TypeInv, Below, Directory
  <2>1. mountpoints # <<>>
    BY <1>1, <2>0 DEF IInv, ListInv
  <2>2. PICK T \in SUBSET Given :
           /\ T = Passed
           /\ TreeIs(fs, T, T \ {<<>>}, T \ {<<>>})
    BY <1>1, <2>1, DoneIs DEF Fresh
  <2>3. PICK U \in SUBSET T, q \in Path : Spot(d, U, q) /\ d.owner = {q}
    <3>1. conf.tree \subseteq Path /\ \A z \in T : Named(z) \in Path
      BY <2>0, GivenNames, ConfigsType DEF TypeInv, Conf
    <3>2. CASE Original(d, T)
      BY <3>1, <3>2 DEF Original
    <3>3. ASSUME NEW z \in T \ {<<>>}, Made(d, T, z, T \ {<<>>})
          PROVE  Spot(d, T \ {z}, Named(z)) /\ d.owner = {Named(z)} /\ Named(z) \in Path
      BY <3>1, <3>3 DEF Made
    <3>4. Original(d, T) \/ \E z \in T \ {<<>>} : Made(d, T, z, T \ {<<>>})
      BY <2>0, <2>2 DEF TreeIs
    <3> QED
      BY <3>2, <3>3, <3>4
  <2>4. PICK x \in U : /\ x \in Given /\ Home(U, x, q) /\ d.path = In(x, q)
                       /\ d.path[1] = Mountpath(x)[1]
    BY <2>0, <2>3, SpotIs
  <2>5. Root \in Path /\ Len(Root) = 1 /\ Root[1] = <<"root">> /\ <<>> \in Given
    BY <2>0, GivenNames DEF Given
  <2>6. d.path[1] = <<"root">>
    <3>1. 1 \in 1..Len(Root)
      BY <2>5
    <3> QED
      BY <2>0, <2>5, <3>1, PrefixIs
  <2>7. x = <<>>
    BY <2>0, <2>4, <2>6, GivenNames
  <2>8. d.path = Root \o q
    BY <2>0, <2>4, <2>7, InRootIs
  <2>9. Rest(Root, d.path) = q
    BY <2>5, <2>8, Joined
  <2>10. Rest(Root, d.path) = SubSeq(d.path, 2, Len(d.path))
    <3>1. Len(Root) + 1 = 2
      BY <2>5
    <3> QED
      BY <3>1 DEF Rest
  <2> QED
    BY <2>3, <2>9, <2>10
<1> QED
  BY <1>1, Invariance, PTL

(* What is found in the directory of a mount point: all that is at home     *)
(* there, and nothing else.                                                 *)
LEMMA ContentIs ==
    ASSUME TypeInv, Apart, NEW T \in SUBSET Given, Mounted = {Named(z) : z \in T},
           TreeIs(fs, T, T \ {<<>>}, T \ {<<>>}), NEW p \in T
    PROVE  Found(Named(p), Mountpath(p)) = Content(Named(p))
<1> DEFINE n == Named(p)
           C == T \ {<<>>}
           entry(q) == [path |-> q, files |-> IF q \in Mounted \ {n} THEN {} ELSE {q}]
           found(d) == [path |-> n \o Rest(Mountpath(p), d.path), files |-> d.files]
<1>0. /\ p \in Given /\ n \in Path /\ Mountpath(p) \in Path /\ Len(Mountpath(p)) = 1
      /\ conf.tree \subseteq Path /\ \A z \in T : Named(z) \in Path
      /\ \A x, y \in T : Named(x) = Named(y) => x = y
  BY GivenNames, ConfigsType, ApartHeads DEF TypeInv, Conf
<1>1. \A e : e \in Content(n) <=>
        \E q \in conf.tree :
           /\ e = entry(q)
           /\ IsPrefix(n, q)
           /\ ~\E x \in Mounted : IsStrictPrefix(n, x) /\ IsStrictPrefix(x, q)
  BY DEF Content
<1>2. \A e : e \in Found(n, Mountpath(p)) <=>
        \E d \in fs : IsPrefix(Mountpath(p), d.path) /\ e = found(d)
  BY DEF Found, Below, Rest
<1> HIDE DEF n
\* A directory at home in p comes out under its name.
<1>3. ASSUME NEW d, NEW U \in SUBSET T, NEW q \in Path, Home(U, p, q), d.path = In(p, q)
      PROVE  IsPrefix(Mountpath(p), d.path) /\ found(d) = [path |-> q, files |-> d.files]
  <2>1. /\ IsPrefix(Mountpath(p), In(p, q)) /\ q = n \o Rest(n, q)
        /\ Rest(Mountpath(p), In(p, q)) = Rest(n, q)
    BY <1>0, <1>3, InIs DEF Home, n
  <2> QED
    BY <1>3, <2>1
<1>4. ASSUME NEW d, NEW U \in SUBSET T, NEW q \in Path, Spot(d, U, q),
             IsPrefix(Mountpath(p), d.path)
      PROVE  Home(U, p, q) /\ d.path = In(p, q)
  <2>1. PICK x \in U : /\ x \in Given /\ Home(U, x, q) /\ d.path = In(x, q)
                       /\ d.path \in Path /\ d.path[1] = Mountpath(x)[1]
    BY <1>4, SpotIs
  <2>2. 1 \in 1..Len(Mountpath(p))
    BY <1>0
  <2>3. d.path[1] = Mountpath(p)[1]
    BY <1>0, <1>4, <2>1, <2>2, PrefixIs
  <2>4. x = p
    BY <1>0, <2>1, <2>3, ApartHeads
  <2> QED
    BY <2>1, <2>4
<1>5. ASSUME NEW e \in Found(n, Mountpath(p)) PROVE e \in Content(n)
  <2>1. PICK d \in fs : IsPrefix(Mountpath(p), d.path) /\ e = found(d)
    BY <1>2
  <2>2. CASE Original(d, T)
    <3>1. PICK t \in conf.tree : Spot(d, T, t) /\ d.files = {t}
      BY <2>2 DEF Original
    <3>2. /\ t \in Path /\ Home(T, p, t) /\ d.path = In(p, t)
      BY <1>0, <1>4, <2>1, <3>1
    <3>3. e = [path |-> t, files |-> {t}]
      BY <1>3, <2>1, <3>1, <3>2
    <3>4. IsPrefix(n, t) /\ \A z \in T : IsPrefix(Named(z), t) => IsPrefix(Named(z), n)
      BY <3>2 DEF Home, n
    <3>5. t \notin Mounted \ {n}
      <4>1. ASSUME NEW z \in T, t = Named(z) PROVE t = n
        BY <1>0, <3>2, <3>4, <4>1, PrefixOrder
      <4> QED
        BY <4>1
    <3>6. ~\E x \in Mounted : IsStrictPrefix(n, x) /\ IsStrictPrefix(x, t)
      <4> SUFFICES ASSUME NEW z \in T, IsStrictPrefix(n, Named(z)), IsStrictPrefix(Named(z), t)
                   PROVE  FALSE
        OBVIOUS
      <4>1. IsPrefix(Named(z), n) /\ IsPrefix(n, Named(z)) /\ n # Named(z)
        BY <3>4 DEF IsStrictPrefix
      <4> QED
        BY <1>0, <4>1, PrefixOrder
    <3> QED
      BY <1>1, <3>3, <3>4, <3>5, <3>6
  <2>3. ASSUME NEW z \in C, Made(d, T, z, C) PROVE e \in Content(n)
    <3>1. Spot(d, T \ {z}, Named(z)) /\ d.files = {} /\ Named(z) \in Path /\ Named(z) \in conf.tree
      BY <1>0, <2>3 DEF Made, TreeIs
    <3>2. Home(T \ {z}, p, Named(z)) /\ d.path = In(p, Named(z))
      BY <1>4, <2>1, <3>1
    <3>3. e = [path |-> Named(z), files |-> {}]
      BY <1>3, <2>1, <3>1, <3>2
    <3>4. /\ p # z /\ IsPrefix(n, Named(z))
          /\ \A y \in T \ {z} : IsPrefix(Named(y), Named(z)) => IsPrefix(Named(y), n)
      BY <3>2 DEF Home, n
    <3>5. Named(z) \in Mounted \ {n}
      BY <1>0, <3>4 DEF n
    <3>6. ~\E x \in Mounted : IsStrictPrefix(n, x) /\ IsStrictPrefix(x, Named(z))
      <4> SUFFICES ASSUME NEW y \in T, IsStrictPrefix(n, Named(y)),
                          IsStrictPrefix(Named(y), Named(z))
                   PROVE  FALSE
        OBVIOUS
      <4>1. y # z
        BY DEF IsStrictPrefix
      <4>2. IsPrefix(Named(y), n) /\ IsPrefix(n, Named(y)) /\ n # Named(y)
        BY <3>4, <4>1 DEF IsStrictPrefix
      <4> QED
        BY <1>0, <4>2, PrefixOrder
    <3> QED
      BY <1>1, <3>1, <3>3, <3>4, <3>5, <3>6
  <2> QED
    BY <2>2, <2>3 DEF TreeIs
<1>6. ASSUME NEW e \in Content(n) PROVE e \in Found(n, Mountpath(p))
  <2>1. PICK q \in conf.tree :
           /\ e = entry(q)
           /\ IsPrefix(n, q)
           /\ ~\E x \in Mounted : IsStrictPrefix(n, x) /\ IsStrictPrefix(x, q)
    BY <1>1
  <2>2. \A y \in T : IsPrefix(n, Named(y)) /\ IsPrefix(Named(y), q) => Named(y) \in {n, q}
    BY <2>1 DEF IsStrictPrefix
  <2>3. q \in Path
    BY <1>0
  <2>4. CASE q \in Mounted \ {n}
    <3>1. PICK z \in T : q = Named(z) /\ q # n
      BY <2>4
    <3>2. z # <<>>
      <4>1. n # <<>> \/ q # <<>>
        BY <3>1
      <4>2. q # <<>>
        BY <1>0, <2>1, <4>1, PrefixEmpty
      <4> QED
        BY <3>1, <4>2, InRootIs, <1>0
    <3>3. PICK d \in fs : Spot(d, T \ {z}, q) /\ d.files = {}
      BY <3>1, <3>2 DEF TreeIs
    <3>4. PICK x \in T \ {z} : Home(T \ {z}, x, q) /\ d.path = In(x, q)
      BY <3>3 DEF Spot
    <3>5. p \in T \ {z}
      BY <3>1 DEF n
    <3>6. IsPrefix(n, Named(x)) /\ IsPrefix(Named(x), q) /\ Named(x) # q
      BY <1>0, <2>1, <3>1, <3>4, <3>5 DEF Home, n
    <3>7. x = p
      BY <1>0, <2>2, <3>6 DEF n
    <3>8. IsPrefix(Mountpath(p), d.path) /\ found(d) = [path |-> q, files |-> {}]
      BY <1>3, <2>3, <3>3, <3>4, <3>7
    <3> QED
      BY <1>2, <2>1, <2>4, <3>8
  <2>5. CASE q \notin Mounted \ {n}
    <3>1. PICK d \in fs : Spot(d, T, q) /\ d.files = {q}
      BY DEF TreeIs
    <3>2. PICK x \in T : Home(T, x, q) /\ d.path = In(x, q)
      BY <3>1 DEF Spot
    <3>3. IsPrefix(n, Named(x)) /\ IsPrefix(Named(x), q)
      BY <2>1, <3>2 DEF Home, n
    <3>4. Named(x) = n
      BY <2>2, <2>5, <3>3
    <3>5. x = p
      BY <1>0, <3>4 DEF n
    <3>6. IsPrefix(Mountpath(p), d.path) /\ found(d) = [path |-> q, files |-> {q}]
      BY <1>3, <2>3, <3>1, <3>2, <3>5
    <3> QED
      BY <1>2, <2>1, <2>5, <3>6
  <2> QED
    BY <2>4, <2>5
<1> QED
  BY <1>5, <1>6 DEF n

(* Each image finds the part of the tree that its mount point names, up to  *)
(* the next mount points, in its directory.                                 *)
THEOREM ItsTreeHolds == Spec => []ItsTree
<1>1. ASSUME IInv PROVE ItsTree
  <2> SUFFICES ASSUME Done, Apart, NEW i \in DOMAIN conf.images, UsesRoot(i),
                      NEW p, p = conf.images[i].mountpoint
               PROVE  Found(Named(p), Mountpath(p)) = Content(Named(p))
    BY DEF ItsTree
  <2>1. TypeInv /\ mountpoints # <<>> /\ p \in Given
    BY <1>1 DEF IInv, ListInv, Given
  <2>2. PICK T \in SUBSET Given :
           /\ T = ToSet(mountpoints) /\ p \in T
           /\ TreeIs(fs, T, T \ {<<>>}, T \ {<<>>})
    BY <1>1, <2>1, DoneIs DEF Fresh
  <2>3. Mounted = {Named(z) : z \in T}
    BY <2>2 DEF Mounted
  <2> QED
    BY <2>1, <2>2, <2>3, ContentIs
<1> QED
  BY <1>1, Invariance, PTL
=============================================================================
