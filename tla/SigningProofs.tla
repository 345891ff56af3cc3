---------------------------- MODULE SigningProofs ---------------------------
(***************************************************************************)
(* Proofs about Signing.                                                   *)
(***************************************************************************)
EXTENDS Signing, SequenceTheorems, WellFoundedInduction, TLAPS

-----------------------------------------------------------------------------
(* Sequences *)

\* A set of natural numbers has a least element.
LEMMA Least ==
    ASSUME NEW T \in SUBSET Nat, T # {}
    PROVE  \E x \in T : \A y \in T : x <= y
<1> DEFINE R == {ss \in Nat \X Nat : ss[1] < ss[2]}
<1>1. IsWellFoundedOn(R, Nat)
  BY NatLessThanWellFounded DEF OpToRel
<1>2. PICK x \in T : \A y \in T : ~(<<y, x>> \in R)
  <2> HIDE DEF R
  <2> QED
    BY <1>1, WFMin
<1>3. ASSUME NEW y \in T PROVE x <= y
  <2>1. ~(<<y, x>> \in R) /\ x \in Nat /\ y \in Nat
    BY <1>2
  <2>2. ~(y < x)
    BY <2>1
  <2> QED
    BY <2>1, <2>2
<1> QED
  BY <1>3

\* The elements of two sequences that are joined, and where they are.
LEMMA JoinOf ==
    ASSUME NEW S, NEW a \in Seq(S), NEW b \in Seq(S)
    PROVE  /\ a \o b \in Seq(S) /\ Len(a \o b) = Len(a) + Len(b)
           /\ \A k \in 1..Len(a) : (a \o b)[k] = a[k]
           /\ \A k \in 1..Len(b) : (a \o b)[Len(a) + k] = b[k]
           /\ ToSet(a \o b) = ToSet(a) \cup ToSet(b)
<1> DEFINE c == a \o b
<1>1. c \in Seq(S) /\ Len(c) = Len(a) + Len(b)
  OBVIOUS
<1>2. \A k \in 1..Len(a) : k \in 1..Len(c) /\ c[k] = a[k]
  BY <1>1
<1>3. \A k \in 1..Len(b) : Len(a) + k \in 1..Len(c) /\ c[Len(a) + k] = b[k]
  BY <1>1
<1>4. \A k \in 1..Len(c) : \/ k \in 1..Len(a) /\ c[k] = a[k]
                           \/ k - Len(a) \in 1..Len(b) /\ c[k] = b[k - Len(a)]
  BY <1>1
<1>5. DOMAIN a = 1..Len(a) /\ DOMAIN b = 1..Len(b) /\ DOMAIN c = 1..Len(c)
  BY <1>1
<1> HIDE DEF c
<1>6. \A x \in ToSet(a) : x \in ToSet(c)
  BY <1>2, <1>5 DEF ToSet
<1>7. \A x \in ToSet(b) : x \in ToSet(c)
  BY <1>3, <1>5 DEF ToSet
<1>8. \A x \in ToSet(c) : x \in ToSet(a) \/ x \in ToSet(b)
  BY <1>4, <1>5 DEF ToSet
<1> QED
  BY <1>1, <1>2, <1>3, <1>6, <1>7, <1>8 DEF c

\* What one step of FlattenSeq makes of the ones before it.
Joined(ss, f, i) == IF i = 1 THEN ss[i] ELSE f[i - 1] \o ss[i]

\* The recursive function in FlattenSeq is defined: the least number up to
\* which it were not could be reached from the one before it.
LEMMA JoinedExists ==
    ASSUME NEW ss, NEW n \in Nat
    PROVE  \E f : f = [i \in 1..n |-> Joined(ss, f, i)]
<1> DEFINE Ex(k) == \E f : f = [i \in 1..k |-> Joined(ss, f, i)]
           T == {k \in Nat : ~Ex(k)}
<1>1. SUFFICES ASSUME T # {} PROVE FALSE
  OBVIOUS
<1>2. PICK k \in T : \A l \in T : k <= l
  BY <1>1, Least
<1>3. Ex(0)
  <2> DEFINE f == [i \in {} |-> 0]
  <2>1. 1..0 = {}
    OBVIOUS
  <2>2. f = [i \in 1..0 |-> Joined(ss, f, i)]
    BY <2>1
  <2> QED
    BY <2>2
<1>4. k \in Nat /\ k # 0 /\ k - 1 \in Nat /\ k - 1 \notin T
  <2>1. k \in Nat /\ k # 0
    BY <1>2, <1>3
  <2>2. k - 1 \in Nat /\ ~(k <= k - 1)
    BY <2>1
  <2> HIDE DEF T
  <2> QED
    BY <1>2, <2>1, <2>2
<1>5. PICK f : f = [i \in 1..(k - 1) |-> Joined(ss, f, i)]
  BY <1>4
<1> DEFINE g == [i \in 1..k |-> IF i = k THEN Joined(ss, f, k) ELSE f[i]]
<1>6. ASSUME NEW i \in 1..k PROVE g[i] = Joined(ss, g, i)
  <2>1. i # 1 => i - 1 \in 1..k /\ g[i - 1] = f[i - 1]
    BY <1>4
  <2>2. Joined(ss, g, i) = Joined(ss, f, i)
    BY <2>1 DEF Joined
  <2>3. i # k => i \in 1..(k - 1)
    BY <1>4
  <2>4. i # k => f[i] = Joined(ss, f, i)
    BY <1>5, <2>3
  <2> QED
    BY <2>2, <2>4
<1>7. g = [i \in 1..k |-> Joined(ss, g, i)]
  BY <1>6
<1> HIDE DEF g
<1> QED
  BY <1>2, <1>7

\* A flattened sequence has the elements of all of its sequences.
LEMMA Flattens ==
    ASSUME NEW S, NEW ss \in Seq(Seq(S))
    PROVE  /\ FlattenSeq(ss) \in Seq(S)
           /\ ToSet(FlattenSeq(ss)) = UNION {ToSet(ss[k]) : k \in DOMAIN ss}
<1>1. CASE Len(ss) = 0
  <2>1. FlattenSeq(ss) = ss
    BY <1>1 DEF FlattenSeq
  <2>2. ss = <<>> /\ DOMAIN ss = {}
    BY <1>1
  <2> QED
    BY <2>1, <2>2 DEF ToSet
<1>2. CASE Len(ss) # 0
  <2> DEFINE n == Len(ss)
             f == CHOOSE f : f = [i \in 1..n |-> IF i = 1 THEN ss[i] ELSE f[i - 1] \o ss[i]]
             Good(i) == /\ f[i] \in Seq(S)
                        /\ ToSet(f[i]) = UNION {ToSet(ss[k]) : k \in 1..i}
             T == {i \in 1..n : ~Good(i)}
  <2>1. FlattenSeq(ss) = f[n]
    BY <1>2 DEF FlattenSeq
  <2>2. n \in Nat \ {0} /\ DOMAIN ss = 1..n /\ \A i \in 1..n : ss[i] \in Seq(S)
    BY <1>2
  <2>3. f = [i \in 1..n |-> IF i = 1 THEN ss[i] ELSE f[i - 1] \o ss[i]]
    BY <2>2, JoinedExists DEF Joined
  <2>4. \A i \in 1..n : f[i] = IF i = 1 THEN ss[i] ELSE f[i - 1] \o ss[i]
    BY <2>3
  <2> HIDE DEF f
  <2>5. T = {}
    <3>1. SUFFICES ASSUME T # {} PROVE FALSE
      OBVIOUS
    <3>2. T \in SUBSET Nat
      BY <2>2
    <3>3. PICK i \in T : \A l \in T : i <= l
      BY <3>1, <3>2, Least
    <3>4. i \in 1..n /\ ~Good(i)
      BY <3>3
    <3>5. CASE i = 1
      <4>1. f[i] = ss[1] /\ 1..i = {1}
        BY <2>4, <3>4, <3>5
      <4>2. UNION {ToSet(ss[k]) : k \in {1}} = ToSet(ss[1])
        OBVIOUS
      <4> QED
        BY <2>2, <3>4, <3>5, <4>1, <4>2
    <3>6. CASE i # 1
      <4>1. i - 1 \in 1..n /\ i - 1 \notin T
        <5>1. i - 1 \in 1..n /\ ~(i <= i - 1)
          BY <2>2, <3>4, <3>6
        <5> HIDE DEF T
        <5> QED
          BY <3>3, <5>1
      <4>2. Good(i - 1)
        BY <4>1
      <4>3. f[i] = f[i - 1] \o ss[i]
        BY <2>4, <3>4, <3>6
      <4>4. f[i] \in Seq(S) /\ ToSet(f[i]) = ToSet(f[i - 1]) \cup ToSet(ss[i])
        <5>1. f[i - 1] \in Seq(S) /\ ss[i] \in Seq(S)
          BY <2>2, <3>4, <4>2
        <5> QED
          BY <4>3, <5>1, JoinOf
      <4>5. 1..i = 1..(i - 1) \cup {i}
        BY <3>4, <3>6
      <4>6. UNION {ToSet(ss[k]) : k \in 1..i}
              = (UNION {ToSet(ss[k]) : k \in 1..(i - 1)}) \cup ToSet(ss[i])
        BY <4>5
      <4> QED
        BY <3>4, <4>2, <4>4, <4>6
    <3> QED
      BY <3>5, <3>6
  <2>6. Good(n)
    <3>1. n \in 1..n
      BY <2>2
    <3> QED
      BY <2>5, <3>1
  <2> QED
    BY <2>1, <2>2, <2>6
<1> QED
  BY <1>1, <1>2

-----------------------------------------------------------------------------
(* Partitions *)

PartOf ==
    [type : {"data", "key", "cert", "keyring", "intermediate"}, image : Path]
      \cup [type : {"content"}, image : Path, target : Path, offset : Nat]

LEMMA SectionOf ==
    ASSUME conf \in Configs, NEW i \in Images
    PROVE  LET s == conf.sec[i]
           IN  /\ s \in Section /\ s.kind = Kind(i) /\ i \in Path
               /\ Kind(i) = "verity" => s.image \in Path /\ s.long \in BOOLEAN
               /\ Kind(i) = "verity-sig" =>
                     s.image \in Path /\ s.cert \in Path /\ s.key \in Path
               /\ Kind(i) = "file" => s.name \in Path /\ s.copy \in BOOLEAN
               /\ Kind(i) = "rauc" =>
                     /\ s.key \in Path /\ s.cert \in Path
                     /\ s.keyring \in Seq(Path) /\ Len(s.keyring) <= 1
                     /\ s.intermediate \in Seq(Path) /\ s.content \in Seq(Content)
                     /\ s.manifest \in Seq(STRING)
<1> DEFINE s == conf.sec[i]
<1>1. /\ conf.order \in Seq(Path) /\ conf.sec \in [ToSet(conf.order) -> Section]
      /\ \A j \in ToSet(conf.order) : conf.sec[j].kind = "rauc" => Len(conf.sec[j].keyring) <= 1
  BY ConfigsType
<1>2. s \in Section /\ s.kind = Kind(i) /\ (s.kind = "rauc" => Len(s.keyring) <= 1)
  BY <1>1 DEF Images, Kind
<1>3. i \in Path
  BY <1>1 DEF Images, ToSet
<1> HIDE DEF s
<1> QED
  BY <1>2, <1>3 DEF Section, s

LEMMA FileIs ==
    ASSUME NEW t, NEW r, NEW T, [type |-> t, image |-> r] \in T
    PROVE  /\ File(t, r) \in Seq(T)
           /\ r \in Uri => File(t, r) = <<>> /\ ToSet(File(t, r)) = {}
           /\ r \notin Uri => /\ Len(File(t, r)) = 1
                            /\ File(t, r)[1] = [type |-> t, image |-> r]
                            /\ ToSet(File(t, r)) = {[type |-> t, image |-> r]}
<1> DEFINE p == [type |-> t, image |-> r]
<1>1. <<>> \in Seq(T) /\ ToSet(<<>>) = {}
  BY DEF ToSet
<1>2. p \in T
  OBVIOUS
<1> HIDE DEF p
<1>3. <<p>> \in Seq(T) /\ Len(<<p>>) = 1 /\ <<p>>[1] = p /\ DOMAIN <<p>> = {1}
  BY <1>2
<1>4. ToSet(<<p>>) = {p}
  BY <1>3 DEF ToSet
<1>5. File(t, r) = IF r \in Uri THEN <<>> ELSE <<p>>
  BY DEF File, p
<1> QED
  BY <1>1, <1>3, <1>4, <1>5 DEF p

\* The intermediate certificates that are files.
LEMMA IntermediatesAre ==
    ASSUME conf \in Configs, NEW i \in Images, Kind(i) = "rauc"
    PROVE  LET s == conf.sec[i]
               is == Intermediates(s)
           IN  /\ is \in Seq(PartOf)
               /\ \A k \in DOMAIN is : is[k].type = "intermediate"
               /\ {p.image : p \in ToSet(is)} = ToSet(s.intermediate) \ Uri
<1> DEFINE s == conf.sec[i]
           T == [type : {"intermediate"}, image : Path]
           ss == [k \in DOMAIN s.intermediate |-> File("intermediate", s.intermediate[k])]
           is == FlattenSeq(ss)
<1>1. s.intermediate \in Seq(Path)
  BY SectionOf
<1>2. ASSUME NEW r \in Path
      PROVE  /\ File("intermediate", r) \in Seq(T)
             /\ r \in Uri => ToSet(File("intermediate", r)) = {}
             /\ r \notin Uri =>
                   ToSet(File("intermediate", r)) = {[type |-> "intermediate", image |-> r]}
  BY FileIs
<1>3. ss \in Seq(Seq(T)) /\ DOMAIN ss = DOMAIN s.intermediate
  <2> DEFINE n == Len(s.intermediate)
  <2>1. DOMAIN s.intermediate = 1..n /\ n \in Nat /\ \A k \in 1..n : s.intermediate[k] \in Path
    BY <1>1
  <2>2. ss = [k \in 1..n |-> File("intermediate", s.intermediate[k])]
    BY <2>1
  <2>3. \A k \in 1..n : File("intermediate", s.intermediate[k]) \in Seq(T)
    BY <1>2, <2>1
  <2> HIDE DEF ss, T, s, n
  <2>4. ss \in [1..n -> Seq(T)]
    BY <2>2, <2>3
  <2> QED
    BY <2>1, <2>4
<1>4. is \in Seq(T) /\ ToSet(is) = UNION {ToSet(ss[k]) : k \in DOMAIN ss}
  BY <1>3, Flattens
<1>5. \A k \in DOMAIN ss : s.intermediate[k] \in Path /\ ss[k] = File("intermediate", s.intermediate[k])
  BY <1>1
<1> HIDE DEF s, ss
<1>6. {p.image : p \in ToSet(is)} \subseteq ToSet(s.intermediate) \ Uri
  <2>1. SUFFICES ASSUME NEW p \in ToSet(is) PROVE p.image \in ToSet(s.intermediate) \ Uri
    OBVIOUS
  <2>2. PICK k \in DOMAIN ss : p \in ToSet(ss[k])
    BY <1>4
  <2>3. p = [type |-> "intermediate", image |-> s.intermediate[k]] /\ s.intermediate[k] \notin Uri
    BY <1>2, <1>5, <2>2
  <2> QED
    BY <1>3, <2>3 DEF ToSet
<1>7. ToSet(s.intermediate) \ Uri \subseteq {p.image : p \in ToSet(is)}
  <2>1. SUFFICES ASSUME NEW r \in ToSet(s.intermediate), r \notin Uri
                 PROVE  r \in {p.image : p \in ToSet(is)}
    OBVIOUS
  <2>2. PICK k \in DOMAIN ss : r = s.intermediate[k]
    BY <1>3 DEF ToSet
  <2>3. [type |-> "intermediate", image |-> r] \in ToSet(ss[k])
    BY <1>2, <1>5, <2>1, <2>2
  <2>4. [type |-> "intermediate", image |-> r] \in ToSet(is)
    BY <1>4, <2>3
  <2> QED
    BY <2>4
<1>8. is \in Seq(PartOf) /\ \A k \in DOMAIN is : is[k].type = "intermediate"
  <2>1. T \subseteq PartOf /\ \A p \in T : p.type = "intermediate"
    BY DEF PartOf
  <2> HIDE DEF is, T
  <2>2. \A k \in DOMAIN is : is[k] \in T
    BY <1>4
  <2> QED
    BY <1>4, <2>1, <2>2
<1>9. Intermediates(s) = is
  BY DEF Intermediates, ss
<1> QED
  BY <1>6, <1>7, <1>8, <1>9 DEF s

\* The partitions of a bundle, in order.
LEMMA BundlePartitions ==
    ASSUME conf \in Configs, NEW i \in Images, Kind(i) = "rauc"
    PROVE  LET s == conf.sec[i]
               P == Partitions(i)
               a == Len(File("key", s.key))
               b == a + Len(File("cert", s.cert))
               c == b + Len(s.keyring)
               d == c + Len(Intermediates(s))
               n == d + Len(s.content)
           IN  /\ P \in Seq(PartOf) /\ Len(P) = n
               /\ \A k \in 1..a : P[k] = [type |-> "key", image |-> s.key]
               /\ \A k \in (a + 1)..b : P[k] = [type |-> "cert", image |-> s.cert]
               /\ \A k \in (b + 1)..c : P[k] = [type |-> "keyring", image |-> s.keyring[k - b]]
               /\ \A k \in (c + 1)..d : P[k] = Intermediates(s)[k - c]
               /\ \A k \in (d + 1)..n : P[k] = Contents(s)[k - d]
               /\ ToSet(P) = ToSet(File("key", s.key)) \cup ToSet(File("cert", s.cert))
                              \cup ToSet(Keyring(s)) \cup ToSet(Intermediates(s))
                              \cup ToSet(Contents(s))
<1> DEFINE s == conf.sec[i]
           A == File("key", s.key)
           B == File("cert", s.cert)
           C == Keyring(s)
           D == Intermediates(s)
           E == Contents(s)
<1>1. /\ s.key \in Path /\ s.cert \in Path /\ s.keyring \in Seq(Path)
      /\ s.content \in Seq(Content)
  BY SectionOf
<1>2. /\ A \in Seq(PartOf) /\ Len(A) \in 0..1
      /\ \A k \in 1..Len(A) : A[k] = [type |-> "key", image |-> s.key]
  <2>1. [type |-> "key", image |-> s.key] \in PartOf
    BY <1>1 DEF PartOf
  <2> QED
    BY <2>1, FileIs
<1>3. /\ B \in Seq(PartOf) /\ Len(B) \in 0..1
      /\ \A k \in 1..Len(B) : B[k] = [type |-> "cert", image |-> s.cert]
  <2>1. [type |-> "cert", image |-> s.cert] \in PartOf
    BY <1>1 DEF PartOf
  <2> QED
    BY <2>1, FileIs
<1>4. /\ C \in Seq(PartOf) /\ Len(C) = Len(s.keyring)
      /\ \A k \in 1..Len(C) : C[k] = [type |-> "keyring", image |-> s.keyring[k]]
  <2>1. \A p \in Path : [type |-> "keyring", image |-> p] \in PartOf
    BY DEF PartOf
  <2> HIDE DEF s
  <2> QED
    BY <1>1, <2>1 DEF Keyring
<1>5. D \in Seq(PartOf)
  BY IntermediatesAre
<1>6. E \in Seq(PartOf) /\ Len(E) = Len(s.content)
  <2>1. \A c \in Content :
           [type |-> "content", image |-> c.image, target |-> c.target,
            offset |-> c.offset] \in PartOf
    BY DEF PartOf, Content
  <2> HIDE DEF s
  <2> QED
    BY <1>1, <2>1 DEF Contents
<1>7. Partitions(i) = A \o B \o C \o D \o E
  BY DEF Partitions, RaucParse
<1> HIDE DEF A, B, C, D, E, s
<1>8. /\ A \o B \in Seq(PartOf) /\ Len(A \o B) = Len(A) + Len(B)
      /\ \A k \in 1..Len(A) : (A \o B)[k] = A[k]
      /\ \A k \in 1..Len(B) : (A \o B)[Len(A) + k] = B[k]
      /\ ToSet(A \o B) = ToSet(A) \cup ToSet(B)
  BY <1>2, <1>3, JoinOf
<1> DEFINE F == A \o B
           G == F \o C
           H == G \o D
           P == H \o E
<1> HIDE DEF F, G, H, P
<1>9. /\ G \in Seq(PartOf) /\ Len(G) = Len(F) + Len(C)
      /\ \A k \in 1..Len(F) : G[k] = F[k]
      /\ \A k \in 1..Len(C) : G[Len(F) + k] = C[k]
      /\ ToSet(G) = ToSet(F) \cup ToSet(C)
  <2>1. F \in Seq(PartOf) /\ C \in Seq(PartOf)
    BY <1>4, <1>8 DEF F
  <2>2. /\ F \o C \in Seq(PartOf) /\ Len(F \o C) = Len(F) + Len(C)
        /\ \A k \in 1..Len(F) : (F \o C)[k] = F[k]
        /\ \A k \in 1..Len(C) : (F \o C)[Len(F) + k] = C[k]
        /\ ToSet(F \o C) = ToSet(F) \cup ToSet(C)
    BY ONLY <2>1, JoinOf
  <2> QED
    BY <2>2 DEF G
<1>10. /\ H \in Seq(PartOf) /\ Len(H) = Len(G) + Len(D)
       /\ \A k \in 1..Len(G) : H[k] = G[k]
       /\ \A k \in 1..Len(D) : H[Len(G) + k] = D[k]
       /\ ToSet(H) = ToSet(G) \cup ToSet(D)
  <2>1. G \in Seq(PartOf) /\ D \in Seq(PartOf)
    BY <1>5, <1>9 
  <2>2. /\ G \o D \in Seq(PartOf) /\ Len(G \o D) = Len(G) + Len(D)
        /\ \A k \in 1..Len(G) : (G \o D)[k] = G[k]
        /\ \A k \in 1..Len(D) : (G \o D)[Len(G) + k] = D[k]
        /\ ToSet(G \o D) = ToSet(G) \cup ToSet(D)
    BY ONLY <2>1, JoinOf
  <2> QED
    BY <2>2 DEF H
<1>11. /\ P \in Seq(PartOf) /\ Len(P) = Len(H) + Len(E)
       /\ \A k \in 1..Len(H) : P[k] = H[k]
       /\ \A k \in 1..Len(E) : P[Len(H) + k] = E[k]
       /\ ToSet(P) = ToSet(H) \cup ToSet(E)
  <2>1. H \in Seq(PartOf) /\ E \in Seq(PartOf)
    BY <1>6, <1>10 
  <2>2. /\ H \o E \in Seq(PartOf) /\ Len(H \o E) = Len(H) + Len(E)
        /\ \A k \in 1..Len(H) : (H \o E)[k] = H[k]
        /\ \A k \in 1..Len(E) : (H \o E)[Len(H) + k] = E[k]
        /\ ToSet(H \o E) = ToSet(H) \cup ToSet(E)
    BY ONLY <2>1, JoinOf
  <2> QED
    BY <2>2 DEF P
<1> DEFINE a == Len(A)
           b == a + Len(B)
           c == b + Len(C)
           d == c + Len(D)
           n == d + Len(E)
<1>12. /\ a \in Nat /\ Len(B) \in Nat /\ Len(C) \in Nat /\ Len(D) \in Nat /\ Len(E) \in Nat
       /\ Len(F) = b /\ Len(G) = c /\ Len(H) = d /\ Len(P) = n
  BY <1>2, <1>3, <1>4, <1>5, <1>6, <1>8, <1>9, <1>10, <1>11 DEF F
<1>13. ASSUME NEW k \in 1..a PROVE P[k] = A[k]
  <2>1. k \in 1..Len(F) /\ k \in 1..Len(G) /\ k \in 1..Len(H)
    BY <1>12
  <2> QED
    BY <1>8, <1>9, <1>10, <1>11, <2>1 DEF F
<1>14. ASSUME NEW k \in (a + 1)..b PROVE P[k] = B[k - a] /\ k - a \in 1..Len(B)
  <2>1. k \in 1..Len(F) /\ k \in 1..Len(G) /\ k \in 1..Len(H) /\ k - a \in 1..Len(B)
        /\ a + (k - a) = k
    BY <1>12
  <2> QED
    BY <1>8, <1>9, <1>10, <1>11, <2>1 DEF F
<1>15. ASSUME NEW k \in (b + 1)..c PROVE P[k] = C[k - b] /\ k - b \in 1..Len(C)
  <2>1. k \in 1..Len(G) /\ k \in 1..Len(H) /\ k - b \in 1..Len(C) /\ Len(F) + (k - b) = k
    BY <1>12
  <2> QED
    BY <1>9, <1>10, <1>11, <2>1
<1>16. ASSUME NEW k \in (c + 1)..d PROVE P[k] = D[k - c]
  <2>1. k \in 1..Len(H) /\ k - c \in 1..Len(D) /\ Len(G) + (k - c) = k
    BY <1>12
  <2> QED
    BY <1>10, <1>11, <2>1
<1>17. ASSUME NEW k \in (d + 1)..n PROVE P[k] = E[k - d]
  <2>1. k - d \in 1..Len(E) /\ Len(H) + (k - d) = k
    BY <1>12
  <2> QED
    BY <1>11, <2>1
<1>18. ToSet(P) = ToSet(A) \cup ToSet(B) \cup ToSet(C) \cup ToSet(D) \cup ToSet(E)
  BY <1>8, <1>9, <1>10, <1>11 DEF F
<1>19. P = Partitions(i)
  BY <1>7 DEF P, H, G, F
<1>20. /\ \A k \in 1..a : P[k] = [type |-> "key", image |-> s.key]
       /\ \A k \in (a + 1)..b : P[k] = [type |-> "cert", image |-> s.cert]
       /\ \A k \in (b + 1)..c : P[k] = [type |-> "keyring", image |-> s.keyring[k - b]]
  BY <1>2, <1>3, <1>4, <1>13, <1>14, <1>15
<1> QED
  BY <1>4, <1>6, <1>11, <1>12, <1>16, <1>17, <1>18, <1>19, <1>20 DEF A, B, C, D, E, s

\* No partition, or only partition m, has this type.
None(P, t) == \A k \in 1..Len(P) : P[k].type # t
Only(P, t, m) ==
    /\ m \in 1..Len(P) /\ P[m].type = t
    /\ \A k \in 1..Len(P) : P[k].type = t => k = m

LEMMA GivenNone ==
    ASSUME NEW i, NEW t, NEW r, NEW S, NEW P \in Seq(S), P = Partitions(i),
           None(P, t)
    PROVE  Given(i, t, r) = [uri |-> r]
<1>1. {k \in DOMAIN P : P[k].type = t} = {}
  BY DEF None
<1> QED
  BY <1>1 DEF Given

LEMMA GivenOne ==
    ASSUME NEW i, NEW t, NEW r, NEW S, NEW P \in Seq(S), P = Partitions(i),
           NEW m, Only(P, t, m), P[m].image = r
    PROVE  Given(i, t, r) = Written(r) /\ r \in Children(i)
<1> DEFINE of == {k \in DOMAIN P : P[k].type = t}
<1>1. /\ DOMAIN P = 1..Len(P) /\ Len(P) \in Nat
      /\ m \in 1..Len(P) /\ P[m].type = t
      /\ \A k \in 1..Len(P) : P[k].type = t => k = m
  BY DEF Only
<1>2. Given(i, t, r) = IF of = {} THEN [uri |-> r] ELSE disk[outfile[P[Max(of)].image]]
  BY DEF Given
<1>3. of = {m} /\ m \in Int
  BY <1>1
<1>4. Max({m}) = m
  BY <1>3 DEF Max
<1>5. P[m] \in ToSet(P)
  BY <1>1 DEF ToSet
<1>6. r \in Children(i)
  BY <1>5 DEF Children
<1> HIDE DEF of
<1> QED
  BY <1>2, <1>3, <1>4, <1>6 DEF Written

\* What a signature is made with: the URI, or what is in the image.
Usable(i, r) == r \in Uri \/ r \in Children(i)

LEMMA SignatureGiven ==
    ASSUME conf \in Configs, NEW i \in Images, Kind(i) = "verity-sig"
    PROVE  LET s == conf.sec[i]
           IN  /\ Usable(i, s.cert) /\ Given(i, "cert", s.cert) = Asked(s.cert)
               /\ Usable(i, s.key) /\ Given(i, "key", s.key) = Asked(s.key)
<1> DEFINE s == conf.sec[i]
           A == File("cert", s.cert)
           B == File("key", s.key)
           T == [type : {"cert", "key"}, image : Path]
           P == Partitions(i)
<1>1. s.key \in Path /\ s.cert \in Path
  BY SectionOf
<1>2. /\ [type |-> "cert", image |-> s.cert] \in T
      /\ [type |-> "key", image |-> s.key] \in T
  BY <1>1
<1> HIDE DEF T
<1>3. /\ A \in Seq(T)
      /\ s.cert \in Uri => Len(A) = 0
      /\ s.cert \notin Uri => Len(A) = 1 /\ A[1] = [type |-> "cert", image |-> s.cert]
  BY <1>2, FileIs
<1>4. /\ B \in Seq(T)
      /\ s.key \in Uri => Len(B) = 0
      /\ s.key \notin Uri => Len(B) = 1 /\ B[1] = [type |-> "key", image |-> s.key]
  BY <1>2, FileIs
<1>5. P = A \o B
  BY DEF Partitions, SigParse
<1> HIDE DEF A, B, P, s
<1>6. /\ P \in Seq(T) /\ Len(P) = Len(A) + Len(B)
      /\ \A k \in 1..Len(A) : P[k] = A[k]
      /\ \A k \in 1..Len(B) : P[Len(A) + k] = B[k]
  BY <1>3, <1>4, <1>5, JoinOf
<1>7. \A k \in 1..Len(P) : k \in 1..Len(A) \/ (k - Len(A) \in 1..Len(B) /\ k = Len(A) + (k - Len(A)))
  BY <1>3, <1>4, <1>6
<1>8. \A k \in 1..Len(P) :
         \/ k = 1 /\ s.cert \notin Uri /\ P[k] = [type |-> "cert", image |-> s.cert]
         \/ k = Len(A) + 1 /\ s.key \notin Uri /\ P[k] = [type |-> "key", image |-> s.key]
  <2> TAKE k \in 1..Len(P)
  <2>1. CASE k \in 1..Len(A)
    BY <1>3, <1>6, <2>1
  <2>2. CASE k - Len(A) \in 1..Len(B) /\ k = Len(A) + (k - Len(A))
    <3>1. P[k] = B[k - Len(A)]
      BY <1>6, <2>2
    <3>2. k - Len(A) = 1 /\ s.key \notin Uri
      <4> DEFINE l == k - Len(A)
      <4>1. l \in 1..Len(B) /\ (s.key \in Uri => Len(B) = 0) /\ (s.key \notin Uri => Len(B) = 1)
        BY <1>4, <2>2
      <4> HIDE DEF l
      <4>2. s.key \notin Uri /\ Len(B) = 1
        BY <4>1
      <4>3. l = 1
        BY <4>1, <4>2
      <4> QED
        BY <4>2, <4>3 DEF l
    <3> QED
      BY <1>3, <1>4, <3>1, <3>2, <2>2
  <2> QED
    BY <1>7, <2>1, <2>2
<1>9. P \in Seq(T) /\ P = Partitions(i)
  BY <1>6 DEF P
<1>10. Usable(i, s.cert) /\ Given(i, "cert", s.cert) = Asked(s.cert)
  <2>1. CASE s.cert \in Uri
    <3>1. None(P, "cert")
      BY <1>8, <2>1 DEF None
    <3>2. Given(i, "cert", s.cert) = [uri |-> s.cert]
      BY ONLY <1>9, <3>1, GivenNone
    <3> QED
      BY <2>1, <3>2 DEF Asked, Usable
  <2>2. CASE s.cert \notin Uri
    <3>1. 1 \in 1..Len(P) /\ P[1].type = "cert" /\ P[1].image = s.cert
      BY <1>3, <1>4, <1>6, <2>2
    <3>2. Only(P, "cert", 1)
      BY <1>8, <3>1 DEF Only
    <3>3. Given(i, "cert", s.cert) = Written(s.cert) /\ s.cert \in Children(i)
      BY ONLY <1>9, <3>1, <3>2, GivenOne
    <3> QED
      BY <2>2, <3>3 DEF Asked, Usable
  <2> QED
    BY <2>1, <2>2
<1>11. Usable(i, s.key) /\ Given(i, "key", s.key) = Asked(s.key)
  <2>1. CASE s.key \in Uri
    <3>1. None(P, "key")
      BY <1>8, <2>1 DEF None
    <3>2. Given(i, "key", s.key) = [uri |-> s.key]
      BY ONLY <1>9, <3>1, GivenNone
    <3> QED
      BY <2>1, <3>2 DEF Asked, Usable
  <2>2. CASE s.key \notin Uri
    <3> DEFINE m == Len(A) + 1
    <3>1. m \in 1..Len(P) /\ P[m].type = "key" /\ P[m].image = s.key
      BY <1>3, <1>4, <1>6, <2>2
    <3>2. Only(P, "key", m)
      BY <1>8, <3>1 DEF Only
    <3> HIDE DEF m
    <3>3. Given(i, "key", s.key) = Written(s.key) /\ s.key \in Children(i)
      BY ONLY <1>9, <3>1, <3>2, GivenOne
    <3> QED
      BY <2>2, <3>3 DEF Asked, Usable
  <2> QED
    BY <2>1, <2>2
<1> QED
  BY <1>10, <1>11 DEF s

LEMMA BundleGiven ==
    ASSUME conf \in Configs, NEW i \in Images, Kind(i) = "rauc"
    PROVE  LET s == conf.sec[i]
           IN  /\ Usable(i, s.key) /\ Given(i, "key", s.key) = Asked(s.key)
               /\ Usable(i, s.cert) /\ Given(i, "cert", s.cert) = Asked(s.cert)
               /\ \A k \in DOMAIN s.keyring :
                     s.keyring[k] \in Children(i)
               /\ KeyringArg(i) = [k \in DOMAIN s.keyring |-> Written(s.keyring[k])]
<1> DEFINE s == conf.sec[i]
           P == Partitions(i)
           D == Intermediates(s)
           a == Len(File("key", s.key))
           b == a + Len(File("cert", s.cert))
           x == Len(s.keyring)
           y == Len(D)
           z == Len(s.content)
           c == b + x
           d == c + y
           n == d + z
<1>1. /\ s.key \in Path /\ s.cert \in Path /\ s.keyring \in Seq(Path)
      /\ s.content \in Seq(Content) /\ Len(s.keyring) <= 1
  BY SectionOf
<1>2. /\ a \in Nat /\ (s.key \in Uri => a = 0) /\ (s.key \notin Uri => a = 1)
  <2>1. [type |-> "key", image |-> s.key] \in {[type |-> "key", image |-> s.key]}
    OBVIOUS
  <2>2. /\ s.key \in Uri => File("key", s.key) = <<>>
        /\ s.key \notin Uri => Len(File("key", s.key)) = 1
    BY <2>1, FileIs
  <2> QED
    BY <2>2
<1>3. /\ b - a \in Nat /\ b = a + (b - a)
      /\ (s.cert \in Uri => b - a = 0) /\ (s.cert \notin Uri => b - a = 1)
  <2>1. [type |-> "cert", image |-> s.cert] \in {[type |-> "cert", image |-> s.cert]}
    OBVIOUS
  <2>2. /\ s.cert \in Uri => File("cert", s.cert) = <<>>
        /\ s.cert \notin Uri => Len(File("cert", s.cert)) = 1
    BY <2>1, FileIs
  <2> QED
    BY <1>2, <2>2
<1>4. /\ D \in Seq(PartOf) /\ \A k \in 1..y : D[k].type = "intermediate"
  <2>1. D \in Seq(PartOf) /\ \A k \in DOMAIN D : D[k].type = "intermediate"
    BY IntermediatesAre
  <2> HIDE DEF D
  <2> QED
    BY <2>1
<1>5. /\ P \in Seq(PartOf) /\ Len(P) = n
      /\ \A k \in 1..a : P[k] = [type |-> "key", image |-> s.key]
      /\ \A k \in (a + 1)..b : P[k] = [type |-> "cert", image |-> s.cert]
      /\ \A k \in (b + 1)..c : P[k] = [type |-> "keyring", image |-> s.keyring[k - b]]
      /\ \A k \in (c + 1)..d : P[k] = D[k - c]
      /\ \A k \in (d + 1)..n : P[k] = Contents(s)[k - d]
  BY BundlePartitions
<1>6. \A k \in 1..z : Contents(s)[k].type = "content"
  BY <1>1 DEF Contents
<1>7. P \in Seq(PartOf) /\ P = Partitions(i)
  BY <1>5
<1>8. x \in 0..1 /\ y \in Nat /\ z \in Nat
  <2>1. x \in Nat /\ x <= 1
    <3> HIDE DEF s
    <3> QED
      BY <1>1
  <2>2. y \in Nat
    <3> HIDE DEF D
    <3> QED
      BY <1>4
  <2>3. z \in Nat
    <3> HIDE DEF s
    <3> QED
      BY <1>1
  <2> HIDE DEF x, y, z
  <2> QED
    BY <2>1, <2>2, <2>3
<1> HIDE DEF P, D, s, x, y, z, a, b
<1>16. b \in Nat /\ a <= b
  BY <1>2, <1>3
<1>17. /\ c \in Nat /\ d \in Nat /\ n \in Nat /\ b <= c /\ c <= d /\ d <= n
       /\ c = b + x /\ d = c + y /\ n = d + z
  BY <1>8, <1>16
<1> HIDE DEF c, d, n
<1>9. ASSUME NEW k \in 1..Len(P)
      PROVE  \/ k \in 1..a /\ P[k].type = "key" /\ P[k].image = s.key
             \/ k \in (a + 1)..b /\ P[k].type = "cert" /\ P[k].image = s.cert
             \/ k \in (b + 1)..c /\ P[k].type = "keyring" /\ P[k].image = s.keyring[k - b]
             \/ k \in (c + 1)..n /\ P[k].type \in {"intermediate", "content"}
  <2>1. \/ k \in 1..a \/ k \in (a + 1)..b \/ k \in (b + 1)..c
        \/ k \in (c + 1)..d /\ k \in (c + 1)..n /\ k - c \in 1..y
        \/ k \in (d + 1)..n /\ k \in (c + 1)..n /\ k - d \in 1..z
    <3>1. k \in 1..n /\ a \in Nat
      BY <1>2, <1>5
    <3> QED
      BY ONLY <3>1, <1>8, <1>16, <1>17
  <2>2. CASE k \in 1..a
    BY <1>5, <2>2
  <2>3. CASE k \in (a + 1)..b
    BY <1>5, <2>3
  <2>4. CASE k \in (b + 1)..c
    <3> DEFINE r == s.keyring[k - b]
    <3>1. P[k] = [type |-> "keyring", image |-> r]
      BY <1>5, <2>4
    <3> HIDE DEF r
    <3>2. P[k].type = "keyring" /\ P[k].image = r
      BY <3>1
    <3> QED
      BY <2>4, <3>2 DEF r
  <2>5. CASE k \in (c + 1)..d /\ k \in (c + 1)..n /\ k - c \in 1..y
    BY <1>4, <1>5, <2>5
  <2>6. CASE k \in (d + 1)..n /\ k \in (c + 1)..n /\ k - d \in 1..z
    BY <1>5, <1>6, <2>6
  <2> QED
    BY <2>1, <2>2, <2>3, <2>4, <2>5, <2>6
<1>10. Usable(i, s.key) /\ Given(i, "key", s.key) = Asked(s.key)
  <2>1. CASE s.key \in Uri
    <3>1. a = 0 /\ \A k \in 1..Len(P) : k \notin 1..a
      BY <1>2, <2>1
    <3>2. None(P, "key")
      BY <1>9, <3>1 DEF None
    <3>3. Given(i, "key", s.key) = [uri |-> s.key]
      BY ONLY <1>7, <3>2, GivenNone
    <3> QED
      BY <2>1, <3>3 DEF Asked, Usable
  <2>2. CASE s.key \notin Uri
    <3>1. a = 1 /\ 1 \in 1..Len(P) /\ 1 \in 1..a
      BY <1>2, <1>5, <1>16, <1>17, <2>2
    <3>2. P[1].type = "key" /\ P[1].image = s.key
      BY <1>5, <3>1
    <3>3. Only(P, "key", 1)
      BY <1>9, <3>1, <3>2 DEF Only
    <3>4. Given(i, "key", s.key) = Written(s.key) /\ s.key \in Children(i)
      BY ONLY <1>7, <3>1, <3>2, <3>3, GivenOne
    <3> QED
      BY <2>2, <3>4 DEF Asked, Usable
  <2> QED
    BY <2>1, <2>2
<1>11. Usable(i, s.cert) /\ Given(i, "cert", s.cert) = Asked(s.cert)
  <2>1. CASE s.cert \in Uri
    <3>1. \A k \in 1..Len(P) : k \notin (a + 1)..b
      BY <1>2, <1>3, <2>1
    <3>2. None(P, "cert")
      BY <1>9, <3>1 DEF None
    <3>3. Given(i, "cert", s.cert) = [uri |-> s.cert]
      BY ONLY <1>7, <3>2, GivenNone
    <3> QED
      BY <2>1, <3>3 DEF Asked, Usable
  <2>2. CASE s.cert \notin Uri
    <3>1. b \in 1..Len(P) /\ b \in (a + 1)..b /\ \A k \in (a + 1)..b : k = b
      BY <1>2, <1>3, <1>5, <1>16, <1>17, <2>2
    <3>2. P[b].type = "cert" /\ P[b].image = s.cert
      BY <1>5, <3>1
    <3>3. Only(P, "cert", b)
      BY <1>9, <3>1, <3>2 DEF Only
    <3>4. Given(i, "cert", s.cert) = Written(s.cert) /\ s.cert \in Children(i)
      BY ONLY <1>7, <3>1, <3>2, <3>3, GivenOne
    <3> QED
      BY <2>2, <3>4 DEF Asked, Usable
  <2> QED
    BY <2>1, <2>2
<1>12. ASSUME NEW k \in DOMAIN s.keyring
       PROVE  /\ s.keyring[k] \in Children(i)
              /\ Given(i, "keyring", s.keyring[k]) = Written(s.keyring[k])
  <2>1. k \in 1..x
    BY <1>1 DEF x
  <2>5. k = 1 /\ x = 1
    BY <1>8, <2>1
  <2>2. c \in 1..Len(P) /\ c \in (b + 1)..c /\ c - b = 1 /\ \A l \in (b + 1)..c : l = c
    BY <1>5, <1>8, <1>16, <1>17, <2>5
  <2>3. P[c].type = "keyring" /\ P[c].image = s.keyring[k]
    <3>1. P[c] = [type |-> "keyring", image |-> s.keyring[c - b]]
      BY <1>5, <2>2
    <3>2. P[c] = [type |-> "keyring", image |-> s.keyring[k]]
      BY <2>2, <2>5, <3>1
    <3> QED
      BY <3>2
  <2>4. Only(P, "keyring", c)
    BY <1>9, <2>2, <2>3 DEF Only
  <2> QED
    BY ONLY <1>7, <2>2, <2>3, <2>4, GivenOne
<1>13. KeyringArg(i) = [k \in DOMAIN s.keyring |-> Written(s.keyring[k])]
  BY <1>12 DEF KeyringArg, s
<1> QED
  BY <1>10, <1>11, <1>12, <1>13 DEF s

\* rauc gets the intermediate certificates that the section names.
LEMMA IntermediatesGiven ==
    ASSUME conf \in Configs, NEW i \in Images, Kind(i) = "rauc"
    PROVE  LET s == conf.sec[i]
           IN  /\ ToSet(IntermediateArgs(i)) = {Asked(r) : r \in ToSet(s.intermediate)}
               /\ \A r \in ToSet(s.intermediate) : Usable(i, r)
<1> DEFINE s == conf.sec[i]
           q == s.intermediate
           P == Partitions(i)
           uri(r) == IF r \in Uri THEN <<[uri |-> r]>> ELSE <<>>
           file(p) == IF p.type = "intermediate" THEN <<disk[outfile[p.image]]>> ELSE <<>>
           us == [k \in DOMAIN q |-> uri(q[k])]
           fs == [k \in DOMAIN P |-> file(P[k])]
           S == {[uri |-> r] : r \in ToSet(q)} \cup {Written(p.image) : p \in ToSet(P)}
           U == {[uri |-> r] : r \in ToSet(q) \cap Uri}
           F == {Written(p.image) : p \in {p \in ToSet(P) : p.type = "intermediate"}}
<1>1. q \in Seq(Path) /\ P \in Seq(PartOf)
  BY SectionOf, BundlePartitions
<1>2. IntermediateArgs(i) = FlattenSeq(us) \o FlattenSeq(fs)
  BY DEF IntermediateArgs
<1>3. ToSet(<<>>) = {} /\ \A x : ToSet(<<x>>) = {x}
  BY DEF ToSet
<1>4. /\ \A k \in DOMAIN q : q[k] \in ToSet(q)
      /\ \A k \in DOMAIN P : P[k] \in ToSet(P)
      /\ \A x \in ToSet(q) : \E k \in DOMAIN q : x = q[k]
      /\ \A x \in ToSet(P) : \E k \in DOMAIN P : x = P[k]
  BY DEF ToSet
<1>5. \A x \in S : <<x>> \in Seq(S)
  OBVIOUS
<1>6. us \in Seq(Seq(S)) /\ DOMAIN us = DOMAIN q
  <2>1. \A k \in DOMAIN q : [uri |-> q[k]] \in S
    BY <1>4
  <2> HIDE DEF S
  <2>2. \A k \in DOMAIN q : uri(q[k]) \in Seq(S)
    BY <1>5, <2>1
  <2>3. DOMAIN q = 1..Len(q) /\ Len(q) \in Nat
    BY <1>1
  <2> HIDE DEF q, uri
  <2> QED
    BY <2>2, <2>3
<1>7. fs \in Seq(Seq(S)) /\ DOMAIN fs = DOMAIN P
  <2>1. \A k \in DOMAIN P : disk[outfile[P[k].image]] \in S
    BY <1>4 DEF Written
  <2> HIDE DEF S
  <2>2. \A k \in DOMAIN P : file(P[k]) \in Seq(S)
    BY <1>5, <2>1
  <2>3. DOMAIN P = 1..Len(P) /\ Len(P) \in Nat
    BY <1>1
  <2> HIDE DEF P, file
  <2> QED
    BY <2>2, <2>3
<1>8. /\ FlattenSeq(us) \in Seq(S) /\ FlattenSeq(fs) \in Seq(S)
      /\ ToSet(FlattenSeq(us)) = UNION {ToSet(us[k]) : k \in DOMAIN us}
      /\ ToSet(FlattenSeq(fs)) = UNION {ToSet(fs[k]) : k \in DOMAIN fs}
  BY <1>6, <1>7, Flattens
<1>9. UNION {ToSet(us[k]) : k \in DOMAIN us} = U
  <2>1. \A k \in DOMAIN q : ToSet(us[k]) = IF q[k] \in Uri THEN {[uri |-> q[k]]} ELSE {}
    BY <1>3
  <2>2. DOMAIN us = DOMAIN q
    BY <1>6
  <2> HIDE DEF us
  <2>3. \A x \in UNION {ToSet(us[k]) : k \in DOMAIN us} : x \in U
    <3>1. SUFFICES ASSUME NEW k \in DOMAIN q, NEW x \in ToSet(us[k]) PROVE x \in U
      BY <2>2
    <3>2. q[k] \in ToSet(q) /\ q[k] \in Uri /\ x = [uri |-> q[k]]
      BY <1>4, <2>1
    <3> HIDE DEF q
    <3> QED
      BY <3>2
  <2>4. \A x \in U : x \in UNION {ToSet(us[k]) : k \in DOMAIN us}
    <3>1. SUFFICES ASSUME NEW r \in ToSet(q), r \in Uri
                   PROVE  [uri |-> r] \in UNION {ToSet(us[k]) : k \in DOMAIN us}
      OBVIOUS
    <3>2. PICK k \in DOMAIN q : r = q[k]
      BY <1>4
    <3>3. [uri |-> r] \in ToSet(us[k])
      BY <2>1, <3>1, <3>2
    <3> QED
      BY <2>2, <3>3
  <2> HIDE DEF U
  <2> QED
    BY <2>3, <2>4
<1>10. UNION {ToSet(fs[k]) : k \in DOMAIN fs} = F
  <2>1. \A k \in DOMAIN P : ToSet(fs[k]) = IF P[k].type = "intermediate" THEN {Written(P[k].image)} ELSE {}
    BY <1>3 DEF Written
  <2>2. DOMAIN fs = DOMAIN P
    BY <1>7
  <2> HIDE DEF fs
  <2>3. \A x \in UNION {ToSet(fs[k]) : k \in DOMAIN fs} : x \in F
    <3>1. SUFFICES ASSUME NEW k \in DOMAIN P, NEW x \in ToSet(fs[k]) PROVE x \in F
      BY <2>2
    <3>2. P[k] \in ToSet(P) /\ P[k].type = "intermediate" /\ x = Written(P[k].image)
      BY <1>4, <2>1
    <3> HIDE DEF P
    <3> QED
      BY <3>2
  <2>4. \A x \in F : x \in UNION {ToSet(fs[k]) : k \in DOMAIN fs}
    <3>1. SUFFICES ASSUME NEW p \in ToSet(P), p.type = "intermediate"
                   PROVE  Written(p.image) \in UNION {ToSet(fs[k]) : k \in DOMAIN fs}
      OBVIOUS
    <3>2. PICK k \in DOMAIN P : p = P[k]
      BY <1>4
    <3>3. Written(p.image) \in ToSet(fs[k])
      BY <2>1, <3>1, <3>2
    <3> QED
      BY <2>2, <3>3
  <2> HIDE DEF F
  <2> QED
    BY <2>3, <2>4
<1>11. ToSet(IntermediateArgs(i)) = U \cup F
  <2> HIDE DEF S, us, fs, U, F
  <2> QED
    BY <1>2, <1>8, <1>9, <1>10, JoinOf
<1>12. {p.image : p \in {p \in ToSet(P) : p.type = "intermediate"}} = ToSet(q) \ Uri
  <2>1. /\ ToSet(P) = ToSet(File("key", s.key)) \cup ToSet(File("cert", s.cert))
                        \cup ToSet(Keyring(s)) \cup ToSet(Intermediates(s))
                        \cup ToSet(Contents(s))
    BY BundlePartitions
  <2>2. \A p \in ToSet(File("key", s.key)) \cup ToSet(File("cert", s.cert)) : p.type # "intermediate"
    <3>1. /\ \A p \in ToSet(File("key", s.key)) : p = [type |-> "key", image |-> s.key]
          /\ \A p \in ToSet(File("cert", s.cert)) : p = [type |-> "cert", image |-> s.cert]
      BY FileIs
    <3> QED
      BY <3>1
  <2>3. \A p \in ToSet(Keyring(s)) \cup ToSet(Contents(s)) : p.type # "intermediate"
    <3>1. \A k \in DOMAIN Keyring(s) : Keyring(s)[k].type = "keyring"
      BY DEF Keyring
    <3>2. \A k \in DOMAIN Contents(s) : Contents(s)[k].type = "content"
      BY DEF Contents
    <3>3. \A p \in ToSet(Keyring(s)) : p.type = "keyring"
      BY <3>1 DEF ToSet
    <3>4. \A p \in ToSet(Contents(s)) : p.type = "content"
      BY <3>2 DEF ToSet
    <3> QED
      BY <3>3, <3>4
  <2>4. /\ \A p \in ToSet(Intermediates(s)) : p.type = "intermediate"
        /\ {p.image : p \in ToSet(Intermediates(s))} = ToSet(q) \ Uri
    <3>1. /\ \A k \in DOMAIN Intermediates(s) : Intermediates(s)[k].type = "intermediate"
          /\ {p.image : p \in ToSet(Intermediates(s))} = ToSet(q) \ Uri
      BY IntermediatesAre
    <3> QED
      BY <3>1 DEF ToSet
  <2>5. {p \in ToSet(P) : p.type = "intermediate"} = ToSet(Intermediates(s))
    BY <2>1, <2>2, <2>3, <2>4
  <2> QED
    BY <2>4, <2>5
<1>13. F = {Written(r) : r \in ToSet(q) \ Uri}
  <2> HIDE DEF P, q
  <2>1. F = {Written(r) : r \in {p.image : p \in {p \in ToSet(P) : p.type = "intermediate"}}}
    OBVIOUS
  <2> QED
    BY <1>12, <2>1
<1>14. U \cup F = {Asked(r) : r \in ToSet(q)}
  <2>1. \A r \in ToSet(q) : Asked(r) = IF r \in Uri THEN [uri |-> r] ELSE Written(r)
    BY DEF Asked
  <2> HIDE DEF q, F
  <2> QED
    BY <1>13, <2>1
<1>15. ASSUME NEW r \in ToSet(q), r \notin Uri PROVE r \in Children(i)
  <2>1. PICK p \in ToSet(P) : r = p.image
    BY <1>12, <1>15
  <2> QED
    BY <2>1 DEF Children
<1> QED
  BY <1>11, <1>14, <1>15 DEF Usable

-----------------------------------------------------------------------------
(* The inductive invariant *)

Files == {In(p) : p \in conf.input} \cup {Out(i) : i \in Images}
Slugs == {Slug(i) : i \in Images}

TypeInv ==
    /\ conf \in Configs
    /\ pc \in {"setup", "generate", "done", "failed"}
    /\ done \subseteq Images /\ ready \subseteq Images
    /\ disk = [f \in Files |-> disk[f]]
    /\ outfile = [i \in Images |-> outfile[i]]
    /\ \A i \in Images : outfile[i] \in Files
    /\ rootHash = [s \in Slugs |-> rootHash[s]]
    /\ tmpdir = [s \in Slugs |-> tmpdir[s]]

\* All images are written to files of their own, but for input files.
IsInput(i) == Kind(i) = "file" /\ ~conf.sec[i].copy
FileInv ==
    \A i \in Images : \/ outfile[i] = Out(i)
                      \/ IsInput(i) /\ outfile[i] = In(conf.sec[i].name)

\* What an image is made from is there before it.
OrderInv ==
    /\ pc = "setup" => done = {} /\ busy = <<>>
    /\ pc \in {"generate", "done"} => ready = Images
    /\ pc = "done" => done = Images
    /\ \A i \in ready : Children(i) \subseteq ready
    /\ \A i \in done : Children(i) \subseteq done
    /\ busy # <<>> => /\ busy[1] \in Images \ done /\ Kind(busy[1]) = "rauc"
                      /\ Children(busy[1]) \subseteq done
                      /\ busy[2] \in 1..(Len(Partitions(busy[1])) + 1)

BaseInv == TypeInv /\ FileInv /\ OrderInv

\* The root hash that veritysetup leaves in tmppath.
RootOf(v) ==
    [hash |-> Written(conf.sec[v].image), cut |-> FALSE, long |-> conf.sec[v].long]

RootInv ==
    \A s \in Slugs :
        rootHash[s] # <<>> =>
            \E v \in done : Kind(v) = "verity" /\ Slug(v) = s /\ rootHash[s] = <<RootOf(v)>>

SignedBy(i) ==
    LET s == conf.sec[i]
    IN  /\ Kind(i) = "verity-sig" =>
              Written(i).key = Asked(s.key) /\ Written(i).certfp = Asked(s.cert)
        /\ Kind(i) = "rauc" =>
              /\ Written(i).key = Asked(s.key)
              /\ Written(i).cert = Asked(s.cert)
              /\ Written(i).keyring = [k \in DOMAIN s.keyring |-> Written(s.keyring[k])]
              /\ ToSet(Written(i).intermediate) = {Asked(r) : r \in ToSet(s.intermediate)}
SignedInv == \A i \in done : SignedBy(i)

TreeOf(i) ==
    /\ Kind(i) = "verity" => Written(i) = [tree |-> Written(conf.sec[i].image)]
    /\ Kind(i) = "verity-sig" =>
          \E v \in done : /\ Kind(v) = "verity" /\ Slug(v) = Slug(conf.sec[i].image)
                          /\ Written(i).signed = RootOf(v)
                          /\ Written(i).rootHash = WriteRootHash(RootOf(v))
TreeInv == \A i \in done : TreeOf(i)

\* The manifest and those of the first n partitions that are files.
FileOf(p) == [path |-> TargetOf(p), data |-> Wanted(p)]
Collected(i, n) ==
    {[path |-> Manifest, data |-> [lines |-> conf.sec[i].manifest]]}
      \cup {FileOf(Partitions(i)[k]) : k \in {k \in 1..n : Partitions(i)[k].type = "content"}}

Untouched ==
    \A i \in OfKind("rauc") \ done :
        busy = <<>> \/ busy[1] # i => tmpdir[Slug(i)] = {}
InWork ==
    busy # <<>> /\ Apart(conf.sec[busy[1]]) =>
        tmpdir[Slug(busy[1])] = Collected(busy[1], busy[2] - 1)
Bundled ==
    \A i \in done :
        Kind(i) = "rauc" /\ Apart(conf.sec[i]) =>
            Written(i).files = Collected(i, Len(Partitions(i)))

BundleInv == DistinctSlugs(OfKind("rauc")) => Untouched /\ InWork /\ Bundled

IInv == BaseInv /\ RootInv /\ SignedInv /\ TreeInv /\ BundleInv

-----------------------------------------------------------------------------
(* Steps *)

\* A step of the generation of an image: it writes at most its own file.
Generates(i) ==
    /\ pc = "generate" /\ i \in Images \ done
    /\ outfile' = outfile /\ conf' = conf
    /\ disk' = disk \/ (~IsInput(i) /\ \E d : disk' = [disk EXCEPT ![outfile[i]] = d])
    /\ done' = done \/ done' = done \cup {i}

LEMMA NextIs ==
    ASSUME BaseInv, [Next]_vars
    PROVE  /\ conf' = conf
           /\ \/ /\ pc = "setup"
                 /\ done' = done /\ disk' = disk /\ rootHash' = rootHash /\ tmpdir' = tmpdir
                 /\ busy' = busy
              \/ \E i \in Images : Generates(i)
              \/ /\ outfile' = outfile /\ done' = done /\ disk' = disk
                 /\ rootHash' = rootHash /\ tmpdir' = tmpdir /\ busy' = busy
<1>1. CASE \E i \in Images : SetupFile(i) \/ SetupOther(i)
  BY <1>1 DEF SetupFile, SetupOther, CanSetup
<1>2. CASE SetupDone \/ GenerateDone \/ CommandFails
  BY <1>2 DEF SetupDone, GenerateDone, CommandFails
<1>3. ASSUME NEW i \in Images, GenerateFile(i) \/ GenerateMade(i) \/ VerityGenerate(i) \/ RaucBegin(i)
      PROVE  Generates(i) /\ conf' = conf
  BY <1>3 DEF GenerateFile, GenerateMade, VerityGenerate, RaucBegin, CanGenerate, Generates, IsInput
<1>4. ASSUME NEW i \in Images, VeritySigGenerate(i)
      PROVE  Generates(i) /\ conf' = conf
  BY <1>4 DEF VeritySigGenerate, CanGenerate, Generates, IsInput
<1>5. ASSUME SkipPart \/ AddPart \/ RaucBundle
      PROVE  Image \in Images /\ Generates(Image) /\ conf' = conf
  BY <1>5 DEF SkipPart, AddPart, RaucBundle, HasPart, Generates, IsInput, Image, BaseInv, OrderInv
<1>6. CASE UNCHANGED vars
  BY <1>6 DEF vars
<1> QED
  BY <1>1, <1>2, <1>3, <1>4, <1>5, <1>6 DEF Next

\* No step changes what has been generated.
LEMMA DoneStays ==
    ASSUME BaseInv, [Next]_vars
    PROVE  /\ conf' = conf /\ done \subseteq done'
           /\ \A j \in done : Written(j)' = Written(j)
<1>1. CASE pc = "setup"
  BY <1>1, NextIs DEF BaseInv, OrderInv, Generates
<1>2. ASSUME NEW i \in Images, Generates(i)
      PROVE  done \subseteq done' /\ \A j \in done : Written(j)' = Written(j)
  <2>1. CASE disk' = disk
    BY <1>2, <2>1 DEF Generates, Written
  <2>2. CASE ~IsInput(i) /\ \E d : disk' = [disk EXCEPT ![outfile[i]] = d]
    <3>1. PICK d : disk' = [disk EXCEPT ![outfile[i]] = d]
      BY <2>2
    <3>2. outfile[i] = Out(i)
      BY <2>2 DEF BaseInv, FileInv
    <3>3. ASSUME NEW j \in done PROVE Written(j)' = Written(j)
      <4>1. j # i /\ j \in Images
        BY <1>2 DEF Generates, BaseInv, TypeInv
      <4>2. outfile[j] # outfile[i]
        BY <3>2, <4>1 DEF BaseInv, FileInv, Out, In
      <4> QED
        BY <1>2, <3>1, <4>2 DEF Generates, Written
    <3> QED
      BY <1>2, <3>3 DEF Generates
  <2> QED
    BY <1>2, <2>1, <2>2 DEF Generates
<1>3. CASE outfile' = outfile /\ done' = done /\ disk' = disk
  BY <1>3, NextIs DEF Written
<1> QED
  BY <1>1, <1>2, <1>3, NextIs

LEMMA BaseInit ==
    ASSUME Init
    PROVE  BaseInv
<1>1. DOMAIN disk = Files /\ \A i \in Images : outfile[i] = Out(i) /\ Out(i) \in Files
  BY DEF Init, Files
<1>2. TypeInv
  BY <1>1 DEF Init, TypeInv, Files, Slugs
<1>3. FileInv
  BY <1>1 DEF FileInv
<1>4. OrderInv
  BY DEF Init, OrderInv
<1> QED
  BY <1>2, <1>3, <1>4 DEF BaseInv

LEMMA BaseStep ==
    ASSUME BaseInv, [Next]_vars
    PROVE  BaseInv'
<1> USE DEF BaseInv
<1>1. ASSUME conf' = conf
      PROVE  /\ Images' = Images /\ Files' = Files /\ Slugs' = Slugs
             /\ \A i : Kind(i)' = Kind(i) /\ IsInput(i)' = IsInput(i)
                       /\ Partitions(i)' = Partitions(i) /\ Children(i)' = Children(i)
                       /\ Out(i)' = Out(i) /\ In(i)' = In(i) /\ Slug(i)' = Slug(i)
  BY <1>1 DEF Images, Files, Slugs, Kind, IsInput, Partitions, Children, Out, In, Slug,
     VerityParse, SigParse, RaucParse, File, Intermediates, Keyring, Contents
<1>2. ASSUME NEW i \in Images, SetupFile(i) PROVE BaseInv'
  <2> USE <1>2 DEF SetupFile, CanSetup
  <2>1. In(conf.sec[i].name) \in Files
    BY DEF TypeInv
  <2>2. TypeInv'
    BY <1>1, <2>1 DEF TypeInv
  <2>3. FileInv'
    BY <1>1 DEF FileInv, IsInput, TypeInv
  <2>4. OrderInv'
    BY <1>1 DEF OrderInv
  <2> QED
    BY <2>2, <2>3, <2>4
<1>3. ASSUME NEW i \in Images, SetupOther(i) PROVE BaseInv'
  <2> USE <1>3 DEF SetupOther, CanSetup
  <2>2. TypeInv'
    BY <1>1 DEF TypeInv
  <2>3. FileInv'
    BY <1>1 DEF FileInv
  <2>4. OrderInv'
    BY <1>1 DEF OrderInv
  <2> QED
    BY <2>2, <2>3, <2>4
<1>4. CASE SetupDone \/ GenerateDone \/ CommandFails
  <2> USE <1>4 DEF SetupDone, GenerateDone, CommandFails
  <2>2. TypeInv'
    BY <1>1 DEF TypeInv
  <2>3. FileInv'
    BY <1>1 DEF FileInv
  <2>4. OrderInv'
    BY <1>1 DEF OrderInv
  <2> QED
    BY <2>2, <2>3, <2>4
<1>5. ASSUME NEW i \in Images, conf' = conf, outfile' = outfile, ready' = ready, pc' = pc,
             pc = "generate", CanGenerate(i), done' = done \cup {i}, busy' = busy,
             disk' = [f \in Files |-> disk'[f]], tmpdir' = tmpdir,
             rootHash' = [s \in Slugs |-> rootHash'[s]]
      PROVE  BaseInv'
  <2>2. TypeInv'
    BY <1>1, <1>5 DEF TypeInv
  <2>3. FileInv'
    BY <1>1, <1>5 DEF FileInv
  <2>4. OrderInv'
    BY <1>1, <1>5 DEF OrderInv, CanGenerate
  <2> QED
    BY <2>2, <2>3, <2>4
<1>6. ASSUME NEW i \in Images, GenerateFile(i) \/ GenerateMade(i) PROVE BaseInv'
  <2>1. \A f, d : [disk EXCEPT ![f] = d] = [g \in Files |-> [disk EXCEPT ![f] = d][g]]
    BY DEF TypeInv
  <2>2. disk = [f \in Files |-> disk[f]] /\ rootHash = [s \in Slugs |-> rootHash[s]]
    BY DEF TypeInv
  <2>3. disk' = [f \in Files |-> disk'[f]]
    BY <1>6, <2>1, <2>2 DEF GenerateFile, GenerateMade
  <2> QED
    BY <1>5, <1>6, <2>2, <2>3 DEF GenerateFile, GenerateMade, CanGenerate
<1>7. ASSUME NEW i \in Images, VerityGenerate(i) PROVE BaseInv'
  <2>1. disk' = [f \in Files |-> disk'[f]]
    BY <1>7 DEF TypeInv, VerityGenerate
  <2>2. rootHash' = [s \in Slugs |-> rootHash'[s]]
    BY <1>7 DEF TypeInv, VerityGenerate
  <2> QED
    BY <1>5, <1>7, <2>1, <2>2 DEF VerityGenerate, CanGenerate
<1>8. ASSUME NEW i \in Images, VeritySigGenerate(i) PROVE BaseInv'
  <2>1. disk' = [f \in Files |-> disk'[f]]
    BY <1>8 DEF TypeInv, VeritySigGenerate
  <2>2. rootHash = [s \in Slugs |-> rootHash[s]]
    BY DEF TypeInv
  <2> QED
    BY <1>5, <1>8, <2>1, <2>2 DEF VeritySigGenerate, CanGenerate
<1>9. ASSUME NEW i \in Images, RaucBegin(i) PROVE BaseInv'
  <2> USE <1>9 DEF RaucBegin, CanGenerate
  <2>1. Len(Partitions(i)) \in Nat
    BY BundlePartitions DEF TypeInv
  <2>2. TypeInv'
    <3>1. tmpdir' = [s \in Slugs |-> tmpdir'[s]]
      BY DEF TypeInv
    <3> QED
      BY <1>1, <3>1 DEF TypeInv
  <2>3. FileInv'
    BY <1>1 DEF FileInv
  <2>4. OrderInv'
    <3>1. /\ busy'[1] = i /\ busy'[2] = 1 /\ i \in Images \ done /\ Kind(i) = "rauc"
          /\ Children(i) \subseteq done /\ 1 \in 1..(Len(Partitions(i)) + 1)
      BY <2>1
    <3> QED
      BY <1>1, <3>1 DEF OrderInv
  <2> QED
    BY <2>2, <2>3, <2>4
<1>10. ASSUME SkipPart \/ AddPart PROVE BaseInv'
  <2>1. /\ conf' = conf /\ outfile' = outfile /\ ready' = ready /\ pc' = pc /\ done' = done
        /\ disk' = disk /\ rootHash' = rootHash /\ pc = "generate"
        /\ busy # <<>> /\ busy[2] <= Len(Partitions(busy[1]))
        /\ busy' = <<busy[1], busy[2] + 1>>
    BY <1>10 DEF SkipPart, AddPart, HasPart, Image
  <2>2. TypeInv'
    <3>1. tmpdir' = [s \in Slugs |-> tmpdir'[s]]
      BY <1>10 DEF TypeInv, SkipPart, AddPart
    <3> QED
      BY <1>1, <2>1, <3>1 DEF TypeInv
  <2>3. FileInv'
    BY <1>1, <2>1 DEF FileInv
  <2>4. OrderInv'
    <3>1. busy[1] \in Images /\ Kind(busy[1]) = "rauc"
      BY <2>1 DEF OrderInv
    <3>2. Len(Partitions(busy[1])) \in Nat
      BY <3>1, BundlePartitions DEF TypeInv
    <3>3. busy[2] + 1 \in 1..(Len(Partitions(busy[1])) + 1)
      BY <2>1, <3>2 DEF OrderInv
    <3> QED
      BY <1>1, <2>1, <3>3 DEF OrderInv
  <2> QED
    BY <2>2, <2>3, <2>4
<1>11. ASSUME RaucBundle PROVE BaseInv'
  <2>1. /\ conf' = conf /\ outfile' = outfile /\ ready' = ready /\ pc' = pc
        /\ pc = "generate" /\ busy # <<>> /\ done' = done \cup {busy[1]} /\ busy' = <<>>
        /\ rootHash' = rootHash /\ tmpdir' = tmpdir
    BY <1>11 DEF RaucBundle, Image
  <2>2. TypeInv'
    <3>1. disk' = [f \in Files |-> disk'[f]]
      BY <1>11 DEF TypeInv, RaucBundle
    <3>2. busy[1] \in Images
      BY <2>1 DEF OrderInv
    <3> QED
      BY <1>1, <2>1, <3>1, <3>2 DEF TypeInv
  <2>3. FileInv'
    BY <1>1, <2>1 DEF FileInv
  <2>4. OrderInv'
    BY <1>1, <2>1 DEF OrderInv
  <2> QED
    BY <2>2, <2>3, <2>4
<1>12. CASE UNCHANGED vars
  <2> USE <1>12 DEF vars
  <2>2. TypeInv'
    BY <1>1 DEF TypeInv
  <2>3. FileInv'
    BY <1>1 DEF FileInv
  <2>4. OrderInv'
    BY <1>1 DEF OrderInv
  <2> QED
    BY <2>2, <2>3, <2>4
<1> QED
  BY <1>2, <1>3, <1>4, <1>6, <1>7, <1>8, <1>9, <1>10, <1>11, <1>12 DEF Next

LEMMA AskedStays ==
    ASSUME BaseInv, [Next]_vars, NEW i, Children(i) \subseteq done, NEW r, Usable(i, r)
    PROVE  Asked(r)' = Asked(r)
BY DoneStays DEF Usable, Asked

LEMMA SignedStays ==
    ASSUME BaseInv, [Next]_vars, NEW i \in done, SignedBy(i)
    PROVE  SignedBy(i)'
<1>1. /\ conf \in Configs /\ i \in Images /\ Children(i) \subseteq done
  BY DEF BaseInv, TypeInv, OrderInv
<1>2. /\ Written(i)' = Written(i) /\ conf' = conf /\ Kind(i)' = Kind(i)
      /\ \A j \in done : Written(j)' = Written(j)
  BY DoneStays DEF Kind
<1>3. PICK s : s = conf.sec[i]
  OBVIOUS
<1>4. ASSUME NEW r, Usable(i, r) PROVE Asked(r)' = Asked(r)
  BY <1>1, <1>4, AskedStays
<1>5. ASSUME Kind(i) = "verity-sig"
      PROVE  SignedBy(i)'
  <2>1. Usable(i, s.key) /\ Usable(i, s.cert)
    BY <1>1, <1>3, <1>5, SignatureGiven
  <2>2. Asked(s.key)' = Asked(s.key) /\ Asked(s.cert)' = Asked(s.cert)
    BY <1>4, <2>1
  <2>3. Written(i).key = Asked(s.key) /\ Written(i).certfp = Asked(s.cert)
    BY <1>3, <1>5 DEF SignedBy
  <2>4. Written(i)'.key = Asked(s.key)' /\ Written(i)'.certfp = Asked(s.cert)'
    BY <1>2, <2>2, <2>3
  <2>5. conf'.sec[i] = s /\ Kind(i)' = "verity-sig"
    BY <1>2, <1>3, <1>5
  <2> QED
    BY <2>4, <2>5 DEF SignedBy, Asked
<1>6. ASSUME Kind(i) = "rauc"
      PROVE  SignedBy(i)'
  <2>1. /\ Usable(i, s.key) /\ Usable(i, s.cert)
        /\ \A k \in DOMAIN s.keyring : s.keyring[k] \in Children(i)
    BY <1>1, <1>3, <1>6, BundleGiven
  <2>2. \A r \in ToSet(s.intermediate) : Usable(i, r)
    BY <1>1, <1>3, <1>6, IntermediatesGiven
  <2>3. /\ Asked(s.key)' = Asked(s.key) /\ Asked(s.cert)' = Asked(s.cert)
        /\ \A k \in DOMAIN s.keyring : Written(s.keyring[k])' = Written(s.keyring[k])
        /\ \A r \in ToSet(s.intermediate) : Asked(r)' = Asked(r)
    BY <1>1, <1>2, <1>4, <2>1, <2>2
  <2>4. /\ Written(i).key = Asked(s.key) /\ Written(i).cert = Asked(s.cert)
        /\ Written(i).keyring = [k \in DOMAIN s.keyring |-> Written(s.keyring[k])]
        /\ ToSet(Written(i).intermediate) = {Asked(r) : r \in ToSet(s.intermediate)}
    BY <1>3, <1>6 DEF SignedBy
  <2>5. {Asked(r)' : r \in ToSet(s.intermediate)} = {Asked(r) : r \in ToSet(s.intermediate)}
    BY <2>3
  <2>6. [k \in DOMAIN s.keyring |-> Written(s.keyring[k])']
          = [k \in DOMAIN s.keyring |-> Written(s.keyring[k])]
    BY <2>3
  <2>7. /\ Written(i)'.key = Asked(s.key)'
        /\ Written(i)'.cert = Asked(s.cert)'
        /\ Written(i)'.keyring = [k \in DOMAIN s.keyring |-> Written(s.keyring[k])']
        /\ ToSet(Written(i)'.intermediate) = {Asked(r)' : r \in ToSet(s.intermediate)}
    BY <1>2, <2>3, <2>4, <2>5, <2>6
  <2>8. conf'.sec[i] = s /\ Kind(i)' = "rauc"
    BY <1>2, <1>3, <1>6
  <2>9. (Written(i).key = Asked(conf.sec[i].key))'
    BY ONLY <2>7, <2>8 DEF Asked, Written
  <2>10. (Written(i).cert = Asked(conf.sec[i].cert))'
    BY ONLY <2>7, <2>8 DEF Asked, Written
  <2>11. (Written(i).keyring
             = [k \in DOMAIN conf.sec[i].keyring |-> Written(conf.sec[i].keyring[k])])'
    BY ONLY <2>7, <2>8 DEF Written
  <2>12. (ToSet(Written(i).intermediate)
             = {Asked(r) : r \in ToSet(conf.sec[i].intermediate)})'
    BY ONLY <2>7, <2>8 DEF ToSet
  <2> QED
    BY ONLY <2>8, <2>9, <2>10, <2>11, <2>12 DEF SignedBy
<1>7. ASSUME Kind(i) \notin {"verity-sig", "rauc"}
      PROVE  SignedBy(i)'
  BY <1>2, <1>7 DEF SignedBy
<1> QED
  BY <1>5, <1>6, <1>7

\* What a step that generates image i writes, is in it.
LEMMA GeneratesWritten ==
    ASSUME BaseInv, NEW i \in Images, NEW d, outfile' = outfile,
           disk' = [disk EXCEPT ![outfile[i]] = d]
    PROVE  Written(i)' = d
<1>1. DOMAIN disk = Files /\ outfile[i] \in Files
  BY DEF BaseInv, TypeInv
<1> QED
  BY <1>1 DEF Written

LEMMA SignedStep ==
    ASSUME BaseInv, SignedInv, [Next]_vars
    PROVE  SignedInv'
<1>1. /\ conf' = conf /\ \A i : Kind(i)' = Kind(i)
  BY DoneStays DEF Kind
<1>2. ASSUME NEW i \in done PROVE SignedBy(i)'
  BY <1>2, SignedStays DEF SignedInv
<1>3. ASSUME NEW i \in Images, Kind(i) \notin {"verity-sig", "rauc"} PROVE SignedBy(i)'
  BY <1>1, <1>3 DEF SignedBy
<1>4. ASSUME NEW i \in Images, VeritySigGenerate(i) PROVE SignedBy(i)'
  <2>1. Kind(i) = "verity-sig" /\ Children(i) \subseteq done /\ outfile' = outfile /\ conf \in Configs
    BY <1>4 DEF VeritySigGenerate, CanGenerate, BaseInv, TypeInv
  <2>2. PICK s : s = conf.sec[i]
    OBVIOUS
  <2>3. PICK rh : disk' = [disk EXCEPT ![outfile[i]] =
                 [rootHash |-> WriteRootHash(rh),
                  certfp |-> Given(i, "cert", s.cert),
                  signed |-> rh,
                  key |-> Given(i, "key", s.key)]]
    BY <1>4, <2>2 DEF VeritySigGenerate
  <2>4. PICK d : d = [rootHash |-> WriteRootHash(rh),
                      certfp |-> Given(i, "cert", s.cert),
                      signed |-> rh,
                      key |-> Given(i, "key", s.key)]
    OBVIOUS
  <2>5. Written(i)' = d
    BY <2>1, <2>3, <2>4, GeneratesWritten
  <2>6. d.certfp = Given(i, "cert", s.cert) /\ d.key = Given(i, "key", s.key)
    BY <2>4
  <2>7. /\ Given(i, "cert", s.cert) = Asked(s.cert) /\ Given(i, "key", s.key) = Asked(s.key)
        /\ Usable(i, s.cert) /\ Usable(i, s.key)
    BY <2>1, <2>2, SignatureGiven
  <2>8. Asked(s.cert)' = Asked(s.cert) /\ Asked(s.key)' = Asked(s.key)
    BY <2>1, <2>7, AskedStays
  <2>9. Written(i)'.certfp = Asked(s.cert)' /\ Written(i)'.key = Asked(s.key)'
    BY <2>5, <2>6, <2>7, <2>8
  <2>10. conf'.sec[i] = s /\ Kind(i)' = "verity-sig"
    BY <1>1, <2>1, <2>2
  <2> QED
    BY <2>9, <2>10 DEF SignedBy, Asked
<1>5. ASSUME NEW i, i = Image, RaucBundle PROVE SignedBy(i)'
  <2>1. /\ i \in Images /\ Kind(i) = "rauc" /\ Children(i) \subseteq done
        /\ outfile' = outfile /\ conf \in Configs
    BY <1>5 DEF RaucBundle, BaseInv, TypeInv, OrderInv, Image
  <2>2. PICK s : s = conf.sec[i]
    OBVIOUS
  <2>3. PICK d : d = [files |-> Dir,
                      cert |-> Given(i, "cert", s.cert),
                      key |-> Given(i, "key", s.key),
                      keyring |-> KeyringArg(i),
                      intermediate |-> IntermediateArgs(i)]
    OBVIOUS
  <2>4. disk' = [disk EXCEPT ![outfile[i]] = d]
    BY <1>5, <2>2, <2>3 DEF RaucBundle
  <2>5. Written(i)' = d
    BY <2>1, <2>4, GeneratesWritten
  <2>6. /\ d.cert = Given(i, "cert", s.cert) /\ d.key = Given(i, "key", s.key)
        /\ d.keyring = KeyringArg(i) /\ d.intermediate = IntermediateArgs(i)
    BY <2>3
  <2>7. /\ Given(i, "cert", s.cert) = Asked(s.cert) /\ Given(i, "key", s.key) = Asked(s.key)
        /\ Usable(i, s.cert) /\ Usable(i, s.key)
        /\ \A k \in DOMAIN s.keyring : s.keyring[k] \in Children(i)
        /\ KeyringArg(i) = [k \in DOMAIN s.keyring |-> Written(s.keyring[k])]
    BY <2>1, <2>2, BundleGiven
  <2>8. /\ ToSet(IntermediateArgs(i)) = {Asked(r) : r \in ToSet(s.intermediate)}
        /\ \A r \in ToSet(s.intermediate) : Usable(i, r)
    BY <2>1, <2>2, IntermediatesGiven
  <2>9. Asked(s.cert)' = Asked(s.cert) /\ Asked(s.key)' = Asked(s.key)
    BY <2>1, <2>7, AskedStays
  <2>10. \A r \in ToSet(s.intermediate) : Asked(r)' = Asked(r)
    BY <2>1, <2>8, AskedStays
  <2>11. \A k \in DOMAIN s.keyring : Written(s.keyring[k])' = Written(s.keyring[k])
    BY <2>1, <2>7, DoneStays
  <2>12. {Asked(r)' : r \in ToSet(s.intermediate)} = {Asked(r) : r \in ToSet(s.intermediate)}
    BY <2>10
  <2>13. [k \in DOMAIN s.keyring |-> Written(s.keyring[k])']
           = [k \in DOMAIN s.keyring |-> Written(s.keyring[k])]
    BY <2>11
  <2>14. /\ Written(i)'.key = Asked(s.key)'
         /\ Written(i)'.cert = Asked(s.cert)'
         /\ Written(i)'.keyring = [k \in DOMAIN s.keyring |-> Written(s.keyring[k])']
         /\ ToSet(Written(i)'.intermediate) = {Asked(r)' : r \in ToSet(s.intermediate)}
    BY <2>5, <2>6, <2>7, <2>8, <2>9, <2>12, <2>13
  <2>15. conf'.sec[i] = s /\ Kind(i)' = "rauc"
    BY <1>1, <2>1, <2>2
  <2>16. (Written(i).key = Asked(conf.sec[i].key))'
    BY ONLY <2>14, <2>15 DEF Asked, Written
  <2>17. (Written(i).cert = Asked(conf.sec[i].cert))'
    BY ONLY <2>14, <2>15 DEF Asked, Written
  <2>18. (Written(i).keyring
             = [k \in DOMAIN conf.sec[i].keyring |-> Written(conf.sec[i].keyring[k])])'
    BY ONLY <2>14, <2>15 DEF Written
  <2>19. (ToSet(Written(i).intermediate)
             = {Asked(r) : r \in ToSet(conf.sec[i].intermediate)})'
    BY ONLY <2>14, <2>15 DEF ToSet
  <2> QED
    BY ONLY <2>15, <2>16, <2>17, <2>18, <2>19 DEF SignedBy
<1>6. ASSUME NEW i \in done', i \notin done PROVE SignedBy(i)'
  <2>1. CASE \E j \in Images : GenerateFile(j) \/ GenerateMade(j) \/ VerityGenerate(j)
    BY <1>3, <1>6, <2>1 DEF GenerateFile, GenerateMade, VerityGenerate, CanGenerate
  <2>2. CASE \E j \in Images : VeritySigGenerate(j)
    BY <1>4, <1>6, <2>2 DEF VeritySigGenerate
  <2>3. CASE RaucBundle
    <3>1. i = Image
      BY <1>6, <2>3 DEF RaucBundle
    <3> QED
      BY <1>5, <2>3, <3>1
  <2>4. CASE done' = done
    BY <1>6, <2>4
  <2> QED
    BY <2>1, <2>2, <2>3, <2>4 DEF Next, SetupFile, SetupOther, SetupDone, RaucBegin, SkipPart,
       AddPart, GenerateDone, CommandFails, vars
<1> QED
  BY <1>2, <1>6 DEF SignedInv

LEMMA HashedImage ==
    ASSUME NEW v, Kind(v) = "verity"
    PROVE  /\ Partitions(v)[1].image = conf.sec[v].image
           /\ conf.sec[v].image \in Children(v)
<1>1. Partitions(v) = <<[type |-> "data", image |-> conf.sec[v].image]>>
  BY DEF Partitions, VerityParse
<1>2. [type |-> "data", image |-> conf.sec[v].image] \in ToSet(Partitions(v))
  BY <1>1 DEF ToSet
<1> QED
  BY <1>1, <1>2 DEF Children

LEMMA RootStays ==
    ASSUME BaseInv, [Next]_vars, NEW v \in Images, Children(v) \subseteq done,
           Kind(v) = "verity"
    PROVE  /\ RootOf(v)' = RootOf(v)
           /\ Written(conf.sec[v].image)' = Written(conf.sec[v].image)
<1>1. PICK r : r = conf.sec[v].image
  OBVIOUS
<1>2. conf' = conf /\ Written(r)' = Written(r)
  BY <1>1, HashedImage, DoneStays
<1>3. conf'.sec[v] = conf.sec[v] /\ conf'.sec[v].image = r
  BY <1>1, <1>2
<1> QED
  BY <1>1, <1>2, <1>3 DEF RootOf, Written

LEMMA RootStep ==
    ASSUME BaseInv, RootInv, [Next]_vars
    PROVE  RootInv'
<1>1. /\ conf' = conf /\ done \subseteq done' /\ done \subseteq Images
      /\ Slugs' = Slugs /\ \A i : Kind(i)' = Kind(i) /\ Slug(i)' = Slug(i)
  BY DoneStays DEF Kind, Slug, Slugs, Images, BaseInv, TypeInv
<1>2. ASSUME NEW s \in Slugs, rootHash'[s] = rootHash[s], rootHash[s] # <<>>
      PROVE  \E v \in done' : Kind(v)' = "verity" /\ Slug(v)' = s /\ rootHash'[s] = <<RootOf(v)'>>
  <2>1. PICK v \in done : Kind(v) = "verity" /\ Slug(v) = s /\ rootHash[s] = <<RootOf(v)>>
    BY <1>2 DEF RootInv
  <2>2. Children(v) \subseteq done
    BY DEF BaseInv, OrderInv
  <2>3. RootOf(v)' = RootOf(v)
    BY <1>1, <2>1, <2>2, RootStays
  <2> QED
    BY <1>1, <1>2, <2>1, <2>3
<1>3. ASSUME NEW i \in Images, VerityGenerate(i), NEW s \in Slugs, rootHash'[s] # <<>>
      PROVE  \E v \in done' : Kind(v)' = "verity" /\ Slug(v)' = s /\ rootHash'[s] = <<RootOf(v)'>>
  <2>1. Kind(i) = "verity" /\ Children(i) \subseteq done /\ i \in done'
    BY <1>3 DEF VerityGenerate, CanGenerate
  <2>2. PICK d : d = RootOf(i)
    OBVIOUS
  <2>3. rootHash' = [rootHash EXCEPT ![Slug(i)] = <<d>>]
    BY <1>3, <2>1, <2>2, HashedImage DEF VerityGenerate, RootOf, Written
  <2>4. CASE s = Slug(i)
    <3>1. rootHash'[s] = <<d>>
      BY <2>3, <2>4 DEF BaseInv, TypeInv
    <3>2. d = RootOf(i)'
      BY <1>1, <2>1, <2>2, RootStays
    <3> QED
      BY <1>1, <2>1, <2>4, <3>1, <3>2
  <2>5. CASE s # Slug(i)
    <3>1. rootHash'[s] = rootHash[s]
      BY <2>3, <2>5 DEF BaseInv, TypeInv
    <3> QED
      BY <1>2, <1>3, <3>1
  <2> QED
    BY <2>4, <2>5
<1>4. (\E i \in Images : VerityGenerate(i)) \/ rootHash' = rootHash
  BY DEF Next, SetupFile, SetupOther, SetupDone, GenerateFile, GenerateMade, VeritySigGenerate,
     RaucBegin, SkipPart, AddPart, RaucBundle, GenerateDone, CommandFails, vars
<1>5. ASSUME NEW s \in Slugs, rootHash'[s] # <<>>
      PROVE  \E v \in done' : Kind(v)' = "verity" /\ Slug(v)' = s /\ rootHash'[s] = <<RootOf(v)'>>
  BY <1>2, <1>3, <1>4, <1>5
<1> QED
  BY <1>1, <1>5 DEF RootInv

LEMMA TreeStep ==
    ASSUME BaseInv, RootInv, TreeInv, [Next]_vars
    PROVE  TreeInv'
<1>1. /\ conf' = conf /\ done \subseteq done' /\ done \subseteq Images
      /\ \A i : Kind(i)' = Kind(i) /\ Slug(i)' = Slug(i)
      /\ \A j \in done : Written(j)' = Written(j) /\ Children(j) \subseteq done
  BY DoneStays DEF Kind, Slug, BaseInv, TypeInv, OrderInv
<1>2. ASSUME NEW i \in done PROVE TreeOf(i)'
  <2>1. CASE Kind(i) = "verity"
    <3>1. PICK r : r = conf.sec[i].image
      OBVIOUS
    <3>2. Written(i) = [tree |-> Written(r)] /\ conf'.sec[i].image = r
      BY <1>1, <1>2, <2>1, <3>1 DEF TreeInv, TreeOf
    <3>3. Written(r)' = Written(r)
      BY <1>1, <1>2, <2>1, <3>1, HashedImage
    <3>4. Written(i)' = [tree |-> Written(r)']
      BY <1>1, <1>2, <3>2, <3>3
    <3> QED
      BY <1>1, <2>1, <3>2, <3>4 DEF TreeOf, Written
  <2>2. CASE Kind(i) = "verity-sig"
    <3>1. PICK v \in done : /\ Kind(v) = "verity" /\ Slug(v) = Slug(conf.sec[i].image)
                            /\ Written(i).signed = RootOf(v)
                            /\ Written(i).rootHash = WriteRootHash(RootOf(v))
      BY <1>2, <2>2 DEF TreeInv, TreeOf
    <3>2. RootOf(v)' = RootOf(v)
      BY <1>1, <3>1, RootStays
    <3>3. PICK d : d = RootOf(v)
      OBVIOUS
    <3>4. /\ Written(i)'.signed = RootOf(v)' /\ Written(i)'.rootHash = WriteRootHash(d)
          /\ d = RootOf(v)'
      BY <1>1, <1>2, <3>1, <3>2, <3>3
    <3>5. Kind(i)' = "verity-sig" /\ Kind(v)' = "verity" /\ v \in done'
      BY <1>1, <2>2, <3>1
    <3>6. Slug(v)' = Slug(conf.sec[i].image)'
      BY <1>1, <3>1 DEF Slug
    <3> QED
      BY <3>4, <3>5, <3>6 DEF TreeOf, WriteRootHash
  <2>3. CASE Kind(i) \notin {"verity", "verity-sig"}
    BY <1>1, <2>3 DEF TreeOf
  <2> QED
    BY <2>1, <2>2, <2>3
<1>3. ASSUME NEW i \in Images, Kind(i) \notin {"verity", "verity-sig"} PROVE TreeOf(i)'
  BY <1>1, <1>3 DEF TreeOf
<1>4. ASSUME NEW i \in Images, VerityGenerate(i) PROVE TreeOf(i)'
  <2>1. Kind(i) = "verity" /\ Children(i) \subseteq done /\ outfile' = outfile
    BY <1>4 DEF VerityGenerate, CanGenerate
  <2>2. PICK r : r = conf.sec[i].image
    OBVIOUS
  <2>3. PICK d : d = [tree |-> Written(r)]
    OBVIOUS
  <2>4. disk' = [disk EXCEPT ![outfile[i]] = d]
    BY <1>4, <2>1, <2>2, <2>3, HashedImage DEF VerityGenerate, Written
  <2>5. Written(i)' = d
    BY <2>1, <2>4, GeneratesWritten
  <2>6. Written(r)' = Written(r)
    BY <1>1, <2>1, <2>2, HashedImage
  <2>7. conf'.sec[i].image = r /\ Written(i)' = [tree |-> Written(r)']
    BY <1>1, <2>2, <2>3, <2>5, <2>6
  <2> QED
    BY <1>1, <2>1, <2>7 DEF TreeOf, Written
<1>5. ASSUME NEW i \in Images, VeritySigGenerate(i) PROVE TreeOf(i)'
  <2>1. Kind(i) = "verity-sig" /\ Children(i) \subseteq done /\ outfile' = outfile
    BY <1>5 DEF VeritySigGenerate, CanGenerate
  <2>2. PICK s : s = Slug(conf.sec[i].image)
    OBVIOUS
  <2>3. PICK rh \in ToSet(IF s \in DOMAIN rootHash THEN rootHash[s] ELSE <<>>) :
         \E d :
           /\ d = [rootHash |-> WriteRootHash(rh),
                   certfp |-> Given(i, "cert", conf.sec[i].cert),
                   signed |-> rh,
                   key |-> Given(i, "key", conf.sec[i].key)]
           /\ disk' = [disk EXCEPT ![outfile[i]] = d]
    BY <1>5, <2>2 DEF VeritySigGenerate
  <2>4. PICK d : /\ d.signed = rh /\ d.rootHash = WriteRootHash(rh)
                 /\ disk' = [disk EXCEPT ![outfile[i]] = d]
    BY <2>3
  <2>5. Written(i)' = d
    BY <2>1, <2>4, GeneratesWritten
  <2>6. s \in Slugs /\ rootHash[s] # <<>> /\ rh \in ToSet(rootHash[s])
    BY <2>3 DEF BaseInv, TypeInv, ToSet
  <2>7. PICK v \in done : Kind(v) = "verity" /\ Slug(v) = s /\ rootHash[s] = <<RootOf(v)>>
    BY <2>6 DEF RootInv
  <2>8. rh = RootOf(v)
    BY <2>6, <2>7 DEF ToSet
  <2>9. RootOf(v)' = RootOf(v)
    BY <1>1, <2>7, RootStays
  <2>10. /\ Written(i)'.signed = RootOf(v)' /\ Written(i)'.rootHash = WriteRootHash(rh)
         /\ rh = RootOf(v)'
    BY <2>4, <2>5, <2>8, <2>9
  <2>11. Kind(i)' = "verity-sig" /\ Kind(v)' = "verity" /\ v \in done'
    BY <1>1, <2>1, <2>7
  <2>12. Slug(v)' = Slug(conf.sec[i].image)'
    BY <1>1, <2>2, <2>7 DEF Slug
  <2> QED
    BY <2>10, <2>11, <2>12 DEF TreeOf, WriteRootHash
<1>6. ASSUME NEW i \in done', i \notin done PROVE TreeOf(i)'
  <2>1. CASE \E j \in Images : GenerateFile(j) \/ GenerateMade(j)
    BY <1>3, <1>6, <2>1 DEF GenerateFile, GenerateMade, CanGenerate
  <2>2. CASE \E j \in Images : VerityGenerate(j) \/ VeritySigGenerate(j)
    BY <1>4, <1>5, <1>6, <2>2 DEF VerityGenerate, VeritySigGenerate
  <2>3. CASE RaucBundle
    <3>1. i = Image /\ i \in Images /\ Kind(i) = "rauc"
      BY <1>6, <2>3 DEF RaucBundle, BaseInv, TypeInv, OrderInv, Image
    <3> QED
      BY <1>3, <3>1
  <2>4. CASE done' = done
    BY <1>6, <2>4
  <2> QED
    BY <2>1, <2>2, <2>3, <2>4 DEF Next, SetupFile, SetupOther, SetupDone, RaucBegin, SkipPart,
       AddPart, GenerateDone, CommandFails, vars
<1> QED
  BY <1>2, <1>6 DEF TreeInv


LEMMA SignedIsAsked ==
    ASSUME BaseInv, SignedInv
    PROVE  SignedAsAsked
<1>1. pc = "done" => \A i \in Images : SignedBy(i)
  BY DEF BaseInv, OrderInv, SignedInv
<1> QED
  BY <1>1 DEF SignedAsAsked, SignedBy, OfKind

LEMMA TreeIsSigned ==
    ASSUME BaseInv, TreeInv
    PROVE  SignsItsTree
<1>1. SUFFICES ASSUME pc = "done", DistinctSlugs(OfKind("verity") \cup Named),
                      NEW i \in OfKind("verity-sig"), NEW v, v = conf.sec[i].image,
                      NEW data, data = Written(conf.sec[v].image)
               PROVE  /\ Written(v) = [tree |-> data]
                      /\ Written(i).signed.hash = data
                      /\ Written(i).rootHash.hash = data
                      /\ ~conf.sec[v].long => Written(i).rootHash = Written(i).signed
  BY DEF SignsItsTree
<1>2. \A j \in Images : TreeOf(j)
  BY <1>1 DEF BaseInv, OrderInv, TreeInv
<1>3. i \in Images /\ Kind(i) = "verity-sig" /\ done \subseteq Images
  BY <1>1 DEF OfKind, BaseInv, TypeInv
<1>4. PICK w \in done : /\ Kind(w) = "verity" /\ Slug(w) = Slug(v)
                        /\ Written(i).signed = RootOf(w)
                        /\ Written(i).rootHash = WriteRootHash(RootOf(w))
  BY <1>1, <1>2, <1>3 DEF TreeOf
<1>5. w = v
  <2>1. w \in OfKind("verity") /\ v \in Named
    BY <1>1, <1>3, <1>4 DEF OfKind, Named
  <2> QED
    BY <1>1, <1>4, <2>1 DEF DistinctSlugs, Slug
<1>6. Written(v) = [tree |-> data]
  BY <1>1, <1>2, <1>3, <1>4, <1>5 DEF TreeOf
<1>7. RootOf(w) = [hash |-> data, cut |-> FALSE, long |-> conf.sec[v].long]
  BY <1>1, <1>5 DEF RootOf
<1>8. PICK rh : rh = RootOf(w)
  OBVIOUS
<1>9. /\ rh.hash = data /\ WriteRootHash(rh).hash = data
      /\ conf.sec[v].long = FALSE => WriteRootHash(rh) = rh
  <2>1. PICK l : l = conf.sec[v].long
    OBVIOUS
  <2>2. rh = [hash |-> data, cut |-> FALSE, long |-> l]
    BY <1>7, <1>8, <2>1
  <2>3. WriteRootHash(rh) = [hash |-> data, cut |-> l, long |-> l]
    BY ONLY <2>2 DEF WriteRootHash
  <2>4. rh.hash = data /\ WriteRootHash(rh).hash = data
    BY ONLY <2>2, <2>3
  <2>5. l = FALSE => WriteRootHash(rh) = rh
    BY ONLY <2>2, <2>3
  <2> QED
    BY <2>1, <2>4, <2>5
<1>10. conf.sec[v].long \in BOOLEAN
  <2>1. conf \in Configs /\ v \in Images /\ Kind(v) = "verity"
    BY <1>3, <1>4, <1>5 DEF BaseInv, TypeInv
  <2> QED
    BY <2>1, SectionOf
<1> QED
  BY <1>4, <1>6, <1>8, <1>9, <1>10


-----------------------------------------------------------------------------
(* Bundles *)

\* The last partitions are the files of the bundle, in order.
LEMMA ContentAt ==
    ASSUME conf \in Configs, NEW i \in Images, Kind(i) = "rauc"
    PROVE  LET P == Partitions(i)
               c == conf.sec[i].content
           IN  \E d \in Nat :
                  /\ Len(c) \in Nat /\ Len(P) = d + Len(c)
                  /\ \A k \in 1..d : P[k].type # "content"
                  /\ \A j \in 1..Len(c) :
                        /\ c[j] \in Content
                        /\ P[d + j] = [type |-> "content", image |-> c[j].image,
                                       target |-> c[j].target, offset |-> c[j].offset]
<1> DEFINE s == conf.sec[i]
           P == Partitions(i)
           D == Intermediates(s)
           q == s.content
           a == Len(File("key", s.key))
           b == a + Len(File("cert", s.cert))
           x == Len(s.keyring)
           y == Len(D)
           z == Len(q)
           c == b + x
           d == c + y
           n == d + z
<1>1. s.key \in Path /\ s.cert \in Path /\ s.keyring \in Seq(Path) /\ q \in Seq(Content)
  BY SectionOf
<1>2. D \in Seq(PartOf) /\ \A k \in 1..y : D[k].type = "intermediate"
  <2>1. D \in Seq(PartOf) /\ \A k \in DOMAIN D : D[k].type = "intermediate"
    BY IntermediatesAre
  <2> HIDE DEF D
  <2> QED
    BY <2>1
<1>3. /\ P \in Seq(PartOf) /\ Len(P) = n
      /\ \A k \in 1..a : P[k] = [type |-> "key", image |-> s.key]
      /\ \A k \in (a + 1)..b : P[k] = [type |-> "cert", image |-> s.cert]
      /\ \A k \in (b + 1)..c : P[k] = [type |-> "keyring", image |-> s.keyring[k - b]]
      /\ \A k \in (c + 1)..d : P[k] = D[k - c]
      /\ \A k \in (d + 1)..n : P[k] = Contents(s)[k - d]
  BY BundlePartitions
<1>4. /\ a \in Nat /\ b \in Nat /\ a <= b /\ x \in Nat /\ y \in Nat /\ z \in Nat
  <2>1. /\ File("key", s.key) \in Seq({[type |-> "key", image |-> s.key]})
        /\ File("cert", s.cert) \in Seq({[type |-> "cert", image |-> s.cert]})
    BY FileIs
  <2>2. a \in Nat /\ Len(File("cert", s.cert)) \in Nat
    BY <2>1
  <2>3. x \in Nat /\ z \in Nat
    <3> HIDE DEF s
    <3> QED
      BY <1>1
  <2>4. y \in Nat
    <3> HIDE DEF D
    <3> QED
      BY <1>2
  <2> HIDE DEF a, x, y, z
  <2> QED
    BY <2>2, <2>3, <2>4
<1>5. \A j \in 1..z :
         /\ q[j] \in Content
         /\ Contents(s)[j] = [type |-> "content", image |-> q[j].image,
                              target |-> q[j].target, offset |-> q[j].offset]
  <2> HIDE DEF s
  <2> QED
    BY <1>1 DEF Contents
<1> HIDE DEF P, D, s, x, y, z, a, b, q
<1>6. /\ c \in Nat /\ d \in Nat /\ n \in Nat /\ b <= c /\ c <= d /\ d <= n
      /\ c = b + x /\ d = c + y /\ n = d + z
  BY <1>4
<1> HIDE DEF c, d, n
<1>7. ASSUME NEW k \in 1..d PROVE P[k].type # "content"
  <2>1. \/ k \in 1..a \/ k \in (a + 1)..b \/ k \in (b + 1)..c
        \/ k \in (c + 1)..d /\ k - c \in 1..y
    BY <1>4, <1>6
  <2>2. CASE k \in 1..a
    BY <1>3, <2>2
  <2>3. CASE k \in (a + 1)..b
    BY <1>3, <2>3
  <2>4. CASE k \in (b + 1)..c
    <3> DEFINE r == s.keyring[k - b]
    <3>1. P[k] = [type |-> "keyring", image |-> r]
      BY <1>3, <2>4
    <3> HIDE DEF r
    <3> QED
      BY <3>1
  <2>5. CASE k \in (c + 1)..d /\ k - c \in 1..y
    BY <1>2, <1>3, <2>5
  <2> QED
    BY <2>1, <2>2, <2>3, <2>4, <2>5
<1>8. ASSUME NEW j \in 1..z
      PROVE  P[d + j] = [type |-> "content", image |-> q[j].image,
                         target |-> q[j].target, offset |-> q[j].offset]
  <2>1. d + j \in (d + 1)..n /\ (d + j) - d = j
    BY <1>4, <1>6
  <2>2. P[d + j] = Contents(s)[j]
    BY <1>3, <2>1
  <2> QED
    BY <1>5, <2>2
<1>9. z \in Nat /\ Len(P) = d + z /\ d \in Nat
  BY <1>3, <1>4, <1>6
<1> QED
  BY <1>5, <1>7, <1>8, <1>9 DEF z, P, q, s

\* A partition with a file of the bundle.
LEMMA FilePart ==
    ASSUME conf \in Configs, NEW i \in Images, Kind(i) = "rauc",
           NEW k \in 1..Len(Partitions(i)), Partitions(i)[k].type = "content",
           Apart(conf.sec[i])
    PROVE  LET p == Partitions(i)[k]
           IN  /\ "target" \in DOMAIN p /\ "offset" \in DOMAIN p
               /\ IsPrefix(TargetOf(p), TargetOf(p))
               /\ ~IsPrefix(TargetOf(p), Manifest)
               /\ \A l \in 1..Len(Partitions(i)) :
                     /\ Partitions(i)[l].type = "content" /\ l # k
                     => ~IsPrefix(TargetOf(p), TargetOf(Partitions(i)[l]))
<1> DEFINE P == Partitions(i)
           c == conf.sec[i].content
<1>1. PICK d \in Nat :
         /\ Len(c) \in Nat /\ Len(P) = d + Len(c)
         /\ \A l \in 1..d : P[l].type # "content"
         /\ \A j \in 1..Len(c) :
               /\ c[j] \in Content
               /\ P[d + j] = [type |-> "content", image |-> c[j].image,
                              target |-> c[j].target, offset |-> c[j].offset]
  BY ContentAt
<1>2. c \in Seq(Content)
  BY SectionOf
<1>3. P \in Seq(PartOf)
  BY BundlePartitions
<1>4. \A j, l \in DOMAIN c :
         /\ ~IsPrefix(TargetOf(c[j]), Manifest)
         /\ j # l => ~IsPrefix(TargetOf(c[j]), TargetOf(c[l]))
  BY DEF Apart
<1> DEFINE n == Len(P)
           m == Len(c)
<1>5. n = d + m /\ m \in Nat /\ DOMAIN c = 1..m /\ k \in 1..n
  BY <1>1, <1>2
<1> HIDE DEF c, P
<1>6. P[k].type = "content"
  BY DEF P
<1>7. ASSUME NEW l \in 1..n, P[l].type = "content"
      PROVE  /\ l - d \in 1..m /\ d + (l - d) = l
             /\ TargetOf(P[l]) = TargetOf(c[l - d])
  <2>1. l \notin 1..d
    BY <1>1, <1>7
  <2>2. l - d \in 1..m /\ d + (l - d) = l
    <3> HIDE DEF n, m
    <3> QED
      BY <1>5, <2>1
  <2>3. PICK e : e = c[l - d]
    OBVIOUS
  <2>4. P[l] = [type |-> "content", image |-> e.image, target |-> e.target, offset |-> e.offset]
    BY <1>1, <2>2, <2>3
  <2>5. TargetOf(P[l]) = TargetOf(e)
    BY <2>4 DEF TargetOf
  <2> QED
    BY <2>2, <2>3, <2>5
<1>8. /\ "target" \in DOMAIN P[k] /\ "offset" \in DOMAIN P[k]
      /\ IsPrefix(TargetOf(P[k]), TargetOf(P[k]))
  <2>1. PICK e \in Content : e = c[k - d]
    BY <1>1, <1>5, <1>6, <1>7
  <2>2. P[k] = [type |-> "content", image |-> e.image, target |-> e.target, offset |-> e.offset]
    BY <1>1, <1>5, <1>6, <1>7, <2>1
  <2>3. e.target \in Path
    BY DEF Content
  <2>4. Len(e.target) \in Nat /\ Len(<<Last(e.image)>>) = 1
    BY <2>3 DEF Path
  <2>5. Len(TargetOf(P[k])) \in Nat
    BY <2>2, <2>4 DEF TargetOf
  <2> QED
    BY <2>2, <2>5 DEF IsPrefix
<1> QED
  BY <1>4, <1>5, <1>6, <1>7, <1>8 DEF P


LEMMA CollectedStays ==
    ASSUME BaseInv, [Next]_vars, NEW i \in Images, Kind(i) = "rauc",
           Children(i) \subseteq done, NEW n, n \in 0..Len(Partitions(i))
    PROVE  Collected(i, n)' = Collected(i, n)
<1>1. PICK P : P = Partitions(i)
  OBVIOUS
<1>2. PICK m : m = conf.sec[i].manifest
  OBVIOUS
<1>3. conf' = conf /\ \A j \in done : Written(j)' = Written(j)
  BY DoneStays
<1>4. Partitions(i)' = P /\ conf'.sec[i].manifest = m
  BY <1>1, <1>2, <1>3 DEF Partitions, Kind, VerityParse, SigParse, RaucParse, File,
     Intermediates, Keyring, Contents
<1>5. P \in Seq(PartOf)
  BY <1>1, BundlePartitions DEF BaseInv, TypeInv
<1>6. ASSUME NEW k \in 1..n PROVE FileOf(P[k])' = FileOf(P[k])
  <2>1. P[k] \in ToSet(P)
    <3>1. k \in 1..Len(P) /\ DOMAIN P = 1..Len(P)
      BY <1>1, <1>5
    <3> QED
      BY <3>1 DEF ToSet
  <2>2. P[k].image \in done
    BY <1>1, <2>1 DEF Children
  <2>3. Written(P[k].image)' = Written(P[k].image)
    BY <1>3, <2>2
  <2> QED
    BY <2>3 DEF FileOf, Wanted
<1>7. Collected(i, n) =
        {[path |-> Manifest, data |-> [lines |-> m]]}
          \cup {FileOf(P[k]) : k \in {k \in 1..n : P[k].type = "content"}}
  BY <1>1, <1>2 DEF Collected
<1>8. Collected(i, n)' =
        {[path |-> Manifest, data |-> [lines |-> m]]}
          \cup {FileOf(P[k])' : k \in {k \in 1..n : P[k].type = "content"}}
  BY <1>4 DEF Collected, FileOf, Wanted, Written
<1>9. {FileOf(P[k])' : k \in {k \in 1..n : P[k].type = "content"}}
        = {FileOf(P[k]) : k \in {k \in 1..n : P[k].type = "content"}}
  BY <1>6
<1> QED
  BY <1>7, <1>8, <1>9

\* The partition that is at work.
LEMMA AtWork ==
    ASSUME BaseInv, NEW i, i = Image, NEW k, k = busy[2], busy # <<>>
    PROVE  /\ conf \in Configs /\ i \in Images \ done /\ Kind(i) = "rauc"
           /\ Children(i) \subseteq done /\ Slug(i) \in Slugs
           /\ Partitions(i) \in Seq(PartOf) /\ Len(Partitions(i)) \in Nat
           /\ k \in 1..(Len(Partitions(i)) + 1)
<1>1. /\ conf \in Configs /\ i \in Images \ done /\ Kind(i) = "rauc"
      /\ Children(i) \subseteq done /\ Slug(i) \in Slugs
      /\ k \in 1..(Len(Partitions(i)) + 1)
  BY DEF BaseInv, TypeInv, OrderInv, Slugs, Image
<1>2. Partitions(i) \in Seq(PartOf)
  BY <1>1, BundlePartitions
<1>3. Len(Partitions(i)) \in Nat
  BY <1>2
<1> QED
  BY <1>1, <1>2, <1>3

\* One partition more: what was collected, and its file if it has one.
LEMMA CollectedMore ==
    ASSUME NEW i, NEW k \in Nat \ {0}
    PROVE  Collected(i, k) =
              IF Partitions(i)[k].type = "content"
              THEN Collected(i, k - 1) \cup {FileOf(Partitions(i)[k])}
              ELSE Collected(i, k - 1)
<1>1. 1..k = 1..(k - 1) \cup {k}
  OBVIOUS
<1>2. {l \in 1..k : Partitions(i)[l].type = "content"} =
         {l \in 1..(k - 1) : Partitions(i)[l].type = "content"}
           \cup {l \in {k} : Partitions(i)[l].type = "content"}
  BY <1>1
<1>3. \A S, T : {FileOf(Partitions(i)[l]) : l \in S \cup T}
           = {FileOf(Partitions(i)[l]) : l \in S} \cup {FileOf(Partitions(i)[l]) : l \in T}
  OBVIOUS
<1> QED
  BY <1>2, <1>3 DEF Collected

\* A file of the bundle is put where nothing else is.
LEMMA FilePut ==
    ASSUME BaseInv, NEW i, i = Image, NEW k, k = busy[2], HasPart, IsContent(Part),
           Apart(conf.sec[i]), Dir = Collected(i, k - 1)
    PROVE  Put(Dir, Place, Skipped(disk[outfile[Part.image]])) = Collected(i, k)
<1>1. /\ conf \in Configs /\ i \in Images \ done /\ Kind(i) = "rauc"
      /\ Len(Partitions(i)) \in Nat /\ k \in 1..(Len(Partitions(i)) + 1)
  BY AtWork DEF HasPart
<1>2. PICK P : P = Partitions(i)
  OBVIOUS
<1>3. PICK p : p = P[k]
  OBVIOUS
<1>4. k \in 1..Len(P) /\ Part = p /\ p.type = "content"
  BY <1>1, <1>2, <1>3 DEF HasPart, Part, Image, IsContent
<1>5. PICK t : t = TargetOf(p)
  OBVIOUS
<1>6. /\ "target" \in DOMAIN p /\ "offset" \in DOMAIN p
      /\ IsPrefix(t, t) /\ ~IsPrefix(t, Manifest)
      /\ \A l \in 1..Len(P) : P[l].type = "content" /\ l # k => ~IsPrefix(t, TargetOf(P[l]))
  BY <1>1, <1>2, <1>3, <1>4, <1>5, FilePart
<1>7. Target = t /\ Skipped(disk[outfile[Part.image]]) = Wanted(p)
  BY <1>4, <1>5, <1>6 DEF Target, TargetOf, Skipped, Offset, Wanted, Written
<1>8. ASSUME NEW f \in Dir PROVE ~IsPrefix(t, f.path)
  <2>1. CASE f = [path |-> Manifest, data |-> [lines |-> conf.sec[i].manifest]]
    BY <1>6, <2>1
  <2>2. ASSUME NEW l \in 1..(k - 1), P[l].type = "content", f = FileOf(P[l])
        PROVE  ~IsPrefix(t, f.path)
    <3>1. l \in 1..Len(P) /\ l # k
      BY <1>1, <1>2, <1>4
    <3>2. f.path = TargetOf(P[l])
      BY <2>2 DEF FileOf
    <3> QED
      BY <1>6, <2>2, <3>1, <3>2
  <2> QED
    BY <1>2, <2>1, <2>2 DEF Collected
<1>9. FileAt(Dir, t) = {} /\ ~IsDir(Dir, t)
  BY <1>6, <1>8 DEF FileAt, IsDir, IsStrictPrefix
<1>10. Place = t
  BY <1>7, <1>9 DEF Place
<1>11. Put(Dir, t, Wanted(p)) = Dir \cup {FileOf(p)}
  BY <1>5, <1>9 DEF Put, FileOf
<1>12. Collected(i, k) = Collected(i, k - 1) \cup {FileOf(p)}
  BY <1>1, <1>2, <1>3, <1>4, CollectedMore
<1> QED
  BY <1>7, <1>10, <1>11, <1>12


\* A manifest that is not there before has the lines of the section.
LEMMA NewManifest ==
    ASSUME conf \in Configs, NEW i \in Images, Kind(i) = "rauc"
    PROVE  Put({}, Manifest, [lines |-> Over(conf.sec[i].manifest, OldLines({}))])
              = Collected(i, 0)
<1>1. PICK m \in Seq(STRING) : m = conf.sec[i].manifest
  BY SectionOf
<1>2. OldLines({}) = <<>>
  BY DEF OldLines, FileAt
<1>3. Over(m, <<>>) = m
  BY DEF Over
<1>4. Put({}, Manifest, [lines |-> m]) = {[path |-> Manifest, data |-> [lines |-> m]]}
  BY DEF Put, FileAt
<1>5. Collected(i, 0) = {[path |-> Manifest, data |-> [lines |-> m]]}
  <2>1. 1..0 = {}
    OBVIOUS
  <2> QED
    BY <1>1, <2>1 DEF Collected
<1> QED
  BY <1>1, <1>2, <1>3, <1>4, <1>5

\* Bundles that are done stay, and so does what another one has collected.
LEMMA BundlesStay ==
    ASSUME BaseInv, [Next]_vars
    PROVE  /\ Bundled => \A i \in done :
                 Kind(i)' = "rauc" /\ Apart(conf.sec[i])' =>
                     Written(i)'.files = Collected(i, Len(Partitions(i)))'
           /\ InWork /\ busy' = busy /\ tmpdir' = tmpdir => InWork'
           /\ DistinctSlugs(OfKind("rauc"))' = DistinctSlugs(OfKind("rauc"))
           /\ OfKind("rauc")' = OfKind("rauc")
<1>1. /\ conf' = conf /\ done \subseteq Images
      /\ \A i : Kind(i)' = Kind(i) /\ Slug(i)' = Slug(i) /\ Partitions(i)' = Partitions(i)
      /\ \A j \in done : Written(j)' = Written(j) /\ Children(j) \subseteq done
  BY DoneStays DEF Kind, Slug, BaseInv, TypeInv, OrderInv, Partitions, VerityParse, SigParse,
     RaucParse, File, Intermediates, Keyring, Contents
<1>2. ASSUME Bundled, NEW i \in done, Kind(i)' = "rauc", Apart(conf.sec[i])'
      PROVE  Written(i)'.files = Collected(i, Len(Partitions(i)))'
  <2>1. Kind(i) = "rauc" /\ i \in Images /\ Children(i) \subseteq done
    BY <1>1, <1>2
  <2>2. Apart(conf.sec[i])
    BY <1>1, <1>2 DEF Apart
  <2>3. PICK n : n = Len(Partitions(i))
    OBVIOUS
  <2>4. n \in 0..Len(Partitions(i))
    <3>1. Partitions(i) \in Seq(PartOf)
      BY <2>1, BundlePartitions DEF BaseInv, TypeInv
    <3> QED
      BY <2>3, <3>1
  <2>5. Collected(i, n)' = Collected(i, n)
    BY <2>1, <2>4, CollectedStays
  <2>6. Written(i).files = Collected(i, n)
    BY <1>2, <2>1, <2>2, <2>3 DEF Bundled
  <2>7. n = Len(Partitions(i))'
    BY <1>1, <2>3
  <2> QED
    BY <1>1, <2>5, <2>6, <2>7 DEF Collected, FileOf, Wanted, Written
<1>3. ASSUME InWork, busy' = busy, tmpdir' = tmpdir PROVE InWork'
  <2>1. SUFFICES ASSUME busy # <<>>, Apart(conf.sec[busy[1]])'
                 PROVE  (tmpdir[Slug(busy[1])] = Collected(busy[1], busy[2] - 1))'
    BY <1>3 DEF InWork
  <2>2. PICK i : i = busy[1]
    OBVIOUS
  <2>3. PICK k : k = busy[2]
    OBVIOUS
  <2>4. /\ i \in Images /\ Kind(i) = "rauc" /\ Children(i) \subseteq done
        /\ Len(Partitions(i)) \in Nat /\ k \in 1..(Len(Partitions(i)) + 1)
    BY <2>1, <2>2, <2>3, AtWork DEF Image
  <2>5. Apart(conf.sec[i])
    BY <1>1, <1>3, <2>1, <2>2 DEF Apart
  <2>6. PICK n : n = k - 1
    OBVIOUS
  <2>7. n \in 0..Len(Partitions(i))
    BY <2>4, <2>6
  <2>8. Collected(i, n)' = Collected(i, n)
    BY <2>4, <2>7, CollectedStays
  <2>9. tmpdir[Slug(i)] = Collected(i, n)
    BY <1>3, <2>1, <2>2, <2>3, <2>5, <2>6 DEF InWork
  <2>10. busy'[1] = i /\ busy'[2] - 1 = n
    BY <1>3, <2>2, <2>3, <2>6
  <2> QED
    BY <1>1, <1>3, <2>2, <2>8, <2>9, <2>10 DEF Collected, FileOf, Wanted, Written, Slug
<1>4. OfKind("rauc")' = OfKind("rauc")
  BY <1>1 DEF OfKind, Images
<1>5. DistinctSlugs(OfKind("rauc"))' = DistinctSlugs(OfKind("rauc"))
  BY <1>4 DEF DistinctSlugs
<1> QED
  BY <1>2, <1>3, <1>4, <1>5


\* Slugs name the bundles: a change to the files of one leaves the others.
LEMMA OthersUntouched ==
    ASSUME BaseInv, Untouched, DistinctSlugs(OfKind("rauc")),
           NEW i \in OfKind("rauc"), NEW d,
           tmpdir' = [tmpdir EXCEPT ![Slug(i)] = d],
           busy = <<>> \/ busy[1] = i
    PROVE  /\ \A j \in OfKind("rauc") \ done : j # i => tmpdir'[Slug(j)] = {}
           /\ tmpdir'[Slug(i)] = d
<1>1. Slug(i) \in DOMAIN tmpdir
  BY DEF BaseInv, TypeInv, OfKind, Slugs
<1>2. ASSUME NEW j \in OfKind("rauc") \ done, j # i PROVE tmpdir'[Slug(j)] = {}
  <2>1. Slug(j) # Slug(i)
    BY <1>2 DEF DistinctSlugs, Slug
  <2>2. tmpdir[Slug(j)] = {}
    BY <1>2 DEF Untouched
  <2> QED
    BY <2>1, <2>2
<1> QED
  BY <1>1, <1>2

LEMMA BundleStep ==
    ASSUME BaseInv, BundleInv, [Next]_vars
    PROVE  BundleInv'
<1>1. /\ conf' = conf /\ done \subseteq done' /\ done \subseteq Images /\ conf \in Configs
      /\ OfKind("rauc")' = OfKind("rauc")
      /\ \A i : Kind(i)' = Kind(i) /\ Slug(i)' = Slug(i) /\ Partitions(i)' = Partitions(i)
      /\ \A j \in done : Written(j)' = Written(j) /\ Children(j) \subseteq done
  BY DoneStays, BundlesStay DEF Kind, Slug, BaseInv, TypeInv, OrderInv, Partitions,
     VerityParse, SigParse, RaucParse, File, Intermediates, Keyring, Contents
<1>2. SUFFICES ASSUME DistinctSlugs(OfKind("rauc"))
               PROVE  (Untouched /\ InWork /\ Bundled)'
  BY BundlesStay DEF BundleInv
<1>3. Untouched /\ InWork /\ Bundled
  BY <1>2 DEF BundleInv
<1>4. ASSUME NEW i \in done PROVE
        Kind(i)' = "rauc" /\ Apart(conf.sec[i])' =>
           Written(i)'.files = Collected(i, Len(Partitions(i)))'
  BY <1>3, <1>4, BundlesStay
<1>5. ASSUME done' = done PROVE Bundled'
  BY <1>4, <1>5 DEF Bundled
<1>6. ASSUME tmpdir' = tmpdir, busy' = busy,
             done' = done \/ \E i \in Images : Kind(i) # "rauc" /\ done' = done \cup {i}
      PROVE  (Untouched /\ InWork /\ Bundled)'
  <2>1. Untouched'
    BY <1>1, <1>3, <1>6 DEF Untouched
  <2>2. InWork'
    BY <1>3, <1>6, BundlesStay
  <2>3. Bundled'
    <3>1. ASSUME NEW i \in done', Kind(i)' = "rauc" PROVE i \in done
      BY <1>1, <1>6, <3>1
    <3> QED
      BY <1>4, <3>1 DEF Bundled
  <2> QED
    BY <2>1, <2>2, <2>3
<1>7. ASSUME NEW i \in Images, RaucBegin(i) PROVE (Untouched /\ InWork /\ Bundled)'
  <2>1. /\ Kind(i) = "rauc" /\ i \notin done /\ busy = <<>> /\ busy' = <<i, 1>> /\ done' = done
        /\ Children(i) \subseteq done
    BY <1>7 DEF RaucBegin, CanGenerate
  <2>2. i \in OfKind("rauc") /\ tmpdir[Slug(i)] = {}
    BY <1>3, <2>1 DEF OfKind, Untouched
  <2>3. PICK d : d = Collected(i, 0)
    OBVIOUS
  <2>4. tmpdir' = [tmpdir EXCEPT ![Slug(i)] = d]
    <3>1. Put({}, Manifest, [lines |-> Over(conf.sec[i].manifest, OldLines({}))]) = d
      BY <1>1, <2>1, <2>3, NewManifest
    <3> QED
      BY <1>7, <2>2, <3>1 DEF RaucBegin
  <2>5. /\ \A j \in OfKind("rauc") \ done : j # i => tmpdir'[Slug(j)] = {}
        /\ tmpdir'[Slug(i)] = d
    BY <1>2, <1>3, <2>1, <2>2, <2>4, OthersUntouched
  <2>6. Untouched'
    BY <1>1, <2>1, <2>5 DEF Untouched
  <2>7. d = Collected(i, 0)'
    <3>1. PICK n : n = 0
      OBVIOUS
    <3>2. n \in 0..Len(Partitions(i))
      <4>1. Len(Partitions(i)) \in Nat
        <5>1. Partitions(i) \in Seq(PartOf)
          BY <1>1, <2>1, BundlePartitions
        <5> QED
          BY <5>1
      <4> QED
        BY <3>1, <4>1
    <3>3. Collected(i, n)' = Collected(i, n)
      BY <2>1, <3>2, CollectedStays
    <3> QED
      BY <2>3, <3>1, <3>3
  <2>8. InWork'
    BY <1>1, <2>1, <2>5, <2>7 DEF InWork, Collected, FileOf, Wanted, Written, Slug
  <2> QED
    BY <1>5, <2>1, <2>6, <2>8
<1>8. ASSUME SkipPart \/ AddPart PROVE (Untouched /\ InWork /\ Bundled)'
  <2>1. PICK i : i = Image
    OBVIOUS
  <2>2. PICK k : k = busy[2]
    OBVIOUS
  <2>3. HasPart /\ busy # <<>> /\ busy' = <<i, k + 1>> /\ done' = done /\ busy[1] = i
    BY <1>8, <2>1, <2>2 DEF SkipPart, AddPart, HasPart, Image
  <2>4. /\ i \in Images \ done /\ Kind(i) = "rauc" /\ Children(i) \subseteq done
        /\ Slug(i) \in Slugs /\ Len(Partitions(i)) \in Nat
        /\ k \in 1..(Len(Partitions(i)) + 1)
    BY <2>1, <2>2, <2>3, AtWork
  <2>5. k \in 1..Len(Partitions(i)) /\ k \in Nat \ {0} /\ k \in 0..Len(Partitions(i))
    BY <2>1, <2>2, <2>3, <2>4 DEF HasPart, Image
  <2>6. PICK d : d = tmpdir'[Slug(i)]
    OBVIOUS
  <2>7. tmpdir' = [tmpdir EXCEPT ![Slug(i)] = d]
    <3>1. CASE tmpdir' = tmpdir
      BY <2>6, <3>1 DEF BaseInv, TypeInv
    <3>2. CASE AddPart
      <4>1. PICK e : tmpdir' = [tmpdir EXCEPT ![Slug(i)] = e]
        BY <2>1, <3>2 DEF AddPart
      <4>2. e = d
        BY <2>4, <2>6, <4>1 DEF BaseInv, TypeInv
      <4> QED
        BY <4>1, <4>2
    <3> QED
      BY <1>8, <3>1, <3>2 DEF SkipPart
  <2>8. Untouched'
    <3>1. i \in OfKind("rauc")
      BY <2>4 DEF OfKind
    <3>2. \A j \in OfKind("rauc") \ done : j # i => tmpdir'[Slug(j)] = {}
      BY <1>2, <1>3, <2>3, <2>7, <3>1, OthersUntouched
    <3> QED
      BY <1>1, <2>3, <3>2 DEF Untouched
  <2>9. ASSUME Apart(conf.sec[i]) PROVE d = Collected(i, k)
    <3>1. tmpdir[Slug(i)] = Collected(i, k - 1)
      BY <1>3, <2>2, <2>3, <2>9 DEF InWork
    <3>2. CASE SkipPart
      <4>1. Partitions(i)[k].type # "content"
        BY <2>1, <2>2, <3>2 DEF SkipPart, IsContent, Part
      <4>2. Collected(i, k) = Collected(i, k - 1)
        BY <2>5, <4>1, CollectedMore
      <4> QED
        BY <2>6, <3>1, <3>2, <4>2 DEF SkipPart
    <3>3. CASE AddPart
      <4>1. HasPart /\ IsContent(Part) /\ Dir = Collected(i, k - 1)
        BY <2>1, <3>1, <3>3 DEF AddPart, Dir
      <4>2. Put(Dir, Place, Skipped(disk[outfile[Part.image]])) = Collected(i, k)
        BY <2>1, <2>2, <2>9, <4>1, FilePut
      <4>3. tmpdir'[Slug(i)] = Put(Dir, Place, Skipped(disk[outfile[Part.image]]))
        BY <2>1, <2>4, <3>3 DEF AddPart, BaseInv, TypeInv
      <4> QED
        BY <2>6, <4>2, <4>3
    <3> QED
      BY <1>8, <3>2, <3>3
  <2>10. Collected(i, k)' = Collected(i, k)
    BY <2>4, <2>5, CollectedStays
  <2>11. (k + 1) - 1 = k
    BY <2>5
  <2>12. Apart(conf.sec[i])' = Apart(conf.sec[i])
    BY <1>1 DEF Apart
  <2>13. InWork'
    <3>1. SUFFICES ASSUME Apart(conf.sec[busy[1]])'
                   PROVE  (tmpdir[Slug(busy[1])] = Collected(busy[1], busy[2] - 1))'
      BY DEF InWork
    <3>2. busy'[1] = i /\ busy'[2] - 1 = k
      BY <2>3, <2>11
    <3>3. Apart(conf.sec[i])
      BY <1>1, <3>1, <3>2 DEF Apart
    <3>4. tmpdir'[Slug(i)] = Collected(i, k)'
      BY <2>6, <2>9, <2>10, <3>3
    <3> QED
      BY <1>1, <3>2, <3>4 DEF Collected, FileOf, Wanted, Written, Slug
  <2> QED
    BY <1>5, <2>3, <2>8, <2>13
<1>9. ASSUME RaucBundle PROVE (Untouched /\ InWork /\ Bundled)'
  <2>1. PICK i : i = Image
    OBVIOUS
  <2>2. PICK k : k = busy[2]
    OBVIOUS
  <2>3. /\ ~HasPart /\ pc = "generate" /\ busy # <<>> /\ busy' = <<>> /\ tmpdir' = tmpdir
        /\ done' = done \cup {i} /\ busy[1] = i /\ outfile' = outfile
    BY <1>9, <2>1 DEF RaucBundle, Image
  <2>4. /\ i \in Images \ done /\ Kind(i) = "rauc" /\ Children(i) \subseteq done
        /\ Len(Partitions(i)) \in Nat /\ k \in 1..(Len(Partitions(i)) + 1)
    BY <2>1, <2>2, <2>3, AtWork
  <2>5. k - 1 = Len(Partitions(i))
    BY <2>1, <2>2, <2>3, <2>4 DEF HasPart, Image
  <2>6. Untouched'
    BY <1>1, <1>3, <2>3 DEF Untouched
  <2>7. InWork'
    BY <2>3 DEF InWork
  <2>8. PICK d : d.files = tmpdir[Slug(i)] /\ disk' = [disk EXCEPT ![outfile[i]] = d]
    BY <1>9, <2>1 DEF RaucBundle, Dir
  <2>9. Written(i)' = d
    BY <2>3, <2>4, <2>8, GeneratesWritten
  <2>10. ASSUME Apart(conf.sec[i])'
         PROVE  Written(i)'.files = Collected(i, Len(Partitions(i)))'
    <3>1. Apart(conf.sec[i])
      BY <1>1, <2>10 DEF Apart
    <3>2. PICK n : n = k - 1
      OBVIOUS
    <3>3. d.files = Collected(i, n)
      BY <1>3, <2>2, <2>3, <2>8, <3>1, <3>2 DEF InWork
    <3>4. n \in 0..Len(Partitions(i))
      BY <2>4, <2>5, <3>2
    <3>5. Collected(i, n)' = Collected(i, n)
      BY <2>4, <3>4, CollectedStays
    <3>6. n = Len(Partitions(i))'
      BY <1>1, <2>5, <3>2
    <3> QED
      BY <1>1, <2>9, <3>3, <3>5, <3>6 DEF Collected, FileOf, Wanted, Written
  <2>11. Bundled'
    BY <1>4, <2>3, <2>10 DEF Bundled
  <2> QED
    BY <2>6, <2>7, <2>11
<1>10. ASSUME NEW i \in Images,
              GenerateFile(i) \/ GenerateMade(i) \/ VerityGenerate(i) \/ VeritySigGenerate(i)
       PROVE  (Untouched /\ InWork /\ Bundled)'
  <2>1. tmpdir' = tmpdir /\ busy' = busy /\ Kind(i) # "rauc" /\ done' = done \cup {i}
    BY <1>10 DEF GenerateFile, GenerateMade, VerityGenerate, VeritySigGenerate
  <2> QED
    BY <1>6, <2>1
<1>11. CASE UNCHANGED vars \/ SetupDone \/ GenerateDone \/ CommandFails
            \/ \E i \in Images : SetupFile(i) \/ SetupOther(i)
  BY <1>6, <1>11 DEF SetupFile, SetupOther, SetupDone, GenerateDone, CommandFails, vars
<1> QED
  BY <1>7, <1>8, <1>9, <1>10, <1>11 DEF Next


LEMMA BundleIsExact ==
    ASSUME BaseInv, BundleInv
    PROVE  BundleExact
<1>1. SUFFICES ASSUME pc = "done", DistinctSlugs(OfKind("rauc")), NEW i \in OfKind("rauc"),
                      Apart(conf.sec[i])
               PROVE  Written(i).files =
                    {[path |-> Manifest, data |-> [lines |-> conf.sec[i].manifest]]}
                      \cup {[path |-> TargetOf(c), data |-> Wanted(c)] :
                              c \in ToSet(conf.sec[i].content)}
  BY DEF BundleExact
<1>2. i \in done /\ i \in Images /\ Kind(i) = "rauc" /\ conf \in Configs
  BY <1>1 DEF BaseInv, TypeInv, OrderInv, OfKind
<1>3. PICK P : P = Partitions(i)
  OBVIOUS
<1>4. PICK c : c = conf.sec[i].content
  OBVIOUS
<1>5. Written(i).files = Collected(i, Len(P))
  BY <1>1, <1>2, <1>3 DEF BundleInv, Bundled
<1>6. PICK d \in Nat :
         /\ Len(c) \in Nat /\ Len(P) = d + Len(c)
         /\ \A k \in 1..d : P[k].type # "content"
         /\ \A j \in 1..Len(c) :
               /\ c[j] \in Content
               /\ P[d + j] = [type |-> "content", image |-> c[j].image,
                              target |-> c[j].target, offset |-> c[j].offset]
  BY <1>2, <1>3, <1>4, ContentAt
<1>7. DOMAIN c = 1..Len(c)
  <2>1. c \in Seq(Content)
    BY <1>2, <1>4, SectionOf
  <2> QED
    BY <2>1
<1>8. ASSUME NEW j \in 1..Len(c)
      PROVE  /\ FileOf(P[d + j]) = [path |-> TargetOf(c[j]), data |-> Wanted(c[j])]
             /\ P[d + j].type = "content"
  <2>1. PICK e : e = c[j]
    OBVIOUS
  <2>2. P[d + j] = [type |-> "content", image |-> e.image, target |-> e.target,
                    offset |-> e.offset]
    BY <1>6, <2>1
  <2> QED
    BY <2>1, <2>2 DEF FileOf, TargetOf, Wanted
<1> DEFINE F == {FileOf(P[k]) : k \in {k \in 1..Len(P) : P[k].type = "content"}}
           G == {[path |-> TargetOf(e), data |-> Wanted(e)] : e \in ToSet(c)}
<1>9. ASSUME NEW k \in 1..Len(P), P[k].type = "content" PROVE FileOf(P[k]) \in G
  <2>1. k - d \in 1..Len(c) /\ d + (k - d) = k
    <3>1. k \notin 1..d
      BY <1>6, <1>9
    <3> QED
      BY <1>6, <3>1
  <2>2. c[k - d] \in ToSet(c)
    BY <1>7, <2>1 DEF ToSet
  <2>3. FileOf(P[k]) = [path |-> TargetOf(c[k - d]), data |-> Wanted(c[k - d])]
    BY <1>8, <2>1
  <2> QED
    BY <2>2, <2>3
<1>10. ASSUME NEW e \in ToSet(c) PROVE [path |-> TargetOf(e), data |-> Wanted(e)] \in F
  <2>1. PICK j \in 1..Len(c) : e = c[j]
    BY <1>7 DEF ToSet
  <2>2. d + j \in 1..Len(P)
    BY <1>6
  <2> QED
    BY <1>8, <2>1, <2>2
<1>11. F = G
  BY <1>9, <1>10
<1> HIDE DEF F, G
<1>12. Collected(i, Len(P)) = {[path |-> Manifest, data |-> [lines |-> conf.sec[i].manifest]]} \cup F
  BY <1>3 DEF Collected, F
<1> QED
  BY <1>4, <1>5, <1>11, <1>12 DEF G

-----------------------------------------------------------------------------
(* Theorems *)

\* The files in tmppath and the images agree, in every state.
THEOREM Invariant == Spec => []IInv
<1>1. Init => IInv
  <2>1. SUFFICES ASSUME Init PROVE IInv
    OBVIOUS
  <2>2. BaseInv
    BY <2>1, BaseInit
  <2>3. done = {} /\ busy = <<>> /\ \A s \in Slugs : rootHash[s] = <<>> /\ tmpdir[s] = {}
    BY <2>1 DEF Init, Slugs
  <2>4. RootInv /\ SignedInv /\ TreeInv
    BY <2>3 DEF RootInv, SignedInv, TreeInv
  <2>5. BundleInv
    <3>1. \A i \in OfKind("rauc") : Slug(i) \in Slugs
      BY DEF OfKind, Slugs
    <3> QED
      BY <2>3, <3>1 DEF BundleInv, Untouched, InWork, Bundled
  <2> QED
    BY <2>2, <2>4, <2>5 DEF IInv
<1>2. IInv /\ [Next]_vars => IInv'
  BY BaseStep, RootStep, SignedStep, TreeStep, BundleStep DEF IInv
<1> QED
  BY <1>1, <1>2, PTL DEF Spec

(* A signature image has the root hash, and the signature of the root hash,  *)
(* of the tree that veritysetup wrote over the data the named image is made  *)
(* from (verity_sig_generate(), verity_generate()), if no two of the names   *)
(* share a file in tmppath.                                                  *)
THEOREM SignsItsTreeHolds == Spec => []SignsItsTree
<1>1. IInv => SignsItsTree
  BY TreeIsSigned DEF IInv
<1> QED
  BY <1>1, Invariant, PTL

(* verity_sig_generate() and rauc_generate() give openssl and rauc the key,  *)
(* the certificates and the keyring that the section names, whichever of     *)
(* them are URIs and whatever has been made into partitions.                 *)
THEOREM SignedAsAskedHolds == Spec => []SignedAsAsked
<1>1. IInv => SignedAsAsked
  BY SignedIsAsked DEF IInv
<1> QED
  BY <1>1, Invariant, PTL

(* rauc_generate() gives rauc a directory with the manifest and the files of *)
(* the section, and with nothing else, if no two bundles share a directory   *)
(* and no file is in the way of another one.                                 *)
THEOREM BundleExactHolds == Spec => []BundleExact
<1>1. IInv => BundleExact
  BY BundleIsExact DEF IInv
<1> QED
  BY <1>1, Invariant, PTL

=============================================================================
