---------------------------- MODULE MdraidProofs ----------------------------
(***************************************************************************)
(* Theorems about RAID members, for any list of them and in any order that *)
(* the driver may take.  The members of an array go through parse, setup   *)
(* and generate one by one; between two phases, and between a parent and   *)
(* its child within one, they need not agree.  SizeInv says what the child *)
(* will have, ArrayInv what it has got, RoleInv which roles are taken.     *)
(***************************************************************************)
EXTENDS Mdraid, TLAPS

\* i inherits from a member that does not inherit itself.
Child(i) == HasParent(i) /\ ~Chained(i)

\* The members that a phase is through with
Through(phase, later) ==
    IF pc = phase THEN seen ELSE IF pc \in later THEN Members ELSE {}
Parsed == Through("parse", {"setup", "generate", "end"})
IsSetUp == Through("setup", {"generate", "end"})
Made == Through("generate", {"end"})

TypeInv ==
    /\ TypeOK /\ conf \in Configs
    /\ pc = "parse" => \A i \in seen : 1..i \subseteq seen
    /\ \A i \in Members : data[i] <= Len(conf.images)

\* Members get data and size when they are parsed, after their parent.
ParseInv ==
    \A i \in Parsed :
        /\ data[i] = DataOf(i)
        /\ HasParent(i) => Parent(i) \in Parsed /\ Parent(i) \in Members

\* A parent that is set up has the size that its child will compute.
SizeInv ==
    \A i \in Parsed :
        Child(i) => size[Parent(i)] = IF Parent(i) \in IsSetUp /\ i \notin IsSetUp
                                      THEN MemberSize(i) ELSE size[i]

\* Parents are visited first.
OrderInv ==
    \A i \in Members :
        HasParent(i) => /\ i \in IsSetUp => Parent(i) \in IsSetUp
                        /\ i \in Made => Parent(i) \in Made

DataEnd(i) == IF data[i] = 0 THEN 0 ELSE DataOffset + conf.images[data[i]].done
FileOf(i, devices) ==
    [dataEnd |-> DataEnd(i),
     length |-> MaxOf(MaxOf(size[i], DataEnd(i)), MaxOf(SuperEnd(devices), BitmapEnd))]

\* What generate has made of a member
ArrayInv ==
    \A i \in Made :
        /\ file[i] = FileOf(i, sb[i].devices)
        /\ ~HasParent(i) => sb[i].array = i
        /\ HasParent(i) => /\ sb[i].array = sb[Parent(i)].array
                           /\ sb[i].devices = sb[Parent(i)].devices
                           /\ sb[i].size = sb[Parent(i)].size

\* The automatic roles of an array are 0 and what its counter has passed.
RoleInv ==
    \A p \in Members : ~HasParent(p) =>
        /\ lastRole[p] <= RoleMax
        /\ p \in Made /\ AutoRole(p) => sb[p].role = 0
        /\ \A i \in Made \cap Children(p) : AutoRole(i) =>
              sb[i].role \in 1..lastRole[p]
        /\ \A i, j \in Made \cap Children(p) :
              AutoRole(i) /\ AutoRole(j) /\ i # j => sb[i].role # sb[j].role

IInv == TypeInv /\ ParseInv /\ SizeInv /\ OrderInv /\ ArrayInv /\ RoleInv

-----------------------------------------------------------------------------
LEMMA FieldTypes ==
    ASSUME TypeInv, NEW i \in Members
    PROVE  /\ size[i] \in Nat /\ data[i] \in Nat /\ data[i] <= Len(conf.images)
           /\ lastRole[i] \in Nat /\ lastRole[i] <= TwoTo16 - 1
           /\ sb[i] \in Superblock /\ sb[i].devices \in Nat /\ sb[i].role \in Nat
<1>1. lastRole[i] \in 0..(TwoTo16 - 1)
  BY DEF TypeInv, TypeOK
<1>2. sb[i] \in Superblock
  BY DEF TypeInv, TypeOK
<1>3. sb[i].devices \in Nat /\ sb[i].role \in Nat
  BY <1>2 DEF Superblock
<1>4. size[i] \in Nat /\ data[i] \in Nat
  BY DEF TypeInv, TypeOK
<1>5. lastRole[i] \in Nat /\ lastRole[i] <= TwoTo16 - 1
  <2>1. PICK n \in Nat : n = TwoTo16 - 1
    BY DEF TwoTo16
  <2>2. lastRole[i] \in 0..n
    BY <1>1, <2>1
  <2>3. lastRole[i] \in Nat /\ lastRole[i] <= n
    BY <2>2
  <2> QED
    BY <2>1, <2>3
<1>6. data[i] <= Len(conf.images)
  BY DEF TypeInv
<1> QED
  BY <1>2, <1>3, <1>4, <1>5, <1>6

LEMMA MemberType ==
    ASSUME TypeInv, NEW i \in Members
    PROVE  /\ i \in Nat \ {0} /\ conf.members[i] \in Member
           /\ Parent(i) \in Nat /\ conf.members[i].data \in 0..Len(conf.images)
<1>1. conf.members \in Seq(Member) /\ conf.images \in Seq([setup : Nat, done : Nat])
      /\ conf \in Configs
  BY DEF TypeInv, TypeOK, Conf
<1>2. i \in Nat \ {0} /\ conf.members[i] \in Member
  BY <1>1 DEF Members
<1>3. conf.members[i].parent \in Nat /\ conf.members[i].data \in Nat
  BY <1>2 DEF Member
<1>4. conf.members[i].data <= Len(conf.images)
  BY <1>1, DataAreImages DEF Members
<1> QED
  BY <1>1, <1>2, <1>3, <1>4 DEF Parent

LEMMA ImageType ==
    ASSUME TypeInv, NEW i \in Members, data[i] # 0
    PROVE  conf.images[data[i]].setup \in Nat /\ conf.images[data[i]].done \in Nat
<1>1. conf.images \in Seq([setup : Nat, done : Nat])
  BY DEF TypeInv, TypeOK, Conf
<1>2. data[i] \in DOMAIN conf.images
  BY <1>1 DEF TypeInv, TypeOK
<1>3. conf.images[data[i]] \in [setup : Nat, done : Nat]
  <2> DEFINE images == conf.images
  <2>1. ASSUME NEW S, NEW q \in Seq(S), NEW n \in DOMAIN q PROVE q[n] \in S
    OBVIOUS
  <2> HIDE DEF images
  <2> QED
    BY <1>1, <1>2, <2>1
<1> QED
  BY <1>3

LEMMA SizeType ==
    ASSUME TypeInv, NEW i \in Members
    PROVE  MemberSize(i) \in Nat
<1>1. size[i] \in Nat /\ (data[i] # 0 => DataSize(i) \in Nat)
  BY ImageType DEF TypeInv, TypeOK, DataSize
<1>2. \A x \in Nat : RoundUp(x) \in Nat
  BY DEF RoundUp, MemberAlign
<1> QED
  BY <1>1, <1>2 DEF MemberSize, DataOffset

LEMMA RoleType ==
    ASSUME TypeInv, NEW i \in Members, HasParent(i) => Parent(i) \in Members
    PROVE  Role(i) \in 0..(TwoTo16 - 1) /\ MaxDevices(i) \in Nat
<1>1. conf.members[i].role \in Int /\ conf.members[i].devices \in Int
  BY MemberType DEF Member
<1>2. \A x \in Int : x % TwoTo16 \in 0..(TwoTo16 - 1)
  <2>1. \A x \in Int, n \in Nat \ {0} : x % n \in 0..(n - 1)
    BY Z3
  <2>2. TwoTo16 \in Nat \ {0}
    BY DEF TwoTo16
  <2> QED
    BY <2>1, <2>2
<1>3. HasParent(i) => lastRole[Parent(i)] \in Int /\ sb[Parent(i)].devices \in Nat
  BY FieldTypes
<1>4. Role(i) \in 0..(TwoTo16 - 1)
  <2>1. CASE ~AutoRole(i)
    BY <1>1, <1>2, <2>1 DEF Role
  <2>2. CASE AutoRole(i) /\ HasParent(i)
    BY <1>2, <1>3, <2>2 DEF Role
  <2>3. CASE AutoRole(i) /\ ~HasParent(i)
    BY <2>3 DEF Role, TwoTo16
  <2> QED
    BY <2>1, <2>2, <2>3
<1>5. MaxDevices(i) \in Nat
  <2>1. \A x \in Int : x % TwoTo16 \in Nat
    BY DEF TwoTo16
  <2> QED
    BY <1>1, <1>3, <2>1 DEF MaxDevices
<1> QED
  BY <1>4, <1>5

(* What generate writes of a member is a superblock and a file.             *)
LEMMA MadeType ==
    ASSUME TypeInv, NEW i \in Members, HasParent(i) => Parent(i) \in Members, ~Wraps(i)
    PROVE  /\ SuperblockOf(i) \in Superblock
           /\ FileOf(i, MaxDevices(i)) \in [length : Nat, dataEnd : Nat]
           /\ SuperblockOf(i).role = Role(i) /\ SuperblockOf(i).devices = MaxDevices(i)
           /\ ~HasParent(i) => SuperblockOf(i).array = i
           /\ HasParent(i) => /\ SuperblockOf(i).array = sb[Parent(i)].array
                              /\ SuperblockOf(i).size = sb[Parent(i)].size
<1>1. /\ Role(i) \in Nat /\ MaxDevices(i) \in Nat /\ i \in Nat /\ size[i] \in Nat
      /\ HasParent(i) => sb[Parent(i)] \in Superblock
  BY RoleType, MemberType, FieldTypes
<1>2. ~HasParent(i) => (size[i] - DataOffset) \div 512 \in Nat
  BY <1>1 DEF Wraps, DataOffset
<1>3. ~HasParent(i) => /\ NewArray(i) \in Superblock
                       /\ NewArray(i).devices = MaxDevices(i) /\ NewArray(i).array = i
  BY <1>1, <1>2 DEF NewArray, Superblock
<1>4. HasParent(i) => MaxDevices(i) = sb[Parent(i)].devices
  BY DEF MaxDevices
<1>5. DataEnd(i) \in Nat
  BY ImageType DEF DataEnd, DataOffset
<1>6. FileOf(i, MaxDevices(i)) \in [length : Nat, dataEnd : Nat]
  BY <1>1, <1>5 DEF FileOf, MaxOf, SuperEnd, SuperOffset, BitmapEnd, BitmapOffset
<1> QED
  BY <1>1, <1>3, <1>4, <1>6 DEF SuperblockOf, Superblock

-----------------------------------------------------------------------------
(* A member that is parsed has the data of its parent's section, and the    *)
(* size that the parent has.                                                *)
LEMMA ParseStep ==
    ASSUME IInv, NEW i \in Members, Parse(i)
    PROVE  ret' # "ok" \/ IInv'
<1> USE DEF IInv
<1> SUFFICES ASSUME /\ conf.members[i].level = 1 /\ Parent(i) <= i
                    /\ size' = [size EXCEPT ![i] = InheritedSize(i)]
                    /\ data' = [data EXCEPT ![i] = DataOf(i)]
                    /\ seen' = seen \cup {i}
                    /\ UNCHANGED <<conf, pc, ret, lastRole, sb, file>>
             PROVE  IInv'
  BY DEF Parse, Stop
<1>1. /\ pc = "parse" /\ seen = 1..(i - 1) /\ i \in Nat \ {0} /\ Parent(i) \in Nat
      /\ HasParent(i) => Parent(i) \in Members /\ Parent(i) \in 1..i
  BY SMTT(30), MemberType DEF Parse, HasParent, Members, TypeInv, TypeOK, Conf
<1>2. /\ IsSetUp = {} /\ IsSetUp' = {} /\ Made = {} /\ Made' = {}
      /\ Parsed = seen /\ Parsed' = seen' /\ i \notin seen /\ Members' = Members
  BY <1>1 DEF IsSetUp, Made, Parsed, Through, Members
<1>3. InheritedSize(i) \in Nat /\ DataOf(i) \in 0..Len(conf.images) /\ Len(conf.images) \in Nat
  <2>1. Len(conf.images) \in Nat
    BY DEF TypeInv, TypeOK, Conf
  <2> QED
    BY <1>1, <2>1, MemberType, FieldTypes DEF InheritedSize, DataOf
<1>4. TypeInv'
  <2>1. TypeOK'
    BY <1>2, <1>3 DEF TypeInv, TypeOK, Members
  <2>2. \A j \in seen' : 1..j \subseteq seen'
    BY <1>1 DEF TypeInv
  <2>3. \A j \in Members : data'[j] <= Len(conf.images)
    BY <1>3 DEF TypeInv, TypeOK
  <2> QED
    BY <1>2, <2>1, <2>2, <2>3 DEF TypeInv
<1>5. ParseInv'
  <2>1. ASSUME NEW j \in seen'
        PROVE  data'[j] = DataOf(j) /\ (HasParent(j) => Parent(j) \in seen')
    BY SMTT(30), <1>1, <1>2, <2>1 DEF ParseInv, TypeInv, TypeOK
  <2>2. \A j \in Members : DataOf(j)' = DataOf(j) /\ HasParent(j)' = HasParent(j) /\ Parent(j)' = Parent(j)
    BY DEF DataOf, HasParent, Parent
  <2>3. seen' \subseteq Members
    BY <1>4 DEF TypeInv, TypeOK, Members
  <2> QED
    BY <1>2, <2>1, <2>2, <2>3 DEF ParseInv
<1>6. SizeInv'
  <2>1. ASSUME NEW j \in seen', Child(j)
        PROVE  size'[Parent(j)] = size'[j]
    <3>1. CASE j = i
      BY <1>1, <2>1, <3>1 DEF Child, Chained, InheritedSize, TypeInv, TypeOK
    <3>2. CASE j # i
      <4>1. j \in seen /\ Parent(j) \in seen /\ Parent(j) # i
        BY <1>2, <2>1, <3>2 DEF ParseInv, Child
      <4> QED
        BY <1>2, <2>1, <3>2, <4>1 DEF SizeInv, TypeInv, TypeOK
    <3> QED
      BY <3>1, <3>2
  <2> QED
    BY <1>2, <2>1 DEF SizeInv, Child, Chained, HasParent, Parent
<1> QED
  BY <1>2, <1>4, <1>5, <1>6 DEF OrderInv, ArrayInv, RoleInv, HasParent, Parent, Children

-----------------------------------------------------------------------------
(* The constants of a configuration do not change with its state.           *)
LEMMA SetupStep ==
    ASSUME IInv, NEW i \in Members, Setup(i)
    PROVE  ret' # "ok" \/ IInv'
<1> USE DEF IInv
<1> SUFFICES ASSUME /\ pc = "setup" /\ Ready(i)
                    /\ size' = [size EXCEPT ![i] = MemberSize(i)]
                    /\ seen' = seen \cup {i}
                    /\ UNCHANGED <<conf, pc, ret, data, lastRole, sb, file>>
             PROVE  IInv'
  BY DEF Setup, Stop
<1>1. /\ Parsed = Members /\ Parsed' = Members /\ Made = {} /\ Made' = {}
      /\ IsSetUp = seen /\ IsSetUp' = seen' /\ Members' = Members
  BY DEF IsSetUp, Made, Parsed, Through, Members
<1>2. /\ \A j \in Members : /\ DataOf(j)' = DataOf(j) /\ HasParent(j)' = HasParent(j)
                             /\ Parent(j)' = Parent(j) /\ Child(j)' = Child(j)
                             /\ DataSize(j)' = DataSize(j)
      /\ \A j \in Members : HasParent(j) => Parent(j) \in Members
  BY <1>1 DEF DataOf, HasParent, Parent, Child, Chained, DataSize, ParseInv
<1>3. MemberSize(i) \in Nat
  BY SizeType
<1>4. TypeInv'
  BY <1>1, <1>3 DEF TypeInv, TypeOK, Members
<1>5. ParseInv'
  BY <1>1, <1>2 DEF ParseInv
<1>6. SizeInv'
  <2>1. \A j \in Members : /\ j # i => size'[j] = size[j] /\ MemberSize(j)' = MemberSize(j)
                           /\ size'[i] = MemberSize(i)
    BY <1>2 DEF MemberSize, TypeInv, TypeOK
  <2>2. ASSUME NEW j \in Members, Child(j)
        PROVE  size'[Parent(j)] = IF Parent(j) \in seen' /\ j \notin seen'
                                  THEN MemberSize(j)' ELSE size'[j]
    <3>1. Parent(j) \in Members /\ HasParent(j) /\ Parent(j) # j
      BY <1>2, <2>2 DEF Child, Chained
    <3>2. data[j] = data[Parent(j)]
      BY <1>1, <2>2, <3>1 DEF ParseInv, DataOf, Child, Chained
    <3>3. size[Parent(j)] = IF Parent(j) \in seen /\ j \notin seen
                            THEN MemberSize(j) ELSE size[j]
      BY <1>1, <2>2 DEF SizeInv
    <3>4. j \in seen => Parent(j) \in seen
      BY <1>1, <3>1 DEF OrderInv
    <3>5. CASE i = j
      <4>1. Parent(j) \in seen /\ j \notin seen
        BY <3>1, <3>5 DEF Ready
      <4> QED
        BY <2>1, <3>1, <3>3, <3>5, <4>1
    <3>6. CASE i = Parent(j)
      <4>1. i \notin seen /\ j \notin seen /\ size[i] = size[j]
        BY <3>3, <3>4, <3>6 DEF Ready
      <4>2. MemberSize(i) = MemberSize(j)
        BY <3>2, <3>6, <4>1 DEF MemberSize, DataSize
      <4> QED
        BY <2>1, <3>1, <3>6, <4>1, <4>2
    <3>7. CASE i # j /\ i # Parent(j)
      BY <2>1, <3>1, <3>3, <3>7
    <3> QED
      BY <3>5, <3>6, <3>7
  <2> QED
    BY <1>1, <1>2, <2>2 DEF SizeInv
<1>7. OrderInv'
  BY <1>1, <1>2 DEF OrderInv, Ready
<1>8. ArrayInv' /\ RoleInv'
  <2>1. ArrayInv'
    BY <1>1 DEF ArrayInv
  <2>2. RoleInv'
    BY <1>1, <1>2 DEF RoleInv
  <2> QED
    BY <2>1, <2>2
<1> QED
  BY <1>4, <1>5, <1>6, <1>7, <1>8

-----------------------------------------------------------------------------
(* A member that is generated belongs to the array of its parent, and takes *)
(* the next role there.                                                     *)
LEMMA GenerateStep ==
    ASSUME IInv, NEW i \in Members, Generate(i)
    PROVE  ret' # "ok" \/ IInv'
<1> USE DEF IInv
<1>g. CASE /\ pc = "generate" /\ Ready(i) /\ RoleAllowed(i) /\ ~Wraps(i)
           /\ lastRole' = Counters(i)
           /\ sb' = [sb EXCEPT ![i] = SuperblockOf(i)]
           /\ file' = [file EXCEPT ![i] = FileOf(i, MaxDevices(i))]
           /\ seen' = seen \cup {i}
           /\ UNCHANGED <<conf, pc, ret, attributes>>
  <2>1. /\ Parsed = Members /\ Parsed' = Members /\ IsSetUp = Members /\ IsSetUp' = Members
        /\ Made = seen /\ Made' = seen' /\ Members' = Members
    <3>1. UNCHANGED <<conf, pc, ret>>
      BY <1>g
    <3> QED
      BY <1>g, <3>1 DEF IsSetUp, Made, Parsed, Through, Members
  <2>2. /\ \A j \in Members : /\ DataOf(j)' = DataOf(j) /\ HasParent(j)' = HasParent(j)
                               /\ Parent(j)' = Parent(j) /\ Child(j)' = Child(j)
                               /\ MemberSize(j)' = MemberSize(j) /\ AutoRole(j)' = AutoRole(j)
                               /\ \A d : FileOf(j, d)' = FileOf(j, d)
        /\ \A j \in Members : HasParent(j) => Parent(j) \in Members
    BY <1>g, <2>1 DEF DataOf, HasParent, Parent, Child, Chained, MemberSize, DataSize,
       ParseInv, AutoRole, FileOf, DataEnd, attributes
  <2>3. i \notin seen /\ (HasParent(i) => Parent(i) \in seen /\ Parent(i) \in Members)
    BY <1>g, <2>2 DEF Ready
  <2>4. /\ SuperblockOf(i) \in Superblock
        /\ FileOf(i, MaxDevices(i)) \in [length : Nat, dataEnd : Nat]
        /\ SuperblockOf(i).role = Role(i) /\ SuperblockOf(i).devices = MaxDevices(i)
        /\ ~HasParent(i) => SuperblockOf(i).array = i
        /\ HasParent(i) => /\ SuperblockOf(i).array = sb[Parent(i)].array
                           /\ SuperblockOf(i).size = sb[Parent(i)].size
    BY <1>g, <2>3, MadeType
  <2>5. Role(i) \in 0..(TwoTo16 - 1)
    BY <2>3, RoleType
  <2>6. /\ sb'[i] = SuperblockOf(i) /\ file'[i] = FileOf(i, MaxDevices(i))
        /\ \A j \in Members : j # i => sb'[j] = sb[j] /\ file'[j] = file[j]
    BY <1>g DEF TypeInv, TypeOK
  <2>7. /\ lastRole' \in [Members -> 0..(TwoTo16 - 1)]
        /\ \A p \in Members :
              lastRole'[p] = IF AutoRole(i) /\ HasParent(i) /\ p = Parent(i)
                             THEN Role(i) ELSE lastRole[p]
    BY <1>g, <2>3, <2>5 DEF Counters, TypeInv, TypeOK
  <2>8. TypeInv'
    <3>1. TypeOK'
      BY <1>g, <2>1, <2>4, <2>7 DEF TypeInv, TypeOK, attributes
    <3> QED
      BY <1>g, <2>1, <3>1 DEF TypeInv, attributes
  <2>9. ParseInv' /\ SizeInv' /\ OrderInv'
    <3>1. ParseInv'
      BY <1>g, <2>1, <2>2 DEF ParseInv, attributes
    <3>2. SizeInv'
      BY <1>g, <2>1, <2>2 DEF SizeInv, attributes
    <3>3. OrderInv'
      BY <1>g, <2>1, <2>2, <2>3 DEF OrderInv
    <3> QED
      BY <3>1, <3>2, <3>3
  <2>10. ArrayInv'
    <3>1. ASSUME NEW j \in seen'
          PROVE  /\ file'[j] = FileOf(j, sb'[j].devices)
                 /\ ~HasParent(j) => sb'[j].array = j
                 /\ HasParent(j) => /\ sb'[j].array = sb'[Parent(j)].array
                                    /\ sb'[j].devices = sb'[Parent(j)].devices
                                    /\ sb'[j].size = sb'[Parent(j)].size
      <4>1. CASE j = i
        <5>1. HasParent(i) => Parent(i) # i /\ MaxDevices(i) = sb[Parent(i)].devices
          BY <2>3 DEF MaxDevices
        <5> QED
          BY <2>3, <2>4, <2>6, <4>1, <5>1
      <4>2. CASE j # i
        <5>1. j \in seen /\ j \in Members
          BY <1>g, <4>2 DEF TypeInv, TypeOK
        <5>2. HasParent(j) => Parent(j) \in seen /\ Parent(j) # i /\ Parent(j) \in Members
          BY <2>1, <2>2, <2>3, <5>1 DEF OrderInv
        <5> QED
          BY <2>1, <2>6, <4>2, <5>1, <5>2 DEF ArrayInv
      <4> QED
        BY <4>1, <4>2
    <3>2. seen' \subseteq Members
      BY <1>g DEF TypeInv, TypeOK
    <3> QED
      BY <2>1, <2>2, <3>1, <3>2 DEF ArrayInv
  <2>11. RoleInv'
    <3> SUFFICES ASSUME NEW p \in Members, ~HasParent(p)
                 PROVE  /\ lastRole'[p] <= RoleMax
                        /\ p \in seen' /\ AutoRole(p) => sb'[p].role = 0
                        /\ \A j \in seen' \cap Children(p) : AutoRole(j) =>
                              sb'[j].role \in 1..lastRole'[p]
                        /\ \A j, k \in seen' \cap Children(p) :
                              AutoRole(j) /\ AutoRole(k) /\ j # k => sb'[j].role # sb'[k].role
      <4>1. \A p \in Members : Children(p)' = Children(p) /\ Children(p) \subseteq Members
        BY <2>1, <2>2 DEF Children
      <4> QED
        BY <2>1, <2>2, <4>1 DEF RoleInv
    <3>1. /\ lastRole[p] \in Nat /\ lastRole[p] <= RoleMax
          /\ p \in seen /\ AutoRole(p) => sb[p].role = 0
          /\ \A j \in seen \cap Children(p) : AutoRole(j) => sb[j].role \in 1..lastRole[p]
          /\ \A j, k \in seen \cap Children(p) :
                AutoRole(j) /\ AutoRole(k) /\ j # k => sb[j].role # sb[k].role
      BY <2>1, FieldTypes DEF RoleInv
    <3>2. p \in seen' /\ AutoRole(p) => sb'[p].role = 0
      <4>1. p = i /\ AutoRole(p) => Role(i) = 0
        BY DEF Role
      <4> QED
        BY <1>g, <2>4, <2>6, <3>1, <4>1
    <3>3. CASE AutoRole(i) /\ HasParent(i) /\ p = Parent(i)
      <4>1. lastRole'[p] = lastRole[p] + 1 /\ sb'[i].role = lastRole[p] + 1
        <5>1. Role(i) = (lastRole[p] + 1) % TwoTo16
          BY <3>3 DEF Role
        <5>2. (lastRole[p] + 1) % TwoTo16 = lastRole[p] + 1
          BY <3>1 DEF TwoTo16, RoleMax
        <5> QED
          BY <2>4, <2>6, <2>7, <3>3, <5>1, <5>2
      <4>2. lastRole'[p] <= RoleMax
        BY <1>g, <2>7, <3>3 DEF RoleAllowed
      <4>3. \A j \in Children(p) : j \in seen' /\ j # i => j \in seen /\ sb'[j] = sb[j]
        BY <1>g, <2>6 DEF Children
      <4>4. ASSUME NEW j \in seen' \cap Children(p), AutoRole(j)
            PROVE  /\ j # i => sb'[j].role \in 1..lastRole[p]
                   /\ sb'[j].role \in 1..lastRole'[p]
        BY <3>1, <4>1, <4>3, <4>4
      <4>5. ASSUME NEW j \in seen' \cap Children(p), NEW k \in seen' \cap Children(p),
                   AutoRole(j), AutoRole(k), j # k
            PROVE  sb'[j].role # sb'[k].role
        <5>1. CASE j # i /\ k # i
          BY <3>1, <4>3, <4>5, <5>1
        <5>2. CASE j = i \/ k = i
          BY <3>1, <4>1, <4>4, <4>5, <5>2
        <5> QED
          BY <5>1, <5>2
      <4> QED
        BY <3>2, <4>2, <4>4, <4>5
    <3>4. CASE ~(AutoRole(i) /\ HasParent(i) /\ p = Parent(i))
      <4>1. lastRole'[p] = lastRole[p]
        BY <2>7, <3>4
      <4>2. \A j \in seen' \cap Children(p) : AutoRole(j) => j \in seen /\ sb'[j] = sb[j]
        <5>1. ASSUME NEW j \in seen' \cap Children(p), AutoRole(j) PROVE j # i
          <6>1. Parent(j) = p /\ p # 0
            BY MemberType DEF Children
          <6> QED
            BY <3>4, <5>1, <6>1 DEF HasParent
        <5> QED
          BY <1>g, <2>6, <5>1 DEF Children
      <4> QED
        BY <3>1, <3>2, <4>1, <4>2
    <3> QED
      BY <3>3, <3>4
  <2> QED
    BY <2>8, <2>9, <2>10, <2>11
<1> QED
  BY <1>g DEF Generate, Stop, FileOf, DataEnd

-----------------------------------------------------------------------------
(* A phase begins with what the one before it has left; a run that failed   *)
(* promises nothing.                                                        *)
LEMMA PhaseStep ==
    ASSUME IInv, ParseDone \/ SetupDone \/ GenerateDone
    PROVE  IInv'
<1> USE DEF IInv
<1>1. /\ seen = Members /\ seen' = {} /\ Members' = Members
      /\ UNCHANGED <<conf, ret, attributes, lastRole, sb, file>>
      /\ \/ pc = "parse" /\ pc' = "setup"
         \/ pc = "setup" /\ pc' = "generate"
         \/ pc = "generate" /\ pc' = "end"
  BY DEF ParseDone, SetupDone, GenerateDone, NextPhase, Members
<1>2. Parsed' = Parsed /\ IsSetUp' = IsSetUp /\ Made' = Made
  <2>1. CASE pc = "parse" /\ pc' = "setup"
    BY <1>1, <2>1 DEF Parsed, IsSetUp, Made, Through
  <2>2. CASE pc = "setup" /\ pc' = "generate"
    BY <1>1, <2>2 DEF Parsed, IsSetUp, Made, Through
  <2>3. CASE pc = "generate" /\ pc' = "end"
    BY <1>1, <2>3 DEF Parsed, IsSetUp, Made, Through
  <2> QED
    BY <1>1, <2>1, <2>2, <2>3
<1>3. TypeInv'
  BY <1>1 DEF TypeInv, TypeOK, attributes
<1>4. /\ \A j : /\ DataOf(j)' = DataOf(j) /\ HasParent(j)' = HasParent(j)
                 /\ Parent(j)' = Parent(j) /\ Child(j)' = Child(j)
                 /\ MemberSize(j)' = MemberSize(j) /\ AutoRole(j)' = AutoRole(j)
                 /\ \A d : FileOf(j, d)' = FileOf(j, d)
      /\ \A p : Children(p)' = Children(p)
  BY <1>1 DEF DataOf, HasParent, Parent, Child, Chained, MemberSize, DataSize, AutoRole,
     FileOf, DataEnd, Children, attributes
<1>5. ParseInv' /\ SizeInv'
  BY <1>1, <1>2, <1>4 DEF ParseInv, SizeInv, attributes
<1>6. OrderInv' /\ ArrayInv'
  BY <1>1, <1>2, <1>4 DEF OrderInv, ArrayInv
<1>7. RoleInv'
  BY <1>1, <1>2, <1>4 DEF RoleInv
<1> QED
  BY <1>3, <1>5, <1>6, <1>7

(* As long as the run has not failed, the members are on their way to one   *)
(* array.                                                                   *)
Inv == ret = "ok" => IInv

LEMMA InitHolds == Init => Inv
<1> SUFFICES ASSUME Init PROVE IInv
  BY DEF Inv
<1>1. /\ conf \in Conf /\ conf.members \in Seq(Member) /\ Len(conf.images) \in Nat
      /\ conf \in Configs
  BY ConfigsType DEF Init, Conf
<1>2. \A i \in Members : conf.members[i].size \in Nat
  <2>1. \A i \in Members : conf.members[i] \in Member
    BY <1>1 DEF Members
  <2>2. \A m \in Member : m.size \in Nat
    BY DEF Member
  <2> QED
    BY <2>1, <2>2
<1>3. TypeInv
  BY <1>1, <1>2 DEF Init, TypeInv, TypeOK, Superblock, Blank, TwoTo16
<1>4. Parsed = {} /\ IsSetUp = {} /\ Made = {}
  BY DEF Init, Parsed, IsSetUp, Made, Through
<1> QED
  BY <1>3, <1>4 DEF IInv, ParseInv, SizeInv, OrderInv, ArrayInv, RoleInv, Init, RoleMax

LEMMA NextHolds == Inv /\ [Next]_vars => Inv'
<1> SUFFICES ASSUME Inv, [Next]_vars, ret' = "ok" PROVE IInv'
  BY DEF Inv
<1>1. CASE UNCHANGED vars
  BY <1>1 DEF Inv, IInv, TypeInv, TypeOK, ParseInv, SizeInv, OrderInv, ArrayInv, RoleInv,
     vars, attributes, Members, Parsed, IsSetUp, Made, Through, DataOf, HasParent, Parent,
     Child, Chained, MemberSize, DataSize, AutoRole, FileOf, DataEnd, Children
<1>2. ASSUME NEW i \in Members, Parse(i) PROVE IInv'
  BY <1>2, ParseStep DEF Inv, Parse, Stop
<1>3. ASSUME NEW i \in Members, Setup(i) PROVE IInv'
  BY <1>3, SetupStep DEF Inv, Setup, Stop
<1>4. ASSUME NEW i \in Members, Generate(i) PROVE IInv'
  BY <1>4, GenerateStep DEF Inv, Generate, Stop
<1>5. ASSUME ParseDone \/ SetupDone \/ GenerateDone PROVE IInv'
  BY <1>5, PhaseStep DEF Inv, ParseDone, SetupDone, GenerateDone, NextPhase
<1>6. ~Recursion /\ ~WriteFails
  BY DEF Recursion, WriteFails, Stop
<1> QED
  BY <1>1, <1>2, <1>3, <1>4, <1>5, <1>6 DEF Next

-----------------------------------------------------------------------------
(* A member that inherits shows the array of its parent: identity, number   *)
(* of devices and size of the superblock, the data and a file of the same   *)
(* length, for any list of members and any order of the walks in which      *)
(* parents come first (mdraid_parse, mdraid_setup, mdraid_generate).        *)
THEOREM MembersAgreeHolds == Spec => []MembersAgree
<1>1. ASSUME Inv PROVE MembersAgree
  <2> SUFFICES ASSUME Done, NEW i \in Members, HasParent(i), ~Chained(i)
               PROVE  /\ sb[i].array = Parent(i) /\ sb[i].size = sb[Parent(i)].size
                      /\ sb[i].devices = sb[Parent(i)].devices
                      /\ data[i] = data[Parent(i)] /\ file[i] = file[Parent(i)]
    BY DEF MembersAgree
  <2>1. IInv /\ Parsed = Members /\ IsSetUp = Members /\ Made = Members
    BY <1>1 DEF Inv, Done, Parsed, IsSetUp, Made, Through
  <2>2. Parent(i) \in Members /\ ~HasParent(Parent(i))
    BY <2>1 DEF IInv, ParseInv, Chained
  <2>3. data[i] = data[Parent(i)]
    BY <2>1, <2>2 DEF IInv, ParseInv, DataOf
  <2>4. size[i] = size[Parent(i)]
    BY <2>1, <2>2 DEF IInv, SizeInv, Child
  <2>5. /\ sb[i].array = Parent(i) /\ sb[i].size = sb[Parent(i)].size
        /\ sb[i].devices = sb[Parent(i)].devices
        /\ file[i] = FileOf(i, sb[i].devices)
        /\ file[Parent(i)] = FileOf(Parent(i), sb[Parent(i)].devices)
    BY <2>1, <2>2 DEF IInv, ArrayInv
  <2>6. file[i] = file[Parent(i)]
    BY <2>3, <2>4, <2>5 DEF FileOf, DataEnd
  <2> QED
    BY <2>3, <2>5, <2>6
<1> QED
  BY <1>1, InitHolds, NextHolds, PTL DEF Spec

(* The automatic roles of an array are all different, its counter cannot    *)
(* come around (mdraid_generate, MD_DISK_ROLE_MAX).                         *)
THEOREM AutoRolesDistinctHolds == Spec => []AutoRolesDistinct
<1>1. ASSUME Inv PROVE AutoRolesDistinct
  <2> SUFFICES ASSUME Done, NEW p \in Members, ~HasParent(p),
                      NEW i \in Children(p) \cup {p}, NEW j \in Children(p) \cup {p},
                      AutoRole(i), AutoRole(j), i # j
               PROVE  sb[i].role # sb[j].role
    BY DEF AutoRolesDistinct
  <2>1. IInv /\ Made = Members
    BY <1>1 DEF Inv, Done, Made, Through
  <2>2. /\ AutoRole(p) => sb[p].role = 0
        /\ \A k \in Children(p) : AutoRole(k) => sb[k].role \in 1..lastRole[p]
        /\ \A k, l \in Children(p) : AutoRole(k) /\ AutoRole(l) /\ k # l =>
              sb[k].role # sb[l].role
        /\ lastRole[p] \in Nat
    BY <2>1, FieldTypes DEF IInv, RoleInv, Children
  <2> QED
    BY <2>2
<1> QED
  BY <1>1, InitHolds, NextHolds, PTL DEF Spec
-----------------------------------------------------------------------------
(* A member that is set up is a multiple of the alignment and has room for  *)
(* its data; the superblock has the sectors behind the data offset.         *)

\* The data is not larger than it was said to be.
SizesKept ==
    \A c \in Configs : \A n \in DOMAIN c.images :
        c.images[n].setup > 0 => c.images[n].done <= c.images[n].setup

FitInv ==
    /\ \A i \in IsSetUp :
          /\ size[i] = RoundUp(size[i])
          /\ data[i] # 0 => DataSize(i) + DataOffset <= size[i]
    /\ \A i \in Made : ~HasParent(i) =>
          /\ DataOffset <= size[i]
          /\ sb[i].size = (size[i] - DataOffset) \div 512

LEMMA FitStep == ASSUME IInv, FitInv, [Next]_vars, ret' = "ok" PROVE FitInv'
<1> USE DEF IInv
<1>1. ASSUME Members' = Members, IsSetUp' = IsSetUp, Made' = Made,
             UNCHANGED <<conf, size, data, sb>>
      PROVE  FitInv'
  BY <1>1 DEF FitInv, DataSize, HasParent, Parent
<1>2. CASE UNCHANGED vars
  BY <1>1, <1>2 DEF vars, attributes, Members, IsSetUp, Made, Through
<1>3. ASSUME NEW i \in Members, Parse(i) PROVE FitInv'
  <2>1. pc = "parse" /\ pc' = "parse" /\ conf' = conf
    BY <1>3 DEF Parse, Stop
  <2>2. IsSetUp' = {} /\ Made' = {}
    BY <2>1 DEF IsSetUp, Made, Through
  <2> QED
    BY <2>2 DEF FitInv
<1>4. ASSUME NEW i \in Members, Setup(i) PROVE FitInv'
  <2>1. /\ pc = "setup" /\ FitsData(i) /\ MemberSize(i) = RoundUp(MemberSize(i))
        /\ size' = [size EXCEPT ![i] = MemberSize(i)]
        /\ seen' = seen \cup {i} /\ UNCHANGED <<conf, pc, data, sb>>
    BY <1>4 DEF Setup, Stop
  <2>2. Made' = {} /\ IsSetUp = seen /\ IsSetUp' = seen' /\ seen \subseteq Members
    BY <2>1 DEF IsSetUp, Made, Through, TypeInv, TypeOK
  <2>3. ASSUME NEW j \in seen'
        PROVE  /\ size'[j] = RoundUp(size'[j])
               /\ data'[j] # 0 => DataSize(j)' + DataOffset <= size'[j]
    <3>1. DataSize(j)' = DataSize(j)
      BY <2>1 DEF DataSize
    <3>2. CASE j = i
      <4>1. size'[i] = MemberSize(i)
        BY <2>1 DEF TypeInv, TypeOK
      <4>2. data[i] # 0 => DataSize(i) + DataOffset <= MemberSize(i)
        BY <2>1 DEF FitsData
      <4> QED
        BY <2>1, <3>1, <3>2, <4>1, <4>2
    <3>3. CASE j # i
      <4>1. j \in seen /\ j \in Members
        BY <2>1, <2>2, <3>3
      <4>2. size'[j] = size[j]
        BY <2>1, <3>3, <4>1 DEF TypeInv, TypeOK
      <4> QED
        BY <2>1, <2>2, <3>1, <4>1, <4>2 DEF FitInv
    <3> QED
      BY <3>2, <3>3
  <2> QED
    BY <2>2, <2>3 DEF FitInv
<1>5. ASSUME NEW i \in Members, Generate(i) PROVE FitInv'
  <2>1. /\ pc = "generate" /\ ~Wraps(i) /\ sb' = [sb EXCEPT ![i] = SuperblockOf(i)]
        /\ seen' = seen \cup {i} /\ UNCHANGED <<conf, pc, size, data>>
    BY <1>5 DEF Generate, Stop, attributes
  <2>2. /\ Made = seen /\ Made' = seen' /\ IsSetUp = Members /\ IsSetUp' = Members
        /\ Members' = Members /\ seen \subseteq Members
    BY <2>1 DEF IsSetUp, Made, Through, Members, TypeInv, TypeOK
  <2>3. \A j : HasParent(j)' = HasParent(j) /\ DataSize(j)' = DataSize(j)
    BY <2>1 DEF HasParent, Parent, DataSize
  <2>4. ASSUME NEW j \in seen', ~HasParent(j)
        PROVE  DataOffset <= size[j] /\ sb'[j].size = (size[j] - DataOffset) \div 512
    <3>1. CASE j = i
      <4>1. sb'[i] = [NewArray(i) EXCEPT !.role = Role(i)]
        BY <2>1, <2>4, <3>1 DEF SuperblockOf, TypeInv, TypeOK
      <4>2. sb'[i].size = (size[i] - DataOffset) \div 512
        BY <4>1 DEF NewArray
      <4>3. size[i] \in Nat
        BY FieldTypes
      <4> QED
        BY <2>1, <2>4, <3>1, <4>2, <4>3 DEF Wraps, DataOffset
    <3>2. CASE j # i
      <4>1. j \in seen /\ sb'[j] = sb[j]
        BY <2>1, <2>2, <3>2 DEF TypeInv, TypeOK
      <4> QED
        BY <2>2, <2>4, <4>1 DEF FitInv
    <3> QED
      BY <3>1, <3>2
  <2> QED
    BY <2>1, <2>2, <2>3, <2>4 DEF FitInv
<1>6. CASE ParseDone \/ SetupDone \/ GenerateDone
  <2>1. /\ seen = Members /\ seen' = {} /\ Members' = Members /\ UNCHANGED <<conf, size, data, sb>>
        /\ \/ pc = "parse" /\ pc' = "setup"
           \/ pc = "setup" /\ pc' = "generate"
           \/ pc = "generate" /\ pc' = "end"
    BY <1>6 DEF ParseDone, SetupDone, GenerateDone, NextPhase, Members, attributes
  <2>2. IsSetUp' = IsSetUp /\ Made' = Made
    <3>1. CASE pc = "parse" /\ pc' = "setup"
      BY <2>1, <3>1 DEF IsSetUp, Made, Through
    <3>2. CASE pc = "setup" /\ pc' = "generate"
      BY <2>1, <3>2 DEF IsSetUp, Made, Through
    <3>3. CASE pc = "generate" /\ pc' = "end"
      BY <2>1, <3>3 DEF IsSetUp, Made, Through
    <3> QED
      BY <2>1, <3>1, <3>2, <3>3
  <2> QED
    BY <1>1, <2>1, <2>2
<1>7. ~Recursion /\ ~WriteFails
  BY DEF Recursion, WriteFails, Stop
<1> QED
  BY <1>2, <1>3, <1>4, <1>5, <1>6, <1>7 DEF Next

(* Whole sectors behind the data offset end where the member ends.          *)
LEMMA SectorsAreAll ==
    ASSUME NEW s \in Nat, s = RoundUp(s), DataOffset <= s
    PROVE  DataOffset + ((s - DataOffset) \div 512) * 512 = s
<1>1. PICK q \in Nat : q = (s + MemberAlign - 1) \div MemberAlign
  BY DEF MemberAlign
<1>2. s = q * 4096
  BY <1>1 DEF RoundUp, MemberAlign
<1>3. s - DataOffset = (8 * q - 2048) * 512
  BY <1>2 DEF DataOffset
<1>4. (s - DataOffset) \div 512 = 8 * q - 2048
  BY <1>3
<1> QED
  BY <1>2, <1>4 DEF DataOffset

(* The data of a member that has been built lies within its array, and the  *)
(* array within its file (mdraid_setup, mdraid_generate), if images do not  *)
(* get larger than they were at setup.                                      *)
THEOREM DataInArrayHolds ==
    ASSUME SizesKept
    PROVE  Spec => []DataInArray
<1> DEFINE FInv == ret = "ok" => IInv /\ FitInv
<1>1. Init => FInv
  <2> SUFFICES ASSUME Init PROVE FitInv
    BY InitHolds DEF Inv
  <2>1. IsSetUp = {} /\ Made = {}
    BY DEF Init, IsSetUp, Made, Through
  <2> QED
    BY <2>1 DEF FitInv
<1>2. FInv /\ [Next]_vars => FInv'
  <2> SUFFICES ASSUME FInv, [Next]_vars, ret' = "ok" PROVE (IInv /\ FitInv)'
    OBVIOUS
  <2>1. ret = "ok"
    BY DEF Next, Parse, Setup, Generate, ParseDone, SetupDone, GenerateDone, NextPhase,
       Recursion, WriteFails, Stop, vars
  <2>2. IInv'
    BY <2>1, NextHolds DEF Inv
  <2>3. FitInv'
    BY <2>1, FitStep
  <2> QED
    BY <2>2, <2>3
<1>3. FInv => DataInArray
  <2> SUFFICES ASSUME FInv, Done, NEW i \in Members, ~Chained(i), data[i] # 0,
                      conf.images[data[i]].setup > 0
               PROVE  /\ file[i].dataEnd <= DataOffset + sb[i].size * 512
                      /\ DataOffset + sb[i].size * 512 <= file[i].length
    BY DEF DataInArray
  <2>1. IInv /\ FitInv /\ TypeInv /\ IsSetUp = Members /\ Made = Members /\ Parsed = Members
    BY DEF Done, IInv, IsSetUp, Made, Parsed, Through
  <2>2. PICK p \in Members : /\ ~HasParent(p) /\ size[p] = size[i] /\ sb[p].size = sb[i].size
    <3>1. CASE ~HasParent(i)
      BY <3>1
    <3>2. CASE HasParent(i)
      <4>1. Parent(i) \in Members /\ ~HasParent(Parent(i)) /\ Child(i)
        BY <2>1, <3>2 DEF IInv, ParseInv, Chained, Child
      <4>2. size[Parent(i)] = size[i]
        BY <2>1, <4>1 DEF IInv, SizeInv
      <4>3. sb[Parent(i)].size = sb[i].size
        BY <2>1, <3>2 DEF IInv, ArrayInv
      <4> QED
        BY <4>1, <4>2, <4>3
    <3> QED
      BY <3>1, <3>2
  <2>3. PICK s \in Nat : s = size[i]
    BY <2>1, FieldTypes
  <2>4. /\ s = RoundUp(s) /\ DataSize(i) + DataOffset <= s
        /\ DataOffset <= s /\ sb[i].size = (s - DataOffset) \div 512
    BY <2>1, <2>2, <2>3 DEF FitInv
  <2>5. DataOffset + sb[i].size * 512 = s
    BY <2>4, SectorsAreAll
  <2>6. PICK d \in Nat : d = conf.images[data[i]].done /\ d <= DataSize(i)
    <3>1. data[i] \in DOMAIN conf.images /\ conf \in Configs
      <4>1. conf.images \in Seq([setup : Nat, done : Nat])
        BY <2>1 DEF TypeInv, TypeOK, Conf
      <4>2. data[i] \in Nat /\ data[i] <= Len(conf.images)
        BY <2>1, FieldTypes
      <4> QED
        BY <2>1, <4>1, <4>2 DEF TypeInv
    <3>2. conf.images[data[i]].done \in Nat
      BY <2>1, ImageType
    <3> QED
      BY <3>1, <3>2 DEF SizesKept, DataSize
  <2>7. file[i] = FileOf(i, sb[i].devices) /\ sb[i].devices \in Nat
    BY <2>1, FieldTypes DEF IInv, ArrayInv
  <2>8. file[i].dataEnd = DataOffset + d
    BY <2>6, <2>7 DEF FileOf, DataEnd
  <2>9. DataSize(i) \in Nat
    BY <2>1, ImageType DEF DataSize
  <2>10. s <= file[i].length
    <3>1. PICK b \in Nat : b = MaxOf(SuperEnd(sb[i].devices), BitmapEnd)
      BY <2>7 DEF MaxOf, SuperEnd, SuperOffset, BitmapEnd, BitmapOffset
    <3>2. file[i].length = MaxOf(MaxOf(s, DataOffset + d), b)
      BY <2>3, <2>6, <2>7, <3>1 DEF FileOf, DataEnd
    <3> QED
      BY <3>1, <3>2 DEF MaxOf, DataOffset
  <2> QED
    BY <2>4, <2>5, <2>6, <2>8, <2>9, <2>10 DEF DataOffset
<1> QED
  BY <1>1, <1>2, <1>3, PTL DEF Spec
=============================================================================
