------------------------------- MODULE Mdraid -------------------------------
(***************************************************************************)
(* The mdraid handler (image-mdraid.c): the members of RAID1 arrays in one *)
(* run of genimage.  A member may have a parent, from which it inherits    *)
(* its size when it is parsed, and the superblock and a role when it is    *)
(* generated.  The walks of the driver call the handler in any order that  *)
(* lets parents come first (Genimage!DependenciesFirst): it depends on the *)
(* images of other types that have members as partitions.                  *)
(*                                                                         *)
(* Sizes are in bytes.  The random number of an array is named after the   *)
(* image it was drawn for.                                                 *)
(***************************************************************************)
EXTENDS Integers, Sequences, FiniteSets

CONSTANT Configs        \* the configurations to consider

DataOffset == 2048 * 512        \* DATA_OFFSET_BYTES
MemberAlign == 8 * 512          \* MDRAID_ALIGN_BYTES
SuperOffset == 8 * 512          \* sb->super_offset
BitmapOffset == SuperOffset + 8 * 512
RoleMax == 65280                \* MD_DISK_ROLE_MAX
TwoTo16 == 65536

(* A member: the place of its parent in the list, 0 without one; level,     *)
(* size, devices and role as configured, and the place of its data image    *)
(* in `images', 0 without one.  An image has a size when the members are    *)
(* set up, 0 if it is not known yet, and one when it is generated.          *)
Member == [parent : Nat, level : Nat, size : Nat, devices : Nat,
           role : Nat \cup {-1}, data : Nat]
Conf == [members : Seq(Member), images : Seq([setup : Nat, done : Nat])]

ASSUME ConfigsType == Configs \subseteq Conf
ASSUME DataAreImages ==
    \A c \in Configs : \A i \in DOMAIN c.members : c.members[i].data <= Len(c.images)

VARIABLES
    conf,
    pc,             \* "parse", "setup", "generate", "end"
    ret,            \* "ok", "failed" or "killed" (by SIGFPE)
    seen,           \* the members that the current step has been done for
    size,           \* image->size
    data,           \* md->img_data_part: a data image or 0
    lastRole,       \* md->last_role
    sb,             \* md->sb: the superblock
    file            \* the output file: its length, and the end of the data

attributes == <<size, data>>
vars == <<conf, pc, ret, seen, attributes, lastRole, sb, file>>

Members == DOMAIN conf.members
Superblock == [array : Nat, devices : Nat, size : Nat, role : Nat]
Blank == [array |-> 0, devices |-> 0, size |-> 0, role |-> 0]

TypeOK ==
    /\ conf \in Conf
    /\ pc \in {"parse", "setup", "generate", "end"}
    /\ ret \in {"ok", "failed", "killed"}
    /\ seen \subseteq Members
    /\ size \in [Members -> Nat]
    /\ data \in [Members -> Nat]
    /\ lastRole \in [Members -> 0..(TwoTo16 - 1)]
    /\ sb \in [Members -> Superblock]
    /\ file \in [Members -> [length : Nat, dataEnd : Nat]]

MaxOf(x, y) == IF x > y THEN x ELSE y
RoundUp(x) == ((x + MemberAlign - 1) \div MemberAlign) * MemberAlign

Init ==
    /\ conf \in Configs
    /\ pc = "parse"
    /\ ret = "ok"
    /\ seen = {}
    /\ size = [i \in Members |-> conf.members[i].size]
    /\ data = [i \in Members |-> 0]
    /\ lastRole = [i \in Members |-> 0]
    /\ sb = [i \in Members |-> Blank]
    /\ file = [i \in Members |-> [length |-> 0, dataEnd |-> 0]]

Stop(how) ==
    /\ ret' = how
    /\ pc' = "end"
    /\ UNCHANGED <<conf, seen, attributes, lastRole, sb, file>>

Parent(i) == conf.members[i].parent
HasParent(i) == Parent(i) # 0

-----------------------------------------------------------------------------
(* mdraid_parse(): in list order, so that a parent is only found behind its *)
(* children.  Members get the data image that their parent has in its own   *)
(* section.                                                                 *)

\* Mutant: a member has the data that is named in its own section.
OwnData(i) == conf.members[i].data
DataOf(i) == conf.members[IF HasParent(i) THEN Parent(i) ELSE i].data

InheritedSize(i) == IF HasParent(i) THEN size[Parent(i)] ELSE size[i]

Parse(i) ==
    /\ pc = "parse" /\ seen = 1..(i - 1)
    /\ \/ /\ conf.members[i].level = 1 /\ Parent(i) <= i
          /\ size' = [size EXCEPT ![i] = InheritedSize(i)]
          /\ data' = [data EXCEPT ![i] = DataOf(i)]
          /\ seen' = seen \cup {i}
          /\ UNCHANGED <<conf, pc, ret, lastRole, sb, file>>
       \/ /\ ~(conf.members[i].level = 1 /\ Parent(i) <= i)
          /\ Stop("failed")

\* The walks of the driver
NextPhase(from, to) ==
    /\ pc = from /\ seen = Members
    /\ pc' = to
    /\ seen' = {}
    /\ UNCHANGED <<conf, ret, attributes, lastRole, sb, file>>

ParseDone == NextPhase("parse", "setup")
SetupDone == NextPhase("setup", "generate")
GenerateDone == NextPhase("generate", "end")

Ready(i) == i \notin seen /\ (HasParent(i) => Parent(i) \in seen)

\* A member that is its own parent
Recursion ==
    /\ pc \in {"setup", "generate"}
    /\ seen # Members /\ ~\E i \in Members : Ready(i)
    /\ Stop("failed")

-----------------------------------------------------------------------------
(* mdraid_setup()                                                           *)

DataSize(i) == conf.images[data[i]].setup
MemberSize(i) == IF data[i] # 0 /\ size[i] = 0 THEN RoundUp(DataSize(i) + DataOffset)
                 ELSE size[i]

\* Mutant: there is more room than that in front of the data.
FitsWithout(i) == data[i] # 0 => DataSize(i) <= MemberSize(i)
FitsData(i) == data[i] # 0 => DataSize(i) + DataOffset <= MemberSize(i)

Setup(i) ==
    /\ pc = "setup" /\ Ready(i)
    /\ \/ /\ FitsData(i) /\ MemberSize(i) = RoundUp(MemberSize(i))
          /\ size' = [size EXCEPT ![i] = MemberSize(i)]
          /\ seen' = seen \cup {i}
          /\ UNCHANGED <<conf, pc, ret, data, lastRole, sb, file>>
       \/ /\ ~(FitsData(i) /\ MemberSize(i) = RoundUp(MemberSize(i)))
          /\ Stop("failed")

-----------------------------------------------------------------------------
(* mdraid_generate()                                                        *)

MaxDevices(i) == IF HasParent(i) THEN sb[Parent(i)].devices
                 ELSE conf.members[i].devices % TwoTo16
AutoRole(i) == conf.members[i].role = -1

\* Mutant: the counter of the parent is read and not moved.
RoleRead(i) ==
    IF ~AutoRole(i) THEN conf.members[i].role % TwoTo16
    ELSE IF HasParent(i) THEN 1 ELSE 0

Role(i) ==
    IF ~AutoRole(i) THEN conf.members[i].role % TwoTo16
    ELSE IF HasParent(i) THEN (lastRole[Parent(i)] + 1) % TwoTo16 ELSE 0

Counters(i) ==
    IF AutoRole(i) /\ HasParent(i) THEN [lastRole EXCEPT ![Parent(i)] = Role(i)]
    ELSE lastRole

RoleAllowed(i) == Role(i) <= RoleMax /\ Role(i) < MaxDevices(i)

(* The number of data sectors wraps around for an image that ends in front  *)
(* of its data.  The chunks of the bitmap are then doubled until their      *)
(* number of bytes has no bit left in 32, and divided by.                   *)
Wraps(i) == ~HasParent(i) /\ size[i] < DataOffset

NewArray(i) ==
    [array |-> i, devices |-> MaxDevices(i), size |-> (size[i] - DataOffset) \div 512,
     role |-> 0]
SuperblockOf(i) ==
    [(IF HasParent(i) THEN sb[Parent(i)] ELSE NewArray(i))
        EXCEPT !.role = Role(i)]

SuperEnd(devices) == SuperOffset + 256 + 2 * devices
BitmapEnd == BitmapOffset + 256

Generate(i) ==
    /\ pc = "generate" /\ Ready(i)
    /\ \/ /\ RoleAllowed(i) /\ ~Wraps(i)
          /\ lastRole' = Counters(i)
          /\ sb' = [sb EXCEPT ![i] = SuperblockOf(i)]
          /\ LET end == IF data[i] = 0 THEN 0 ELSE DataOffset + conf.images[data[i]].done
             IN file' = [file EXCEPT ![i] =
                  [dataEnd |-> end,
                   length |-> MaxOf(MaxOf(size[i], end),
                                    MaxOf(SuperEnd(MaxDevices(i)), BitmapEnd))]]
          /\ seen' = seen \cup {i}
          /\ UNCHANGED <<conf, pc, ret, attributes>>
       \/ ~RoleAllowed(i) /\ Stop("failed")
       \/ RoleAllowed(i) /\ Wraps(i) /\ Stop("killed")

\* A file cannot be written.
WriteFails == pc = "generate" /\ seen # Members /\ Stop("failed")

Next ==
    \/ \E i \in Members : Parse(i) \/ Setup(i) \/ Generate(i)
    \/ ParseDone \/ SetupDone \/ GenerateDone \/ Recursion \/ WriteFails

Spec == Init /\ [][Next]_vars

-----------------------------------------------------------------------------
(* Properties *)

Done == pc = "end" /\ ret = "ok"
\* Parents that have parents are beyond what README describes: their children
\* get no data, and roles from a counter of their own.
Chained(i) == HasParent(i) /\ HasParent(Parent(i))
Children(p) == {i \in Members : Parent(i) = p}

(* The images of a member and of those that inherit from it make one array: *)
(* the same identity, number of devices and size, files of the same length  *)
(* with the same data, whatever the sections of the children say, whenever  *)
(* sizes were known and in whatever order the walks got there.              *)
MembersAgree ==
    Done => \A i \in Members :
        HasParent(i) /\ ~Chained(i) =>
            LET p == Parent(i)
            IN /\ sb[i].array = p /\ sb[i].size = sb[p].size
               /\ sb[i].devices = sb[p].devices
               /\ data[i] = data[p]
               /\ file[i] = file[p]

(* "Default role number is 0 for the parent image and when other images     *)
(* inherit configuration from it, they are assigned roles from              *)
(* autoincrementing counter": no two of them have the same.                 *)
AutoRolesDistinct ==
    Done => \A p \in Members :
        ~HasParent(p) =>
            \A i, j \in {k \in Children(p) \cup {p} : AutoRole(k)} :
                i # j => sb[i].role # sb[j].role

(* The data lies within the sectors that the superblock gives the array,    *)
(* and these within the file, if the size of the data was known at setup.   *)
DataInArray ==
    Done => \A i \in Members :
        ~Chained(i) /\ data[i] # 0 /\ conf.images[data[i]].setup > 0 =>
            /\ file[i].dataEnd <= DataOffset + sb[i].size * 512
            /\ DataOffset + sb[i].size * 512 <= file[i].length
=============================================================================
