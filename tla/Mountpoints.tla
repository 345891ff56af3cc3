---------------------------- MODULE Mountpoints -----------------------------
(***************************************************************************)
(* collect_mountpoints() and mountpath() of genimage.c: the tree under     *)
(* rootpath is copied to tmppath, the directories that images mention as   *)
(* mount points are moved out of the copy, and empty ones put in their     *)
(* place.  Only directories are modelled, each with the directory of       *)
(* rootpath that its files, and its owner and mode, came from; those of    *)
(* rootpath have files, those that are created have none.                  *)
(*                                                                         *)
(* A name is a sequence of words that a '-' joins, a path a sequence of    *)
(* names that a '/' joins: <<<<"a", "b">>>> is "a-b", <<<<"a">>, <<"b">>>> *)
(* is "a/b", and <<<<"a">>, <<"">>>> is "a/".                              *)
(***************************************************************************)
EXTENDS Integers, SequencesExt

CONSTANTS
    Words,          \* what names are made of
    Configs         \* the configurations to consider

ASSUME WordsType == {"root", "mp"} \subseteq Words

Name == Seq(Words)
Path == Seq(Name)

(* rootpath, and the images in list order: the mount point as configured,   *)
(* <<>> if it is none or "/"; whether srcpath is given; whether the handler *)
(* wants a root tree and the image is not `empty'.                          *)
Conf == [tree : SUBSET Path,
         images : Seq([mountpoint : Path, srcpath : BOOLEAN, filled : BOOLEAN])]

ASSUME ConfigsType == Configs \subseteq Conf

\* What is in a directory tree, is in a directory of it.
ASSUME TreesClosed ==
    \A c \in Configs : \A t \in c.tree : t # <<>> => Front(t) \in c.tree

VARIABLES
    conf,
    pc,             \* "start", "copy", "list", "move", "mkdir", "attributes", "end"
    ret,            \* "ok" or "failed"
    mountpoints,    \* the list of mount points
    m,              \* loop cursor
    fs              \* the directories below tmppath

vars == <<conf, pc, ret, mountpoints, m, fs>>

\* A directory, and where its files and its owner and mode came from: from
\* one of rootpath, or from none if it was created.
Directory == [path : Path, files : SUBSET Path, owner : SUBSET Path]

TypeOK ==
    /\ conf \in Conf
    /\ pc \in {"start", "copy", "list", "move", "mkdir", "attributes", "end"}
    /\ ret \in {"ok", "failed"}
    /\ mountpoints \in Seq(Path)
    /\ m \in Nat \ {0}
    /\ fs \subseteq Directory
    /\ \A d \in fs : Len(d.path) > 1 => \E x \in fs : x.path = Front(d.path)
    /\ \A d, x \in fs : d.path = x.path => d = x

Init ==
    /\ conf \in Configs
    /\ pc = "start"
    /\ ret = "ok"
    /\ mountpoints = <<>>
    /\ m = 1
    /\ fs = {}

\* Any of the commands may fail.
Fail ==
    /\ ret' = "failed"
    /\ pc' = "end"
    /\ UNCHANGED <<conf, mountpoints, m, fs>>

-----------------------------------------------------------------------------
Root == <<<<"root">>>>

\* The directory that a path names: empty names count for nothing.
Named(p) == FlattenSeq([k \in DOMAIN p |-> IF p[k] = <<"">> THEN <<>> ELSE <<p[k]>>])
InRoot(p) == Root \o Named(p)

\* Mutant: the last name only.
LastSanitized(p) == Last(p)

\* sanitize_path(): each '/' becomes a '-'.
Sanitized(p) == FlattenSeq(p)

Mountpath(p) == IF p = <<>> THEN Root ELSE <<<<"mp">> \o Sanitized(p)>>

Exists(p) == \E d \in fs : d.path = p
Below(p) == {d \in fs : IsPrefix(p, d.path)}

UsesRoot(i) == conf.images[i].filled /\ ~conf.images[i].srcpath

NeedRoot ==
    /\ pc = "start"
    /\ pc' = IF \E i \in DOMAIN conf.images : UsesRoot(i) THEN "copy" ELSE "end"
    /\ UNCHANGED <<conf, ret, mountpoints, m, fs>>

CopyRoot ==
    /\ pc = "copy"
    /\ \/ /\ fs' = {[path |-> Root \o p, files |-> {p}, owner |-> {p}] : p \in conf.tree}
          /\ mountpoints' = <<<<>>>>
          /\ pc' = "list"
          /\ UNCHANGED <<conf, ret, m>>
       \/ Fail

\* add_mountpoint()
AddMountpoint ==
    /\ pc = "list" /\ m \in DOMAIN conf.images
    /\ LET p == conf.images[m].mountpoint
       IN  mountpoints' = IF p \in ToSet(mountpoints) THEN mountpoints
                          ELSE Append(mountpoints, p)
    /\ m' = m + 1
    /\ UNCHANGED <<conf, pc, ret, fs>>

\* The loop over the mount points skips the root.
ListDone ==
    /\ pc = "list" /\ m \notin DOMAIN conf.images
    /\ pc' = "move"
    /\ m' = 2
    /\ UNCHANGED <<conf, ret, mountpoints, fs>>

Current == mountpoints[m]

\* mv moves into its target if that is there; an empty directory of that
\* name makes way.
Target ==
    IF Exists(Mountpath(Current)) THEN Append(Mountpath(Current), Last(InRoot(Current)))
    ELSE Mountpath(Current)
CanMove ==
    /\ Exists(InRoot(Current))
    /\ \A d \in Below(Target) : d.path = Target /\ d.files = {}

\* Mutants: what is below stays where it is; everything does.
AtOnly(p) == {d \in fs : d.path = p}
Copied(p, q) ==
    fs \cup {[d EXCEPT !.path = q \o SubSeq(@, Len(p) + 1, Len(@))] : d \in Below(p)}
MovedAlone(p, q) ==
    (fs \ (AtOnly(p) \cup Below(q))) \cup {[d EXCEPT !.path = q] : d \in AtOnly(p)}
Moved(p, q) ==
    (fs \ (Below(p) \cup Below(q)))
      \cup {[d EXCEPT !.path = q \o SubSeq(@, Len(p) + 1, Len(@))] : d \in Below(p)}

Move ==
    /\ pc = "move" /\ m <= Len(mountpoints)
    /\ \/ /\ CanMove
          /\ fs' = Moved(InRoot(Current), Target)
          /\ pc' = "mkdir"
          /\ UNCHANGED <<conf, ret, mountpoints, m>>
       \/ Fail

MakeDir ==
    /\ pc = "mkdir"
    /\ \/ /\ ~Exists(InRoot(Current)) /\ Exists(Front(InRoot(Current)))
          /\ fs' = fs \cup {[path |-> InRoot(Current), files |-> {}, owner |-> {}]}
          /\ pc' = "attributes"
          /\ UNCHANGED <<conf, ret, mountpoints, m>>
       \/ Fail

\* Mutant: the owner and mode of the directory above.
ReferenceAbove == Front(InRoot(Current))
Reference == Mountpath(Current)

\* chmod and chown
Attributes ==
    /\ pc = "attributes"
    /\ \/ /\ \E d \in fs :
                /\ d.path = Reference
                /\ fs' = {[x EXCEPT !.owner = IF x.path = InRoot(Current) THEN d.owner
                                              ELSE @] : x \in fs}
          /\ m' = m + 1
          /\ pc' = "move"
          /\ UNCHANGED <<conf, ret, mountpoints>>
       \/ Fail

MoveDone ==
    /\ pc = "move" /\ m > Len(mountpoints)
    /\ \/ /\ pc' = "end"
          /\ UNCHANGED <<conf, ret, mountpoints, m, fs>>
       \/ Fail

Next ==
    \/ NeedRoot \/ CopyRoot \/ AddMountpoint \/ ListDone
    \/ Move \/ MakeDir \/ Attributes \/ MoveDone

Spec == Init /\ [][Next]_vars

-----------------------------------------------------------------------------
(* Properties *)

Done == pc = "end" /\ ret = "ok"
Mounted == {Named(p) : p \in ToSet(mountpoints)}

Given == {<<>>} \cup {conf.images[i].mountpoint : i \in DOMAIN conf.images}

\* No two mount points share a directory: not below tmppath, like "a/b" and
\* "a-b", nor below rootpath, like "a" and "a/".
Apart ==
    \A p, q \in Given :
        (p # <<>> /\ q # <<>> /\ FlattenSeq(p) = FlattenSeq(q)) \/ Named(p) = Named(q) => p = q

\* What an image with this mount point shall be filled with: the directories
\* of rootpath from there on, with empty ones for the mount points below.
Content(p) ==
    {[path |-> q, files |-> IF q \in Mounted \ {p} THEN {} ELSE {q}] :
        q \in {t \in conf.tree : IsPrefix(p, t) /\
                  ~\E x \in Mounted : IsStrictPrefix(p, x) /\ IsStrictPrefix(x, t)}}
Found(p, at) ==
    {[path |-> p \o SubSeq(d.path, Len(at) + 1, Len(d.path)), files |-> d.files] :
        d \in Below(at)}

(* "The content of ${rootpath}${mountpoint} will be used to fill the        *)
(* filesystem": each image finds that directory, and all of it that no      *)
(* other mount point claims, in the place that mountpath() names, however   *)
(* mount points are nested.  Siblings may be moved in any order; the run is *)
(* only successful if nested ones are moved from the inside out, since mv   *)
(* does not find an inner one whose outer directory is gone.                *)
ItsTree ==
    Done /\ Apart => \A i \in DOMAIN conf.images :
        UsesRoot(i) =>
            LET p == conf.images[i].mountpoint
            IN  Found(Named(p), Mountpath(p)) = Content(Named(p))

(* The files of each directory are in one place at any time, also when a    *)
(* command fails in between or two mount points share a directory: moved,   *)
(* neither lost nor doubled.                                                *)
NothingLost ==
    mountpoints # <<>> =>
        \A t \in conf.tree : \E d \in fs : \A x \in fs : t \in x.files <=> x = d

(* What is left of the root tree looks as before: a directory that was      *)
(* moved out and created anew has its owner and mode.                       *)
OwnersKept ==
    Done /\ Apart => \A d \in Below(Root) : d.owner = {SubSeq(d.path, 2, Len(d.path))}
=============================================================================
