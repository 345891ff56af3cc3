------------------------------ MODULE Signing -------------------------------
(***************************************************************************)
(* Images that are signed: the verity, verity-sig and rauc handlers        *)
(* (image-verity.c, image-rauc.c), with the file handler (image-file.c)    *)
(* that finds the data, keys and certificates.  The handlers meet in files *)
(* below tmppath whose names are made from those of the images.            *)
(*                                                                         *)
(* A path is a sequence of names that a '/' joins, a name a sequence of    *)
(* strings that a '-' joins, as in Mountpoints.  Setup and generation go   *)
(* over the images in any order that has those of the partitions first.    *)
(***************************************************************************)
EXTENDS Integers, SequencesExt

CONSTANTS
    Uri,            \* the paths that begin with "pkcs11:"
    Configs         \* sets of image sections, and the implicit ones

(* A configuration has the images in list order and for each a section:     *)
(*   [kind |-> "file", name, copy]   a file section, or none (no copy)      *)
(*   [kind |-> "made"]               an image of another handler            *)
(*   [kind |-> "verity", image, long]  long: a root hash of 128 digits      *)
(*   [kind |-> "verity-sig", image, cert, key]                              *)
(*   [kind |-> "rauc", key, cert, keyring, intermediate, content, manifest] *)
(* keyring has at most one element; content the `file' sections and behind  *)
(* them `files', with an empty target; manifest is a sequence of lines.     *)
Path == Seq(Seq(STRING))
Content == [target : Path, image : Path, offset : Nat]
Section ==
    [kind : {"file"}, name : Path, copy : BOOLEAN]
      \cup [kind : {"made"}]
      \cup [kind : {"verity"}, image : Path, long : BOOLEAN]
      \cup [kind : {"verity-sig"}, image : Path, cert : Path, key : Path]
      \cup [kind : {"rauc"}, key : Path, cert : Path, keyring : Seq(Path),
            intermediate : Seq(Path), content : Seq(Content), manifest : Seq(STRING)]

ASSUME ConfigsType ==
    \A c \in Configs :
        /\ c.order \in Seq(Path) /\ c.input \subseteq Path
        /\ c.sec \in [ToSet(c.order) -> Section]
        /\ \A i \in ToSet(c.order) :
              c.sec[i].kind = "rauc" => Len(c.sec[i].keyring) <= 1

VARIABLES
    conf,
    pc,             \* "setup", "generate", "done" or "failed"
    ready,          \* images that have been set up
    done,           \* images that have been generated
    outfile,        \* image->outfile: a directory and a path in it
    disk,           \* what is in inputpath and imagepath
    rootHash,       \* tmppath/<slug>.root-hash
    tmpdir,         \* the files in tmppath/rauc-<slug>
    busy            \* the rauc image at work and its partition, or <<>>

vars == <<conf, pc, ready, done, outfile, disk, rootHash, tmpdir, busy>>

Images == ToSet(conf.order)
Kind(i) == conf.sec[i].kind

\* Mutant: the last name of the path.
BaseName(path) == Last(path)

\* sanitize_path()
Slug(path) == FlattenSeq(path)

In(path) == <<"in", path>>
Out(path) == <<"out", path>>

TypeOK ==
    /\ conf \in Configs
    /\ pc \in {"setup", "generate", "done", "failed"}
    /\ done \subseteq ready /\ ready \subseteq Images
    /\ \A i \in Images : outfile[i] \in DOMAIN disk
    /\ DOMAIN tmpdir = DOMAIN rootHash
    /\ busy # <<>> => Kind(busy[1]) = "rauc" /\ busy[2] \in Nat

\* imagepath has the images of an earlier run, tmppath has been emptied.
Init ==
    /\ conf \in Configs
    /\ pc = "setup"
    /\ ready = {} /\ done = {}
    /\ outfile = [i \in Images |-> Out(i)]
    /\ disk = [f \in {In(p) : p \in conf.input} \cup {Out(i) : i \in Images} |->
                  IF f[1] = "in" THEN [input |-> f[2]] ELSE [old |-> f[2]]]
    /\ rootHash = [s \in {Slug(i) : i \in Images} |-> <<>>]
    /\ tmpdir = [s \in {Slug(i) : i \in Images} |-> {}]
    /\ busy = <<>>

-----------------------------------------------------------------------------
(* Partitions *)

\* A file is a partition, a URI is not.
File(type, ref) ==
    IF ref \in Uri THEN <<>> ELSE <<[type |-> type, image |-> ref]>>

VerityParse(s) == <<[type |-> "data", image |-> s.image]>>
SigParse(s) == File("cert", s.cert) \o File("key", s.key)

Intermediates(s) ==
    FlattenSeq([k \in DOMAIN s.intermediate |-> File("intermediate", s.intermediate[k])])
Keyring(s) == [k \in DOMAIN s.keyring |-> [type |-> "keyring", image |-> s.keyring[k]]]
Contents(s) ==
    [k \in DOMAIN s.content |->
        [type |-> "content", image |-> s.content[k].image,
         target |-> s.content[k].target, offset |-> s.content[k].offset]]

RaucParse(s) ==
    File("key", s.key) \o File("cert", s.cert) \o Keyring(s) \o Intermediates(s)
      \o Contents(s)

Partitions(i) ==
    CASE Kind(i) = "verity" -> VerityParse(conf.sec[i])
      [] Kind(i) = "verity-sig" -> SigParse(conf.sec[i])
      [] Kind(i) = "rauc" -> RaucParse(conf.sec[i])
      [] OTHER -> <<>>

Children(i) == {p.image : p \in ToSet(Partitions(i))}

CommandFails ==
    /\ pc \in {"setup", "generate"}
    /\ pc' = "failed"
    /\ UNCHANGED <<conf, ready, done, outfile, disk, rootHash, tmpdir, busy>>

-----------------------------------------------------------------------------
(* Setup *)

CanSetup(i) == pc = "setup" /\ i \in Images \ ready /\ Children(i) \subseteq ready

\* file_setup(): stat() of the input, which is the image unless it is copied.
SetupFile(i) ==
    /\ CanSetup(i) /\ Kind(i) = "file"
    /\ In(conf.sec[i].name) \in DOMAIN disk
    /\ outfile' = [outfile EXCEPT ![i] = IF conf.sec[i].copy THEN @
                                         ELSE In(conf.sec[i].name)]
    /\ ready' = ready \cup {i}
    /\ UNCHANGED <<conf, pc, done, disk, rootHash, tmpdir, busy>>

SetupOther(i) ==
    /\ CanSetup(i) /\ Kind(i) # "file"
    /\ ready' = ready \cup {i}
    /\ UNCHANGED <<conf, pc, done, outfile, disk, rootHash, tmpdir, busy>>

SetupDone ==
    /\ pc = "setup" /\ ready = Images
    /\ pc' = "generate"
    /\ UNCHANGED <<conf, ready, done, outfile, disk, rootHash, tmpdir, busy>>

-----------------------------------------------------------------------------
(* Generation *)

CanGenerate(i) ==
    /\ pc = "generate" /\ busy = <<>>
    /\ i \in Images \ done /\ Children(i) \subseteq done

GenerateFile(i) ==
    /\ CanGenerate(i) /\ Kind(i) = "file"
    /\ disk' = IF conf.sec[i].copy
               THEN [disk EXCEPT ![outfile[i]] = disk[In(conf.sec[i].name)]]
               ELSE disk
    /\ done' = done \cup {i}
    /\ UNCHANGED <<conf, pc, ready, outfile, rootHash, tmpdir, busy>>

\* The handler of another kind of image.
GenerateMade(i) ==
    /\ CanGenerate(i) /\ Kind(i) = "made"
    /\ disk' = [disk EXCEPT ![outfile[i]] = [made |-> i]]
    /\ done' = done \cup {i}
    /\ UNCHANGED <<conf, pc, ready, outfile, rootHash, tmpdir, busy>>

\* veritysetup writes the tree and, to tmppath, its root.
VerityGenerate(i) ==
    /\ CanGenerate(i) /\ Kind(i) = "verity"
    /\ LET data == disk[outfile[Partitions(i)[1].image]]
       IN  /\ disk' = [disk EXCEPT ![outfile[i]] = [tree |-> data]]
           /\ rootHash' = [rootHash EXCEPT ![Slug(i)] =
                 <<[hash |-> data, cut |-> FALSE, long |-> conf.sec[i].long]>>]
    /\ done' = done \cup {i}
    /\ UNCHANGED <<conf, pc, ready, outfile, tmpdir, busy>>

\* Mutant: the certificate comes first, the key behind it.
InOrder(i, type, ref) ==
    LET k == IF type = "cert" THEN 1 ELSE 2
    IN  IF ref \in Uri THEN [uri |-> ref]
        ELSE IF k \in DOMAIN Partitions(i) THEN disk[outfile[Partitions(i)[k].image]]
        ELSE [uri |-> ref]

\* What a command is given: the file of the last partition of that type, or
\* the option as it is.
Given(i, type, ref) ==
    LET of == {k \in DOMAIN Partitions(i) : Partitions(i)[k].type = type}
    IN  IF of = {} THEN [uri |-> ref]
        ELSE disk[outfile[Partitions(i)[Max(of)].image]]

\* The JSON document gets the first 127 digits of the root hash.
WriteRootHash(rh) == [rh EXCEPT !.cut = rh.long]

\* openssl fails without the file with the root hash: the verity image is no
\* partition, and nothing else has it generated first.
VeritySigGenerate(i) ==
    /\ CanGenerate(i) /\ Kind(i) = "verity-sig"
    /\ LET s == conf.sec[i]
       IN  \E rh \in ToSet(IF Slug(s.image) \in DOMAIN rootHash
                           THEN rootHash[Slug(s.image)] ELSE <<>>) :
              disk' = [disk EXCEPT ![outfile[i]] =
                 [rootHash |-> WriteRootHash(rh),
                  certfp |-> Given(i, "cert", s.cert),
                  signed |-> rh,
                  key |-> Given(i, "key", s.key)]]
    /\ done' = done \cup {i}
    /\ UNCHANGED <<conf, pc, ready, outfile, rootHash, tmpdir, busy>>

-----------------------------------------------------------------------------
(* rauc_generate() *)

Manifest == <<<<"manifest.raucm">>>>
FileAt(dir, path) == {f \in dir : f.path = path}
IsDir(dir, path) == \E f \in dir : IsStrictPrefix(path, f.path)
UnderFile(dir, path) == \E f \in dir : IsStrictPrefix(f.path, path)
Put(dir, path, data) == (dir \ FileAt(dir, path)) \cup {[path |-> path, data |-> data]}

\* insert_data() writes from the start and leaves what is behind.
Over(new, old) == new \o SubSeq(old, Len(new) + 1, Len(old))
OldLines(dir) ==
    IF FileAt(dir, Manifest) = {} THEN <<>>
    ELSE LET f == CHOOSE f \in FileAt(dir, Manifest) : TRUE
         IN  IF "lines" \in DOMAIN f.data THEN f.data.lines ELSE <<>>

RaucBegin(i) ==
    /\ CanGenerate(i) /\ Kind(i) = "rauc"
    /\ LET dir == tmpdir[Slug(i)]
       IN  /\ ~IsDir(dir, Manifest)
           /\ tmpdir' = [tmpdir EXCEPT ![Slug(i)] =
                 Put(dir, Manifest, [lines |-> Over(conf.sec[i].manifest, OldLines(dir))])]
    /\ busy' = <<i, 1>>
    /\ UNCHANGED <<conf, pc, ready, done, outfile, disk, rootHash>>

\* Mutant: keys and certificates, too.
AnyPartition(part) == TRUE
IsContent(part) == part.type = "content"

Image == busy[1]
Part == Partitions(Image)[busy[2]]
Dir == tmpdir[Slug(Image)]
HasPart == pc = "generate" /\ busy # <<>> /\ busy[2] <= Len(Partitions(Image))

SkipPart ==
    /\ HasPart /\ ~IsContent(Part)
    /\ busy' = <<Image, busy[2] + 1>>
    /\ UNCHANGED <<conf, pc, ready, done, outfile, disk, rootHash, tmpdir>>

\* The title of a file section, or the base name of the image.
Target == IF "target" \notin DOMAIN Part \/ Part.target = <<>> THEN <<Last(Part.image)>>
          ELSE Part.target

Offset == IF "offset" \in DOMAIN Part THEN Part.offset ELSE 0
Skipped(data) == IF Offset = 0 THEN data ELSE [from |-> Offset, data |-> data]

\* cp copies into a directory, dd fails on one, and mkdir on a file.
Place == IF IsDir(Dir, Target) THEN Append(Target, Last(outfile[Part.image][2]))
         ELSE Target
CanPlace ==
    /\ ~UnderFile(Dir, Target)
    /\ ~IsDir(Dir, Place)
    /\ IsDir(Dir, Target) => Offset = 0

AddPart ==
    /\ HasPart /\ IsContent(Part)
    /\ CanPlace
    /\ tmpdir' = [tmpdir EXCEPT ![Slug(Image)] =
                     Put(Dir, Place, Skipped(disk[outfile[Part.image]]))]
    /\ busy' = <<Image, busy[2] + 1>>
    /\ UNCHANGED <<conf, pc, ready, done, outfile, disk, rootHash>>

\* Those that are URIs come first.
IntermediateArgs(i) ==
    LET s == conf.sec[i].intermediate
        uri(r) == IF r \in Uri THEN <<[uri |-> r]>> ELSE <<>>
        file(p) == IF p.type = "intermediate" THEN <<disk[outfile[p.image]]>> ELSE <<>>
    IN  FlattenSeq([k \in DOMAIN s |-> uri(s[k])])
          \o FlattenSeq([k \in DOMAIN Partitions(i) |-> file(Partitions(i)[k])])

KeyringArg(i) ==
    [k \in DOMAIN conf.sec[i].keyring |-> Given(i, "keyring", conf.sec[i].keyring[k])]

RaucBundle ==
    /\ pc = "generate" /\ busy # <<>> /\ ~HasPart
    /\ LET s == conf.sec[Image]
       IN  disk' = [disk EXCEPT ![outfile[Image]] =
              [files |-> Dir,
               cert |-> Given(Image, "cert", s.cert),
               key |-> Given(Image, "key", s.key),
               keyring |-> KeyringArg(Image),
               intermediate |-> IntermediateArgs(Image)]]
    /\ done' = done \cup {Image}
    /\ busy' = <<>>
    /\ UNCHANGED <<conf, pc, ready, outfile, rootHash, tmpdir>>

GenerateDone ==
    /\ pc = "generate" /\ done = Images
    /\ pc' = "done"
    /\ UNCHANGED <<conf, ready, done, outfile, disk, rootHash, tmpdir, busy>>

Next ==
    \/ \E i \in Images : SetupFile(i) \/ SetupOther(i)
    \/ SetupDone
    \/ \E i \in Images :
          \/ GenerateFile(i) \/ GenerateMade(i)
          \/ VerityGenerate(i) \/ VeritySigGenerate(i)
          \/ RaucBegin(i)
    \/ SkipPart \/ AddPart \/ RaucBundle
    \/ GenerateDone
    \/ CommandFails

Spec == Init /\ [][Next]_vars

-----------------------------------------------------------------------------
(* Properties *)

Written(i) == disk[outfile[i]]
Asked(ref) == IF ref \in Uri THEN [uri |-> ref] ELSE Written(ref)
OfKind(kind) == {i \in Images : Kind(i) = kind}

Named == {conf.sec[i].image : i \in OfKind("verity-sig")}

\* No two of these names differ in '/' and '-' only.
DistinctSlugs(S) == \A i, j \in S : FlattenSeq(i) = FlattenSeq(j) => i = j

(* A signature image vouches for the partition it is named for: it has the  *)
(* root hash, and the signature of the root hash, of the tree that is in    *)
(* the verity image over the data that is in its data image, whatever order *)
(* the sections have and whatever else is generated.  Names that differ in  *)
(* '/' and '-' only share a file, and a root hash of 128 digits is cut.     *)
SignsItsTree ==
    pc = "done" /\ DistinctSlugs(OfKind("verity") \cup Named) =>
        \A i \in OfKind("verity-sig") :
            LET v == conf.sec[i].image
                data == Written(conf.sec[v].image)
            IN  /\ Written(v) = [tree |-> data]
                /\ Written(i).signed.hash = data
                /\ Written(i).rootHash.hash = data
                /\ ~conf.sec[v].long => Written(i).rootHash = Written(i).signed

(* It is signed with the key and told to be from the certificate that the   *)
(* section names, each of them a file or a URI: so are bundles.             *)
SignedAsAsked ==
    pc = "done" =>
        /\ \A i \in OfKind("verity-sig") :
              /\ Written(i).key = Asked(conf.sec[i].key)
              /\ Written(i).certfp = Asked(conf.sec[i].cert)
        /\ \A i \in OfKind("rauc") :
              LET s == conf.sec[i]
              IN  /\ Written(i).key = Asked(s.key)
                  /\ Written(i).cert = Asked(s.cert)
                  /\ Written(i).keyring = [k \in DOMAIN s.keyring |-> Written(s.keyring[k])]
                  /\ ToSet(Written(i).intermediate) = {Asked(r) : r \in ToSet(s.intermediate)}

TargetOf(c) == IF c.target = <<>> THEN <<Last(c.image)>> ELSE c.target
Wanted(c) == IF c.offset = 0 THEN Written(c.image)
             ELSE [from |-> c.offset, data |-> Written(c.image)]

\* No file in the way of another: the manifest and the files of a bundle.
Apart(s) ==
    \A j, k \in DOMAIN s.content :
        LET t == TargetOf(s.content[j])
        IN  /\ ~IsPrefix(t, Manifest) /\ ~IsPrefix(Manifest, t)
            /\ j # k => ~IsPrefix(t, TargetOf(s.content[k]))

(* A bundle has its manifest and the files it names from their offsets on,  *)
(* and nothing else: no key or certificate, no file of another bundle.      *)
BundleExact ==
    pc = "done" /\ DistinctSlugs(OfKind("rauc")) =>
        \A i \in OfKind("rauc") :
            Apart(conf.sec[i]) =>
                Written(i).files =
                    {[path |-> Manifest, data |-> [lines |-> conf.sec[i].manifest]]}
                      \cup {[path |-> TargetOf(c), data |-> Wanted(c)] :
                              c \in ToSet(conf.sec[i].content)}
=============================================================================
