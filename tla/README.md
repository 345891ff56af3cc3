# genimage in TLA+

genimage reads a configuration file that describes images and the partitions
they are made from, and generates them, mostly by calling other programs. It is
one process with one thread. What makes it hard is not concurrency but *order*
(images that depend on each other, two walks over the same graph, data that is
written over other data), *prediction* (sizes and offsets that are computed
before the files exist and must be right once they do), *failure* (every step is
an external command that may fail, `exit(1)` is called deep in the code, the
process may be killed) and *what is left on disk* for the next run.

## Inventory

| component | source | state it keeps | operations | what makes it correct |
|---|---|---|---|---|
| driver | `genimage.c` main, image_setup, image_generate, check_tmp_path, cleanup | list of images, `seen`/`done` marks, `tmppath_generated`; on disk: tmppath, output files | read the configuration, claim tmppath, collect images, add implicit files, walk for setup, walk for generate, clean up | children before parents, cycles and only cycles refused, status 0 only if all is built, nothing half-written or foreign touched |
| mount points | `genimage.c` collect_mountpoints, add_mountpoint | list of mount points, directories in tmppath | copy the root directory, move subdirectories out of it | every image finds its part of the tree, in any nesting |
| flash types | `genimage.c` parse_flashes, set_flash_type | `flash_type` of an image | propagate from an image to its partitions in one pass over the list | an image and what it is made of are for the same flash; conflicts refused |
| hdimage | `image-hd.c` | partitions with offset and size, table type, predicted file size | lay out, check overlaps, write data, boot records, MBR/GPT | nothing needed is overwritten, a reader of the tables finds the layout, predicted size right |
| flash | `image-flash.c` | partitions | check and write one after the other | partitions in order, padded, within the flash |
| android-sparse | `image-android-sparse.c` | chunk list, block buffer | turn extents into chunks | expanding the chunks gives the input back |
| mdraid | `image-mdraid.c` | superblock, parent/child image | set up metadata, write data and superblock | members of one array agree, data within the device |
| verity, verity-sig | `image-verity.c` | hash tree, root hash and JSON document in tmppath | veritysetup, sign the root hash | the signature is made of the root hash of this build, with the key that was asked for |
| rauc | `image-rauc.c` | directory in tmppath with manifest and files | collect files, run rauc | every file in the bundle, no other one |
| file | `image-file.c` | copy flag, holes | use or copy an input file | the size is known, the file is there |
| file I/O | `util.c` prepare_image, insert_image, write_bytes, insert_data, extend_file, map_file_extents | output file | write a range of an output from a file and padding | exactly the range is updated, length right |
| options | `config.c` | one value per option, paths kept in static variables | defaults, environment, config section, command line, twice over | priority of the sources; nothing is used before it is final |
| single-command handlers | `image-*.c` (the others) | none | run one or a few external programs | none of their own: for the driver they succeed or fail |

Components interact by calls: the driver calls `parse`, `setup` and `generate`
of the handler of each image, in this order; handlers read `size` and the
output file of the images of their partitions (`image_get`), which is why the
order matters; all of them write through `util.c` and leave temporary files in
tmppath. There are no threads, messages or callbacks.

## Modules

### `BuildOrder`: what a run promises

Images are built one at a time, each after all it is made from; success is
reported when all are built; a run may give up and be repeated. No stack,
marks, files or phases.

### `Genimage`: the driver

One action per step of `main()` that can be told apart: `LoadConfig`,
`CheckTmpPath`, `ParseImage` (one section), `Resolve` (the nested loops that add
implicit children: `ResolvePart`, `ResolveNext`, `ResolveDone`), `CollectMountpoints`, the walk, `SetupDone`,
`GenerateDone`, `Cleanup`. The C stack of the recursive functions is the variable
`stack`, with `Main` at the bottom for the loops of `main()`; `pos[f]` is the loop
cursor of frame `f`; the nested loops in `main()` have theirs in the same place. `image_setup()` and `image_generate()` are the same walk with
marks of opposite sign, so `CallDone`, `CallSeen` and `CallEnter` are shared and
`walk` holds the sign; at the end of the partitions of an image the first walk
does `Setup` and the second `StartGenerate`, `EndGenerate`, `ExecPost`, between
which a kill or a failure may strike. `Return` sets the mark and moves the
caller's cursor. An error return unwinds without touching state and is one step
(`Fail`); `exit(1)` is `Abort` and skips the clean-up; `Kill` may happen
anywhere; `Start` is the next process on the same disk. What outlives a process
is `tmp` (absent, empty, with our files, with what an `rm -rf` has left of them, with foreign ones) and `out[i]` (absent,
old, partial, new). `KilledCommand` is what `systemp()` makes of a command that a
signal ends: `WEXITSTATUS()` of its status is 0, the handler goes on, and the
half-written file counts as generated. `Killable` are the images to which this
may happen.

`Uses`, `Wanted`, `Generated` and `Outcome` are the refinement mapping to
`BuildOrder`. `DependsOn(i)`, the images that `i` needs, is the least set that has
the parts of `i` and those of its members.

Abstractions: a configuration is the sequence of sections and, per image, the
sequence of images its partitions name; partitions without an image do not
matter to the driver. `set_flash_type()` is part of the failing branch of
`Resolve`, and a module of its own (`FlashTypes`). Images marked `temporary` are not told apart. That hidden files stay
in tmppath when it existed before is not modelled: both `check_tmp_path()` and
the clean-up are taken to mean the same by "empty".

### `HdImage`: disk images

`hdimage_setup()` is `SetupAlign`, `SetupLogical`, `SetupFakes`, one `PlacePart`
per partition and `SetupFinish`; `hdimage_generate()` is `Prepare`, one
`WriteData` per partition, `WriteTable`, `Fill` and `CheckSize`. The steps of the
loop body are operators of their own (`WithAlign`, `WithOffset`,
`WithAutoresize`, `WithSize`), composed in the order of the code. `writes` is the
sequence of byte ranges written, with the partition (or 0 for boot records and
tables); `length` is the length of the output file. `RoundUp` keeps the unsigned
wrap of `roundup()` at zero.

`MbrTable`, `EbrTable`, `HeaderOf` and `ArrayOf` are the tables as they are written:
for each entry the start and length in sectors, and both ends by cylinder, head
and sector (`Chs` is `lba_to_chs()`). They are functions of the layout, which no
longer changes when they are written. `MbrRead` is stated from the reader's side:
`Chain` is what the links lead to from one boot record to the next, each counted
from the place the format counts it from, and `Read` collects what is found.

Left out: UUIDs, names, flags and checksums; block device targets; explicit
offsets of the extended partition's first member smaller than `align` and image
sizes smaller than the backup GPT (both wrap around in the code).

### `InsertImage`: a range of the output file

`insert_image()` with `write_bytes()` and `map_file_extents()`: `Open`,
`MapExtents` (the file system knows the extents, or not), then for each extent
`CopyHole` for the gap in front of it and one `CopyData` per buffer, `NextExtent`,
`CopyDone` and the final `Fill`. `inPos`, `size` and `offset` advance together as
`in_pos`, `size` and `offset` do. Every step may fail half way: a write may have
written some bytes, or only extended the file. A byte of the output is the input
byte it came from, zero, padding or what was there before; `written` tells which
bytes are not part of a hole. Whether the file system can punch holes is part
of a call (`punch`).

### `FlashImage`: flash images

`flash_setup()` is one `SetupPart` per partition and `SetupDone`, with the checks
of the code as one operator each (`HasRoom`, `InOrder`, `Fits`, `WithinFlash`);
`flash_generate()` is `Prepare`, one `WritePart` per partition with the padding
in front of it, and `PadEnd`. A call of `insert_image()` is what `InsertImage`
says it is: a range is written from a file, and the rest of it is padding.

### `AndroidSparse`: sparse images

`MapExtents`, one `Merge` per extent (widened to blocks, merged with the last
extent that is left), then `Extent` or `Removed`, one `Block` per block and
`ExtentDone`; `TailSkip`, `Crc` and `Header` end the file. `chunk` is the header in
memory and `out` the file, in which the blocks of the current chunk are as they
were when it began until `Flushed` writes them; that difference is what
`HeadersTrue` is about. The value of a fill chunk is its body in the file.

### `Mdraid`: members of RAID arrays

`mdraid_parse()`, `mdraid_setup()` and `mdraid_generate()` are one action each per
member: `Parse` in list order, `Setup` and `Generate` in any order that lets parents
come first, which is all the driver promises (`Genimage!DependenciesFirst`; which of
these orders is taken depends on the partitions of other images). `sb` keeps what
the members of an array must share or must not: identity, devices, size,
role. `lastRole` is the counter in the parent. Roles keep their 16
bits. `Wraps` is the division by zero that kills the process (below). `file` is the
length of the output file and the end of the data in it. Left out: constant fields,
the size of the bitmap's chunks, checksums, and more than 1920 devices, whose roles
overlap the bitmap.

### `FlashTypes`: which flash an image is for

`ParseImage` looks up the flash section that an image section names (`Given`: an
unknown name is none). `set_flash_type()` is two cursors, `cur` over the list of
images and `part` over the partitions: `GiveType`, `HasType`, `Conflict` and
`NextImage` are the branches of the inner loop and `PropagateDone` its end. It
goes through the list once, so that a type gets from grandparent to grandchild
only if parents come first. `Setup` is what the handlers for flash images say
without a type.

### `Signing`: verity, verity-sig, rauc and file

Four handlers that meet in files. `Partitions(i)` is what the `parse` of a handler
makes of its section: a file is a partition, a `pkcs11:` URI is not. Setup is
`SetupFile` (which finds the input and, if it is not copied, makes it the output
file) and `SetupOther`; generation is one action per handler, except that
`rauc_generate()` is `RaucBegin` (the manifest), `SkipPart` or `AddPart` for each
partition, and `RaucBundle`. Contents are terms: a hash tree *of* some data, a
signature *by* some key *of* some root hash. `disk` is what lies in the input and
output directories, which are taken to be different ones; `rootHash` and `tmpdir`
are the files in tmppath, by the name the handlers make for them: a path is a sequence of
names joined by `/`, a name a sequence of strings joined by `-`, and `Slug` flattens
one level, as `sanitize_path()` does. The walks of the driver are any order with
partitions first (`Genimage!DependenciesFirst`); a verity-sig image is *not* a
parent of the verity image it signs. Tools that fail and command lines that are
too long are `CommandFails`.

### `Options`: four sources, read twice

`set_config_opts()` is `SetFromSources` (for each option its default, environment
and, in the second pass, configuration file), `SetFromArg` for each argument,
`ShowHelp`, and `OptionsSet` at the end of the command line or at an invalid
argument. `ParseConfig` lies between the two passes and uses two options itself:
`config` and `includepath`. `UseOption` is any of the functions that keep the
first answer in a static variable, `DisableRootpath` the one that overwrites it.

### `Mountpoints`: the root tree, taken apart

`collect_mountpoints()`: `NeedRoot`, `CopyRoot`, `AddMountpoint` for each image up to
`ListDone`, then `Move`, `MakeDir` and `Attributes` for each mount point; each command
may fail. `fs` is the set of directories below tmppath, each with the directory of
rootpath that its files and its owner come from. A name is a sequence of words joined by
`-`, a path a sequence of names joined by `/`, so that `sanitize_path()` is what it
does: it flattens one level. `Moved` is `mv`, which moves *into* a target that exists, and
there replaces an empty directory of the same name only (`CanMove`); every directory of
rootpath counts as having files. Time stamps are left out.

### Mutants

Operators whose comment says "mutant" are variants of the definition that
follows them, with a plausible error. They are used nowhere: putting one in the
place of the definition makes the property it is listed with in `PROJECT.json`
fail, which shows that the run can tell the difference.

## Runs

| run | instance | shows |
|---|---|---|
| graphs | 3 images; each section has no, one or two partitions with any images; with and without a section for the third image; 1 run; fair | the walks respect dependencies, detect exactly the cycles, terminate, and implement `BuildOrder` |
| reruns | a shared child, a chain with an input file, a cycle; one conflicting section, one block device; 3 runs; commands may be killed | what a run leaves behind, whatever interrupted it |
| killed_command | as reruns, 1 run | **violation**: exit status 0 with a half-written image, because `systemp()` does not notice that a command was killed |
| hd | DOS tables with up to 5 partitions of 4 kinds, any number for the extended one and two alignments, up to 3 with alignments of their own or beyond cylinder 256, 6 partitions of 3 kinds with automatic numbering; up to 2 partitions of 14 kinds in all table types, with sizes, fill, moved GPT; 3 partitions of 14 kinds in mbr and hybrid; up to 2 partitions of 14 kinds that are filled or have images of late or changed size | what is overwritten, where the extended partition lies, that MBR, boot records and GPT headers lead a reader to the layout, GPT range, when the file has the size reckoned |
| insert | inputs of 0, 3, 5 bytes with 7 sets of extents, ranges of 0 to 5 bytes at 2 offsets and 2 image offsets, output files of 0, 3, 8 bytes, a buffer of 2 bytes; fair | exactly the range is updated, holes are kept or filled as asked, the loops end |
| flash | up to 2 partitions of some 50 kinds on three sizes of flash, 3 partitions of 6 kinds; images known at setup, late or changed | what setup accepts, generate writes completely, each byte once; an image that still has the size known at setup is there as a whole |
| sparse | files of 8 words in blocks of 3 with up to three extents at any place, also next to each other, all files of 4 words over two values, 3 different raw blocks, an empty file | the chunks expand to the file, headers and checksum are true |
| mdraid | up to 3 members: 17 kinds of parents, 7 kinds of other members each; 4 members of 3 kinds; data known early, late or not at all | members of an array agree on it and on the data, automatic roles differ, data lies within the array |
| mountpoints | all lists of up to 3 images of 11 kinds over a tree of 9 directories three deep, among them mount points that share a directory below tmppath (`a/b`, `a-b`) or below rootpath (`a`, `a/`); every command may fail | no files are lost or doubled; if no two mount points share a directory (`Apart`), each image finds its part of the tree and owners are kept |
| options | 4 options, 3 values, one environment variable at most, up to two arguments, files that say nothing or set one or two options | the last source wins although all are read twice; nothing is used before it is final |
| flash_types | all graphs of 3 images in all list orders, two flash sections and an unknown name for any image | an image and its parts are for the same flash, and where they are not, the section says so |
| signing | two verity images (one pair that shares a file name in tmppath), a signature of a verity image, of a name that shares its file, or of another image, data made or copied or missing, keys and certificates as files or URIs; two bundles with 6 lists of contents and manifests of different length | signatures are of the tree that is there, with the key asked for; bundles have what they name and nothing else |

The properties check what is left when the known differences below are taken
out: where there are any, the premise of a property names them, and the hazards in
`PROJECT.json` say which of them a property leaves out.

Other differences between README.rst and the code, and surprises, were met while
modelling and are not runs:

- driver: nobody looks at the result of the `rm -rf` in the clean-up, so that tmppath may keep
  something in a run that ends with status 0 (genimage.c:634); a section with both `srcpath` and `mountpoint` ends the program with
  status 0 and without images (genimage.c:812);
- systemp(): a child whose `execl()` fails returns from `systemp()` and continues
  as a second genimage (util.c:274);
- options: an invalid argument makes genimage ignore, without a word of its own,
  the rest of the command line (config.c:264; main() does not look at the result); if that is a
  short option with more letters behind it, the second pass begins with those letters, and may end there,
  since `optind = 1` does not reset where `getopt_long()` is within an argument (config.c:242);
  the configuration key of the option `mkfsbtrfs` is `mkfsfbtrfs`
  (config.c, `opts[]`);
- flash types: with a grandparent listed behind the parent neither the type nor a
  conflict gets to the grandchild (genimage.c:428, README.rst:102 and 759);
- hdimage: an `align` of a partition smaller than the image's is reported and
  accepted (image-hd.c:1075, README.rst:238); sizes are not compared with `align`
  (image-hd.c:1177, README.rst:241); a partition may lie in front of a moved GPT array
  (image-hd.c:1055, README.rst:479); a partition without an image is not filled
  with zeros (image-hd.c:616, genimage.c:834); a partition with `fill` that is the last one
  makes the file longer than predicted, which is an error at the end (image-hd.c:959,
  README.rst:128), and so does an image whose size is only known once it is
  generated (image-hd.c:940); holes are compared with the
  partitions without regard to `imageoffset` (image-hd.c:730, README.rst:371); a
  first logical partition with an `align` of its own lies so far behind the start
  of the extended partition that no boot record is found there
  (image-hd.c:1133); a `gpt-location` that is no multiple of a sector is reported and
  accepted (image-hd.c:1038), and so is, without a word, such a `size`: the backup header
  then lies elsewhere than it says (image-hd.c:555 and 566); a partition of a GPT whose image
  has a hole at its end may reach into the backup of the table (image-hd.c:730), and one with
  an `align` that is no multiple of a sector may begin in front of the first usable sector
  (image-hd.c:1075), outside of the range of usable sectors either way; the boot record of a
  logical partition with such an `align` may lie between two sectors, where no link leads (image-hd.c:236);
- flash: an image may get larger than its `size` (image-flash.c:152, README.rst:71);
  an image whose size is not known at setup is cut without a word if it does not
  fit (image-flash.c:136, util.c:579); a hole at the end of an input becomes
  0xFF (util.c:679, README.rst:133);
- mdraid: two members get the same role when one of them is given explicitly or
  parents have parents (image-mdraid.c:175, README.rst:544); the child of a child
  gets no data (image-mdraid.c:424); an array without data that is smaller than
  1 MiB ends in a division by zero (image-mdraid.c:241 and 355, README.rst:548);
- mount points: `a/b` and `a-b` share a directory, and both images get the files of
  both (genimage.c:546 and 474, README.rst:81); `a` and `a/` are two mount points of one
  directory, and the second finds it empty (genimage.c:546);
- verity-sig: a section in front of that of its verity image fails, since the driver
  does not order them (image-verity.c:206); the root hash of a hash function with 128
  digits is cut to 127 in the JSON document (image-verity.c:48); the images `a/b`
  and `a-b` share the file of the root hash;
- rauc: files with the same base name replace each other in a bundle; one whose
  target is a directory of an earlier one is put into it (image-rauc.c:133);
  bundles `a/b` and `a-b` share a directory, in which the second finds the files of
  the first and the end of its longer manifest, since `insert_data()` does not cut
  the file (image-rauc.c:51).

Bounds. Three images are enough for every shape the walk distinguishes: a
chain, a diamond through a shared child (also listed twice in one parent), a
child listed later than its parent, a cycle of one, two and three, an implicit
file. Three runs let the first leave something, the second be refused by it or
replace it, and the third find what the second left. In `HdImage` the partition
kinds are chosen such that each meets each: in front of, inside and behind the
table areas, inside and across holes; two suffice for every pair, three for an
out-of-order pair followed by an automatic offset, six for a full MBR with two
logical partitions. In `InsertImage` a range is up to three buffers long, so that
each loop runs more than once, and begins in front of, at and behind the old end
of the output. Inputs that end in a hole within the range are only combined with
padding by zeros. Blocks of
three words in `AndroidSparse` are the smallest that can hold two extents with a
hole between them; three blocks let one extent be removed, one merged into and one
stand apart, and exceed `MaxRawBlocks`. Three mount points in a tree three deep have a
nested pair in either order, a nested triple, siblings and repetitions. Three array
members are a parent with two children, a chain, or two arrays; the fourth lets a
counter move three times while the members of another array come in between.
Two arguments are enough for one that overrides another, one in front of an
invalid one and one behind it; two files for a name that changes which one is
read. Three images in all orders have the one in which a grandparent is listed
last. Two bundles or two trees are what it takes to share a directory.
`FileSizeExact` says of filled partitions and of images of late or changed size when the prediction fails: only
if one of them ends behind all that was counted, and the file is not as large as the image.
`CHECK_DEADLOCK FALSE`: a run of genimage ends.

Fairness. `FairSpec` assumes weak fairness of the program's own steps as a whole:
there is one thread that waits only for its child processes, which are taken to
end. Nothing is assumed of `Kill` and `Start`. Only `Terminates` uses it. `InsertImage`
assumes the same of its one thread: system calls return. A `read()` may return
nothing, which is what its `Terminates` is about.

## Proofs

Each of the proof modules extends the module of its component (`FlashProofs` and `GenimageProofs` have
two) and proves its theorems for every value of the constants that satisfies the assumptions of
that module. An assumption says which configurations there are: in the driver,
that an image without a section, an input file, has no partitions
(`InputsHaveNoParts`: only `parse` of a handler makes partitions, and the file
handler makes none); for RAID members, that data is one of the
images (`DataAreImages`); for inputs with holes, that their extents are in order and begin
within the file (`ExtentsInOrder`), and for sparse images, that these do not overlap and hold all
that is not zero (`ExtentsOfInput`); for mount points, that a tree is closed under
"the directory above" (`TreesClosed`). The others say of what type constants are. Six theorems have
a hypothesis besides (`HolesFromStart`, `WholeSectors`, `SolidEntries`, `SectorAligns`,
`PaddingAfterData`, `SizesKept`), each of which leaves out a difference listed above, and which the instances of the runs satisfy.

**`GenimageProofs`**, the driver, for any set of images, configuration and number of
runs: `TypeOK`, `DependenciesFirst`, `RecursionIsReal`, `SetupBeforeGenerate`,
`SuccessMeansBuilt`, `CycleNeverBuilt`, `TmpLeftClean`, `ForeignTmpKept` and
`NoPartialOutput`. The inductive invariant `IInv` is `TypeOK`, `RecursionIsReal` and
`WalkInv`. None of the properties is inductive: that the children of an image are done
when its loop ends needs `CursorInv` (all that the cursor has passed are done), that the
element returned to is the one that was called needs `ChainInv` (each frame is
the element at the cursor of the frame below), that a mark `seen` without `done`
means "on the stack" is `SeenInv`, that marks of finished images stay consistent
is `ClosedInv`, and `MarkInv`/`PcInv` tie the sign of the marks to the phase.
`SetupBeforeGenerate` adds that the image list is complete before the walks
(`ListInv`, and `Resolved` for the loop that completes it: what its cursors have passed is known), `SuccessMeansBuilt` that marked images have new output files
(`OutInv`), `NoPartialOutput` that a half-written file belongs to the image at
work or to a killed command (`PartialInv`), the two about tmppath that it is ours
from the check to the clean-up (`TmpInv`). Each has one lemma with one case per
action. That an image on a cycle is never done needs no induction over paths:
`AcyclicInv` numbers the images that are done such that parts have smaller numbers, and
`Return` gives the next number; a least closed set around an image can then not
contain it.

`Refinement`, in the same module: `Genimage` implements `BuildOrder`, if no section has both
`srcpath` and `mountpoint` (such a section ends a run with status 0 and nothing built).
The initial state maps to an initial state, and each action to `Build`, `Succeed`,
`GiveUp`, `Again` or a stutter. What it needs besides the invariants above is
`WantedInv`: the images that are wanted, sections and all their parts, are
those on the list once it is complete.

The same module has the theorems about `Options` (whose names are chosen so that it can extend both:
`OptionsInit`, `OptionsNext`, `OptionsSpec`): `Priority` and `UsedIsFinal`, for any options, environment,
files and command line. Between the passes the values are those of the first pass; what
survives into the second one and is not set again are options without any
source, which have none then either.

**`FlashProofs`**, about two components, `FlashImage` and `FlashTypes`, which share no state; the
names of the second are chosen so that the module can extend both (`TypesInit`, `TypesNext`, `TypesSpec`).

`OneFlash` and `TypesAreNamed`, for any list of images and sections. A type, once given,
stays; the cursors tell for which partitions parent and child agree; a parent
that has its type from its section, or is listed behind its own parents, has it before
its turn comes. `TypesAreNamed` is nearly inductive: what is above a parent is above its
child (`AboveParent`), since `Above` is the least set that is closed under parents.

`WrittenOnce` and `OnFlash`, for any partitions and flash. `PlaceInv`
says of the partitions that have been set up that they are in order, aligned, within the flash and
large enough for the images as far as their sizes are known; `WriteInv` that what has been written ends where the next
partition may begin.

**`InsertImageProofs`**: `OnlyRange`, for any input, extents, buffer size and old output, at
every moment of a call and after any failure. `PosInv` says that `offset` and `size`
leave the end of the range where it was, `FileInv` what the file is outside of it.
`RangeUpdated` and `HolesAsAsked` are proved as well, for calls that succeed. `Progress` says what
one step does: it keeps all that is done (`Kept`) and adds bytes at the cursor, which
`AskedInv` and `ValueInv` carry along. That a zero is written only where the input has
a hole is `ReadInv`: the cursor in the input moves with the one in the output, and each extent it
has left behind ends in front of it or the input does; `HoleAhead`, `HoleBehind` and
`RestIntended` conclude from it that no extent, including those cut off by `Clip`, has the byte. This needs that
extents are in order and begin within the file (`ExtentsInOrder`, what FIEMAP reports).
Since padding by 0xFF over a hole at the end is the difference listed above, the theorem has
the hypothesis `PaddingAfterData`, which the instance keeps as well.

**`AndroidSparseProofs`**: `ExpandsToInput` and `HeadersTrue`, for any file and extents, any block size and any
limit of raw chunks. The invariant has a part for each of the two loops. `MergeInv`, for the one that widens and
merges: an extent that has been passed begins at a block and ends at one or at the end of the file,
or is removed (`WideInv`); those that are not removed are in order with a gap between any two (`ApartInv`); all that
is data is still in one of them (`DataInv`). That `Previous` finds the one to merge into needs that
none of those passed reaches beyond the next (`AheadInv`), and that the first one is never removed, which is where it stops.
For the one that writes: no extent that counts lies on both sides of the cursor
(`PlaceInv`), so that a block skipped has no data in it (`ZeroBlocks`); and `FileInv` says what the chunks
written so far stand for. `Expands` does so by a function from the number of chunks to the number of blocks, since what
a chunk adds then is one step (`ExpandsMore`) and the last one can grow (`ExpandsLast`); the
header on disk of the open chunk is one that is not true yet, which is why it speaks of the file as it is
going to be (`Final`, with the header `Flushed`). A block is joined to a chunk that is open
(`BlockContinues`) or begins one (`BlockBegins`); that a fill chunk repeats the same word is
`MoreFill`. At the end, `AllExpanded` turns the function into what the library's `FlattenSeq` makes of the
chunks, along the argument for `Flattens` below.

**`MdraidProofs`**: `MembersAgree` and `AutoRolesDistinct`, for any list of members and any
order that has parents first. Parent and child need not agree between two
steps: `SizeInv` says that a parent that has been set up has the size its child is
going to compute, `ArrayInv` what generate has made of a member, `RoleInv` that the
automatic roles of an array are 0 and numbers its counter has passed, which stays
below `MD_DISK_ROLE_MAX`, so that its 16 bits do not wrap.
`DataInArray` follows from `FitInv` on top of that: a member that has been set up is a multiple of
4096 bytes and has room for its data, and a superblock without a parent has all sectors behind
the data offset, from which a child has its own. Its hypothesis `SizesKept` says that
data whose size was known at setup is not larger when it is written.

**`HdImageProofs`**: `ExtendedCovers` and `AutoOffsetComesAfter`, for any configuration
of a disk image, in integers (the code computes in 64 bits, which no image comes near;
the wrap of `roundup()` at zero is kept). `LayoutHolds` is the inductive invariant. `ListInv`
says what is where in the list after the extended partition has been put into it, for which
`NumberOnce` shows that its place is unique; `EndInv` that all that has been placed
ends before `now`, which makes `AutoInv` inductive. That the extended partition, which
grows with each logical one, never grows over a primary one is the work of
`ExtendedInv` and `CoverInv`: behind it no logical partition follows a primary one, and those in
front of it end where it begins, not because `check_overlap()` says so (it is empty when it is
checked) but because the first logical partition must leave `align` behind `now`, and
the extended one begins `align` before it. An extended partition that has stayed empty, its
members being primary, spans nothing and says nothing.

`OverwritesOnlyHoles` is proved too, from a second invariant on top of that one. `DiskInv`:
any two partitions that have been placed, the extended one aside, are apart, boot records
included, or the later one is in a hole of the earlier one (`ApartInv`, which is what
`check_overlap()` checks against all partitions in front); the areas of the tables are
partitions too and at the end of the list (`AreasInv`), the backup at the end of the image; each
write stays within the partition or the boot record it is made for (`WritesInv`). Boot records
count although `check_overlap()` does not know them: a logical partition must leave `align`
behind `now`. The hypothesis `HolesFromStart`
says that an image written with an `imageoffset` has no holes: `check_overlap()` compares the
holes of an image as if it were written from its first byte on, and without the hypothesis the
property is false.

`GptRead` needs a third one, `GptInv`. `hdimage_insert_gpt()` computes the places of headers
and arrays again, in sectors, from a size that `hdimage_setup()` may have found itself. `SizeInv`
says why the two agree: the size is a multiple of a sector, since it is rounded to 4096 when
there is no backup and `now` ends with the backup, itself rounded, when there is
one; and the backup is elsewhere than the array, since `check_overlap()` has compared
them. `TableInv` says that all of the table is among what has been written. The hypothesis
`WholeSectors` takes a `size` or a `gpt-location` with part of a sector out.

`GptRangeUsable` follows from `RangeInv`: a partition in the table is on whole sectors and not
empty (`EntryInv`), ends before `now`, which is within the image, and is apart from the backup
(`BackupInv`), which is last in the list, so that `check_overlap()` compares it with all of them.
A partition that is apart from the backup and not in front of it would have to begin behind
the end of the image. That the first usable sector is not behind a partition needs the largest of a
set of offsets, which exists because the set is bounded (`Largest`, from the library's
theorem that `<` on the naturals is well-founded). `SolidEntries` leaves out the holes and
odd aligns of the list above; TLC has a counterexample for each.

`FileSizeExact` follows from `LengthInv`: `ReachInv` says that `file_size` covers the data and
the boot record of each partition placed so far, and so does `now`, which becomes the size of an
image that is filled or has a backup; `SpanInv` the same of the table. What is written later is bounded by the
longest reach of any partition (`LongestBounds`), so that the file stays as `prepare_image()` has made it unless a
partition reaches beyond, and that can only be one that was counted with less than it turns out to
have. There is no hypothesis: filled partitions and images of any size at any time are part of the statement.

`MbrRead` is about what a reader makes of the layout, from `MbrInv`: partitions in the table are on
whole sectors (`SlotInv`), so that no division drops anything; the extended partition begins where
the first boot record is (`LinkInv`), because it takes over the offset that was given to the
partition it is put in front of, or both follow what has been placed and are rounded up to the same align; and there
are at most four primary entries (`CountInv`): `setup_logical_partitions()` counts while it goes
through the list, and what it has counted at the last one is all of them (`FourEntries`; the list
with the extended partition in it has no more by an injection into the one before, `LogicalCount`). From there,
the entries of the MBR are those of the partitions shown because counting a finite set
reaches each element (`Numbered`), cylinder, head and sector name the same sector
(`ChsRight`, for all that 1024 cylinders can name), and the links reach every logical partition: were there one
they do not reach, the first such would have another one in front, whose link leads to it
(`AllFollowed`). Where a first logical partition with its own align lies too far behind the extended
one, no boot record is at its start, and `Chain` ends at once: `AllFound` has a part for either case. `SectorAligns` says that an align of a partition in the table, if given, is one
of whole sectors; the code asks that of the image's align only.

**`MountpointsProofs`**: `TypeOK`, `NothingLost`, `OwnersKept` and `ItsTree`, for any tree below
rootpath and any list of images. `IInv` is `TypeInv`, `ListInv` (no mount point is listed
twice, and those in front of the cursor are done), `NothingLost`, and three statements about
`fs`. `Rooted` and `Single`: it stays a tree, in which each directory lies in another one and no
two have the same path. `TreeInv`, for mount points that
are `Apart`, says all of `fs`: a directory of rootpath is in the place of the innermost
mount point around it among those moved so far (`Home`, `Spot`, `In`), a directory made
anew in the place of the one that was moved. `TreeMove`, `TreeMake` and `TreeOwn` take it through
the three commands: moving a mount point changes the place of just the directories below it (`SpotMoves`).
In a run that succeeds nested mount points have been moved from the inside out, since `mv` does not
find the inner one any more when the outer one is gone. At the end `Spot` over all
mount points is what `ItsTree` and `OwnersKept` say (`ContentIs`). `NothingLost` needs none of
it and has no condition: what `mv` moves keeps its files, and what makes way for it has none,
even when it moves into a target that is there. That the two functions that take a mount
point apart, both with the library's recursive `FlattenSeq`, return paths (`FlattenType`, `NamesOf`) is
proved along the argument for `Flattens` below.

**`SigningProofs`**: `SignsItsTree`, `SignedAsAsked` and `BundleExact`, for any set of sections, in
any order that has partitions first. `BaseInv` is the frame: each image is written to a file of its
own (`FileInv`; only an input file that is not copied is shared, and no handler writes it) and what it
is made of is done before it (`OrderInv`). From this `DoneStays`: no step changes an image that is done, so what a
signature was made of is still there when the run ends. `RootInv` says that a root hash in tmppath is the one of a
verity image that is done and has this slug, `TreeInv` that a signature was made of such a root hash; that it is the
image the section names is where `DistinctSlugs` comes in. `SignedInv` rests on what the
handlers find among their partitions (`SignatureGiven`, `BundleGiven`, `IntermediatesGiven`): at most one has the
type `key`, `cert` or `keyring`, and none if the option is a URI. `BundleInv` follows the directory
of a bundle: empty until its turn (`Untouched`), then the manifest and the files of the partitions
passed (`InWork`, `Collected`), in the end all of them (`Bundled`); that a file is added, rather than put
into a directory or over another file, is `FilePut`, from `Apart`.

Sections name lists of certificates and files, which the model joins with the library's `FlattenSeq`. That is a
recursive function; `Flattens` proves what its elements are without an induction theorem: the
least length at which the function were not defined (`JoinedExists`), or had other elements, is
one more than a length at which it is not so (`Least`, from the library's theorem that `<` is well-founded).
The proof also found a flaw in `SignsItsTree` itself, whose premise was about the slugs of
verity images only: a signature of an image that is not a verity image, but shares the slug
of one, vouches for that one. The names that signatures name are now part of the premise, and the
instance has the case.

Only model-checked: the two liveness properties, since liveness and `ENABLED` are beyond the
prover. All other properties of the runs that pass are theorems.
`TypeOK` is a theorem about `Genimage`, `Mountpoints`, `Options`, `FlashImage` and `AndroidSparse`;
the other proof modules state types within their invariants, as far as they are needed.

## Plan

Done: `BuildOrder`, `Genimage` with proofs and refinement, `HdImage` with its tables, `InsertImage`,
`FlashImage`, `AndroidSparse`, `Mdraid`, `Mountpoints`, `FlashTypes`, `Options`, `Signing`.
Next: block devices and the backup GPT of odd sizes in `HdImage`; the whole disk image as a reader
sees it, composed with `InsertImage`.

## Not modelled

The single-command handlers, FIT, FIP, vfat, ext2 and UBI build command lines or
text files for external programs: all that matters to the rest is that they
succeed or fail, which is what `Setup` and `EndGenerate` do. CRC32, random numbers
and UUID parsing are arithmetic that no property depends on. The lists of `list.h`
are sequences. Numbers with suffixes and the shortcuts for partition types are parsed
without any state.

Hazards without a property: the array of 128 GPT entries that nothing counts
(instances with 129 partitions are out of TLC's reach, and nothing in the code
would hold); padding by 0xFF over holes, images of unknown size in a disk image, and
arrays smaller than 1 MiB, all of which are differences listed above: the code does
there what no property could state.
