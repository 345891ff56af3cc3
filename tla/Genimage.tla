------------------------------ MODULE Genimage ------------------------------
(***************************************************************************)
(* The driver of genimage (genimage.c): main() reads the configuration,    *)
(* claims the temporary directory, collects the images, walks their        *)
(* dependencies depth first once to set them up and once to generate them, *)
(* and cleans up.  Files outlive a run: the temporary directory and the    *)
(* output files are what the next run finds.                               *)
(*                                                                         *)
(* The two recursive functions image_setup() and image_generate() are the  *)
(* same walk with marks of opposite sign (-1 and 1) in image->seen and     *)
(* image->done; `walk' holds the sign.  Their C stack is `stack', with     *)
(* main() at the bottom, and pos[f] is the loop cursor of frame f.  An     *)
(* error return unwinds the whole stack without touching any state, so it  *)
(* is one step.                                                            *)
(***************************************************************************)
EXTENDS Integers, Sequences, FiniteSets

CONSTANTS
    Image,          \* names of images, of configured ones and of input files
    Main,           \* the bottom frame of the stack: the loops of main()
    Configs,        \* configurations: image sections in order, and the image
                    \* of each partition of every image, in order
    Conflicting,    \* sections that give both srcpath and mountpoint
    Device,         \* images whose output file is a block device
    Killable,       \* images with a command that a signal may kill
    MaxRuns         \* bound: how often genimage is started

ASSUME MainIsNoImage == Main \notin Image
ASSUME ConfigsType ==
    Configs \subseteq [sections : Seq(Image), parts : [Image -> Seq(Image)]]
ASSUME InputsHaveNoParts ==
    \A c \in Configs : \A i \in Image \ {c.sections[k] : k \in DOMAIN c.sections} :
        c.parts[i] = <<>>
ASSUME KindsType ==
    Conflicting \subseteq Image /\ Device \subseteq Image /\ Killable \subseteq Image
ASSUME MaxRunsType == MaxRuns \in Nat

VARIABLES
    conf,           \* the configuration, the same for every run
    pc,             \* where main() is
    images,         \* the list of struct image, in order
    walk,           \* 0, then -1 (image_setup), then 1 (image_generate)
    stack, pos,     \* frames of the walk, and the cursor of each
    seen, done,     \* image->seen, image->done
    ret,            \* the return value: "ok", "recursive" or "failed"
    tmpgen,         \* tmppath_generated
    ended,          \* "no", or how the process ended
    tmp,            \* temporary directory: "absent", "empty", "ours",
                    \* "left" by an rm -rf that failed, "foreign"
    out,            \* output file of each image
    runs            \* number of runs started

confVars == <<conf, runs>>
walkVars == <<walk, stack, pos, seen, done>>
diskVars == <<tmp, out>>
vars == <<confVars, pc, images, walkVars, ret, tmpgen, ended, diskVars>>

Frame == Image \cup {Main}
RangeOf(s) == {s[k] : k \in DOMAIN s}

\* Images without a section are input files: implicit children.
Input == Image \ RangeOf(conf.sections)

TypeOK ==
    /\ conf \in [sections : Seq(Image), parts : [Image -> Seq(Image)]]
    /\ pc \in {"start", "checktmp", "parse", "resolve", "mount", "setup",
               "generate", "writing", "post", "cleanup", "exited"}
    /\ images \in Seq(Image)
    /\ walk \in {-1, 0, 1}
    /\ stack \in Seq(Frame)
    /\ pos \in [Frame -> Nat \ {0}]
    /\ seen \in [Image -> {-1, 0, 1}]
    /\ done \in [Image -> {-1, 0, 1}]
    /\ ret \in {"ok", "recursive", "failed"}
    /\ tmpgen \in {"NONE", "CHECKED", "CREATED"}
    /\ ended \in {"no", "ok", "error", "abort", "killed"}
    /\ tmp \in {"absent", "empty", "ours", "left", "foreign"}
    /\ out \in [Image -> {"absent", "old", "partial", "new"}]
    /\ runs \in Nat

-----------------------------------------------------------------------------
\* A process begins with zeroed memory.
Init ==
    /\ conf \in Configs
    /\ pc = "start"
    /\ images = <<>>
    /\ walk = 0
    /\ stack = <<Main>>
    /\ pos = [f \in Frame |-> 1]
    /\ seen = [i \in Image |-> 0]
    /\ done = [i \in Image |-> 0]
    /\ ret = "ok"
    /\ tmpgen = "NONE"
    /\ ended = "no"
    /\ tmp \in {"absent", "empty", "foreign"}
    /\ out = [i \in Image |-> "absent"]
    /\ runs = 1

\* Mutant: the error is not stored in ret.
FailSilently(error) ==
    /\ pc' = "cleanup"
    /\ UNCHANGED <<confVars, images, walkVars, ret, tmpgen, ended>>

\* goto cleanup with an error in ret
Fail(error) ==
    /\ pc' = "cleanup"
    /\ ret' = error
    /\ UNCHANGED <<confVars, images, walkVars, tmpgen, ended>>

\* exit(1) far from main(): nothing is cleaned up
Abort ==
    /\ pc' = "exited"
    /\ ended' = "abort"
    /\ UNCHANGED <<confVars, images, walkVars, ret, tmpgen>>

-----------------------------------------------------------------------------
\* cfg_parse() and the options: nothing on disk is touched on an error.
LoadConfig ==
    /\ pc = "start"
    /\ UNCHANGED diskVars
    /\ \/ /\ pc' = "checktmp"
          /\ UNCHANGED <<confVars, images, walkVars, ret, tmpgen, ended>>
       \/ Fail("failed")

\* check_tmp_path(): take an empty directory or make one (mkdir may fail),
\* refuse any other.
CheckTmpPath ==
    /\ pc = "checktmp"
    /\ UNCHANGED out
    /\ \/ /\ tmp \in {"foreign", "absent"}
          /\ Abort
          /\ UNCHANGED tmp
       \/ /\ tmp # "foreign"
          /\ tmpgen' = IF tmp = "absent" THEN "CREATED" ELSE "CHECKED"
          /\ tmp' = "empty"
          /\ pc' = "parse"
          /\ UNCHANGED <<confVars, images, walkVars, ret, ended>>

\* One image section: its struct image joins the list, then its options,
\* its handler and its partitions are read.  (An error of the "rm -rf" that
\* precedes the loop leads to the same state as one of handler->parse().)
ParseImage ==
    /\ pc = "parse"
    /\ Len(images) < Len(conf.sections)
    /\ LET i == conf.sections[Len(images) + 1]
       IN /\ images' = Append(images, i)
          /\ IF i \in Conflicting
             THEN \* "goto cleanup" with ret as it was: 0
                  /\ pc' = "cleanup"
                  /\ UNCHANGED <<ret, ended>>
             ELSE \/ UNCHANGED <<pc, ret, ended>>
                  \/ \* handler->parse() fails
                     /\ pc' = "cleanup"
                     /\ ret' = "failed"
                     /\ UNCHANGED ended
                  \/ \* no or several image types, a bad number: exit(1)
                     /\ pc' = "exited"
                     /\ ended' = "abort"
                     /\ UNCHANGED ret
    /\ UNCHANGED <<confVars, walkVars, tmpgen, diskVars>>

ParseDone ==
    /\ pc = "parse"
    /\ Len(images) = Len(conf.sections)
    /\ pc' = "resolve"
    /\ UNCHANGED <<confVars, images, walkVars, ret, tmpgen, ended, diskVars>>

-----------------------------------------------------------------------------
\* A loop: the frame on top, the list it goes over, its current element.  The
\* nested loop in main() has its cursors where the walks have theirs.
Top == stack[Len(stack)]
Callees(f) == IF f = Main THEN images ELSE conf.parts[f]
\* Mutant: the last element is missed.
AtLast == pos[Top] >= Len(Callees(Top))

AtEnd == pos[Top] > Len(Callees(Top))
Called == Callees(Top)[pos[Top]]

\* Mutant: the cursor does not move.
SameCallee(f) == f \in Frame /\ UNCHANGED pos

NextCallee(f) == pos' = [pos EXCEPT ![f] = @ + 1]

Known(i) == i \in RangeOf(images)
AllKnown(m) == \A n \in DOMAIN conf.parts[images[m]] : Known(conf.parts[images[m]][n])

\* An image that a partition names and no section defines becomes an implicit
\* file image at the end of the list that the outer loop goes over.
ResolvePart ==
    /\ ~AtEnd /\ pos[Called] <= Len(conf.parts[Called])
    /\ LET child == conf.parts[Called][pos[Called]]
       IN  images' = IF Known(child) THEN images ELSE Append(images, child)
    /\ NextCallee(Called)
    /\ UNCHANGED pc

ResolveNext ==
    /\ ~AtEnd /\ pos[Called] > Len(conf.parts[Called])
    /\ pos' = [pos EXCEPT ![Called] = 1, ![Main] = @ + 1]
    /\ UNCHANGED <<pc, images>>

ResolveDone ==
    /\ AtEnd
    /\ pc' = "mount"
    /\ UNCHANGED <<images, pos>>

\* It fails for a partition that lacks an image it needs and for "holes" on a
\* configured image; the last failure stands for set_flash_type() as well.
Resolve ==
    /\ pc = "resolve"
    /\ UNCHANGED diskVars
    /\ \/ /\ ResolvePart \/ ResolveNext \/ ResolveDone
          /\ UNCHANGED <<confVars, walk, stack, seen, done, ret, tmpgen, ended>>
       \/ Fail("failed")

\* Mutant: the cursor starts before the list.
BeginWalkEarly(sign) ==
    /\ walk' = sign
    /\ pos' = [pos EXCEPT ![Main] = 0]
    /\ UNCHANGED <<stack, seen, done>>

\* Start one of the two walks with the cursor of main() at the first image.
BeginWalk(sign) ==
    /\ walk' = sign
    /\ pos' = [pos EXCEPT ![Main] = 1]
    /\ UNCHANGED <<stack, seen, done>>

\* Handlers and collect_mountpoints() may leave files below tmppath.
MayUseTmp == tmp' \in {tmp, "ours"}

CollectMountpoints ==
    /\ pc = "mount"
    /\ MayUseTmp
    /\ UNCHANGED out
    /\ \/ /\ pc' = "setup"
          /\ BeginWalk(-1)
          /\ UNCHANGED <<confVars, images, ret, tmpgen, ended>>
       \/ Fail("failed")

-----------------------------------------------------------------------------
Walking == pc \in {"setup", "generate"}

\* Mutant: an image that was merely seen counts as done.
CallSeenIsDone ==
    /\ Walking /\ ~AtEnd
    /\ seen[Called] = walk
    /\ NextCallee(Top)
    /\ UNCHANGED <<confVars, pc, images, walk, stack, seen, done, ret, tmpgen,
                   ended, diskVars>>

\* image_setup() / image_generate() of an image that is already done
CallDone ==
    /\ Walking /\ ~AtEnd
    /\ done[Called] = walk
    /\ NextCallee(Top)
    /\ UNCHANGED <<confVars, pc, images, walk, stack, seen, done, ret, tmpgen,
                   ended, diskVars>>

\* "recursive dependency detected"
CallSeen ==
    /\ Walking /\ ~AtEnd
    /\ done[Called] # walk /\ seen[Called] = walk
    /\ Fail("recursive")
    /\ UNCHANGED diskVars

CallEnter ==
    /\ Walking /\ ~AtEnd
    /\ done[Called] # walk /\ seen[Called] # walk
    /\ seen' = [seen EXCEPT ![Called] = walk]
    /\ stack' = Append(stack, Called)
    /\ pos' = [pos EXCEPT ![Called] = 1]
    /\ UNCHANGED <<confVars, pc, images, walk, done, ret, tmpgen, ended, diskVars>>

\* Mutant: image->done is not set.
ReturnUnmarked ==
    /\ stack' = SubSeq(stack, 1, Len(stack) - 1)
    /\ NextCallee(stack[Len(stack) - 1])
    /\ UNCHANGED <<confVars, images, walk, seen, done, ret, tmpgen, ended>>

\* The function returns 0 to the frame below, which goes on with its loop.
Return ==
    /\ done' = [done EXCEPT ![Top] = walk]
    /\ stack' = SubSeq(stack, 1, Len(stack) - 1)
    /\ NextCallee(stack[Len(stack) - 1])
    /\ UNCHANGED <<confVars, images, walk, seen, ret, tmpgen, ended>>

\* handler->setup(): may also meet a bad number and exit(1)
Setup ==
    /\ pc = "setup" /\ AtEnd /\ Top # Main
    /\ UNCHANGED out
    /\ MayUseTmp
    /\ \/ Return /\ UNCHANGED pc
       \/ Fail("failed")
       \/ Abort

\* Every image is set up: export the paths, make the output directory.
SetupDone ==
    /\ pc = "setup" /\ AtEnd /\ Top = Main
    /\ UNCHANGED diskVars
    /\ \/ /\ pc' = "generate"
          /\ BeginWalk(1)
          /\ UNCHANGED <<confVars, images, ret, tmpgen, ended>>
       \/ Fail("failed")

\* exec-pre, then handler->generate() begins: the output file is in the
\* making, unless the image is an input file, which is used where it is.
StartGenerate ==
    /\ pc = "generate" /\ AtEnd /\ Top # Main
    /\ UNCHANGED tmp
    /\ \/ /\ pc' = "writing"
          /\ out' = IF Top \in Input THEN out
                    ELSE [out EXCEPT ![Top] = "partial"]
          /\ UNCHANGED <<confVars, images, walkVars, ret, tmpgen, ended>>
       \/ Fail("failed") /\ UNCHANGED out

\* Mutant: a failed handler's output stays.
KeepOutput(i) == [out EXCEPT ![i] = @]

\* What a failed handler has written is removed again, if it is a regular
\* file or a link.
RemoveOutput(i) == IF i \in Device THEN out ELSE [out EXCEPT ![i] = "absent"]

\* systemp(): WEXITSTATUS() of a child that a signal has killed is 0, and
\* what it has written so far stays.
KilledCommand(i) == i \in Killable /\ UNCHANGED out

\* handler->generate() returns.  An input file is only read.
EndGenerate ==
    /\ pc = "writing"
    /\ MayUseTmp
    /\ \/ /\ pc' = "post"
          /\ \/ out' = IF Top \in Input THEN out ELSE [out EXCEPT ![Top] = "new"]
             \/ KilledCommand(Top)
          /\ UNCHANGED <<confVars, images, walkVars, ret, tmpgen, ended>>
       \/ /\ Top \notin Input
          /\ out' = RemoveOutput(Top)
          /\ Fail("failed")

\* exec-post
ExecPost ==
    /\ pc = "post"
    /\ UNCHANGED diskVars
    /\ \/ Return /\ pc' = "generate"
       \/ Fail("failed")

GenerateDone ==
    /\ pc = "generate" /\ AtEnd /\ Top = Main
    /\ pc' = "cleanup"
    /\ UNCHANGED <<confVars, images, walkVars, ret, tmpgen, ended, diskVars>>

-----------------------------------------------------------------------------
\* Mutants: a directory that was there is not emptied; one that was not
\* checked yet is emptied, too.
CleanedIfMade == IF tmpgen = "CREATED" THEN "absent" ELSE tmp
CleanedAnyway == IF tmpgen = "CREATED" THEN "absent" ELSE "empty"

\* cleanup(): what becomes of tmppath.  Nobody looks at the result of rm -rf,
\* so that something may be left.
Cleaned == CASE tmpgen = "CREATED" -> "absent"
             [] tmpgen = "CHECKED" -> "empty"
             [] OTHER -> tmp
NotCleaned == IF tmp = "ours" THEN "left" ELSE tmp

\* cleanup: and "return ret ? 1 : 0"
Cleanup ==
    /\ pc = "cleanup"
    /\ tmp' \in {Cleaned, NotCleaned}
    /\ pc' = "exited"
    /\ ended' = IF ret = "ok" THEN "ok" ELSE "error"
    /\ UNCHANGED <<confVars, images, walkVars, ret, tmpgen, out>>

\* The user interrupts the process, or the machine goes down.
Kill ==
    /\ pc # "exited"
    /\ pc' = "exited"
    /\ ended' = "killed"
    /\ UNCHANGED <<confVars, images, walkVars, ret, tmpgen, diskVars>>

\* genimage is started again, in a process of its own; for it the files it
\* finds are just files.
Start ==
    /\ pc = "exited" /\ runs < MaxRuns
    /\ pc' = "start"
    /\ images' = <<>>
    /\ walk' = 0
    /\ stack' = <<Main>>
    /\ pos' = [f \in Frame |-> 1]
    /\ seen' = [i \in Image |-> 0]
    /\ done' = [i \in Image |-> 0]
    /\ ret' = "ok"
    /\ tmpgen' = "NONE"
    /\ ended' = "no"
    /\ runs' = runs + 1
    /\ tmp' = IF tmp \in {"ours", "left"} THEN "foreign" ELSE tmp
    /\ out' = [i \in Image |-> IF out[i] = "absent" THEN "absent" ELSE "old"]
    /\ UNCHANGED conf

Step ==
    \/ LoadConfig \/ CheckTmpPath \/ ParseImage \/ ParseDone \/ Resolve
    \/ CollectMountpoints
    \/ CallDone \/ CallSeen \/ CallEnter
    \/ Setup \/ SetupDone
    \/ StartGenerate \/ EndGenerate \/ ExecPost \/ GenerateDone
    \/ Cleanup

Next == Step \/ Kill \/ Start

\* genimage is one thread that waits for nothing but its child processes, and
\* those are taken to end; nothing makes anyone start it again.
Spec == Init /\ [][Next]_vars
FairSpec == Spec /\ WF_vars(Step)

-----------------------------------------------------------------------------
(* Properties *)

Ready(i) == \A k \in DOMAIN conf.parts[i] : done[conf.parts[i][k]] = walk
Running(i) == pc \in {"writing", "post"} /\ i = Top

(* An image is set up, or generated, after every image its partitions name: *)
(* when its handler writes, and ever after, all of them are done in the     *)
(* same walk.  This is what the recursion in image_setup() and              *)
(* image_generate() is for.                                                 *)
DependenciesFirst ==
    walk # 0 => \A i \in Image : done[i] = walk \/ Running(i) => Ready(i)

(* No image is generated before every image is set up, and the walks never  *)
(* meet a partition whose image is unknown: the "could not find" branches   *)
(* of both functions are dead once main() has added the implicit images.    *)
SetupBeforeGenerate ==
    /\ walk # 0 => \A k \in DOMAIN images : AllKnown(k)
    /\ walk = 1 => \A k \in DOMAIN images : done[images[k]] # 0

(* "recursive dependency detected" is only reported for a real cycle: the   *)
(* image called again is on the stack, and the frames above it are a chain  *)
(* of partitions that leads back to it.                                     *)
RecursionIsReal ==
    ret = "recursive" =>
        \E k \in 2..Len(stack) :
            /\ Called = stack[k]
            /\ \A n \in k..(Len(stack) - 1) :
                  stack[n + 1] \in RangeOf(conf.parts[stack[n]])

\* The images that i is made from, directly or not: the least set with those
\* of its partitions, theirs, and so on.
DependsOn(i) ==
    {j \in Image : \A S \in SUBSET Image :
        /\ RangeOf(conf.parts[i]) \subseteq S
        /\ \A m \in S : RangeOf(conf.parts[m]) \subseteq S
        => j \in S}

(* An image that depends on itself, directly or not, is never generated.    *)
CycleNeverBuilt ==
    \A i \in Image : done[i] # 0 => i \notin DependsOn(i)

(* Exit status 0 means that every image of the list was generated by this   *)
(* run, and that its output file is the new one, not one of an earlier run, *)
(* if systemp() has told the truth about each command.                      *)
Built(i) == done[i] = 1 /\ (i \in Input \/ out[i] = "new")
HalfBuilt(i) == i \in Killable /\ done[i] = 1 /\ out[i] = "partial"

SuccessMeansBuilt ==
    ended = "ok" /\ RangeOf(conf.sections) \cap Conflicting = {} =>
        \A i \in RangeOf(images) : Built(i) \/ HalfBuilt(i)

(* The same of a command that a signal kills: systemp(), "printf wrapper    *)
(* around 'system'", should report it as system() does.                     *)
SuccessAlwaysMeansBuilt ==
    ended = "ok" /\ RangeOf(conf.sections) \cap Conflicting = {} =>
        \A i \in RangeOf(images) : Built(i)

(* A run that ends by itself leaves no half-written output file behind: a   *)
(* failed handler's file is removed.  A block device cannot be, and that a  *)
(* command was killed goes unnoticed.                                       *)
NoPartialOutput ==
    ended \in {"ok", "error", "abort"} =>
        \A i \in Image \ (Device \cup Killable) : out[i] # "partial"

(* A run that returns from main() leaves nothing in tmppath, so that the    *)
(* next run accepts it, but what rm -rf could not remove; one that is       *)
(* killed or calls exit(1) may.                                             *)
TmpLeftClean == ended \in {"ok", "error"} => tmp # "ours"

(* Files in tmppath that genimage did not make are never removed, neither   *)
(* when the run is refused nor when it fails before the check.              *)
ForeignTmpKept == [][tmp = "foreign" => tmp' = "foreign"]_vars

(* Whatever the graph, cycles included, a run comes to its end.             *)
Terminates == []<>(pc = "exited")

(* The driver keeps the promise of BuildOrder, if no section has both       *)
(* srcpath and mountpoint: what it is asked for are the images of the       *)
(* sections and of their partitions.                                        *)
Uses == [i \in Image |-> RangeOf(conf.parts[i])]
Wanted == RangeOf(conf.sections) \cup UNION {Uses[i] : i \in RangeOf(conf.sections)}
Generated == {i \in Image : done[i] = 1}
Outcome == CASE pc # "exited" -> "running"
             [] pc = "exited" /\ ended = "ok" -> "success"
             [] OTHER -> "failure"

Abstract == INSTANCE BuildOrder WITH
    uses <- Uses, wanted <- Wanted, built <- Generated, outcome <- Outcome
ImplementsBuildOrder == Abstract!Spec
=============================================================================
