----------------------------- MODULE FlashTypes -----------------------------
(***************************************************************************)
(* Which flash an image is made for (genimage.c, set_flash_type() and what *)
(* comes before and after it).  A section may name a flash section; an     *)
(* image with a flash type then gives it to the images of its partitions,  *)
(* in one pass over the list of images, and the handlers for flash refuse  *)
(* an image without one.  Names are distinct from those of FlashImage, so  *)
(* that a module can extend both.                                          *)
(***************************************************************************)
EXTENDS Integers, Sequences

CONSTANTS
    Image,
    FlashName,          \* names of flash sections, NoType among them
    NoType,             \* a null pointer: no flash type
    Sections,           \* the flash sections that there are
    Lists               \* lists of images: the image sections in order and
                        \* behind them the implicit ones

List ==
    [order : Seq(Image),
     parts : [Image -> Seq(Image)],
     flashtype : [Image -> FlashName],      \* NoType for an input file
     needs : SUBSET Image]                  \* flash, jffs2, ubi and ubifs

ASSUME TypesType ==
    Sections \subseteq FlashName /\ NoType \in FlashName \ Sections
ASSUME ListsType == Lists \subseteq List

VARIABLES
    graph,
    stage,             \* "parse", "propagate", "setup", "done" or "failed"
    type,           \* image->flash_type
    cur, part,      \* the cursors of the loops over images and partitions
    ready,          \* images that have been set up
    clash           \* the image of which "conflicting flash types" is said

typesVars == <<graph, stage, type, cur, part, ready, clash>>

RangeOf(s) == {s[k] : k \in DOMAIN s}

TypesOK ==
    /\ graph \in List
    /\ stage \in {"parse", "propagate", "setup", "done", "failed"}
    /\ type \in [Image -> Sections \cup {NoType}]
    /\ cur \in 1..(Len(graph.order) + 1)
    /\ part \in Nat \ {0}
    /\ ready \subseteq Image
    /\ clash \subseteq Image

TypesInit ==
    /\ graph \in Lists
    /\ stage = "parse"
    /\ type = [i \in Image |-> NoType]
    /\ cur = 1 /\ part = 1
    /\ ready = {} /\ clash = {}

-----------------------------------------------------------------------------
AtEnd == cur > Len(graph.order)
This == graph.order[cur]

\* flash_type_get() finds no section of another name, which is no error.
Given(i) == IF graph.flashtype[i] \in Sections THEN graph.flashtype[i] ELSE NoType

ParseImage ==
    /\ stage = "parse" /\ ~AtEnd
    /\ type' = [type EXCEPT ![This] = Given(This)]
    /\ cur' = cur + 1
    /\ UNCHANGED <<graph, stage, part, ready, clash>>

ParseDone ==
    /\ stage = "parse" /\ AtEnd
    /\ stage' = "propagate"
    /\ cur' = 1
    /\ UNCHANGED <<graph, type, part, ready, clash>>

-----------------------------------------------------------------------------
\* set_flash_type()
HasPart == stage = "propagate" /\ ~AtEnd /\ part <= Len(graph.parts[This])
Child == graph.parts[This][part]

\* Mutant: the type of the parent wins.
Overrides == type[This] # NoType

\* The image of the partition has no type yet.
Receives == type[This] # NoType /\ type[Child] = NoType

\* An image without a type has none to give; after the last partition.
NextImage ==
    /\ stage = "propagate" /\ ~AtEnd
    /\ type[This] = NoType \/ ~HasPart
    /\ cur' = cur + 1
    /\ part' = 1
    /\ UNCHANGED <<graph, stage, type, ready, clash>>

GiveType ==
    /\ HasPart /\ Receives
    /\ type' = [type EXCEPT ![Child] = type[This]]
    /\ part' = part + 1
    /\ UNCHANGED <<graph, stage, cur, ready, clash>>

\* Mutant: any type will do.
Agrees == type[Child] # NoType

Same == type[Child] = type[This]

HasType ==
    /\ HasPart /\ type[This] # NoType /\ ~Receives
    /\ Same
    /\ part' = part + 1
    /\ UNCHANGED <<graph, stage, type, cur, ready, clash>>

Conflict ==
    /\ HasPart /\ type[This] # NoType /\ ~Receives
    /\ ~Same
    /\ stage' = "failed"
    /\ clash' = {Child}
    /\ UNCHANGED <<graph, type, cur, part, ready>>

PropagateDone ==
    /\ stage = "propagate" /\ AtEnd
    /\ stage' = "setup"
    /\ UNCHANGED <<graph, type, cur, part, ready, clash>>

-----------------------------------------------------------------------------
\* handler->setup() of an image after those of its partitions: "no flash type
\* given" ends the run.
Setup(i) ==
    /\ stage = "setup"
    /\ i \in RangeOf(graph.order) \ ready
    /\ RangeOf(graph.parts[i]) \subseteq ready
    /\ IF i \in graph.needs /\ type[i] = NoType
       THEN stage' = "failed" /\ UNCHANGED ready
       ELSE ready' = ready \cup {i} /\ UNCHANGED stage
    /\ UNCHANGED <<graph, type, cur, part, clash>>

AllSetUp ==
    /\ stage = "setup" /\ RangeOf(graph.order) \subseteq ready
    /\ stage' = "done"
    /\ UNCHANGED <<graph, type, cur, part, ready, clash>>

TypesNext ==
    \/ ParseImage \/ ParseDone
    \/ NextImage \/ GiveType \/ HasType \/ Conflict \/ PropagateDone
    \/ \E i \in Image : Setup(i)
    \/ AllSetUp

TypesSpec == TypesInit /\ [][TypesNext]_typesVars

-----------------------------------------------------------------------------
(* Properties *)

Propagated == stage \in {"setup", "done"}

\* Sections are listed before those of the images of their partitions.
TopDown ==
    \A m, n \in DOMAIN graph.order :
        graph.order[n] \in RangeOf(graph.parts[graph.order[m]]) => m < n

(* An image and what it is made of are for the same flash: what the handler *)
(* of a volume computes with is what the image that contains it is laid out *)
(* for.  set_flash_type() sees to this for an image whose own section names *)
(* the flash, and for all images if parents are listed before children.     *)
OneFlash ==
    Propagated =>
        \A i \in RangeOf(graph.order) :
            type[i] # NoType /\ (Given(i) # NoType \/ TopDown) =>
                \A c \in RangeOf(graph.parts[i]) : type[c] = type[i]

\* The images that i is a part of, directly or not, and i: what is in every
\* set with i and all images that have one of the set as a part.
UpClosed(S) == \A j \in Image : RangeOf(graph.parts[j]) \cap S # {} => j \in S
Above(i) == {j \in Image : \A S \in SUBSET Image : i \in S /\ UpClosed(S) => j \in S}

Origins(i) == {Given(j) : j \in Above(i)} \ {NoType}

(* A flash type has been named, by the image's own section or by one above  *)
(* it in the graph, and a conflict is one between two that were: no order   *)
(* of the sections makes up either.                                         *)
TypesAreNamed ==
    /\ \A i \in Image : type[i] # NoType => type[i] \in Origins(i)
    /\ \A i \in Image :
          Given(i) # NoType /\ stage # "parse" /\ i \in RangeOf(graph.order) =>
              type[i] = Given(i)
    /\ \A i \in clash : \E s, t \in Origins(i) : s # t
=============================================================================
