----------------------------- MODULE BuildOrder -----------------------------
(***************************************************************************)
(* What a run of genimage promises, and nothing of how it keeps it: the    *)
(* images of a configuration are completed one at a time, each only after  *)
(* every image it is made from, and the run reports success only when all  *)
(* of them are complete.  It may give up at any point, and it may be run   *)
(* again, which starts over.                                               *)
(***************************************************************************)
EXTENDS Naturals

CONSTANT Image      \* the names of all images

VARIABLES
    uses,           \* uses[i]: the images that image i is made from
    wanted,         \* the images this configuration asks for
    built,          \* the images completed by this run
    outcome         \* "running", or how the run ended: "success" / "failure"

vars == <<uses, wanted, built, outcome>>

Init ==
    /\ uses \in [Image -> SUBSET Image]
    /\ wanted \in SUBSET Image
    /\ built = {}
    /\ outcome = "running"

\* An image is completed once everything it is made from is complete.
Build(i) ==
    /\ outcome = "running"
    /\ i \in wanted \ built
    /\ uses[i] \subseteq built
    /\ built' = built \cup {i}
    /\ UNCHANGED <<uses, wanted, outcome>>

Succeed ==
    /\ outcome = "running"
    /\ built = wanted
    /\ outcome' = "success"
    /\ UNCHANGED <<uses, wanted, built>>

GiveUp ==
    /\ outcome = "running"
    /\ outcome' = "failure"
    /\ UNCHANGED <<uses, wanted, built>>

\* The next run on the same configuration starts from nothing.
Again ==
    /\ outcome # "running"
    /\ outcome' = "running"
    /\ built' = {}
    /\ UNCHANGED <<uses, wanted>>

Next == (\E i \in Image : Build(i)) \/ Succeed \/ GiveUp \/ Again

Spec == Init /\ [][Next]_vars
=============================================================================
