--------------------------- MODULE GenimageProofs ---------------------------
(***************************************************************************)
(* Theorems about the driver: for every set of images and configurations,  *)
(* and, at the end, about its options (Options).                           *)
(*                                                                         *)
(* The safety properties of Genimage speak of what the walk has achieved;  *)
(* that they stay true depends on how it gets there, on the frames of its  *)
(* stack.  IInv says so: the frames are a chain of pairwise different      *)
(* images, each the one its caller's cursor is at; what a cursor has       *)
(* passed is done; and an image marked as seen is done or on the stack.    *)
(***************************************************************************)
EXTENDS Genimage, Options, SequenceTheorems, TLAPS

Before == {"start", "checktmp", "parse", "resolve", "mount"}
Generating == {"generate", "writing", "post"}

(* pc tells which walk is going on; a handler runs for an image whose       *)
(* partitions have all been visited.                                        *)
PcInv ==
    /\ pc \in Before => walk = 0
    /\ pc = "setup" => walk = -1
    /\ pc \in Generating => walk = 1
    /\ pc \in {"writing", "post"} => AtEnd /\ Top # Main
    /\ ret = "recursive" => pc \in {"cleanup", "exited"}

(* Marks of a walk that has not begun do not exist.                         *)
MarkInv ==
    /\ walk = 0 => /\ stack = <<Main>>
                   /\ \A i \in Image : done[i] = 0 /\ seen[i] = 0
    /\ walk = -1 => \A i \in Image : done[i] # 1 /\ seen[i] # 1

FrameInv ==
    /\ Len(stack) >= 1 /\ stack[1] = Main
    /\ \A j \in 2..Len(stack) :
          stack[j] \in Image /\ done[stack[j]] # walk /\ seen[stack[j]] = walk
    /\ \A j, m \in 1..Len(stack) : stack[j] = stack[m] => j = m

ChainInv ==
    \A j \in 1..(Len(stack) - 1) :
        /\ pos[stack[j]] \in 1..Len(Callees(stack[j]))
        /\ Callees(stack[j])[pos[stack[j]]] = stack[j + 1]

CursorInv ==
    walk # 0 => \A j \in 1..Len(stack) : \A n \in DOMAIN Callees(stack[j]) :
                   n < pos[stack[j]] => done[Callees(stack[j])[n]] = walk

ClosedInv == walk # 0 => \A i \in Image : done[i] = walk => Ready(i)

SeenInv ==
    walk # 0 => \A i \in Image :
        seen[i] = walk => done[i] = walk \/ \E j \in 2..Len(stack) : stack[j] = i

WalkInv ==
    PcInv /\ MarkInv /\ FrameInv /\ ChainInv /\ CursorInv /\ ClosedInv /\ SeenInv

IInv == TypeOK /\ WalkInv /\ RecursionIsReal

-----------------------------------------------------------------------------
(* The frame on top exists; the element its cursor is at is an image.       *)
LEMMA TopType ==
    ASSUME TypeOK, FrameInv
    PROVE  /\ Top \in Frame
           /\ Len(stack) \in Nat \ {0}
           /\ Callees(Top) \in Seq(Image)
           /\ pos[Top] \in Nat \ {0}
           /\ ~AtEnd => pos[Top] \in DOMAIN Callees(Top) /\ Called \in Image
<1>1. Len(stack) \in Nat \ {0} /\ Top \in Frame
  BY DEF TypeOK, FrameInv, Top
<1>2. Callees(Top) \in Seq(Image)
  BY <1>1 DEF TypeOK, Callees, Frame
<1>3. pos[Top] \in Nat \ {0}
  BY <1>1 DEF TypeOK
<1> QED
  BY <1>1, <1>2, <1>3 DEF AtEnd, Called

(* The loop that adds implicit images touches the list and its cursors.     *)
LEMMA ResolveType ==
    ASSUME TypeOK, FrameInv, Resolve
    PROVE  TypeOK' /\ UNCHANGED <<confVars, walk, stack, seen, done, tmpgen, ended, diskVars>>
<1> USE DEF TypeOK
<1>1. UNCHANGED <<confVars, walk, stack, seen, done, tmpgen, ended, diskVars>>
  BY DEF Resolve, Fail, walkVars
<1>2. CASE ResolvePart /\ UNCHANGED ret
  <2>1. Called \in Image
    BY <1>2, TopType DEF ResolvePart
  <2>2. conf.parts[Called] \in Seq(Image) /\ pos[Called] \in Nat \ {0} /\ Called \in Frame
    BY <2>1 DEF Frame
  <2>3. conf.parts[Called][pos[Called]] \in Image
    BY <1>2, <2>2 DEF ResolvePart
  <2>4. images' \in Seq(Image)
    BY <1>2, <2>3 DEF ResolvePart
  <2>5. pos' \in [Frame -> Nat \ {0}]
    BY <1>2, <2>2 DEF ResolvePart, NextCallee
  <2> QED
    BY <1>1, <1>2, <2>4, <2>5 DEF ResolvePart, confVars, diskVars
<1>3. CASE ResolveNext /\ UNCHANGED ret
  <2>1. Called \in Image /\ Called # Main /\ Called \in Frame /\ Main \in Frame
    BY <1>3, TopType, MainIsNoImage DEF ResolveNext, Frame
  <2>2. pos[Main] + 1 \in Nat \ {0} /\ 1 \in Nat \ {0}
    BY <2>1
  <2>3. pos' = [[pos EXCEPT ![Called] = 1] EXCEPT ![Main] = pos[Main] + 1]
    BY <1>3, <2>1 DEF ResolveNext
  <2>4. pos' \in [Frame -> Nat \ {0}]
    BY <2>1, <2>2, <2>3
  <2>5. UNCHANGED <<pc, images, ret>>
    BY <1>3 DEF ResolveNext
  <2> QED
    BY <1>1, <2>4, <2>5 DEF confVars, diskVars
<1>4. CASE ResolveDone /\ UNCHANGED ret
  BY <1>1, <1>4 DEF ResolveDone, confVars, diskVars
<1>5. CASE Fail("failed")
  BY <1>1, <1>5 DEF Fail, confVars, diskVars, walkVars
<1> QED
  BY <1>1, <1>2, <1>3, <1>4, <1>5 DEF Resolve

(* Types survive every step; that a frame returns to an existing one is     *)
(* what FrameInv is needed for.                                             *)
LEMMA TypeStep ==
    ASSUME IInv, [Next]_vars
    PROVE  TypeOK'
<1> USE DEF IInv, WalkInv
<1>t. TypeOK /\ FrameInv
  OBVIOUS
<1> USE DEF TypeOK, diskVars, confVars, walkVars
<1>n. ASSUME NEW f \in Frame, NextCallee(f)
      PROVE  pos' \in [Frame -> Nat \ {0}]
  <2>1. pos[f] + 1 \in Nat \ {0}
    OBVIOUS
  <2> QED
    BY <1>n, <2>1 DEF NextCallee
<1>1. CASE LoadConfig
  BY <1>1 DEF LoadConfig, Fail
<1>2. CASE CheckTmpPath
  BY <1>2 DEF CheckTmpPath, Abort
<1>3. CASE ParseImage
  <2>1. conf.sections[Len(images) + 1] \in Image
    BY <1>3 DEF ParseImage
  <2>2. images' \in Seq(Image)
    BY <1>3, <2>1 DEF ParseImage
  <2>3. /\ pc' \in {"parse", "cleanup", "exited"} /\ ret' \in {ret, "failed"}
        /\ ended' \in {ended, "abort"}
        /\ UNCHANGED <<confVars, walkVars, tmpgen, diskVars>>
    BY <1>3 DEF ParseImage
  <2> QED
    BY <2>2, <2>3
<1>4. CASE ParseDone
  BY <1>4 DEF ParseDone
<1>5. CASE Resolve
  BY <1>5, <1>t, ResolveType
<1>6. CASE CollectMountpoints
  BY <1>6 DEF CollectMountpoints, Fail, MayUseTmp, BeginWalk
<1>7. CASE CallDone
  <2>1. Top \in Frame
    BY <1>t, TopType
  <2>2. pos' \in [Frame -> Nat \ {0}]
    BY <1>7, <2>1, <1>n DEF CallDone
  <2> QED
    BY <1>7, <2>2 DEF CallDone
<1>8. CASE CallSeen
  BY <1>8 DEF CallSeen, Fail
<1>9. CASE CallEnter
  <2>1. Called \in Image
    BY <1>9, <1>t, TopType DEF CallEnter
  <2>2. stack' \in Seq(Frame)
    BY <1>9, <2>1 DEF CallEnter, Frame
  <2> QED
    BY <1>9, <2>1, <2>2 DEF CallEnter
<1>10. ASSUME Return, Top # Main
       PROVE  /\ stack' \in Seq(Frame)
              /\ pos' \in [Frame -> Nat \ {0}]
              /\ done' \in [Image -> {-1, 0, 1}]
              /\ UNCHANGED <<confVars, images, walk, seen, ret, tmpgen, ended>>
  <2>1. stack' \in Seq(Frame)
    <3>1. Len(stack) \in Nat
      OBVIOUS
    <3>2. \A j \in 1..(Len(stack) - 1) : stack[j] \in Frame
      OBVIOUS
    <3> QED
      BY <1>10, <3>1, <3>2, SubSeqProperties DEF Return
  <2>2. done' \in [Image -> {-1, 0, 1}]
    BY <1>10 DEF Return
  <2>3. stack[Len(stack) - 1] \in Frame
    BY <1>10 DEF FrameInv, Top
  <2> QED
    BY <1>10, <1>n, <2>1, <2>2, <2>3 DEF Return
<1>11. CASE Setup
  <2>1. CASE Return /\ UNCHANGED pc
    BY <1>11, <1>10, <2>1 DEF Setup, MayUseTmp
  <2> QED
    BY <1>11, <2>1 DEF Setup, Fail, Abort, MayUseTmp
<1>12. CASE SetupDone
  BY <1>12 DEF SetupDone, Fail, BeginWalk
<1>13. CASE StartGenerate
  BY <1>13 DEF StartGenerate, Fail
<1>14. CASE EndGenerate
  <2>1. out' \in {out, [out EXCEPT ![Top] = "new"], [out EXCEPT ![Top] = "absent"]}
    BY <1>14 DEF EndGenerate, KilledCommand, RemoveOutput
  <2>2. /\ pc' \in {"post", "cleanup"} /\ ret' \in {ret, "failed"} /\ tmp' \in {tmp, "ours"}
        /\ UNCHANGED <<confVars, images, walkVars, tmpgen, ended>>
    BY <1>14 DEF EndGenerate, Fail, MayUseTmp
  <2>3. out' \in [Image -> {"absent", "old", "partial", "new"}]
    BY <2>1
  <2> QED
    BY <2>2, <2>3
<1>15. CASE ExecPost
  <2>1. CASE Return /\ pc' = "generate"
    BY <1>15, <1>10, <2>1 DEF ExecPost, PcInv
  <2> QED
    BY <1>15, <2>1 DEF ExecPost, Fail
<1>16. CASE GenerateDone
  BY <1>16 DEF GenerateDone
<1>17. CASE Cleanup
  BY <1>17 DEF Cleanup, Cleaned, NotCleaned
<1>18. CASE Kill
  BY <1>18 DEF Kill
<1>19. CASE Start
  <2>1. stack' \in Seq(Frame)
    BY <1>19 DEF Start, Frame
  <2> QED
    BY <1>19, <2>1 DEF Start
<1>20. CASE UNCHANGED vars
  BY <1>20 DEF vars
<1> QED
  BY <1>1, <1>2, <1>3, <1>4, <1>5, <1>6, <1>7, <1>8, <1>9, <1>11, <1>12, <1>13,
     <1>14, <1>15, <1>16, <1>17, <1>18, <1>19, <1>20 DEF Next, Step

(* A step that leaves the walk alone keeps its invariant.                   *)
LEMMA QuietStep ==
    ASSUME WalkInv, UNCHANGED <<conf, images, walkVars>>, PcInv'
    PROVE  WalkInv'
BY DEF WalkInv, MarkInv, FrameInv, ChainInv, CursorInv, ClosedInv, SeenInv,
       walkVars, Callees, Ready

(* An error return is a quiet step.                                         *)
LEMMA FailStep ==
    ASSUME WalkInv, Fail("failed")
    PROVE  WalkInv' /\ RecursionIsReal'
<1>1. PcInv'
  BY DEF Fail, PcInv, Before, Generating
<1>2. UNCHANGED <<conf, images, walkVars>>
  BY DEF Fail, confVars
<1> QED
  BY <1>1, <1>2, QuietStep DEF Fail, RecursionIsReal

(* exit(1) and a kill change nothing the invariant speaks of.               *)
LEMMA AbortStep ==
    ASSUME WalkInv, RecursionIsReal, Abort
    PROVE  WalkInv' /\ RecursionIsReal'
<1>1. PcInv'
  BY DEF Abort, WalkInv, PcInv, Before, Generating
<1>2. UNCHANGED <<conf, images, walkVars, ret>>
  BY DEF Abort, confVars
<1> QED
  BY <1>1, <1>2, QuietStep DEF RecursionIsReal, Called, Callees, Top, walkVars

(* Before the first walk there is only the frame of main().                 *)
LEMMA BeforeWalk ==
    ASSUME IInv, walk = 0, walk' = 0, UNCHANGED <<stack, seen, done>>, PcInv'
    PROVE  WalkInv'
<1> USE DEF IInv, WalkInv
<1>1. stack' = <<Main>> /\ Len(stack') = 1
  BY DEF MarkInv
<1>2. MarkInv' /\ FrameInv'
  BY <1>1 DEF MarkInv, FrameInv
<1>3. ChainInv'
  BY <1>1 DEF ChainInv
<1> QED
  BY <1>2, <1>3 DEF CursorInv, ClosedInv, SeenInv

(* A walk begins with the cursor of main() at the first image and with      *)
(* marks that nothing carries yet.                                          *)
LEMMA BeginWalkStep ==
    ASSUME IInv, NEW sign \in {-1, 1}, BeginWalk(sign),
           UNCHANGED <<conf, images>>, stack = <<Main>>,
           \A i \in Image : done[i] # sign /\ seen[i] # sign,
           sign = -1 => \A i \in Image : done[i] = 0 /\ seen[i] = 0,
           PcInv'
    PROVE  WalkInv'
<1> USE DEF IInv, WalkInv, BeginWalk
<1>1. stack' = <<Main>> /\ Len(stack') = 1 /\ stack'[1] = Main
  OBVIOUS
<1>2. pos'[Main] = 1
  BY DEF TypeOK, Frame
<1>3. MarkInv' /\ FrameInv'
  BY <1>1 DEF MarkInv, FrameInv
<1>4. ChainInv'
  BY <1>1 DEF ChainInv
<1>5. CursorInv'
  <2>1. Callees(Main)' \in Seq(Image)
    BY DEF TypeOK, Callees
  <2>2. \A n \in DOMAIN Callees(Main)' : ~(n < 1)
    BY <2>1
  <2> QED
    BY <1>1, <1>2, <2>2 DEF CursorInv
<1>6. ClosedInv' /\ SeenInv'
  BY DEF ClosedInv, SeenInv
<1> QED
  BY <1>3, <1>4, <1>5, <1>6

-----------------------------------------------------------------------------
(* The steps of a walk.                                                     *)
LEMMA CallDoneStep ==
    ASSUME IInv, CallDone
    PROVE  WalkInv' /\ RecursionIsReal'
<1> USE DEF IInv, WalkInv
<1> DEFINE L == Len(stack)
<1>1. /\ L \in Nat \ {0} /\ Top \in Frame /\ pos[Top] \in Nat \ {0}
      /\ Top = stack[L]
  BY TopType DEF Top
<1>2. /\ UNCHANGED <<conf, images, walk, stack, seen, done, pc, ret>>
      /\ pos' = [pos EXCEPT ![Top] = @ + 1]
      /\ done[Called] = walk /\ pc \in {"setup", "generate"}
  BY DEF CallDone, NextCallee, Walking, confVars
<1>3. PcInv' /\ MarkInv' /\ FrameInv'
  BY <1>2 DEF PcInv, MarkInv, FrameInv
<1>4. \A f \in Frame : f # Top => pos'[f] = pos[f]
  BY <1>2 DEF TypeOK
<1>5. pos'[Top] = pos[Top] + 1
  BY <1>1, <1>2 DEF TypeOK
<1>6. ChainInv'
  <2>1. \A j \in 1..(L - 1) : stack[j] # Top /\ stack[j] \in Frame
    BY <1>1 DEF FrameInv, Frame
  <2> QED
    BY <1>2, <1>4, <2>1 DEF ChainInv, Callees
<1>7. CursorInv'
  <2> SUFFICES ASSUME walk # 0, NEW j \in 1..L,
                      NEW n \in DOMAIN Callees(stack[j]), n < pos'[stack[j]]
               PROVE  done[Callees(stack[j])[n]] = walk
    BY <1>2 DEF CursorInv, Callees
  <2>0. n \in Nat /\ stack[j] \in Frame
    BY DEF TypeOK, Callees, Frame
  <2>1. CASE stack[j] # Top
    BY <1>4, <2>0, <2>1 DEF CursorInv
  <2>2. CASE stack[j] = Top /\ n = pos[Top]
    BY <1>2, <2>2 DEF Called
  <2>3. CASE stack[j] = Top /\ n # pos[Top]
    <3>1. n < pos[stack[j]]
      BY <1>1, <1>5, <2>0, <2>3
    <3> QED
      BY <3>1 DEF CursorInv
  <2> QED
    BY <2>1, <2>2, <2>3
<1>8. ClosedInv' /\ SeenInv'
  BY <1>2 DEF ClosedInv, SeenInv, Ready
<1>9. RecursionIsReal'
  BY <1>2 DEF RecursionIsReal, PcInv
<1> QED
  BY <1>3, <1>6, <1>7, <1>8, <1>9

(* The image called again is marked but not done, so it is on the stack,    *)
(* and the frames from there to the top are a chain.                        *)
LEMMA CallSeenStep ==
    ASSUME IInv, CallSeen
    PROVE  WalkInv' /\ RecursionIsReal'
<1> USE DEF IInv, WalkInv
<1>1. /\ UNCHANGED <<conf, images, walkVars>>
      /\ pc' = "cleanup"
      /\ done[Called] # walk /\ seen[Called] = walk /\ walk # 0
  BY DEF CallSeen, Fail, confVars, PcInv, Walking, Generating
<1>2. PcInv'
  BY <1>1 DEF PcInv, Before, Generating
<1>3. Called \in Image
  BY TopType DEF CallSeen
<1>4. PICK m \in 2..Len(stack) : stack[m] = Called
  BY <1>1, <1>3 DEF SeenInv
<1>5. \A n \in m..(Len(stack) - 1) :
         stack[n + 1] \in RangeOf(conf.parts[stack[n]])
  <2> SUFFICES ASSUME NEW n \in m..(Len(stack) - 1)
               PROVE  stack[n + 1] \in RangeOf(conf.parts[stack[n]])
    OBVIOUS
  <2>0. Len(stack) \in Nat
    BY DEF TypeOK
  <2>1. n \in 2..Len(stack) /\ n \in 1..(Len(stack) - 1)
    BY <2>0
  <2>2. stack[n] \in Image
    BY <2>1 DEF FrameInv
  <2>3. Callees(stack[n]) = conf.parts[stack[n]]
    BY <2>2, MainIsNoImage DEF Callees
  <2>4. conf.parts[stack[n]] \in Seq(Image)
    BY <2>2 DEF TypeOK
  <2>5. /\ pos[stack[n]] \in 1..Len(conf.parts[stack[n]])
        /\ conf.parts[stack[n]][pos[stack[n]]] = stack[n + 1]
    BY <2>1, <2>3 DEF ChainInv
  <2>6. pos[stack[n]] \in DOMAIN conf.parts[stack[n]]
    BY <2>4, <2>5
  <2> QED
    BY <2>5, <2>6 DEF RangeOf
<1>6. RecursionIsReal'
  BY <1>1, <1>4, <1>5 DEF RecursionIsReal, Called, Callees, Top, walkVars
<1> QED
  BY <1>1, <1>2, <1>6, QuietStep

(* The image entered was not marked; its caller's list leads to it.         *)
LEMMA CallEnterStep ==
    ASSUME IInv, CallEnter
    PROVE  WalkInv' /\ RecursionIsReal'
<1> USE DEF IInv, WalkInv
<1> DEFINE L == Len(stack)
           c == Called
<1>1. /\ L \in Nat \ {0} /\ Top \in Frame /\ Top = stack[L] /\ c \in Image
      /\ pos[Top] \in DOMAIN Callees(Top)
  BY TopType DEF Top, CallEnter
<1>2. /\ UNCHANGED <<conf, images, walk, done, pc, ret>>
      /\ seen' = [seen EXCEPT ![c] = walk]
      /\ stack' = Append(stack, c)
      /\ pos' = [pos EXCEPT ![c] = 1]
      /\ done[c] # walk /\ seen[c] # walk /\ pc \in {"setup", "generate"}
  BY DEF CallEnter, Walking, confVars
<1>3. walk # 0
  BY <1>2 DEF PcInv, Generating
<1>4. /\ Len(stack') = L + 1 /\ stack'[L + 1] = c
      /\ \A j \in 1..L : stack'[j] = stack[j]
  BY <1>1, <1>2 DEF TypeOK, Frame
<1>5. c # Main /\ \A j \in 1..L : stack[j] # c /\ stack[j] \in Frame
  BY SMTT(30), <1>1, <1>2, MainIsNoImage DEF FrameInv, TypeOK
<1>6. /\ pos'[c] = 1 /\ \A f \in Frame : f # c => pos'[f] = pos[f]
      /\ seen'[c] = walk /\ \A i \in Image : i # c => seen'[i] = seen[i]
  BY <1>1, <1>2 DEF TypeOK, Frame
<1>7. PcInv' /\ MarkInv'
  BY <1>2, <1>3, <1>6 DEF PcInv, MarkInv
<1>8. FrameInv'
  <2>1. Len(stack') >= 1 /\ stack'[1] = Main
    BY <1>1, <1>4 DEF FrameInv
  <2>2. ASSUME NEW j \in 2..(L + 1)
        PROVE  stack'[j] \in Image /\ done[stack'[j]] # walk
                                   /\ seen'[stack'[j]] = walk
    <3>1. CASE j = L + 1
      BY <1>1, <1>2, <1>4, <1>6, <3>1
    <3>2. CASE j # L + 1
      BY <1>1, <1>4, <1>5, <1>6, <3>2 DEF FrameInv
    <3> QED
      BY <3>1, <3>2
  <2>3. ASSUME NEW j \in 1..(L + 1), NEW m \in 1..(L + 1), stack'[j] = stack'[m]
        PROVE  j = m
    BY <1>1, <1>4, <1>5, <2>3 DEF FrameInv
  <2> QED
    BY <1>2, <1>4, <2>1, <2>2, <2>3 DEF FrameInv
<1>9. \A f \in Frame : Callees(f)' = Callees(f)
  BY <1>2 DEF Callees
<1>10. ChainInv'
  <2> SUFFICES ASSUME NEW j \in 1..L
               PROVE  /\ pos'[stack[j]] \in 1..Len(Callees(stack[j]))
                      /\ Callees(stack[j])[pos'[stack[j]]] = stack'[j + 1]
    BY <1>1, <1>4, <1>5, <1>9 DEF ChainInv
  <2>1. pos'[stack[j]] = pos[stack[j]]
    BY <1>5, <1>6
  <2>2. CASE j = L
    <3>1. Callees(Top) \in Seq(Image)
      BY TopType
    <3> QED
      BY <1>1, <1>4, <2>1, <2>2, <3>1 DEF Called
  <2>3. CASE j # L
    BY <1>1, <1>4, <2>1, <2>3 DEF ChainInv
  <2> QED
    BY <2>2, <2>3
<1>11. CursorInv'
  <2> SUFFICES ASSUME NEW j \in 1..(L + 1),
                      NEW n \in DOMAIN Callees(stack'[j]), n < pos'[stack'[j]]
               PROVE  done[Callees(stack'[j])[n]] = walk
    <3>1. UNCHANGED <<conf, images, walk, done>> /\ Len(stack') = L + 1
      BY <1>2, <1>4 DEF confVars
    <3> QED
      BY <3>1 DEF CursorInv, Callees
  <2>1. CASE j = L + 1
    <3>1. Callees(c) \in Seq(Image)
      BY <1>1 DEF TypeOK, Callees
    <3> QED
      BY <1>4, <1>6, <2>1, <3>1
  <2>2. CASE j # L + 1
    <3>1. j \in 1..L /\ stack'[j] = stack[j]
      BY <1>1, <1>4, <2>2
    <3>2. pos'[stack[j]] = pos[stack[j]]
      BY <1>5, <1>6, <3>1
    <3>3. n \in DOMAIN Callees(stack[j]) /\ n < pos[stack[j]]
      BY <3>1, <3>2
    <3> QED
      BY <1>3, <3>1, <3>3 DEF CursorInv
  <2> QED
    BY <2>1, <2>2
<1>12. ClosedInv'
  BY <1>2 DEF ClosedInv, Ready
<1>13. SeenInv'
  <2> SUFFICES ASSUME NEW i \in Image, seen'[i] = walk
               PROVE  done[i] = walk \/ \E j \in 2..(L + 1) : stack'[j] = i
    BY <1>2, <1>4 DEF SeenInv
  <2>1. CASE i = c
    BY <1>1, <1>4, <2>1
  <2>2. CASE i # c
    <3>1. done[i] = walk \/ \E j \in 2..L : stack[j] = i
      BY <1>3, <1>6, <2>2 DEF SeenInv
    <3> QED
      BY <1>1, <1>4, <3>1
  <2> QED
    BY <2>1, <2>2
<1>14. RecursionIsReal'
  BY <1>2 DEF RecursionIsReal, PcInv
<1> QED
  BY <1>7, <1>8, <1>10, <1>11, <1>12, <1>13, <1>14

(* The image on top is done, and its caller's cursor passes it.             *)
LEMMA ReturnStep ==
    ASSUME IInv, Return, AtEnd, Top # Main, walk # 0, PcInv'
    PROVE  WalkInv'
<1> USE DEF IInv, WalkInv
<1> DEFINE L == Len(stack)
           t == Top
           f == stack[L - 1]
<1>1. L \in Nat \ {0} /\ t \in Image /\ t = stack[L] /\ pos[t] \in Nat \ {0}
  BY TopType DEF Top, Frame
<1>2. L >= 2 /\ L - 1 \in 1..(L - 1) /\ f \in Frame
  BY <1>1 DEF FrameInv, TypeOK
<1>3. /\ UNCHANGED <<conf, images, walk, seen>>
      /\ done' = [done EXCEPT ![t] = walk]
      /\ stack' = SubSeq(stack, 1, L - 1)
      /\ pos' = [pos EXCEPT ![f] = @ + 1]
  BY DEF Return, NextCallee, confVars
<1>4. /\ Len(stack') = L - 1
      /\ \A j \in 1..(L - 1) : stack'[j] = stack[j] /\ stack[j] \in Frame
  <2>1. \A j \in 1..(L - 1) : stack[j] \in Frame
    BY <1>1 DEF TypeOK
  <2> QED
    BY <1>1, <1>2, <1>3, <2>1, SubSeqProperties
<1>5. /\ done'[t] = walk /\ \A i \in Image : i # t => done'[i] = done[i]
      /\ \A i \in Image : done[i] = walk => done'[i] = walk
      /\ \A g \in Frame : g # f => pos'[g] = pos[g]
      /\ pos'[f] = pos[f] + 1
  BY <1>1, <1>2, <1>3 DEF TypeOK
<1>6. /\ \A j \in 1..(L - 1) : stack[j] # t
      /\ \A j \in 1..(L - 2) : stack[j] # f
  BY <1>1, <1>2 DEF FrameInv
<1>8. MarkInv'
  BY <1>3, <1>5, <1>1 DEF MarkInv
<1>9. FrameInv'
  <2>1. Len(stack') >= 1 /\ stack'[1] = Main
    BY <1>2, <1>4 DEF FrameInv
  <2>2. ASSUME NEW j \in 2..(L - 1)
        PROVE  stack'[j] \in Image /\ done'[stack'[j]] # walk
                                   /\ seen[stack'[j]] = walk
    <3>1. stack'[j] = stack[j] /\ stack[j] # t /\ j \in 2..L
      BY <1>1, <1>4, <1>6
    <3> QED
      BY <1>5, <3>1 DEF FrameInv
  <2>3. ASSUME NEW j \in 1..(L - 1), NEW m \in 1..(L - 1), stack'[j] = stack'[m]
        PROVE  j = m
    BY <1>1, <1>4, <2>3 DEF FrameInv
  <2> QED
    BY <1>3, <1>4, <2>1, <2>2, <2>3 DEF FrameInv
<1>10. ChainInv'
  <2> SUFFICES ASSUME NEW j \in 1..(L - 2)
               PROVE  /\ pos'[stack[j]] \in 1..Len(Callees(stack[j]))
                      /\ Callees(stack[j])[pos'[stack[j]]] = stack'[j + 1]
    <3>1. \A j \in 1..(L - 2) : stack'[j] = stack[j]
      BY <1>1, <1>4
    <3>2. \A x : Callees(x)' = Callees(x)
      BY <1>3 DEF Callees
    <3>3. 1..(Len(stack') - 1) = 1..(L - 2)
      BY <1>1, <1>4
    <3> QED
      BY <3>1, <3>2, <3>3 DEF ChainInv
  <2>1. pos'[stack[j]] = pos[stack[j]] /\ stack'[j + 1] = stack[j + 1]
    BY <1>1, <1>4, <1>5, <1>6
  <2> QED
    BY SMTT(30), <1>1, <2>1 DEF ChainInv
<1>11. CursorInv'
  <2> SUFFICES ASSUME NEW j \in 1..(L - 1),
                      NEW n \in DOMAIN Callees(stack'[j]), n < pos'[stack'[j]]
               PROVE  done'[Callees(stack'[j])[n]] = walk
    <3>1. UNCHANGED <<conf, images, walk>> /\ Len(stack') = L - 1
      BY <1>3, <1>4
    <3> QED
      BY <3>1 DEF CursorInv, Callees
  <2>0. stack'[j] = stack[j]
    BY <1>4
  <2>1. /\ stack[j] \in Frame /\ j \in 1..L
        /\ Callees(stack[j]) \in Seq(Image)
    BY SMTT(30), <1>1, <1>4 DEF TypeOK, Callees, Frame
  <2>2. Callees(stack[j])[n] \in Image /\ n \in Nat
    BY <2>0, <2>1
  <2>3. CASE n < pos[stack[j]]
    <3>1. done[Callees(stack[j])[n]] = walk
      BY <2>0, <2>1, <2>3 DEF CursorInv
    <3> QED
      BY <1>5, <2>0, <2>2, <3>1
  <2>4. CASE ~(n < pos[stack[j]])
    <3>1. stack[j] = f
      BY <1>5, <2>0, <2>1, <2>4
    <3>2. pos[f] \in Nat
      BY <1>2 DEF TypeOK
    <3>3. n = pos[f]
      BY <1>5, <2>0, <2>2, <2>4, <3>1, <3>2
    <3>4. Callees(f)[pos[f]] = stack[L]
      BY <1>1, <1>2 DEF ChainInv
    <3> QED
      BY <1>1, <1>5, <2>0, <3>1, <3>3, <3>4
  <2> QED
    BY <2>3, <2>4
<1>12. ClosedInv'
  <2> SUFFICES ASSUME NEW i \in Image, done'[i] = walk,
                      NEW n \in DOMAIN conf.parts[i]
               PROVE  done'[conf.parts[i][n]] = walk
    BY <1>3 DEF ClosedInv, Ready
  <2>1. conf.parts[i] \in Seq(Image) /\ conf.parts[i][n] \in Image
    BY DEF TypeOK
  <2>2. CASE i = t
    <3>1. Callees(t) = conf.parts[i] /\ n \in Nat
      BY <2>1, <2>2, <1>1, MainIsNoImage DEF Callees
    <3>2. n < pos[t]
      BY <1>1, <2>1, <3>1 DEF AtEnd
    <3>3. done[conf.parts[i][n]] = walk
      BY <1>1, <3>1, <3>2 DEF CursorInv
    <3> QED
      BY <1>5, <2>1, <3>3
  <2>3. CASE i # t
    <3>1. done[conf.parts[i][n]] = walk
      BY <1>5, <2>3 DEF ClosedInv, Ready
    <3> QED
      BY <1>5, <2>1, <3>1
  <2> QED
    BY <2>2, <2>3
<1>13. SeenInv'
  <2> SUFFICES ASSUME NEW i \in Image, seen[i] = walk, i # t
               PROVE  done'[i] = walk \/ \E j \in 2..(L - 1) : stack'[j] = i
    BY <1>3, <1>4, <1>5 DEF SeenInv
  <2>1. CASE done[i] = walk
    BY <1>5, <2>1
  <2>2. CASE done[i] # walk
    <3>1. PICK j \in 2..L : stack[j] = i
      BY <2>2 DEF SeenInv
    <3>2. j \in 2..(L - 1)
      BY <1>1, <3>1
    <3> QED
      BY <1>1, <1>4, <3>1, <3>2
  <2> QED
    BY <2>1, <2>2
<1> QED
  BY <1>8, <1>9, <1>10, <1>11, <1>12, <1>13

-----------------------------------------------------------------------------
(* A fresh process has only the frame of main() and no marks.               *)
LEMMA InitInv == Init => IInv
<1> SUFFICES ASSUME Init PROVE IInv
  OBVIOUS
<1> USE DEF Init
<1>1. TypeOK
  BY ConfigsType DEF TypeOK, Frame
<1>2. stack = <<Main>> /\ Len(stack) = 1 /\ stack[1] = Main
  OBVIOUS
<1>3. PcInv /\ MarkInv /\ FrameInv /\ ChainInv
  BY <1>2 DEF PcInv, MarkInv, FrameInv, ChainInv, Before, Generating
<1>4. CursorInv /\ ClosedInv /\ SeenInv /\ RecursionIsReal
  BY DEF CursorInv, ClosedInv, SeenInv, RecursionIsReal
<1> QED
  BY <1>1, <1>3, <1>4 DEF IInv, WalkInv

(* One case per action; those that fail, exit or are killed are alike.      *)
LEMMA WalkStep ==
    ASSUME IInv, [Next]_vars
    PROVE  WalkInv' /\ RecursionIsReal'
<1> USE DEF IInv
<1> DEFINE Goal == WalkInv' /\ RecursionIsReal'
<1>f. ASSUME Fail("failed") PROVE Goal
  BY <1>f, FailStep
<1>a. ASSUME Abort PROVE Goal
  BY <1>a, AbortStep
<1>q. ASSUME UNCHANGED <<conf, images, walkVars, ret>>, PcInv'
      PROVE  Goal
  BY <1>q, QuietStep DEF RecursionIsReal, Called, Callees, Top, walkVars
<1>b. ASSUME walk = 0, walk' = 0, UNCHANGED <<stack, seen, done>>, PcInv',
             ret' # "recursive"
      PROVE  Goal
  BY <1>b, BeforeWalk DEF RecursionIsReal
<1>z. pc \in Before => walk = 0 /\ ret # "recursive"
  BY DEF WalkInv, PcInv, Before
<1>1. CASE LoadConfig
  <2>1. CASE pc' = "checktmp" /\ UNCHANGED <<confVars, images, walkVars, ret>>
    <3>1. PcInv'
      BY <1>1, <1>z, <2>1 DEF LoadConfig, PcInv, Before, Generating, walkVars
    <3> QED
      BY <1>q, <2>1, <3>1 DEF confVars
  <2> QED
    BY <1>1, <1>f, <2>1 DEF LoadConfig
<1>2. CASE CheckTmpPath
  <2>1. CASE pc' = "parse" /\ UNCHANGED <<confVars, images, walkVars, ret>>
    <3>1. PcInv'
      BY <1>2, <1>z, <2>1 DEF CheckTmpPath, PcInv, Before, Generating, walkVars
    <3> QED
      BY <1>q, <2>1, <3>1 DEF confVars
  <2> QED
    BY <1>2, <1>a, <2>1 DEF CheckTmpPath
<1>3. CASE ParseImage
  <2>1. /\ walk = 0 /\ UNCHANGED walkVars /\ ret' # "recursive"
        /\ pc' \in {"parse", "cleanup", "exited"}
    BY <1>3, <1>z DEF ParseImage, Before
  <2>2. PcInv'
    BY <2>1 DEF PcInv, Before, Generating, walkVars
  <2> QED
    BY <1>b, <2>1, <2>2 DEF walkVars
<1>4. CASE ParseDone
  <2>1. PcInv'
    BY <1>4, <1>z DEF ParseDone, PcInv, Before, Generating, walkVars
  <2> QED
    BY <1>4, <1>q, <2>1 DEF ParseDone, confVars
<1>5. CASE Resolve
  <2>1. CASE Fail("failed")
    BY <1>f, <2>1
  <2>2. CASE /\ UNCHANGED <<walk, stack, seen, done, ret>>
             /\ pc' \in {"resolve", "mount"}
    <3>1. walk = 0 /\ ret # "recursive"
      BY <1>5, <1>z DEF Resolve, Before
    <3>2. PcInv'
      BY <2>2, <3>1 DEF PcInv, Before, Generating
    <3> QED
      BY <1>b, <2>2, <3>1, <3>2
  <2> QED
    BY <1>5, <2>1, <2>2 DEF Resolve, ResolvePart, ResolveNext, ResolveDone
<1>6. CASE CollectMountpoints
  <2>1. CASE pc' = "setup" /\ BeginWalk(-1)
               /\ UNCHANGED <<confVars, images, ret, tmpgen, ended>>
    <3>1. walk = 0 /\ ret # "recursive"
      BY <1>6, <1>z DEF CollectMountpoints, Before
    <3>2. PcInv'
      BY <2>1, <3>1 DEF PcInv, Before, Generating, BeginWalk
    <3>3. stack = <<Main>> /\ \A i \in Image : done[i] = 0 /\ seen[i] = 0
      BY <3>1 DEF WalkInv, MarkInv
    <3>4. WalkInv'
      BY <2>1, <3>2, <3>3, BeginWalkStep DEF confVars
    <3> QED
      BY <2>1, <3>1, <3>4 DEF RecursionIsReal
  <2> QED
    BY <1>6, <1>f, <2>1 DEF CollectMountpoints
<1>7. CASE CallDone
  BY <1>7, CallDoneStep
<1>8. CASE CallSeen
  BY <1>8, CallSeenStep
<1>9. CASE CallEnter
  BY <1>9, CallEnterStep
<1>r. ASSUME Return, AtEnd, Top # Main, pc' \in {"setup", "generate"},
             (pc = "setup" /\ pc' = "setup") \/ (pc = "post" /\ pc' = "generate")
      PROVE  Goal
  <2>1. walk # 0 /\ walk' = walk /\ ret' = ret /\ ret # "recursive"
    BY <1>r DEF Return, WalkInv, PcInv, Generating
  <2>2. PcInv'
    BY <1>r, <2>1 DEF WalkInv, PcInv, Before, Generating
  <2> QED
    BY <1>r, <2>1, <2>2, ReturnStep DEF RecursionIsReal
<1>10. CASE Setup
  <2>1. CASE Return /\ UNCHANGED pc
    <3>1. pc = "setup" /\ AtEnd /\ Top # Main
      BY <1>10 DEF Setup
    <3>2. pc' = "setup" /\ pc' \in {"setup", "generate"}
      BY <2>1, <3>1
    <3>3. Return
      BY <2>1
    <3> QED
      BY <1>r, <3>1, <3>2, <3>3
  <2> QED
    BY <1>10, <1>f, <1>a, <2>1 DEF Setup
<1>11. CASE SetupDone
  <2>1. CASE pc' = "generate" /\ BeginWalk(1)
               /\ UNCHANGED <<confVars, images, ret, tmpgen, ended>>
    <3>1. walk = -1 /\ ret # "recursive" /\ Top = Main
      BY <1>11 DEF SetupDone, WalkInv, PcInv
    <3>2. PcInv'
      BY <2>1, <3>1 DEF PcInv, Before, Generating, BeginWalk
    <3>3. stack = <<Main>>
      <4>0. FrameInv /\ Len(stack) \in Nat \ {0} /\ stack[Len(stack)] = Main
        BY <3>1, TopType DEF WalkInv, Top
      <4>1. Len(stack) = 1 /\ stack[1] = Main
        <5>1. 1 \in 1..Len(stack) /\ Len(stack) \in 1..Len(stack)
          BY <4>0
        <5>2. stack[1] = stack[Len(stack)]
          BY <4>0 DEF FrameInv
        <5> QED
          BY <4>0, <5>1, <5>2 DEF FrameInv
      <4> QED
        BY <4>1 DEF TypeOK
    <3>4. \A i \in Image : done[i] # 1 /\ seen[i] # 1
      BY <3>1 DEF WalkInv, MarkInv
    <3>5. WalkInv'
      BY <2>1, <3>2, <3>3, <3>4, BeginWalkStep DEF confVars
    <3> QED
      BY <2>1, <3>1, <3>5 DEF RecursionIsReal
  <2> QED
    BY <1>11, <1>f, <2>1 DEF SetupDone
<1>12. CASE StartGenerate
  <2>1. CASE pc' = "writing" /\ UNCHANGED <<confVars, images, walkVars, ret>>
    <3>1. PcInv'
      BY <1>12, <2>1 DEF StartGenerate, WalkInv, PcInv, Before, Generating,
                         AtEnd, Top, Callees, walkVars, confVars
    <3> QED
      BY <1>q, <2>1, <3>1 DEF confVars
  <2> QED
    BY <1>12, <1>f, <2>1 DEF StartGenerate
<1>13. CASE EndGenerate
  <2>1. CASE pc' = "post" /\ UNCHANGED <<confVars, images, walkVars, ret>>
    <3>1. PcInv'
      BY <1>13, <2>1 DEF EndGenerate, WalkInv, PcInv, Before, Generating,
                         AtEnd, Top, Callees, walkVars, confVars
    <3> QED
      BY <1>q, <2>1, <3>1 DEF confVars
  <2> QED
    BY <1>13, <1>f, <2>1 DEF EndGenerate
<1>14. CASE ExecPost
  <2>1. CASE Return /\ pc' = "generate"
    <3>1. pc = "post" /\ AtEnd /\ Top # Main
      BY <1>14 DEF ExecPost, WalkInv, PcInv
    <3> QED
      BY <1>r, <2>1, <3>1
  <2> QED
    BY <1>14, <1>f, <2>1 DEF ExecPost
<1>15. CASE GenerateDone
  <2>1. PcInv'
    BY <1>15 DEF GenerateDone, WalkInv, PcInv, Before, Generating, walkVars
  <2> QED
    BY <1>15, <1>q, <2>1 DEF GenerateDone, confVars
<1>16. CASE Cleanup
  <2>1. PcInv'
    BY <1>16 DEF Cleanup, WalkInv, PcInv, Before, Generating, walkVars
  <2> QED
    BY <1>16, <1>q, <2>1 DEF Cleanup, confVars
<1>17. CASE Kill
  <2>1. PcInv'
    BY <1>17 DEF Kill, WalkInv, PcInv, Before, Generating, walkVars
  <2> QED
    BY <1>17, <1>q, <2>1 DEF Kill, confVars
<1>18. CASE Start
  <2>1. stack' = <<Main>> /\ Len(stack') = 1 /\ stack'[1] = Main
    BY <1>18 DEF Start
  <2>2. PcInv' /\ MarkInv' /\ FrameInv' /\ ChainInv'
    BY <1>18, <2>1 DEF Start, PcInv, MarkInv, FrameInv, ChainInv, Before, Generating
  <2>3. CursorInv' /\ ClosedInv' /\ SeenInv' /\ RecursionIsReal'
    BY <1>18 DEF Start, CursorInv, ClosedInv, SeenInv, RecursionIsReal
  <2> QED
    BY <2>2, <2>3 DEF WalkInv
<1>19. CASE UNCHANGED vars
  <2>1. PcInv'
    BY <1>19 DEF vars, WalkInv, PcInv, Before, Generating, walkVars, confVars,
                 AtEnd, Top, Callees
  <2> QED
    BY <1>19, <1>q, <2>1 DEF vars, confVars
<1> QED
  BY <1>1, <1>2, <1>3, <1>4, <1>5, <1>6, <1>7, <1>8, <1>9, <1>10, <1>11, <1>12,
     <1>13, <1>14, <1>15, <1>16, <1>17, <1>18, <1>19 DEF Next, Step

(* The walks of image_setup() and image_generate() keep the invariant, over *)
(* any number of runs.                                                      *)
THEOREM Invariance == Spec => []IInv
<1>1. IInv /\ [Next]_vars => IInv'
  BY TypeStep, WalkStep DEF IInv
<1> QED
  BY <1>1, InitInv, PTL DEF Spec

(* Every variable keeps its type: no cursor, mark or file state outside of  *)
(* those that the code of main() and of the two walks knows.                *)
THEOREM TypeCorrect == Spec => []TypeOK
<1>1. IInv => TypeOK
  BY DEF IInv
<1> QED
  BY <1>1, Invariance, PTL

(* Whatever the dependency graph, image_setup() and image_generate() only   *)
(* run the handler of an image after those of all its partitions' images.   *)
THEOREM DependenciesFirstHolds == Spec => []DependenciesFirst
<1>1. ASSUME IInv PROVE DependenciesFirst
  <2> USE <1>1 DEF IInv, WalkInv
  <2> SUFFICES ASSUME walk # 0, NEW i \in Image, done[i] = walk \/ Running(i)
               PROVE  Ready(i)
    BY DEF DependenciesFirst
  <2>1. CASE done[i] = walk
    BY <2>1 DEF ClosedInv
  <2>2. CASE Running(i)
    <3>1. i = Top /\ AtEnd /\ Top # Main
      BY <2>2 DEF Running, PcInv
    <3>2. /\ Len(stack) \in 1..Len(stack) /\ stack[Len(stack)] = Top
          /\ pos[Top] \in Nat /\ Callees(Top) \in Seq(Image)
      BY TopType DEF Top
    <3>3. Callees(Top) = conf.parts[i]
      BY <3>1 DEF Callees
    <3>4. \A n \in DOMAIN conf.parts[i] : n < pos[Top]
      BY <3>1, <3>2, <3>3 DEF AtEnd
    <3> QED
      BY <3>2, <3>3, <3>4 DEF CursorInv, Ready
  <2> QED
    BY <2>1, <2>2
<1> QED
  BY <1>1, Invariance, PTL

(* "recursive dependency detected" is never a false alarm.                  *)
THEOREM RecursionIsRealHolds == Spec => []RecursionIsReal
<1>1. IInv => RecursionIsReal
  BY DEF IInv
<1> QED
  BY <1>1, Invariance, PTL

-----------------------------------------------------------------------------
(* What the nested loop of main() has passed can be found, so that in the   *)
(* end every image of a partition can, of those too that it has appended;   *)
(* the second walk starts when the first has marked them all.               *)
Resolved ==
    /\ \A i \in Image : \A n \in DOMAIN conf.parts[i] : n < pos[i] => Known(conf.parts[i][n])
    /\ \A m \in DOMAIN images : m < pos[Main] => AllKnown(m)

ListInv ==
    /\ pc \in {"start", "checktmp", "parse"} => \A f \in Frame : pos[f] = 1
    /\ pc = "resolve" => Resolved
    /\ pc = "mount" \/ walk # 0 => \A m \in DOMAIN images : AllKnown(m)
    /\ walk = 1 => \A m \in DOMAIN images : done[images[m]] # 0

\* At the end of a walk the cursor of main() has passed the whole list.
LEMMA WalkComplete ==
    ASSUME IInv, walk # 0, AtEnd, Top = Main
    PROVE  \A m \in DOMAIN images : done[images[m]] = walk
<1> USE DEF IInv, WalkInv
<1>1. /\ Len(stack) \in 1..Len(stack) /\ stack[Len(stack)] = Main
      /\ pos[Main] \in Nat
  BY TopType DEF Top
<1>2. Callees(Main) = images /\ images \in Seq(Image)
  BY DEF Callees, TypeOK
<1>3. \A m \in DOMAIN images : m < pos[Main]
  BY <1>1, <1>2 DEF AtEnd
<1> QED
  BY <1>1, <1>2, <1>3 DEF CursorInv

(* The loop passes a partition when its image is known, an image when those *)
(* of all its partitions are, and what it appends comes behind its cursor.  *)
LEMMA ResolvedStep ==
    ASSUME IInv, Resolved, Resolve, pc' # "cleanup"
    PROVE  /\ pc' = "resolve" => Resolved'
           /\ pc' = "mount" => \A m \in DOMAIN images' : AllKnown(m)'
<1> USE DEF IInv
<1>1. /\ stack = <<Main>> /\ Main \in Frame /\ Main \notin Image
      /\ UNCHANGED <<conf, stack>> /\ pc = "resolve"
  BY MainIsNoImage DEF Resolve, Fail, WalkInv, PcInv, MarkInv, Before, Frame, confVars
<1>2. Top = Main /\ Callees(Top) = images
  BY <1>1 DEF Top, Callees
<1>3. /\ pos[Main] \in Nat /\ images \in Seq(Image)
      /\ ~AtEnd <=> pos[Main] \in DOMAIN images
      /\ Called = images[pos[Main]] /\ (~AtEnd => Called \in Image)
  BY <1>1, <1>2 DEF AtEnd, Called, TypeOK
<1>4. CASE ResolvePart
  <2>1. ~AtEnd /\ Called \in Image /\ Called # Main
    BY <1>1, <1>3, <1>4 DEF ResolvePart
  <2> DEFINE child == conf.parts[Called][pos[Called]]
  <2>2. child \in Image /\ pos[Called] \in DOMAIN conf.parts[Called]
    BY <1>4, <2>1 DEF ResolvePart, TypeOK, Frame
  <2>3. pos' = [pos EXCEPT ![Called] = @ + 1]
    BY <1>4 DEF ResolvePart, NextCallee
  <2>4. images' = (IF Known(child) THEN images ELSE Append(images, child))
    BY <1>4 DEF ResolvePart
  <2>5. /\ \A m \in DOMAIN images : m \in DOMAIN images' /\ images'[m] = images[m]
        /\ \A m \in DOMAIN images' : m \notin DOMAIN images => m = Len(images) + 1
        /\ RangeOf(images) \subseteq RangeOf(images') /\ child \in RangeOf(images')
    <3> HIDE DEF child
    <3>1. CASE Known(child)
      BY <2>4, <3>1, <1>3 DEF Known, RangeOf
    <3>2. CASE ~Known(child)
      BY <2>2, <2>4, <3>2, <1>3 DEF RangeOf
    <3> QED
      BY <3>1, <3>2
  <2>6. \A i \in Image : Known(i) => Known(i)'
    BY <2>5 DEF Known
  <2>7. ASSUME NEW i \in Image, NEW n \in DOMAIN conf.parts[i], n < pos'[i]
        PROVE  conf.parts[i][n] \in RangeOf(images')
    <3>1. i \in Frame /\ pos[i] \in Nat /\ n \in Nat /\ conf.parts[i][n] \in Image
      BY DEF Frame, TypeOK
    <3>2. CASE n < pos[i]
      BY <3>1, <3>2, <2>6 DEF Resolved, Known
    <3>3. CASE ~(n < pos[i])
      <4>1. i = Called /\ n = pos[i]
        BY <3>1, <3>3, <2>7, <2>3 DEF TypeOK
      <4> QED
        BY <4>1, <2>5
    <3> QED
      BY <3>2, <3>3
  <2>8. pos'[Main] = pos[Main]
    BY <2>1, <2>3
  <2>9. ASSUME NEW m \in DOMAIN images', m < pos'[Main]
        PROVE  AllKnown(m)'
    <3>1. m \in DOMAIN images /\ images'[m] = images[m] /\ images[m] \in Image
      BY <1>3, <2>1, <2>5, <2>8, <2>9
    <3>2. AllKnown(m)
      BY <2>8, <2>9, <3>1 DEF Resolved
    <3> QED
      BY <1>1, <2>6, <3>1, <3>2 DEF AllKnown, TypeOK
  <2> QED
    BY <1>1, <1>4, <2>7, <2>9 DEF Resolved, Known, ResolvePart
<1>5. CASE ResolveNext
  <2>1. ~AtEnd /\ Called \in Image /\ Called # Main /\ Called \in Frame
    BY <1>1, <1>3, <1>5 DEF ResolveNext, Frame
  <2>2. /\ images' = images /\ pos'[Main] = pos[Main] + 1
        /\ \A i \in Image : pos'[i] = pos[i] \/ (i = Called /\ pos'[i] = 1)
    BY <1>1, <1>5, <2>1 DEF ResolveNext, TypeOK, Frame
  <2>3. AllKnown(pos[Main])
    <3> SUFFICES ASSUME NEW n \in DOMAIN conf.parts[Called]
                 PROVE  Known(conf.parts[Called][n])
      BY <1>3 DEF AllKnown
    <3>1. n < pos[Called]
      BY <1>5, <2>1 DEF ResolveNext, TypeOK, Frame
    <3> QED
      BY <2>1, <3>1 DEF Resolved
  <2>4. ASSUME NEW i \in Image, NEW n \in DOMAIN conf.parts[i], n < pos'[i]
        PROVE  conf.parts[i][n] \in RangeOf(images')
    <3>0. n \in Nat /\ ~(n < 1)
      BY DEF TypeOK
    <3>1. n < pos[i]
      BY <2>2, <2>4, <3>0
    <3> QED
      BY <2>2, <3>1 DEF Resolved, Known
  <2>5. ASSUME NEW m \in DOMAIN images, m < pos'[Main]
        PROVE  AllKnown(m)
    BY <1>3, <2>2, <2>3, <2>5 DEF Resolved
  <2> QED
    BY <1>1, <1>5, <2>2, <2>4, <2>5 DEF Resolved, Known, AllKnown, ResolveNext
<1>6. CASE ResolveDone
  <2>1. \A m \in DOMAIN images : m < pos[Main]
    BY <1>3, <1>6 DEF ResolveDone, AtEnd, TypeOK, Frame
  <2> QED
    BY <1>1, <1>6, <2>1 DEF Resolved, Known, AllKnown, ResolveDone
<1> QED
  BY <1>4, <1>5, <1>6 DEF Resolve, Fail

(* The image list is complete when the walks begin, and set up when the     *)
(* second does.                                                             *)
LEMMA ListStep ==
    ASSUME IInv, ListInv, [Next]_vars
    PROVE  ListInv'
<1> USE DEF IInv
<1>z. /\ pc \in Before => walk = 0
      /\ pc \in {"setup", "generate"} => walk # 0
  BY DEF WalkInv, PcInv, Generating
<1>q. ASSUME UNCHANGED <<conf, images, walk, done>>,
             pc' \in {"mount", "resolve"} => pc = pc' /\ UNCHANGED pos,
             pc' \in {"start", "checktmp", "parse"}
                => pc \in {"start", "checktmp", "parse"} /\ UNCHANGED pos
      PROVE  ListInv'
  BY <1>q DEF ListInv, Resolved, AllKnown, Known
<1>b. ASSUME walk' = 0, pc' \notin {"mount", "resolve"},
             pc' \in {"start", "checktmp", "parse"} => \A f \in Frame : pos'[f] = 1
      PROVE  ListInv'
  BY <1>b DEF ListInv
<1>f. ASSUME Fail("failed") PROVE ListInv'
  BY <1>f, <1>q DEF Fail, confVars, walkVars
<1>a. ASSUME Abort PROVE ListInv'
  BY <1>a, <1>q DEF Abort, confVars, walkVars
<1>r. ASSUME Return, pc' \in {"setup", "generate"} PROVE ListInv'
  <2>1. /\ UNCHANGED <<conf, images, walk>>
        /\ \A i \in Image : done'[i] = done[i] \/ done'[i] = walk
    BY <1>r DEF Return, confVars, TypeOK
  <2>2. \A m \in DOMAIN images : images[m] \in Image
    BY DEF TypeOK
  <2> QED
    BY <1>r, <2>1, <2>2 DEF ListInv, AllKnown, Known
<1>1. CASE LoadConfig \/ CheckTmpPath
  BY <1>1, <1>q, <1>f, <1>a
     DEF LoadConfig, CheckTmpPath, confVars, walkVars
<1>2. CASE ParseImage
  BY <1>2, <1>z, <1>b DEF ParseImage, Before, walkVars, ListInv
<1>3. CASE ParseDone
  <2>1. walk' = 0 /\ pc' = "resolve" /\ pos' = pos /\ pc = "parse"
    BY <1>3, <1>z DEF ParseDone, Before, walkVars
  <2>2. (\A i \in Image : pos[i] = 1) /\ pos[Main] = 1
    BY <2>1 DEF ListInv, Frame
  <2>3. Resolved'
    BY <1>3, <2>1, <2>2 DEF Resolved, ParseDone, confVars, TypeOK
  <2> QED
    BY <2>1, <2>3 DEF ListInv
<1>4. CASE Resolve
  <2>1. walk = 0
    BY <1>4, <1>z DEF Resolve, Before
  <2>2. CASE pc' = "cleanup"
    BY <1>4, <2>1, <2>2, <1>b DEF Resolve, Fail, walkVars
  <2>3. CASE pc' # "cleanup"
    <3>1. walk' = 0 /\ pc' \in {"resolve", "mount"}
      BY <1>4, <2>1, <2>3 DEF Resolve, ResolvePart, ResolveNext, ResolveDone, Fail
    <3>2. Resolved
      BY <1>4 DEF Resolve, ListInv
    <3> QED
      BY <1>4, <2>3, <3>1, <3>2, ResolvedStep DEF ListInv
  <2> QED
    BY <2>2, <2>3
<1>5. CASE CollectMountpoints
  <2>1. CASE pc' = "setup" /\ BeginWalk(-1) /\ UNCHANGED <<confVars, images>>
    BY <1>5, <2>1 DEF CollectMountpoints, ListInv, AllKnown, Known, BeginWalk,
                      confVars
  <2> QED
    BY <1>5, <1>f, <2>1 DEF CollectMountpoints
<1>6. CASE CallDone \/ CallSeen \/ CallEnter
  BY <1>6, <1>q DEF CallDone, CallSeen, CallEnter, Fail, confVars, walkVars, Walking
<1>7. CASE Setup
  BY <1>7, <1>f, <1>a, <1>r DEF Setup
<1>8. CASE SetupDone
  <2>1. CASE pc' = "generate" /\ BeginWalk(1) /\ UNCHANGED <<confVars, images>>
    <3>1. walk = -1 /\ AtEnd /\ Top = Main
      BY <1>8 DEF SetupDone, WalkInv, PcInv
    <3>2. \A m \in DOMAIN images : done[images[m]] = -1
      BY <3>1, WalkComplete
    <3> QED
      BY <2>1, <3>1, <3>2 DEF ListInv, AllKnown, Known, BeginWalk, confVars
  <2> QED
    BY <1>8, <1>f, <2>1 DEF SetupDone
<1>9. CASE StartGenerate \/ EndGenerate
  BY <1>9, <1>q, <1>f DEF StartGenerate, EndGenerate, confVars, walkVars
<1>10. CASE ExecPost
  BY <1>10, <1>f, <1>r DEF ExecPost
<1>11. CASE GenerateDone \/ Cleanup \/ Kill
  BY <1>11, <1>q DEF GenerateDone, Cleanup, Kill, confVars, walkVars
<1>12. CASE Start
  BY <1>12, <1>b DEF Start
<1>13. CASE UNCHANGED vars
  BY <1>13, <1>q DEF vars, confVars, walkVars
<1> QED
  BY <1>1, <1>2, <1>3, <1>4, <1>5, <1>6, <1>7, <1>8, <1>9, <1>10, <1>11, <1>12,
     <1>13 DEF Next, Step

LEMMA ListInvariance == Spec => []ListInv
<1>1. Init => ListInv
  BY DEF Init, ListInv, Frame
<1>2. IInv /\ ListInv /\ [Next]_vars => ListInv'
  BY ListStep
<1> QED
  BY <1>1, <1>2, Invariance, PTL DEF Spec

(* image_generate() is never called before image_setup() is through with    *)
(* every image, and neither ever misses an image of a partition.            *)
THEOREM SetupBeforeGenerateHolds == Spec => []SetupBeforeGenerate
<1>1. ListInv => SetupBeforeGenerate
  BY DEF ListInv, SetupBeforeGenerate
<1> QED
  BY <1>1, ListInvariance, PTL

-----------------------------------------------------------------------------
(* What a run that ends well has written.                                   *)
NoConflict == RangeOf(conf.sections) \cap Conflicting = {}
Written(i) == i \in Input \/ out[i] = "new" \/ (i \in Killable /\ out[i] = "partial")

OutInv ==
    /\ pc = "exited" <=> ended # "no"
    /\ walk = 1 => \A i \in Image : done[i] = 1 => Written(i)
    /\ pc = "writing" => Top \in Input \/ out[Top] = "partial"
    /\ pc = "post" => Written(Top)
    /\ ret = "ok" /\ NoConflict /\ (pc = "cleanup" \/ ended = "ok") =>
         walk = 1 /\ \A m \in DOMAIN images : done[images[m]] = 1

(* The output of an image marked by the second walk is new and stays so,    *)
(* and only a complete walk leaves ret at 0.                                *)
LEMMA OutStep ==
    ASSUME IInv, OutInv, ended = "ok" => ret = "ok", [Next]_vars
    PROVE  OutInv' /\ (ended' = "ok" => ret' = "ok")
<1> USE DEF IInv
<1> DEFINE Goal == OutInv' /\ (ended' = "ok" => ret' = "ok")
<1>p. /\ pc \in Before => walk = 0
      /\ pc = "setup" => walk = -1
      /\ pc \in Generating => walk = 1
      /\ walk = -1 => \A i \in Image : done[i] # 1
      /\ pc \in {"writing", "post"} => Top # Main
  BY DEF WalkInv, PcInv, MarkInv
<1>q. ASSUME UNCHANGED <<conf, images, walkVars, out>>, pc # "exited",
             pc' \in {"checktmp", "parse", "resolve", "mount", "setup", "generate"},
             ended' = ended
      PROVE  Goal
  BY <1>q DEF OutInv, Written, Input, NoConflict, walkVars
<1>e. ASSUME pc # "exited", pc' = "exited", ended' \in {"abort", "killed"},
             UNCHANGED <<conf, images, walkVars, out>>
      PROVE  Goal
  BY <1>e DEF OutInv, Written, Input, NoConflict, walkVars
<1>f. ASSUME pc # "exited", Fail("failed") \/ Fail("recursive"), out' = out
      PROVE  Goal
  BY <1>f DEF OutInv, Written, Input, NoConflict, walkVars, confVars, Fail
<1>a. ASSUME pc # "exited", Abort, out' = out
      PROVE  Goal
  BY <1>a, <1>e DEF Abort, confVars
<1>r. ASSUME Return, out' = out, pc' \in {"setup", "generate"},
             pc = "setup" \/ pc = "post", Top # Main
      PROVE  Goal
  <2>1. /\ UNCHANGED <<conf, images, walk, ret, ended>>
        /\ \A i \in Image : i # Top => done'[i] = done[i]
        /\ walk # 0
    BY <1>r, <1>p DEF Return, confVars, TypeOK, Generating
  <2>2. walk = 1 => Written(Top)
    BY <1>r, <1>p DEF OutInv, Generating
  <2> QED
    BY <1>r, <2>1, <2>2 DEF OutInv, Written, Input, NoConflict
<1>1. CASE LoadConfig
  BY <1>1, <1>q, <1>f DEF LoadConfig, diskVars, confVars
<1>2. CASE CheckTmpPath
  BY <1>2, <1>q, <1>a DEF CheckTmpPath, confVars
<1>3. CASE ParseImage
  <2>1. /\ UNCHANGED <<conf, walkVars, out>> /\ walk = 0 /\ pc # "exited"
        /\ ended = "no"
    BY <1>3, <1>p DEF ParseImage, confVars, diskVars, Before, OutInv
  <2>2. CASE pc' = pc /\ ended' = ended
    BY <1>3, <2>1, <2>2 DEF ParseImage, OutInv, walkVars
  <2>3. CASE pc' = "cleanup" /\ ret' = "failed" /\ ended' = ended
    BY <2>1, <2>3 DEF OutInv, walkVars
  <2>4. CASE pc' = "exited" /\ ended' = "abort"
    BY <2>1, <2>4 DEF OutInv, walkVars
  <2>5. CASE /\ pc' = "cleanup" /\ UNCHANGED <<ret, ended>>
             /\ conf.sections[Len(images) + 1] \in Conflicting
    <3>1. conf.sections[Len(images) + 1] \in RangeOf(conf.sections)
      BY <1>3 DEF ParseImage, RangeOf, TypeOK
    <3>2. ~NoConflict'
      BY <2>1, <2>5, <3>1 DEF NoConflict
    <3> QED
      BY <2>1, <2>5, <3>2 DEF OutInv, walkVars
  <2> QED
    BY <1>3, <2>2, <2>3, <2>4, <2>5 DEF ParseImage
<1>4. CASE ParseDone
  BY <1>4, <1>q DEF ParseDone, confVars, diskVars
<1>5. CASE Resolve
  <2>1. CASE Fail("failed")
    BY <1>5, <1>f, <2>1 DEF Resolve, diskVars
  <2>2. CASE UNCHANGED <<confVars, walk, ret, ended>>
               /\ pc' \in {"resolve", "mount"}
    <3>1. walk' = 0 /\ pc # "exited"
      BY <1>5, <2>2, <1>p DEF Resolve, Before
    <3> QED
      BY <2>2, <3>1 DEF OutInv
  <2> QED
    BY <1>5, <2>1, <2>2 DEF Resolve, ResolvePart, ResolveNext, ResolveDone
<1>6. CASE CollectMountpoints
  <2>1. CASE Fail("failed")
    BY <1>6, <1>f, <2>1 DEF CollectMountpoints
  <2>2. CASE pc' = "setup" /\ BeginWalk(-1) /\ UNCHANGED <<ret, ended>>
    BY <1>6, <2>2 DEF CollectMountpoints, OutInv, BeginWalk
  <2> QED
    BY <1>6, <2>1, <2>2 DEF CollectMountpoints
<1>7. CASE CallDone
  <2>1. Top' = Top
    BY <1>7 DEF CallDone, Top
  <2> QED
    BY <1>7, <2>1 DEF CallDone, Walking, OutInv, Written, Input, NoConflict,
                      confVars, diskVars
<1>8. CASE CallSeen
  BY <1>8, <1>f DEF CallSeen, Walking, diskVars
<1>9. CASE CallEnter
  BY <1>9 DEF CallEnter, Walking, OutInv, Written, Input, NoConflict, confVars, diskVars
<1>10. CASE Setup
  BY <1>10, <1>r, <1>f, <1>a DEF Setup
<1>11. CASE SetupDone
  <2>1. CASE Fail("failed")
    BY <1>11, <1>f, <2>1 DEF SetupDone, diskVars
  <2>2. CASE pc' = "generate" /\ BeginWalk(1) /\ UNCHANGED <<ret, ended>>
    BY <1>11, <1>p, <2>2 DEF SetupDone, OutInv, BeginWalk
  <2> QED
    BY <1>11, <2>1, <2>2 DEF SetupDone
<1>t. pc \in Generating /\ Top # Main => Top \in Image /\ done[Top] # 1
  <2>1. FrameInv /\ Len(stack) \in Nat \ {0} /\ Top = stack[Len(stack)]
    BY TopType DEF WalkInv, Top
  <2>2. Top # Main => Len(stack) \in 2..Len(stack)
    BY <2>1 DEF FrameInv
  <2> QED
    BY <1>p, <2>1, <2>2 DEF FrameInv
<1>o. ASSUME pc \in Generating, Top # Main, UNCHANGED <<conf, images, walkVars, ended>>,
             \A i \in Image : i # Top => out'[i] = out[i],
             \/ pc' = "writing" /\ (Top \in Input \/ out[Top] = "partial")'
             \/ pc' = "post" /\ Written(Top)'
      PROVE  Goal
  <2>1. pc # "exited" /\ walk = 1
    BY <1>o, <1>p DEF Generating
  <2> QED
    BY <1>o, <1>t, <2>1 DEF OutInv, Written, Input, walkVars
<1>12. CASE StartGenerate
  <2>1. CASE Fail("failed") /\ out' = out
    BY <1>12, <1>f, <2>1 DEF StartGenerate
  <2>2. CASE /\ pc' = "writing" /\ UNCHANGED <<confVars, images, walkVars, ended>>
             /\ out' = IF Top \in Input THEN out ELSE [out EXCEPT ![Top] = "partial"]
    <3>1. Top # Main /\ Top \in Image
      BY <1>12, <1>t DEF StartGenerate, Generating
    <3>2. Top' = Top /\ Input' = Input
      BY <2>2 DEF Top, Input, walkVars, confVars
    <3>3. (Top \in Input \/ out[Top] = "partial")'
      BY <2>2, <3>1, <3>2 DEF TypeOK
    <3>4. \A i \in Image : i # Top => out'[i] = out[i]
      BY <2>2, <3>1 DEF TypeOK
    <3>5. pc \in Generating /\ UNCHANGED <<conf, images, walkVars, ended>>
      BY <1>12, <2>2 DEF StartGenerate, Generating, confVars
    <3>6. pc' = "writing" /\ (Top \in Input \/ out[Top] = "partial")'
      BY <2>2, <3>3
    <3> QED
      BY <1>o, <3>1, <3>4, <3>5, <3>6
  <2> QED
    BY <1>12, <2>1, <2>2 DEF StartGenerate
<1>13. CASE EndGenerate
  <2>0. Top # Main /\ Top \in Image
    BY <1>13, <1>p, <1>t DEF EndGenerate, Generating
  <2>1. CASE Fail("failed")
    <3>1. /\ walk = 1 /\ pc # "exited"
          /\ \A i \in Image : i # Top => out'[i] = out[i]
      BY <1>13, <1>p, <2>0, <2>1 DEF EndGenerate, RemoveOutput, Generating, TypeOK, Fail
    <3> QED
      BY <1>13, <1>t, <2>0, <2>1, <3>1 DEF EndGenerate, Fail, OutInv, Written, Input,
                             walkVars, confVars, Generating
  <2>2. CASE /\ pc' = "post" /\ UNCHANGED <<confVars, images, walkVars, ret, ended>>
             /\ \/ out' = IF Top \in Input THEN out ELSE [out EXCEPT ![Top] = "new"]
                \/ KilledCommand(Top)
    <3>1. Top' = Top /\ Input' = Input
      BY <2>2 DEF Top, Input, walkVars, confVars
    <3>2. Written(Top)'
      BY <1>13, <2>0, <2>2, <3>1
         DEF EndGenerate, KilledCommand, OutInv, Written, TypeOK
    <3>3. \A i \in Image : i # Top => out'[i] = out[i]
      BY <2>0, <2>2 DEF KilledCommand, TypeOK
    <3> QED
      BY <1>13, <1>o, <2>0, <2>2, <3>2, <3>3 DEF EndGenerate, Generating, confVars
  <2> QED
    BY <1>13, <2>1, <2>2 DEF EndGenerate
<1>14. CASE ExecPost
  BY <1>14, <1>p, <1>r, <1>f DEF ExecPost, diskVars
<1>15. CASE GenerateDone
  <2>1. walk = 1 /\ AtEnd /\ Top = Main
    BY <1>15, <1>p DEF GenerateDone, Generating
  <2>2. \A m \in DOMAIN images : done[images[m]] = 1
    BY <2>1, WalkComplete
  <2> QED
    BY <1>15, <2>1, <2>2 DEF GenerateDone, OutInv, Written, Input, NoConflict,
                             confVars, walkVars, diskVars
<1>16. CASE Cleanup
  BY <1>16 DEF Cleanup, OutInv, Written, Input, NoConflict, confVars, walkVars
<1>17. CASE Kill
  BY <1>17, <1>e DEF Kill, confVars, diskVars
<1>18. CASE Start
  BY <1>18 DEF Start, OutInv
<1>19. CASE UNCHANGED vars
  BY <1>19 DEF vars, OutInv, Written, Input, NoConflict, Top, confVars, walkVars, diskVars
<1> QED
  BY <1>1, <1>2, <1>3, <1>4, <1>5, <1>6, <1>7, <1>8, <1>9, <1>10, <1>11, <1>12,
     <1>13, <1>14, <1>15, <1>16, <1>17, <1>18, <1>19 DEF Next, Step

LEMMA OutInvariance == Spec => [](OutInv /\ (ended = "ok" => ret = "ok"))
<1> DEFINE Inv == OutInv /\ (ended = "ok" => ret = "ok")
<1>1. Init => Inv
  BY DEF Init, OutInv
<1>2. IInv /\ Inv /\ [Next]_vars => Inv'
  BY OutStep
<1> QED
  BY <1>1, <1>2, Invariance, PTL DEF Spec

(* Exit status 0 means that this run generated every image, except where    *)
(* main() leaves its loop over the sections with ret still 0.               *)
THEOREM SuccessMeansBuiltHolds == Spec => []SuccessMeansBuilt
<1>1. IInv /\ OutInv /\ (ended = "ok" => ret = "ok") => SuccessMeansBuilt
  BY DEF IInv, TypeOK, OutInv, SuccessMeansBuilt, Built, HalfBuilt, Written, NoConflict, RangeOf
<1> QED
  BY <1>1, Invariance, OutInvariance, PTL

-----------------------------------------------------------------------------
(* What a run leaves on disk.  tmppath is only used once it is checked, and *)
(* what is in it then is ours; an output file is only half written while    *)
(* its handler runs.                                                        *)
TmpInv ==
    /\ pc = "exited" <=> ended # "no"
    /\ pc \notin {"start", "checktmp", "cleanup", "exited"} => tmpgen # "NONE"
    /\ tmpgen = "NONE" => tmp # "ours"
    /\ tmp = "foreign" => tmpgen = "NONE"
    /\ TmpLeftClean

PartialInv ==
    \A i \in Image \ (Device \cup Killable) : out[i] = "partial" =>
        i \notin Input /\ ((pc = "writing" /\ i = Top) \/ ended = "killed")

(* The directory is claimed before it is used, and emptied if it was.       *)
LEMMA TmpStep ==
    ASSUME TypeOK, TmpInv, [Next]_vars
    PROVE  TmpInv' /\ (tmp = "foreign" => tmp' = "foreign")
<1> USE DEF TmpInv, TmpLeftClean
<1>u. ASSUME pc \notin {"start", "checktmp", "cleanup", "exited"}, MayUseTmp,
             \/ UNCHANGED <<tmpgen, ended>> /\ pc' # "exited"
             \/ Fail("failed")
             \/ Abort
      PROVE  TmpInv' /\ tmp # "foreign"
  BY <1>u DEF MayUseTmp, Fail, Abort
<1>1. CASE LoadConfig
  BY <1>1 DEF LoadConfig, diskVars, Fail
<1>2. CASE CheckTmpPath
  BY <1>2 DEF CheckTmpPath, Abort
<1>3. CASE ParseImage \/ ParseDone \/ Resolve
  BY <1>3 DEF ParseImage, ParseDone, Resolve, ResolvePart, ResolveNext, ResolveDone,
              diskVars, Fail
<1>4. CASE CollectMountpoints
  BY <1>4, <1>u DEF CollectMountpoints
<1>5. CASE CallDone \/ CallSeen \/ CallEnter
  BY <1>5 DEF CallDone, CallSeen, CallEnter, Walking, diskVars, Fail
<1>6. CASE Setup
  BY <1>6, <1>u DEF Setup, Return
<1>7. CASE SetupDone \/ StartGenerate \/ GenerateDone
  BY <1>7 DEF SetupDone, StartGenerate, GenerateDone, diskVars, Fail
<1>8. CASE EndGenerate
  BY <1>8, <1>u DEF EndGenerate
<1>9. CASE ExecPost
  BY <1>9 DEF ExecPost, Return, diskVars, Fail
<1>10. CASE Cleanup
  <2>1. tmpgen = "NONE" => Cleaned = tmp
    BY DEF Cleaned
  <2>2. tmpgen # "NONE" => Cleaned \in {"absent", "empty"} /\ tmp # "foreign"
    BY DEF Cleaned, TypeOK
  <2>3. NotCleaned # "ours" /\ (tmp = "foreign" <=> NotCleaned = "foreign")
    BY DEF NotCleaned
  <2> QED
    BY <1>10, <2>1, <2>2, <2>3 DEF Cleanup
<1>11. CASE Kill
  BY <1>11 DEF Kill, diskVars
<1>12. CASE Start
  BY <1>12 DEF Start
<1>13. CASE UNCHANGED vars
  BY <1>13 DEF vars, diskVars
<1> QED
  BY <1>1, <1>2, <1>3, <1>4, <1>5, <1>6, <1>7, <1>8, <1>9, <1>10, <1>11, <1>12,
     <1>13 DEF Next, Step

(* A file is half written only between the begin and the end of a handler.  *)
LEMMA PartialStep ==
    ASSUME IInv, TmpInv, PartialInv, [Next]_vars
    PROVE  PartialInv'
<1> USE DEF IInv
<1>q. ASSUME UNCHANGED <<conf, out>>, pc # "writing", pc # "exited"
      PROVE  PartialInv'
  BY <1>q DEF PartialInv, TmpInv, Input
<1>1. CASE \/ LoadConfig \/ CheckTmpPath \/ ParseImage \/ ParseDone \/ Resolve
           \/ CollectMountpoints \/ CallDone \/ CallSeen \/ CallEnter
  BY <1>1, <1>q DEF LoadConfig, CheckTmpPath, ParseImage, ParseDone, Resolve,
     ResolvePart, ResolveNext, ResolveDone, CollectMountpoints, CallDone, CallSeen,
     CallEnter, Walking, Fail, Abort, confVars, diskVars
<1>2. CASE Setup \/ SetupDone \/ ExecPost \/ GenerateDone \/ Cleanup
  BY <1>2, <1>q DEF Setup, SetupDone, ExecPost, GenerateDone, Cleanup, Return, Fail,
     Abort, confVars, diskVars
<1>3. CASE StartGenerate
  <2>1. CASE Fail("failed") /\ UNCHANGED out
    BY <1>3, <2>1, <1>q DEF StartGenerate, Fail, confVars
  <2>2. CASE /\ pc' = "writing" /\ UNCHANGED <<confVars, walkVars>>
             /\ out' = IF Top \in Input THEN out ELSE [out EXCEPT ![Top] = "partial"]
    BY <1>3, <2>2 DEF StartGenerate, PartialInv, TmpInv, Top, Input, walkVars, confVars,
       TypeOK
  <2> QED
    BY <1>3, <2>1, <2>2 DEF StartGenerate
<1>4. CASE EndGenerate
  <2>1. ended = "no" /\ UNCHANGED conf
    BY <1>4 DEF EndGenerate, Fail, confVars, TmpInv
  <2>2. \A i \in Image \ (Device \cup Killable) :
           \/ out'[i] # "partial"
           \/ out'[i] = out[i] /\ (i # Top \/ Top \in Input)
    BY <1>4 DEF EndGenerate, KilledCommand, RemoveOutput, TypeOK
  <2> QED
    BY <2>1, <2>2 DEF PartialInv, Input
<1>5. CASE Kill
  BY <1>5 DEF Kill, PartialInv, Input, confVars, diskVars
<1>6. CASE Start
  BY <1>6 DEF Start, PartialInv
<1>7. CASE UNCHANGED vars
  BY <1>7 DEF vars, PartialInv, Input, Top, confVars, walkVars, diskVars
<1> QED
  BY <1>1, <1>2, <1>3, <1>4, <1>5, <1>6, <1>7 DEF Next, Step

LEMMA TmpInvariance == Spec => []TmpInv
<1>1. Init => TmpInv
  BY DEF Init, TmpInv, TmpLeftClean
<1>2. TypeOK /\ TmpInv /\ [Next]_vars => TmpInv'
  BY TmpStep
<1> QED
  BY <1>1, <1>2, TypeCorrect, PTL DEF Spec

(* A run that returns from main() leaves nothing of its own in tmppath but  *)
(* what rm -rf could not remove.                                            *)
THEOREM TmpLeftCleanHolds == Spec => []TmpLeftClean
<1>1. TmpInv => TmpLeftClean
  BY DEF TmpInv
<1> QED
  BY <1>1, TmpInvariance, PTL

(* No step of any run removes what is in tmppath and is not its own.        *)
THEOREM ForeignTmpKeptHolds == Spec => ForeignTmpKept
<1>1. TypeOK /\ TmpInv /\ [Next]_vars => [tmp = "foreign" => tmp' = "foreign"]_vars
  BY TmpStep
<1> QED
  BY <1>1, TypeCorrect, TmpInvariance, PTL DEF Spec, ForeignTmpKept

(* A run that ends by itself leaves no half-written output file that it     *)
(* could remove, unless it was not told of the failure.                     *)
THEOREM NoPartialOutputHolds == Spec => []NoPartialOutput
<1>1. Init => PartialInv
  BY DEF Init, PartialInv
<1>2. IInv /\ TmpInv /\ PartialInv /\ [Next]_vars => PartialInv'
  BY PartialStep
<1>3. TmpInv /\ PartialInv => NoPartialOutput
  BY DEF TmpInv, PartialInv, NoPartialOutput
<1> QED
  BY <1>1, <1>2, <1>3, Invariance, TmpInvariance, PTL DEF Spec

-----------------------------------------------------------------------------
(* Images that are done can be numbered such that each has a higher number  *)
(* than all it is made from; no cycle can be.                               *)
Numbered(n, r) ==
    \A i \in Image : done[i] # 0 =>
        /\ r[i] < n
        /\ \A j \in RangeOf(conf.parts[i]) : done[j] # 0 /\ r[j] < r[i]

AcyclicInv == \E n \in Nat, r \in [Image -> Nat] : Numbered(n, r)

(* The image that a walk returns from gets the next number.                 *)
LEMMA ReturnNumbers ==
    ASSUME IInv, AcyclicInv, Return, conf' = conf, Walking \/ pc = "post", AtEnd, Top # Main
    PROVE  AcyclicInv'
<1> USE DEF IInv, WalkInv
<1>1. /\ Len(stack) \in 2..Len(stack) /\ Top = stack[Len(stack)] /\ Top \in Image
      /\ done[Top] # walk /\ walk # 0 /\ pos[Top] \in Nat
  BY TopType DEF FrameInv, PcInv, Generating, Walking, Top
<1>2. /\ Callees(Top) = conf.parts[Top] /\ conf.parts \in [Image -> Seq(Image)]
      /\ done' = [done EXCEPT ![Top] = walk] /\ done \in [Image -> {-1, 0, 1}]
  BY <1>1 DEF Callees, Return, TypeOK
<1>3. \A j \in RangeOf(conf.parts[Top]) : j \in Image /\ done[j] = walk
  <2>1. \A m \in DOMAIN conf.parts[Top] : m < pos[Top]
    BY <1>1, <1>2 DEF AtEnd
  <2>2. Len(stack) \in 1..Len(stack)
    BY <1>1
  <2>3. \A m \in DOMAIN Callees(Top) : m < pos[Top] => done[Callees(Top)[m]] = walk
    BY <1>1, <2>2 DEF CursorInv
  <2> QED
    BY <1>1, <1>2, <2>1, <2>3 DEF RangeOf
<1>4. PICK n \in Nat, r \in [Image -> Nat] : Numbered(n, r)
  BY DEF AcyclicInv
<1>5. \A i \in Image : RangeOf(conf.parts[i]) \subseteq Image
  BY <1>2 DEF RangeOf
<1>6. CASE done[Top] # 0
  <2>1. \A i \in Image : done'[i] # 0 <=> done[i] # 0
    BY <1>1, <1>2, <1>6
  <2>2. Numbered(n, r)'
    BY <1>4, <1>5, <2>1 DEF Numbered
  <2> QED
    BY <2>2 DEF AcyclicInv
<1>7. CASE done[Top] = 0
  <2>0. PICK s \in [Image -> Nat] : s = [r EXCEPT ![Top] = n]
    BY <1>1
  <2>1. /\ s \in [Image -> Nat] /\ s[Top] = n
        /\ \A i \in Image : i # Top => s[i] = r[i] /\ done'[i] = done[i]
        /\ done'[Top] # 0
    BY <1>1, <1>2, <2>0
  <2>2. ASSUME NEW i \in Image, done'[i] # 0
        PROVE  /\ s[i] < n + 1
               /\ \A j \in RangeOf(conf.parts[i]) : done'[j] # 0 /\ s[j] < s[i]
    <3>1. CASE i = Top
      <4>1. \A j \in RangeOf(conf.parts[i]) : j # Top /\ done[j] # 0 /\ r[j] < n
        BY <1>1, <1>3, <1>4, <1>7, <3>1 DEF Numbered
      <4> QED
        BY <1>5, <2>1, <3>1, <4>1
    <3>2. CASE i # Top
      <4>1. /\ r[i] < n /\ s[i] = r[i]
            /\ \A j \in RangeOf(conf.parts[i]) : done[j] # 0 /\ r[j] < r[i]
        BY <1>4, <2>1, <2>2, <3>2 DEF Numbered
      <4>2. \A j \in RangeOf(conf.parts[i]) : j # Top /\ j \in Image
        BY <1>5, <1>7, <4>1
      <4> QED
        BY <2>1, <4>1, <4>2
    <3> QED
      BY <3>1, <3>2
  <2>3. Numbered(n + 1, s)'
    BY <2>2, conf' = conf DEF Numbered
  <2>4. n + 1 \in Nat
    OBVIOUS
  <2> QED
    BY <2>1, <2>3, <2>4 DEF AcyclicInv
<1> QED
  BY <1>6, <1>7

LEMMA AcyclicStep ==
    ASSUME IInv, AcyclicInv, [Next]_vars
    PROVE  AcyclicInv'
<1>q. ASSUME UNCHANGED <<conf, done>> PROVE AcyclicInv'
  BY <1>q DEF AcyclicInv, Numbered
<1>f. ASSUME Fail("failed") \/ Fail("recursive") \/ Abort
      PROVE  AcyclicInv'
  BY <1>f, <1>q DEF Fail, Abort, confVars, walkVars
<1>1. CASE Setup
  BY <1>1, <1>f, ReturnNumbers DEF Setup, Walking, Return, confVars
<1>2. CASE ExecPost
  <2>1. AtEnd /\ Top # Main
    BY <1>2 DEF ExecPost, IInv, WalkInv, PcInv
  <2> QED
    BY <1>2, <2>1, <1>f, ReturnNumbers DEF ExecPost, Return, confVars
<1>3. CASE Start
  <2>1. \A i \in Image : done'[i] = 0
    BY <1>3 DEF Start
  <2>2. AcyclicInv => AcyclicInv'
    BY <2>1 DEF AcyclicInv, Numbered
  <2> QED
    BY <2>2
<1>4. CASE LoadConfig \/ CheckTmpPath \/ ParseImage \/ ParseDone \/ Resolve
           \/ CollectMountpoints \/ CallDone \/ CallSeen \/ CallEnter
  BY <1>4, <1>q, <1>f DEF LoadConfig, CheckTmpPath, ParseImage, ParseDone, Resolve,
     CollectMountpoints, CallDone, CallSeen, CallEnter, BeginWalk, confVars, walkVars
<1>5. CASE SetupDone \/ StartGenerate \/ EndGenerate \/ GenerateDone \/ Cleanup \/ Kill
           \/ UNCHANGED vars
  BY <1>5, <1>q, <1>f DEF SetupDone, StartGenerate, EndGenerate, GenerateDone, Cleanup,
     Kill, vars, BeginWalk, confVars, walkVars
<1> QED
  BY <1>1, <1>2, <1>3, <1>4, <1>5 DEF Next, Step

(* Whatever the configuration, an image on a cycle is never marked done.    *)
THEOREM CycleNeverBuiltHolds == Spec => []CycleNeverBuilt
<1>1. Init => AcyclicInv
  <2> SUFFICES ASSUME Init PROVE AcyclicInv
    OBVIOUS
  <2>1. Numbered(0, [i \in Image |-> 0]) /\ [i \in Image |-> 0] \in [Image -> Nat]
    BY DEF Init, Numbered
  <2> QED
    BY <2>1 DEF AcyclicInv
<1>2. IInv /\ AcyclicInv /\ [Next]_vars => AcyclicInv'
  BY AcyclicStep
<1>3. IInv /\ AcyclicInv => CycleNeverBuilt
  <2> SUFFICES ASSUME IInv, AcyclicInv, NEW i \in Image, done[i] # 0
               PROVE  i \notin DependsOn(i)
    BY DEF CycleNeverBuilt
  <2>1. PICK n \in Nat, r \in [Image -> Nat] : Numbered(n, r)
    BY DEF AcyclicInv
  <2> DEFINE S == {j \in Image : done[j] # 0 /\ r[j] < r[i]}
  <2>2. \A j \in Image : RangeOf(conf.parts[j]) \subseteq Image
    BY DEF IInv, TypeOK, RangeOf
  <2>3. RangeOf(conf.parts[i]) \subseteq S
    BY <2>1, <2>2 DEF Numbered
  <2>4. ASSUME NEW m \in S PROVE RangeOf(conf.parts[m]) \subseteq S
    <3>1. \A j \in RangeOf(conf.parts[m]) :
             j \in Image /\ done[j] # 0 /\ r[j] < r[m] /\ r[m] < r[i]
      BY <2>1, <2>2, <2>4 DEF Numbered
    <3>2. \A j \in RangeOf(conf.parts[m]) : r[j] \in Nat /\ r[m] \in Nat /\ r[i] \in Nat
      BY <2>4, <3>1
    <3> QED
      BY <3>1, <3>2
  <2>5. i \notin S /\ S \in SUBSET Image
    OBVIOUS
  <2> HIDE DEF S
  <2> QED
    BY <2>3, <2>4, <2>5 DEF DependsOn
<1> QED
  BY <1>1, <1>2, <1>3, Invariance, PTL DEF Spec

-----------------------------------------------------------------------------
(* The driver implements BuildOrder: its initial states are initial states  *)
(* there, and each of its steps is a step there or changes nothing that     *)
(* BuildOrder knows of.  Two thirds of the argument are the invariants      *)
(* above; what is left is that the list of main() holds exactly the images  *)
(* that BuildOrder asks for.                                                *)

WantedInv ==
    /\ conf \in Configs
    /\ RangeOf(images) \subseteq Wanted
    /\ \A j \in 2..Len(stack) : stack[j] \in Wanted
    /\ \A i \in Image : done[i] # 0 => i \in Wanted
    /\ pc \in {"start", "checktmp", "parse"} =>
         \A n \in DOMAIN images : n \in DOMAIN conf.sections /\ images[n] = conf.sections[n]
    /\ pc \in {"resolve", "mount"} \/ walk # 0 =>
         RangeOf(conf.sections) \subseteq RangeOf(images)

(* Whatever an image that is asked for is made from is asked for as well:   *)
(* an input file is made from nothing.                                      *)
LEMMA WantedClosed ==
    ASSUME conf \in Configs, NEW i \in Wanted
    PROVE  i \in Image /\ Uses[i] \subseteq Wanted
<1>1. /\ conf.sections \in Seq(Image) /\ conf.parts \in [Image -> Seq(Image)]
      /\ \A j \in Image : Uses[j] = RangeOf(conf.parts[j])
  BY ConfigsType DEF Uses
<1>2. /\ RangeOf(conf.sections) \subseteq Image
      /\ \A j \in Image : RangeOf(conf.parts[j]) \subseteq Image
  BY <1>1 DEF RangeOf
<1>3. i \in Image
  BY <1>1, <1>2 DEF Wanted
<1>4. CASE i \in RangeOf(conf.sections)
  BY <1>3, <1>4 DEF Wanted
<1>5. CASE i \notin RangeOf(conf.sections)
  <2>1. conf.parts[i] = <<>>
    BY <1>3, <1>5, InputsHaveNoParts DEF RangeOf
  <2> QED
    BY <1>1, <1>3, <2>1 DEF RangeOf
<1> QED
  BY <1>3, <1>4, <1>5

(* What the frame on top calls is asked for.                                *)
LEMMA CalledWanted ==
    ASSUME IInv, WantedInv, Walking, ~AtEnd
    PROVE  Called \in Wanted
<1> USE DEF IInv
<1>1. /\ Len(stack) \in Nat \ {0} /\ Top = stack[Len(stack)] /\ Top \in Frame
      /\ pos[Top] \in 1..Len(Callees(Top)) /\ Callees(Top) \in Seq(Image)
  BY TopType DEF WalkInv, AtEnd, Top
<1>2. CASE Top = Main
  BY <1>1, <1>2 DEF WantedInv, Callees, Called, RangeOf, TypeOK
<1>3. CASE Top # Main
  <2>1. Len(stack) \in 2..Len(stack)
    BY <1>1, <1>3 DEF WalkInv, FrameInv
  <2>2. Top \in Wanted
    BY <1>1, <2>1 DEF WantedInv
  <2>3. Called \in Uses[Top] /\ conf \in Configs
    BY <1>1, <1>3 DEF WantedInv, Called, Callees, Uses, RangeOf, Frame
  <2> QED
    BY <2>2, <2>3, WantedClosed
<1> QED
  BY <1>2, <1>3

(* The list and the stack only ever hold what is asked for, and the list    *)
(* holds all sections once they are read.                                   *)
LEMMA WantedStep ==
    ASSUME IInv, WantedInv, [Next]_vars
    PROVE  WantedInv'
<1> USE DEF IInv
<1>c. conf' = conf /\ Wanted' = Wanted
  BY DEF Next, Step, vars, confVars, LoadConfig, CheckTmpPath, ParseImage, ParseDone,
     Resolve, ResolvePart, ResolveNext, ResolveDone, CollectMountpoints, CallDone,
     CallSeen, CallEnter, Setup, SetupDone,
     StartGenerate, EndGenerate, ExecPost, GenerateDone, Cleanup, Kill, Start, Fail,
     Abort, Return, Wanted, Uses
<1>z. pc \in Before => walk = 0
  BY DEF WalkInv, PcInv
<1>s. walk = 0 => stack = <<Main>> /\ \A i \in Image : done[i] = 0
  BY DEF WalkInv, MarkInv
<1>q. ASSUME UNCHANGED <<images, walk, stack, done>>,
             \/ pc' \notin Before
             \/ pc' = pc
             \/ pc = "start" /\ pc' = "checktmp"
             \/ pc = "checktmp" /\ pc' = "parse"
             \/ pc = "resolve" /\ pc' = "mount"
      PROVE  WantedInv'
  BY <1>q, <1>c DEF WantedInv, Before
<1>f. ASSUME \/ Fail("failed")
             \/ Fail("recursive")
             \/ Abort
      PROVE  WantedInv'
  BY <1>f, <1>q DEF Fail, Abort, walkVars, Before
<1>1. CASE LoadConfig \/ CheckTmpPath
  BY <1>1, <1>q, <1>f DEF LoadConfig, CheckTmpPath, walkVars
<1>2. CASE ParseImage
  <2>1. /\ pc = "parse" /\ walk = 0 /\ UNCHANGED walkVars
        /\ Len(images) + 1 \in DOMAIN conf.sections
        /\ images' = Append(images, conf.sections[Len(images) + 1])
        /\ pc' \in {"parse", "cleanup", "exited"}
    BY <1>2, <1>z DEF ParseImage, Before, TypeOK
  <2>2. \A n \in DOMAIN images' : n \in DOMAIN conf.sections /\ images'[n] = conf.sections[n]
    BY <2>1 DEF WantedInv, TypeOK
  <2>3. RangeOf(images') \subseteq Wanted
    BY <2>2 DEF RangeOf, Wanted
  <2> QED
    BY <2>1, <2>2, <2>3, <1>c DEF WantedInv, walkVars
<1>3. CASE ParseDone
  <2>1. RangeOf(conf.sections) \subseteq RangeOf(images)
    BY <1>3 DEF ParseDone, WantedInv, RangeOf, TypeOK
  <2> QED
    BY <1>3, <2>1, <1>c DEF ParseDone, WantedInv, walkVars
<1>4. CASE Resolve
  <2>0. walk = 0 /\ stack = <<Main>> /\ Main \notin Image
    BY <1>4, <1>z, <1>s, MainIsNoImage DEF Resolve, Before
  <2>1. CASE ResolvePart /\ UNCHANGED <<walk, stack, done>>
    <3>1. /\ pos[Main] \in DOMAIN images /\ Called = images[pos[Main]]
          /\ Called \in Image /\ pos[Called] \in DOMAIN conf.parts[Called]
      BY <2>0, <2>1 DEF ResolvePart, AtEnd, Called, Top, Callees, TypeOK, Frame
    <3> DEFINE new == conf.parts[Called][pos[Called]]
    <3>2. Called \in Wanted
      BY <3>1 DEF WantedInv, RangeOf
    <3>3. new \in Uses[Called]
      BY <3>1 DEF Uses, RangeOf
    <3>4. new \in Wanted
      BY <3>2, <3>3, WantedClosed DEF WantedInv
    <3>5. RangeOf(images) \subseteq RangeOf(images')
          /\ RangeOf(images') \subseteq RangeOf(images) \cup {new}
      <4> HIDE DEF new
      <4>1. images' = images \/ images' = Append(images, new)
        BY <2>1 DEF ResolvePart, new
      <4>2. images \in Seq(Image)
        BY DEF TypeOK
      <4> QED
        BY <4>1, <4>2 DEF RangeOf
    <3> QED
      BY <1>4, <2>1, <3>4, <3>5, <1>c DEF Resolve, ResolvePart, WantedInv
  <2>2. CASE ResolveNext \/ ResolveDone
    BY <1>4, <1>f, <1>q, <2>2 DEF Resolve, ResolveNext, ResolveDone
  <2> QED
    BY <1>4, <1>f, <2>1, <2>2 DEF Resolve
<1>5. CASE CollectMountpoints \/ SetupDone
  <2>1. CASE Fail("failed")
    BY <2>1, <1>f
  <2>2. CASE /\ pc' \in {"setup", "generate"} /\ pc \in {"mount", "setup"}
             /\ images' = images
             /\ \/ BeginWalk(1)
                \/ BeginWalk(-1)
    <3>1. pc = "mount" \/ walk # 0
      BY <2>2 DEF WalkInv, PcInv
    <3> QED
      BY <2>2, <3>1, <1>c DEF BeginWalk, WantedInv
  <2> QED
    BY <1>5, <2>1, <2>2 DEF CollectMountpoints, SetupDone
<1>6. CASE CallDone \/ CallSeen
  BY <1>6, <1>q, <1>f DEF CallDone, CallSeen
<1>7. CASE CallEnter
  <2>1. /\ Called \in Wanted /\ stack' = Append(stack, Called)
        /\ UNCHANGED <<pc, images, walk, done>>
    BY <1>7, CalledWanted DEF CallEnter
  <2>2. \A j \in 2..Len(stack') : stack'[j] \in Wanted
    <3>1. stack \in Seq(Frame) /\ \A j \in 2..Len(stack) : stack[j] \in Wanted
      BY DEF WantedInv, TypeOK
    <3> QED
      BY <2>1, <3>1
  <2> QED
    BY <2>1, <2>2, <1>c DEF WantedInv
<1>8. CASE Setup \/ ExecPost
  <2>1. CASE Return /\ pc' \in {"setup", "generate"} /\ Top # Main
    <3>1. Len(stack) \in 2..Len(stack) /\ Top = stack[Len(stack)]
      BY <2>1, TopType DEF WalkInv, FrameInv, Top
    <3>2. Top \in Wanted
      BY <3>1 DEF WantedInv
    <3>3. /\ UNCHANGED <<images, walk>>
          /\ \A i \in Image : done'[i] # 0 => i \in Wanted
      BY <2>1, <3>2 DEF Return, WantedInv, TypeOK
    <3>4. \A j \in 2..Len(stack') : stack'[j] \in Wanted
      BY <2>1, <3>1 DEF Return, WantedInv, TypeOK
    <3>5. walk # 0
      BY <1>8 DEF Setup, ExecPost, WalkInv, PcInv, Generating
    <3> QED
      BY <2>1, <3>3, <3>4, <3>5, <1>c DEF WantedInv
  <2>2. pc = "post" => Top # Main
    BY DEF WalkInv, PcInv
  <2> QED
    BY <1>8, <1>f, <2>1, <2>2 DEF Setup, ExecPost
<1>9. CASE StartGenerate \/ EndGenerate \/ GenerateDone \/ Cleanup \/ Kill
  BY <1>9, <1>q, <1>f DEF StartGenerate, EndGenerate, GenerateDone, Cleanup, Kill,
     walkVars, Before
<1>10. CASE Start
  BY <1>10, <1>c DEF Start, WantedInv, RangeOf
<1>11. CASE UNCHANGED vars
  BY <1>11, <1>q DEF vars, walkVars
<1> QED
  BY <1>1, <1>2, <1>3, <1>4, <1>5, <1>6, <1>7, <1>8, <1>9, <1>10, <1>11 DEF Next, Step

LEMMA WantedInvariance == Spec => []WantedInv
<1>1. Init => WantedInv
  BY DEF Init, WantedInv, RangeOf
<1>2. IInv /\ WantedInv /\ [Next]_vars => WantedInv'
  BY WantedStep
<1> QED
  BY <1>1, <1>2, Invariance, PTL DEF Spec

-----------------------------------------------------------------------------
AllInv ==
    /\ IInv /\ ListInv /\ WantedInv /\ OutInv
    /\ ended = "ok" => ret = "ok"
    /\ NoConflict

(* When a run returns 0, it has generated what it was asked for and no more. *)
LEMMA SuccessIsComplete ==
    ASSUME AllInv, pc = "cleanup", ret = "ok"
    PROVE  Generated = Wanted
<1> USE DEF AllInv
<1>1. walk = 1 /\ \A m \in DOMAIN images : done[images[m]] = 1
  BY DEF OutInv
<1>2. /\ RangeOf(conf.sections) \subseteq RangeOf(images)
      /\ \A m \in DOMAIN images : AllKnown(m)
  BY <1>1 DEF WantedInv, ListInv
<1>3. /\ RangeOf(images) \subseteq Image
      /\ conf.sections \in Seq(Image) /\ conf.parts \in [Image -> Seq(Image)]
  BY DEF IInv, TypeOK, RangeOf
<1>4. RangeOf(images) \subseteq Generated
  BY <1>1, <1>3 DEF Generated, RangeOf
<1>5. \A i \in RangeOf(images) : Uses[i] \subseteq RangeOf(images)
  BY <1>2, <1>3 DEF Uses, AllKnown, Known, RangeOf
<1>6. Wanted \subseteq RangeOf(images)
  BY <1>2, <1>5 DEF Wanted
<1>7. Generated \subseteq Wanted
  BY DEF Generated, WantedInv
<1> QED
  BY <1>4, <1>6, <1>7

(* A return from the second walk is the one step that builds an image.      *)
LEMMA ReturnBuilds ==
    ASSUME AllInv, AllInv', conf' = conf, pc = "post", Return, pc' = "generate"
    PROVE  \E i \in Image : Abstract!Build(i)
<1> USE DEF AllInv, IInv
<1>1. /\ walk = 1 /\ AtEnd /\ Top # Main
      /\ Len(stack) \in 2..Len(stack) /\ Top = stack[Len(stack)]
  BY TopType DEF WalkInv, PcInv, FrameInv, Generating, Top
<1>2. Top \in Image /\ done[Top] # 1 /\ Top \in Wanted
  BY <1>1 DEF WalkInv, FrameInv, WantedInv
<1>3. Uses[Top] \subseteq Generated
  <2>1. /\ Callees(Top) = conf.parts[Top] /\ conf.parts[Top] \in Seq(Image)
        /\ pos[Top] \in Nat
    BY <1>1, <1>2 DEF Callees, TypeOK, Frame
  <2>2. \A n \in DOMAIN conf.parts[Top] : n < pos[Top]
    BY <1>1, <2>1 DEF AtEnd
  <2>3. Len(stack) \in 1..Len(stack)
    BY <1>1, TopType DEF WalkInv
  <2>4. \A n \in DOMAIN Callees(Top) : n < pos[Top] => done[Callees(Top)[n]] = 1
    BY <1>1, <2>3 DEF WalkInv, CursorInv
  <2>5. \A n \in DOMAIN conf.parts[Top] : done[conf.parts[Top][n]] = 1
    BY <2>1, <2>2, <2>4
  <2> QED
    BY <1>2, <2>1, <2>5 DEF Uses, Generated, RangeOf
<1>4. Generated' = Generated \cup {Top}
  BY SMTT(30), <1>1, <1>2 DEF Generated, Return, TypeOK
<1>5. Outcome = "running" /\ UNCHANGED <<Uses, Wanted, Outcome>>
  BY DEF Outcome, Uses, Wanted
<1> QED
  BY <1>2, <1>3, <1>4, <1>5 DEF Abstract!Build, Generated

(* Every step of the driver is one of BuildOrder, or none.                  *)
LEMMA StepMaps ==
    ASSUME AllInv, AllInv', conf' = conf, [Next]_vars
    PROVE  [Abstract!Next]_Abstract!vars
<1> USE DEF AllInv
<1>c. UNCHANGED <<Uses, Wanted>>
  BY DEF Uses, Wanted
<1>s. ASSUME Generated' = Generated, Outcome' = Outcome
      PROVE  Abstract!vars' = Abstract!vars
  BY <1>c, <1>s DEF Abstract!vars
<1>q. ASSUME done' = done, pc # "exited", pc' # "exited"
      PROVE  Abstract!vars' = Abstract!vars
  BY <1>q, <1>s DEF Generated, Outcome
<1>g. ASSUME done' = done, pc # "exited", pc' = "exited", ended' # "ok"
      PROVE  Abstract!GiveUp
  BY <1>g, <1>c DEF Abstract!GiveUp, Generated, Outcome
<1>f. ASSUME Fail("failed") \/ Fail("recursive"), pc # "exited"
      PROVE  Abstract!vars' = Abstract!vars
  BY <1>f, <1>q DEF Fail, walkVars
<1>a. ASSUME Abort, pc # "exited"
      PROVE  Abstract!GiveUp
  BY <1>a, <1>g DEF Abort, walkVars
<1>1. CASE LoadConfig \/ CheckTmpPath
  BY <1>1, <1>q, <1>f, <1>a DEF LoadConfig, CheckTmpPath, walkVars, Abstract!Next
<1>2. CASE ParseImage
  BY <1>2, <1>q, <1>g DEF ParseImage, walkVars, Abstract!Next
<1>3. CASE ParseDone \/ Resolve
  BY <1>3, <1>q, <1>f DEF ParseDone, Resolve, ResolvePart, ResolveNext, ResolveDone,
     walkVars
<1>4. CASE CollectMountpoints \/ SetupDone
  BY <1>4, <1>q, <1>f DEF CollectMountpoints, SetupDone, BeginWalk
<1>5. CASE CallDone \/ CallSeen \/ CallEnter
  BY <1>5, <1>q, <1>f DEF CallDone, CallSeen, CallEnter, Walking
<1>6. CASE Setup
  <2>1. CASE Return /\ UNCHANGED pc
    <3>1. walk = -1 /\ \A i \in Image : done[i] # 1
      BY <1>6 DEF Setup, IInv, WalkInv, PcInv, MarkInv
    <3>2. Generated' = Generated
      BY <2>1, <3>1 DEF Return, Generated, IInv, TypeOK
    <3> QED
      BY <1>6, <2>1, <3>2, <1>s DEF Setup, Outcome
  <2> QED
    BY <1>6, <2>1, <1>f, <1>a DEF Setup, Abstract!Next
<1>7. CASE StartGenerate \/ EndGenerate \/ GenerateDone
  BY <1>7, <1>q, <1>f DEF StartGenerate, EndGenerate, GenerateDone, walkVars
<1>8. CASE ExecPost
  BY <1>8, <1>f, ReturnBuilds DEF ExecPost, Abstract!Next
<1>9. CASE Cleanup
  <2>1. CASE ret = "ok"
    <3>1. Generated = Wanted
      BY <1>9, <2>1, SuccessIsComplete DEF Cleanup
    <3>2. Outcome = "running" /\ Outcome' = "success" /\ Generated' = Generated
      BY <1>9, <2>1 DEF Cleanup, Outcome, Generated, walkVars
    <3> QED
      BY <3>1, <3>2, <1>c DEF Abstract!Succeed, Abstract!Next
  <2>2. CASE ret # "ok"
    BY <1>9, <2>2, <1>g DEF Cleanup, walkVars, Abstract!Next
  <2> QED
    BY <2>1, <2>2
<1>10. CASE Kill
  BY <1>10, <1>g DEF Kill, walkVars, Abstract!Next
<1>11. CASE Start
  <2>1. Outcome # "running" /\ Outcome' = "running" /\ Generated' = {}
    BY <1>11 DEF Start, Outcome, Generated
  <2> QED
    BY <2>1, <1>c DEF Abstract!Again, Abstract!Next
<1>12. CASE UNCHANGED vars
  BY <1>12, <1>s DEF vars, walkVars, Generated, Outcome
<1> QED
  BY <1>1, <1>2, <1>3, <1>4, <1>5, <1>6, <1>7, <1>8, <1>9, <1>10, <1>11, <1>12
     DEF Next, Step

(* The walks over stack and cursors, with their marks, files and failures,  *)
(* do what BuildOrder says of any graph, over any number of runs.           *)
THEOREM Refinement ==
    ASSUME Conflicting = {}
    PROVE  Spec => ImplementsBuildOrder
<1>1. Init => Abstract!Init
  <2> SUFFICES ASSUME Init PROVE Abstract!Init
    OBVIOUS
  <2>1. conf.sections \in Seq(Image) /\ conf.parts \in [Image -> Seq(Image)]
    BY ConfigsType DEF Init
  <2>2. \A j \in Image : RangeOf(conf.parts[j]) \subseteq Image
    BY <2>1 DEF RangeOf
  <2>3. Uses \in [Image -> SUBSET Image] /\ RangeOf(conf.sections) \subseteq Image
    BY <2>1, <2>2 DEF Uses, RangeOf
  <2>4. Wanted \subseteq Image
    BY <2>3 DEF Wanted
  <2>5. Generated = {} /\ Outcome = "running"
    BY DEF Init, Generated, Outcome
  <2> QED
    BY <2>3, <2>4, <2>5 DEF Abstract!Init
<1>2. [Next]_vars => conf' = conf
  BY DEF Next, Step, vars, confVars, LoadConfig, CheckTmpPath, ParseImage, ParseDone,
     Resolve, ResolvePart, ResolveNext, ResolveDone, CollectMountpoints, CallDone,
     CallSeen, CallEnter, Setup, SetupDone,
     StartGenerate, EndGenerate, ExecPost, GenerateDone, Cleanup, Kill, Start, Fail,
     Abort, Return
<1>3. NoConflict
  BY DEF NoConflict
<1>4. AllInv /\ AllInv' /\ [Next]_vars => [Abstract!Next]_Abstract!vars
  BY <1>2, StepMaps
<1>5. /\ IInv /\ ListInv /\ WantedInv
      /\ OutInv /\ (ended = "ok" => ret = "ok")
      => AllInv
  BY <1>3 DEF AllInv
<1> QED
  BY <1>1, <1>4, <1>5, Invariance, ListInvariance, WantedInvariance, OutInvariance, PTL
     DEF Spec, ImplementsBuildOrder, Abstract!Spec

-----------------------------------------------------------------------------
(* Proofs about Options: whatever the options, the environment, the        *)
(* command line and the configuration files, two calls of                  *)
(* set_config_opts() leave each option with the value of its preferred     *)
(* source, and nobody has acted on another one.                            *)

\* The value of o by the sources that are known before the file is read.
Early(o, v) ==
    \/ LastArg(o, v, Len(argv) + 1)
    \/ NoArg(o, Len(argv) + 1) /\ v = Or(env[o], Default[o])

\* The value of o when set_config_opts() has set it.
Chosen(o) ==
    \/ LastArg(o, value[o], Len(argv) + 1)
    \/ NoArg(o, Len(argv) + 1) /\ value[o] = FromSources(o)

\* While the command line is read, what it has not reached yet may still
\* have the value that it got in the first pass.
SetSoFar(o) ==
    \/ LastArg(o, value[o], argi)
    \/ /\ NoArg(o, argi)
       /\ value[o] = FromSources(o) \/ ~NoArg(o, Len(argv) + 1)

PhaseInv ==
    /\ stage = "parse" => pass = 1
    /\ stage = "use" => pass = 2
ArgInv ==
    stage = "argv" => /\ \A j \in 1..(argi - 1) : argv[j].opt \in Option
                   /\ \A o \in Option : SetSoFar(o)
FirstInv ==
    stage = "sources" /\ pass = 1 => value = [o \in Option |-> None]
SecondInv ==
    pass = 2 =>
        /\ read \in Value
        /\ Early(Config, read)
        /\ Early(Include, included)
        /\ stage = "sources" => \A o \in Option : Early(o, value[o])
SetInv ==
    stage \in {"parse", "use"} => \A o \in Option : Chosen(o)
UsedInv ==
    \A o \in Option :
        \/ used[o] = None
        \/ stage \in {"use", "exited"} /\ used[o] = value[o]
        \/ stage \in {"use", "exited"} /\ o = Root /\ used[o] = Empty

OptionsInv == /\ OptionsOK /\ PhaseInv /\ ArgInv /\ FirstInv /\ SecondInv
        /\ SetInv /\ UsedInv

-----------------------------------------------------------------------------
(* The last argument for an option is unique.                               *)
LEMMA LastIsUnique ==
    ASSUME OptionsOK, NEW o, NEW v, NEW w, NEW n \in Nat
    PROVE  /\ LastArg(o, v, n) /\ LastArg(o, w, n) => v = w
           /\ LastArg(o, v, n) => ~NoArg(o, n)
<1>1. ASSUME LastArg(o, v, n), LastArg(o, w, n) PROVE v = w
  <2>0. Taken \subseteq Int
    BY DEF Taken, OptionsOK
  <2>1. PICK k \in Taken :
           /\ k < n /\ argv[k].opt = o /\ argv[k].val = v
           /\ \A j \in Taken : j < n /\ argv[j].opt = o => j <= k
    BY <1>1 DEF LastArg
  <2>2. PICK l \in Taken :
           /\ l < n /\ argv[l].opt = o /\ argv[l].val = w
           /\ \A j \in Taken : j < n /\ argv[j].opt = o => j <= l
    BY <1>1 DEF LastArg
  <2>3. k \in Int /\ l \in Int /\ k <= l /\ l <= k
    BY <2>0, <2>1, <2>2
  <2> QED
    BY <2>1, <2>2, <2>3
<1> QED
  BY <1>1 DEF LastArg, NoArg

(* Without arguments read, no argument has been.                            *)
LEMMA NoArgAtFirst ==
    ASSUME OptionsOK, NEW o PROVE NoArg(o, 1)
BY DEF NoArg, Taken, OptionsOK

(* When set_config_opts() stops, it has seen every argument that counts.    *)
LEMMA AllSeen ==
    ASSUME OptionsOK, HasArg => argv[argi].opt = Invalid, stage = "argv"
    PROVE  \A k \in Taken : k < argi
<1>1. argi \in Nat \ {0} /\ Len(argv) \in Nat /\ DOMAIN argv = 1..Len(argv)
  BY DEF OptionsOK
<1>2. CASE argi <= Len(argv)
  BY <1>1, <1>2 DEF HasArg, Taken
<1>3. CASE argi > Len(argv)
  BY <1>1, <1>3 DEF Taken
<1> QED
  BY <1>1, <1>2, <1>3

(* What the sources give is a value of an option, or none.                  *)
LEMMA SourcesType ==
    ASSUME OptionsOK, SecondInv, NEW o \in Option
    PROVE  FromSources(o) \in Maybe
<1>1. FileSays(o) \in Maybe
  BY DEF FileSays, SecondInv, OptionsOK, Maybe
<1> QED
  BY <1>1, SourceType DEF FromSources, Or, OptionsOK

-----------------------------------------------------------------------------
(* The fields that a step of the options leaves alone.                      *)
LEMMA OptionsTypeStep ==
    ASSUME OptionsOK, SecondInv, [OptionsNext]_optionVars
    PROVE  OptionsOK'
<1> USE DEF OptionsOK
<1>1. CASE SetFromSources
  <2>1. \A o \in Option : Or(FromSources(o), value[o]) \in Maybe
    BY SourcesType DEF Or
  <2> QED
    BY <1>1, <2>1 DEF SetFromSources, FirstArg, given
<1>2. CASE SetFromArg
  <2>1. argi \in DOMAIN argv /\ argv[argi] \in Arg
    BY <1>2 DEF SetFromArg, HasArg
  <2>2. argv[argi].val \in Maybe
    BY <2>1 DEF Arg, Maybe
  <2> QED
    BY <1>2, <2>1, <2>2 DEF SetFromArg, HasArg, given
<1>3. CASE ShowHelp \/ OptionsSet \/ Exit
  BY <1>3 DEF ShowHelp, OptionsSet, Exit, given
<1>4. CASE ParseConfig
  <2>1. value[Include] \in Maybe /\ value[Config] \in Maybe
    BY OptionType
  <2> QED
    BY <1>4, <2>1 DEF ParseConfig, UnusedAtParse, given
<1>5. CASE (\E o \in Option : UseOption(o)) \/ DisableRootpath
  BY <1>5, OptionType DEF UseOption, DisableRootpath, given, Maybe
<1>6. CASE UNCHANGED optionVars
  BY <1>6 DEF optionVars, given
<1> QED
  BY <1>1, <1>2, <1>3, <1>4, <1>5, <1>6 DEF OptionsNext

(* One argument further, the last argument for its option is the new one.   *)
LEMMA NextArg ==
    ASSUME OptionsOK, ArgInv, SetFromArg, NEW o \in Option
    PROVE  SetSoFar(o)'
<1>1. /\ argi \in Nat \ {0} /\ argi \in DOMAIN argv
      /\ argi' = argi + 1 /\ UNCHANGED <<env, argv, disk, pass, read>>
      /\ value' = [value EXCEPT ![argv[argi].opt] = argv[argi].val]
      /\ argv[argi].opt \in Option
      /\ Taken \subseteq Nat
      /\ value \in [Option -> Maybe]
      /\ SetSoFar(o)
  BY DEF OptionsOK, SetFromArg, HasArg, given, Taken, ArgInv
<1>2. argi \in Taken
  <2>1. \A j \in 1..argi : argv[j].opt \in Option
    BY <1>1 DEF ArgInv, SetFromArg, HasArg, OptionsOK
  <2> QED
    BY <1>1, <2>1, OptionType DEF Taken
<1>3. Taken' = Taken /\ FromSources(o)' = FromSources(o)
  BY <1>1 DEF Taken, FromSources, FileSays
<1>4. CASE argv[argi].opt = o
  <2>1. LastArg(o, value[o], argi)'
    BY <1>1, <1>2, <1>3, <1>4 DEF LastArg
  <2> QED
    BY <2>1 DEF SetSoFar
<1>5. CASE argv[argi].opt # o
  <2>1. value'[o] = value[o]
    BY <1>1, <1>5
  <2>2. \A k \in Taken : k < argi' /\ argv[k].opt = o => k < argi
    BY <1>1, <1>5
  <2>3. LastArg(o, value[o], argi) => LastArg(o, value[o], argi)'
    BY <1>1, <1>3, <2>1, <2>2 DEF LastArg
  <2>4. NoArg(o, argi) => NoArg(o, argi)'
    BY <1>1, <1>3, <2>2 DEF NoArg
  <2>5. NoArg(o, Len(argv) + 1)' = NoArg(o, Len(argv) + 1)
    BY <1>1, <1>3 DEF NoArg
  <2> QED
    BY <1>1, <1>3, <2>1, <2>3, <2>4, <2>5 DEF SetSoFar
<1> QED
  BY <1>4, <1>5

(* What the process was started with decides what its arguments say.        *)
LEMMA FixedByGiven ==
    ASSUME UNCHANGED given, NEW o
    PROVE  /\ \A n : NoArg(o, n)' = NoArg(o, n)
           /\ \A v : Early(o, v)' = Early(o, v)
           /\ \A n, v : LastArg(o, v, n)' = LastArg(o, v, n)
           /\ UNCHANGED <<pass, read>> => FromSources(o)' = FromSources(o)
BY DEF given, Early, NoArg, LastArg, Taken, FromSources, FileSays

(* The order in which set_config_opts() sets options makes the last source  *)
(* win in both passes.                                                      *)
LEMMA OptionsStep ==
    ASSUME OptionsInv, [OptionsNext]_optionVars
    PROVE  OptionsInv'
<1> USE DEF OptionsInv
<1>t. OptionsOK'
  BY OptionsTypeStep
<1>g. UNCHANGED given
  BY DEF OptionsNext, optionVars, SetFromSources, SetFromArg, ShowHelp, OptionsSet, ParseConfig,
         UseOption, DisableRootpath, Exit
<1>f. \A o : /\ \A n : NoArg(o, n)' = NoArg(o, n)
             /\ \A v : Early(o, v)' = Early(o, v)
             /\ \A n, v : LastArg(o, v, n)' = LastArg(o, v, n)
             /\ UNCHANGED <<pass, read>> => FromSources(o)' = FromSources(o)
  BY <1>g, FixedByGiven
<1>l. Len(argv) \in Nat /\ argi \in Nat /\ argv' = argv
  BY <1>g DEF OptionsOK, given
<1>1. CASE SetFromSources
  <2>1. UNCHANGED <<pass, read, included, used>> /\ stage = "sources" /\ stage' = "argv"
        /\ argi' = 1 /\ value' = [o \in Option |-> Or(FromSources(o), value[o])]
    BY <1>1 DEF SetFromSources, FirstArg
  <2>2. ASSUME NEW o \in Option PROVE SetSoFar(o)'
    <3>1. NoArg(o, argi)'
      BY <1>t, <2>1, <1>f, NoArgAtFirst
    <3>2. \/ value'[o] = FromSources(o)
          \/ FromSources(o) = None /\ value'[o] = value[o]
      BY <2>1 DEF Or
    <3>3. FromSources(o) = None =>
            value[o] = None \/ ~NoArg(o, Len(argv) + 1)
      <4>1. pass = 1 \/ pass = 2
        BY DEF OptionsOK
      <4>2. CASE pass = 1
        BY <4>2, <2>1 DEF FirstInv
      <4>3. CASE pass = 2
        <5>1. Early(o, value[o])
          BY <4>3, <2>1 DEF SecondInv
        <5>2. FromSources(o) = None => Or(env[o], Default[o]) = None
          BY DEF FromSources, Or
        <5> QED
          BY <5>1, <5>2, <1>l, LastIsUnique DEF Early
      <4> QED
        BY <4>1, <4>2, <4>3
    <3> QED
      BY <3>1, <3>2, <3>3, <2>1, <1>f, <1>l DEF SetSoFar
  <2>3. ArgInv'
    BY <2>1, <2>2 DEF ArgInv
  <2>4. SecondInv'
    BY <2>1, <1>f DEF SecondInv
  <2>5. UsedInv'
    BY <2>1 DEF UsedInv
  <2> QED
    BY <1>t, <2>1, <2>3, <2>4, <2>5 DEF PhaseInv, FirstInv, SetInv
<1>2. CASE SetFromArg
  <2>1. /\ UNCHANGED <<stage, pass, read, included, used>> /\ stage = "argv"
        /\ argi' = argi + 1 /\ argv[argi].opt \in Option
    BY <1>2 DEF SetFromArg, HasArg
  <2>2. \A o \in Option : SetSoFar(o)'
    BY <1>2, NextArg
  <2>3. ArgInv'
    BY <2>1, <2>2, <1>l DEF ArgInv
  <2>4. SecondInv'
    BY <2>1, <1>f DEF SecondInv
  <2>5. UsedInv'
    BY <2>1 DEF UsedInv
  <2> QED
    BY <1>t, <2>1, <2>3, <2>4, <2>5 DEF PhaseInv, FirstInv, SetInv
<1>3. CASE ShowHelp
  <2>1. stage' = "exited" /\ stage = "argv" /\ UNCHANGED <<pass, argi, value, read, included, used>>
    BY <1>3 DEF ShowHelp, HasArg
  <2>2. SecondInv'
    BY <2>1, <1>f DEF SecondInv
  <2> QED
    BY <1>t, <2>1, <2>2 DEF PhaseInv, FirstInv, SetInv, UsedInv, ArgInv
<1>4. CASE OptionsSet
  <2>1. /\ UNCHANGED <<pass, argi, value, read, included, used>> /\ stage = "argv"
        /\ stage' = IF pass = 1 THEN "parse" ELSE "use"
        /\ HasArg => argv[argi].opt = Invalid
    BY <1>4 DEF OptionsSet
  <2>2. \A k \in Taken : k < argi /\ k < Len(argv) + 1
    <3>1. \A k \in Taken : k \in 1..Len(argv)
      BY DEF Taken, OptionsOK
    <3> QED
      BY <2>1, <3>1, <1>l, AllSeen
  <2>3. ASSUME NEW o \in Option PROVE Chosen(o)'
    <3>1. SetSoFar(o)
      BY <2>1 DEF ArgInv
    <3>2. NoArg(o, argi) = NoArg(o, Len(argv) + 1)
      BY <2>2 DEF NoArg
    <3>3. LastArg(o, value[o], argi) => LastArg(o, value[o], Len(argv) + 1)
      BY <2>2 DEF LastArg
    <3> QED
      BY <3>1, <3>2, <3>3, <2>1, <1>f, <1>l DEF SetSoFar, Chosen
  <2>4. SecondInv'
    BY <2>1, <1>f DEF SecondInv
  <2>5. UsedInv'
    BY <2>1 DEF UsedInv
  <2> QED
    BY <1>t, <2>1, <2>3, <2>4, <2>5 DEF PhaseInv, FirstInv, SetInv, ArgInv, OptionsOK
<1>5. CASE ParseConfig
  <2>1. /\ stage = "parse" /\ pass = 1 /\ UNCHANGED <<argi, value, used>>
        /\ included' = value[Include]
    BY <1>5 DEF ParseConfig, PhaseInv, UnusedAtParse
  <2>2. \A o \in Option : Early(o, value[o])
    BY <2>1 DEF SetInv, Chosen, Early, FromSources, FileSays, Or
  <2>3. UsedInv' /\ SetInv' /\ ArgInv' /\ PhaseInv' /\ FirstInv'
    BY <1>5, <2>1 DEF UsedInv, SetInv, ArgInv, PhaseInv, FirstInv, ParseConfig
  <2>4. CASE stage' = "exited" /\ UNCHANGED <<pass, read>>
    BY <1>t, <2>1, <2>3, <2>4 DEF SecondInv
  <2>5. CASE read' = value[Config] /\ pass' = 2 /\ value[Config] \in disk.readable
    <3>1. value[Config] \in Value
      BY <2>5 DEF OptionsOK
    <3> QED
      BY <1>t, <1>f, <2>1, <2>2, <2>3, <2>5, <3>1, OptionType DEF SecondInv
  <2> QED
    BY <1>5, <2>4, <2>5 DEF ParseConfig
<1>6. CASE (\E o \in Option : UseOption(o)) \/ DisableRootpath
  <2>1. UNCHANGED <<stage, pass, argi, value, read, included>> /\ stage = "use"
    BY <1>6 DEF UseOption, DisableRootpath
  <2>2. UsedInv'
    BY <1>6, <2>1, OptionType DEF UseOption, DisableRootpath, UsedInv, OptionsOK
  <2>3. SecondInv' /\ SetInv'
    BY <2>1, <1>f, <1>l DEF SecondInv, SetInv, Chosen
  <2> QED
    BY <1>t, <2>1, <2>2, <2>3 DEF PhaseInv, ArgInv, FirstInv
<1>7. CASE Exit
  <2>1. /\ stage = "use" /\ stage' = "exited"
        /\ UNCHANGED <<pass, argi, value, read, included, used>>
    BY <1>7 DEF Exit
  <2>2. SecondInv'
    BY <2>1, <1>f DEF SecondInv
  <2> QED
    BY <1>t, <2>1, <2>2 DEF PhaseInv, FirstInv, SetInv, UsedInv, ArgInv
<1>8. CASE UNCHANGED optionVars
  <2>1. UNCHANGED <<stage, pass, argi, value, read, included, used>>
    BY <1>8 DEF optionVars
  <2>2. SecondInv' /\ SetInv'
    BY <2>1, <1>f, <1>l DEF SecondInv, SetInv, Chosen
  <2>3. ArgInv'
    BY <2>1, <1>f, <1>l DEF ArgInv, SetSoFar
  <2> QED
    BY <1>t, <2>1, <2>2, <2>3 DEF PhaseInv, FirstInv, UsedInv
<1> QED
  BY <1>1, <1>2, <1>3, <1>4, <1>5, <1>6, <1>7, <1>8 DEF OptionsNext

LEMMA OptionsInvariance == OptionsSpec => []OptionsInv
<1>1. OptionsInit => OptionsInv
  <2>1. ASSUME OptionsInit PROVE OptionsOK
    BY <2>1, SourceType DEF OptionsInit, OptionsOK, Maybe
  <2> QED
    BY <2>1 DEF OptionsInit, OptionsInv, PhaseInv, ArgInv, FirstInv, SecondInv, SetInv, UsedInv
<1>2. OptionsInv /\ [OptionsNext]_optionVars => OptionsInv'
  BY OptionsStep
<1> QED
  BY <1>1, <1>2, PTL DEF OptionsSpec

(* The options and what has been read of them keep their types.             *)
THEOREM OptionsTypeCorrect == OptionsSpec => []OptionsOK
<1>1. OptionsInv => OptionsOK
  BY DEF OptionsInv
<1> QED
  BY <1>1, OptionsInvariance, PTL

-----------------------------------------------------------------------------
(* Each option has the value of the last source that gives one.             *)
THEOREM PriorityHolds == OptionsSpec => []Priority
<1>1. OptionsInv => Priority
  <2>1. ASSUME OptionsInv, stage = "use", NEW o \in Option, Chosen(o) PROVE Preferred(o)
    <3>1. Len(argv) + 1 \in Nat /\ OptionsOK /\ pass = 2
      BY <2>1 DEF OptionsInv, OptionsOK, PhaseInv
    <3> QED
      BY <2>1, <3>1, LastIsUnique
         DEF Chosen, Preferred, InConfigFile, FromSources, FileSays, Or
  <2> QED
    BY <2>1 DEF OptionsInv, SetInv, Priority
<1> QED
  BY <1>1, OptionsInvariance, PTL

(* The file that was read, the search path that was used and whatever the   *)
(* program was told of an option are the values of the options in the end.  *)
THEOREM UsedIsFinalHolds == OptionsSpec => []UsedIsFinal
<1>1. ASSUME OptionsInv PROVE UsedIsFinal
  <2> USE <1>1 DEF OptionsInv
  <2>1. \A o \in Option : \/ used[o] \in {None, value[o]}
                          \/ o = Root /\ used[o] = Empty
    BY DEF UsedInv
  <2>2. ASSUME stage = "use", NEW o \in {Config, Include}, NEW v, Early(o, v),
               o \in InFile => disk.says[read][o] = None
        PROVE  v = value[o]
    <3>1. o \in Option /\ Len(argv) + 1 \in Nat
      BY <2>2, OptionType DEF OptionsOK
    <3>2. Chosen(o)
      BY <2>2, <3>1 DEF SetInv
    <3>3. FromSources(o) = Or(env[o], Default[o])
      BY <2>2 DEF FromSources, FileSays, Or
    <3> QED
      BY <2>2, <3>1, <3>2, <3>3, LastIsUnique DEF Chosen, Early
  <2>3. stage = "use" => Early(Config, read) /\ Early(Include, included)
    BY DEF PhaseInv, SecondInv
  <2> QED
    BY <2>1, <2>2, <2>3, OptionType DEF UsedIsFinal
<1> QED
  BY <1>1, OptionsInvariance, PTL
=============================================================================
