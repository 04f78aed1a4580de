------------------------------- MODULE UIProofs -------------------------------
(***************************************************************************)
(* Proofs about the widgets of jQuery UI, for any number of elements and   *)
(* any bounds: the drag and drop, the tooltip, the bars and buttons, the   *)
(* slider and the spinner.                                                 *)
(***************************************************************************)
EXTENDS UIDrag, UITooltip, UIWidget, UISlider, UISpinner, UITabs, UIAccordion,
        UISortable, UIDialog, Integers, TLAPS, FiniteSetTheorems, SequenceTheorems

(* Dragging *)

DragShape ==
    /\ DragTypeOK /\ hasty \in BOOLEAN /\ greedyDrop \in BOOLEAN
    /\ droppable \in [Droppables -> [isover : BOOLEAN, hover : BOOLEAN, greedyChild : BOOLEAN]]

\* Only a gesture whose end the document will hear is a drag.
GestureHeard == (mouse.started => mouse.bound) /\ (mouse.bound => mouse.handled)

\* While nothing is dragged no droppable is over, nor waits for its child.
AtRest ==
    ~mouse.started =>
        /\ \A d \in Droppables : ~droppable[d].isover /\ (hasty \/ ~droppable[d].hover)
        /\ hasty \/ greedyDrop \/ ~droppable["outer"].greedyChild

\* What is dragged is over the innermost droppable under the pointer.
OverOne ==
    mouse.started /\ ~hasty =>
        /\ \A d \in Droppables : (droppable[d].hover <=> droppable[d].isover) /\ (droppable[d].isover => pointer = d)
        /\ pointer = "inner" => droppable["inner"].isover
        /\ droppable["outer"].greedyChild => ~droppable["outer"].isover
        /\ ~greedyDrop => /\ pointer = "outer" => droppable["outer"].isover
                          /\ droppable["outer"].greedyChild <=> pointer = "inner"

DragInv == DragShape /\ GestureHeard /\ AtRest /\ OverOne

DropState == [isover : BOOLEAN, hover : BOOLEAN, greedyChild : BOOLEAN]
DropStates == [Droppables -> DropState]

\* After a move the inner droppable is over exactly while the pointer is on it,
\* and the outer one follows unless it waits for its child.
LEMMA InnerFollows ==
  ASSUME NEW ds \in DropStates, NEW p \in PointerPlaces
  PROVE  /\ InnerDragged(ds, p) \in DropStates
         /\ InnerDragged(ds, p)["inner"].isover <=> p = "inner"
         /\ (ds["inner"].hover <=> ds["inner"].isover) =>
               (InnerDragged(ds, p)["inner"].hover <=> p = "inner")
         /\ (ds["inner"].isover <=> p = "inner") => InnerDragged(ds, p) = ds
         /\ ~(ds["inner"].isover <=> p = "inner") =>
               /\ InnerDragged(ds, p)["outer"].isover <=> ds["inner"].isover
               /\ InnerDragged(ds, p)["outer"].hover <=> ds["inner"].isover
               /\ InnerDragged(ds, p)["outer"].greedyChild <=> ~ds["inner"].isover
<1> DEFINE in == [ds["inner"] EXCEPT !.isover = ~ds["inner"].isover, !.hover = ~ds["inner"].isover]
           out == [ds["outer"] EXCEPT !.isover = ds["inner"].isover, !.hover = ds["inner"].isover,
                                      !.greedyChild = ~ds["inner"].isover]
<1>1. ds["inner"] \in DropState /\ ds["outer"] \in DropState
  BY DEF DropStates, Droppables
<1>2. in \in DropState /\ in.isover = ~ds["inner"].isover /\ in.hover = ~ds["inner"].isover
  BY <1>1 DEF DropState
<1>3. out \in DropState /\ out.isover = ds["inner"].isover /\ out.hover = ds["inner"].isover
      /\ out.greedyChild = ~ds["inner"].isover
  BY <1>1 DEF DropState
<1>4. CASE ds["inner"].isover <=> p = "inner"
  <2>1. InnerDragged(ds, p) = ds
    BY <1>1, <1>4 DEF InnerDragged, Intersects, DropState
  <2>. QED
    BY <1>4, <2>1
<1>5. CASE ~(ds["inner"].isover <=> p = "inner")
  <2>1. InnerDragged(ds, p) = [ds EXCEPT !["inner"] = in, !["outer"] = out]
    BY <1>1, <1>5 DEF InnerDragged, Intersects, Over, DropState, DropStates, Droppables
  <2>2. InnerDragged(ds, p)["inner"] = in /\ InnerDragged(ds, p)["outer"] = out
        /\ InnerDragged(ds, p) \in DropStates
    <3> HIDE DEF in, out
    <3>. QED
      BY <2>1, <1>2, <1>3 DEF DropStates, Droppables
  <2>3. ds["inner"].isover \in BOOLEAN /\ (p = "inner") \in BOOLEAN
    BY <1>1 DEF DropState
  <2> HIDE DEF in, out
  <2>. QED
    BY <2>2, <2>3, <1>2, <1>3, <1>5
<1>. QED
  BY <1>4, <1>5

LEMMA OuterFollows ==
  ASSUME NEW ds \in DropStates, NEW p \in PointerPlaces
  PROVE  /\ OuterDragged(ds, p) \in DropStates
         /\ OuterDragged(ds, p)["inner"] = ds["inner"]
         /\ OuterDragged(ds, p)["outer"].greedyChild <=> ds["outer"].greedyChild
         /\ ds["outer"].greedyChild => OuterDragged(ds, p) = ds
         /\ ~ds["outer"].greedyChild =>
               (OuterDragged(ds, p)["outer"].isover <=> p \in {"inner", "outer"})
         /\ (ds["outer"].hover <=> ds["outer"].isover) =>
               (OuterDragged(ds, p)["outer"].hover <=> OuterDragged(ds, p)["outer"].isover)
<1> DEFINE out == [ds["outer"] EXCEPT !.isover = ~ds["outer"].isover, !.hover = ~ds["outer"].isover]
<1>1. ds["inner"] \in DropState /\ ds["outer"] \in DropState
  BY DEF DropStates, Droppables
<1>2. out \in DropState /\ out.isover = ~ds["outer"].isover /\ out.hover = ~ds["outer"].isover
      /\ out.greedyChild = ds["outer"].greedyChild
  BY <1>1 DEF DropState
<1>3. ds["outer"].isover \in BOOLEAN /\ (p = "outer" \/ p = "inner") \in BOOLEAN
  BY <1>1 DEF DropState
<1>4. CASE ds["outer"].greedyChild \/ (ds["outer"].isover <=> (p = "outer" \/ p = "inner"))
  <2>1. OuterDragged(ds, p) = ds
    BY <1>1, <1>3, <1>4 DEF OuterDragged, Intersects
  <2>. QED
    BY <1>3, <1>4, <2>1
<1>5. CASE ~(ds["outer"].greedyChild \/ (ds["outer"].isover <=> (p = "outer" \/ p = "inner")))
  <2>1. OuterDragged(ds, p) = [ds EXCEPT !["outer"] = out]
    BY <1>1, <1>5 DEF OuterDragged, Intersects, Over, DropState, DropStates, Droppables
  <2> HIDE DEF out
  <2>2. OuterDragged(ds, p)["inner"] = ds["inner"] /\ OuterDragged(ds, p)["outer"] = out
        /\ OuterDragged(ds, p) \in DropStates
    BY <2>1, <1>2 DEF DropStates, Droppables
  <2>. QED
    BY <2>2, <1>2, <1>3, <1>5
<1>. QED
  BY <1>4, <1>5

\* Letting go clears what is over, and what took the drop.
LEMMA DropForgets ==
  ASSUME NEW ds \in DropStates, NEW p \in PointerPlaces
  PROVE  /\ DropManager(ds, p) \in DropStates
         /\ \A d \in Droppables :
               /\ ~DropManager(ds, p)[d].isover
               /\ DropManager(ds, p)[d].hover => ds[d].hover /\ ~Takes(d, p)
               /\ (DropManager(ds, p)[d].greedyChild <=> ds[d].greedyChild)
<1>1. SUFFICES ASSUME NEW d \in Droppables
               PROVE  /\ DropManager(ds, p)[d] \in DropState
                      /\ ~DropManager(ds, p)[d].isover
                      /\ DropManager(ds, p)[d].hover => ds[d].hover /\ ~Takes(d, p)
                      /\ (DropManager(ds, p)[d].greedyChild <=> ds[d].greedyChild)
  BY DEF DropManager, DropStates
<1>2. DropManager(ds, p)[d] = [ds[d] EXCEPT !.isover = FALSE, !.hover = @ /\ ~Takes(d, p)]
  BY DEF DropManager
<1>3. ds[d] \in DropState
  BY DEF DropStates
<1> DEFINE left == ds[d].hover /\ ~Takes(d, p)
<1>4. left \in BOOLEAN
  OBVIOUS
<1>5. DropManager(ds, p)[d] = [ds[d] EXCEPT !.isover = FALSE, !.hover = left]
  BY <1>2, <1>3 DEF DropState
<1>6. /\ DropManager(ds, p)[d] \in DropState
      /\ DropManager(ds, p)[d].isover = FALSE
      /\ DropManager(ds, p)[d].hover = left
      /\ (DropManager(ds, p)[d].greedyChild <=> ds[d].greedyChild)
  <2> HIDE DEF left
  <2>. QED
    BY <1>3, <1>4, <1>5 DEF DropState
<1>. QED
  BY <1>6

\* A drag that moves keeps the droppables right.
LEMMA DragMoves ==
  ASSUME DragInv, NEW p \in PointerPlaces, p # pointer, pointer' = p, mouse.bound,
         mouse' = [mouse EXCEPT !.started = TRUE], droppable' = DragManager(droppable, p),
         hasty' = (hasty \/ (pointer = "inner" /\ p = "away")), greedyDrop' = greedyDrop
  PROVE  droppable' \in DropStates /\ OverOne'
<1> DEFINE mid == OuterDragged(droppable, p)
           end == InnerDragged(mid, p)
<1>1. droppable \in DropStates /\ pointer \in PointerPlaces
  BY DEF DragInv, DragShape, DragTypeOK, DropStates, DropState
<1>2. /\ mid \in DropStates
      /\ mid["inner"] = droppable["inner"]
      /\ (mid["outer"].greedyChild <=> droppable["outer"].greedyChild)
      /\ droppable["outer"].greedyChild => mid = droppable
      /\ ~droppable["outer"].greedyChild => (mid["outer"].isover <=> p \in {"inner", "outer"})
      /\ (droppable["outer"].hover <=> droppable["outer"].isover) => (mid["outer"].hover <=> mid["outer"].isover)
  BY <1>1, OuterFollows
<1>3. /\ end \in DropStates
      /\ (end["inner"].isover <=> p = "inner")
      /\ (mid["inner"].hover <=> mid["inner"].isover) => (end["inner"].hover <=> p = "inner")
      /\ (mid["inner"].isover <=> p = "inner") => end = mid
      /\ ~(mid["inner"].isover <=> p = "inner") =>
            /\ end["outer"].isover <=> mid["inner"].isover
            /\ end["outer"].hover <=> mid["inner"].isover
            /\ end["outer"].greedyChild <=> ~mid["inner"].isover
  BY <1>2, InnerFollows
<1>4. droppable' = end
  BY DEF DragManager
<1> HIDE DEF mid, end
<1>5. \A d \in Droppables : droppable[d] \in DropState /\ mid[d] \in DropState /\ end[d] \in DropState
  BY <1>1, <1>2, <1>3 DEF DropStates
<1>6. ASSUME ~hasty' PROVE /\ \A d \in Droppables : (end[d].hover <=> end[d].isover) /\ (end[d].isover => p = d)
                           /\ p = "inner" => end["inner"].isover
                           /\ end["outer"].greedyChild => ~end["outer"].isover
                           /\ ~greedyDrop => /\ p = "outer" => end["outer"].isover
                                             /\ end["outer"].greedyChild <=> p = "inner"
  <2>1. ~hasty /\ ~(pointer = "inner" /\ p = "away")
    BY <1>6
  <2>0. droppable["outer"].greedyChild => ~droppable["outer"].isover
    BY <2>1, <1>5 DEF DragInv, AtRest, OverOne, Droppables
  <2>2. \A d \in Droppables : (droppable[d].hover <=> droppable[d].isover) /\ (droppable[d].isover => mouse.started /\ pointer = d)
    BY <2>1, <1>5 DEF DragInv, AtRest, OverOne, DropState
  <2>3. ~greedyDrop => (droppable["outer"].greedyChild <=> mouse.started /\ pointer = "inner")
    BY <2>1, <1>5 DEF DragInv, AtRest, OverOne, DropState
  <2>4. mouse.started => (pointer = "inner" => droppable["inner"].isover)
                          /\ (~greedyDrop /\ pointer = "outer" => droppable["outer"].isover)
    BY <2>1 DEF DragInv, OverOne
  <2>5. (end["inner"].hover <=> end["inner"].isover) /\ (end["inner"].isover <=> p = "inner")
    BY <1>2, <1>3, <2>2 DEF Droppables
  <2>6. end["outer"].hover <=> end["outer"].isover
    BY <1>2, <1>3, <2>2 DEF Droppables
  <2>7. end["outer"].isover => p = "outer"
    <3>1. CASE ~(mid["inner"].isover <=> p = "inner")
      BY <3>1, <1>1, <1>2, <1>3, <1>5, <2>1, <2>2 DEF Droppables, PointerPlaces, DropState
    <3>2. CASE mid["inner"].isover <=> p = "inner"
      <4>1. p # "inner"
        BY <3>2, <1>2, <2>2 DEF Droppables
      <4>2. CASE droppable["outer"].greedyChild
        BY <3>2, <4>1, <4>2, <1>2, <1>3, <2>0 DEF Droppables, PointerPlaces
      <4>3. CASE ~droppable["outer"].greedyChild
        BY <3>2, <4>1, <4>3, <1>2, <1>3 DEF Droppables, PointerPlaces
      <4>. QED
        BY <4>2, <4>3
    <3>. QED
      BY <3>1, <3>2
  <2>8. ASSUME ~greedyDrop PROVE p = "outer" => end["outer"].isover
    <3>1. CASE ~(mid["inner"].isover <=> p = "inner")
      BY <3>1, <1>2, <1>3, <2>2, <2>8 DEF Droppables
    <3>2. CASE mid["inner"].isover <=> p = "inner"
      BY <3>2, <1>2, <1>3, <2>2, <2>3, <2>4, <2>8 DEF Droppables
    <3>. QED
      BY <3>1, <3>2
  <2>9. ASSUME ~greedyDrop PROVE end["outer"].greedyChild <=> p = "inner"
    <3>1. CASE ~(mid["inner"].isover <=> p = "inner")
      BY <3>1, <1>2, <1>3, <1>5, <2>2, <2>3, <2>9 DEF Droppables, DropState
    <3>2. CASE mid["inner"].isover <=> p = "inner"
      BY <3>2, <1>2, <1>3, <2>2, <2>3, <2>4, <2>9 DEF Droppables
    <3>. QED
      BY <3>1, <3>2
  <2>10. end["outer"].greedyChild => ~end["outer"].isover
    BY <1>2, <1>3, <2>0
  <2>. QED
    BY <2>5, <2>6, <2>7, <2>8, <2>9, <2>10 DEF Droppables
<1>. QED
  BY <1>3, <1>4, <1>6 DEF OverOne

\* An end of the drag leaves the droppables at rest, whoever hears of it.
LEMMA DragEnds ==
  ASSUME DragInv, NEW handled \in BOOLEAN, NEW p \in PointerPlaces, MouseUp(handled, p),
         hasty' \in BOOLEAN, hasty => hasty', p = pointer \/ hasty'
  PROVE  /\ droppable' \in DropStates /\ greedyDrop' \in BOOLEAN
         /\ helper' \in {"none", "dragged", "reverting"}
         /\ mouse' \in [handled : BOOLEAN, started : BOOLEAN, bound : BOOLEAN, delayMet : BOOLEAN]
         /\ GestureHeard' /\ AtRest' /\ OverOne'
<1>1. droppable \in DropStates /\ mouse \in [handled : BOOLEAN, started : BOOLEAN, bound : BOOLEAN, delayMet : BOOLEAN]
      /\ greedyDrop \in BOOLEAN /\ helper \in {"none", "dragged", "reverting"} /\ hasty \in BOOLEAN
  BY DEF DragInv, DragShape, DragTypeOK, DropStates, DropState
<1>2. mouse' \in [handled : BOOLEAN, started : BOOLEAN, bound : BOOLEAN, delayMet : BOOLEAN]
      /\ mouse'.started = FALSE /\ mouse'.bound = FALSE
  BY <1>1 DEF MouseUp
<1>3. GestureHeard' /\ OverOne'
  BY <1>2 DEF GestureHeard, OverOne
<1>4. CASE ~mouse.started
  <2>1. UNCHANGED <<droppable, greedyDrop, helper>>
    BY <1>4 DEF MouseUp
  <2>2. AtRest'
    BY <1>2, <1>4, <2>1 DEF DragInv, AtRest
  <2>. QED
    BY <1>1, <1>2, <1>3, <2>1, <2>2
<1>5. CASE mouse.started
  <2>1. droppable' = DropManager(droppable, p) /\ greedyDrop' = (greedyDrop \/ Takes("inner", p))
    BY <1>5 DEF MouseUp
  <2>2. helper' \in {"none", "dragged", "reverting"}
    BY <1>5 DEF MouseUp
  <2>3. droppable' \in DropStates
        /\ \A d \in Droppables :
             /\ ~droppable'[d].isover
             /\ droppable'[d].hover => droppable[d].hover /\ ~Takes(d, p)
             /\ (droppable'[d].greedyChild <=> droppable[d].greedyChild)
    BY <1>1, <2>1, DropForgets
  <2>4. ASSUME ~hasty' PROVE /\ \A d \in Droppables : ~droppable'[d].hover
                             /\ greedyDrop' \/ ~droppable'["outer"].greedyChild
    <3>1. ~hasty /\ p = pointer
      BY <2>4
    <3>2. \A d \in Droppables : droppable[d].hover => p = d
      BY <1>5, <3>1 DEF DragInv, OverOne
    <3>3. \A d \in Droppables : p = d => Takes(d, p)
      BY DEF Takes, Intersects, Droppables
    <3>4. ~greedyDrop => (droppable["outer"].greedyChild => p = "inner")
      BY <1>5, <3>1 DEF DragInv, OverOne
    <3>5. p = "inner" => Takes("inner", p)
      BY DEF Takes, Intersects
    <3>. QED
      BY <2>1, <2>3, <3>2, <3>3, <3>4, <3>5 DEF Droppables
  <2>5. greedyDrop' \in BOOLEAN
    BY <1>1, <2>1 DEF Takes, Intersects
  <2>. QED
    BY <1>2, <1>3, <2>2, <2>3, <2>4, <2>5 DEF AtRest
<1>. QED
  BY <1>4, <1>5

LEMMA DragInitially == DragInit => DragInv
<1>1. SUFFICES ASSUME DragInit PROVE DragInv
  OBVIOUS
<1>2. DragShape
  <2>1. droppable \in [Droppables -> [isover : BOOLEAN, hover : BOOLEAN, greedyChild : BOOLEAN]]
    BY <1>1 DEF DragInit
  <2>2. mouse \in [handled : BOOLEAN, started : BOOLEAN, bound : BOOLEAN, delayMet : BOOLEAN]
    BY <1>1 DEF DragInit
  <2>. QED
    BY <1>1, <2>1, <2>2 DEF DragInit, DragShape, DragTypeOK, PointerPlaces
<1>3. ~mouse.started /\ ~mouse.bound
  BY <1>1 DEF DragInit
<1>4. \A d \in Droppables : ~droppable[d].isover /\ ~droppable[d].hover /\ ~droppable[d].greedyChild
  BY <1>1 DEF DragInit
<1>. QED
  BY <1>2, <1>3, <1>4 DEF DragInv, GestureHeard, AtRest, OverOne, Droppables

LEMMA DragStep ==
  ASSUME DragInv, [DragNext]_dragVars
  PROVE  DragInv'
<1> USE DEF DragInv
<1>1. /\ DragShape /\ mouse \in [handled : BOOLEAN, started : BOOLEAN, bound : BOOLEAN, delayMet : BOOLEAN]
      /\ pointer \in PointerPlaces /\ button \in BOOLEAN /\ hasty \in BOOLEAN /\ greedyDrop \in BOOLEAN
      /\ GestureHeard /\ AtRest /\ OverOne
  BY DEF DragShape, DragTypeOK
<1>2. CASE UNCHANGED dragVars
  BY <1>2 DEF dragVars, DragShape, DragTypeOK, GestureHeard, AtRest, OverOne
<1>3. CASE Press
  <2>1. mouse' \in [handled : BOOLEAN, started : BOOLEAN, bound : BOOLEAN, delayMet : BOOLEAN]
    <3>1. CASE UNCHANGED mouse
      BY <1>1, <3>1
    <3>2. ASSUME NEW delay \in BOOLEAN,
                 mouse' = [handled |-> TRUE, started |-> FALSE, bound |-> TRUE, delayMet |-> ~delay]
          PROVE  mouse' \in [handled : BOOLEAN, started : BOOLEAN, bound : BOOLEAN, delayMet : BOOLEAN]
      <4>1. (~delay) \in BOOLEAN
        OBVIOUS
      <4>. QED
        BY <3>2, <4>1
    <3>. QED
      BY <1>3, <3>1, <3>2 DEF Press
  <2>2. GestureHeard' /\ (mouse'.started => mouse.started) /\ (mouse'.started => UNCHANGED mouse)
    BY <1>1, <1>3 DEF Press, GestureHeard
  <2>3. mouse.started => UNCHANGED mouse
    BY <1>1, <1>3 DEF Press, GestureHeard
  <2>. QED
    BY <1>1, <1>3, <2>1, <2>2, <2>3 DEF Press, DragShape, DragTypeOK, AtRest, OverOne
<1>4. CASE DelayMet
  <2>1. mouse' \in [handled : BOOLEAN, started : BOOLEAN, bound : BOOLEAN, delayMet : BOOLEAN]
        /\ mouse'.started = mouse.started /\ mouse'.bound = mouse.bound /\ mouse'.handled = mouse.handled
    BY <1>1, <1>4 DEF DelayMet
  <2>. QED
    BY <1>1, <1>4, <2>1 DEF DelayMet, DragShape, DragTypeOK, GestureHeard, AtRest, OverOne
<1>5. CASE ReleaseUnheard
  BY <1>1, <1>5 DEF ReleaseUnheard, DragShape, DragTypeOK, GestureHeard, AtRest, OverOne
<1>6. CASE RevertEnds
  BY <1>1, <1>6 DEF RevertEnds, DragShape, DragTypeOK, GestureHeard, AtRest, OverOne
<1>7. CASE Release
  BY <1>1, <1>7, DragEnds DEF Release, DragShape, DragTypeOK, DropStates, DropState
<1>8. CASE Cancel
  BY <1>1, <1>8, DragEnds DEF Cancel, DragShape, DragTypeOK, DropStates, DropState
<1>9. ASSUME NEW p \in PointerPlaces, Move(p) PROVE DragInv'
  <2>1. p # pointer /\ pointer' = p /\ button' = button
    BY <1>9 DEF Move
  <2>2. CASE /\ ~mouse.bound \/ (~mouse.started /\ ~mouse.delayMet)
             /\ UNCHANGED <<mouse, helper, droppable, hasty, greedyDrop>>
    <3>1. ~mouse.started
      BY <1>1, <2>2 DEF GestureHeard
    <3>. QED
      BY <1>1, <2>1, <2>2, <3>1 DEF DragShape, DragTypeOK, GestureHeard, AtRest, OverOne
  <2>3. CASE /\ mouse.bound /\ (mouse.started \/ mouse.delayMet)
             /\ mouse' = [mouse EXCEPT !.started = TRUE]
             /\ helper' = "dragged"
             /\ droppable' = DragManager(droppable, p)
             /\ hasty' = (hasty \/ (pointer = "inner" /\ p = "away"))
             /\ UNCHANGED greedyDrop
    <3>1. droppable' \in DropStates /\ OverOne'
      BY <2>1, <2>3, DragMoves
    <3>2. mouse' \in [handled : BOOLEAN, started : BOOLEAN, bound : BOOLEAN, delayMet : BOOLEAN]
          /\ mouse'.started /\ mouse'.bound = mouse.bound /\ mouse'.handled = mouse.handled
      BY <1>1, <2>3
    <3>3. hasty' \in BOOLEAN
      BY <2>3, <1>1
    <3>. QED
      BY <1>1, <2>1, <2>3, <3>1, <3>2, <3>3 DEF DragShape, DragTypeOK, DropStates, DropState, GestureHeard, AtRest
  <2>4. CASE /\ mouse.bound /\ ~mouse.started /\ mouse.delayMet
             /\ mouse' = [mouse EXCEPT !.bound = FALSE]
             /\ UNCHANGED <<helper, droppable, hasty, greedyDrop>>
    <3>1. mouse' \in [handled : BOOLEAN, started : BOOLEAN, bound : BOOLEAN, delayMet : BOOLEAN]
          /\ mouse'.started = mouse.started /\ ~mouse'.bound
      BY <1>1, <2>4
    <3>. QED
      BY <1>1, <2>1, <2>4, <3>1 DEF DragShape, DragTypeOK, GestureHeard, AtRest, OverOne
  <2>5. CASE mouse.started /\ hasty' = TRUE /\ MouseUp(TRUE, p)
    BY <1>1, <2>1, <2>5, DragEnds DEF DragShape, DragTypeOK, DropStates, DropState
  <2>. QED
    BY <1>9, <2>2, <2>3, <2>4, <2>5 DEF Move
<1>. QED
  BY <1>2, <1>3, <1>4, <1>5, <1>6, <1>7, <1>8, <1>9 DEF DragNext

\* When no drag goes on nothing is highlighted and no droppable takes the
\* pointer to be over it (ui.mouse, ddmanager).
THEOREM DropsSettled == DragSpec => []DropsSettle
<1>1. DragInv => DropsSettle
  <2>1. SUFFICES ASSUME DragInv PROVE DropsSettle
    OBVIOUS
  <2>2. droppable["inner"] \in DropState /\ droppable["outer"] \in DropState /\ pointer \in PointerPlaces
    BY <2>1 DEF DragInv, DragShape, DragTypeOK, Droppables, DropState
  <2>3. mouse.started => mouse.bound /\ mouse.handled
    BY <2>1 DEF DragInv, GestureHeard
  <2>4. ~mouse.started => \A d \in Droppables : ~droppable[d].isover /\ (hasty \/ ~droppable[d].hover)
    BY <2>1 DEF DragInv, AtRest
  <2>5. ASSUME mouse.started, ~hasty, ~greedyDrop, NEW d \in Droppables
        PROVE  droppable[d].isover <=> pointer = d
    BY <2>1, <2>2, <2>5 DEF DragInv, OverOne, Droppables, DropState
  <2>. QED
    BY <2>3, <2>4, <2>5 DEF DropsSettle
<1>. QED
  BY <1>1, DragInitially, DragStep, PTL DEF DragSpec

(* The tooltip of a combobox *)

TipRecord == [title : {"absent", "empty", "message"}, dataTitle : BOOLEAN, tip : Nat,
              shown : SUBSET Nat, hiding : SUBSET (Nat \ {0}), made : Nat, open : BOOLEAN,
              handlers : SUBSET {"mouseleave", "focusout", "keyup"}]

\* One tip at most is shown, a new one for each time, and what closes it is bound.
GoodTip(s) ==
    /\ s.shown = IF s.tip = 0 THEN {} ELSE {s.tip}
    /\ s.tip <= s.made /\ s.tip \notin s.hiding /\ \A k \in s.hiding : k <= s.made
    /\ s.tip # 0 => s.open /\ s.handlers \intersect {"mouseleave", "focusout"} # {}
    /\ s.tip = 0 => s.handlers = {}

TipInv ==
    /\ Tooltip \in TipRecord /\ GoodTip(Tooltip)
    /\ hovered \in BOOLEAN /\ focused \in BOOLEAN /\ fieldThere \in BOOLEAN /\ messageTimers \in Nat
    /\ hovered \/ focused => fieldThere
    /\ fieldThere /\ (tip # 0 \/ title = "message") => messageTimers > 0
    /\ ~fieldThere => tip = 0 /\ tipsHiding = {}

LEMMA TipCloses ==
  ASSUME NEW s \in TipRecord, GoodTip(s)
  PROVE  /\ CloseTip(s) \in TipRecord /\ GoodTip(CloseTip(s)) /\ CloseTip(s).tip = 0
         /\ CloseTip(s).title \in {s.title, "message"}
<1> DEFINE t == IF s.dataTitle THEN "message" ELSE s.title
           sh == s.shown \ {s.tip}
           hd == IF s.tip = 0 THEN s.hiding ELSE s.hiding \union {s.tip}
           hs == {}
           no == FALSE
           c == [s EXCEPT !.title = t, !.tip = 0, !.shown = sh, !.hiding = hd,
                          !.open = no, !.handlers = hs]
<1>1. CloseTip(s) = c
  BY DEF CloseTip, TipRecord
<1>2. t \in {s.title, "message"} /\ t \in {"absent", "empty", "message"}
  BY DEF TipRecord
<1>3. sh = {}
  BY DEF GoodTip
<1>4. hd \in SUBSET (Nat \ {0}) /\ \A k \in hd : k <= s.made
  BY DEF TipRecord, GoodTip
<1>5. s.made \in Nat /\ s.dataTitle \in BOOLEAN
  BY DEF TipRecord
<1>8. sh \in SUBSET Nat /\ hs \in SUBSET {"mouseleave", "focusout", "keyup"} /\ hs = {} /\ no \in BOOLEAN
  BY <1>3
<1> HIDE DEF t, sh, hd, hs, no
<1>6. c \in TipRecord /\ c.title = t /\ c.tip = 0 /\ c.shown = sh /\ c.hiding = hd
      /\ c.handlers = {} /\ c.made = s.made
  BY <1>2, <1>4, <1>8 DEF TipRecord
<1> HIDE DEF c
<1>7. GoodTip(c)
  <2>1. c.shown = {} /\ c.tip = 0 /\ c.handlers = {} /\ c.hiding = hd /\ c.made = s.made
    BY <1>3, <1>6
  <2>2. 0 \notin hd /\ 0 <= s.made
    BY <1>4, <1>5
  <2>3. QED
    BY <1>4, <2>1, <2>2 DEF GoodTip
<1>. QED
  BY <1>1, <1>2, <1>6, <1>7

LEMMA TipShown ==
  ASSUME NEW s \in TipRecord, GoodTip(s), s.tip = 0, s.open, NEW event \in {"mouseover", "focusin", "call"}
  PROVE  /\ ShowTip(s, event) \in TipRecord /\ GoodTip(ShowTip(s, event))
         /\ ShowTip(s, event).tip # 0 /\ ShowTip(s, event).title # "message"
<1> DEFINE k == s.made + 1
           t == IF event = "mouseover" THEN "empty" ELSE "absent"
           sh == s.shown \union {k}
           hs == s.handlers \union {"keyup"}
                      \union (IF event \in {"call", "mouseover"} THEN {"mouseleave"} ELSE {})
                      \union (IF event \in {"call", "focusin"} THEN {"focusout"} ELSE {})
           c == [s EXCEPT !.title = t, !.made = k, !.tip = k, !.shown = sh, !.handlers = hs]
<1>1. ShowTip(s, event) = c
  BY DEF ShowTip, TipRecord
<1>2. k \in Nat /\ k # 0 /\ k = s.made + 1 /\ s.made \in Nat
  BY DEF TipRecord
<1>3. sh = {k}
  BY DEF GoodTip
<1>4. hs \in SUBSET {"mouseleave", "focusout", "keyup"} /\ hs \intersect {"mouseleave", "focusout"} # {}
  BY DEF TipRecord
<1>5. t \in {"absent", "empty"}
  OBVIOUS
<1>6. k \notin s.hiding /\ \A h \in s.hiding : h <= k
  BY <1>2 DEF TipRecord, GoodTip
<1> HIDE DEF k, t, sh, hs
<1>7. c \in TipRecord /\ c.title = t /\ c.tip = k /\ c.shown = sh /\ c.hiding = s.hiding /\ c.open = s.open
      /\ c.handlers = hs /\ c.made = k
  BY <1>2, <1>3, <1>4, <1>5 DEF TipRecord
<1> HIDE DEF c
<1>8. GoodTip(c)
  BY <1>2, <1>3, <1>4, <1>6, <1>7 DEF GoodTip
<1>. QED
  BY <1>1, <1>2, <1>5, <1>7, <1>8

\* A tip is opened for a message only, and takes it.
LEMMA TipOpens ==
  ASSUME NEW s \in TipRecord, GoodTip(s), NEW event \in {"mouseover", "focusin", "call"}
  PROVE  /\ OpenTip(s, event) \in TipRecord /\ GoodTip(OpenTip(s, event))
         /\ OpenTip(s, event).tip # 0 => s.tip # 0 \/ s.title = "message"
         /\ OpenTip(s, event).title = "message" => s.title = "message"
<1>1. CASE s.title = "absent" \/ s.tip # 0
  BY <1>1 DEF OpenTip
<1>2. CASE ~(s.title = "absent" \/ s.tip # 0) /\ s.title = "message"
  <2> DEFINE o == [s EXCEPT !.dataTitle = TRUE, !.open = TRUE]
  <2>1. o \in TipRecord /\ o.tip = s.tip /\ o.shown = s.shown /\ o.hiding = s.hiding /\ o.made = s.made
        /\ o.handlers = s.handlers /\ o.open = TRUE
    BY DEF TipRecord
  <2>2. OpenTip(s, event) = ShowTip(o, event)
    BY <1>2 DEF OpenTip
  <2> HIDE DEF o
  <2>3. GoodTip(o)
    BY <1>2, <2>1 DEF GoodTip
  <2>. QED
    BY <1>2, <2>1, <2>2, <2>3, TipShown
<1>3. CASE ~(s.title = "absent" \/ s.tip # 0) /\ s.title # "message"
  <2> DEFINE o == [s EXCEPT !.open = TRUE]
  <2>1. o \in TipRecord /\ o.tip = s.tip /\ o.shown = s.shown /\ o.hiding = s.hiding /\ o.made = s.made
        /\ o.handlers = s.handlers /\ o.open = TRUE /\ o.title = s.title
    BY DEF TipRecord
  <2>2. OpenTip(s, event) = o
    BY <1>3 DEF OpenTip
  <2> HIDE DEF o
  <2>3. GoodTip(o)
    BY <1>3, <2>1 DEF GoodTip
  <2>. QED
    BY <1>3, <2>1, <2>2, <2>3
<1>. QED
  BY <1>1, <1>2, <1>3

\* What closes a tip does nothing while there is none.
LEMMA TipHears ==
  ASSUME NEW s \in TipRecord, GoodTip(s), NEW type
  PROVE  /\ Heard(s, type) \in TipRecord /\ GoodTip(Heard(s, type))
         /\ Heard(s, type).tip # 0 => s.tip # 0
         /\ Heard(s, type).title = "message" => s.tip # 0 \/ s.title = "message"
<1>1. CASE type \in s.handlers
  <2>1. s.tip # 0
    BY <1>1 DEF GoodTip
  <2>. QED
    BY <1>1, <2>1, TipCloses DEF Heard
<1>2. CASE type \notin s.handlers
  BY <1>2 DEF Heard
<1>. QED
  BY <1>1, <1>2

\* A title that is set leaves the tip as it is.
LEMMA TipTitled ==
  ASSUME NEW s \in TipRecord, GoodTip(s), NEW t \in {"absent", "empty", "message"}
  PROVE  /\ [s EXCEPT !.title = t] \in TipRecord /\ GoodTip([s EXCEPT !.title = t])
         /\ [s EXCEPT !.title = t].tip = s.tip /\ [s EXCEPT !.title = t].title = t
<1> DEFINE o == [s EXCEPT !.title = t]
<1>1. o \in TipRecord /\ o.tip = s.tip /\ o.shown = s.shown /\ o.hiding = s.hiding /\ o.made = s.made
      /\ o.handlers = s.handlers /\ o.open = s.open /\ o.title = t
  BY DEF TipRecord
<1> HIDE DEF o
<1>2. GoodTip(o)
  BY <1>1 DEF GoodTip
<1>. QED
  BY <1>1, <1>2 DEF o

LEMMA TipBecomes ==
  ASSUME NEW s \in TipRecord, TooltipIs(s)
  PROVE  Tooltip' = s /\ tip' = s.tip /\ title' = s.title /\ tipsHiding' = s.hiding
BY DEF TooltipIs, Tooltip, TipRecord

LEMMA TipInitially == TooltipInit => TipInv
<1>1. SUFFICES ASSUME TooltipInit PROVE TipInv
  OBVIOUS
<1>2. Tooltip \in TipRecord
  BY <1>1 DEF TooltipInit, Tooltip, TipRecord
<1>3. Tooltip.tip = 0 /\ Tooltip.shown = {} /\ Tooltip.hiding = {} /\ Tooltip.made = 0 /\ Tooltip.handlers = {}
  BY <1>1 DEF TooltipInit, Tooltip
<1>4. GoodTip(Tooltip)
  BY <1>3 DEF GoodTip
<1>. QED
  BY <1>1, <1>2, <1>4 DEF TooltipInit, TipInv

LEMMA TipStep ==
  ASSUME TipInv, [TooltipNext]_tipVars
  PROVE  TipInv'
<1>1. /\ Tooltip \in TipRecord /\ GoodTip(Tooltip)
      /\ Tooltip.tip = tip /\ Tooltip.title = title /\ Tooltip.hiding = tipsHiding
      /\ Tooltip.handlers = tipHandlers /\ Tooltip.shown = tipsShown
      /\ hovered \in BOOLEAN /\ focused \in BOOLEAN /\ fieldThere \in BOOLEAN /\ messageTimers \in Nat
      /\ hovered \/ focused => fieldThere
      /\ fieldThere /\ (tip # 0 \/ title = "message") => messageTimers > 0
      /\ ~fieldThere => tip = 0 /\ tipsHiding = {}
  BY DEF TipInv, Tooltip
<1>2. CASE UNCHANGED tipVars
  BY <1>1, <1>2 DEF tipVars, TipInv, Tooltip
<1>3. CASE PointerOnField
  <2>1. OpenTip(Tooltip, "mouseover") \in TipRecord /\ GoodTip(OpenTip(Tooltip, "mouseover"))
        /\ (OpenTip(Tooltip, "mouseover").tip # 0 => tip # 0 \/ title = "message")
        /\ (OpenTip(Tooltip, "mouseover").title = "message" => title = "message")
    BY <1>1, TipOpens
  <2>. QED
    BY <1>1, <1>3, <2>1, TipBecomes DEF PointerOnField, TipInv
<1>4. CASE PointerOffField
  <2>1. Heard(Tooltip, "mouseleave") \in TipRecord /\ GoodTip(Heard(Tooltip, "mouseleave"))
        /\ (Heard(Tooltip, "mouseleave").tip # 0 => tip # 0)
        /\ (Heard(Tooltip, "mouseleave").title = "message" => tip # 0 \/ title = "message")
    BY <1>1, TipHears
  <2>. QED
    BY <1>1, <1>4, <2>1, TipBecomes DEF PointerOffField, TipInv
<1>5. CASE FieldFocused
  <2>1. OpenTip(Tooltip, "focusin") \in TipRecord /\ GoodTip(OpenTip(Tooltip, "focusin"))
        /\ (OpenTip(Tooltip, "focusin").tip # 0 => tip # 0 \/ title = "message")
        /\ (OpenTip(Tooltip, "focusin").title = "message" => title = "message")
    BY <1>1, TipOpens
  <2>. QED
    BY <1>1, <1>5, <2>1, TipBecomes DEF FieldFocused, TipInv
<1>6. CASE FieldLeft
  <2>1. Heard(Tooltip, "focusout") \in TipRecord /\ GoodTip(Heard(Tooltip, "focusout"))
        /\ (Heard(Tooltip, "focusout").tip # 0 => tip # 0)
        /\ (Heard(Tooltip, "focusout").title = "message" => tip # 0 \/ title = "message")
    BY <1>1, TipHears
  <2>. QED
    BY <1>1, <1>6, <2>1, TipBecomes DEF FieldLeft, TipInv
<1>7. CASE FieldRefused
  <2> DEFINE h == Heard(Tooltip, "focusout")
             m == [h EXCEPT !.title = "message"]
             o == OpenTip(m, "call")
  <2>1. h \in TipRecord /\ GoodTip(h)
    BY <1>1, TipHears
  <2>2. m \in TipRecord /\ GoodTip(m)
    BY <2>1, TipTitled
  <2>4. TooltipIs(o)
    BY <1>7 DEF FieldRefused
  <2> HIDE DEF h, m
  <2>3. o \in TipRecord /\ GoodTip(o)
    BY <2>2, TipOpens
  <2> HIDE DEF o
  <2>5. /\ focused /\ focused' = FALSE /\ hovered' = hovered /\ fieldThere' = fieldThere
        /\ messageTimers' = messageTimers + 1
    BY <1>7 DEF FieldRefused
  <2>6. messageTimers' \in Nat /\ messageTimers' > 0
    BY <1>1, <2>5
  <2>7. fieldThere'
    BY <1>1, <2>5
  <2>. QED
    BY <1>1, <2>3, <2>4, <2>5, <2>6, <2>7, TipBecomes DEF TipInv
<1>8. CASE TipEscaped
  <2>1. tip # 0
    BY <1>1, <1>8 DEF TipEscaped, GoodTip
  <2>2. CloseTip(Tooltip) \in TipRecord /\ GoodTip(CloseTip(Tooltip)) /\ CloseTip(Tooltip).tip = 0
    BY <1>1, TipCloses
  <2>. QED
    BY <1>1, <1>8, <2>1, <2>2, TipBecomes DEF TipEscaped, TipInv
<1>9. CASE MessageOver
  <2>1. CASE fieldThere
    <3>1. CloseTip(Tooltip) \in TipRecord /\ GoodTip(CloseTip(Tooltip)) /\ CloseTip(Tooltip).tip = 0
      BY <1>1, TipCloses
    <3>2. ClearedTitle(Tooltip) \in TipRecord /\ GoodTip(ClearedTitle(Tooltip))
          /\ ClearedTitle(Tooltip).tip = 0 /\ ClearedTitle(Tooltip).title = "empty"
      BY <3>1, TipTitled DEF ClearedTitle
    <3>3. TooltipIs(ClearedTitle(Tooltip))
      BY <1>9, <2>1 DEF MessageOver
    <3>. QED
      BY <1>1, <1>9, <2>1, <3>2, <3>3, TipBecomes DEF MessageOver, TipInv
  <2>2. CASE ~fieldThere
    <3>1. TooltipIs(Tooltip)
      BY <1>9, <2>2 DEF MessageOver
    <3>. QED
      BY <1>1, <1>9, <2>2, <3>1, TipBecomes DEF MessageOver, TipInv
  <2>. QED
    BY <2>1, <2>2, <1>1
<1>10. CASE FieldRemoved
  <2>1. CASE tipsShown \union tipsHiding = {}
    <3> DEFINE o == [Tooltip EXCEPT !.handlers = {}]
    <3>1. Tooltip.tip = 0
      BY <1>1, <2>1 DEF GoodTip
    <3>2. o \in TipRecord /\ o.tip = Tooltip.tip /\ o.shown = Tooltip.shown /\ o.hiding = Tooltip.hiding
          /\ o.made = Tooltip.made /\ o.handlers = {}
      BY <1>1 DEF TipRecord
    <3>3. TooltipIs(o)
      BY <1>10, <2>1 DEF FieldRemoved
    <3> HIDE DEF o
    <3>4. GoodTip(o)
      BY <1>1, <3>1, <3>2 DEF GoodTip
    <3>. QED
      BY <1>1, <1>10, <2>1, <3>1, <3>2, <3>3, <3>4, TipBecomes DEF FieldRemoved, TipInv
  <2>2. CASE tipsShown \union tipsHiding # {}
    <3> DEFINE c == CloseTip(Tooltip)
               o == [c EXCEPT !.hiding = {}, !.dataTitle = FALSE]
    <3>1. c \in TipRecord /\ GoodTip(c) /\ c.tip = 0
      BY <1>1, TipCloses
    <3>2. TooltipIs(o)
      BY <1>10, <2>2 DEF FieldRemoved
    <3> HIDE DEF c
    <3>3. o \in TipRecord /\ o.tip = c.tip /\ o.shown = c.shown /\ o.hiding = {}
          /\ o.made = c.made /\ o.handlers = c.handlers /\ o.open = c.open
      BY <3>1 DEF TipRecord
    <3> HIDE DEF o
    <3>4. GoodTip(o)
      BY <3>1, <3>3 DEF GoodTip
    <3>. QED
      BY <1>1, <1>10, <2>2, <3>1, <3>2, <3>3, <3>4, TipBecomes DEF FieldRemoved, TipInv
  <2>. QED
    BY <2>1, <2>2
<1>11. ASSUME NEW k \in tipsHiding, TipHidden(k) PROVE TipInv'
  <2> DEFINE o == [Tooltip EXCEPT !.hiding = Tooltip.hiding \ {k}]
  <2>1. o \in TipRecord /\ o.tip = Tooltip.tip /\ o.shown = Tooltip.shown /\ o.hiding = Tooltip.hiding \ {k}
        /\ o.made = Tooltip.made /\ o.handlers = Tooltip.handlers /\ o.open = Tooltip.open
    BY <1>1 DEF TipRecord
  <2>2. Tooltip' = o
    BY <1>11 DEF TipHidden, Tooltip
  <2> HIDE DEF o
  <2>3. GoodTip(o)
    BY <1>1, <2>1 DEF GoodTip
  <2>. QED
    BY <1>1, <1>11, <2>1, <2>2, <2>3 DEF TipHidden, TipInv
<1>. QED
  BY <1>2, <1>3, <1>4, <1>5, <1>6, <1>7, <1>8, <1>9, <1>10, <1>11 DEF TooltipNext

\* Whatever the pointer, the focus, the timers and the page do to the field of a
\* combobox, its tooltip can be closed, gives its title back and outlives
\* neither its message nor its field (ui.tooltip, combobox.js).
THEOREM TooltipsKept == TooltipSpec => []TooltipsHold
<1>1. TipInv => TooltipsHold
  BY DEF TipInv, GoodTip, Tooltip, TooltipsHold
<1>. QED
  BY <1>1, TipInitially, TipStep, PTL DEF TooltipSpec

(* Widgets of an element *)

WidgetRecord == [widget : WidgetNames, live : BOOLEAN, disabled : BOOLEAN, delayed : BOOLEAN]

WidgetShape ==
    /\ instances \in Seq(WidgetRecord) /\ stored \in [WidgetNames -> Nat]
    /\ elementThere \in BOOLEAN /\ pointerOver \in BOOLEAN /\ deadStored \in BOOLEAN
    /\ classes \subseteq {"hover", "disabled"}

\* What is stored of a widget was made as that widget; what hears events lives.
StoredRight ==
    /\ \A w \in WidgetNames : stored[w] # 0 => stored[w] \in InstancesMade /\ instances[stored[w]].widget = w
    /\ listening = {i \in InstancesMade : instances[i].live}
    /\ \A i \in listening : stored[instances[i].widget] = i
    /\ ~deadStored => \A w \in WidgetNames : stored[w] # 0 => stored[w] \in listening

\* Classes are there for a widget that lives and, of the pointer, one that hears.
ClassesRight ==
    /\ ~deadStored /\ listening = {} => classes = {}
    /\ "hover" \in classes => pointerOver /\ "disabled" \notin classes /\ Hears # {}

NothingWithout == ~elementThere => listening = {} /\ \A w \in WidgetNames : stored[w] = 0

BarFits == bar \in [value : Nat, oldValue : Nat, max : Nat] /\ bar.value <= bar.max

WidgetInv == WidgetShape /\ StoredRight /\ ClassesRight /\ NothingWithout /\ BarFits

LEMMA WidgetReplaced ==
  ASSUME NEW s \in Seq(WidgetRecord), NEW i \in DOMAIN s, NEW r \in WidgetRecord
  PROVE  /\ [s EXCEPT ![i] = r] \in Seq(WidgetRecord) /\ DOMAIN [s EXCEPT ![i] = r] = DOMAIN s
         /\ \A j \in DOMAIN s : [s EXCEPT ![i] = r][j] = IF j = i THEN r ELSE s[j]
OBVIOUS

LEMMA WidgetAppended ==
  ASSUME NEW s \in Seq(WidgetRecord), NEW r \in WidgetRecord
  PROVE  /\ Append(s, r) \in Seq(WidgetRecord) /\ DOMAIN Append(s, r) = DOMAIN s \union {Len(s) + 1}
         /\ \A j \in DOMAIN s : Append(s, r)[j] = s[j]
         /\ Append(s, r)[Len(s) + 1] = r /\ Len(s) + 1 \notin DOMAIN s /\ Len(s) + 1 \in Nat /\ Len(s) + 1 # 0
OBVIOUS

LEMMA WidgetTyped ==
  ASSUME WidgetInv
  PROVE  /\ \A i \in InstancesMade : instances[i] \in WidgetRecord /\ i # 0
         /\ \A w \in WidgetNames : stored[w] \in Nat
         /\ \A i \in listening : i \in InstancesMade
BY DEF WidgetInv, WidgetShape, StoredRight, InstancesMade

LEMMA LessOfTwo ==
  ASSUME NEW a \in Nat, NEW b \in Nat
  PROVE  Min({a, b}) \in Nat /\ Min({a, b}) <= b
<1>1. \E x \in {a, b} : \A y \in {a, b} : x =< y
  OBVIOUS
<1>2. Min({a, b}) \in {a, b} /\ \A y \in {a, b} : Min({a, b}) =< y
  <2> DEFINE Least(x) == x \in {a, b} /\ \A y \in {a, b} : x =< y
  <2>1. \E x : Least(x)
    BY <1>1
  <2>2. Least(CHOOSE x : Least(x))
    BY <2>1
  <2>3. Min({a, b}) = CHOOSE x : Least(x)
    BY DEF Min
  <2>. QED
    BY <2>2, <2>3
<1>. QED
  BY <1>2

\* The bar never runs over its end, whatever value or maximum it is given.
LEMMA BarRefreshed ==
  ASSUME NEW b \in [value : Nat, oldValue : Nat, max : Nat]
  PROVE  /\ Refreshed(b) \in [value : Nat, oldValue : Nat, max : Nat]
         /\ Refreshed(b).value <= Refreshed(b).max /\ Refreshed(b).max = b.max
<1> DEFINE v == Min({b.value, b.max})
           c == [b EXCEPT !.value = v]
           d == [c EXCEPT !.oldValue = v]
<1>1. b.value \in Nat /\ b.max \in Nat
  OBVIOUS
<1>2. v \in Nat /\ v <= b.max
  BY <1>1, LessOfTwo
<1>3. Constrained(b) = c
  BY DEF Constrained
<1> HIDE DEF v
<1>4. c \in [value : Nat, oldValue : Nat, max : Nat] /\ c.value = v /\ c.max = b.max
  BY <1>2
<1>5. Refreshed(b) = d
  BY <1>3, <1>4 DEF Refreshed
<1> HIDE DEF c
<1>6. d \in [value : Nat, oldValue : Nat, max : Nat] /\ d.value = v /\ d.max = b.max
  BY <1>2, <1>4
<1>. QED
  BY <1>2, <1>5, <1>6

LEMMA WidgetInitially == WidgetInit => WidgetInv
<1>1. SUFFICES ASSUME WidgetInit PROVE WidgetInv
  OBVIOUS
<1>2. instances = <<>> /\ DOMAIN instances = {} /\ listening = {} /\ classes = {} /\ elementThere = TRUE
      /\ deadStored = FALSE /\ pointerOver = FALSE /\ \A w \in WidgetNames : stored[w] = 0
  BY <1>1 DEF WidgetInit
<1>3. bar \in [value : Nat, oldValue : Nat, max : Nat] /\ bar.value <= bar.max
  <2>1. bar = [value |-> 0, oldValue |-> 0, max |-> BarLimit]
    BY <1>1 DEF WidgetInit
  <2>2. BarLimit \in Nat /\ 0 \in Nat /\ 0 <= BarLimit
    BY BarAssumption
  <2>. QED
    BY <2>1, <2>2
<1>4. WidgetShape
  <2>1. instances \in Seq(WidgetRecord)
    BY <1>2
  <2>2. stored \in [WidgetNames -> Nat]
    BY <1>1 DEF WidgetInit
  <2>. QED
    BY <1>2, <2>1, <2>2 DEF WidgetShape
<1>. QED
  BY <1>2, <1>3, <1>4 DEF WidgetInv, StoredRight, ClassesRight, NothingWithout, BarFits, InstancesMade

\* A widget that changes without dying, or being stored elsewhere, is heard of as before.
LEMMA WidgetChanged ==
  ASSUME WidgetInv, NEW i \in InstancesMade, NEW r \in WidgetRecord, instances' = [instances EXCEPT ![i] = r],
         r.widget = instances[i].widget, r.live = instances[i].live,
         UNCHANGED <<stored, listening, deadStored>>
  PROVE  instances' \in Seq(WidgetRecord) /\ InstancesMade' = InstancesMade /\ StoredRight'
         /\ \A j \in InstancesMade : instances'[j] = IF j = i THEN r ELSE instances[j]
<1>1. /\ instances' \in Seq(WidgetRecord) /\ InstancesMade' = InstancesMade
      /\ \A j \in InstancesMade : instances'[j] = IF j = i THEN r ELSE instances[j]
  BY WidgetReplaced DEF WidgetInv, WidgetShape, InstancesMade
<1>2. \A j \in InstancesMade : instances'[j].widget = instances[j].widget /\ instances'[j].live = instances[j].live
  BY <1>1
<1>3. StoredRight
  BY DEF WidgetInv
<1>4. \A j \in listening : j \in InstancesMade
  BY <1>3 DEF StoredRight
<1>. QED
  BY <1>1, <1>2, <1>3, <1>4 DEF StoredRight

LEMMA WidgetStep ==
  ASSUME WidgetInv, [WidgetNext]_widgetVars
  PROVE  WidgetInv'
<1>1. /\ WidgetShape /\ StoredRight /\ ClassesRight /\ NothingWithout /\ BarFits
      /\ \A i \in InstancesMade : instances[i] \in WidgetRecord /\ i # 0
      /\ \A i \in listening : i \in InstancesMade
  BY WidgetTyped DEF WidgetInv
<1>2. CASE UNCHANGED widgetVars
  BY <1>1, <1>2 DEF widgetVars, WidgetInv, WidgetShape, StoredRight, ClassesRight, NothingWithout, BarFits,
                     Hears, InstancesMade
<1>3. ASSUME NEW w \in WidgetNames, NEW b \in BOOLEAN, MakeWidget(w, b) PROVE WidgetInv'
  <2> DEFINE i == Len(instances) + 1
             r == WidgetCreated(w, b)
  <2>1. r \in WidgetRecord /\ r.widget = w /\ (r.live <=> ~b) /\ ~r.disabled
    <3>1. (~b) \in BOOLEAN
      OBVIOUS
    <3>. QED
      BY <3>1 DEF WidgetCreated, WidgetRecord
  <2>2. instances' = Append(instances, r) /\ stored' = [stored EXCEPT ![w] = i] /\ stored[w] = 0 /\ elementThere
        /\ listening' = (IF b THEN listening ELSE listening \union {i})
        /\ classes' = (IF b THEN {} ELSE classes) /\ deadStored' = (deadStored \/ b)
        /\ UNCHANGED <<elementThere, pointerOver>>
    BY <1>3 DEF MakeWidget
  <2> HIDE DEF r
  <2>3. /\ instances' \in Seq(WidgetRecord) /\ InstancesMade' = InstancesMade \union {i}
        /\ \A j \in InstancesMade : instances'[j] = instances[j]
        /\ instances'[i] = r /\ i \notin InstancesMade /\ i \in Nat /\ i # 0
    BY <1>1, <2>1, <2>2, WidgetAppended DEF WidgetShape, InstancesMade
  <2> HIDE DEF i
  <2>4. WidgetShape'
    BY <1>1, <2>2, <2>3 DEF WidgetShape
  <2>5. StoredRight'
    <3>1. stored'[w] = i /\ \A v \in WidgetNames \ {w} : stored'[v] = stored[v]
      BY <1>1, <2>2 DEF WidgetShape
    <3>2. \A v \in WidgetNames : stored'[v] # 0 => stored'[v] \in InstancesMade' /\ instances'[stored'[v]].widget = v
      BY <1>1, <2>1, <2>3, <3>1 DEF StoredRight
    <3>3. listening' = {j \in InstancesMade' : instances'[j].live}
      <4>1. listening = {j \in InstancesMade : instances[j].live}
        BY <1>1 DEF StoredRight
      <4>2. CASE b
        BY <2>1, <2>2, <2>3, <4>1, <4>2, ZenonT(60)
      <4>3. CASE ~b
        BY <2>1, <2>2, <2>3, <4>1, <4>3
      <4>. QED
        BY <4>2, <4>3
    <3>4. \A j \in listening' : stored'[instances'[j].widget] = j
      <4>1. SUFFICES ASSUME NEW j \in listening' PROVE stored'[instances'[j].widget] = j
        OBVIOUS
      <4>2. CASE j \in listening
        <5>1. instances[j].widget \in WidgetNames /\ stored[instances[j].widget] = j /\ j # 0 /\ j \in InstancesMade
          BY <1>1, <4>2 DEF StoredRight, WidgetRecord
        <5>2. instances[j].widget # w
          BY <2>2, <5>1
        <5>. QED
          BY <2>3, <3>1, <5>1, <5>2
      <4>3. CASE j = i
        BY <2>1, <2>3, <3>1, <4>3
      <4>. QED
        BY <2>2, <4>1, <4>2, <4>3
    <3>5. ~deadStored' => \A v \in WidgetNames : stored'[v] # 0 => stored'[v] \in listening'
      <4>1. SUFFICES ASSUME ~deadStored', NEW v \in WidgetNames, stored'[v] # 0 PROVE stored'[v] \in listening'
        OBVIOUS
      <4>2. ~deadStored /\ ~b /\ listening' = listening \union {i}
        BY <2>2, <4>1
      <4>. QED
        BY <1>1, <3>1, <4>1, <4>2 DEF StoredRight
    <3>. QED
      BY <3>2, <3>3, <3>4, <3>5 DEF StoredRight
  <2>6. ClassesRight'
    <3>1. \A j \in Hears : j \in listening /\ j \in InstancesMade /\ ~instances[j].disabled /\ "disabled" \notin classes
      BY <1>1 DEF Hears
    <3>2. ASSUME ~b PROVE \A j \in Hears : j \in Hears'
      <4>1. classes' = classes /\ \A j \in listening : j \in listening'
        BY <2>2, <3>2
      <4>. QED
        BY <2>3, <3>1, <4>1 DEF Hears
    <3>. QED
      BY <1>1, <2>2, <3>2 DEF ClassesRight
  <2>7. NothingWithout' /\ BarFits'
    <3>1. NothingWithout'
      BY <2>2 DEF NothingWithout
    <3>2. BarMade \in [value : Nat, oldValue : Nat, max : Nat] /\ BarMade.value <= BarMade.max
      <4>1. [value |-> 0, oldValue |-> 0, max |-> BarLimit] \in [value : Nat, oldValue : Nat, max : Nat]
        BY BarAssumption, 0 \in Nat
      <4>. QED
        BY <4>1, BarRefreshed DEF BarMade
    <3>3. bar' = BarMade \/ bar' = bar
      BY <1>3 DEF MakeWidget
    <3>. QED
      BY <1>1, <3>1, <3>2, <3>3 DEF BarFits
  <2>. QED
    BY <2>4, <2>5, <2>6, <2>7 DEF WidgetInv
<1>4. ASSUME NEW w \in WidgetNames, NEW b \in BOOLEAN, SetDisabled(w, b) PROVE WidgetInv'
  <2> DEFINE i == stored[w]
             r == [instances[i] EXCEPT !.disabled = b]
  <2>1. i \in InstancesMade /\ instances[i] \in WidgetRecord
    BY <1>1, <1>4 DEF SetDisabled, Called, StoredRight
  <2>2. r \in WidgetRecord /\ r.widget = instances[i].widget /\ r.live = instances[i].live
    BY <2>1 DEF WidgetRecord
  <2>3. instances' = [instances EXCEPT ![i] = r]
        /\ UNCHANGED <<stored, listening, elementThere, pointerOver, bar, deadStored>>
        /\ classes' = (classes \ {"hover", "disabled"}) \union (IF b THEN {"disabled"} ELSE {})
        /\ elementThere /\ i # 0
    BY <1>4 DEF SetDisabled, Called
  <2> HIDE DEF i, r
  <2>4. instances' \in Seq(WidgetRecord) /\ StoredRight'
    BY <2>1, <2>2, <2>3, WidgetChanged
  <2>5. WidgetShape'
    BY <1>1, <2>3, <2>4 DEF WidgetShape
  <2>6. ~deadStored => listening # {}
    BY <1>1, <2>3 DEF StoredRight, i
  <2>7. ClassesRight'
    BY <2>3, <2>6 DEF ClassesRight
  <2>. QED
    BY <1>1, <2>3, <2>4, <2>5, <2>7 DEF WidgetInv, NothingWithout, BarFits
<1>5. ASSUME NEW w \in WidgetNames, DestroyWidget(w) PROVE WidgetInv'
  <2> DEFINE i == stored[w]
             r == [instances[i] EXCEPT !.live = FALSE]
  <2>1. i \in InstancesMade /\ instances[i] \in WidgetRecord /\ instances[i].widget = w
    BY <1>1, <1>5 DEF DestroyWidget, Called, StoredRight
  <2>2. r \in WidgetRecord /\ r.widget = w /\ ~r.live
    BY <2>1 DEF WidgetRecord
  <2>3. instances' = [instances EXCEPT ![i] = r]
        /\ UNCHANGED <<elementThere, pointerOver, bar, deadStored>>
        /\ listening' = listening \ {i} /\ classes' = {} /\ stored' = [stored EXCEPT ![w] = 0]
        /\ elementThere
    BY <1>5 DEF DestroyWidget, Called, Destroyed, UnboundHandlers
  <2> HIDE DEF i, r
  <2>4. /\ instances' \in Seq(WidgetRecord) /\ InstancesMade' = InstancesMade
        /\ \A j \in InstancesMade : instances'[j] = IF j = i THEN r ELSE instances[j]
    BY <1>1, <2>1, <2>2, <2>3, WidgetReplaced DEF WidgetShape, InstancesMade
  <2>5. stored'[w] = 0 /\ \A v \in WidgetNames \ {w} : stored'[v] = stored[v]
    BY <1>1, <2>3 DEF WidgetShape
  <2>6. WidgetShape'
    BY <1>1, <2>3, <2>4 DEF WidgetShape
  <2>7. \A v \in WidgetNames \ {w} : stored[v] # i
    BY <1>1, <2>1 DEF StoredRight
  <2>8. StoredRight'
    <3>1. \A v \in WidgetNames : stored'[v] # 0 => stored'[v] \in InstancesMade' /\ instances'[stored'[v]].widget = v
      BY <1>1, <2>2, <2>4, <2>5, <2>7 DEF StoredRight
    <3>2. listening' = {j \in InstancesMade' : instances'[j].live}
      BY <1>1, <2>2, <2>3, <2>4 DEF StoredRight
    <3>3. \A j \in listening' : stored'[instances'[j].widget] = j
      <4>1. SUFFICES ASSUME NEW j \in listening' PROVE stored'[instances'[j].widget] = j
        OBVIOUS
      <4>2. j \in listening /\ j # i /\ j \in InstancesMade
        BY <1>1, <2>3, <4>1
      <4>3. instances'[j] = instances[j] /\ stored[instances[j].widget] = j /\ instances[j].widget \in WidgetNames
        BY <1>1, <2>4, <4>2 DEF StoredRight, WidgetRecord
      <4>. QED
        BY <2>5, <4>2, <4>3 DEF i
    <3>4. ~deadStored' => \A v \in WidgetNames : stored'[v] # 0 => stored'[v] \in listening'
      BY <1>1, <2>3, <2>5, <2>7 DEF StoredRight
    <3>. QED
      BY <3>1, <3>2, <3>3, <3>4 DEF StoredRight
  <2>. QED
    BY <1>1, <2>3, <2>6, <2>8 DEF WidgetInv, ClassesRight, NothingWithout, BarFits
<1>6. ASSUME NEW w \in WidgetNames, Delays(w) PROVE WidgetInv'
  <2> DEFINE i == stored[w]
             r == [instances[i] EXCEPT !.delayed = TRUE]
  <2>1. i \in InstancesMade /\ instances[i] \in WidgetRecord
    BY <1>1, <1>6 DEF Delays, Called, StoredRight
  <2>2. r \in WidgetRecord /\ r.widget = instances[i].widget /\ r.live = instances[i].live
        /\ r.disabled = instances[i].disabled
    BY <2>1 DEF WidgetRecord
  <2>3. instances' = [instances EXCEPT ![i] = r]
        /\ UNCHANGED <<stored, listening, elementThere, pointerOver, classes, bar, deadStored>>
    BY <1>6 DEF Delays
  <2> HIDE DEF i, r
  <2>4. instances' \in Seq(WidgetRecord) /\ StoredRight'
         /\ \A j \in InstancesMade : instances'[j] = IF j = i THEN r ELSE instances[j]
    BY <2>1, <2>2, <2>3, WidgetChanged
  <2>5. \A j \in Hears : j \in Hears'
    BY <1>1, <2>2, <2>3, <2>4 DEF Hears
  <2>. QED
    BY <1>1, <2>3, <2>4, <2>5 DEF WidgetInv, WidgetShape, ClassesRight, NothingWithout, BarFits
<1>7. CASE ElementRemoved
  <2>1. elementThere' = FALSE /\ pointerOver' = FALSE /\ stored' = [w \in WidgetNames |-> 0]
        /\ listening' = {} /\ classes' = (IF listening = {} THEN classes ELSE {})
        /\ instances' = [i \in InstancesMade |-> [instances[i] EXCEPT !.live = @ /\ i \notin listening]]
        /\ UNCHANGED <<bar, deadStored>>
    BY <1>7 DEF ElementRemoved, Destroyed, UnboundHandlers
  <2>2. \A i \in InstancesMade : instances'[i] \in WidgetRecord /\ ~instances'[i].live
    <3>1. SUFFICES ASSUME NEW i \in InstancesMade PROVE instances'[i] \in WidgetRecord /\ ~instances'[i].live
      OBVIOUS
    <3> DEFINE l == instances[i].live /\ i \notin listening
    <3>2. l \in BOOLEAN /\ ~l
      BY <1>1 DEF StoredRight
    <3>3. instances'[i] = [instances[i] EXCEPT !.live = l]
      BY <1>1, <2>1 DEF WidgetRecord
    <3> HIDE DEF l
    <3>. QED
      BY <1>1, <3>2, <3>3 DEF WidgetRecord
  <2>3. instances' \in Seq(WidgetRecord) /\ InstancesMade' = InstancesMade
    <3>1. Len(instances) \in Nat /\ InstancesMade = 1..Len(instances)
      BY <1>1 DEF WidgetShape, InstancesMade
    <3>2. instances' \in [1..Len(instances) -> WidgetRecord]
      BY <2>1, <2>2, <3>1
    <3>. QED
      BY <3>1, <3>2 DEF InstancesMade
  <2>4. WidgetShape'
    BY <1>1, <2>1, <2>3 DEF WidgetShape
  <2>5. StoredRight'
    BY <2>1, <2>2, <2>3 DEF StoredRight
  <2>6. "hover" \notin classes'
    BY <1>1, <2>1 DEF ClassesRight, Hears
  <2>. QED
    BY <1>1, <2>1, <2>4, <2>5, <2>6 DEF WidgetInv, ClassesRight, NothingWithout, BarFits
<1>8. CASE PointerEnters
  <2>1. /\ UNCHANGED <<instances, stored, listening, elementThere, bar, deadStored>> /\ pointerOver' = TRUE
        /\ classes' = IF Hears = {} THEN classes ELSE classes \union {"hover"}
    BY <1>8 DEF PointerEnters
  <2>2. \A i \in Hears : "disabled" \notin classes /\ i \in listening /\ ~instances[i].disabled
    BY DEF Hears
  <2>3. Hears # {} => Hears' # {}
    BY <2>1, <2>2 DEF Hears
  <2>. QED
    BY <1>1, <2>1, <2>2, <2>3 DEF WidgetInv, WidgetShape, StoredRight, InstancesMade, ClassesRight, NothingWithout, BarFits
<1>9. CASE PointerLeaves
  <2>1. /\ UNCHANGED <<instances, stored, listening, elementThere, bar, deadStored>> /\ pointerOver' = FALSE
        /\ classes' = IF Hears = {} THEN classes ELSE classes \ {"hover"}
    BY <1>9 DEF PointerLeaves
  <2>2. "hover" \notin classes'
    BY <1>1, <2>1 DEF ClassesRight
  <2>. QED
    BY <1>1, <2>1, <2>2 DEF WidgetInv, WidgetShape, StoredRight, InstancesMade, ClassesRight, NothingWithout, BarFits
<1>10. ASSUME NEW i \in InstancesMade, WidgetDelayEnds(i) PROVE WidgetInv'
  <2> DEFINE r == [instances[i] EXCEPT !.delayed = FALSE]
  <2>2. r \in WidgetRecord /\ r.widget = instances[i].widget /\ r.live = instances[i].live
        /\ r.disabled = instances[i].disabled
    BY <1>1 DEF WidgetRecord
  <2>3. instances' = [instances EXCEPT ![i] = r]
        /\ UNCHANGED <<stored, listening, elementThere, pointerOver, classes, bar, deadStored>>
    BY <1>10 DEF WidgetDelayEnds
  <2> HIDE DEF r
  <2>4. instances' \in Seq(WidgetRecord) /\ StoredRight'
         /\ \A j \in InstancesMade : instances'[j] = IF j = i THEN r ELSE instances[j]
    BY <2>2, <2>3, WidgetChanged
  <2>5. \A j \in Hears : j \in Hears'
    BY <1>1, <2>2, <2>3, <2>4 DEF Hears
  <2>. QED
    BY <1>1, <2>3, <2>4, <2>5 DEF WidgetInv, WidgetShape, ClassesRight, NothingWithout, BarFits
<1>11. ASSUME NEW v \in 0..BarLimit, SetValue(v) \/ SetMaximum(v) PROVE WidgetInv'
  <2>1. UNCHANGED <<instances, stored, listening, elementThere, pointerOver, classes, deadStored>>
    BY <1>11 DEF SetValue, SetMaximum
  <2>2. v \in Nat
    BY BarAssumption
  <2>3. [bar EXCEPT !.value = v] \in [value : Nat, oldValue : Nat, max : Nat]
        /\ [bar EXCEPT !.max = v] \in [value : Nat, oldValue : Nat, max : Nat]
    BY <1>1, <2>2 DEF BarFits
  <2>4. bar' = Refreshed([bar EXCEPT !.value = v]) \/ bar' = Refreshed([bar EXCEPT !.max = v])
    BY <1>11 DEF SetValue, SetMaximum
  <2>5. BarFits'
    BY <2>3, <2>4, BarRefreshed DEF BarFits
  <2>. QED
    BY <1>1, <2>1, <2>5 DEF WidgetInv, WidgetShape, StoredRight, InstancesMade, ClassesRight, Hears, NothingWithout
<1>. QED
  BY <1>2, <1>3, <1>4, <1>5, <1>6, <1>7, <1>8, <1>9, <1>10, <1>11 DEF WidgetNext

\* The widgets that hear the events of an element are those that live, and of
\* each kind the one that is stored; its classes and its bar follow (the widget
\* factory, ui.progressbar).
THEOREM WidgetsKept == WidgetSpec => []WidgetsHold
<1>1. WidgetInv => WidgetsHold
  <2>1. SUFFICES ASSUME WidgetInv PROVE WidgetsHold
    OBVIOUS
  <2>2. \A i \in listening : i \in InstancesMade /\ i # 0 /\ instances[i].widget \in WidgetNames
    BY <2>1, WidgetTyped DEF WidgetRecord
  <2>3. ~deadStored => {stored[w] : w \in WidgetNames} \ {0} = listening
    BY <2>1, <2>2 DEF WidgetInv, StoredRight
  <2>. QED
    BY <2>1, <2>2, <2>3 DEF WidgetInv, StoredRight, ClassesRight, NothingWithout, BarFits, WidgetsHold
<1>. QED
  BY <1>1, WidgetInitially, WidgetStep, PTL DEF WidgetSpec

(* Sliders *)

Aligned(x) == \E k \in Nat : x = Step * k

\* What a stored value is read as.
ClippedAt(m, x) == IF x >= m THEN m ELSE x

SliderShape ==
    /\ sliderMax \in Nat /\ values \in [Handle -> Nat] /\ toldValues \in [Handle -> Nat]
    /\ handleIndex \in {-1, 0, 1} /\ handleFocus \in {-1, 0, 1}
    /\ keySliding \in BOOLEAN /\ mouseSliding \in BOOLEAN /\ mixedSlide \in BOOLEAN /\ setByPage \in BOOLEAN
    /\ mouseSliding <=> handleIndex # -1

\* Unless the maximum grew, what is stored stands at a step or beyond the end.
StepsKept == ~setByPage \/ ~mixedSlide => \A i \in Handle : values[i] >= sliderMax \/ Aligned(values[i])

NeverCross == ~setByPage => ClippedAt(sliderMax, values[0]) <= ClippedAt(sliderMax, values[1])

\* Only the handle that slides has a value that was not told.
ToldButSliding ==
    ~mixedSlide =>
        /\ ~(keySliding /\ mouseSliding) /\ (keySliding => handleFocus # -1)
        /\ \A i \in Handle : \/ toldValues[i] = ClippedAt(sliderMax, values[i])
                             \/ mouseSliding /\ i = handleIndex
                             \/ keySliding /\ i = handleFocus

SliderInv == SliderShape /\ StepsKept /\ NeverCross /\ ToldButSliding

LEMMA StepsApart ==
  ASSUME NEW a \in Nat, NEW b \in Nat, a < b
  PROVE  Step * a + Step <= Step * b
BY SliderAssumption

LEMMA StepsTimes ==
  ASSUME NEW a \in Nat
  PROVE  Step * a \in Nat /\ Step * a + Step = Step * (a + 1) /\ (Step * a) % Step = 0
BY SliderAssumption

\* What is left of a value beyond the last step before it.
LEMMA StepBefore ==
  ASSUME NEW v \in Nat
  PROVE  \E k \in Nat : v = Step * k + (v % Step) /\ v % Step \in 0..(Step - 1)
<1>1. v % Step \in 0..(Step - 1)
  BY SliderAssumption
<1>2. v \div Step \in Nat
  BY SliderAssumption
<1>3. v = Step * (v \div Step) + (v % Step)
  BY SliderAssumption
<1>. QED
  BY <1>1, <1>2, <1>3

\* What is aligned is stored at a step, or beyond the end.
LEMMA AlignRange ==
  ASSUME sliderMax \in Nat, NEW v \in Int
  PROVE  TrimAlign(v) \in Nat /\ (TrimAlign(v) >= sliderMax \/ Aligned(TrimAlign(v)))
<1>1. CASE v <= 0
  <2>1. TrimAlign(v) = 0 /\ 0 = Step * 0
    BY <1>1, SliderAssumption DEF TrimAlign
  <2>. QED
    BY <2>1 DEF Aligned
<1>2. CASE v > 0 /\ v >= sliderMax
  BY <1>2 DEF TrimAlign
<1>3. CASE v > 0 /\ v < sliderMax
  <2> DEFINE off == v % Step
  <2>1. v \in Nat
    BY <1>3
  <2>2. PICK k \in Nat : v = Step * k + off /\ off \in 0..(Step - 1)
    BY <2>1, StepBefore
  <2>3. TrimAlign(v) = IF 2 * off >= Step THEN v - off + Step ELSE v - off
    BY <1>3 DEF TrimAlign
  <2> HIDE DEF off
  <2>4. Step * k \in Nat /\ Step * k + Step = Step * (k + 1) /\ k + 1 \in Nat
    BY StepsTimes
  <2> DEFINE p == Step * k
             n == Step * (k + 1)
  <2>5. p \in Nat /\ p + Step = n /\ v = p + off /\ off \in Nat /\ Step \in Nat
    BY <2>2, <2>4, SliderAssumption
  <2>6. TrimAlign(v) = p \/ TrimAlign(v) = n
    <3> HIDE DEF p, n
    <3>. QED
      BY <2>3, <2>5
  <2>7. p \in Nat /\ n \in Nat
    <3> HIDE DEF p, n
    <3>. QED
      BY <2>5
  <2>. QED
    BY <2>4, <2>6, <2>7 DEF Aligned
<1>. QED
  BY <1>1, <1>2, <1>3

\* And aligning it again only clips it.
LEMMA AlignFixed ==
  ASSUME sliderMax \in Nat, NEW x \in Nat, x >= sliderMax \/ Aligned(x)
  PROVE  TrimAlign(x) = ClippedAt(sliderMax, x)
<1>1. CASE x <= 0
  BY <1>1 DEF TrimAlign, ClippedAt
<1>2. CASE x > 0 /\ x >= sliderMax
  BY <1>2 DEF TrimAlign, ClippedAt
<1>3. CASE x > 0 /\ x < sliderMax
  <2>1. PICK k \in Nat : x = Step * k
    BY <1>3 DEF Aligned
  <2>2. x % Step = 0
    BY <2>1, StepsTimes
  <2>3. Step > 0 /\ Step \in Nat
    BY SliderAssumption
  <2>. QED
    BY <1>3, <2>2, <2>3 DEF TrimAlign, ClippedAt
<1>. QED
  BY <1>1, <1>2, <1>3

\* Aligning keeps the order of two values, as they are read.
LEMMA AlignOrder ==
  ASSUME sliderMax \in Nat, NEW u \in Int, NEW v \in Int, u <= v
  PROVE  ClippedAt(sliderMax, TrimAlign(u)) <= ClippedAt(sliderMax, TrimAlign(v))
<1>1. TrimAlign(u) \in Nat /\ TrimAlign(v) \in Nat
  BY AlignRange
<1>2. CASE u <= 0
  BY <1>1, <1>2 DEF TrimAlign, ClippedAt
<1>3. CASE v >= sliderMax /\ v > 0
  BY <1>1, <1>3 DEF TrimAlign, ClippedAt
<1>4. CASE u > 0 /\ v > 0 /\ v < sliderMax
  <2> DEFINE off == u % Step
             ofv == v % Step
  <2>1. u \in Nat /\ v \in Nat
    BY <1>4
  <2>2. PICK k \in Nat : u = Step * k + off /\ off \in 0..(Step - 1)
    BY <2>1, StepBefore
  <2>3. PICK l \in Nat : v = Step * l + ofv /\ ofv \in 0..(Step - 1)
    BY <2>1, StepBefore
  <2>4. TrimAlign(u) = IF 2 * off >= Step THEN u - off + Step ELSE u - off
    BY <1>4 DEF TrimAlign
  <2>5. TrimAlign(v) = IF 2 * ofv >= Step THEN v - ofv + Step ELSE v - ofv
    BY <1>4 DEF TrimAlign
  <2> HIDE DEF off, ofv
  <2> DEFINE p == Step * k
             q == Step * l
  <2>6. p \in Nat /\ q \in Nat /\ Step \in Nat /\ u = p + off /\ v = q + ofv
        /\ off \in 0..(Step - 1) /\ ofv \in 0..(Step - 1)
    BY <2>2, <2>3, StepsTimes, SliderAssumption
  <2>7. k < l => p + Step <= q
    BY StepsApart
  <2>8. l < k => q + Step <= p
    BY StepsApart
  <2>9. k = l => p = q
    OBVIOUS
  <2>10. k < l \/ l < k \/ k = l
    OBVIOUS
  <2> HIDE DEF p, q
  <2>11. TrimAlign(u) <= TrimAlign(v)
    BY <2>4, <2>5, <2>6, <2>7, <2>8, <2>9, <2>10
  <2>. QED
    BY <1>1, <2>11 DEF ClippedAt
<1>. QED
  BY <1>2, <1>3, <1>4

\* A slide moves one handle, to a step, and not past the other one.
LEMMA SlideStops ==
  ASSUME SliderShape, StepsKept, NeverCross, NEW i \in Handle, NEW v \in Int, NEW allowed \in BOOLEAN
  PROVE  /\ SlidTo(i, v, allowed) \in [Handle -> Nat]
         /\ \A j \in Handle \ {i} : SlidTo(i, v, allowed)[j] = values[j]
         /\ ~setByPage \/ ~mixedSlide => \A j \in Handle : SlidTo(i, v, allowed)[j] >= sliderMax \/ Aligned(SlidTo(i, v, allowed)[j])
         /\ ~setByPage => ClippedAt(sliderMax, SlidTo(i, v, allowed)[0]) <= ClippedAt(sliderMax, SlidTo(i, v, allowed)[1])
<1> DEFINE other == ValueOf(1 - i)
           new == IF (i = 0 /\ v > other) \/ (i = 1 /\ v < other) THEN other ELSE v
           slid == SlidTo(i, v, allowed)
<1>1. sliderMax \in Nat /\ values \in [Handle -> Nat] /\ 1 - i \in Handle /\ i \in {0, 1}
  BY DEF SliderShape, Handle
<1>2. other \in Nat
  BY <1>1, AlignRange DEF ValueOf
<1>3. slid = (IF new # ValueOf(i) /\ allowed THEN [values EXCEPT ![i] = TrimAlign(new)] ELSE values)
  BY DEF SlidTo
<1>4. new \in Int /\ (i = 0 => new <= other) /\ (i = 1 => other <= new)
  BY <1>1, <1>2
<1> HIDE DEF new, other, slid
<1>5. CASE slid = values
  BY <1>1, <1>5 DEF StepsKept, NeverCross, slid
<1>6. CASE slid = [values EXCEPT ![i] = TrimAlign(new)]
  <2>1. TrimAlign(new) \in Nat /\ (TrimAlign(new) >= sliderMax \/ Aligned(TrimAlign(new)))
    BY <1>1, <1>4, AlignRange
  <2>2. slid \in [Handle -> Nat] /\ slid[i] = TrimAlign(new) /\ \A j \in Handle \ {i} : slid[j] = values[j]
    BY <1>1, <1>6, <2>1
  <2>3. ~setByPage \/ ~mixedSlide => \A j \in Handle : slid[j] >= sliderMax \/ Aligned(slid[j])
    BY <2>1, <2>2 DEF StepsKept
  <2>4. ASSUME ~setByPage PROVE ClippedAt(sliderMax, slid[0]) <= ClippedAt(sliderMax, slid[1])
    <3>1. values[1 - i] \in Nat /\ (values[1 - i] >= sliderMax \/ Aligned(values[1 - i]))
      BY <1>1, <2>4 DEF StepsKept
    <3>2. other = ClippedAt(sliderMax, values[1 - i])
      BY <1>1, <3>1, AlignFixed DEF other, ValueOf
    <3>3. other >= sliderMax \/ Aligned(other)
      BY <1>1, <3>1, <3>2 DEF ClippedAt
    <3>4. ClippedAt(sliderMax, TrimAlign(other)) = other
      <4>1. TrimAlign(other) = ClippedAt(sliderMax, other)
        BY <1>1, <1>2, <3>3, AlignFixed
      <4>. QED
        BY <1>1, <3>1, <3>2, <4>1 DEF ClippedAt
    <3>5. CASE i = 0
      <4>1. ClippedAt(sliderMax, TrimAlign(new)) <= ClippedAt(sliderMax, TrimAlign(other))
        BY <1>1, <1>2, <1>4, <3>5, AlignOrder
      <4>2. slid[0] = TrimAlign(new) /\ slid[1] = values[1] /\ values[1 - i] = values[1]
        BY <2>2, <3>5 DEF Handle
      <4>. QED
        BY <3>2, <3>4, <4>1, <4>2
    <3>6. CASE i = 1
      <4>1. ClippedAt(sliderMax, TrimAlign(other)) <= ClippedAt(sliderMax, TrimAlign(new))
        BY <1>1, <1>2, <1>4, <3>6, AlignOrder
      <4>2. slid[1] = TrimAlign(new) /\ slid[0] = values[0] /\ values[1 - i] = values[0]
        BY <2>2, <3>6 DEF Handle
      <4>. QED
        BY <3>2, <3>4, <4>1, <4>2
    <3>. QED
      BY <1>1, <3>5, <3>6
  <2>. QED
    BY <2>2, <2>3, <2>4 DEF slid
<1>. QED
  BY <1>3, <1>5, <1>6

LEMMA SliderInitially == SliderInit => SliderInv
<1>1. SUFFICES ASSUME SliderInit PROVE SliderInv
  OBVIOUS
<1>2. 0 = Step * 0
  BY SliderAssumption
<1>3. Aligned(0)
  BY <1>2 DEF Aligned
<1>4. SliderShape
  <2>1. values \in [Handle -> Nat] /\ sliderMax \in Nat
    BY <1>1, SliderAssumption DEF SliderInit
  <2>. QED
    BY <1>1, <2>1 DEF SliderInit, SliderShape
<1>5. values[0] = 0 /\ values[1] = 0 /\ toldValues = values /\ ~keySliding /\ ~mouseSliding
  BY <1>1 DEF SliderInit, Handle
<1>6. sliderMax \in Nat
  BY <1>4 DEF SliderShape
<1>. QED
  BY <1>3, <1>4, <1>5, <1>6 DEF SliderInv, StepsKept, NeverCross, ToldButSliding, ClippedAt, Handle

LEMMA SliderStep ==
  ASSUME SliderInv, [SliderNext]_sliderVars
  PROVE  SliderInv'
<1>1. /\ SliderShape /\ StepsKept /\ NeverCross /\ ToldButSliding
      /\ sliderMax \in Nat /\ values \in [Handle -> Nat] /\ toldValues \in [Handle -> Nat]
      /\ handleIndex \in {-1, 0, 1} /\ handleFocus \in {-1, 0, 1} /\ Handle = {0, 1}
      /\ keySliding \in BOOLEAN /\ mouseSliding \in BOOLEAN /\ mixedSlide \in BOOLEAN /\ setByPage \in BOOLEAN
      /\ (mouseSliding <=> handleIndex # -1)
  BY DEF SliderInv, SliderShape, Handle
<1>2. CASE UNCHANGED sliderVars
  BY <1>1, <1>2 DEF sliderVars, SliderInv, SliderShape, StepsKept, NeverCross, ToldButSliding
<1>3. ASSUME NEW p \in Places, NEW b \in BOOLEAN, NEW allowed \in BOOLEAN, PressMouse(p, b, allowed)
      PROVE  SliderInv'
  <2> DEFINE v == TrimAlign(p)
             i == Nearest(v)
             to == SlidTo(i, v, allowed)
  <2>1. v \in Int /\ i \in Handle
    <3>1. p \in Int
      BY SliderAssumption
    <3>2. v \in Nat
      BY <1>1, <3>1, AlignRange
    <3>. QED
      BY <3>2 DEF Nearest, Handle
  <2>2. /\ ~mouseSliding /\ mouseSliding' = TRUE /\ handleIndex' = i /\ handleFocus' = i
        /\ values' = (IF b THEN values ELSE to)
        /\ mixedSlide' = (mixedSlide \/ keySliding)
        /\ UNCHANGED <<sliderMax, keySliding, lastChanged, toldValues, setByPage>>
    BY <1>3 DEF PressMouse
  <2> HIDE DEF v, i
  <2>3. /\ to \in [Handle -> Nat] /\ \A j \in Handle \ {i} : to[j] = values[j]
        /\ ~setByPage \/ ~mixedSlide => \A j \in Handle : to[j] >= sliderMax \/ Aligned(to[j])
        /\ ~setByPage => ClippedAt(sliderMax, to[0]) <= ClippedAt(sliderMax, to[1])
    BY <1>1, <2>1, SlideStops
  <2> HIDE DEF to
  <2>4. SliderShape'
    BY <1>1, <2>1, <2>2, <2>3 DEF SliderShape
  <2>5. mixedSlide' \in BOOLEAN /\ (~mixedSlide' => ~mixedSlide /\ ~keySliding)
    BY <1>1, <2>2
  <2>6. StepsKept'
    BY <1>1, <2>2, <2>3, <2>5 DEF StepsKept
  <2>7. NeverCross'
    BY <1>1, <2>2, <2>3 DEF NeverCross
  <2>8. ToldButSliding'
    BY <1>1, <2>1, <2>2, <2>3, <2>5 DEF ToldButSliding
  <2>. QED
    BY <2>4, <2>6, <2>7, <2>8 DEF SliderInv
<1>4. ASSUME NEW p \in Places, NEW allowed \in BOOLEAN, MoveMouse(p, allowed) PROVE SliderInv'
  <2> DEFINE v == TrimAlign(p)
             i == handleIndex
             to == SlidTo(i, v, allowed)
  <2>1. v \in Int
    <3>1. p \in Int
      BY SliderAssumption
    <3>. QED
      BY <1>1, <3>1, AlignRange
  <2>2. /\ mouseSliding /\ values' = to
        /\ UNCHANGED <<sliderMax, keySliding, mouseSliding, handleIndex, handleFocus, lastChanged,
                       toldValues, mixedSlide, setByPage>>
    BY <1>4 DEF MoveMouse
  <2>3. i \in Handle
    BY <1>1, <2>2
  <2> HIDE DEF v
  <2>4. /\ to \in [Handle -> Nat] /\ \A j \in Handle \ {i} : to[j] = values[j]
        /\ ~setByPage \/ ~mixedSlide => \A j \in Handle : to[j] >= sliderMax \/ Aligned(to[j])
        /\ ~setByPage => ClippedAt(sliderMax, to[0]) <= ClippedAt(sliderMax, to[1])
    BY <1>1, <2>1, <2>3, SlideStops
  <2> HIDE DEF to
  <2>. QED
    BY <1>1, <2>2, <2>3, <2>4 DEF SliderInv, SliderShape, StepsKept, NeverCross, ToldButSliding
<1>5. CASE ReleaseMouse
  <2>1. /\ mouseSliding /\ mouseSliding' = FALSE /\ handleIndex' = -1
        /\ Change(handleIndex, values, keySliding, FALSE)
        /\ UNCHANGED <<sliderMax, values, keySliding, handleFocus, mixedSlide, setByPage>>
    BY <1>5 DEF ReleaseMouse
  <2>2. handleIndex \in Handle
    BY <1>1, <2>1
  <2>3. /\ toldValues' \in [Handle -> Nat]
        /\ keySliding => UNCHANGED toldValues
        /\ ~keySliding => toldValues'[handleIndex] = ClippedAt(sliderMax, values[handleIndex])
        /\ \A j \in Handle \ {handleIndex} : toldValues'[j] = toldValues[j]
    <3>1. CASE keySliding
      BY <1>1, <2>1, <3>1 DEF Change
    <3>2. CASE ~(keySliding)
      <4>1. toldValues' = [toldValues EXCEPT ![handleIndex] = Trimmed(values, handleIndex)]
        BY <1>1, <2>1, <3>2 DEF Change
      <4>2. Trimmed(values, handleIndex) = ClippedAt(sliderMax, values[handleIndex]) /\ Trimmed(values, handleIndex) \in Nat
        BY <1>1, <2>2 DEF Trimmed, ClippedAt
      <4>. QED
        BY <1>1, <3>2, <4>1, <4>2, <2>2
    <3>. QED
      BY <3>1, <3>2
  <2>4. ToldButSliding'
    BY <1>1, <2>1, <2>2, <2>3 DEF ToldButSliding
  <2>. QED
    BY <1>1, <2>1, <2>3, <2>4 DEF SliderInv, SliderShape, StepsKept, NeverCross
<1>6. ASSUME NEW key \in {"home", "end", "up", "down"}, NEW b \in BOOLEAN, NEW allowed \in BOOLEAN,
             SlideKeyDown(key, b, allowed)
      PROVE  SliderInv'
  <2> DEFINE v == KeyTarget(key)
             i == handleFocus
             to == SlidTo(i, v, allowed)
  <2>1. /\ i # -1 /\ keySliding' = TRUE
        /\ values' = IF ~keySliding /\ ~b THEN values ELSE to
        /\ mixedSlide' = (mixedSlide \/ mouseSliding)
        /\ UNCHANGED <<sliderMax, mouseSliding, handleIndex, handleFocus, lastChanged, toldValues, setByPage>>
    BY <1>6 DEF SlideKeyDown
  <2>2. i \in Handle
    BY <1>1, <2>1
  <2>3. v \in Int
    <3>1. values[i] \in Int /\ Step \in Int
      BY <1>1, <2>2, SliderAssumption
    <3>2. ValueOf(i) \in Nat
      BY <1>1, <3>1, AlignRange DEF ValueOf
    <3>3. ValueOf(i) + Step \in Int /\ ValueOf(i) - Step \in Int
      BY <3>1, <3>2
    <3>4. TrimAlign(ValueOf(i) + Step) \in Nat /\ TrimAlign(ValueOf(i) - Step) \in Nat
      BY <1>1, <3>3, AlignRange
    <3>. QED
      BY <1>1, <3>4 DEF KeyTarget
  <2> HIDE DEF v
  <2>4. /\ to \in [Handle -> Nat] /\ \A j \in Handle \ {i} : to[j] = values[j]
        /\ ~setByPage \/ ~mixedSlide => \A j \in Handle : to[j] >= sliderMax \/ Aligned(to[j])
        /\ ~setByPage => ClippedAt(sliderMax, to[0]) <= ClippedAt(sliderMax, to[1])
    BY <1>1, <2>2, <2>3, SlideStops
  <2> HIDE DEF to
  <2>5. mixedSlide' \in BOOLEAN /\ (~mixedSlide' => ~mixedSlide /\ ~mouseSliding)
    BY <1>1, <2>1
  <2>6. SliderShape'
    BY <1>1, <2>1, <2>4, <2>5 DEF SliderShape
  <2>7. StepsKept' /\ NeverCross'
    BY <1>1, <2>1, <2>4, <2>5 DEF StepsKept, NeverCross
  <2>8. ToldButSliding'
    BY <1>1, <2>1, <2>2, <2>4, <2>5 DEF ToldButSliding
  <2>. QED
    BY <2>6, <2>7, <2>8 DEF SliderInv
<1>7. CASE SlideKeyUp
  <2>1. /\ handleFocus # -1 /\ keySliding /\ keySliding' = FALSE
        /\ Change(handleFocus, values, FALSE, mouseSliding)
        /\ UNCHANGED <<sliderMax, values, mouseSliding, handleIndex, handleFocus, mixedSlide, setByPage>>
    BY <1>7 DEF SlideKeyUp
  <2>2. handleFocus \in Handle
    BY <1>1, <2>1
  <2>3. /\ toldValues' \in [Handle -> Nat]
        /\ mouseSliding => UNCHANGED toldValues
        /\ ~mouseSliding => toldValues'[handleFocus] = ClippedAt(sliderMax, values[handleFocus])
        /\ \A j \in Handle \ {handleFocus} : toldValues'[j] = toldValues[j]
    <3>1. CASE mouseSliding
      BY <1>1, <2>1, <3>1 DEF Change
    <3>2. CASE ~(mouseSliding)
      <4>1. toldValues' = [toldValues EXCEPT ![handleFocus] = Trimmed(values, handleFocus)]
        BY <1>1, <2>1, <3>2 DEF Change
      <4>2. Trimmed(values, handleFocus) = ClippedAt(sliderMax, values[handleFocus]) /\ Trimmed(values, handleFocus) \in Nat
        BY <1>1, <2>2 DEF Trimmed, ClippedAt
      <4>. QED
        BY <1>1, <3>2, <4>1, <4>2, <2>2
    <3>. QED
      BY <3>1, <3>2
  <2>4. ToldButSliding'
    BY <1>1, <2>1, <2>2, <2>3 DEF ToldButSliding
  <2>. QED
    BY <1>1, <2>1, <2>3, <2>4 DEF SliderInv, SliderShape, StepsKept, NeverCross
<1>8. ASSUME NEW i \in Handle \union {-1}, FocusMoves(i) PROVE SliderInv'
  <2>1. /\ handleFocus' = i /\ mixedSlide' = (mixedSlide \/ keySliding)
        /\ UNCHANGED <<sliderMax, values, keySliding, mouseSliding, handleIndex, lastChanged, toldValues, setByPage>>
    BY <1>8 DEF FocusMoves
  <2>2. mixedSlide' \in BOOLEAN /\ (~mixedSlide' => ~mixedSlide /\ ~keySliding)
    BY <1>1, <2>1
  <2>. QED
    BY <1>1, <2>1, <2>2 DEF SliderInv, SliderShape, StepsKept, NeverCross, ToldButSliding
<1>9. ASSUME NEW i \in Handle, NEW v \in Places, SetHandle(i, v) PROVE SliderInv'
  <2> DEFINE a == TrimAlign(v)
  <2>1. /\ values' = [values EXCEPT ![i] = a] /\ setByPage' = TRUE
        /\ Change(i, values', keySliding, mouseSliding)
        /\ mixedSlide' = (mixedSlide \/ keySliding \/ mouseSliding)
        /\ UNCHANGED <<sliderMax, keySliding, mouseSliding, handleIndex, handleFocus>>
    BY <1>9 DEF SetHandle
  <2>2. a \in Nat /\ (a >= sliderMax \/ Aligned(a))
    <3>1. v \in Int
      BY SliderAssumption
    <3>. QED
      BY <1>1, <3>1, AlignRange
  <2> HIDE DEF a
  <2>3. values' \in [Handle -> Nat] /\ values'[i] = a /\ \A j \in Handle \ {i} : values'[j] = values[j]
    BY <1>1, <2>1, <2>2
  <2>4. /\ toldValues' \in [Handle -> Nat]
        /\ ~keySliding /\ ~mouseSliding => toldValues'[i] = ClippedAt(sliderMax, values'[i])
        /\ \A j \in Handle \ {i} : toldValues'[j] = toldValues[j]
    <3>1. CASE keySliding \/ mouseSliding
      BY <1>1, <2>1, <3>1 DEF Change
    <3>2. CASE ~(keySliding \/ mouseSliding)
      <4>1. toldValues' = [toldValues EXCEPT ![i] = Trimmed(values', i)]
        BY <1>1, <2>1, <3>2 DEF Change
      <4>2. Trimmed(values', i) = ClippedAt(sliderMax, values'[i]) /\ Trimmed(values', i) \in Nat
        BY <1>1, <2>3 DEF Trimmed, ClippedAt
      <4>. QED
        BY <1>1, <3>2, <4>1, <4>2, <2>3
    <3>. QED
      BY <3>1, <3>2
  <2>5. mixedSlide' \in BOOLEAN /\ (~mixedSlide' => ~mixedSlide /\ ~keySliding /\ ~mouseSliding)
    BY <1>1, <2>1
  <2>6. SliderShape'
    BY <1>1, <2>1, <2>3, <2>4, <2>5 DEF SliderShape
  <2>7. StepsKept' /\ NeverCross'
    BY <1>1, <2>1, <2>2, <2>3, <2>5 DEF StepsKept, NeverCross
  <2>8. ToldButSliding'
    BY <1>1, <2>1, <2>3, <2>4, <2>5 DEF ToldButSliding
  <2>. QED
    BY <2>6, <2>7, <2>8 DEF SliderInv
<1>10. ASSUME NEW m \in {SliderMax, LowerMax}, SetMax(m) PROVE SliderInv'
  <2>1. /\ m # sliderMax /\ sliderMax' = m /\ mixedSlide' = TRUE
        /\ setByPage' = (setByPage \/ m > sliderMax)
        /\ UNCHANGED <<values, keySliding, mouseSliding, handleIndex, handleFocus, lastChanged, toldValues>>
    BY <1>10 DEF SetMax
  <2>2. m \in Nat
    BY SliderAssumption
  <2>3. setByPage' \in BOOLEAN /\ (~setByPage' => ~setByPage /\ m < sliderMax)
    <3>1. (m > sliderMax) \in BOOLEAN /\ (~(m > sliderMax) => m < sliderMax)
      BY <1>1, <2>1, <2>2
    <3>2. setByPage' = (setByPage \/ m > sliderMax)
      BY <2>1
    <3>. QED
      BY <1>1, <3>1, <3>2
  <2>4. SliderShape'
    BY <1>1, <2>1, <2>2, <2>3 DEF SliderShape
  <2>5. StepsKept'
    BY <1>1, <2>1, <2>2, <2>3 DEF StepsKept
  <2>6. NeverCross'
    BY <1>1, <2>1, <2>2, <2>3 DEF NeverCross, ClippedAt
  <2>. QED
    BY <2>1, <2>4, <2>5, <2>6 DEF SliderInv, ToldButSliding
<1>. QED
  BY <1>2, <1>3, <1>4, <1>5, <1>6, <1>7, <1>8, <1>9, <1>10 DEF SliderNext

\* The handles of a slider cross only when the page sets them, and once nothing
\* slides the page was told both values (ui.slider).
THEOREM SlidersTell == SliderSpec => []SliderHolds
<1>1. SliderInv => SliderHolds
  <2>1. SUFFICES ASSUME SliderInv PROVE SliderHolds
    OBVIOUS
  <2>2. ASSUME ~setByPage \/ ~mixedSlide PROVE \A i \in Handle : ValueOf(i) = ClippedAt(sliderMax, values[i])
    BY <2>1, <2>2, AlignFixed DEF SliderInv, SliderShape, StepsKept, ValueOf
  <2>. QED
    BY <2>1, <2>2 DEF SliderInv, NeverCross, ToldButSliding, SliderHolds, Handle
<1>. QED
  BY <1>1, SliderInitially, SliderStep, PTL DEF SliderSpec

(* Spinners *)

SpinDelay == [cancel : BOOLEAN, pending : BOOLEAN, value : Numbers \union {NoNumber}]

SpinShape ==
    /\ SpinTypeOK /\ spinPrevious \in Numbers \union {NoNumber}
    /\ spinFocused \in BOOLEAN /\ spinning \in BOOLEAN /\ wheelTimer \in BOOLEAN /\ spinDisabled \in BOOLEAN
    /\ buttonDown \in {-1, 0, 1}
    /\ blurDelay \in SpinDelay /\ spinStray \in [stopLost : BOOLEAN, outside : BOOLEAN]

TimersSpin == ~spinning => repeats = 0 /\ ~wheelTimer

\* Until a stop is lost a spinner that is disabled is at rest, what repeats is
\* held, by a button if the field was left, and the delay of a blur ends in the field.
StopsHeard ==
    ~spinStray.stopLost =>
        /\ spinDisabled => ~spinning /\ ~spinFocused
        /\ repeats # 0 => held # {} /\ (spinFocused \/ "button" \in held)
        /\ blurDelay.pending => spinFocused /\ blurDelay.cancel

\* And until the number changes outside a visit the page knows what the field
\* held when the visit began, or holds when nobody visits.
VisitsTold ==
    ~spinStray.stopLost /\ ~spinStray.outside =>
        IF spinFocused THEN toldNumber = spinPrevious ELSE ~spinning /\ toldNumber = spinField

SpinInv == SpinShape /\ TimersSpin /\ StopsHeard /\ VisitsTold

SpinStrays == [stopLost : BOOLEAN, outside : BOOLEAN]

LEMMA StraysOutside ==
  ASSUME NEW s \in SpinStrays, NEW b \in BOOLEAN
  PROVE  /\ [s EXCEPT !.outside = @ \/ b] \in SpinStrays
         /\ [s EXCEPT !.outside = @ \/ b].stopLost <=> s.stopLost
         /\ [s EXCEPT !.outside = @ \/ b].outside <=> s.outside \/ b
<1> DEFINE o == s.outside \/ b
           t == [s EXCEPT !.outside = o]
<1>1. o \in BOOLEAN
  OBVIOUS
<1>2. [s EXCEPT !.outside = @ \/ b] = t
  BY DEF SpinStrays
<1> HIDE DEF o
<1>3. t \in SpinStrays /\ (t.stopLost <=> s.stopLost) /\ (t.outside <=> o)
  BY <1>1 DEF SpinStrays
<1>. QED
  BY <1>2, <1>3 DEF o

LEMMA StraysLost ==
  ASSUME NEW s \in SpinStrays, NEW b \in BOOLEAN
  PROVE  /\ [s EXCEPT !.stopLost = @ \/ b] \in SpinStrays
         /\ [s EXCEPT !.stopLost = @ \/ b].stopLost <=> s.stopLost \/ b
         /\ [s EXCEPT !.stopLost = @ \/ b].outside <=> s.outside
<1> DEFINE o == s.stopLost \/ b
           t == [s EXCEPT !.stopLost = o]
<1>1. o \in BOOLEAN
  OBVIOUS
<1>2. [s EXCEPT !.stopLost = @ \/ b] = t
  BY DEF SpinStrays
<1> HIDE DEF o
<1>3. t \in SpinStrays /\ (t.outside <=> s.outside) /\ (t.stopLost <=> o)
  BY <1>1 DEF SpinStrays
<1>. QED
  BY <1>2, <1>3 DEF o

LEMMA ClampedFits ==
  ASSUME NEW v \in Int
  PROVE  Clamped(v) \in Numbers
BY SpinAssumption DEF Clamped, Numbers

\* A step of the spinner leaves a number in the field.
LEMMA SpinsFit ==
  ASSUME SpinShape, NEW steps \in {-1, 0, 1}, NEW allowed \in BOOLEAN, Spins(steps, allowed)
  PROVE  spinField' \in Numbers \union {NoNumber}
<1> DEFINE from == IF spinField = NoNumber THEN 0 ELSE spinField
<1>1. spinField \in Numbers \union {NoNumber} /\ from \in Int
  BY SpinAssumption DEF SpinShape, SpinTypeOK, Numbers
<1>2. spinField' = IF allowed THEN Clamped(from + steps) ELSE spinField
  BY DEF Spins
<1> HIDE DEF from
<1>3. Clamped(from + steps) \in Numbers
  BY <1>1, ClampedFits
<1>. QED
  BY <1>1, <1>2, <1>3

LEMMA SpinInitially == SpinInit => SpinInv
<1>1. SUFFICES ASSUME SpinInit PROVE SpinInv
  OBVIOUS
<1>2. 0 \in Numbers
  BY SpinAssumption DEF Numbers
<1>3. blurDelay \in SpinDelay /\ ~blurDelay.pending
  BY <1>1 DEF SpinInit, NoDelay, SpinDelay
<1>4. spinStray \in [stopLost : BOOLEAN, outside : BOOLEAN]
  BY <1>1 DEF SpinInit
<1>5. SpinShape
  BY <1>1, <1>2, <1>3, <1>4 DEF SpinInit, SpinShape, SpinTypeOK
<1>. QED
  BY <1>1, <1>3, <1>5 DEF SpinInit, SpinInv, TimersSpin, StopsHeard, VisitsTold

LEMMA SpinStep ==
  ASSUME SpinInv, [SpinNext]_spinVars
  PROVE  SpinInv'
<1>1. /\ SpinShape /\ TimersSpin /\ StopsHeard /\ VisitsTold
      /\ spinField \in Numbers \union {NoNumber} /\ toldNumber \in Numbers \union {NoNumber}
      /\ spinPrevious \in Numbers \union {NoNumber}
      /\ repeats \in {-1, 0, 1} /\ held \subseteq {"key", "button"} /\ buttonDown \in {-1, 0, 1}
      /\ spinFocused \in BOOLEAN /\ spinning \in BOOLEAN /\ wheelTimer \in BOOLEAN /\ spinDisabled \in BOOLEAN
      /\ blurDelay \in SpinDelay /\ spinStray \in SpinStrays
  BY DEF SpinInv, SpinShape, SpinTypeOK, SpinStrays
<1>2. ButtonSteps \subseteq {-1, 1} /\ KeySteps \subseteq {-1, 1} /\ 0 \in Numbers
  BY SpinAssumption DEF Numbers
<1> USE DEF SpinInv, SpinShape, SpinTypeOK, TimersSpin, StopsHeard, VisitsTold
<1>3. CASE UNCHANGED spinVars
  BY <1>1, <1>3 DEF spinVars
<1>4. ASSUME NEW steps \in KeySteps \union {0}, NEW ok \in BOOLEAN, NEW allowed \in BOOLEAN,
             SpinKeyDown(steps, ok, allowed)
      PROVE  SpinInv'
  <2>1. /\ spinFocused /\ ~spinDisabled /\ held' = held \union {"key"} /\ held' # {} /\ held' \subseteq {"key", "button"}
        /\ UNCHANGED <<spinFocused, spinPrevious, wheelTimer, blurDelay, buttonDown, spinDisabled, toldNumber, spinStray>>
    BY <1>1, <1>4 DEF SpinKeyDown
  <2>2. steps \in {-1, 0, 1}
    BY <1>2
  <2>3. spinField' \in Numbers \union {NoNumber}
    BY <1>1, <1>4, <2>2, SpinsFit DEF SpinKeyDown
  <2>4. spinning' \in BOOLEAN /\ repeats' \in {-1, 0, 1} /\ (spinning' \/ UNCHANGED <<spinning, repeats>>)
    BY <1>1, <1>4, <2>2 DEF SpinKeyDown
  <2>. QED
    BY <1>1, <2>1, <2>3, <2>4
<1>5. CASE SpinKeyUp
  <2>1. /\ "key" \in held /\ held' = held \ {"key"} /\ FieldUnchanged
        /\ UNCHANGED <<buttonDown, blurDelay, spinDisabled, spinStray>>
    BY <1>5 DEF SpinKeyUp
  <2>2. CASE spinDisabled \/ ~spinFocused
    <3>1. UNCHANGED <<spinning, repeats, wheelTimer>>
      BY <1>5, <2>2 DEF SpinKeyUp
    <3>. QED
      BY <1>1, <2>1, <2>2, <3>1 DEF FieldUnchanged
  <2>3. CASE ~(spinDisabled \/ ~spinFocused)
    <3>1. spinning' \in BOOLEAN /\ ~spinning' /\ repeats' = 0 /\ wheelTimer' \in BOOLEAN /\ ~wheelTimer'
      BY <1>1, <1>5, <2>3 DEF SpinKeyUp, Stops, SpinStopped
    <3>. QED
      BY <1>1, <2>1, <2>3, <3>1 DEF FieldUnchanged
  <2>. QED
    BY <2>2, <2>3
<1>6. ASSUME NEW v \in Numbers \union {NoNumber}, TypeNumber(v) PROVE SpinInv'
  BY <1>1, <1>6 DEF TypeNumber, UserUnchanged
<1>7. CASE FocusNumber
  BY <1>1, <1>7 DEF FocusNumber, UserUnchanged
<1>8. CASE BlurNumber
  <2>1. spinFocused /\ spinFocused' = FALSE /\ UNCHANGED <<spinField, spinPrevious, held, buttonDown, spinDisabled>>
    BY <1>8 DEF BlurNumber
  <2>2. CASE blurDelay.cancel /\ ~spinDisabled
    <3>1. /\ blurDelay' = [blurDelay EXCEPT !.cancel = FALSE]
          /\ UNCHANGED <<spinning, repeats, wheelTimer, toldNumber>>
          /\ spinStray' = [spinStray EXCEPT !.stopLost = TRUE]
      BY <1>8, <2>2 DEF BlurNumber
    <3>2. blurDelay' \in SpinDelay /\ spinStray' \in SpinStrays /\ spinStray'.stopLost
      BY <1>1, <3>1 DEF SpinDelay, SpinStrays
    <3>. QED
      BY <1>1, <2>1, <3>1, <3>2 DEF SpinStrays
  <2>3. CASE spinDisabled
    <3>1. UNCHANGED <<spinning, repeats, wheelTimer, toldNumber, blurDelay, spinStray>>
      BY <1>8, <2>3 DEF BlurNumber
    <3>2. spinStray.stopLost
      BY <1>1, <2>1, <2>3
    <3>. QED
      BY <1>1, <2>1, <2>3, <3>1, <3>2
  <2>4. CASE ~blurDelay.cancel /\ ~spinDisabled
    <3>1. /\ Stops /\ toldNumber' = (IF spinPrevious # spinField THEN spinField ELSE toldNumber)
          /\ UNCHANGED <<blurDelay, spinStray>>
      BY <1>8, <2>4 DEF BlurNumber
    <3>2. spinning' \in BOOLEAN /\ ~spinning' /\ repeats' = 0 /\ wheelTimer' \in BOOLEAN /\ ~wheelTimer'
      BY <1>1, <3>1 DEF Stops, SpinStopped
    <3>. QED
      BY <1>1, <2>1, <2>4, <3>1, <3>2
  <2>. QED
    BY <2>2, <2>3, <2>4
<1>9. ASSUME NEW steps \in ButtonSteps, NEW ok \in BOOLEAN, NEW allowed \in BOOLEAN, PressButton(steps, ok, allowed)
      PROVE  SpinInv'
  <2> DEFINE previous == IF spinFocused THEN spinPrevious ELSE spinField
  <2>1. /\ ~spinDisabled /\ buttonDown' = steps /\ held' = held \union {"button"}
        /\ spinFocused' = TRUE /\ spinPrevious' = previous
        /\ blurDelay' = [cancel |-> TRUE, pending |-> TRUE, value |-> previous]
        /\ UNCHANGED <<wheelTimer, spinDisabled, toldNumber, spinStray>>
    BY <1>9 DEF PressButton
  <2>2. steps \in {-1, 0, 1} /\ previous \in Numbers \union {NoNumber}
    BY <1>1, <1>2
  <2>3. spinField' \in Numbers \union {NoNumber}
    BY <1>1, <1>9, <2>2, SpinsFit DEF PressButton
  <2>4. spinning' \in BOOLEAN /\ repeats' \in {-1, 0, 1} /\ (spinning' \/ UNCHANGED <<spinning, repeats>>)
    BY <1>1, <1>9, <2>2 DEF PressButton
  <2>5. blurDelay' \in SpinDelay /\ blurDelay'.cancel
    BY <2>1, <2>2 DEF SpinDelay
  <2>6. held' # {} /\ held' \subseteq {"key", "button"}
    BY <1>1, <2>1
  <2>. QED
    BY <1>1, <2>1, <2>2, <2>3, <2>4, <2>5, <2>6
<1>10. CASE BlurDelayEnds
  <2>1. /\ blurDelay.pending /\ blurDelay' = NoDelay
        /\ spinFocused' = (spinFocused \/ ~spinDisabled)
        /\ spinPrevious' = IF spinFocused THEN spinPrevious ELSE blurDelay.value
        /\ UNCHANGED <<spinField, spinning, repeats, wheelTimer, held, buttonDown, spinDisabled, toldNumber, spinStray>>
    BY <1>10 DEF BlurDelayEnds
  <2>2. blurDelay' \in SpinDelay /\ ~blurDelay'.pending /\ blurDelay.value \in Numbers \union {NoNumber}
    BY <1>1, <2>1 DEF NoDelay, SpinDelay
  <2>3. spinFocused' \in BOOLEAN
    BY <1>1, <2>1
  <2>4. ~spinStray.stopLost => spinFocused /\ spinFocused'
    BY <1>1, <2>1
  <2>. QED
    BY <1>1, <2>1, <2>2, <2>3, <2>4
<1>11. ASSUME NEW b \in BOOLEAN, LeaveButton(b) PROVE SpinInv'
  <2>1. /\ buttonDown # 0 /\ held' = held \ {"button"}
        /\ buttonDown' = (IF b THEN 0 ELSE buttonDown)
        /\ FieldUnchanged /\ UNCHANGED <<blurDelay, spinDisabled, spinStray>>
    BY <1>11 DEF LeaveButton
  <2>2. CASE spinDisabled \/ "button" \notin held
    <3>1. UNCHANGED <<spinning, repeats, wheelTimer>>
      BY <1>11, <2>2 DEF LeaveButton
    <3>2. ~spinStray.stopLost /\ repeats # 0 => held' = held
      BY <1>1, <2>1, <2>2
    <3>. QED
      BY <1>1, <2>1, <3>1, <3>2 DEF FieldUnchanged
  <2>3. CASE ~(spinDisabled \/ "button" \notin held)
    <3>1. spinning' \in BOOLEAN /\ ~spinning' /\ repeats' = 0 /\ wheelTimer' \in BOOLEAN /\ ~wheelTimer'
      BY <1>1, <1>11, <2>3 DEF LeaveButton, Stops, SpinStopped
    <3>. QED
      BY <1>1, <2>1, <2>3, <3>1 DEF FieldUnchanged
  <2>. QED
    BY <2>2, <2>3
<1>12. ASSUME NEW ok \in BOOLEAN, NEW allowed \in BOOLEAN, EnterButton(ok, allowed) PROVE SpinInv'
  <2>1. /\ buttonDown # 0 /\ ~spinDisabled /\ held' = held \union {"button"}
        /\ UNCHANGED <<spinFocused, spinPrevious, wheelTimer, blurDelay, buttonDown, spinDisabled, toldNumber>>
        /\ spinStray' = [spinStray EXCEPT !.outside = @ \/ ~spinFocused]
    BY <1>12 DEF EnterButton
  <2>2. spinField' \in Numbers \union {NoNumber}
    BY <1>1, <1>12, SpinsFit DEF EnterButton
  <2>3. spinning' \in BOOLEAN /\ repeats' \in {-1, 0, 1} /\ (spinning' \/ UNCHANGED <<spinning, repeats>>)
    BY <1>1, <1>12 DEF EnterButton
  <2>4. spinStray' \in SpinStrays /\ (spinStray'.stopLost <=> spinStray.stopLost)
        /\ (spinStray'.outside <=> spinStray.outside \/ ~spinFocused)
    <3>1. (~spinFocused) \in BOOLEAN
      OBVIOUS
    <3>. QED
      BY <1>1, <2>1, <3>1, StraysOutside
  <2>5. held' # {} /\ held' \subseteq {"key", "button"}
    BY <1>1, <2>1
  <2>. QED
    BY <1>1, <2>1, <2>2, <2>3, <2>4, <2>5 DEF SpinStrays
<1>13. ASSUME NEW b \in BOOLEAN, RepeatTimer(b) PROVE SpinInv'
  <2>1. spinField' \in Numbers \union {NoNumber}
    BY <1>1, <1>13, SpinsFit DEF RepeatTimer
  <2>2. repeats # 0 /\ UNCHANGED <<spinFocused, spinPrevious, spinning, repeats, wheelTimer, toldNumber>> /\ UserUnchanged
    BY <1>13 DEF RepeatTimer
  <2>. QED
    BY <1>1, <2>1, <2>2 DEF UserUnchanged
<1>14. ASSUME NEW steps \in ButtonSteps, NEW ok \in BOOLEAN, NEW allowed \in BOOLEAN, Wheel(steps, ok, allowed)
       PROVE  SpinInv'
  <2>1. /\ ~spinDisabled /\ spinning' = TRUE /\ wheelTimer' = TRUE
        /\ spinStray' = [spinStray EXCEPT !.outside = @ \/ ~spinFocused]
        /\ UNCHANGED <<spinFocused, spinPrevious, repeats, held, buttonDown, blurDelay, spinDisabled, toldNumber>>
    BY <1>14 DEF Wheel
  <2>2. steps \in {-1, 0, 1}
    BY <1>2
  <2>3. spinField' \in Numbers \union {NoNumber}
    BY <1>1, <1>14, <2>2, SpinsFit DEF Wheel
  <2>4. spinStray' \in SpinStrays /\ (spinStray'.stopLost <=> spinStray.stopLost)
        /\ (spinStray'.outside <=> spinStray.outside \/ ~spinFocused)
    <3>1. (~spinFocused) \in BOOLEAN
      OBVIOUS
    <3>. QED
      BY <1>1, <2>1, <3>1, StraysOutside
  <2>. QED
    BY <1>1, <2>1, <2>3, <2>4 DEF SpinStrays
<1>15. CASE WheelTimer
  <2>1. spinning' \in BOOLEAN /\ ~spinning' /\ repeats' = 0 /\ wheelTimer' \in BOOLEAN /\ ~wheelTimer'
    BY <1>1, <1>15 DEF WheelTimer, Stops, SpinStopped
  <2>. QED
    BY <1>1, <1>15, <2>1 DEF WheelTimer, FieldUnchanged, UserUnchanged
<1>16. ASSUME NEW steps \in ButtonSteps, NEW ok \in BOOLEAN, NEW allowed \in BOOLEAN, PageSteps(steps, ok, allowed)
       PROVE  SpinInv'
  <2>1. PICK field \in Numbers \union {NoNumber} :
           /\ spinField' = field /\ toldNumber' = (IF field # spinField THEN field ELSE toldNumber)
           /\ spinStray' = [spinStray EXCEPT !.outside = @ \/ (spinFocused /\ field # spinField)]
    BY <1>16 DEF PageSteps
  <2>2. /\ spinning' = FALSE /\ repeats' = 0 /\ wheelTimer' = FALSE
        /\ UNCHANGED <<spinFocused, spinPrevious, held, buttonDown, blurDelay, spinDisabled>>
    BY <1>16 DEF PageSteps, SpinStopped
  <2>3. spinStray' \in SpinStrays /\ (spinStray'.stopLost <=> spinStray.stopLost)
        /\ (spinStray'.outside <=> spinStray.outside \/ (spinFocused /\ field # spinField))
    <3>1. (spinFocused /\ field # spinField) \in BOOLEAN
      OBVIOUS
    <3>. QED
      BY <1>1, <2>1, <3>1, StraysOutside
  <2>. QED
    BY <1>1, <2>1, <2>2, <2>3 DEF SpinStrays
<1>17. ASSUME NEW v \in Numbers \union {NoNumber}, PageSetsNumber(v) PROVE SpinInv'
  <2>1. /\ spinField' = v /\ toldNumber' = v
        /\ spinStray' = [spinStray EXCEPT !.outside = @ \/ spinFocused]
        /\ UNCHANGED <<spinFocused, spinPrevious, spinning, repeats, wheelTimer, held, buttonDown,
                       blurDelay, spinDisabled>>
    BY <1>17 DEF PageSetsNumber
  <2>2. spinStray' \in SpinStrays /\ (spinStray'.stopLost <=> spinStray.stopLost)
        /\ (spinStray'.outside <=> spinStray.outside \/ spinFocused)
    BY <1>1, <2>1, StraysOutside
  <2>. QED
    BY <1>1, <2>1, <2>2 DEF SpinStrays
<1>18. ASSUME NEW b \in BOOLEAN, DisableSpinner(b) PROVE SpinInv'
  <2>1. /\ spinDisabled' = b
        /\ spinStray' = [spinStray EXCEPT !.stopLost = @ \/ (b /\ (spinning \/ spinFocused))]
        /\ UNCHANGED <<spinField, spinFocused, spinPrevious, toldNumber, spinning, repeats, wheelTimer,
                       held, buttonDown, blurDelay>>
    BY <1>18 DEF DisableSpinner
  <2>2. spinStray' \in SpinStrays /\ (spinStray'.outside <=> spinStray.outside)
        /\ (spinStray'.stopLost <=> spinStray.stopLost \/ (b /\ (spinning \/ spinFocused)))
    <3>1. (b /\ (spinning \/ spinFocused)) \in BOOLEAN
      OBVIOUS
    <3>. QED
      BY <1>1, <2>1, <3>1, StraysLost
  <2>. QED
    BY <1>1, <2>1, <2>2 DEF SpinStrays
<1>. QED
  BY <1>3, <1>4, <1>5, <1>6, <1>7, <1>8, <1>9, <1>10, <1>11, <1>12, <1>13, <1>14, <1>15, <1>16, <1>17, <1>18
     DEF SpinNext

\* The number of a spinner goes on by itself only while something is held, and
\* the page knows it once the field is left (ui.spinner).
THEOREM SpinnersStop == SpinSpec => []SpinnerHolds
<1>1. SpinInv => SpinnerHolds
  BY DEF SpinInv, TimersSpin, StopsHeard, VisitsTold, SpinnerHolds
<1>. QED
  BY <1>1, SpinInitially, SpinStep, PTL DEF SpinSpec

(* Places in a set of numbers: how many come before. *)

Before(hs, h) == {g \in hs : g < h}

LEMMA PlaceFits ==
  ASSUME NEW hs, IsFiniteSet(hs), NEW h \in hs, hs \subseteq Int
  PROVE  /\ Cardinality(Before(hs, h)) \in 0..(Cardinality(hs) - 1)
         /\ Cardinality(Before(hs, h)) \in Nat /\ Cardinality(hs) \in Nat
<1> DEFINE bs == Before(hs, h)
<1>1. bs \subseteq hs \ {h}
  BY DEF Before
<1>2. IsFiniteSet(hs \ {h}) /\ Cardinality(hs \ {h}) = Cardinality(hs) - 1
  BY FS_RemoveElement
<1>3. IsFiniteSet(bs) /\ Cardinality(bs) <= Cardinality(hs \ {h})
  <2> HIDE DEF bs
  <2>1. QED
    BY <1>1, <1>2, FS_Subset
<1>4. Cardinality(bs) \in Nat /\ Cardinality(hs) \in Nat
  <2> HIDE DEF bs
  <2>1. QED
    BY <1>3, FS_CardinalityType
<1>5. QED
  BY <1>2, <1>3, <1>4

LEMMA PlacesRise ==
  ASSUME NEW hs, IsFiniteSet(hs), NEW g \in hs, NEW h \in hs, hs \subseteq Int, g < h
  PROVE  Cardinality(Before(hs, g)) < Cardinality(Before(hs, h))
<1> DEFINE bs == Before(hs, g)
           cs == Before(hs, h)
<1>1. bs \subseteq cs \ {g} /\ g \in cs /\ cs \subseteq hs
  <2>1. g \in Int /\ h \in Int
    OBVIOUS
  <2>2. ASSUME NEW x \in hs, x < g PROVE x < h /\ x # g
    <3>1. x \in Int
      OBVIOUS
    <3>2. QED
      BY <2>1, <2>2, <3>1
  <2>3. QED
    BY <2>2 DEF Before
<1> HIDE DEF bs, cs
<1>2. IsFiniteSet(cs)
  BY <1>1, FS_Subset
<1>3. IsFiniteSet(cs \ {g}) /\ Cardinality(cs \ {g}) = Cardinality(cs) - 1
  BY <1>1, <1>2, FS_RemoveElement
<1>4. IsFiniteSet(bs) /\ Cardinality(bs) <= Cardinality(cs \ {g})
  BY <1>1, <1>3, FS_Subset
<1>5. Cardinality(bs) \in Nat /\ Cardinality(cs) \in Nat
  BY <1>2, <1>4, FS_CardinalityType
<1>6. QED
  BY <1>3, <1>4, <1>5 DEF bs, cs

\* Two elements in the same place are one.
LEMMA PlaceTells ==
  ASSUME NEW hs, IsFiniteSet(hs), hs \subseteq Int, NEW g \in hs, NEW h \in hs,
         Cardinality(Before(hs, g)) = Cardinality(Before(hs, h))
  PROVE  g = h
<1>1. g \in Int /\ h \in Int
  OBVIOUS
<1>2. Cardinality(Before(hs, g)) \in Nat
  BY PlaceFits
<1>3. ~(g < h)
  <2>1. SUFFICES ASSUME g < h PROVE FALSE
    OBVIOUS
  <2>2. Cardinality(Before(hs, g)) < Cardinality(Before(hs, h))
    BY <2>1, PlacesRise
  <2>3. QED
    BY <1>2, <2>2
<1>4. ~(h < g)
  <2>1. SUFFICES ASSUME h < g PROVE FALSE
    OBVIOUS
  <2>2. Cardinality(Before(hs, h)) < Cardinality(Before(hs, g))
    BY <2>1, PlacesRise
  <2>3. QED
    BY <1>2, <2>2
<1>5. QED
  BY <1>1, <1>3, <1>4

\* And every place is taken.
LEMMA PlaceTaken ==
  ASSUME NEW hs, IsFiniteSet(hs), hs \subseteq Int, NEW i \in 0..(Cardinality(hs) - 1)
  PROVE  \E h \in hs : Cardinality(Before(hs, h)) = i
<1> DEFINE n == Cardinality(hs)
           T == 0..(n - 1)
           f == [h \in hs |-> Cardinality(Before(hs, h))]
<1>1. n \in Nat
  BY FS_CardinalityType
<1>2. IsFiniteSet(T) /\ Cardinality(T) = n
  <2>1. 0 \in Int /\ n - 1 \in Int
    BY <1>1
  <2>2. QED
    BY <1>1, <2>1, FS_Interval
<1>3. f \in Injection(hs, T)
  <2>1. f \in [hs -> T]
    BY PlaceFits
  <2>2. ASSUME NEW g \in hs, NEW h \in hs, f[g] = f[h] PROVE g = h
    BY <2>2, PlaceTells
  <2>3. QED
    BY <2>1, <2>2 DEF Injection, IsInjective
<1> HIDE DEF T, f
<1>4. f \in Surjection(hs, T)
  BY <1>2, <1>3, FS_Injection
<1>5. \A t \in T : \E h \in hs : f[h] = t
  BY <1>4 DEF Surjection
<1>6. QED
  BY <1>5 DEF T, f
(* The accordion *)

Accordions == [headers : SUBSET (1..MaxPanels), active : 0..MaxPanels, index : -1..(MaxPanels - 1),
               collapsible : BOOLEAN, animate : BOOLEAN, disabled : BOOLEAN, live : BOOLEAN,
               prevShow : 0..MaxPanels, prevHide : 0..MaxPanels]
PanelMoves == [on : BOOLEAN, show : 0..MaxPanels, hide : 0..MaxPanels, old : 0..MaxPanels]
Views == [a : Accordions, open : SUBSET (1..MaxPanels), class : SUBSET (1..MaxPanels),
          marked : SUBSET (1..MaxPanels), move : PanelMoves]

\* The active header, if it was not taken away.
Held(v) == {v.a.active} \cap v.a.headers

\* Its panel is displayed and marked; the animation ends what is left of others.
\* What was shown last is the active panel, or both are gone.
ViewFits(v) ==
    /\ v.marked = Held(v) /\ Held(v) \subseteq v.open /\ v.open \subseteq Held(v) \union {v.move.hide}
    /\ Held(v) \subseteq v.class /\ v.class \subseteq Held(v) \union {v.move.old}
    /\ v.move.on => v.move.hide \notin Held(v) /\ v.move.old \notin Held(v)
    /\ ~v.move.on => v.open = Held(v) /\ v.class = Held(v)
    /\ v.a.prevShow # Nobody => v.a.prevShow = v.a.active
                                \/ (v.a.prevShow \notin v.a.headers /\ Held(v) = {})

ActiveByIndex(v) == v.a.active = HeaderIn(v.a.headers, v.a.index)

IndexRight(v) ==
    /\ v.a.index = IF v.a.active = Nobody THEN -1 ELSE PlaceOf(v.a.headers, v.a.active)
    /\ v.a.active = Nobody => v.a.collapsible \/ v.a.headers = {}

AccordionInv ==
    /\ Now \in Views /\ severalGone \in BOOLEAN
    /\ accordion.live => ViewFits(Now) /\ ActiveByIndex(Now) /\ (~severalGone => IndexRight(Now))
\* An animation that ends leaves the active panel and its class.
LEMMA MoveEnds ==
  ASSUME NEW v \in Views, NEW K, K \subseteq v.open, v.open \subseteq K \union {v.move.hide},
         K \subseteq v.class, v.class \subseteq K \union {v.move.old},
         v.move.on => v.move.hide \notin K /\ v.move.old \notin K,
         ~v.move.on => v.open = K /\ v.class = K
  PROVE  /\ MoveOver(v) \in Views /\ MoveOver(v).a = v.a /\ MoveOver(v).marked = v.marked
         /\ MoveOver(v).open = K /\ MoveOver(v).class = K /\ ~MoveOver(v).move.on
<1>1. v.move \in PanelMoves /\ v.a \in Accordions /\ v.open \subseteq 1..MaxPanels
      /\ v.class \subseteq 1..MaxPanels /\ v.marked \subseteq 1..MaxPanels
  BY DEF Views
<1>2. Still \in PanelMoves /\ ~Still.on
  BY AccordionAssumption DEF Still, PanelMoves, Nobody
<1>3. CASE v.move.on
  <2> DEFINE w == [v EXCEPT !.open = @ \ {v.move.hide}, !.class = @ \ {v.move.old}, !.move = Still]
  <2>1. MoveOver(v) = w
    BY <1>3 DEF MoveOver
  <2>2. /\ w.a = v.a /\ w.marked = v.marked /\ w.move = Still
        /\ w.open = v.open \ {v.move.hide} /\ w.class = v.class \ {v.move.old}
    BY DEF Views
  <2>3. w.open = K /\ w.class = K
    BY <1>3, <2>2
  <2>4. w \in Views
    <3>1. v.open \ {v.move.hide} \in SUBSET (1..MaxPanels) /\ v.class \ {v.move.old} \in SUBSET (1..MaxPanels)
      BY <1>1
    <3>2. QED
      BY <1>2, <3>1 DEF Views
  <2> HIDE DEF w
  <2>5. QED
    BY <1>2, <2>1, <2>2, <2>3, <2>4
<1>4. CASE ~v.move.on
  BY <1>4 DEF MoveOver
<1>5. QED
  BY <1>3, <1>4

\* Before a new choice the panel of the old one is there, after it the new one.
OldShown(v, K, old, new) ==
    /\ K \subseteq v.open /\ v.open \subseteq K \union {v.move.hide}
    /\ K \subseteq v.class /\ v.class \subseteq K \union {v.move.old}
    /\ v.move.on => v.move.hide \notin K /\ v.move.old \notin K
    /\ ~v.move.on => v.open = K /\ v.class = K
    /\ v.a.prevShow # Nobody => v.a.prevShow = old \/ (v.a.prevShow # new /\ K = {})
NewShown(s, v, new) ==
    LET N == {new} \ {Nobody}
    IN  /\ s \in Views /\ s.marked = v.marked /\ s.a.prevShow = new
        /\ s.a.headers = v.a.headers /\ s.a.active = v.a.active /\ s.a.index = v.a.index
        /\ s.a.collapsible = v.a.collapsible /\ s.a.live = v.a.live
        /\ N \subseteq s.open /\ s.open \subseteq N \union {s.move.hide}
        /\ s.class \subseteq {s.move.old}
        /\ s.move.on => s.move.hide \notin N /\ s.move.old \notin N
        /\ ~s.move.on => s.open = N /\ s.class = {}

\* A new choice shows its panel and hides that of the old one.
LEMMA ToggleEnds ==
  ASSUME NEW v \in Views, NEW K, NEW old \in 0..MaxPanels, NEW new \in 0..MaxPanels,
         K \subseteq {old}, new # old, OldShown(v, K, old, new)
  PROVE  NewShown(ToggledPanels(v, old, new), v, new)
<1> DEFINE s == ToggledPanels(v, old, new)
           N == {new} \ {Nobody}
           hide == IF v.a.prevShow # Nobody THEN v.a.prevShow ELSE old
           w == MoveOver(v)
           u == [w EXCEPT !.a.prevShow = new, !.a.prevHide = hide]
<1>1. w \in Views /\ w.a = v.a /\ w.marked = v.marked /\ w.open = K /\ w.class = K /\ ~w.move.on
  BY MoveEnds DEF OldShown
<1>2. hide \in 0..MaxPanels /\ K \subseteq {hide} /\ hide \notin N /\ N \subseteq 1..MaxPanels
  BY DEF Views, Accordions, Nobody, OldShown
<1> HIDE DEF w, hide
<1>3. /\ u \in Views /\ u.marked = v.marked /\ u.open = K /\ u.class = K /\ u.move = w.move
      /\ u.a.prevShow = new /\ u.a.headers = v.a.headers /\ u.a.active = v.a.active
      /\ u.a.index = v.a.index /\ u.a.collapsible = v.a.collapsible /\ u.a.live = v.a.live
  <2> DEFINE a == [v.a EXCEPT !.prevShow = new, !.prevHide = hide]
  <2>1. v.a \in Accordions
    BY DEF Views
  <2>2. /\ a \in Accordions /\ a.prevShow = new /\ a.headers = v.a.headers /\ a.active = v.a.active
        /\ a.index = v.a.index /\ a.collapsible = v.a.collapsible /\ a.live = v.a.live
    BY <1>2, <2>1 DEF Accordions
  <2>3. u.a = a
    BY <1>1 DEF Views, Accordions
  <2>4. u.open = K /\ u.class = K /\ u.marked = v.marked /\ u.move = w.move
    BY <1>1 DEF Views
  <2>5. u \in Views
    <3>1. u = [w EXCEPT !.a = a]
      BY <1>1 DEF Views, Accordions
    <3> HIDE DEF u, a
    <3>2. QED
      BY <1>1, <2>2, <3>1 DEF Views
  <2> HIDE DEF u, a
  <2>6. QED
    BY <2>2, <2>3, <2>4, <2>5
<1>4. s = IF v.a.animate
          THEN [u EXCEPT !.open = @ \union N,
                         !.move = [on |-> TRUE, show |-> new, hide |-> hide, old |-> old]]
          ELSE [u EXCEPT !.open = (@ \ {hide}) \union N, !.class = @ \ {old}]
  BY DEF ToggledPanels, w, hide
<1> HIDE DEF u, s, N
<1>5. CASE v.a.animate
  <2> DEFINE move == [on |-> TRUE, show |-> new, hide |-> hide, old |-> old]
  <2>1. move \in PanelMoves
    BY <1>2 DEF PanelMoves
  <2>2. s = [u EXCEPT !.open = @ \union N, !.move = move]
    BY <1>4, <1>5
  <2>3. move.hide = hide /\ move.old = old /\ move.on
    OBVIOUS
  <2> HIDE DEF move
  <2>4. s \in Views /\ s.a = u.a /\ s.marked = u.marked /\ s.open = K \union N /\ s.class = K /\ s.move = move
    BY <1>2, <1>3, <2>1, <2>2 DEF Views
  <2>5. old \notin N
    BY DEF N
  <2>6. QED
    BY <1>2, <1>3, <2>3, <2>4, <2>5 DEF s, N, NewShown
<1>6. CASE ~v.a.animate
  <2>1. s = [u EXCEPT !.open = (@ \ {hide}) \union N, !.class = @ \ {old}]
    BY <1>4, <1>6
  <2>2. /\ s \in Views /\ s.a = u.a /\ s.marked = u.marked /\ s.open = (K \ {hide}) \union N
        /\ s.class = K \ {old} /\ s.move = u.move
    BY <1>2, <1>3, <2>1 DEF Views
  <2>3. s.open = N /\ s.class = {}
    BY <1>2, <2>2
  <2>4. QED
    BY <1>1, <1>2, <1>3, <2>2, <2>3 DEF s, N, NewShown
<1>7. QED
  BY <1>5, <1>6 DEF s
LEMMA PanelPlaces ==
  ASSUME NEW hs \in SUBSET (1..MaxPanels)
  PROVE  /\ IsFiniteSet(hs) /\ hs \subseteq Int /\ Cardinality(hs) \in 0..MaxPanels
         /\ \A h \in hs : PlaceOf(hs, h) \in 0..(Cardinality(hs) - 1) /\ PlaceOf(hs, h) \in 0..(MaxPanels - 1)
<1>1. MaxPanels \in Nat
  BY AccordionAssumption
<1>2. IsFiniteSet(1..MaxPanels) /\ Cardinality(1..MaxPanels) = MaxPanels
  BY <1>1, FS_Interval
<1>3. IsFiniteSet(hs) /\ Cardinality(hs) <= MaxPanels
  BY <1>2, FS_Subset
<1>4. Cardinality(hs) \in Nat
  BY <1>3, FS_CardinalityType
<1>5. hs \subseteq Int
  BY <1>1
<1>6. ASSUME NEW h \in hs PROVE PlaceOf(hs, h) \in 0..(Cardinality(hs) - 1)
  <2>1. Cardinality(Before(hs, h)) \in 0..(Cardinality(hs) - 1)
    BY <1>3, <1>5, PlaceFits
  <2>2. QED
    BY <2>1 DEF PlaceOf, Before
<1>7. QED
  BY <1>1, <1>3, <1>4, <1>5, <1>6

\* An index of a header is that of one, and the header of its place is itself.
LEMMA HeaderFound ==
  ASSUME NEW hs \in SUBSET (1..MaxPanels), NEW i \in Int
  PROVE  /\ i \in 0..(Cardinality(hs) - 1) => HeaderIn(hs, i) \in hs /\ PlaceOf(hs, HeaderIn(hs, i)) = i
         /\ i \notin 0..(Cardinality(hs) - 1) => HeaderIn(hs, i) = Nobody
         /\ \A h \in hs : HeaderIn(hs, PlaceOf(hs, h)) = h
         /\ Nobody \notin hs
<1>1. /\ IsFiniteSet(hs) /\ hs \subseteq Int
      /\ \A h \in hs : PlaceOf(hs, h) \in 0..(Cardinality(hs) - 1)
  BY PanelPlaces
<1>2. \A h : PlaceOf(hs, h) = Cardinality(Before(hs, h))
  BY DEF PlaceOf, Before
<1>3. ASSUME NEW j \in 0..(Cardinality(hs) - 1)
      PROVE  HeaderIn(hs, j) \in hs /\ PlaceOf(hs, HeaderIn(hs, j)) = j
  <2>1. \E h \in hs : PlaceOf(hs, h) = j
    BY <1>1, <1>2, PlaceTaken
  <2>2. QED
    BY <2>1 DEF HeaderIn
<1>4. ASSUME NEW h \in hs PROVE HeaderIn(hs, PlaceOf(hs, h)) = h
  <2> DEFINE g == HeaderIn(hs, PlaceOf(hs, h))
  <2>1. g \in hs /\ PlaceOf(hs, g) = PlaceOf(hs, h)
    BY <1>1, <1>3
  <2> HIDE DEF g
  <2>2. g = h
    BY <1>1, <1>2, <2>1, PlaceTells
  <2>3. QED
    BY <2>2 DEF g
<1>5. QED
  BY <1>3, <1>4 DEF HeaderIn, Nobody

\* A choice, of a header or of the one that was taken away.
LEMMA ChosenKeeps ==
  ASSUME NEW v \in Views, ViewFits(v), NEW h \in 1..MaxPanels, h \in v.a.headers \/ h = v.a.active
  PROVE  LET s == Chosen(v, h)
         IN  /\ s \in Views /\ ViewFits(s)
             /\ s.a.headers = v.a.headers /\ s.a.collapsible = v.a.collapsible /\ s.a.live = v.a.live
             /\ h = v.a.active => IF v.a.collapsible THEN s.a.active = Nobody /\ s.a.index = -1 ELSE s = v
             /\ h # v.a.active => s.a.active = h /\ s.a.index = PlaceOf(v.a.headers, h)
<1> DEFINE again == h = v.a.active
           new == IF again THEN Nobody ELSE h
           at == IF again THEN -1 ELSE PlaceOf(v.a.headers, h)
           a == [v.a EXCEPT !.active = new, !.index = at]
           u == [v EXCEPT !.a.active = new, !.a.index = at]
           s == ToggledPanels(u, v.a.active, new)
           N == {new} \ {Nobody}
           K == Held(v)
           r == [s EXCEPT !.marked = (@ \ {v.a.active}) \union N, !.class = @ \union N]
<1>1. CASE again /\ ~v.a.collapsible
  <2>1. Chosen(v, h) = v
    BY <1>1 DEF Chosen
  <2>2. QED
    BY <1>1, <2>1
<1>2. CASE ~(again /\ ~v.a.collapsible)
  <2>1. Chosen(v, h) = r
    BY <1>2 DEF Chosen
  <2>2. new \in 0..MaxPanels /\ at \in -1..(MaxPanels - 1) /\ v.a \in Accordions
    <3>1. CASE again
      BY <3>1, AccordionAssumption DEF Nobody, Views
    <3>2. CASE ~again
      <4>1. h \in v.a.headers /\ v.a.headers \in SUBSET (1..MaxPanels) /\ v.a \in Accordions
        BY <3>2 DEF Views, Accordions
      <4>2. PlaceOf(v.a.headers, h) \in 0..(MaxPanels - 1)
        BY <4>1, PanelPlaces
      <4>3. QED
        BY <3>2, <4>1, <4>2, AccordionAssumption
    <3>3. QED
      BY <3>1, <3>2
  <2>3. K \subseteq {v.a.active} /\ (again \/ (h \in v.a.headers /\ h # v.a.active)) /\ N \subseteq 1..MaxPanels
    BY DEF Held, Nobody
  <2>4. new # v.a.active /\ (~again => new = h /\ at = PlaceOf(v.a.headers, h))
        /\ (again => new = Nobody /\ at = -1 /\ v.a.collapsible)
    BY <1>2 DEF Nobody
  <2>5. new = Nobody \/ new \in v.a.headers
    BY <2>3
  <2> HIDE DEF new, at
  <2>6. /\ a \in Accordions /\ a.active = new /\ a.index = at /\ a.headers = v.a.headers
        /\ a.collapsible = v.a.collapsible /\ a.live = v.a.live /\ a.prevShow = v.a.prevShow
    BY <2>2 DEF Accordions
  <2>7. /\ u \in Views /\ u.a = a /\ u.open = v.open /\ u.class = v.class /\ u.marked = v.marked
        /\ u.move = v.move
    <3>1. u = [v EXCEPT !.a = a]
      BY DEF Views
    <3> HIDE DEF u, a
    <3>2. QED
      BY <2>6, <3>1 DEF Views
  <2> HIDE DEF u, a, again
  <2>8. /\ s \in Views /\ s.marked = u.marked /\ s.a.prevShow = new
        /\ s.a.headers = u.a.headers /\ s.a.active = u.a.active /\ s.a.index = u.a.index
        /\ s.a.collapsible = u.a.collapsible /\ s.a.live = u.a.live
        /\ N \subseteq s.open /\ s.open \subseteq N \union {s.move.hide}
        /\ s.class \subseteq {s.move.old}
        /\ s.move.on => s.move.hide \notin N /\ s.move.old \notin N
        /\ ~s.move.on => s.open = N /\ s.class = {}
    <3>1. OldShown(u, K, v.a.active, new)
      BY <2>5, <2>6, <2>7 DEF ViewFits, OldShown
    <3>2. v.a.active \in 0..MaxPanels
      BY <2>2 DEF Accordions
    <3> HIDE DEF K, s, N
    <3>3. NewShown(s, u, new)
      BY <2>2, <2>3, <2>4, <2>7, <3>1, <3>2, ToggleEnds DEF s
    <3>4. QED
      BY <3>3 DEF NewShown, N
  <2>9. v.marked = K
    BY DEF ViewFits
  <2> HIDE DEF s, K
  <2>10. /\ r \in Views /\ r.a = s.a /\ r.open = s.open /\ r.move = s.move
         /\ r.marked = N /\ r.class = s.class \union N
    <3>1. (s.marked \ {v.a.active}) \union N = N
      BY <2>3, <2>7, <2>8, <2>9
    <3>2. QED
      BY <2>3, <2>8, <3>1 DEF Views
  <2> HIDE DEF r
  <2>11. Held(r) = N
    BY <2>5, <2>6, <2>7, <2>8, <2>10 DEF Held, Nobody, Views, Accordions
  <2>12. ViewFits(r)
    BY <2>6, <2>7, <2>8, <2>10, <2>11 DEF ViewFits
  <2>13. QED
    BY <2>1, <2>4, <2>6, <2>7, <2>8, <2>10, <2>12 DEF again
<1>3. QED
  BY <1>1, <1>2

LEMMA ActivatedKeeps ==
  ASSUME NEW v \in Views, ViewFits(v), NEW i \in Int
  PROVE  LET s == ActivatedAt(v, i)
             h == HeaderIn(v.a.headers, i)
         IN  /\ s \in Views /\ ViewFits(s)
             /\ s.a.headers = v.a.headers /\ s.a.collapsible = v.a.collapsible /\ s.a.live = v.a.live
             /\ h = v.a.active => s = v
             /\ h # v.a.active /\ h # Nobody => s.a.active = h /\ s.a.index = PlaceOf(v.a.headers, h)
             /\ h # v.a.active /\ h = Nobody
                   => IF v.a.collapsible THEN s.a.active = Nobody /\ s.a.index = -1 ELSE s = v
<1> DEFINE h == HeaderIn(v.a.headers, i)
           c == IF h # Nobody THEN h ELSE v.a.active
<1>1. v.a \in Accordions /\ v.a.headers \in SUBSET (1..MaxPanels) /\ v.a.active \in 0..MaxPanels
  BY DEF Views, Accordions
<1>2. h \in v.a.headers \/ h = Nobody
  BY <1>1, HeaderFound
<1>3. CASE h = v.a.active
  BY <1>3 DEF ActivatedAt
<1>4. CASE h # v.a.active
  <2>1. ActivatedAt(v, i) = Chosen(v, c)
    BY <1>4 DEF ActivatedAt
  <2>2. c \in 1..MaxPanels /\ (c \in v.a.headers \/ c = v.a.active)
    BY <1>1, <1>2, <1>4, AccordionAssumption DEF Nobody
  <2>3. (h # Nobody => c = h) /\ (h = Nobody => c = v.a.active)
    OBVIOUS
  <2> HIDE DEF h, c
  <2>4. LET s == Chosen(v, c)
        IN  /\ s \in Views /\ ViewFits(s)
            /\ s.a.headers = v.a.headers /\ s.a.collapsible = v.a.collapsible /\ s.a.live = v.a.live
            /\ c = v.a.active => IF v.a.collapsible THEN s.a.active = Nobody /\ s.a.index = -1 ELSE s = v
            /\ c # v.a.active => s.a.active = c /\ s.a.index = PlaceOf(v.a.headers, c)
    BY <2>2, ChosenKeeps
  <2>5. QED
    BY <1>4, <2>1, <2>3, <2>4 DEF h
<1>5. QED
  BY <1>3, <1>4

\* The look of the panels after refresh() is that of the header found by index.
LEMMA RefreshKeeps ==
  ASSUME NEW v \in Views, ViewFits(v), NEW h, h = HeaderIn(v.a.headers, v.a.index),
         h = v.a.active \/ (h = Nobody /\ v.a.active \notin v.a.headers)
  PROVE  LET s == RefreshedPanels(v)
         IN  /\ s \in Views /\ ViewFits(s) /\ ActiveByIndex(s) /\ s.a.active = h
             /\ s.a.headers = v.a.headers /\ s.a.collapsible = v.a.collapsible /\ s.a.live = v.a.live
             /\ s.a.index = v.a.index
<1> DEFINE hs == {h} \ {Nobody}
           a == [v.a EXCEPT !.active = h]
           s == [v EXCEPT !.a.active = h, !.open = hs, !.class = @ \union hs, !.marked = @ \union hs]
<1>1. v.a \in Accordions /\ v.a.headers \in SUBSET (1..MaxPanels) /\ v.a.active \in 0..MaxPanels
      /\ v.a.index \in Int
  BY AccordionAssumption DEF Views, Accordions
<1>2. (h \in v.a.headers \/ h = Nobody) /\ Nobody \notin v.a.headers
  <2>1. PICK hdrs \in SUBSET (1..MaxPanels), i \in Int : hdrs = v.a.headers /\ i = v.a.index
    BY <1>1
  <2>2. (HeaderIn(hdrs, i) \in hdrs \/ HeaderIn(hdrs, i) = Nobody) /\ Nobody \notin hdrs
    BY HeaderFound
  <2>3. QED
    BY <2>1, <2>2
<1>3. h \in 0..MaxPanels /\ hs \subseteq 1..MaxPanels
  BY <1>1, <1>2, AccordionAssumption DEF Nobody
<1>4. Held(v) = hs
  BY <1>1, <1>2 DEF Held
<1>5. RefreshedPanels(v) = s
  BY DEF RefreshedPanels
<1> HIDE DEF hs
<1>6. /\ a \in Accordions /\ a.active = h /\ a.headers = v.a.headers /\ a.index = v.a.index
      /\ a.collapsible = v.a.collapsible /\ a.live = v.a.live /\ a.prevShow = v.a.prevShow
  BY <1>1, <1>3 DEF Accordions
<1>7. s = [v EXCEPT !.a = a, !.open = hs, !.class = @ \union hs, !.marked = @ \union hs]
  BY DEF Views
<1> HIDE DEF s, a
<1>8. /\ s \in Views /\ s.a = a /\ s.open = hs /\ s.class = v.class \union hs
      /\ s.marked = v.marked \union hs /\ s.move = v.move
  BY <1>3, <1>6, <1>7 DEF Views
<1>9. Held(s) = hs
  BY <1>2, <1>6, <1>8 DEF Held, hs
<1>10. ViewFits(s)
  <2>1. s.a.prevShow # Nobody => s.a.prevShow = s.a.active \/ (s.a.prevShow \notin s.a.headers /\ hs = {})
    <3>1. CASE h = v.a.active
      BY <1>4, <1>6, <1>8, <3>1 DEF ViewFits
    <3>2. CASE h = Nobody /\ v.a.active \notin v.a.headers
      BY <1>4, <1>6, <1>8, <3>2 DEF ViewFits, hs
    <3>3. QED
      BY <3>1, <3>2
  <2>2. s.marked = hs /\ s.open = hs /\ hs \subseteq s.class /\ s.class \subseteq hs \union {v.move.old}
    BY <1>4, <1>8 DEF ViewFits
  <2>3. v.move.on => v.move.hide \notin hs /\ v.move.old \notin hs
    BY <1>4 DEF ViewFits
  <2>4. ~v.move.on => s.class = hs
    BY <1>4, <1>8 DEF ViewFits
  <2>5. QED
    BY <1>8, <1>9, <2>1, <2>2, <2>3, <2>4 DEF ViewFits
<1>11. QED
  BY <1>5, <1>6, <1>8, <1>10 DEF ActiveByIndex

\* Every step of the accordion.
LEMMA AccordionInitially == AccordionInit => AccordionInv
<1> SUFFICES ASSUME AccordionInit PROVE AccordionInv
  OBVIOUS
<1>1. 1 \in 1..MaxPanels /\ MaxPanels \in Nat
  BY AccordionAssumption
<1>2. accordion \in Accordions /\ panelMove \in PanelMoves
  BY <1>1 DEF AccordionInit, Accordions, PanelMoves, Still, Nobody
<1>3. Now \in Views /\ severalGone \in BOOLEAN
  BY <1>1, <1>2 DEF AccordionInit, Views, Now
<1>4. Held(Now) = {1}
  BY <1>1 DEF AccordionInit, Now, Held
<1>5. ViewFits(Now)
  BY <1>4 DEF AccordionInit, Now, ViewFits, Still, Nobody
<1>6. PlaceOf(1..MaxPanels, 1) = 0
  <2>1. {g \in 1..MaxPanels : g < 1} = {}
    BY <1>1
  <2>2. QED
    BY <2>1, FS_EmptySet DEF PlaceOf
<1>7. HeaderIn(1..MaxPanels, 0) = 1
  BY <1>1, <1>6, HeaderFound
<1>8. ActiveByIndex(Now) /\ IndexRight(Now)
  BY <1>6, <1>7 DEF AccordionInit, Now, ActiveByIndex, IndexRight, Nobody
<1>9. QED
  BY <1>3, <1>5, <1>8 DEF AccordionInv

\* A view that becomes the state.
LEMMA ViewBecomes ==
  ASSUME AccordionInv, NEW v \in Views, ViewIs(v), severalGone' \in BOOLEAN,
         v.a.live => ViewFits(v) /\ ActiveByIndex(v) /\ (~severalGone' => IndexRight(v))
  PROVE  AccordionInv'
<1>1. v = [a |-> v.a, open |-> v.open, class |-> v.class, marked |-> v.marked, move |-> v.move]
  BY DEF Views
<1>2. Now' = v
  BY <1>1 DEF Now, ViewIs
<1>3. accordion' = v.a
  BY DEF ViewIs
<1>4. QED
  BY <1>2, <1>3 DEF AccordionInv

\* The view of a state is one of Views, with the components of the state.
LEMMA NowIs ==
  /\ Now.a = accordion /\ Now.open = panelsOpen /\ Now.class = openClass
  /\ Now.marked = headerClass /\ Now.move = panelMove
BY DEF Now

LEMMA PanelClicked ==
  ASSUME AccordionInv, NEW h \in 1..MaxPanels, ClickPanel(h)
  PROVE  AccordionInv'
<1> DEFINE s == Chosen(Now, h)
<1>1. accordion.live /\ h \in accordion.headers /\ ViewIs(s) /\ severalGone' = severalGone
  BY DEF ClickPanel
<1>2. PICK v \in Views : v = Now
  BY DEF AccordionInv
<1>3. ViewFits(v) /\ ActiveByIndex(v) /\ (~severalGone => IndexRight(v)) /\ v.a = accordion
  BY <1>1, <1>2, NowIs DEF AccordionInv
<1>4. PICK r : r = Chosen(v, h)
  OBVIOUS
<1>5. /\ r \in Views /\ ViewFits(r)
      /\ r.a.headers = v.a.headers /\ r.a.collapsible = v.a.collapsible /\ r.a.live = v.a.live
      /\ h = v.a.active => IF v.a.collapsible THEN r.a.active = Nobody /\ r.a.index = -1 ELSE r = v
      /\ h # v.a.active => r.a.active = h /\ r.a.index = PlaceOf(v.a.headers, h)
  <2>1. h \in v.a.headers \/ h = v.a.active
    BY <1>1, <1>3
  <2>2. QED
    BY <1>3, <1>4, <2>1, ChosenKeeps
<1>6. v.a.headers \in SUBSET (1..MaxPanels) /\ HeaderIn(v.a.headers, -1) = Nobody
      /\ HeaderIn(v.a.headers, PlaceOf(v.a.headers, h)) = h /\ h # Nobody
  <2>1. v.a.headers \in SUBSET (1..MaxPanels)
    BY DEF Views, Accordions
  <2>2. QED
    BY <1>1, <1>3, <2>1, HeaderFound DEF Nobody
<1>7. ActiveByIndex(r) /\ (~severalGone => IndexRight(r))
  <2>1. CASE h # v.a.active
    BY <1>5, <1>6, <2>1 DEF ActiveByIndex, IndexRight
  <2>2. CASE h = v.a.active /\ v.a.collapsible
    BY <1>5, <1>6, <2>2 DEF ActiveByIndex, IndexRight
  <2>3. CASE h = v.a.active /\ ~v.a.collapsible
    BY <1>3, <1>5, <2>3
  <2>4. QED
    BY <2>1, <2>2, <2>3
<1>8. ViewIs(r)
  BY <1>1, <1>2, <1>4
<1>9. severalGone' \in BOOLEAN
  BY <1>1 DEF AccordionInv
<1>10. QED
  BY <1>1, <1>5, <1>7, <1>8, <1>9, ViewBecomes

\* _activate() keeps the index.
LEMMA IndexActivated ==
  ASSUME NEW v \in Views, ViewFits(v), ActiveByIndex(v), NEW i \in Int
  PROVE  /\ ActivatedAt(v, i) \in Views /\ ViewFits(ActivatedAt(v, i)) /\ ActiveByIndex(ActivatedAt(v, i))
         /\ IndexRight(v) \/ (v.a.index = -1 /\ i = 0) => IndexRight(ActivatedAt(v, i))
<1> DEFINE h == HeaderIn(v.a.headers, i)
<1>1. PICK r : r = ActivatedAt(v, i)
  OBVIOUS
<1>2. /\ r \in Views /\ ViewFits(r)
      /\ r.a.headers = v.a.headers /\ r.a.collapsible = v.a.collapsible /\ r.a.live = v.a.live
      /\ h = v.a.active => r = v
      /\ h # v.a.active /\ h # Nobody => r.a.active = h /\ r.a.index = PlaceOf(v.a.headers, h)
      /\ h # v.a.active /\ h = Nobody
            => IF v.a.collapsible THEN r.a.active = Nobody /\ r.a.index = -1 ELSE r = v
  BY <1>1, ActivatedKeeps
<1>3. PICK hs \in SUBSET (1..MaxPanels) : hs = v.a.headers
  BY DEF Views, Accordions
<1>4. /\ h \in hs \/ h = Nobody
      /\ h \in hs => HeaderIn(hs, PlaceOf(hs, h)) = h
      /\ HeaderIn(hs, -1) = Nobody
      /\ hs # {} /\ i = 0 => h \in hs
      /\ Nobody \notin hs
  <2>1. h = HeaderIn(hs, i)
    BY <1>3
  <2>2. hs # {} => 0 \in 0..(Cardinality(hs) - 1)
    <3>1. IsFiniteSet(hs) /\ Cardinality(hs) \in 0..MaxPanels
      BY PanelPlaces
    <3>2. hs # {} => Cardinality(hs) # 0
      BY <3>1, FS_EmptySet
    <3>3. QED
      BY <3>1, <3>2, AccordionAssumption
  <2>3. -1 \notin 0..(Cardinality(hs) - 1) /\ -1 \in Int
    OBVIOUS
  <2> HIDE DEF h
  <2>4. QED
    BY <2>1, <2>2, <2>3, HeaderFound
<1> HIDE DEF h
<1>5. ActiveByIndex(r)
  <2>1. CASE r = v
    BY <2>1
  <2>2. CASE r # v
    BY <1>2, <1>3, <1>4, <2>2 DEF ActiveByIndex
  <2>3. QED
    BY <2>1, <2>2
<1>6. IndexRight(v) \/ (v.a.index = -1 /\ i = 0) => IndexRight(r)
  <2>1. CASE r = v
    <3>1. SUFFICES ASSUME v.a.index = -1, i = 0 PROVE IndexRight(v)
      BY <2>1
    <3>2. v.a.active = Nobody
      BY <1>3, <1>4, <3>1 DEF ActiveByIndex
    <3>3. h = Nobody
      BY <1>2, <1>4, <2>1, <3>2
    <3>4. hs = {}
      BY <1>4, <3>1, <3>3
    <3>5. QED
      BY <1>3, <3>1, <3>2, <3>4 DEF IndexRight
  <2>2. CASE r # v
    BY <1>2, <1>3, <1>4, <2>2 DEF IndexRight
  <2>3. QED
    BY <2>1, <2>2
<1>7. QED
  BY <1>1, <1>2, <1>5, <1>6

LEMMA ActiveSet ==
  ASSUME AccordionInv, NEW i \in Int, SetActive(i)
  PROVE  AccordionInv'
<1>1. accordion.live /\ ViewIs(ActivatedAt(Now, i)) /\ severalGone' = severalGone
  BY DEF SetActive
<1>2. PICK v \in Views : v = Now
  BY DEF AccordionInv
<1>3. ViewFits(v) /\ ActiveByIndex(v) /\ (~severalGone => IndexRight(v)) /\ v.a = accordion
  BY <1>1, <1>2, NowIs DEF AccordionInv
<1>4. PICK r : r = ActivatedAt(v, i)
  OBVIOUS
<1>5. r \in Views /\ ViewFits(r) /\ ActiveByIndex(r) /\ (IndexRight(v) => IndexRight(r))
  BY <1>3, <1>4, IndexActivated
<1>6. ViewIs(r)
  BY <1>1, <1>2, <1>4
<1>7. severalGone' \in BOOLEAN
  BY <1>1 DEF AccordionInv
<1>8. QED
  BY <1>1, <1>3, <1>5, <1>6, <1>7, ViewBecomes

LEMMA PanelsStopped ==
  ASSUME AccordionInv, PanelsMoved
  PROVE  AccordionInv'
<1>1. panelMove.on /\ ViewIs(MoveOver(Now)) /\ severalGone' = severalGone
  BY DEF PanelsMoved
<1>2. PICK v \in Views : v = Now
  BY DEF AccordionInv
<1>3. PICK r : r = MoveOver(v)
  OBVIOUS
<1>4. ViewIs(r)
  BY <1>1, <1>2, <1>3
<1>5. severalGone' \in BOOLEAN
  BY <1>1 DEF AccordionInv
<1>6. r \in Views /\ r.a = v.a
  <2>1. v.move.on /\ v.move \in PanelMoves /\ v.open \subseteq 1..MaxPanels /\ v.class \subseteq 1..MaxPanels
    BY <1>1, <1>2, NowIs DEF Views
  <2>2. Still \in PanelMoves
    BY AccordionAssumption DEF Still, PanelMoves, Nobody
  <2>3. r = [v EXCEPT !.open = @ \ {v.move.hide}, !.class = @ \ {v.move.old}, !.move = Still]
    BY <1>3, <2>1 DEF MoveOver
  <2>4. QED
    BY <2>1, <2>2, <2>3 DEF Views
<1>7. CASE ~v.a.live
  BY <1>4, <1>5, <1>6, <1>7, ViewBecomes
<1>8. CASE v.a.live
  <2>1. ViewFits(v) /\ ActiveByIndex(v) /\ (~severalGone => IndexRight(v))
    BY <1>2, <1>8, NowIs DEF AccordionInv
  <2> DEFINE K == Held(v)
  <2>2. /\ K \subseteq v.open /\ v.open \subseteq K \union {v.move.hide}
        /\ K \subseteq v.class /\ v.class \subseteq K \union {v.move.old}
        /\ v.move.on => v.move.hide \notin K /\ v.move.old \notin K
        /\ ~v.move.on => v.open = K /\ v.class = K
    BY <2>1 DEF ViewFits
  <2> HIDE DEF K
  <2>3. r.a = v.a /\ r.marked = v.marked /\ r.open = K /\ r.class = K /\ ~r.move.on
    BY <1>3, <2>2, MoveEnds
  <2>4. Held(r) = K
    BY <2>3 DEF Held, K
  <2>5. ViewFits(r)
    BY <2>1, <2>3, <2>4 DEF ViewFits, K
  <2>6. ActiveByIndex(r) /\ (~severalGone => IndexRight(r))
    BY <2>1, <2>3 DEF ActiveByIndex, IndexRight
  <2>7. QED
    BY <1>1, <1>4, <1>5, <1>6, <2>5, <2>6, ViewBecomes
<1>9. QED
  BY <1>7, <1>8

OptionSet(v, key, b) ==
    CASE key = "collapsible" -> [v EXCEPT !.a.collapsible = b]
      [] key = "animate" -> [v EXCEPT !.a.animate = b]
      [] key = "disabled" -> [v EXCEPT !.a.disabled = b]

\* An option changes nothing of the panels.
LEMMA OptionKeeps ==
  ASSUME NEW v \in Views, NEW key \in {"collapsible", "animate", "disabled"}, NEW b \in BOOLEAN,
         ViewFits(v), ActiveByIndex(v)
  PROVE  LET u == OptionSet(v, key, b)
         IN  /\ u \in Views /\ ViewFits(u) /\ ActiveByIndex(u)
             /\ u.a.headers = v.a.headers /\ u.a.index = v.a.index /\ u.a.active = v.a.active
             /\ u.a.collapsible = IF key = "collapsible" THEN b ELSE v.a.collapsible
<1> DEFINE u == OptionSet(v, key, b)
<1>1. /\ u \in Views
      /\ u.a.headers = v.a.headers /\ u.a.index = v.a.index /\ u.a.active = v.a.active
      /\ u.a.prevShow = v.a.prevShow
      /\ u.open = v.open /\ u.class = v.class /\ u.marked = v.marked /\ u.move = v.move
      /\ u.a.collapsible = IF key = "collapsible" THEN b ELSE v.a.collapsible
  <2>1. CASE key = "collapsible"
    <3>1. u = [v EXCEPT !.a.collapsible = b]
      BY <2>1 DEF OptionSet
    <3> HIDE DEF u
    <3>2. QED
      BY <2>1, <3>1 DEF Views, Accordions
  <2>2. CASE key = "animate"
    <3>1. u = [v EXCEPT !.a.animate = b]
      BY <2>2 DEF OptionSet
    <3> HIDE DEF u
    <3>2. QED
      BY <2>2, <3>1 DEF Views, Accordions
  <2>3. CASE key = "disabled"
    <3>1. u = [v EXCEPT !.a.disabled = b]
      BY <2>3 DEF OptionSet
    <3> HIDE DEF u
    <3>2. QED
      BY <2>3, <3>1 DEF Views, Accordions
  <2>4. QED
    BY <2>1, <2>2, <2>3
<1> HIDE DEF u
<1>2. Held(u) = Held(v)
  BY <1>1 DEF Held
<1>3. ViewFits(u) /\ ActiveByIndex(u)
  BY <1>1, <1>2 DEF ViewFits, ActiveByIndex
<1>4. QED
  BY <1>1, <1>3 DEF u

LEMMA PanelsOptionSet ==
  ASSUME AccordionInv, NEW key \in {"collapsible", "animate", "disabled"}, NEW b \in BOOLEAN,
         SetPanelsOption(key, b)
  PROVE  AccordionInv'
<1>1. PICK v \in Views : v = Now
  BY DEF AccordionInv
<1>2. PICK u : u = OptionSet(v, key, b)
  OBVIOUS
<1> DEFINE again == key = "collapsible" /\ ~b /\ accordion.index = -1 /\ accordion.headers # {}
<1>3. accordion.live /\ severalGone' = severalGone /\ ViewIs(IF again THEN ActivatedAt(u, 0) ELSE u)
  BY <1>1, <1>2 DEF SetPanelsOption, OptionSet
<1>4. ViewFits(v) /\ ActiveByIndex(v) /\ (~severalGone => IndexRight(v)) /\ v.a = accordion
  BY <1>1, <1>3, NowIs DEF AccordionInv
<1>5. /\ u \in Views /\ ViewFits(u) /\ ActiveByIndex(u)
      /\ u.a.headers = v.a.headers /\ u.a.index = v.a.index /\ u.a.active = v.a.active
      /\ u.a.collapsible = IF key = "collapsible" THEN b ELSE v.a.collapsible
  BY <1>2, <1>4, OptionKeeps
<1>6. severalGone' \in BOOLEAN
  BY <1>3 DEF AccordionInv
<1>7. CASE again
  <2>1. PICK r : r = ActivatedAt(u, 0)
    OBVIOUS
  <2>2. u.a.index = -1
    BY <1>4, <1>5, <1>7
  <2>3. r \in Views /\ ViewFits(r) /\ ActiveByIndex(r) /\ IndexRight(r)
    BY <1>5, <2>1, <2>2, IndexActivated
  <2>4. ViewIs(r)
    BY <1>3, <1>7, <2>1
  <2>5. QED
    BY <1>6, <2>3, <2>4, ViewBecomes
<1>8. CASE ~again
  <2>1. ViewIs(u)
    BY <1>3, <1>8
  <2>2. IndexRight(v) => IndexRight(u)
    BY <1>4, <1>5, <1>8 DEF IndexRight
  <2>3. QED
    BY <1>3, <1>4, <1>5, <1>6, <2>1, <2>2, ViewBecomes
<1>9. QED
  BY <1>7, <1>8

LEMMA AccordionDestroyed ==
  ASSUME AccordionInv, DestroyAccordion
  PROVE  AccordionInv'
<1>1. /\ accordion' = [accordion EXCEPT !.live = FALSE] /\ panelsOpen' = accordion.headers
      /\ openClass' = {} /\ headerClass' = {} /\ panelMove' = panelMove /\ severalGone' = severalGone
  BY DEF DestroyAccordion
<1>2. Now \in Views /\ severalGone \in BOOLEAN
  BY DEF AccordionInv
<1>3. accordion \in Accordions /\ panelMove \in PanelMoves
  BY <1>2, NowIs DEF Views
<1>4. accordion' \in Accordions /\ ~accordion'.live /\ panelsOpen' \in SUBSET (1..MaxPanels)
  BY <1>1, <1>3 DEF Accordions
<1>5. Now' \in Views
  BY <1>1, <1>3, <1>4 DEF Now, Views
<1>6. QED
  BY <1>1, <1>2, <1>4, <1>5 DEF AccordionInv

\* Without what was taken away, the view fits the headers that are left.
LEMMA LeftFits ==
  ASSUME NEW v \in Views, ViewFits(v), NEW gone
  PROVE  LET left == [v EXCEPT !.a.headers = @ \ gone, !.open = @ \ gone, !.class = @ \ gone, !.marked = @ \ gone]
         IN  /\ left \in Views /\ ViewFits(left) /\ left.a.headers = v.a.headers \ gone
             /\ left.a.index = v.a.index /\ left.a.active = v.a.active
             /\ left.a.collapsible = v.a.collapsible /\ left.a.live = v.a.live
<1> DEFINE left == [v EXCEPT !.a.headers = @ \ gone, !.open = @ \ gone, !.class = @ \ gone, !.marked = @ \ gone]
           a == [v.a EXCEPT !.headers = @ \ gone]
<1>1. v.a \in Accordions /\ v.open \subseteq 1..MaxPanels /\ v.class \subseteq 1..MaxPanels
      /\ v.marked \subseteq 1..MaxPanels
  BY DEF Views
<1>2. /\ a \in Accordions /\ a.headers = v.a.headers \ gone /\ a.index = v.a.index /\ a.active = v.a.active
      /\ a.collapsible = v.a.collapsible /\ a.live = v.a.live /\ a.prevShow = v.a.prevShow
  BY <1>1 DEF Accordions
<1>3. left = [v EXCEPT !.a = a, !.open = @ \ gone, !.class = @ \ gone, !.marked = @ \ gone]
  BY DEF Views
<1> HIDE DEF left, a
<1>4. /\ left \in Views /\ left.a = a /\ left.open = v.open \ gone /\ left.class = v.class \ gone
      /\ left.marked = v.marked \ gone /\ left.move = v.move
  BY <1>1, <1>2, <1>3 DEF Views
<1>5. Held(left) = Held(v) \ gone
  BY <1>2, <1>4 DEF Held
<1>6. ViewFits(left)
  BY <1>2, <1>4, <1>5 DEF ViewFits
<1>7. QED
  BY <1>2, <1>4, <1>6 DEF left

\* What is shown after refresh() has the index of the header that is shown.
LEMMA RefreshedIs ==
  ASSUME NEW v \in Views, ViewFits(v), ActiveByIndex(v)
  PROVE  /\ RefreshedPanels(v) \in Views /\ ViewFits(RefreshedPanels(v)) /\ ActiveByIndex(RefreshedPanels(v))
         /\ IndexRight(v) => IndexRight(RefreshedPanels(v))
<1>1. PICK h : h = HeaderIn(v.a.headers, v.a.index)
  OBVIOUS
<1>2. h = v.a.active
  BY <1>1 DEF ActiveByIndex
<1>3. PICK s : s = RefreshedPanels(v)
  OBVIOUS
<1>4. /\ s \in Views /\ ViewFits(s) /\ ActiveByIndex(s) /\ s.a.active = h
      /\ s.a.headers = v.a.headers /\ s.a.collapsible = v.a.collapsible /\ s.a.live = v.a.live
      /\ s.a.index = v.a.index
  BY <1>1, <1>2, <1>3, RefreshKeeps
<1>5. IndexRight(v) => IndexRight(s)
  BY <1>2, <1>4 DEF IndexRight
<1>6. QED
  BY <1>3, <1>4, <1>5

\* The active header was taken away: its neighbour is activated, which is there
\* unless several are gone.
LEMMA NeighbourActivated ==
  ASSUME NEW v \in Views, ViewFits(v), v.a.active # Nobody, v.a.active \notin v.a.headers, v.a.headers # {},
         NEW i \in Nat, i < v.a.index
                        \/ (i = 0 /\ v.a.index = 0)
  PROVE  LET r == RefreshedPanels(ActivatedAt(v, i))
         IN  /\ r \in Views /\ ViewFits(r) /\ ActiveByIndex(r)
             /\ i < Cardinality(v.a.headers) => IndexRight(r)
<1> DEFINE h == HeaderIn(v.a.headers, i)
<1>1. PICK s : s = ActivatedAt(v, i)
  OBVIOUS
<1>2. /\ s \in Views /\ ViewFits(s)
      /\ s.a.headers = v.a.headers /\ s.a.collapsible = v.a.collapsible
      /\ h # v.a.active /\ h # Nobody => s.a.active = h /\ s.a.index = PlaceOf(v.a.headers, h)
      /\ h # v.a.active /\ h = Nobody
            => IF v.a.collapsible THEN s.a.active = Nobody /\ s.a.index = -1 ELSE s = v
  BY <1>1, ActivatedKeeps
<1>3. PICK hs \in SUBSET (1..MaxPanels) : hs = v.a.headers
  BY DEF Views, Accordions
<1>4. PICK k \in Int : k = v.a.index
  BY AccordionAssumption DEF Views, Accordions
<1>5. /\ IsFiniteSet(hs) /\ Cardinality(hs) \in Nat /\ Cardinality(hs) # 0
  <2>1. IsFiniteSet(hs) /\ Cardinality(hs) \in 0..MaxPanels
    BY PanelPlaces
  <2>2. QED
    BY <1>3, <2>1, AccordionAssumption, FS_EmptySet
<1>6. /\ h \in hs \/ h = Nobody
      /\ i < Cardinality(hs) => h \in hs
      /\ i >= Cardinality(hs) => h = Nobody
      /\ h \in hs => HeaderIn(hs, PlaceOf(hs, h)) = h
      /\ HeaderIn(hs, -1) = Nobody
      /\ Nobody \notin hs
  <2>1. h = HeaderIn(hs, i)
    BY <1>3
  <2>2. -1 \notin 0..(Cardinality(hs) - 1) /\ -1 \in Int
    OBVIOUS
  <2>3. i < Cardinality(hs) <=> i \in 0..(Cardinality(hs) - 1)
    BY <1>5
  <2> HIDE DEF h
  <2>4. QED
    BY <1>5, <2>1, <2>2, <2>3, HeaderFound
<1> HIDE DEF h
<1>7. h # v.a.active
  BY <1>3, <1>6
<1>8. PICK r : r = RefreshedPanels(s)
  OBVIOUS
<1>9. CASE h # Nobody
  <2>1. ActiveByIndex(s) /\ IndexRight(s)
    BY <1>2, <1>3, <1>6, <1>7, <1>9 DEF ActiveByIndex, IndexRight
  <2>2. r \in Views /\ ViewFits(r) /\ ActiveByIndex(r) /\ IndexRight(r)
    BY <1>2, <1>8, <2>1, RefreshedIs
  <2>3. QED
    BY <1>1, <1>8, <2>2
<1>10. CASE h = Nobody /\ v.a.collapsible
  <2>1. ActiveByIndex(s) /\ IndexRight(s)
    BY <1>2, <1>3, <1>6, <1>7, <1>10 DEF ActiveByIndex, IndexRight
  <2>2. r \in Views /\ ViewFits(r) /\ ActiveByIndex(r) /\ IndexRight(r)
    BY <1>2, <1>8, <2>1, RefreshedIs
  <2>3. QED
    BY <1>1, <1>8, <2>2
<1>11. CASE h = Nobody /\ ~v.a.collapsible
  <2>1. s = v
    BY <1>2, <1>7, <1>11
  <2>2. i >= Cardinality(hs) /\ ~(i < Cardinality(hs))
    BY <1>3, <1>5, <1>6, <1>11
  <2>3. k \notin 0..(Cardinality(hs) - 1)
    BY <1>4, <1>5, <2>2
  <2>4. HeaderIn(hs, k) = Nobody
    BY <2>3, HeaderFound
  <2>5. Nobody = HeaderIn(v.a.headers, v.a.index)
    BY <1>3, <1>4, <2>4
  <2>6. PICK g : g = Nobody
    OBVIOUS
  <2>7. r \in Views /\ ViewFits(r) /\ ActiveByIndex(r)
    BY <1>8, <2>1, <2>5, <2>6, RefreshKeeps
  <2>8. QED
    BY <1>1, <1>3, <1>8, <2>2, <2>7
<1>12. QED
  BY <1>9, <1>10, <1>11

IndexedAt(v, i, g) == [v EXCEPT !.a.index = i, !.a.active = g]

LEMMA IndexSet ==
  ASSUME NEW v \in Views, ViewFits(v), NEW g \in {v.a.active, Nobody}, g = v.a.active \/ Held(v) = {},
         NEW i \in -1..(MaxPanels - 1)
  PROVE  LET u == IndexedAt(v, i, g)
         IN  /\ u \in Views /\ ViewFits(u) /\ u.a.headers = v.a.headers /\ u.a.index = i /\ u.a.active = g
             /\ u.a.collapsible = v.a.collapsible
<1> DEFINE u == IndexedAt(v, i, g)
           a == [v.a EXCEPT !.index = i, !.active = g]
<1>1. v.a \in Accordions /\ g \in 0..MaxPanels
  BY AccordionAssumption DEF Views, Accordions, Nobody
<1>2. /\ a \in Accordions /\ a.headers = v.a.headers /\ a.index = i /\ a.active = g
      /\ a.collapsible = v.a.collapsible /\ a.prevShow = v.a.prevShow
  BY <1>1 DEF Accordions
<1>3. u = [v EXCEPT !.a = a]
  BY DEF Views, IndexedAt
<1> HIDE DEF u, a
<1>4. /\ u \in Views /\ u.a = a /\ u.open = v.open /\ u.class = v.class /\ u.marked = v.marked
      /\ u.move = v.move
  BY <1>2, <1>3 DEF Views
<1>5. Nobody \notin v.a.headers
  BY <1>1 DEF Accordions, Nobody
<1>6. Held(u) = Held(v)
  BY <1>2, <1>4, <1>5 DEF Held
<1>7. u.a.prevShow # Nobody => u.a.prevShow = u.a.active \/ (u.a.prevShow \notin u.a.headers /\ Held(u) = {})
  <2>1. CASE g = v.a.active
    BY <1>2, <1>4, <1>6, <2>1 DEF ViewFits
  <2>2. CASE Held(v) = {}
    <3>1. v.a.active \notin v.a.headers
      BY <2>2 DEF Held
    <3>2. QED
      BY <1>2, <1>4, <1>6, <2>2, <3>1 DEF ViewFits
  <2>3. QED
    BY <2>1, <2>2
<1>8. ViewFits(u)
  BY <1>4, <1>6, <1>7 DEF ViewFits
<1>9. QED
  BY <1>2, <1>4, <1>8 DEF u

LEMMA PanelsRemoved ==
  ASSUME AccordionInv, NEW gone \in SUBSET (1..MaxPanels), RemovePanels(gone)
  PROVE  AccordionInv'
<1>1. PICK v \in Views : v = Now
  BY DEF AccordionInv
<1>2. PICK left : left = [v EXCEPT !.a.headers = @ \ gone, !.open = @ \ gone, !.class = @ \ gone, !.marked = @ \ gone]
  OBVIOUS
<1> DEFINE a == left.a
           back == IF a.index > 0 THEN a.index - 1 ELSE 0
           none == [left EXCEPT !.a.index = -1, !.a.active = Nobody]
           moved == [left EXCEPT !.a.index = IF a.active = Nobody THEN -1 ELSE PlaceOf(a.headers, a.active)]
           noneLeft == (a.index = -1 /\ a.collapsible) \/ a.headers = {}
           lost == a.active \notin a.headers /\ a.active # Nobody
           next == IF noneLeft THEN none
                   ELSE IF a.index = -1 THEN ActivatedAt(left, 0)
                   ELSE IF lost THEN ActivatedAt(left, back)
                   ELSE moved
<1>3. /\ accordion.live /\ gone # {} /\ gone \subseteq accordion.headers
      /\ ViewIs(RefreshedPanels(next))
      /\ severalGone' = (severalGone \/ Cardinality(gone) > 1)
  BY <1>1, <1>2 DEF RemovePanels
<1>4. ViewFits(v) /\ ActiveByIndex(v) /\ (~severalGone => IndexRight(v)) /\ v.a = accordion
  BY <1>1, <1>3, NowIs DEF AccordionInv
<1>5. /\ left \in Views /\ ViewFits(left) /\ a.headers = v.a.headers \ gone /\ a.index = v.a.index
      /\ a.active = v.a.active /\ a.collapsible = v.a.collapsible
  BY <1>2, <1>4, LeftFits
<1>6. severalGone' \in BOOLEAN /\ (~severalGone' => ~severalGone /\ ~(Cardinality(gone) > 1))
  BY <1>3 DEF AccordionInv
<1>7. PICK hs \in SUBSET (1..MaxPanels), i \in -1..(MaxPanels - 1) : hs = a.headers /\ i = a.index
  BY <1>5 DEF Views, Accordions
<1>8. PICK all \in SUBSET (1..MaxPanels) : all = v.a.headers
  BY DEF Views, Accordions
<1>9. i \in Int /\ -1 \in -1..(MaxPanels - 1)
  BY AccordionAssumption
<1>10. i = -1 => v.a.active = Nobody
  <2>1. -1 \notin 0..(Cardinality(all) - 1) /\ -1 \in Int
    OBVIOUS
  <2>2. HeaderIn(all, -1) = Nobody
    BY <2>1, HeaderFound
  <2>3. QED
    BY <1>4, <1>5, <1>7, <1>8, <2>2 DEF ActiveByIndex
<1>11. HeaderIn(hs, -1) = Nobody /\ Nobody \notin hs /\ \A h \in hs : HeaderIn(hs, PlaceOf(hs, h)) = h
  <2>1. -1 \notin 0..(Cardinality(hs) - 1) /\ -1 \in Int
    OBVIOUS
  <2>2. QED
    BY <2>1, HeaderFound
<1> DEFINE Right(r) == r \in Views /\ ViewFits(r) /\ ActiveByIndex(r) /\ (~severalGone' => IndexRight(r))
<1> HIDE DEF a, none, moved, next
<1>12. Right(RefreshedPanels(next))
  <2>1. CASE noneLeft
    <3>1. next = none
      BY <2>1 DEF next
    <3>2. Held(left) = {}
      BY <1>5, <1>7, <1>10, <1>11, <2>1 DEF Held, a
    <3>3. /\ none \in Views /\ ViewFits(none) /\ none.a.headers = a.headers /\ none.a.index = -1
          /\ none.a.active = Nobody /\ none.a.collapsible = a.collapsible
      <4>1. PICK w : w = IndexedAt(left, -1, Nobody)
        OBVIOUS
      <4>2. PICK g \in {left.a.active, Nobody} : g = Nobody
        OBVIOUS
      <4>3. PICK j \in -1..(MaxPanels - 1) : j = -1
        BY <1>9
      <4>4. w = IndexedAt(left, j, g)
        BY <4>1, <4>2, <4>3
      <4>5. /\ w \in Views /\ ViewFits(w) /\ w.a.headers = left.a.headers /\ w.a.index = j
            /\ w.a.active = g /\ w.a.collapsible = left.a.collapsible
        BY <1>5, <3>2, <4>4, IndexSet
      <4>6. none = w
        BY <4>1 DEF IndexedAt, none
      <4>7. QED
        BY <4>2, <4>3, <4>5, <4>6 DEF a
    <3>4. ActiveByIndex(none) /\ IndexRight(none)
      BY <1>7, <1>11, <2>1, <3>3 DEF ActiveByIndex, IndexRight
    <3>5. QED
      BY <3>1, <3>3, <3>4, RefreshedIs
  <2>2. CASE ~noneLeft /\ i = -1
    <3>1. PICK s : s = ActivatedAt(left, 0)
      OBVIOUS
    <3>2. next = s
      BY <1>7, <2>2, <3>1 DEF next
    <3>3. ActiveByIndex(left)
      BY <1>5, <1>7, <1>10, <1>11, <2>2 DEF ActiveByIndex, a
    <3>4. left.a.index = -1
      BY <1>7, <2>2 DEF a
    <3>5. s \in Views /\ ViewFits(s) /\ ActiveByIndex(s) /\ IndexRight(s)
      BY <1>5, <3>1, <3>3, <3>4, IndexActivated
    <3>6. QED
      BY <3>2, <3>5, RefreshedIs
  <2>3. CASE ~noneLeft /\ i # -1 /\ lost
    <3>1. next = ActivatedAt(left, back)
      BY <1>7, <2>3 DEF next
    <3>2. i \in Nat /\ back \in Nat /\ (back < i \/ (back = 0 /\ i = 0))
      BY <1>7, <1>9, <2>3
    <3>3. PICK b \in Nat : b = back
      BY <3>2
    <3>4. b < left.a.index \/ (b = 0 /\ left.a.index = 0)
      BY <1>7, <3>2, <3>3 DEF a
    <3>5. left.a.active # Nobody /\ left.a.active \notin left.a.headers /\ left.a.headers # {}
      BY <2>3 DEF a
    <3>6. /\ RefreshedPanels(ActivatedAt(left, b)) \in Views /\ ViewFits(RefreshedPanels(ActivatedAt(left, b)))
          /\ ActiveByIndex(RefreshedPanels(ActivatedAt(left, b)))
          /\ b < Cardinality(left.a.headers) => IndexRight(RefreshedPanels(ActivatedAt(left, b)))
      BY <1>5, <3>4, <3>5, NeighbourActivated
    <3>7. ~severalGone' => b < Cardinality(hs)
      <4>1. SUFFICES ASSUME ~severalGone' PROVE b < Cardinality(hs)
        OBVIOUS
      <4>2. IndexRight(v) /\ ~(Cardinality(gone) > 1)
        BY <1>4, <1>6, <4>1
      <4>3. v.a.active # Nobody /\ v.a.active \in all
        <5>1. v.a.active # Nobody
          BY <1>5, <2>3
        <5>2. v.a.index \in Int
          BY <1>5, <1>7, <1>9
        <5>3. HeaderIn(all, v.a.index) \in all \/ HeaderIn(all, v.a.index) = Nobody
          BY <5>2, HeaderFound
        <5>4. QED
          BY <1>4, <1>8, <5>1, <5>3 DEF ActiveByIndex
      <4>4. i = PlaceOf(all, v.a.active)
        BY <1>5, <1>7, <1>8, <4>2, <4>3 DEF IndexRight
      <4>5. i \in 0..(Cardinality(all) - 1) /\ IsFiniteSet(all) /\ Cardinality(all) \in 0..MaxPanels
        BY <4>3, <4>4, PanelPlaces
      <4>6. IsFiniteSet(gone) /\ Cardinality(gone) \in Nat /\ all \cap gone = gone
        <5>1. gone \subseteq all
          BY <1>3, <1>4, <1>8
        <5>2. IsFiniteSet(gone)
          BY <4>5, <5>1, FS_Subset
        <5>3. QED
          BY <5>1, <5>2, FS_CardinalityType
      <4>7. Cardinality(hs) = Cardinality(all) - Cardinality(gone) /\ IsFiniteSet(hs)
        <5>1. hs = all \ gone
          BY <1>5, <1>7, <1>8
        <5>2. IsFiniteSet(all \ gone) /\ Cardinality(all \ gone) = Cardinality(all) - Cardinality(all \cap gone)
          BY <4>5, FS_Difference
        <5>3. QED
          BY <4>6, <5>1, <5>2
      <4>8. Cardinality(hs) \in Nat /\ Cardinality(hs) # 0
        <5>1. hs # {}
          BY <1>7, <2>3
        <5>2. QED
          BY <4>7, <5>1, FS_CardinalityType, FS_EmptySet
      <4>9. Cardinality(all) \in Nat
        BY <4>5, AccordionAssumption
      <4>10. Cardinality(gone) <= 1
        BY <4>2, <4>6
      <4>11. i <= Cardinality(hs)
        BY <4>5, <4>6, <4>7, <4>8, <4>9, <4>10
      <4>12. QED
        BY <3>2, <3>3, <4>8, <4>11
    <3>8. QED
      BY <1>7, <3>1, <3>3, <3>6, <3>7 DEF a
  <2>4. CASE ~noneLeft /\ i # -1 /\ ~lost
    <3>1. next = moved
      BY <1>7, <2>4 DEF next
    <3> DEFINE at == IF a.active = Nobody THEN -1 ELSE PlaceOf(a.headers, a.active)
    <3>2. a.active = Nobody \/ a.active \in hs
      BY <1>7, <2>4
    <3>3. at \in -1..(MaxPanels - 1)
      <4>1. \A h \in hs : PlaceOf(hs, h) \in 0..(MaxPanels - 1)
        BY PanelPlaces
      <4>2. QED
        BY <1>7, <1>9, <3>2, <4>1
    <3> DEFINE u == [left EXCEPT !.a.index = at, !.a.active = a.active]
    <3>4. moved = u
      BY <1>5 DEF moved, a, Views, Accordions
    <3>5. /\ u \in Views /\ ViewFits(u) /\ u.a.headers = left.a.headers /\ u.a.index = at
          /\ u.a.active = a.active /\ u.a.collapsible = left.a.collapsible
      <4>1. PICK g \in {left.a.active, Nobody} : g = a.active /\ g = left.a.active
        BY DEF a
      <4>2. PICK j \in -1..(MaxPanels - 1) : j = at
        BY <3>3
      <4>3. PICK w : w = IndexedAt(left, j, g)
        OBVIOUS
      <4>4. /\ w \in Views /\ ViewFits(w) /\ w.a.headers = left.a.headers /\ w.a.index = j
            /\ w.a.active = g /\ w.a.collapsible = left.a.collapsible
        BY <1>5, <4>1, <4>3, IndexSet
      <4>5. u = w
        BY <4>1, <4>2, <4>3 DEF IndexedAt
      <4> HIDE DEF at, u
      <4>6. QED
        BY <4>1, <4>2, <4>4, <4>5
    <3> HIDE DEF u
    <3>6. ActiveByIndex(u)
      BY <1>7, <1>11, <3>2, <3>5 DEF ActiveByIndex, a
    <3>7. ~severalGone' => IndexRight(u)
      <4>1. SUFFICES ASSUME ~severalGone' PROVE IndexRight(u)
        OBVIOUS
      <4>2. IndexRight(v)
        BY <1>4, <1>6, <4>1
      <4>3. a.active # Nobody
        BY <1>5, <1>7, <2>4, <4>2 DEF IndexRight
      <4>4. QED
        BY <3>5, <4>3 DEF IndexRight, a
    <3>8. QED
      BY <3>1, <3>4, <3>5, <3>6, <3>7, RefreshedIs
  <2>5. QED
    BY <2>1, <2>2, <2>3, <2>4
<1>13. PICK r : r = RefreshedPanels(next)
  OBVIOUS
<1>14. QED
  BY <1>3, <1>6, <1>12, <1>13, ViewBecomes

LEMMA AccordionStep ==
  ASSUME AccordionInv, [AccordionNext]_accordionVars
  PROVE  AccordionInv'
<1>1. CASE UNCHANGED accordionVars
  <2>1. Now' = Now /\ accordion' = accordion /\ severalGone' = severalGone
    BY <1>1 DEF accordionVars, Now
  <2>2. QED
    BY <2>1 DEF AccordionInv
<1>2. CASE PanelsMoved
  BY <1>2, PanelsStopped
<1>3. CASE DestroyAccordion
  BY <1>3, AccordionDestroyed
<1>4. ASSUME NEW h \in 1..MaxPanels, ClickPanel(h) PROVE AccordionInv'
  BY <1>4, PanelClicked
<1>5. ASSUME NEW h \in 1..MaxPanels, SetActive(h - 1) PROVE AccordionInv'
  <2>1. h - 1 \in Int
    OBVIOUS
  <2>2. QED
    BY <1>5, <2>1, ActiveSet
<1>6. ASSUME NEW key \in {"collapsible", "animate", "disabled"}, NEW b \in BOOLEAN, SetPanelsOption(key, b)
      PROVE  AccordionInv'
  BY <1>6, PanelsOptionSet
<1>7. ASSUME NEW gone \in SUBSET (1..MaxPanels), RemovePanels(gone) PROVE AccordionInv'
  BY <1>7, PanelsRemoved
<1>8. QED
  BY <1>1, <1>2, <1>3, <1>4, <1>5, <1>6, <1>7 DEF AccordionNext

\* The panel of the active header is displayed and marked, and no other once
\* the panels stand still; the option "active" is its index (AccordionHolds).
THEOREM AccordionsShow == AccordionSpec => []AccordionHolds
<1>1. AccordionInv => AccordionHolds
  <2>1. SUFFICES ASSUME AccordionInv, accordion.live
                 PROVE  AccordionHolds
    BY DEF AccordionHolds
  <2>2. PICK v \in Views : v = Now
    BY <2>1 DEF AccordionInv
  <2>3. ViewFits(v) /\ ActiveByIndex(v) /\ (~severalGone => IndexRight(v))
    BY <2>1, <2>2 DEF AccordionInv
  <2>4. /\ v.a = accordion /\ v.open = panelsOpen /\ v.class = openClass /\ v.marked = headerClass
        /\ v.move = panelMove
    BY <2>2, NowIs
  <2>5. Held(v) = {v.a.active} \ {Nobody}
    <3>1. PICK hs \in SUBSET (1..MaxPanels), i \in Int : hs = v.a.headers /\ i = v.a.index
      BY AccordionAssumption DEF Views, Accordions
    <3>2. (HeaderIn(hs, i) \in hs \/ HeaderIn(hs, i) = Nobody) /\ Nobody \notin hs
      BY HeaderFound
    <3>3. QED
      BY <2>3, <3>1, <3>2 DEF Held, ActiveByIndex
  <2>6. QED
    BY <2>3, <2>4, <2>5 DEF AccordionHolds, ViewFits, IndexRight
<1>2. QED
  BY <1>1, AccordionInitially, AccordionStep, PTL DEF AccordionSpec

(* The tabs *)

TabCalls == [no : Nat, tab : 1..MaxTabs, status : {"pending", "abort", "success", "error"}]
TabWidgets ==
    [tabs : SUBSET (1..MaxTabs), disabled : SUBSET (1..MaxTabs), active : 0..MaxTabs, index : Int,
     phase : {"still", "hiding", "showing"}, old : 0..MaxTabs, new : 0..MaxTabs,
     shown : SUBSET (1..MaxTabs), marked : SUBSET (1..MaxTabs),
     loading : SUBSET (1..MaxTabs), xhr : Nat, calls : SUBSET TabCalls, made : Nat, live : BOOLEAN]

\* A tab that loads has one request, and only the last one goes on.
LoadsKnown(s) ==
    /\ s.loading = {q.tab : q \in s.calls}
    /\ \A q, r \in s.calls : q.tab = r.tab \/ q.no = r.no => q = r
    /\ \A q \in s.calls : q.no <= s.made /\ (q.status = "pending" => q.no = s.xhr)

\* The panel that is shown, and what an animation makes of it.
PanelRight(s) ==
    IF s.phase = "hiding"
    THEN /\ s.shown = PanelOf(s, s.old) /\ s.marked = PanelOf(s, s.old) /\ s.new = s.active
         /\ s.old # s.new /\ s.active \in s.tabs \union {NoHeader}
    ELSE s.shown = PanelOf(s, s.active) /\ s.marked = PanelOf(s, s.active)

ActiveIndexed(s) ==
    /\ s.active \in s.tabs \union {NoHeader}
    /\ s.index = IF s.active = NoHeader THEN Collapsed ELSE IndexOf(s, s.active)

OnlyActiveLoads(s) == \A q \in s.calls : q.status = "pending" => q.tab = s.active

PanelsInv ==
    /\ tabsUI \in TabWidgets /\ tabsUI.disabled \subseteq tabsUI.tabs
    /\ tabOptions \in [collapsible : BOOLEAN, animates : BOOLEAN] /\ tabDisturbed \in BOOLEAN
    /\ LoadsKnown(tabsUI)
    /\ ~tabDisturbed => PanelRight(tabsUI) /\ ActiveIndexed(tabsUI) /\ OnlyActiveLoads(tabsUI)

LEMMA TabPlaces ==
  ASSUME NEW s \in TabWidgets
  PROVE  /\ IsFiniteSet(s.tabs) /\ s.tabs \subseteq Int /\ Cardinality(s.tabs) \in Nat /\ NoHeader \notin s.tabs
         /\ \A t \in s.tabs : IndexOf(s, t) \in 0..LastIndex(s) /\ HeaderAt(s, IndexOf(s, t)) = t
         /\ \A i \in 0..LastIndex(s) : HeaderAt(s, i) \in s.tabs
<1>1. s.tabs \in SUBSET (1..MaxTabs)
  BY DEF TabWidgets
<1>2. IsFiniteSet(1..MaxTabs) /\ 1..MaxTabs \subseteq Int
  BY TabsUIAssumption, FS_Interval
<1>3. IsFiniteSet(s.tabs) /\ s.tabs \subseteq Int
  BY <1>1, <1>2, FS_Subset
<1>4. Cardinality(s.tabs) \in Nat
  BY <1>3, FS_CardinalityType
<1>5. NoHeader \notin s.tabs
  BY <1>1 DEF NoHeader
<1>6. \A t : IndexOf(s, t) = Cardinality(Before(s.tabs, t))
  BY DEF IndexOf, Before
<1>7. \A t \in s.tabs : IndexOf(s, t) \in 0..LastIndex(s)
  BY <1>3, <1>6, PlaceFits DEF LastIndex
<1>8. ASSUME NEW i \in 0..LastIndex(s) PROVE HeaderAt(s, i) \in s.tabs /\ IndexOf(s, HeaderAt(s, i)) = i
  <2>1. \E t \in s.tabs : IndexOf(s, t) = i
    BY <1>3, <1>6, PlaceTaken DEF LastIndex
  <2>2. QED
    BY <2>1 DEF HeaderAt
<1>9. ASSUME NEW t \in s.tabs PROVE HeaderAt(s, IndexOf(s, t)) = t
  <2> DEFINE g == HeaderAt(s, IndexOf(s, t))
  <2>1. g \in s.tabs /\ IndexOf(s, g) = IndexOf(s, t)
    BY <1>7, <1>8
  <2> HIDE DEF g
  <2>2. g = t
    BY <1>3, <1>6, <2>1, PlaceTells
  <2>3. QED
    BY <2>2 DEF g
<1>10. QED
  BY <1>3, <1>4, <1>5, <1>7, <1>8, <1>9

\* abort() leaves no request that goes on.
LEMMA AbortKeeps ==
  ASSUME NEW s \in TabWidgets, LoadsKnown(s)
  PROVE  LET u == AbortLoad(s)
         IN  /\ u \in TabWidgets /\ LoadsKnown(u) /\ \A q \in u.calls : q.status # "pending"
             /\ u = [s EXCEPT !.calls = u.calls]
<1> DEFINE m(q) == IF q.no = s.xhr /\ q.status = "pending" THEN [q EXCEPT !.status = "abort"] ELSE q
           calls == {m(q) : q \in s.calls}
           u == [s EXCEPT !.calls = calls]
<1>1. ASSUME NEW q \in s.calls
      PROVE  /\ m(q) \in TabCalls /\ m(q).no = q.no /\ m(q).tab = q.tab /\ m(q).status # "pending"
  <2>1. q \in TabCalls /\ (q.status = "pending" => q.no = s.xhr)
    BY DEF TabWidgets, LoadsKnown
  <2>2. QED
    BY <2>1 DEF TabCalls
<1>2. \A x \in calls : \E q \in s.calls : x = m(q)
  OBVIOUS
<1>3. \A q \in s.calls : m(q) \in calls
  OBVIOUS
<1>4. calls \in SUBSET TabCalls
  BY <1>1, <1>2
<1>5. AbortLoad(s) = u
  BY DEF AbortLoad
<1> HIDE DEF calls, m
<1>6. u \in TabWidgets /\ u.calls = calls /\ u.loading = s.loading /\ u.made = s.made /\ u.xhr = s.xhr
  BY <1>4 DEF TabWidgets
<1> HIDE DEF u
<1>7. ASSUME NEW x \in calls, NEW y \in calls, x.tab = y.tab \/ x.no = y.no PROVE x = y
  <2>1. PICK q \in s.calls : x = m(q)
    BY <1>2
  <2>2. PICK r \in s.calls : y = m(r)
    BY <1>2
  <2>3. q.tab = r.tab \/ q.no = r.no
    BY <1>1, <1>7, <2>1, <2>2
  <2>4. q = r
    BY <2>3 DEF LoadsKnown
  <2>5. QED
    BY <2>1, <2>2, <2>4
<1>8. {x.tab : x \in calls} = {q.tab : q \in s.calls}
  <2>1. \A x \in calls : \E q \in s.calls : q.tab = x.tab
    BY <1>1, <1>2
  <2>2. \A q \in s.calls : \E x \in calls : q.tab = x.tab
    BY <1>1, <1>3
  <2>3. QED
    BY <2>1, <2>2
<1>9. \A x \in calls : x.no <= s.made /\ x.status # "pending"
  <2>1. \A q \in s.calls : q.no <= s.made
    BY DEF LoadsKnown
  <2>2. QED
    BY <1>1, <1>2, <2>1
<1>10. LoadsKnown(u)
  BY <1>6, <1>7, <1>8, <1>9 DEF LoadsKnown
<1>11. QED
  BY <1>5, <1>6, <1>9, <1>10 DEF u

\* A request is made for a panel that no other fills.
LEMMA LoadKeeps ==
  ASSUME NEW s \in TabWidgets, LoadsKnown(s), \A q \in s.calls : q.status # "pending",
         NEW t \in 1..MaxTabs, t \notin s.loading
  PROVE  LET u == LoadPanel(s, t)
         IN  /\ u \in TabWidgets /\ LoadsKnown(u) /\ \A q \in u.calls : q.status = "pending" => q.tab = t
             /\ u = [s EXCEPT !.made = u.made, !.xhr = u.xhr, !.loading = u.loading, !.calls = u.calls]
<1>1. CASE t \notin RemoteTabs
  BY <1>1 DEF LoadPanel, TabWidgets
<1>2. CASE t \in RemoteTabs
  <2> DEFINE n == s.made + 1
             c == [no |-> n, tab |-> t, status |-> "pending"]
             cs == s.calls \union {c}
             ls == s.loading \union {t}
             u == [s EXCEPT !.made = n, !.xhr = n, !.loading = ls, !.calls = cs]
  <2>1. LoadPanel(s, t) = u
    BY <1>2 DEF LoadPanel, TabWidgets
  <2>2. s.made \in Nat /\ s.calls \subseteq TabCalls /\ s.loading \subseteq 1..MaxTabs
    BY DEF TabWidgets
  <2>3. n \in Nat /\ c \in TabCalls /\ c.no = n /\ c.tab = t /\ n > s.made
    BY <2>2 DEF TabCalls
  <2>4. ls \subseteq 1..MaxTabs /\ cs \subseteq TabCalls
    BY <2>2, <2>3
  <2> HIDE DEF n, c
  <2>5. /\ u \in TabWidgets /\ u.calls = cs /\ u.loading = ls /\ u.made = n /\ u.xhr = n
    BY <2>3, <2>4 DEF TabWidgets
  <2>6. \A q \in s.calls : q.tab # t /\ q.no # n /\ q.no <= n /\ q.status # "pending"
    <3>1. \A q \in s.calls : q.tab \in s.loading /\ q.no <= s.made /\ q.no \in Nat
      BY <2>2 DEF LoadsKnown, TabCalls
    <3>2. QED
      BY <2>2, <2>3, <3>1
  <2>7. \A q, r \in cs : q.tab = r.tab \/ q.no = r.no => q = r
    <3>1. \A q, r \in s.calls : q.tab = r.tab \/ q.no = r.no => q = r
      BY DEF LoadsKnown
    <3>2. QED
      BY <2>3, <2>6, <3>1
  <2>8. ls = {q.tab : q \in cs}
    BY <2>3 DEF LoadsKnown
  <2>9. \A q \in cs : q.no <= n /\ (q.status = "pending" => q.no = n /\ q.tab = t)
    BY <2>3, <2>6
  <2> HIDE DEF cs, ls, u
  <2>10. LoadsKnown(u)
    BY <2>5, <2>7, <2>8, <2>9 DEF LoadsKnown
  <2>11. QED
    BY <2>1, <2>5, <2>9, <2>10 DEF u
<1>3. QED
  BY <1>1, <1>2

SameTabs(u, s) == u.tabs = s.tabs /\ u.disabled = s.disabled /\ u.live = s.live
SameLoads(u, s) == u.loading = s.loading /\ u.calls = s.calls /\ u.xhr = s.xhr /\ u.made = s.made
SameActive(u, s) == u.active = s.active /\ u.index = s.index

LEMMA ShowKeeps ==
  ASSUME NEW s \in TabWidgets, tabOptions \in [collapsible : BOOLEAN, animates : BOOLEAN]
  PROVE  LET u == ShowNew(s)
         IN  /\ u \in TabWidgets /\ SameTabs(u, s) /\ SameLoads(u, s) /\ SameActive(u, s)
             /\ u.phase \in {"showing", "still"}
             /\ s.shown = PanelOf(s, s.old) /\ s.marked = PanelOf(s, s.old) /\ s.new \in s.tabs \union {NoHeader}
                   => u.shown = PanelOf(s, s.new) /\ u.marked = PanelOf(s, s.new)
<1> DEFINE mk == (s.marked \ {s.old}) \union ({s.new} \ {NoHeader})
           sh == (s.shown \ {s.old}) \union PanelOf(s, s.new)
           ph == IF tabOptions.animates /\ s.new # NoHeader THEN "showing" ELSE "still"
           u == [s EXCEPT !.marked = mk, !.shown = sh, !.phase = ph]
<1>1. ShowNew(s) = u
  BY DEF ShowNew, TabWidgets
<1>2. /\ s.marked \subseteq 1..MaxTabs /\ s.shown \subseteq 1..MaxTabs /\ s.tabs \subseteq 1..MaxTabs
      /\ s.new \in 0..MaxTabs
  BY DEF TabWidgets
<1>3. mk \in SUBSET (1..MaxTabs) /\ sh \in SUBSET (1..MaxTabs) /\ ph \in {"showing", "still"}
  BY <1>2, TabsUIAssumption DEF NoHeader, PanelOf
<1>4. s.shown = PanelOf(s, s.old) /\ s.marked = PanelOf(s, s.old) /\ s.new \in s.tabs \union {NoHeader}
         => sh = PanelOf(s, s.new) /\ mk = PanelOf(s, s.new)
  BY <1>2 DEF NoHeader, PanelOf
<1> HIDE DEF mk, sh, ph
<1>5. u \in TabWidgets /\ u.marked = mk /\ u.shown = sh /\ u.phase = ph
      /\ SameTabs(u, s) /\ SameLoads(u, s) /\ SameActive(u, s)
  BY <1>3 DEF TabWidgets, SameTabs, SameLoads, SameActive
<1> HIDE DEF u
<1>6. QED
  BY <1>1, <1>3, <1>4, <1>5

\* The panel of one header is shown, that of another will be.
Swaps(s, old, new) ==
    /\ s.shown = PanelOf(s, old) /\ s.marked = PanelOf(s, old) /\ old # new
    /\ new = s.active /\ new \in s.tabs \union {NoHeader}

\* _toggle(): the old panel is hidden, at once or by an animation.
LEMMA TogglesRight ==
  ASSUME NEW s \in TabWidgets, tabOptions \in [collapsible : BOOLEAN, animates : BOOLEAN],
         NEW old \in 0..MaxTabs, NEW new \in 0..MaxTabs
  PROVE  LET u == Toggle(s, old, new)
         IN  /\ u \in TabWidgets /\ SameTabs(u, s) /\ SameLoads(u, s) /\ SameActive(u, s)
             /\ PanelOf(s, old) = {} => u.phase # "hiding"
             /\ Swaps(s, old, new) => PanelRight(u)
<1> DEFINE hiding == "hiding"
           t == [s EXCEPT !.old = old, !.new = new, !.phase = hiding]
           u == Toggle(s, old, new)
<1>1. u = IF tabOptions.animates /\ PanelOf(s, old) # {} THEN t ELSE ShowNew(t)
  BY DEF Toggle
<1>2. hiding \in {"still", "hiding", "showing"}
  OBVIOUS
<1>3. /\ t \in TabWidgets /\ t.old = old /\ t.new = new /\ t.phase = "hiding"
      /\ SameTabs(t, s) /\ SameLoads(t, s) /\ SameActive(t, s) /\ t.shown = s.shown /\ t.marked = s.marked
  BY <1>2 DEF TabWidgets, SameTabs, SameLoads, SameActive
<1> HIDE DEF t, u
<1>4. \A x : PanelOf(t, x) = PanelOf(s, x)
  BY <1>3 DEF PanelOf, SameTabs
<1>5. CASE tabOptions.animates /\ PanelOf(s, old) # {}
  <2>1. u = t
    BY <1>1, <1>5
  <2>2. QED
    BY <1>3, <1>4, <1>5, <2>1 DEF PanelRight, SameTabs, SameActive, u, Swaps
<1>6. CASE ~(tabOptions.animates /\ PanelOf(s, old) # {})
  <2>1. u = ShowNew(t)
    BY <1>1, <1>6
  <2>2. /\ u \in TabWidgets /\ SameTabs(u, t) /\ SameLoads(u, t) /\ SameActive(u, t)
        /\ u.phase \in {"showing", "still"}
        /\ t.shown = PanelOf(t, t.old) /\ t.marked = PanelOf(t, t.old) /\ t.new \in t.tabs \union {NoHeader}
              => u.shown = PanelOf(t, t.new) /\ u.marked = PanelOf(t, t.new)
    BY <1>3, <2>1, ShowKeeps
  <2>3. \A x : PanelOf(u, x) = PanelOf(s, x)
    BY <1>3, <2>2 DEF PanelOf, SameTabs
  <2>4. SameTabs(u, s) /\ SameLoads(u, s) /\ SameActive(u, s) /\ t.tabs = s.tabs
    BY <1>3, <2>2 DEF SameTabs, SameLoads, SameActive
  <2>5. Swaps(s, old, new) => PanelRight(u)
    <3>1. SUFFICES ASSUME Swaps(s, old, new) PROVE PanelRight(u)
      OBVIOUS
    <3>2. u.shown = PanelOf(u, new) /\ u.marked = PanelOf(u, new)
      BY <1>3, <1>4, <2>2, <2>3, <2>4, <3>1 DEF Swaps
    <3>3. QED
      BY <2>2, <2>4, <3>1, <3>2 DEF PanelRight, SameActive, Swaps
  <2>6. QED
    BY <2>2, <2>4, <2>5 DEF u
<1>7. QED
  BY <1>5, <1>6

\* What _eventHandler() does not take.
Ignores(s, t) ==
    \/ t \in s.disabled \/ t \in s.loading \/ s.phase # "still"
    \/ t = s.active /\ ~tabOptions.collapsible

\* A click on a header, or on the active one that was taken away.
LEMMA HandledKeeps ==
  ASSUME NEW s \in TabWidgets, LoadsKnown(s), tabOptions \in [collapsible : BOOLEAN, animates : BOOLEAN],
         NEW t \in 1..MaxTabs, t \in s.tabs \/ t = s.active
  PROVE  LET u == Handled(s, t)
         IN  /\ u \in TabWidgets /\ LoadsKnown(u) /\ SameTabs(u, s)
             /\ Ignores(s, t) => u = s
             /\ ~Ignores(s, t) => /\ OnlyActiveLoads(u) /\ ActiveIndexed(u)
                                  /\ PanelRight(s) => PanelRight(u)
                                  /\ PanelOf(s, s.active) = {} => u.phase # "hiding"
<1> DEFINE u == Handled(s, t)
<1>1. CASE Ignores(s, t)
  <2>1. u = s
    BY <1>1 DEF Handled, Ignores
  <2>2. QED
    BY <1>1, <2>1 DEF SameTabs
<1>2. CASE ~Ignores(s, t)
  <2> DEFINE collapsing == t = s.active
             new == IF collapsing THEN NoHeader ELSE t
             at == IF collapsing THEN Collapsed ELSE IndexOf(s, t)
             w == [s EXCEPT !.active = new, !.index = at]
             chosen == AbortLoad(w)
             made == IF collapsing THEN chosen ELSE LoadPanel(chosen, t)
             old == s.active
  <2>1. t = s.active => tabOptions.collapsible
    BY <1>2 DEF Ignores
  <2>2. u = Toggle(made, s.active, new)
    BY <1>2, <2>1 DEF Handled, Ignores
  <2>3. new \in 0..MaxTabs /\ at \in Int /\ old \in 0..MaxTabs /\ NoHeader \notin s.tabs
        /\ s.tabs \subseteq 1..MaxTabs
    <3>1. \A x \in s.tabs : IndexOf(s, x) \in 0..LastIndex(s)
      BY TabPlaces
    <3>2. t \in s.tabs => IndexOf(s, t) \in Int
      BY <3>1
    <3>3. QED
      BY <3>2, TabPlaces, TabsUIAssumption DEF NoHeader, Collapsed, TabWidgets
  <2>4. new \in s.tabs \union {NoHeader} /\ new # old /\ (~collapsing => new = t /\ at = IndexOf(s, t))
        /\ (collapsing => new = NoHeader /\ at = Collapsed)
    BY DEF NoHeader
  <2> HIDE DEF new, at
  <2>5. /\ w \in TabWidgets /\ w.active = new /\ w.index = at /\ SameTabs(w, s) /\ SameLoads(w, s)
        /\ w.shown = s.shown /\ w.marked = s.marked /\ w.phase = s.phase
    BY <2>3 DEF TabWidgets, SameTabs, SameLoads
  <2> HIDE DEF w
  <2>6. LoadsKnown(w)
    BY <2>5 DEF LoadsKnown, SameLoads
  <2>7. /\ chosen \in TabWidgets /\ LoadsKnown(chosen) /\ \A q \in chosen.calls : q.status # "pending"
        /\ chosen = [w EXCEPT !.calls = chosen.calls]
    BY <2>5, <2>6, AbortKeeps
  <2> HIDE DEF chosen
  <2>8. /\ SameTabs(chosen, s) /\ SameActive(chosen, w) /\ chosen.shown = s.shown /\ chosen.marked = s.marked
        /\ chosen.loading = s.loading
    BY <2>5, <2>7 DEF TabWidgets, SameTabs, SameActive, SameLoads
  <2>9. /\ made \in TabWidgets /\ LoadsKnown(made) /\ \A q \in made.calls : q.status = "pending" => q.tab = t /\ new = t
        /\ SameTabs(made, s) /\ SameActive(made, w) /\ made.shown = s.shown /\ made.marked = s.marked
    <3>1. CASE collapsing
      BY <2>7, <2>8, <3>1
    <3>2. CASE ~collapsing
      <4>1. t \notin chosen.loading
        BY <1>2, <2>8 DEF Ignores
      <4>2. made = LoadPanel(chosen, t)
        BY <3>2
      <4> HIDE DEF made
      <4>3. /\ made \in TabWidgets /\ LoadsKnown(made) /\ \A q \in made.calls : q.status = "pending" => q.tab = t
            /\ made = [chosen EXCEPT !.made = made.made, !.xhr = made.xhr, !.loading = made.loading, !.calls = made.calls]
        BY <2>7, <4>1, <4>2, LoadKeeps
      <4>4. SameTabs(made, chosen) /\ SameActive(made, chosen) /\ made.shown = chosen.shown /\ made.marked = chosen.marked
        BY <2>7, <4>3 DEF TabWidgets, SameTabs, SameActive
      <4>5. new = t
        BY <2>4, <3>2
      <4>6. QED
        BY <2>8, <4>3, <4>4, <4>5 DEF SameTabs, SameActive
    <3>3. QED
      BY <3>1, <3>2
  <2> HIDE DEF made
  <2>10. /\ u \in TabWidgets /\ SameTabs(u, made) /\ SameLoads(u, made) /\ SameActive(u, made)
         /\ PanelOf(made, old) = {} => u.phase # "hiding"
         /\ Swaps(made, old, new) => PanelRight(u)
    BY <2>2, <2>3, <2>9, TogglesRight
  <2> HIDE DEF u
  <2>11. SameTabs(u, s) /\ u.active = new /\ u.index = at /\ made.active = new
    BY <2>5, <2>9, <2>10 DEF SameTabs, SameActive
  <2>12. \A x : PanelOf(made, x) = PanelOf(s, x)
    BY <2>9 DEF PanelOf, SameTabs
  <2>13. PanelRight(s) => PanelRight(u)
    <3>1. SUFFICES ASSUME PanelRight(s) PROVE Swaps(made, old, new)
      BY <2>10
    <3>2. s.shown = PanelOf(s, old) /\ s.marked = PanelOf(s, old)
      BY <1>2, <3>1 DEF Ignores, PanelRight
    <3>3. QED
      BY <2>4, <2>9, <2>11, <2>12, <3>2 DEF Swaps, SameTabs
  <2>14. LoadsKnown(u) /\ OnlyActiveLoads(u)
    BY <2>9, <2>10, <2>11 DEF LoadsKnown, OnlyActiveLoads, SameLoads
  <2>15. ActiveIndexed(u)
    <3>1. \A x : IndexOf(u, x) = IndexOf(s, x)
      BY <2>11 DEF IndexOf, SameTabs
    <3>2. collapsing <=> new = NoHeader
      BY <2>3, <2>4
    <3>3. QED
      BY <2>4, <2>11, <3>1, <3>2 DEF ActiveIndexed, SameTabs
  <2>16. QED
    BY <1>2, <2>10, <2>11, <2>12, <2>13, <2>14, <2>15 DEF u
<1>3. QED
  BY <1>1, <1>2

\* _activate() of an index keeps what is right.
LEMMA ActivatedRight ==
  ASSUME NEW s \in TabWidgets, LoadsKnown(s), tabOptions \in [collapsible : BOOLEAN, animates : BOOLEAN], NEW i
  PROVE  LET u == Activated(s, i)
         IN  /\ u \in TabWidgets /\ LoadsKnown(u) /\ SameTabs(u, s)
             /\ PanelRight(s) /\ ActiveIndexed(s) /\ OnlyActiveLoads(s)
                   => PanelRight(u) /\ ActiveIndexed(u) /\ OnlyActiveLoads(u)
<1> DEFINE t == IF i \in 0..LastIndex(s) THEN HeaderAt(s, i) ELSE NoHeader
           c == IF t # NoHeader THEN t ELSE s.active
<1>1. CASE t = s.active
  <2>1. Activated(s, i) = s
    BY <1>1 DEF Activated
  <2>2. QED
    BY <2>1 DEF SameTabs
<1>2. CASE t # s.active
  <2>1. t \in s.tabs \union {NoHeader}
    BY TabPlaces
  <2>2. c \in 1..MaxTabs /\ (c \in s.tabs \/ c = s.active)
    BY <1>2, <2>1, TabsUIAssumption DEF NoHeader, TabWidgets
  <2>3. Activated(s, i) = Handled(s, c)
    BY <1>2 DEF Activated
  <2> HIDE DEF c
  <2>4. PICK u : u = Handled(s, c)
    OBVIOUS
  <2>5. /\ u \in TabWidgets /\ LoadsKnown(u) /\ SameTabs(u, s)
        /\ Ignores(s, c) => u = s
        /\ ~Ignores(s, c) => /\ OnlyActiveLoads(u) /\ ActiveIndexed(u)
                             /\ PanelRight(s) => PanelRight(u)
    BY <2>2, <2>4, HandledKeeps
  <2>6. QED
    BY <2>3, <2>4, <2>5
<1>3. QED
  BY <1>1, <1>2

(* Round the ends. *)
LEMMA Remainder ==
  ASSUME NEW n \in Nat \ {0}, NEW j \in 0..(n - 1), NEW m \in Nat
  PROVE  (j + m * n) % n = j
<1> DEFINE x == j + m * n
           q == x \div n
           r == x % n
<1>1. j \in Nat /\ j < n /\ m * n \in Nat
  OBVIOUS
<1>2. x \in Nat
  BY <1>1
<1> HIDE DEF x
<1>3. q \in Int /\ r \in 0..(n - 1) /\ x = n * q + r
  BY <1>2
<1> HIDE DEF q, r
<1>4. n * (q - m) = j - r
  BY <1>1, <1>3 DEF x
<1>5. q = m
  <2> DEFINE d == q - m
  <2>1. d \in Int
    BY <1>3
  <2> HIDE DEF d
  <2>2. n * d = j - r
    BY <1>4 DEF d
  <2>3. d >= 1 => n * d >= n
    BY <2>1
  <2>4. d <= -1 => n * d <= -n
    BY <2>1
  <2>5. ~(d >= 1) /\ ~(d <= -1)
    BY <1>1, <1>3, <2>1, <2>2, <2>3, <2>4
  <2>6. QED
    BY <1>3, <2>1, <2>5 DEF d
<1>6. r = j
  BY <1>1, <1>3, <1>5 DEF x
<1>7. QED
  BY <1>6 DEF r, x

LEMMA LeastPlace ==
  ASSUME NEW T \in SUBSET Nat, T # {}
  PROVE  \E e \in T : \A x \in T : e <= x
<1> DEFINE less == {ss \in Nat \X Nat : ss[1] < ss[2]}
<1>1. IsWellFoundedOn(less, Nat)
  BY NatLessThanWellFounded, Zenon DEF OpToRel
<1> HIDE DEF less
<1>2. PICK e \in T : \A x \in T : <<x, e>> \notin less
  BY <1>1, WFMin
<1>3. ASSUME NEW x \in T PROVE e <= x
  <2>1. x \in Nat /\ e \in Nat
    OBVIOUS
  <2>2. x < e => <<x, e>> \in less
    BY <2>1 DEF less
  <2>3. QED
    BY <1>2, <2>1, <2>2
<1>4. QED
  BY <1>3

\* _findNextTab() finds a header that is there, and one that is not disabled, if
\* there is one.
LEMMA NextFound ==
  ASSUME NEW s \in TabWidgets, s.disabled \subseteq s.tabs, s.tabs # {},
         NEW i \in Int, i >= -1, NEW forward \in BOOLEAN
  PROVE  /\ NextIndex(s, i, forward) \in 0..LastIndex(s)
         /\ s.disabled # s.tabs => HeaderAt(s, NextIndex(s, i, forward)) \notin s.disabled
<1> DEFINE n == LastIndex(s) + 1
           at(k) == (i + (IF forward THEN k ELSE -k) + 2 * n) % n
           free(k) == HeaderAt(s, at(k)) \notin s.disabled
           first == IF i > LastIndex(s) THEN 0 ELSE IF i < 0 THEN LastIndex(s) ELSE i
<1>1. n \in Nat \ {0} /\ LastIndex(s) = n - 1
  <2>1. Cardinality(s.tabs) \in Nat /\ IsFiniteSet(s.tabs)
    BY TabPlaces
  <2>2. n = Cardinality(s.tabs)
    BY <2>1 DEF LastIndex
  <2>3. Cardinality(s.tabs) # 0
    BY <2>1, FS_EmptySet
  <2>4. QED
    BY <2>1, <2>2, <2>3 DEF LastIndex
<1> HIDE DEF n
<1>2. first \in 0..(n - 1)
  BY <1>1
<1>3. \A k \in Int : at(k) \in 0..(n - 1)
  BY <1>1
<1>4. ASSUME s.disabled = s.tabs \/ HeaderAt(s, first) \notin s.disabled
      PROVE  NextIndex(s, i, forward) = first
  BY <1>4 DEF NextIndex
<1> DEFINE First(k) == free(k) /\ \A m \in 1..(k - 1) : HeaderAt(s, at(m)) \in s.disabled
           k0 == CHOOSE k \in 1..n : First(k)
<1>5. ASSUME ~(s.disabled = s.tabs \/ HeaderAt(s, first) \notin s.disabled)
      PROVE  NextIndex(s, i, forward) = at(k0)
  BY <1>5 DEF NextIndex, n
<1>6. ASSUME s.disabled # s.tabs PROVE k0 \in 1..n /\ free(k0)
  <2>1. PICK t \in s.tabs : t \notin s.disabled
    BY <1>6
  <2>2. PICK j \in 0..(n - 1) : HeaderAt(s, j) = t
    <3>1. IndexOf(s, t) \in 0..LastIndex(s) /\ HeaderAt(s, IndexOf(s, t)) = t
      BY TabPlaces
    <3>2. QED
      BY <1>1, <3>1
  <2>3. PICK q \in Int, r \in 0..(n - 1) : i = q * n + r /\ q >= -1
    <3> DEFINE p == i \div n
               o == i % n
    <3>1. p \in Int /\ o \in 0..(n - 1) /\ i = p * n + o
      BY <1>1
    <3> HIDE DEF p, o
    <3>2. p <= -2 => p * n <= -2 * n
      BY <1>1, <3>1
    <3>3. p >= -1
      BY <1>1, <3>1, <3>2
    <3>4. QED
      BY <3>1, <3>3
  <2>4. \E k \in 1..n : at(k) = j
    <3>1. SUFFICES \E k \in 1..n, m \in Nat : i + (IF forward THEN k ELSE -k) + 2 * n = j + m * n
      BY <1>1, Remainder
    <3>2. q + 1 \in Nat /\ q + 2 \in Nat /\ q + 3 \in Nat
      BY <2>3
    <3>3. CASE forward /\ j > r
      <4>1. j - r \in 1..n /\ i + (j - r) + 2 * n = j + (q + 2) * n
        BY <1>1, <2>3, <3>3
      <4>2. QED
        BY <3>2, <3>3, <4>1
    <3>4. CASE forward /\ ~(j > r)
      <4>1. j - r + n \in 1..n /\ i + (j - r + n) + 2 * n = j + (q + 3) * n
        BY <1>1, <2>3, <3>4
      <4>2. QED
        BY <3>2, <3>4, <4>1
    <3>5. CASE ~forward /\ r > j
      <4>1. r - j \in 1..n /\ i + (-(r - j)) + 2 * n = j + (q + 2) * n
        BY <1>1, <2>3, <3>5
      <4>2. QED
        BY <3>2, <3>5, <4>1
    <3>6. CASE ~forward /\ ~(r > j)
      <4>1. r - j + n \in 1..n /\ i + (-(r - j + n)) + 2 * n = j + (q + 1) * n
        BY <1>1, <2>3, <3>6
      <4>2. QED
        BY <3>2, <3>6, <4>1
    <3>7. QED
      BY <3>3, <3>4, <3>5, <3>6
  <2> DEFINE Frees == {k \in Nat : k \in 1..n /\ free(k)}
  <2>5. Frees # {} /\ Frees \in SUBSET Nat
    <3>1. PICK k \in 1..n : at(k) = j
      BY <2>4
    <3>2. k \in Frees
      BY <1>1, <2>1, <2>2, <3>1
    <3>3. QED
      BY <3>2
  <2>6. PICK k \in Frees : \A m \in Frees : k <= m
    <3> HIDE DEF Frees
    <3>1. QED
      BY <2>5, LeastPlace
  <2>7. k \in Nat /\ k \in 1..n /\ free(k)
    OBVIOUS
  <2>8. ASSUME NEW m \in 1..(k - 1) PROVE HeaderAt(s, at(m)) \in s.disabled
    <3>1. m \in Nat /\ m \in 1..n /\ ~(k <= m)
      BY <1>1, <2>7
    <3>2. m \notin Frees
      BY <2>6, <3>1
    <3>3. QED
      BY <3>1, <3>2
  <2>9. First(k)
    BY <2>7, <2>8
  <2>10. k0 \in 1..n /\ First(k0)
    <3> HIDE DEF First
    <3>1. QED
      BY <2>7, <2>9
  <2>11. QED
    BY <2>10
<1> HIDE DEF k0, first
<1>7. CASE s.disabled = s.tabs \/ HeaderAt(s, first) \notin s.disabled
  BY <1>1, <1>2, <1>4, <1>7
<1>8. CASE ~(s.disabled = s.tabs \/ HeaderAt(s, first) \notin s.disabled)
  <2>1. k0 \in Int /\ k0 \in 1..n /\ free(k0)
    BY <1>1, <1>6, <1>8
  <2>2. QED
    BY <1>1, <1>3, <1>5, <1>8, <2>1
<1>9. QED
  BY <1>7, <1>8


(* Every step of the tabs. *)

\* A widget that becomes the state.
LEMMA WidgetBecomes ==
  ASSUME PanelsInv, NEW s \in TabWidgets, tabsUI' = s, s.disabled \subseteq s.tabs, LoadsKnown(s),
         tabOptions' \in [collapsible : BOOLEAN, animates : BOOLEAN], tabDisturbed' \in BOOLEAN,
         ~tabDisturbed' => PanelRight(s) /\ ActiveIndexed(s) /\ OnlyActiveLoads(s)
  PROVE  PanelsInv'
BY DEF PanelsInv

LEMMA TabsInitially == TabsUIInit => PanelsInv
<1> SUFFICES ASSUME TabsUIInit PROVE PanelsInv
  OBVIOUS
<1>1. 1 \in 1..MaxTabs /\ 1 \in 0..MaxTabs /\ NoHeader \in 0..MaxTabs
  BY TabsUIAssumption DEF NoHeader
<1>2. PICK s : s = NewTabs
  OBVIOUS
<1>3. /\ s.tabs = 1..MaxTabs /\ s.disabled = {} /\ s.active = 1 /\ s.index = 0 /\ s.phase = "still"
      /\ s.shown = {1} /\ s.marked = {1} /\ s.loading = {} /\ s.xhr = 0 /\ s.calls = {} /\ s.made = 0
  BY <1>2 DEF NewTabs
<1>4. s \in TabWidgets
  BY <1>1, <1>2 DEF NewTabs, TabWidgets
<1>5. LoadsKnown(s)
  BY <1>3 DEF LoadsKnown
<1>6. PICK u : u = LoadPanel(s, 1)
  OBVIOUS
<1>7. /\ u \in TabWidgets /\ LoadsKnown(u) /\ \A q \in u.calls : q.status = "pending" => q.tab = 1
      /\ u = [s EXCEPT !.made = u.made, !.xhr = u.xhr, !.loading = u.loading, !.calls = u.calls]
  <2>1. (\A q \in s.calls : q.status # "pending") /\ 1 \notin s.loading
    BY <1>3
  <2>2. QED
    BY <1>1, <1>4, <1>5, <1>6, <2>1, LoadKeeps
<1>8. /\ u.tabs = 1..MaxTabs /\ u.disabled = {} /\ u.active = 1 /\ u.index = 0 /\ u.phase = "still"
      /\ u.shown = {1} /\ u.marked = {1}
  BY <1>3, <1>4, <1>7 DEF TabWidgets
<1>9. IndexOf(u, 1) = 0
  <2>1. {x \in u.tabs : x < 1} = {}
    BY <1>8
  <2>2. QED
    BY <2>1, FS_EmptySet DEF IndexOf
<1>10. PanelRight(u) /\ ActiveIndexed(u) /\ OnlyActiveLoads(u)
  BY <1>1, <1>7, <1>8, <1>9 DEF PanelRight, PanelOf, ActiveIndexed, OnlyActiveLoads, NoHeader
<1>11. tabsUI = u /\ tabOptions = [collapsible |-> FALSE, animates |-> FALSE] /\ tabDisturbed = FALSE
  BY <1>2, <1>6 DEF TabsUIInit
<1>12. QED
  BY <1>7, <1>8, <1>10, <1>11 DEF PanelsInv

\* What is known of the widget in a state.
LEMMA WidgetNow ==
  ASSUME PanelsInv
  PROVE  \E s \in TabWidgets :
             /\ s = tabsUI /\ s.disabled \subseteq s.tabs /\ LoadsKnown(s)
             /\ ~tabDisturbed => PanelRight(s) /\ ActiveIndexed(s) /\ OnlyActiveLoads(s)
BY DEF PanelsInv

LEMMA HeaderClicked ==
  ASSUME PanelsInv, NEW t \in 1..MaxTabs, ClickHeader(t)
  PROVE  PanelsInv'
<1>1. PICK s \in TabWidgets :
          /\ s = tabsUI /\ s.disabled \subseteq s.tabs /\ LoadsKnown(s)
          /\ ~tabDisturbed => PanelRight(s) /\ ActiveIndexed(s) /\ OnlyActiveLoads(s)
  BY WidgetNow
<1>2. PICK u : u = Handled(s, t)
  OBVIOUS
<1>3. t \in s.tabs /\ tabsUI' = u /\ tabOptions' = tabOptions /\ tabDisturbed' = tabDisturbed
  BY <1>1, <1>2 DEF ClickHeader, Becomes
<1>4. tabOptions \in [collapsible : BOOLEAN, animates : BOOLEAN] /\ tabDisturbed \in BOOLEAN
  BY DEF PanelsInv
<1>5. /\ u \in TabWidgets /\ LoadsKnown(u) /\ SameTabs(u, s)
      /\ Ignores(s, t) => u = s
      /\ ~Ignores(s, t) => /\ OnlyActiveLoads(u) /\ ActiveIndexed(u)
                           /\ PanelRight(s) => PanelRight(u)
  BY <1>1, <1>2, <1>3, <1>4, HandledKeeps
<1>6. u.disabled \subseteq u.tabs
  BY <1>1, <1>5 DEF SameTabs
<1>7. ~tabDisturbed => PanelRight(u) /\ ActiveIndexed(u) /\ OnlyActiveLoads(u)
  BY <1>1, <1>5
<1>8. QED
  BY <1>3, <1>4, <1>5, <1>6, <1>7, WidgetBecomes

\* Keys, timers and options activate an index.
LEMMA IndexActivatedKeeps ==
  ASSUME PanelsInv, NEW i, tabsUI' = Activated(tabsUI, i),
         tabOptions' \in [collapsible : BOOLEAN, animates : BOOLEAN], tabDisturbed' = tabDisturbed
  PROVE  PanelsInv'
<1>1. PICK s \in TabWidgets :
          /\ s = tabsUI /\ s.disabled \subseteq s.tabs /\ LoadsKnown(s)
          /\ ~tabDisturbed => PanelRight(s) /\ ActiveIndexed(s) /\ OnlyActiveLoads(s)
  BY WidgetNow
<1>2. PICK u : u = Activated(s, i)
  OBVIOUS
<1>3. tabsUI' = u /\ tabDisturbed' \in BOOLEAN /\ tabOptions \in [collapsible : BOOLEAN, animates : BOOLEAN]
  BY <1>1, <1>2 DEF PanelsInv
<1>4. /\ u \in TabWidgets /\ LoadsKnown(u) /\ SameTabs(u, s)
      /\ PanelRight(s) /\ ActiveIndexed(s) /\ OnlyActiveLoads(s)
            => PanelRight(u) /\ ActiveIndexed(u) /\ OnlyActiveLoads(u)
  BY <1>1, <1>2, <1>3, ActivatedRight
<1>5. u.disabled \subseteq u.tabs
  BY <1>1, <1>4 DEF SameTabs
<1>6. QED
  BY <1>1, <1>3, <1>4, <1>5, WidgetBecomes

LEMMA AnimationEnds ==
  ASSUME NEW s \in TabWidgets, s.phase = "hiding", tabOptions \in [collapsible : BOOLEAN, animates : BOOLEAN]
  PROVE  LET u == ShowNew(s)
         IN  /\ u \in TabWidgets /\ SameTabs(u, s) /\ SameLoads(u, s) /\ SameActive(u, s)
             /\ PanelRight(s) => PanelRight(u)
<1>1. PICK u : u = ShowNew(s)
  OBVIOUS
<1>2. /\ u \in TabWidgets /\ SameTabs(u, s) /\ SameLoads(u, s) /\ SameActive(u, s)
      /\ u.phase \in {"showing", "still"}
      /\ s.shown = PanelOf(s, s.old) /\ s.marked = PanelOf(s, s.old) /\ s.new \in s.tabs \union {NoHeader}
            => u.shown = PanelOf(s, s.new) /\ u.marked = PanelOf(s, s.new)
  BY <1>1, ShowKeeps
<1>3. PanelRight(s) => PanelRight(u)
  BY <1>2 DEF PanelRight, SameTabs, SameActive, PanelOf
<1>4. QED
  BY <1>1, <1>2, <1>3

LEMMA PhaseStill ==
  ASSUME NEW s \in TabWidgets
  PROVE  LET u == [s EXCEPT !.phase = "still"]
         IN  /\ u \in TabWidgets /\ SameTabs(u, s) /\ SameLoads(u, s) /\ SameActive(u, s)
             /\ PanelRight(s) /\ s.phase # "hiding" => PanelRight(u)
<1> DEFINE u == [s EXCEPT !.phase = "still"]
<1>1. /\ u \in TabWidgets /\ u.phase = "still" /\ u.shown = s.shown /\ u.marked = s.marked
      /\ SameTabs(u, s) /\ SameLoads(u, s) /\ SameActive(u, s)
  BY DEF TabWidgets, SameTabs, SameLoads, SameActive
<1> HIDE DEF u
<1>2. PanelRight(s) /\ s.phase # "hiding" => PanelRight(u)
  BY <1>1 DEF PanelRight, PanelOf, SameTabs, SameActive
<1>3. QED
  BY <1>1, <1>2 DEF u

LEMMA PanelsStop ==
  ASSUME NEW s \in TabWidgets, tabOptions \in [collapsible : BOOLEAN, animates : BOOLEAN]
  PROVE  LET u == StopPanels(s)
         IN  /\ u \in TabWidgets /\ SameTabs(u, s) /\ SameLoads(u, s) /\ SameActive(u, s)
             /\ PanelRight(s) => PanelRight(u)
<1>1. CASE s.phase = "hiding"
  <2>1. PICK t : t = ShowNew(s)
    OBVIOUS
  <2>2. /\ t \in TabWidgets /\ SameTabs(t, s) /\ SameLoads(t, s) /\ SameActive(t, s)
        /\ PanelRight(s) => PanelRight(t)
    BY <1>1, <2>1, AnimationEnds
  <2>3. t.phase # "hiding"
    <3>1. t.phase \in {"showing", "still"}
      BY <2>1, ShowKeeps
    <3>2. QED
      BY <3>1
  <2>4. PICK r : r = [t EXCEPT !.phase = "still"]
    OBVIOUS
  <2>5. /\ r \in TabWidgets /\ SameTabs(r, t) /\ SameLoads(r, t) /\ SameActive(r, t)
        /\ PanelRight(t) => PanelRight(r)
    BY <2>2, <2>3, <2>4, PhaseStill
  <2>6. StopPanels(s) = r \/ StopPanels(s) = t
    BY <1>1, <2>1, <2>4 DEF StopPanels
  <2>7. SameTabs(r, s) /\ SameLoads(r, s) /\ SameActive(r, s)
    BY <2>2, <2>5 DEF SameTabs, SameLoads, SameActive
  <2>8. QED
    BY <2>2, <2>5, <2>6, <2>7
<1>2. CASE s.phase # "hiding"
  <2>1. StopPanels(s) = [s EXCEPT !.phase = "still"]
    BY <1>2 DEF StopPanels
  <2>2. QED
    BY <1>2, <2>1, PhaseStill
<1>3. QED
  BY <1>1, <1>2

LEMMA SameKeeps ==
  ASSUME NEW s \in TabWidgets, NEW u \in TabWidgets, SameTabs(u, s), SameLoads(u, s), SameActive(u, s)
  PROVE  /\ s.disabled \subseteq s.tabs => u.disabled \subseteq u.tabs
         /\ LoadsKnown(s) => LoadsKnown(u)
         /\ ActiveIndexed(s) => ActiveIndexed(u)
         /\ OnlyActiveLoads(s) => OnlyActiveLoads(u)
BY DEF SameTabs, SameLoads, SameActive, LoadsKnown, ActiveIndexed, OnlyActiveLoads, IndexOf

LEMMA TabEffectOver ==
  ASSUME PanelsInv, EffectOver
  PROVE  PanelsInv'
<1>1. PICK s \in TabWidgets :
          /\ s = tabsUI /\ s.disabled \subseteq s.tabs /\ LoadsKnown(s)
          /\ ~tabDisturbed => PanelRight(s) /\ ActiveIndexed(s) /\ OnlyActiveLoads(s)
  BY WidgetNow
<1>2. PICK u : u = IF s.phase = "hiding" THEN ShowNew(s) ELSE [s EXCEPT !.phase = "still"]
  OBVIOUS
<1>3. tabsUI' = u /\ tabDisturbed' = tabDisturbed /\ tabOptions' = tabOptions
  BY <1>1, <1>2 DEF EffectOver
<1>4. tabOptions \in [collapsible : BOOLEAN, animates : BOOLEAN] /\ tabDisturbed \in BOOLEAN
  BY DEF PanelsInv
<1>5. /\ u \in TabWidgets /\ SameTabs(u, s) /\ SameLoads(u, s) /\ SameActive(u, s)
      /\ PanelRight(s) => PanelRight(u)
  <2>1. CASE s.phase = "hiding"
    BY <1>2, <1>4, <2>1, AnimationEnds
  <2>2. CASE s.phase # "hiding"
    BY <1>2, <2>2, PhaseStill
  <2>3. QED
    BY <2>1, <2>2
<1>6. QED
  BY <1>1, <1>3, <1>4, <1>5, SameKeeps, WidgetBecomes

LEMMA TabAnswered ==
  ASSUME PanelsInv, NEW q \in tabsUI.calls, NEW status \in {"success", "error"}, PanelAnswered(q, status)
  PROVE  PanelsInv'
<1>1. PICK s \in TabWidgets :
          /\ s = tabsUI /\ s.disabled \subseteq s.tabs /\ LoadsKnown(s)
          /\ ~tabDisturbed => PanelRight(s) /\ ActiveIndexed(s) /\ OnlyActiveLoads(s)
  BY WidgetNow
<1> DEFINE a == [q EXCEPT !.status = status]
           cs == (s.calls \ {q}) \union {a}
           u == [s EXCEPT !.calls = cs]
<1>2. tabsUI' = u /\ tabDisturbed' = tabDisturbed /\ tabOptions' = tabOptions
  BY <1>1 DEF PanelAnswered
<1>3. q \in s.calls /\ q \in TabCalls
  BY <1>1 DEF TabWidgets
<1>4. a \in TabCalls /\ a.no = q.no /\ a.tab = q.tab /\ a.status # "pending"
  BY <1>3 DEF TabCalls
<1>5. cs \in SUBSET TabCalls
  BY <1>3, <1>4 DEF TabWidgets
<1> HIDE DEF a
<1>6. /\ \A x \in cs : \E y \in s.calls : x.no = y.no /\ x.tab = y.tab /\ (x.status = "pending" => x = y)
      /\ \A y \in s.calls : \E x \in cs : x.tab = y.tab
  BY <1>3, <1>4
<1>7. \A x, y \in cs : x.tab = y.tab \/ x.no = y.no => x = y
  <2>1. SUFFICES ASSUME NEW x \in cs, NEW y \in cs, x.tab = y.tab \/ x.no = y.no PROVE x = y
    OBVIOUS
  <2>2. \A v, w \in s.calls : v.tab = w.tab \/ v.no = w.no => v = w
    BY <1>1 DEF LoadsKnown
  <2>3. QED
    BY <1>3, <1>4, <2>1, <2>2
<1>8. s.loading = {x.tab : x \in cs}
  BY <1>1, <1>6 DEF LoadsKnown
<1> HIDE DEF cs
<1>9. /\ u \in TabWidgets /\ u.calls = cs /\ u.loading = s.loading /\ u.xhr = s.xhr /\ u.made = s.made
      /\ SameTabs(u, s) /\ SameActive(u, s) /\ u.phase = s.phase /\ u.shown = s.shown
      /\ u.marked = s.marked /\ u.old = s.old /\ u.new = s.new
  BY <1>5 DEF TabWidgets, SameTabs, SameActive
<1> HIDE DEF u
<1>10. LoadsKnown(u)
  <2>1. \A y \in s.calls : y.no <= s.made /\ (y.status = "pending" => y.no = s.xhr)
    BY <1>1 DEF LoadsKnown
  <2>2. ASSUME NEW x \in cs PROVE x.no <= s.made /\ (x.status = "pending" => x.no = s.xhr)
    <3>1. PICK y \in s.calls : x.no = y.no /\ x.tab = y.tab /\ (x.status = "pending" => x = y)
      BY <1>6
    <3>2. QED
      BY <2>1, <3>1
  <2>3. QED
    BY <1>7, <1>8, <1>9, <2>2 DEF LoadsKnown
<1>11. OnlyActiveLoads(s) => OnlyActiveLoads(u)
  <2>1. SUFFICES ASSUME OnlyActiveLoads(s), NEW x \in cs, x.status = "pending" PROVE x.tab = s.active
    BY <1>9 DEF OnlyActiveLoads, SameActive
  <2>2. PICK y \in s.calls : x.no = y.no /\ x.tab = y.tab /\ (x.status = "pending" => x = y)
    BY <1>6
  <2>3. QED
    BY <2>1, <2>2 DEF OnlyActiveLoads
<1>12. PanelRight(s) => PanelRight(u)
  BY <1>9 DEF PanelRight, PanelOf, SameTabs, SameActive
<1>13. ActiveIndexed(s) => ActiveIndexed(u)
  BY <1>9 DEF ActiveIndexed, IndexOf, SameTabs, SameActive
<1>14. tabOptions \in [collapsible : BOOLEAN, animates : BOOLEAN] /\ tabDisturbed \in BOOLEAN
  BY DEF PanelsInv
<1>15. u.disabled \subseteq u.tabs
  BY <1>1, <1>9 DEF SameTabs
<1>16. QED
  BY <1>1, <1>2, <1>9, <1>10, <1>11, <1>12, <1>13, <1>14, <1>15, WidgetBecomes

LEMMA TabTimerKeeps ==
  ASSUME PanelsInv, NEW q \in tabsUI.calls, PanelTimer(q)
  PROVE  PanelsInv'
<1>1. PICK s \in TabWidgets :
          /\ s = tabsUI /\ s.disabled \subseteq s.tabs /\ LoadsKnown(s)
          /\ ~tabDisturbed => PanelRight(s) /\ ActiveIndexed(s) /\ OnlyActiveLoads(s)
  BY WidgetNow
<1>2. PICK t : t = IF q.status = "abort" THEN StopPanels(s) ELSE s
  OBVIOUS
<1>3. tabOptions \in [collapsible : BOOLEAN, animates : BOOLEAN] /\ tabDisturbed \in BOOLEAN
  BY DEF PanelsInv
<1>4. /\ t \in TabWidgets /\ SameTabs(t, s) /\ SameLoads(t, s) /\ SameActive(t, s)
      /\ PanelRight(s) => PanelRight(t)
  <2>1. CASE q.status = "abort"
    BY <1>2, <1>3, <2>1, PanelsStop
  <2>2. CASE q.status # "abort"
    BY <1>2, <2>2 DEF SameTabs, SameLoads, SameActive
  <2>3. QED
    BY <2>1, <2>2
<1>5. /\ t.disabled \subseteq t.tabs /\ LoadsKnown(t)
      /\ ActiveIndexed(s) => ActiveIndexed(t)
      /\ OnlyActiveLoads(s) => OnlyActiveLoads(t)
  BY <1>1, <1>4, SameKeeps
<1> DEFINE cs == t.calls \ {q}
           ls == t.loading \ {q.tab}
           xhr == IF t.xhr = q.no THEN 0 ELSE t.xhr
           u == [t EXCEPT !.calls = cs, !.loading = ls, !.xhr = xhr]
<1>6. /\ tabsUI' = u /\ tabDisturbed' = tabDisturbed /\ tabOptions' = tabOptions
      /\ q.status # "pending"
  BY <1>1, <1>2 DEF PanelTimer
<1>7. q \in t.calls /\ cs \in SUBSET TabCalls /\ ls \in SUBSET (1..MaxTabs) /\ xhr \in Nat
  BY <1>1, <1>4 DEF SameLoads, TabWidgets
<1>8. ls = {x.tab : x \in cs}
  BY <1>5, <1>7 DEF LoadsKnown
<1>9. \A x \in cs : x \in t.calls /\ (x.status = "pending" => x.no = xhr)
  <2>1. SUFFICES ASSUME NEW x \in cs, x.status = "pending" PROVE x.no = xhr
    OBVIOUS
  <2>2. x \in t.calls /\ x.no = t.xhr
    BY <2>1, <1>5 DEF LoadsKnown
  <2>3. x.no # q.no
    BY <1>5, <1>7, <2>2 DEF LoadsKnown
  <2>4. QED
    BY <2>2, <2>3
<1> HIDE DEF cs, ls, xhr
<1>10. /\ u \in TabWidgets /\ u.calls = cs /\ u.loading = ls /\ u.xhr = xhr /\ u.made = t.made
       /\ SameTabs(u, t) /\ SameActive(u, t) /\ u.phase = t.phase /\ u.shown = t.shown
       /\ u.marked = t.marked /\ u.old = t.old /\ u.new = t.new
  BY <1>4, <1>7 DEF TabWidgets, SameTabs, SameActive
<1> HIDE DEF u
<1>11. LoadsKnown(u)
  BY <1>5, <1>8, <1>9, <1>10 DEF LoadsKnown
<1>12. OnlyActiveLoads(t) => OnlyActiveLoads(u)
  BY <1>9, <1>10 DEF OnlyActiveLoads, SameActive
<1>13. PanelRight(t) => PanelRight(u)
  BY <1>10 DEF PanelRight, PanelOf, SameTabs, SameActive
<1>14. ActiveIndexed(t) => ActiveIndexed(u)
  BY <1>10 DEF ActiveIndexed, IndexOf, SameTabs, SameActive
<1>15. u.disabled \subseteq u.tabs
  BY <1>5, <1>10 DEF SameTabs
<1>16. QED
  BY <1>1, <1>3, <1>4, <1>5, <1>6, <1>10, <1>11, <1>12, <1>13, <1>14, <1>15, WidgetBecomes

LEMMA DisabledKeeps ==
  ASSUME PanelsInv, NEW d \in SUBSET tabsUI.tabs, tabsUI' = [tabsUI EXCEPT !.disabled = d],
         tabOptions' = tabOptions, tabDisturbed' = tabDisturbed
  PROVE  PanelsInv'
<1>1. PICK s \in TabWidgets :
          /\ s = tabsUI /\ s.disabled \subseteq s.tabs /\ LoadsKnown(s)
          /\ ~tabDisturbed => PanelRight(s) /\ ActiveIndexed(s) /\ OnlyActiveLoads(s)
  BY WidgetNow
<1>2. PICK u : u = [s EXCEPT !.disabled = d]
  OBVIOUS
<1>3. tabsUI' = u
  BY <1>1, <1>2
<1>4. /\ u \in TabWidgets /\ u.disabled = d /\ u.tabs = s.tabs /\ SameActive(u, s) /\ SameLoads(u, s)
      /\ u.phase = s.phase /\ u.shown = s.shown /\ u.marked = s.marked /\ u.old = s.old /\ u.new = s.new
  BY <1>1, <1>2 DEF TabWidgets, SameActive, SameLoads
<1>5. LoadsKnown(u) /\ (OnlyActiveLoads(s) => OnlyActiveLoads(u))
  BY <1>1, <1>4 DEF LoadsKnown, OnlyActiveLoads, SameLoads, SameActive
<1>6. (PanelRight(s) => PanelRight(u)) /\ (ActiveIndexed(s) => ActiveIndexed(u))
  BY <1>4 DEF PanelRight, PanelOf, ActiveIndexed, IndexOf, SameActive
<1>7. tabOptions \in [collapsible : BOOLEAN, animates : BOOLEAN] /\ tabDisturbed \in BOOLEAN
  BY DEF PanelsInv
<1>8. u.disabled \subseteq u.tabs
  BY <1>1, <1>4
<1>9. QED
  BY <1>1, <1>3, <1>4, <1>5, <1>6, <1>7, <1>8, WidgetBecomes

LEMMA CollapsibleSet ==
  ASSUME PanelsInv, NEW b \in BOOLEAN, SetCollapsible(b)
  PROVE  PanelsInv'
<1>1. tabOptions \in [collapsible : BOOLEAN, animates : BOOLEAN]
  BY DEF PanelsInv
<1>2. tabOptions' \in [collapsible : BOOLEAN, animates : BOOLEAN] /\ tabDisturbed' = tabDisturbed
  BY <1>1 DEF SetCollapsible
<1>3. tabsUI' = Activated(tabsUI, 0) \/ tabsUI' = tabsUI
  BY DEF SetCollapsible
<1>4. CASE tabsUI' = Activated(tabsUI, 0)
  BY <1>2, <1>4, IndexActivatedKeeps
<1>5. CASE tabsUI' = tabsUI
  BY <1>2, <1>5, WidgetNow, WidgetBecomes DEF PanelsInv
<1>6. QED
  BY <1>3, <1>4, <1>5

LEMMA TabsDestroyed ==
  ASSUME PanelsInv, DestroyTabs
  PROVE  PanelsInv'
<1>1. PICK s \in TabWidgets : s = tabsUI /\ s.disabled \subseteq s.tabs /\ LoadsKnown(s)
  BY WidgetNow
<1>2. PICK t : t = AbortLoad(s)
  OBVIOUS
<1>3. t \in TabWidgets /\ LoadsKnown(t) /\ t = [s EXCEPT !.calls = t.calls]
  BY <1>1, <1>2, AbortKeeps
<1> DEFINE no == FALSE
           u == [t EXCEPT !.live = no, !.shown = s.tabs, !.marked = {}]
<1>4. tabsUI' = u /\ tabDisturbed' = TRUE /\ tabOptions' = tabOptions
  BY <1>1, <1>2 DEF DestroyTabs
<1>5. no \in BOOLEAN /\ s.tabs \in SUBSET (1..MaxTabs)
  BY DEF TabWidgets
<1>6. t.disabled \subseteq t.tabs
  BY <1>1, <1>3 DEF TabWidgets
<1> HIDE DEF no
<1>7. u \in TabWidgets /\ u.disabled = t.disabled /\ u.tabs = t.tabs /\ SameLoads(u, t)
  BY <1>3, <1>5 DEF TabWidgets, SameLoads
<1> HIDE DEF u
<1>8. LoadsKnown(u)
  BY <1>3, <1>7 DEF LoadsKnown, SameLoads
<1>9. tabOptions \in [collapsible : BOOLEAN, animates : BOOLEAN]
  BY DEF PanelsInv
<1>10. QED
  BY <1>4, <1>6, <1>7, <1>8, <1>9, WidgetBecomes

\* refresh() shows the panel of the active header.
LEMMA RedrawnRight ==
  ASSUME NEW s \in TabWidgets
  PROVE  LET u == PanelsRedrawn(s)
         IN  /\ u \in TabWidgets /\ SameTabs(u, s) /\ SameLoads(u, s) /\ SameActive(u, s)
             /\ s.phase # "hiding" /\ s.marked \subseteq PanelOf(s, s.active) /\ s.active \in s.tabs \union {NoHeader}
                   => PanelRight(u)
<1> DEFINE sh == PanelOf(s, s.active)
           mk == s.marked \union ({s.active} \ {NoHeader})
           u == [s EXCEPT !.shown = sh, !.marked = mk]
<1>1. PanelsRedrawn(s) = u
  BY DEF PanelsRedrawn, TabWidgets
<1>2. s.tabs \subseteq 1..MaxTabs /\ s.active \in 0..MaxTabs /\ s.marked \subseteq 1..MaxTabs
  BY DEF TabWidgets
<1>3. sh \in SUBSET (1..MaxTabs) /\ mk \in SUBSET (1..MaxTabs)
  BY <1>2, TabsUIAssumption DEF PanelOf, NoHeader
<1>4. s.marked \subseteq PanelOf(s, s.active) /\ s.active \in s.tabs \union {NoHeader} => mk = PanelOf(s, s.active)
  BY <1>2 DEF PanelOf, NoHeader
<1> HIDE DEF mk
<1>5. /\ u \in TabWidgets /\ u.shown = sh /\ u.marked = mk /\ u.phase = s.phase
      /\ SameTabs(u, s) /\ SameLoads(u, s) /\ SameActive(u, s)
  BY <1>3 DEF TabWidgets, SameTabs, SameLoads, SameActive
<1> HIDE DEF u
<1>6. PanelOf(u, u.active) = PanelOf(s, s.active)
  BY <1>5 DEF PanelOf, SameTabs, SameActive
<1>7. QED
  BY <1>1, <1>4, <1>5, <1>6 DEF PanelRight

\* What is left when a header and its panel are gone.
WithoutTab(s, t) ==
    [s EXCEPT !.tabs = @ \ {t}, !.disabled = @ \ {t}, !.shown = @ \ {t}, !.marked = @ \ {t}]

LEMMA WithoutKeeps ==
  ASSUME NEW s \in TabWidgets, NEW t \in s.tabs, s.disabled \subseteq s.tabs
  PROVE  LET u == WithoutTab(s, t)
         IN  /\ u \in TabWidgets /\ SameLoads(u, s) /\ SameActive(u, s) /\ u.phase = s.phase /\ u.live = s.live
             /\ u.tabs = s.tabs \ {t} /\ u.disabled = s.disabled \ {t} /\ u.disabled \subseteq u.tabs
             /\ u.shown = s.shown \ {t} /\ u.marked = s.marked \ {t}
             /\ Cardinality(u.tabs) = Cardinality(s.tabs) - 1
<1> DEFINE tb == s.tabs \ {t}
           db == s.disabled \ {t}
           sh == s.shown \ {t}
           mk == s.marked \ {t}
           u == [s EXCEPT !.tabs = tb, !.disabled = db, !.shown = sh, !.marked = mk]
<1>1. WithoutTab(s, t) = u
  BY DEF WithoutTab, TabWidgets
<1>2. tb \in SUBSET (1..MaxTabs) /\ db \in SUBSET (1..MaxTabs) /\ sh \in SUBSET (1..MaxTabs) /\ mk \in SUBSET (1..MaxTabs)
  BY DEF TabWidgets
<1>3. db \subseteq tb
  OBVIOUS
<1>4. Cardinality(tb) = Cardinality(s.tabs) - 1
  BY TabPlaces, FS_RemoveElement
<1> HIDE DEF tb, db, sh, mk
<1>5. /\ u \in TabWidgets /\ SameLoads(u, s) /\ SameActive(u, s) /\ u.phase = s.phase /\ u.live = s.live
      /\ u.tabs = tb /\ u.disabled = db /\ u.shown = sh /\ u.marked = mk
  BY <1>2 DEF TabWidgets, SameLoads, SameActive
<1> HIDE DEF u
<1>6. QED
  BY <1>1, <1>3, <1>4, <1>5 DEF tb, db, sh, mk

\* The widget is at rest, and what is shown is right.
Calm(s) ==
    /\ s.phase = "still" /\ s.loading = {}
    /\ PanelRight(s) /\ ActiveIndexed(s)

\* What refresh() redraws is right.
PanelsDrawn(u) ==
    /\ u.phase # "hiding" /\ u.marked \subseteq PanelOf(u, u.active)
    /\ ActiveIndexed(u) /\ OnlyActiveLoads(u)

\* What refresh() makes of the option "active" when its header is gone, or not.
ActiveAfter(left, back) ==
    LET none == [left EXCEPT !.active = NoHeader, !.index = Collapsed]
    IN  IF left.active = NoHeader \/ left.tabs = {} THEN none
        ELSE IF left.active \in left.tabs THEN [left EXCEPT !.index = IndexOf(left, left.active)]
        ELSE IF left.tabs = left.disabled THEN none
        ELSE Activated(left, NextIndex(left, back, FALSE))

LEMMA NoneLeft ==
  ASSUME NEW s \in TabWidgets, NEW t \in s.tabs, s.disabled \subseteq s.tabs, LoadsKnown(s)
  PROVE  LET left == WithoutTab(s, t)
             u == [left EXCEPT !.active = NoHeader, !.index = Collapsed]
         IN  /\ u \in TabWidgets /\ LoadsKnown(u) /\ SameTabs(u, left)
             /\ Calm(s) /\ (s.active = NoHeader \/ left.tabs = {} \/ s.active \notin left.tabs) => PanelsDrawn(u)
<1>1. PICK left : left = WithoutTab(s, t)
  OBVIOUS
<1>2. /\ left \in TabWidgets /\ SameLoads(left, s) /\ SameActive(left, s) /\ left.phase = s.phase
      /\ left.tabs = s.tabs \ {t} /\ left.marked = s.marked \ {t}
  BY <1>1, WithoutKeeps
<1> DEFINE u == [left EXCEPT !.active = NoHeader, !.index = Collapsed]
<1>3. /\ u \in TabWidgets /\ SameLoads(u, left) /\ SameTabs(u, left) /\ u.active = NoHeader /\ u.index = Collapsed
      /\ u.phase = left.phase /\ u.marked = left.marked
  <2>1. NoHeader \in 0..MaxTabs /\ Collapsed \in Int
    BY TabsUIAssumption DEF NoHeader, Collapsed
  <2>2. QED
    BY <1>2, <2>1 DEF TabWidgets, SameLoads, SameTabs
<1> HIDE DEF u
<1>4. LoadsKnown(u)
  BY <1>2, <1>3 DEF LoadsKnown, SameLoads
<1>5. ASSUME Calm(s), s.active = NoHeader \/ left.tabs = {} \/ s.active \notin left.tabs PROVE PanelsDrawn(u)
  <2>1. s.marked = PanelOf(s, s.active) /\ s.active \in s.tabs \union {NoHeader} /\ s.loading = {} /\ s.phase = "still"
    BY <1>5 DEF Calm, PanelRight, ActiveIndexed
  <2>2. left.marked = {}
    <3>1. CASE s.active = NoHeader
      BY <1>2, <2>1, <3>1, TabPlaces DEF PanelOf
    <3>2. CASE s.active # NoHeader
      BY <1>2, <1>5, <2>1, <3>2 DEF PanelOf
    <3>3. QED
      BY <3>1, <3>2
  <2>3. ActiveIndexed(u)
    BY <1>3 DEF ActiveIndexed
  <2>4. s.calls = {}
    BY <2>1 DEF LoadsKnown
  <2>5. OnlyActiveLoads(u)
    BY <1>2, <1>3, <2>4 DEF OnlyActiveLoads, SameLoads
  <2>6. QED
    BY <1>2, <1>3, <2>1, <2>2, <2>3, <2>5 DEF PanelsDrawn
<1>6. QED
  BY <1>1, <1>3, <1>4, <1>5 DEF u

LEMMA ActiveStays ==
  ASSUME NEW s \in TabWidgets, NEW t \in s.tabs, s.disabled \subseteq s.tabs, LoadsKnown(s),
         s.active \in WithoutTab(s, t).tabs
  PROVE  LET left == WithoutTab(s, t)
             u == [left EXCEPT !.index = IndexOf(left, left.active)]
         IN  /\ u \in TabWidgets /\ LoadsKnown(u) /\ SameTabs(u, left)
             /\ Calm(s) => PanelsDrawn(u)
<1>1. PICK left : left = WithoutTab(s, t)
  OBVIOUS
<1>2. /\ left \in TabWidgets /\ SameLoads(left, s) /\ SameActive(left, s) /\ left.phase = s.phase
      /\ left.tabs = s.tabs \ {t} /\ left.marked = s.marked \ {t}
  BY <1>1, WithoutKeeps
<1> DEFINE at == IndexOf(left, left.active)
           u == [left EXCEPT !.index = at]
<1>3. at \in Int /\ left.active \in left.tabs /\ left.active # NoHeader
  <2>1. left.active \in left.tabs
    BY <1>1, <1>2 DEF SameActive
  <2>2. QED
    BY <1>2, <2>1, TabPlaces
<1> HIDE DEF at
<1>4. /\ u \in TabWidgets /\ SameLoads(u, left) /\ SameTabs(u, left) /\ u.active = left.active /\ u.index = at
      /\ u.phase = left.phase /\ u.marked = left.marked
  BY <1>2, <1>3 DEF TabWidgets, SameLoads, SameTabs
<1> HIDE DEF u
<1>5. LoadsKnown(u)
  BY <1>2, <1>4 DEF LoadsKnown, SameLoads
<1>6. ASSUME Calm(s) PROVE PanelsDrawn(u)
  <2>1. s.marked = PanelOf(s, s.active) /\ s.loading = {} /\ s.phase = "still"
    BY <1>6 DEF Calm, PanelRight
  <2>2. left.marked \subseteq PanelOf(u, u.active)
    BY <1>2, <1>3, <1>4, <2>1 DEF PanelOf, SameTabs, SameActive
  <2>3. IndexOf(u, u.active) = at
    BY <1>4 DEF at, IndexOf, SameTabs
  <2>4. ActiveIndexed(u)
    BY <1>3, <1>4, <2>3 DEF ActiveIndexed, SameTabs
  <2>5. s.calls = {}
    BY <2>1 DEF LoadsKnown
  <2>6. OnlyActiveLoads(u)
    BY <1>2, <1>4, <2>5 DEF OnlyActiveLoads, SameLoads
  <2>7. QED
    BY <1>2, <1>4, <2>1, <2>2, <2>4, <2>6 DEF PanelsDrawn
<1>7. QED
  BY <1>1, <1>4, <1>5, <1>6 DEF u, at
\* Another header takes the place of the active one: the next that is not
\* disabled, from the one before.
LEMMA NextTakes ==
  ASSUME NEW s \in TabWidgets, NEW t \in s.tabs, s.disabled \subseteq s.tabs, LoadsKnown(s),
         tabOptions \in [collapsible : BOOLEAN, animates : BOOLEAN],
         WithoutTab(s, t).tabs # {}, s.active \notin WithoutTab(s, t).tabs, s.active # NoHeader,
         WithoutTab(s, t).tabs # WithoutTab(s, t).disabled,
         NEW back, back = IF s.index > 0 THEN s.index - 1 ELSE 0
  PROVE  LET left == WithoutTab(s, t)
             u == Activated(left, NextIndex(left, back, FALSE))
         IN  /\ u \in TabWidgets /\ LoadsKnown(u) /\ SameTabs(u, left)
             /\ Calm(s) => PanelsDrawn(u)
<1>1. PICK left : left = WithoutTab(s, t)
  OBVIOUS
<1>2. /\ left \in TabWidgets /\ SameLoads(left, s) /\ SameActive(left, s) /\ left.phase = s.phase
      /\ left.tabs = s.tabs \ {t} /\ left.disabled \subseteq left.tabs
      /\ left.shown = s.shown \ {t} /\ left.marked = s.marked \ {t}
      /\ Cardinality(left.tabs) = Cardinality(s.tabs) - 1
  BY <1>1, WithoutKeeps
<1>3. LoadsKnown(left)
  BY <1>2 DEF LoadsKnown, SameLoads
<1>4. PICK i : i = NextIndex(left, back, FALSE)
  OBVIOUS
<1>5. PICK u : u = Activated(left, i)
  OBVIOUS
<1>6. u \in TabWidgets /\ LoadsKnown(u) /\ SameTabs(u, left)
  BY <1>2, <1>3, <1>5, ActivatedRight
<1>7. ASSUME Calm(s) PROVE PanelsDrawn(u)
  <2>1. /\ s.phase = "still" /\ s.loading = {} /\ s.shown = PanelOf(s, s.active) /\ s.marked = PanelOf(s, s.active)
        /\ s.active \in s.tabs /\ s.index = IndexOf(s, s.active)
    BY <1>7 DEF Calm, PanelRight, ActiveIndexed
  <2>2. s.active = t
    BY <1>1, <1>2, <2>1
  <2>3. back \in 0..LastIndex(left)
    <3>1. s.index \in 0..LastIndex(s)
      BY <2>1, TabPlaces
    <3>2. Cardinality(s.tabs) \in Nat /\ IsFiniteSet(left.tabs)
      BY <1>2, TabPlaces
    <3>3. Cardinality(left.tabs) \in Nat /\ Cardinality(left.tabs) # 0
      BY <1>1, <1>2, <3>2, TabPlaces, FS_EmptySet
    <3>4. QED
      BY <1>2, <3>1, <3>2, <3>3 DEF LastIndex
  <2>4. i \in 0..LastIndex(left) /\ HeaderAt(left, i) \notin left.disabled
    <3>1. left.tabs # {} /\ left.disabled # left.tabs
      BY <1>1
    <3>2. back \in Int /\ back >= -1
      BY <1>2, <2>3 DEF LastIndex
    <3>. QED
      BY <1>2, <1>4, <3>1, <3>2, NextFound
  <2>5. PICK h : h = HeaderAt(left, i)
    OBVIOUS
  <2>6. h \in left.tabs /\ h \notin left.disabled
    BY <1>2, <2>4, <2>5, TabPlaces
  <2>7. h # left.active /\ h # NoHeader /\ h \in 1..MaxTabs
    <3>1. left.active \notin left.tabs /\ NoHeader \notin left.tabs
      BY <1>1, <1>2, TabPlaces DEF SameActive
    <3>2. QED
      BY <1>2, <2>6, <3>1 DEF TabWidgets
  <2>8. u = Handled(left, h)
    BY <1>5, <2>4, <2>5, <2>7 DEF Activated
  <2>9. ~Ignores(left, h)
    BY <1>2, <2>1, <2>6, <2>7 DEF Ignores, SameLoads
  <2>10. PanelOf(left, left.active) = {}
    BY <1>2, <2>2 DEF PanelOf, SameActive
  <2>11. left.shown = {} /\ left.marked = {}
    BY <1>2, <2>1, <2>2 DEF PanelOf
  <2>12. PanelRight(left)
    BY <1>2, <2>1, <2>10, <2>11 DEF PanelRight
  <2>13. OnlyActiveLoads(u) /\ ActiveIndexed(u) /\ PanelRight(u) /\ u.phase # "hiding"
    BY <1>2, <1>3, <2>6, <2>7, <2>8, <2>9, <2>10, <2>12, HandledKeeps
  <2>14. QED
    BY <2>13 DEF PanelsDrawn, PanelRight
<1>8. QED
  BY <1>1, <1>4, <1>5, <1>6, <1>7

LEMMA TabsRefreshed ==
  ASSUME NEW s \in TabWidgets, NEW t \in s.tabs, s.disabled \subseteq s.tabs, LoadsKnown(s),
         tabOptions \in [collapsible : BOOLEAN, animates : BOOLEAN],
         NEW back, back = IF s.index > 0 THEN s.index - 1 ELSE 0
  PROVE  LET left == WithoutTab(s, t)
             u == ActiveAfter(left, back)
         IN  /\ u \in TabWidgets /\ LoadsKnown(u) /\ SameTabs(u, left)
             /\ Calm(s) => PanelsDrawn(u)
<1>1. PICK left : left = WithoutTab(s, t)
  OBVIOUS
<1>2. left.active = s.active
  BY <1>1, WithoutKeeps DEF SameActive
<1>3. PICK none : none = [left EXCEPT !.active = NoHeader, !.index = Collapsed]
  OBVIOUS
<1>4. PICK u : u = ActiveAfter(left, back)
  OBVIOUS
<1>5. /\ none \in TabWidgets /\ LoadsKnown(none) /\ SameTabs(none, left)
      /\ Calm(s) /\ (s.active = NoHeader \/ left.tabs = {} \/ s.active \notin left.tabs) => PanelsDrawn(none)
  BY <1>1, <1>3, NoneLeft
<1>6. CASE left.active = NoHeader \/ left.tabs = {}
  <2>1. u = none
    BY <1>3, <1>4, <1>6 DEF ActiveAfter
  <2>2. QED
    BY <1>1, <1>2, <1>4, <1>5, <1>6, <2>1
<1>7. CASE ~(left.active = NoHeader \/ left.tabs = {}) /\ left.active \in left.tabs
  <2>1. u = [left EXCEPT !.index = IndexOf(left, left.active)]
    BY <1>4, <1>7 DEF ActiveAfter
  <2>2. u \in TabWidgets /\ LoadsKnown(u) /\ SameTabs(u, left) /\ (Calm(s) => PanelsDrawn(u))
    BY <1>1, <1>2, <1>7, <2>1, ActiveStays
  <2>3. QED
    BY <1>1, <1>4, <2>2
<1>8. CASE ~(left.active = NoHeader \/ left.tabs = {}) /\ left.active \notin left.tabs /\ left.tabs = left.disabled
  <2>1. u = none
    BY <1>3, <1>4, <1>8 DEF ActiveAfter
  <2>2. QED
    BY <1>1, <1>2, <1>4, <1>5, <1>8, <2>1
<1>9. CASE ~(left.active = NoHeader \/ left.tabs = {}) /\ left.active \notin left.tabs /\ left.tabs # left.disabled
  <2>1. u = Activated(left, NextIndex(left, back, FALSE))
    BY <1>4, <1>9 DEF ActiveAfter
  <2>2. u \in TabWidgets /\ LoadsKnown(u) /\ SameTabs(u, left) /\ (Calm(s) => PanelsDrawn(u))
    <3>1. left.tabs # {} /\ s.active \notin left.tabs /\ s.active # NoHeader /\ left.tabs # left.disabled
      BY <1>2, <1>9
    <3>2. QED
      BY <1>1, <2>1, <3>1, NextTakes
  <2>3. QED
    BY <1>1, <1>4, <2>2
<1>10. QED
  BY <1>6, <1>7, <1>8, <1>9

LEMMA TabRemoved ==
  ASSUME PanelsInv, NEW t \in 1..MaxTabs, RemoveTab(t)
  PROVE  PanelsInv'
<1>1. PICK s \in TabWidgets :
          /\ s = tabsUI /\ s.disabled \subseteq s.tabs /\ LoadsKnown(s)
          /\ ~tabDisturbed => PanelRight(s) /\ ActiveIndexed(s) /\ OnlyActiveLoads(s)
  BY WidgetNow
<1>2. PICK back : back = IF s.index > 0 THEN s.index - 1 ELSE 0
  OBVIOUS
<1>3. PICK left : left = WithoutTab(s, t)
  OBVIOUS
<1>4. PICK u : u = ActiveAfter(left, back)
  OBVIOUS
<1>5. PICK w : w = PanelsRedrawn(u)
  OBVIOUS
<1>6. t \in s.tabs /\ tabOptions' = tabOptions
      /\ tabDisturbed' = (tabDisturbed \/ s.phase # "still" \/ s.loading # {})
  BY <1>1 DEF RemoveTab
<1>7. tabsUI' = w
  BY <1>1, <1>2, <1>3, <1>4, <1>5 DEF RemoveTab, Becomes, ActiveAfter, WithoutTab
<1>8. tabOptions \in [collapsible : BOOLEAN, animates : BOOLEAN] /\ tabDisturbed \in BOOLEAN
  BY DEF PanelsInv
<1>9. u \in TabWidgets /\ LoadsKnown(u) /\ SameTabs(u, left) /\ (Calm(s) => PanelsDrawn(u))
  BY <1>1, <1>2, <1>3, <1>4, <1>6, <1>8, TabsRefreshed
<1>10. left.disabled \subseteq left.tabs
  BY <1>1, <1>3, <1>6, WithoutKeeps
<1>11. u.disabled \subseteq u.tabs
  BY <1>9, <1>10 DEF SameTabs
<1>12. /\ w \in TabWidgets /\ SameTabs(w, u) /\ SameLoads(w, u) /\ SameActive(w, u)
       /\ u.phase # "hiding" /\ u.marked \subseteq PanelOf(u, u.active) /\ u.active \in u.tabs \union {NoHeader}
             => PanelRight(w)
  BY <1>5, <1>9, RedrawnRight
<1>13. /\ w.disabled \subseteq w.tabs /\ LoadsKnown(w)
       /\ ActiveIndexed(u) => ActiveIndexed(w)
       /\ OnlyActiveLoads(u) => OnlyActiveLoads(w)
  BY <1>9, <1>11, <1>12, SameKeeps
<1>14. ASSUME ~tabDisturbed' PROVE PanelRight(w) /\ ActiveIndexed(w) /\ OnlyActiveLoads(w)
  <2>1. Calm(s)
    BY <1>1, <1>6, <1>14 DEF Calm
  <2>2. PanelsDrawn(u)
    BY <1>9, <2>1
  <2>3. QED
    BY <1>12, <1>13, <2>2 DEF PanelsDrawn, ActiveIndexed
<1>15. tabDisturbed' \in BOOLEAN
  BY <1>6, <1>8
<1>16. QED
  BY <1>6, <1>7, <1>8, <1>12, <1>13, <1>14, <1>15, WidgetBecomes

LEMMA TabsStep ==
  ASSUME PanelsInv, TabsUINext \/ UNCHANGED tabUIVars
  PROVE  PanelsInv'
<1>1. tabOptions \in [collapsible : BOOLEAN, animates : BOOLEAN] /\ tabDisturbed \in BOOLEAN
  BY DEF PanelsInv
<1>2. CASE UseEffects
  <2>1. /\ tabsUI' = tabsUI /\ tabDisturbed' = tabDisturbed
        /\ tabOptions' \in [collapsible : BOOLEAN, animates : BOOLEAN]
    BY <1>1, <1>2 DEF UseEffects
  <2>2. QED
    BY <2>1, WidgetNow, WidgetBecomes, <1>1
<1>3. CASE EffectOver
  BY <1>3, TabEffectOver
<1>4. CASE ActivatingEnds
  BY <1>1, <1>4, IndexActivatedKeeps DEF ActivatingEnds, Becomes
<1>5. CASE DestroyTabs
  BY <1>5, TabsDestroyed
<1>6. ASSUME NEW t \in 1..MaxTabs, ClickHeader(t) \/ RemoveTab(t) \/ EnableTab(t) \/ DisableTab(t)
      PROVE  PanelsInv'
  <2>1. CASE ClickHeader(t)
    BY <2>1, HeaderClicked
  <2>2. CASE RemoveTab(t)
    BY <2>2, TabRemoved
  <2>3. CASE EnableTab(t)
    <3>1. tabsUI.disabled \ {t} \in SUBSET tabsUI.tabs
      BY DEF PanelsInv
    <3>2. /\ tabsUI' = [tabsUI EXCEPT !.disabled = tabsUI.disabled \ {t}]
          /\ tabOptions' = tabOptions /\ tabDisturbed' = tabDisturbed
      BY <2>3 DEF EnableTab
    <3>3. QED
      BY <3>1, <3>2, DisabledKeeps
  <2>4. CASE DisableTab(t)
    <3>1. tabsUI.disabled \union {t} \in SUBSET tabsUI.tabs
      BY <2>4 DEF PanelsInv, DisableTab
    <3>2. /\ tabsUI' = [tabsUI EXCEPT !.disabled = tabsUI.disabled \union {t}]
          /\ tabOptions' = tabOptions /\ tabDisturbed' = tabDisturbed
      BY <2>4 DEF DisableTab
    <3>3. QED
      BY <3>1, <3>2, DisabledKeeps
  <2>5. QED
    BY <1>6, <2>1, <2>2, <2>3, <2>4
<1>7. ASSUME NEW b \in BOOLEAN, NEW ctrl \in BOOLEAN, ArrowKey(b, ctrl)
      PROVE  PanelsInv'
  <2>1. tabsUI' = tabsUI /\ tabDisturbed' = tabDisturbed /\ tabOptions' = tabOptions
    BY <1>7 DEF ArrowKey
  <2>2. QED
    BY <2>1, WidgetNow, WidgetBecomes, <1>1
<1>8. ASSUME NEW b \in BOOLEAN, SpaceOrEnter(b) \/ PageKey(b)
      PROVE  PanelsInv'
  <2>1. tabDisturbed' = tabDisturbed /\ tabOptions' = tabOptions
    BY <1>8 DEF SpaceOrEnter, PageKey
  <2>2. \E i : tabsUI' = Activated(tabsUI, i)
    BY <1>8 DEF SpaceOrEnter, PageKey, Becomes
  <2>3. QED
    BY <1>1, <2>1, <2>2, IndexActivatedKeeps
<1>9. ASSUME NEW b \in BOOLEAN, SetCollapsible(b)
      PROVE  PanelsInv'
  BY <1>9, CollapsibleSet
<1>10. ASSUME NEW q \in tabsUI.calls, PanelTimer(q) \/ \E status \in {"success", "error"} : PanelAnswered(q, status)
       PROVE  PanelsInv'
  BY <1>10, TabTimerKeeps, TabAnswered
<1>11. CASE UNCHANGED tabUIVars
  <2>1. tabsUI' = tabsUI /\ tabDisturbed' = tabDisturbed /\ tabOptions' = tabOptions
    BY <1>11 DEF tabUIVars
  <2>2. QED
    BY <2>1, WidgetNow, WidgetBecomes, <1>1
<1>12. QED
  BY <1>2, <1>3, <1>4, <1>5, <1>6, <1>7, <1>8, <1>9, <1>10, <1>11 DEF TabsUINext

\* The panel of the active tab is the only one shown when no animation goes
\* on, its header the only one marked, and requests go on for it only: for any
\* number of tabs and any set of remote ones, whatever is clicked, disabled or
\* taken away (PanelsHold).
THEOREM PanelsShow == TabsUISpec => []PanelsHold
<1>1. TabsUIInit => PanelsInv
  BY TabsInitially
<1>2. PanelsInv /\ [TabsUINext]_tabUIVars => PanelsInv'
  BY TabsStep
<1>3. PanelsInv => PanelsHold
  <2> SUFFICES ASSUME PanelsInv PROVE PanelsHold
    OBVIOUS
  <2>1. PICK s \in TabWidgets :
          /\ s = tabsUI /\ s.disabled \subseteq s.tabs /\ LoadsKnown(s)
          /\ ~tabDisturbed => PanelRight(s) /\ ActiveIndexed(s) /\ OnlyActiveLoads(s)
    BY WidgetNow
  <2>2. NoHeader \notin s.tabs
    BY TabPlaces
  <2>3. ~tabDisturbed /\ s.phase = "still"
          => /\ s.shown = PanelOf(s, s.active)
             /\ s.marked = {s.active} \ {NoHeader}
             /\ s.index = IF s.active = NoHeader THEN Collapsed ELSE IndexOf(s, s.active)
    BY <2>1, <2>2 DEF PanelRight, ActiveIndexed, PanelOf
  <2>4. QED
    BY <2>1, <2>3 DEF PanelsHold, LoadsKnown, OnlyActiveLoads
<1>4. QED
  BY <1>1, <1>2, <1>3, PTL DEF TabsUISpec

-----------------------------------------------------------------------------
(* The types of the widgets and the bounds they are within.                 *)

LEMMA DragTyped == DragInv => DragTypeOK
BY DEF DragInv, DragShape

LEMMA SpinTyped == SpinInv => SpinTypeOK
BY DEF SpinInv, SpinShape

LEMMA AccordionTyped == AccordionInv => AccordionTypeOK
<1>1. SUFFICES ASSUME Now \in Views PROVE AccordionTypeOK
  BY DEF AccordionInv
<1>2. Now.a \in Accordions /\ Now.open \in SUBSET (1..MaxPanels) /\ Now.class \in SUBSET (1..MaxPanels)
  BY <1>1 DEF Views
<1>3. accordion.headers \in SUBSET (1..MaxPanels) /\ accordion.index \in -1..(MaxPanels - 1)
  BY <1>2, NowIs DEF Accordions
<1>. QED
  BY <1>2, <1>3, NowIs DEF AccordionTypeOK

\* The bounds of the tips and of the messages are kept.
TipsFit == tipsMade <= MaxTips /\ messageTimers <= MaxMessages

LEMMA TipsCounted ==
  ASSUME NEW s \in TipRecord, NEW event \in {"mouseover", "focusin", "call"}
  PROVE  /\ CloseTip(s).made = s.made /\ Heard(s, event).made = s.made
         /\ OpenTip(s, event).made <= s.made + 1
<1>1. s.made \in Nat
  BY DEF TipRecord
<1>2. CloseTip(s).made = s.made
  BY DEF CloseTip, TipRecord
<1>3. ASSUME NEW t \in TipRecord PROVE ShowTip(t, event).made = t.made + 1
  BY DEF ShowTip, TipRecord
<1>4. [s EXCEPT !.dataTitle = TRUE, !.open = TRUE] \in TipRecord
      /\ [s EXCEPT !.dataTitle = TRUE, !.open = TRUE].made = s.made /\ [s EXCEPT !.open = TRUE].made = s.made
  BY DEF TipRecord
<1>5. ShowTip([s EXCEPT !.dataTitle = TRUE, !.open = TRUE], event).made = s.made + 1
  BY <1>3, <1>4
<1>. QED
  BY <1>1, <1>2, <1>4, <1>5 DEF Heard, OpenTip

LEMMA TipsBounded ==
  ASSUME TipInv, TipsFit, [TooltipNext]_tipVars
  PROVE  TipsFit'
<1>1. Tooltip \in TipRecord /\ Tooltip.made = tipsMade /\ tipsMade \in Nat /\ messageTimers \in Nat
      /\ tipsMade <= MaxTips /\ messageTimers <= MaxMessages
  BY DEF TipInv, Tooltip, TipRecord, TipsFit
<1>2. CASE UNCHANGED tipVars
  BY <1>1, <1>2 DEF tipVars, TipsFit
<1>3. ASSUME PointerOnField \/ FieldFocused PROVE TipsFit'
  <2>1. PICK event \in {"mouseover", "focusin", "call"} : TooltipIs(OpenTip(Tooltip, event))
    BY <1>3 DEF PointerOnField, FieldFocused
  <2>2. tipsMade' = OpenTip(Tooltip, event).made /\ OpenTip(Tooltip, event).made <= tipsMade + 1
    BY <1>1, <2>1, TipsCounted DEF TooltipIs
  <2>3. OpenTip(Tooltip, event) \in TipRecord
    BY <1>1, TipOpens DEF TipInv
  <2>4. OpenTip(Tooltip, event).made \in Nat
    BY <2>3 DEF TipRecord
  <2>5. tipsMade < MaxTips /\ messageTimers' = messageTimers
    BY <1>3 DEF PointerOnField, FieldFocused
  <2>. QED
    BY <1>1, <2>2, <2>4, <2>5, TooltipAssumption DEF TipsFit
<1>4. ASSUME PointerOffField \/ FieldLeft \/ TipEscaped PROVE TipsFit'
  <2>1. TooltipIs(CloseTip(Tooltip)) \/ TooltipIs(Tooltip)
    BY <1>4 DEF PointerOffField, FieldLeft, TipEscaped, Heard
  <2>2. tipsMade' = tipsMade
    BY <1>1, <2>1, TipsCounted DEF TooltipIs
  <2>. QED
    BY <1>1, <1>4, <2>2 DEF PointerOffField, FieldLeft, TipEscaped, TipsFit
<1>5. CASE FieldRefused
  <2> DEFINE h == Heard(Tooltip, "focusout")
             t == [h EXCEPT !.title = "message"]
  <2>1. h \in TipRecord /\ GoodTip(h)
    BY <1>1, TipHears DEF TipInv
  <2>2. h.made = tipsMade
    BY <1>1, TipsCounted DEF Heard
  <2>3. t \in TipRecord /\ GoodTip(t)
    BY <2>1, TipTitled
  <2>4. t.made = tipsMade
    BY <2>1, <2>2 DEF TipRecord
  <2>5. TooltipIs(OpenTip(t, "call")) /\ tipsMade < MaxTips /\ messageTimers < MaxMessages
        /\ messageTimers' = messageTimers + 1
    BY <1>5 DEF FieldRefused
  <2> HIDE DEF t
  <2>6. OpenTip(t, "call").made <= t.made + 1 /\ OpenTip(t, "call") \in TipRecord
    BY <2>3, TipsCounted, TipOpens
  <2>7. OpenTip(t, "call").made \in Nat /\ tipsMade' = OpenTip(t, "call").made
    BY <2>5, <2>6 DEF TipRecord, TooltipIs
  <2>. QED
    BY <1>1, <2>4, <2>5, <2>6, <2>7, TooltipAssumption DEF TipsFit
<1>6. CASE MessageOver
  <2>1. ClearedTitle(Tooltip).made = tipsMade
    <3>1. CloseTip(Tooltip) \in TipRecord /\ CloseTip(Tooltip).made = tipsMade
      BY <1>1, TipCloses, TipsCounted DEF TipInv
    <3>. QED
      BY <3>1 DEF ClearedTitle, TipRecord
  <2>2. tipsMade' = tipsMade
    BY <1>1, <1>6, <2>1 DEF MessageOver, TooltipIs
  <2>3. messageTimers' = messageTimers - 1
    BY <1>6 DEF MessageOver
  <2>. QED
    BY <1>1, <2>2, <2>3, TooltipAssumption DEF TipsFit
<1>7. CASE FieldRemoved
  <2>1. CloseTip(Tooltip) \in TipRecord /\ CloseTip(Tooltip).made = tipsMade
    BY <1>1, TipCloses, TipsCounted DEF TipInv
  <2>2. [CloseTip(Tooltip) EXCEPT !.hiding = {}, !.dataTitle = FALSE].made = tipsMade
        /\ [Tooltip EXCEPT !.handlers = {}].made = tipsMade
    BY <1>1, <2>1 DEF TipRecord
  <2>3. tipsMade' = tipsMade /\ messageTimers' = messageTimers
    BY <1>7, <2>2 DEF FieldRemoved, TooltipIs
  <2>. QED
    BY <1>1, <2>3 DEF TipsFit
<1>8. ASSUME NEW k \in tipsHiding, TipHidden(k) PROVE TipsFit'
  BY <1>1, <1>8 DEF TipHidden, TipsFit
<1>. QED
  BY <1>2, <1>3, <1>4, <1>5, <1>6, <1>7, <1>8 DEF TooltipNext

LEMMA TooltipTyped == TooltipSpec => []TooltipTypeOK
<1>1. TooltipInit => TipsFit
  BY TooltipAssumption DEF TooltipInit, TipsFit
<1>2. TipInv /\ TipsFit => TooltipTypeOK
  <2>1. SUFFICES ASSUME TipInv, TipsFit PROVE TooltipTypeOK
    OBVIOUS
  <2>2. Tooltip \in TipRecord /\ Tooltip.tip <= Tooltip.made
        /\ Tooltip.tip = tip /\ Tooltip.title = title /\ Tooltip.handlers = tipHandlers /\ Tooltip.made = tipsMade
    BY <2>1 DEF TipInv, GoodTip, Tooltip
  <2>3. title \in {"absent", "empty", "message"} /\ tip \in Nat /\ tipsMade \in Nat
        /\ tipHandlers \subseteq {"mouseleave", "focusout", "keyup"}
    BY <2>2 DEF TipRecord
  <2>. QED
    BY <2>1, <2>2, <2>3, TooltipAssumption DEF TipInv, TipsFit, TooltipTypeOK
<1>. QED
  BY <1>1, <1>2, TipInitially, TipStep, TipsBounded, PTL DEF TooltipSpec

LEMMA DragTypes == DragSpec => []DragTypeOK
BY DragInitially, DragStep, DragTyped, PTL DEF DragSpec

LEMMA SpinTypes == SpinSpec => []SpinTypeOK
BY SpinInitially, SpinStep, SpinTyped, PTL DEF SpinSpec

LEMMA AccordionTypes == AccordionSpec => []AccordionTypeOK
BY AccordionInitially, AccordionStep, AccordionTyped, PTL DEF AccordionSpec

\* The bounds of the widgets that are made and of the bar are kept.
WidgetsFit == Len(instances) <= MaxInstances /\ bar.value <= BarLimit /\ bar.max <= BarLimit

LEMMA BarBounded ==
  ASSUME NEW b \in [value : Nat, oldValue : Nat, max : Nat], b.max <= BarLimit
  PROVE  Refreshed(b).value <= BarLimit /\ Refreshed(b).max <= BarLimit
<1>1. Refreshed(b) \in [value : Nat, oldValue : Nat, max : Nat] /\ Refreshed(b).value <= Refreshed(b).max
      /\ Refreshed(b).max = b.max
  BY BarRefreshed
<1>2. Refreshed(b).value \in Nat /\ b.max \in Nat
  BY <1>1
<1>. QED
  BY <1>1, <1>2, BarAssumption

LEMMA WidgetsBounded ==
  ASSUME WidgetInv, WidgetsFit, [WidgetNext]_widgetVars
  PROVE  WidgetsFit'
<1>1. /\ instances \in Seq(WidgetRecord) /\ Len(instances) \in Nat /\ Len(instances) <= MaxInstances
      /\ bar \in [value : Nat, oldValue : Nat, max : Nat] /\ bar.value <= BarLimit /\ bar.max <= BarLimit
  BY DEF WidgetInv, WidgetShape, BarFits, WidgetsFit
<1>2. CASE UNCHANGED widgetVars
  BY <1>1, <1>2 DEF widgetVars, WidgetsFit
<1>3. ASSUME NEW w \in WidgetNames, NEW b \in BOOLEAN, MakeWidget(w, b) PROVE WidgetsFit'
  <2> DEFINE r == WidgetCreated(w, b)
             i == Len(instances) + 1
  <2>1. Len(instances) < MaxInstances /\ instances' = Append(instances, r)
        /\ bar' = IF w = "progressbar" THEN BarMade ELSE bar
    BY <1>3 DEF MakeWidget
  <2> HIDE DEF r
  <2>2. Len(instances') = Len(instances) + 1
    BY <1>1, <2>1
  <2>3. BarMade.value <= BarLimit /\ BarMade.max <= BarLimit
    <3> DEFINE new == [value |-> 0, oldValue |-> 0, max |-> BarLimit]
    <3>1. new \in [value : Nat, oldValue : Nat, max : Nat] /\ new.max = BarLimit
      BY BarAssumption
    <3>2. BarMade = Refreshed(new)
      BY DEF BarMade
    <3> HIDE DEF new
    <3>3. new.max <= BarLimit
      BY <3>1, BarAssumption
    <3>. QED
      BY <3>1, <3>2, <3>3, BarBounded
  <2>. QED
    BY <1>1, <2>1, <2>2, <2>3, BarAssumption DEF WidgetsFit
<1>4. ASSUME NEW w \in WidgetNames, NEW b \in BOOLEAN, SetDisabled(w, b) \/ DestroyWidget(w) \/ Delays(w)
      PROVE  WidgetsFit'
  <2>1. Len(instances') = Len(instances)
    <3>1. \/ instances' = [instances EXCEPT ![stored[w]] = [@ EXCEPT !.disabled = b]]
          \/ instances' = [instances EXCEPT ![stored[w]] = [@ EXCEPT !.live = FALSE]]
          \/ instances' = [instances EXCEPT ![stored[w]] = [@ EXCEPT !.delayed = TRUE]]
      BY <1>4 DEF SetDisabled, DestroyWidget, Delays
    <3>. QED
      BY <1>1, <3>1
  <2>2. bar' = bar
    BY <1>4 DEF SetDisabled, DestroyWidget, Delays
  <2>. QED
    BY <1>1, <2>1, <2>2 DEF WidgetsFit
<1>5. CASE ElementRemoved
  <2>1. Len(instances') = Len(instances)
    <3>1. instances' = [i \in 1..Len(instances) |-> [instances[i] EXCEPT !.live = @ /\ i \notin listening]]
      BY <1>1, <1>5 DEF ElementRemoved, InstancesMade
    <3>. QED
      BY <1>1, <3>1
  <2>. QED
    BY <1>1, <1>5, <2>1 DEF ElementRemoved, WidgetsFit
<1>6. ASSUME PointerEnters \/ PointerLeaves PROVE WidgetsFit'
  BY <1>1, <1>6 DEF PointerEnters, PointerLeaves, WidgetsFit
<1>7. ASSUME NEW i \in InstancesMade, WidgetDelayEnds(i) PROVE WidgetsFit'
  <2>1. instances' = [instances EXCEPT ![i] = [@ EXCEPT !.delayed = FALSE]] /\ bar' = bar
    BY <1>7 DEF WidgetDelayEnds
  <2>2. Len(instances') = Len(instances)
    BY <1>1, <2>1
  <2>. QED
    BY <1>1, <2>1, <2>2 DEF WidgetsFit
<1>8. ASSUME NEW v \in 0..BarLimit, SetValue(v) \/ SetMaximum(v) PROVE WidgetsFit'
  <2>1. PICK b \in [value : Nat, oldValue : Nat, max : Nat] : b.max <= BarLimit /\ bar' = Refreshed(b)
    <3>1. v \in Nat /\ v <= BarLimit
      BY BarAssumption
    <3>2. /\ [bar EXCEPT !.value = v] \in [value : Nat, oldValue : Nat, max : Nat]
          /\ [bar EXCEPT !.max = v] \in [value : Nat, oldValue : Nat, max : Nat]
          /\ [bar EXCEPT !.value = v].max = bar.max /\ [bar EXCEPT !.max = v].max = v
      BY <1>1, <3>1
    <3>. QED
      BY <1>1, <1>8, <3>1, <3>2 DEF SetValue, SetMaximum
  <2>2. instances' = instances
    BY <1>8 DEF SetValue, SetMaximum
  <2>. QED
    BY <1>1, <2>1, <2>2, BarBounded DEF WidgetsFit
<1>. QED
  BY <1>2, <1>3, <1>4, <1>5, <1>6, <1>7, <1>8 DEF WidgetNext

LEMMA WidgetTypes == WidgetSpec => []WidgetTypeOK
<1>1. WidgetInit => WidgetsFit
  <2>1. SUFFICES ASSUME WidgetInit PROVE WidgetsFit
    OBVIOUS
  <2>2. Len(instances) = 0 /\ bar = [value |-> 0, oldValue |-> 0, max |-> BarLimit]
    BY <2>1 DEF WidgetInit
  <2>3. bar.value = 0 /\ bar.max = BarLimit
    BY <2>2
  <2>. QED
    BY <2>2, <2>3, BarAssumption DEF WidgetsFit
<1>2. WidgetInv /\ WidgetsFit => WidgetTypeOK
  <2>1. SUFFICES ASSUME WidgetInv, WidgetsFit PROVE WidgetTypeOK
    OBVIOUS
  <2>2. Len(instances) \in Nat /\ DOMAIN instances = 1..Len(instances)
    BY <2>1 DEF WidgetInv, WidgetShape
  <2>3. \A w \in WidgetNames : stored[w] \in 0..Len(instances)
    BY <2>1, <2>2 DEF WidgetInv, WidgetShape, StoredRight, InstancesMade
  <2>4. listening \subseteq 1..Len(instances)
    BY <2>1, <2>2 DEF WidgetInv, StoredRight, InstancesMade
  <2>5. 1..Len(instances) \subseteq 1..MaxInstances
    BY <2>1, <2>2, BarAssumption DEF WidgetsFit
  <2>6. bar.value \in Nat /\ bar.max \in Nat
    BY <2>1 DEF WidgetInv, BarFits
  <2>. QED
    BY <2>1, <2>3, <2>4, <2>5, <2>6, BarAssumption DEF WidgetInv, WidgetShape, WidgetsFit, WidgetTypeOK
<1>. QED
  BY <1>1, <1>2, WidgetInitially, WidgetStep, WidgetsBounded, PTL DEF WidgetSpec

\* The values of a slider stay below the last step of its larger maximum.
ValuesFit ==
    /\ sliderMax <= LargestMax
    /\ \A i \in Handle : values[i] <= LargestMax + Step /\ toldValues[i] <= LargestMax

LEMMA AlignedFits ==
  ASSUME sliderMax \in Nat, sliderMax <= LargestMax, NEW v \in Int
  PROVE  TrimAlign(v) \in Nat /\ TrimAlign(v) <= LargestMax + Step
<1>1. LargestMax \in Nat /\ Step \in Nat
  BY SliderAssumption DEF LargestMax
<1>2. v > 0 /\ v < sliderMax => v - (v % Step) <= v /\ v % Step \in Nat
  BY StepBefore, SliderAssumption
<1>3. TrimAlign(v) <= LargestMax + Step
  BY <1>1, <1>2 DEF TrimAlign
<1>. QED
  BY <1>3, AlignRange

LEMMA SlidFits ==
  ASSUME SliderInv, ValuesFit, NEW i \in Handle, NEW v \in Int, NEW allowed \in BOOLEAN
  PROVE  \A j \in Handle : SlidTo(i, v, allowed)[j] <= LargestMax + Step
<1> DEFINE w == IF (i = 0 /\ v > ValueOf(1 - i)) \/ (i = 1 /\ v < ValueOf(1 - i)) THEN ValueOf(1 - i) ELSE v
<1>1. sliderMax \in Nat /\ sliderMax <= LargestMax /\ values \in [Handle -> Nat]
      /\ \A j \in Handle : values[j] <= LargestMax + Step
  BY DEF SliderInv, SliderShape, ValuesFit
<1>2. w \in Int
  <2>1. 1 - i \in Handle
    BY DEF Handle
  <2>2. values[1 - i] \in Int
    BY <1>1, <2>1
  <2>3. ValueOf(1 - i) \in Int
    BY <1>1, <2>2, AlignedFits DEF ValueOf
  <2>. QED
    BY <2>3
<1>3. SlidTo(i, v, allowed) = IF w # ValueOf(i) /\ allowed THEN [values EXCEPT ![i] = TrimAlign(w)] ELSE values
  BY DEF SlidTo
<1> HIDE DEF w
<1>4. TrimAlign(w) <= LargestMax + Step
  BY <1>1, <1>2, AlignedFits
<1>. QED
  BY <1>1, <1>3, <1>4

LEMMA SlideChangeFits ==
  ASSUME SliderInv, ValuesFit, NEW vs \in [Handle -> Nat], NEW i \in Handle, NEW k, NEW m, Change(i, vs, k, m)
  PROVE  \A j \in Handle : toldValues'[j] <= LargestMax
<1>1. sliderMax \in Nat /\ sliderMax <= LargestMax /\ toldValues \in [Handle -> Nat]
      /\ \A j \in Handle : toldValues[j] <= LargestMax
  BY DEF SliderInv, SliderShape, ValuesFit
<1>2. LargestMax \in Nat
  BY SliderAssumption DEF LargestMax
<1>3. vs[i] \in Nat
  OBVIOUS
<1>4. Trimmed(vs, i) <= LargestMax
  BY <1>1, <1>2, <1>3 DEF Trimmed
<1>5. toldValues' = toldValues \/ toldValues' = [toldValues EXCEPT ![i] = Trimmed(vs, i)]
  BY DEF Change
<1>. QED
  BY <1>1, <1>4, <1>5

LEMMA ValuesBounded ==
  ASSUME SliderInv, ValuesFit, [SliderNext]_sliderVars
  PROVE  ValuesFit'
<1>1. /\ sliderMax \in Nat /\ sliderMax <= LargestMax /\ values \in [Handle -> Nat] /\ toldValues \in [Handle -> Nat]
      /\ handleIndex \in {-1, 0, 1} /\ handleFocus \in {-1, 0, 1} /\ Handle = {0, 1}
      /\ mouseSliding <=> handleIndex # -1
      /\ \A i \in Handle : values[i] <= LargestMax + Step /\ toldValues[i] <= LargestMax
  BY DEF SliderInv, SliderShape, ValuesFit, Handle
<1>2. CASE UNCHANGED sliderVars
  BY <1>1, <1>2 DEF sliderVars, ValuesFit
<1>3. ASSUME UNCHANGED <<sliderMax, toldValues>>, NEW i \in Handle, NEW v \in Int, NEW allowed \in BOOLEAN,
             values' = values \/ values' = SlidTo(i, v, allowed)
      PROVE  ValuesFit'
  BY <1>1, <1>3, SlidFits DEF ValuesFit
<1>4. ASSUME NEW p \in Places, NEW b \in BOOLEAN, NEW allowed \in BOOLEAN, PressMouse(p, b, allowed)
      PROVE  ValuesFit'
  <2>1. TrimAlign(p) \in Int /\ Nearest(TrimAlign(p)) \in Handle
    BY <1>1, AlignedFits, SliderAssumption DEF Nearest, Handle
  <2>2. UNCHANGED <<sliderMax, toldValues>>
        /\ (values' = values \/ values' = SlidTo(Nearest(TrimAlign(p)), TrimAlign(p), allowed))
    BY <1>4 DEF PressMouse
  <2>. QED
    BY <1>3, <2>1, <2>2
<1>5. ASSUME NEW p \in Places, NEW allowed \in BOOLEAN, MoveMouse(p, allowed) PROVE ValuesFit'
  <2>1. TrimAlign(p) \in Int
    BY <1>1, AlignedFits, SliderAssumption
  <2>2. UNCHANGED <<sliderMax, toldValues>> /\ values' = SlidTo(handleIndex, TrimAlign(p), allowed)
        /\ handleIndex \in Handle
    BY <1>1, <1>5 DEF MoveMouse
  <2>. QED
    BY <1>3, <2>1, <2>2
<1>6. ASSUME NEW key \in {"home", "end", "up", "down"}, NEW b \in BOOLEAN, NEW allowed \in BOOLEAN,
             SlideKeyDown(key, b, allowed)
      PROVE  ValuesFit'
  <2>1. handleFocus \in Handle
    BY <1>1, <1>6 DEF SlideKeyDown
  <2>2. KeyTarget(key) \in Int
    <3>1. values[handleFocus] \in Int
      BY <1>1, <2>1
    <3>2. ValueOf(handleFocus) \in Int
      BY <1>1, <3>1, AlignedFits DEF ValueOf
    <3>3. ValueOf(handleFocus) + Step \in Int /\ ValueOf(handleFocus) - Step \in Int
      BY <3>2, SliderAssumption
    <3>4. TrimAlign(ValueOf(handleFocus) + Step) \in Int /\ TrimAlign(ValueOf(handleFocus) - Step) \in Int
      BY <1>1, <3>3, AlignedFits
    <3>. QED
      BY <1>1, <3>4 DEF KeyTarget
  <2>3. UNCHANGED <<sliderMax, toldValues>>
        /\ (values' = values \/ values' = SlidTo(handleFocus, KeyTarget(key), allowed))
    BY <1>6 DEF SlideKeyDown
  <2>. QED
    BY <1>3, <2>1, <2>2, <2>3
<1>7. ASSUME ReleaseMouse \/ SlideKeyUp PROVE ValuesFit'
  <2>1. PICK i \in Handle : \E k, m : Change(i, values, k, m)
    BY <1>1, <1>7 DEF ReleaseMouse, SlideKeyUp
  <2>2. UNCHANGED <<sliderMax, values>>
    BY <1>7 DEF ReleaseMouse, SlideKeyUp
  <2>. QED
    BY <1>1, <2>1, <2>2, SlideChangeFits DEF ValuesFit
<1>8. ASSUME NEW i \in Handle \union {-1}, FocusMoves(i) PROVE ValuesFit'
  BY <1>1, <1>8 DEF FocusMoves, ValuesFit
<1>9. ASSUME NEW i \in Handle, NEW v \in Places, SetHandle(i, v) PROVE ValuesFit'
  <2>1. TrimAlign(v) \in Nat /\ TrimAlign(v) <= LargestMax + Step
    BY <1>1, AlignedFits, SliderAssumption
  <2>2. values' = [values EXCEPT ![i] = TrimAlign(v)] /\ sliderMax' = sliderMax
        /\ Change(i, values', keySliding, mouseSliding)
    BY <1>9 DEF SetHandle
  <2>3. values' \in [Handle -> Nat] /\ \A j \in Handle : values'[j] <= LargestMax + Step
    BY <1>1, <2>1, <2>2
  <2>. QED
    BY <1>1, <2>2, <2>3, SlideChangeFits DEF ValuesFit
<1>10. ASSUME NEW m \in {SliderMax, LowerMax}, SetMax(m) PROVE ValuesFit'
  <2>1. m <= LargestMax
    BY SliderAssumption DEF LargestMax
  <2>. QED
    BY <1>1, <1>10, <2>1 DEF SetMax, ValuesFit
<1>. QED
  BY <1>2, <1>4, <1>5, <1>6, <1>7, <1>8, <1>9, <1>10 DEF SliderNext

LEMMA SliderTyped == SliderSpec => []SliderTypeOK
<1>1. SliderInit => ValuesFit
  <2>1. SUFFICES ASSUME SliderInit PROVE ValuesFit
    OBVIOUS
  <2>2. sliderMax = SliderMax /\ \A i \in Handle : values[i] = 0 /\ toldValues[i] = 0
    BY <2>1 DEF SliderInit
  <2>. QED
    BY <2>2, SliderAssumption DEF ValuesFit, LargestMax
<1>2. SliderInv /\ ValuesFit => SliderTypeOK
  <2>1. SUFFICES ASSUME SliderInv, ValuesFit PROVE SliderTypeOK
    OBVIOUS
  <2>2. SliderShape /\ LargestMax \in Nat /\ Step \in Nat
    BY <2>1, SliderAssumption DEF SliderInv, LargestMax
  <2>3. \A i \in Handle : values[i] \in 0..(LargestMax + Step) /\ toldValues[i] \in 0..LargestMax
    BY <2>1, <2>2 DEF SliderShape, ValuesFit
  <2>. QED
    BY <2>2, <2>3 DEF SliderShape, SliderTypeOK, Handle
<1>. QED
  BY <1>1, <1>2, SliderInitially, SliderStep, ValuesBounded, PTL DEF SliderSpec

\* The index, the focus and what waits to be activated stay within the tabs.
IndexFits(s) == s.index \in -1..(MaxTabs - 1)
TabsFit == IndexFits(tabsUI) /\ tabFocus \in 0..MaxTabs /\ activating \in -1..(MaxTabs - 1)

LEMMA PlacesFit ==
  ASSUME NEW s \in TabWidgets
  PROVE  /\ LastIndex(s) <= MaxTabs - 1 /\ LastIndex(s) \in Int
         /\ \A t \in s.tabs : IndexOf(s, t) \in -1..(MaxTabs - 1)
         /\ ActiveIndexed(s) => IndexFits(s)
<1>1. s.tabs \in SUBSET (1..MaxTabs) /\ MaxTabs \in Nat
  BY TabsUIAssumption DEF TabWidgets
<1>2. IsFiniteSet(1..MaxTabs) /\ Cardinality(1..MaxTabs) = MaxTabs
  BY <1>1, FS_Interval
<1>3. Cardinality(s.tabs) <= MaxTabs /\ Cardinality(s.tabs) \in Nat
  BY <1>1, <1>2, FS_Subset, TabPlaces
<1>4. LastIndex(s) <= MaxTabs - 1 /\ LastIndex(s) \in Int
  BY <1>1, <1>3 DEF LastIndex
<1>5. ASSUME NEW t \in s.tabs PROVE IndexOf(s, t) \in -1..(MaxTabs - 1)
  <2>1. IndexOf(s, t) \in 0..LastIndex(s)
    BY TabPlaces
  <2>2. QED
    BY <1>1, <1>4, <2>1
<1>6. ASSUME ActiveIndexed(s) PROVE IndexFits(s)
  <2>1. s.index = Collapsed \/ \E t \in s.tabs : s.index = IndexOf(s, t)
    BY <1>6 DEF ActiveIndexed
  <2>2. QED
    BY <1>1, <1>5, <2>1 DEF IndexFits, Collapsed
<1>7. QED
  BY <1>4, <1>5, <1>6

LEMMA HandledFits ==
  ASSUME NEW s \in TabWidgets, LoadsKnown(s), tabOptions \in [collapsible : BOOLEAN, animates : BOOLEAN],
         IndexFits(s), NEW t \in 1..MaxTabs, t \in s.tabs \/ t = s.active
  PROVE  IndexFits(Handled(s, t))
<1>1. PICK u : u = Handled(s, t)
  OBVIOUS
<1>2. u \in TabWidgets /\ (u = s \/ ActiveIndexed(u))
  BY <1>1, HandledKeeps
<1>3. QED
  BY <1>1, <1>2, PlacesFit

LEMMA ActivatedFits ==
  ASSUME NEW s \in TabWidgets, LoadsKnown(s), tabOptions \in [collapsible : BOOLEAN, animates : BOOLEAN], NEW i,
         IndexFits(s)
  PROVE  IndexFits(Activated(s, i))
<1> DEFINE t == IF i \in 0..LastIndex(s) THEN HeaderAt(s, i) ELSE NoHeader
           c == IF t # NoHeader THEN t ELSE s.active
<1>1. CASE t = s.active
  BY <1>1 DEF Activated
<1>2. CASE t # s.active
  <2>1. t \in s.tabs \union {NoHeader}
    BY TabPlaces
  <2>2. c \in 1..MaxTabs /\ (c \in s.tabs \/ c = s.active)
    BY <1>2, <2>1, TabsUIAssumption DEF NoHeader, TabWidgets
  <2>3. Activated(s, i) = Handled(s, c)
    BY <1>2 DEF Activated
  <2> HIDE DEF c
  <2>4. QED
    BY <2>2, <2>3, HandledFits
<1>3. QED
  BY <1>1, <1>2

LEMMA RemovedFits ==
  ASSUME PanelsInv, IndexFits(tabsUI), NEW t \in 1..MaxTabs, RemoveTab(t)
  PROVE  IndexFits(tabsUI')
<1>1. PICK s \in TabWidgets : s = tabsUI /\ s.disabled \subseteq s.tabs /\ LoadsKnown(s)
  BY WidgetNow
<1>2. PICK back : back = IF s.index > 0 THEN s.index - 1 ELSE 0
  OBVIOUS
<1>3. PICK left : left = WithoutTab(s, t)
  OBVIOUS
<1>4. PICK u : u = ActiveAfter(left, back)
  OBVIOUS
<1>5. t \in s.tabs /\ tabsUI' = PanelsRedrawn(u)
  BY <1>1, <1>2, <1>3, <1>4 DEF RemoveTab, Becomes, ActiveAfter, WithoutTab
<1>6. left \in TabWidgets /\ left.index = s.index /\ LoadsKnown(left)
  BY <1>1, <1>3, <1>5, WithoutKeeps DEF SameActive, SameLoads, LoadsKnown
<1>7. IndexFits(left) /\ tabOptions \in [collapsible : BOOLEAN, animates : BOOLEAN]
  BY <1>1, <1>6 DEF IndexFits, PanelsInv
<1>8. IndexFits(u)
  <2> DEFINE none == [left EXCEPT !.active = NoHeader, !.index = Collapsed]
             kept == [left EXCEPT !.index = IndexOf(left, left.active)]
  <2>1. CASE left.active = NoHeader \/ left.tabs = {} \/ (left.active \notin left.tabs /\ left.tabs = left.disabled)
    <3>1. u = none
      BY <1>4, <2>1 DEF ActiveAfter
    <3>2. none.index = Collapsed
      BY <1>6 DEF TabWidgets
    <3>. QED
      BY <3>1, <3>2, TabsUIAssumption DEF Collapsed, IndexFits
  <2>2. CASE left.active # NoHeader /\ left.active \in left.tabs
    <3>1. u = kept
      BY <1>4, <2>2 DEF ActiveAfter
    <3>2. kept.index = IndexOf(left, left.active)
      BY <1>6 DEF TabWidgets
    <3>. QED
      BY <1>6, <2>2, <3>1, <3>2, PlacesFit DEF IndexFits
  <2>3. CASE left.active # NoHeader /\ left.tabs # {} /\ left.active \notin left.tabs /\ left.tabs # left.disabled
    <3>1. u = Activated(left, NextIndex(left, back, FALSE))
      BY <1>4, <2>3 DEF ActiveAfter
    <3>. QED
      BY <1>6, <1>7, <3>1, ActivatedFits
  <2>. QED
    BY <2>1, <2>2, <2>3
<1>9. u \in TabWidgets
  BY <1>1, <1>2, <1>3, <1>4, <1>5, <1>7, TabsRefreshed
<1>10. PanelsRedrawn(u).index = u.index
  BY <1>9, RedrawnRight DEF SameActive
<1>. QED
  BY <1>5, <1>8, <1>10 DEF IndexFits

\* What becomes of the index in a step.
LEMMA IndexStays ==
  ASSUME PanelsInv, IndexFits(tabsUI), TabsUINext \/ UNCHANGED tabUIVars
  PROVE  IndexFits(tabsUI')
<1>1. PICK s \in TabWidgets : s = tabsUI /\ s.disabled \subseteq s.tabs /\ LoadsKnown(s)
  BY WidgetNow
<1>2. IndexFits(s) /\ tabOptions \in [collapsible : BOOLEAN, animates : BOOLEAN]
  BY <1>1 DEF PanelsInv
<1>3. ASSUME NEW u, tabsUI' = u, u.index = s.index PROVE IndexFits(tabsUI')
  BY <1>2, <1>3 DEF IndexFits
<1>4. ASSUME NEW i, tabsUI' = Activated(s, i) PROVE IndexFits(tabsUI')
  BY <1>1, <1>2, <1>4, ActivatedFits
<1>5. CASE UseEffects \/ UNCHANGED tabUIVars \/ \E b, ctrl \in BOOLEAN : ArrowKey(b, ctrl)
  BY <1>1, <1>3, <1>5 DEF UseEffects, tabUIVars, ArrowKey
<1>6. CASE EffectOver
  <2>1. ShowNew(s).index = s.index
    BY <1>1, <1>2, ShowKeeps DEF SameActive
  <2>2. [s EXCEPT !.phase = "still"].index = s.index
    BY DEF TabWidgets
  <2>. QED
    BY <1>1, <1>3, <1>6, <2>1, <2>2 DEF EffectOver
<1>7. CASE ActivatingEnds
  BY <1>1, <1>4, <1>7 DEF ActivatingEnds, Becomes
<1>8. CASE DestroyTabs
  <2>1. AbortLoad(s) \in TabWidgets /\ AbortLoad(s) = [s EXCEPT !.calls = AbortLoad(s).calls]
    BY <1>1, AbortKeeps
  <2>2. AbortLoad(s).index = s.index
    <3>1. PICK cs : cs = AbortLoad(s).calls
      OBVIOUS
    <3>2. AbortLoad(s) = [s EXCEPT !.calls = cs]
      BY <2>1, <3>1
    <3>. QED
      BY <3>2 DEF TabWidgets
  <2>3. [AbortLoad(s) EXCEPT !.live = FALSE, !.shown = s.tabs, !.marked = {}].index = s.index
    BY <2>1, <2>2 DEF TabWidgets
  <2>. QED
    BY <1>1, <1>3, <1>8, <2>3 DEF DestroyTabs
<1>9. ASSUME NEW t \in 1..MaxTabs, ClickHeader(t) PROVE IndexFits(tabsUI')
  <2>1. t \in s.tabs /\ tabsUI' = Handled(s, t)
    BY <1>1, <1>9 DEF ClickHeader, Becomes
  <2>. QED
    BY <1>1, <1>2, <2>1, HandledFits
<1>10. ASSUME NEW t \in 1..MaxTabs, RemoveTab(t) PROVE IndexFits(tabsUI')
  BY <1>10, RemovedFits
<1>11. ASSUME NEW t \in 1..MaxTabs, EnableTab(t) \/ DisableTab(t) PROVE IndexFits(tabsUI')
  <2>1. PICK ds : tabsUI' = [s EXCEPT !.disabled = ds]
    BY <1>1, <1>11 DEF EnableTab, DisableTab
  <2>2. [s EXCEPT !.disabled = ds].index = s.index
    BY DEF TabWidgets
  <2>. QED
    BY <1>3, <2>1, <2>2
<1>12. ASSUME NEW b \in BOOLEAN, SpaceOrEnter(b) \/ PageKey(b) PROVE IndexFits(tabsUI')
  BY <1>1, <1>4, <1>12 DEF SpaceOrEnter, PageKey, Becomes
<1>13. ASSUME NEW b \in BOOLEAN, SetCollapsible(b) PROVE IndexFits(tabsUI')
  BY <1>1, <1>3, <1>4, <1>13 DEF SetCollapsible
<1>14. ASSUME NEW q \in tabsUI.calls, NEW status \in {"success", "error"}, PanelAnswered(q, status)
       PROVE  IndexFits(tabsUI')
  <2>1. PICK cs : tabsUI' = [s EXCEPT !.calls = cs]
    BY <1>1, <1>14 DEF PanelAnswered
  <2>2. [s EXCEPT !.calls = cs].index = s.index
    BY DEF TabWidgets
  <2>. QED
    BY <1>3, <2>1, <2>2
<1>15. ASSUME NEW q \in tabsUI.calls, PanelTimer(q) PROVE IndexFits(tabsUI')
  <2>1. PICK r \in TabWidgets : r = (IF q.status = "abort" THEN StopPanels(s) ELSE s) /\ r.index = s.index
    BY <1>1, <1>2, PanelsStop DEF SameActive
  <2>2. PICK cs, ls, x : tabsUI' = [r EXCEPT !.calls = cs, !.loading = ls, !.xhr = x]
    BY <1>1, <1>15, <2>1 DEF PanelTimer
  <2>3. [r EXCEPT !.calls = cs, !.loading = ls, !.xhr = x].index = s.index
    BY <2>1 DEF TabWidgets
  <2>. QED
    BY <1>3, <2>2, <2>3
<1>. QED
  BY <1>5, <1>6, <1>7, <1>8, <1>9, <1>10, <1>11, <1>12, <1>13, <1>14, <1>15 DEF TabsUINext

LEMMA TabsBounded ==
  ASSUME PanelsInv, TabsFit, TabsUINext \/ UNCHANGED tabUIVars
  PROVE  TabsFit'
<1>1. IndexFits(tabsUI')
  BY IndexStays DEF TabsFit
<1>2. PICK s \in TabWidgets : s = tabsUI /\ s.disabled \subseteq s.tabs
  BY WidgetNow
<1>3. /\ s.tabs \subseteq 1..MaxTabs /\ s.index \in -1..(MaxTabs - 1) /\ MaxTabs \in Nat \ {0}
      /\ tabFocus \in 0..MaxTabs /\ activating \in -1..(MaxTabs - 1)
      /\ NoHeader \in 0..MaxTabs /\ -1 \in -1..(MaxTabs - 1)
  BY <1>2, TabsUIAssumption DEF TabsFit, IndexFits, TabWidgets, NoHeader
<1>4. ASSUME NEW i \in Int, i >= -1, NEW b \in BOOLEAN, s.tabs # {}
      PROVE  /\ NextIndex(s, i, b) \in -1..(MaxTabs - 1)
             /\ HeaderAt(s, NextIndex(s, i, b)) \in 0..MaxTabs
  <2>1. NextIndex(s, i, b) \in 0..LastIndex(s)
    BY <1>2, <1>4, NextFound
  <2>2. HeaderAt(s, NextIndex(s, i, b)) \in s.tabs
    BY <2>1, TabPlaces
  <2>. QED
    BY <1>3, <2>1, <2>2, PlacesFit
<1>5. TabsFit' <=> tabFocus' \in 0..MaxTabs /\ activating' \in -1..(MaxTabs - 1)
  BY <1>1 DEF TabsFit, IndexFits
<1>6. CASE UseEffects \/ EffectOver \/ DestroyTabs \/ UNCHANGED tabUIVars
  BY <1>3, <1>5, <1>6 DEF UseEffects, EffectOver, DestroyTabs, tabUIVars
<1>7. CASE ActivatingEnds
  BY <1>3, <1>5, <1>7 DEF ActivatingEnds
<1>8. ASSUME NEW t \in 1..MaxTabs, ClickHeader(t) \/ RemoveTab(t) \/ EnableTab(t) \/ DisableTab(t) PROVE TabsFit'
  <2>1. t \in 0..MaxTabs
    BY <1>3
  <2>. QED
    BY <1>3, <1>5, <1>8, <2>1 DEF ClickHeader, RemoveTab, EnableTab, DisableTab
<1>9. ASSUME NEW b \in BOOLEAN, NEW ctrl \in BOOLEAN, ArrowKey(b, ctrl) PROVE TabsFit'
  <2>1. PICK i : i = IndexOf(s, tabFocus) + (IF b THEN 1 ELSE -1)
    OBVIOUS
  <2>2. tabFocus \in s.tabs /\ tabFocus' = HeaderAt(s, NextIndex(s, i, b))
        /\ activating' = (IF ctrl THEN -1 ELSE NextIndex(s, i, b))
    BY <1>2, <1>9, <2>1 DEF ArrowKey
  <2>3. IndexOf(s, tabFocus) \in 0..LastIndex(s)
    BY <2>2, TabPlaces
  <2>4. i \in Int /\ i >= -1
    BY <2>1, <2>3, PlacesFit
  <2>. QED
    BY <1>3, <1>4, <1>5, <2>2, <2>4
<1>10. ASSUME NEW b \in BOOLEAN, SpaceOrEnter(b) PROVE TabsFit'
  BY <1>3, <1>5, <1>10 DEF SpaceOrEnter
<1>11. ASSUME NEW b \in BOOLEAN, PageKey(b) PROVE TabsFit'
  <2>1. PICK i : i = (IF s.index = Collapsed THEN 0 ELSE s.index) + (IF b THEN 1 ELSE -1)
    OBVIOUS
  <2>2. tabFocus \in s.tabs /\ tabFocus' = HeaderAt(s, NextIndex(s, i, b)) /\ activating' = activating
    BY <1>2, <1>11, <2>1 DEF PageKey
  <2>3. i \in Int /\ i >= -1
    BY <1>3, <2>1 DEF Collapsed
  <2>. QED
    BY <1>3, <1>4, <1>5, <2>2, <2>3
<1>12. ASSUME NEW b \in BOOLEAN, SetCollapsible(b) PROVE TabsFit'
  BY <1>3, <1>5, <1>12 DEF SetCollapsible
<1>13. ASSUME NEW q, PanelTimer(q) \/ \E status \in {"success", "error"} : PanelAnswered(q, status) PROVE TabsFit'
  BY <1>3, <1>5, <1>13 DEF PanelTimer, PanelAnswered
<1>. QED
  BY <1>6, <1>7, <1>8, <1>9, <1>10, <1>11, <1>12, <1>13 DEF TabsUINext

LEMMA TabsUITyped == TabsUISpec => []TabsUITypeOK
<1>1. TabsUIInit => TabsFit
  <2>1. SUFFICES ASSUME TabsUIInit PROVE TabsFit
    OBVIOUS
  <2>2. PanelsInv
    BY <2>1, TabsInitially
  <2>3. tabsUI \in TabWidgets /\ tabDisturbed = FALSE /\ tabFocus = 1 /\ activating = -1
    BY <2>1, <2>2 DEF PanelsInv, TabsUIInit
  <2>4. ActiveIndexed(tabsUI)
    BY <2>2, <2>3 DEF PanelsInv
  <2>. QED
    BY <2>3, <2>4, PlacesFit, TabsUIAssumption DEF TabsFit
<1>2. PanelsInv /\ TabsFit => TabsUITypeOK
  BY DEF PanelsInv, TabsFit, IndexFits, TabWidgets, TabsUITypeOK
<1>. QED
  BY <1>1, <1>2, TabsInitially, TabsStep, TabsBounded, PTL DEF TabsUISpec
==============================================================================
