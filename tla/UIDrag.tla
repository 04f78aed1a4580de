-------------------------------- MODULE UIDrag --------------------------------
(***************************************************************************)
(* A draggable of jQuery UI and two droppables, a greedy one inside the    *)
(* other: the gestures of ui.mouse, the helper that follows the pointer,   *)
(* and the manager that tells the droppables who is under it.  A button    *)
(* let go outside the window is never heard; the callbacks of the page may *)
(* refuse each step.                                                       *)
(***************************************************************************)
EXTENDS Naturals

VARIABLES
    button,      \* of the user: pressed or not
    pointer,     \* of the user: away, over the outer or over the inner droppable
    mouse,       \* ui.mouse: mouseHandled, _mouseStarted, handlers bound to the
                 \* document, mouseDelayMet
    helper,      \* draggable: none, dragged, or on its way back
    droppable,   \* isover, the hover class and greedyChild of each droppable
    hasty,       \* history: the pointer left the inner one for outside at once,
                 \* or the page refused a move
    greedyDrop   \* history: something was dropped on the inner one

dragVars == <<button, pointer, mouse, helper, droppable, hasty, greedyDrop>>

PointerPlaces == {"away", "outer", "inner"}
Droppables == {"outer", "inner"}

DragInit ==
    /\ button = FALSE /\ pointer = "away" /\ helper = "none"
    /\ mouse = [handled |-> FALSE, started |-> FALSE, bound |-> FALSE, delayMet |-> FALSE]
    /\ droppable = [d \in Droppables |-> [isover |-> FALSE, hover |-> FALSE, greedyChild |-> FALSE]]
    /\ hasty = FALSE /\ greedyDrop = FALSE

\* $.ui.intersect(): the inner one lies in the outer one.
Intersects(p, d) == p = d \/ p = "inner"

------------------------------------------------------------------------------
\* ddmanager.drag(), first for the outer and then for the inner droppable.
Over(x, over) == [x EXCEPT !.isover = over, !.hover = over]

OuterDragged(ds, p) ==
    IF ds["outer"].greedyChild \/ ds["outer"].isover = Intersects(p, "outer") THEN ds
    ELSE [ds EXCEPT !["outer"] = Over(@, ~@.isover)]

\* The greedy one takes the pointer from its parent, and gives it back.
InnerDragged(ds, p) ==
    IF ds["inner"].isover = Intersects(p, "inner") THEN ds
    ELSE [ds EXCEPT !["inner"] = Over(@, ~@.isover),
                    !["outer"] = [Over(@, ds["inner"].isover) EXCEPT !.greedyChild = ~ds["inner"].isover]]

DragManager(ds, p) == InnerDragged(OuterDragged(ds, p), p)

\* ddmanager.drop(): a greedy child under the pointer takes the drop from the
\* outer one; every droppable forgets that the pointer was over it.
Takes(d, p) == Intersects(p, d) /\ (d = "outer" => ~Intersects(p, "inner"))

DropKeepsOver(ds, p) == \* mutant
    [d \in Droppables |-> IF Takes(d, p) THEN [ds[d] EXCEPT !.hover = FALSE] ELSE ds[d]]
DropManager(ds, p) ==
    [d \in Droppables |-> [ds[d] EXCEPT !.isover = FALSE, !.hover = @ /\ ~Takes(d, p)]]

------------------------------------------------------------------------------
\* _mouseUp() of ui.mouse and _mouseStop() of the draggable: it goes back when
\* nobody took it, and what the page refuses to stop keeps its helper for ever.
\* An end that is not heard by the document leaves mouseHandled.
MouseUp(handled, p) ==
    /\ mouse' = [mouse EXCEPT !.handled = handled, !.started = FALSE, !.bound = FALSE]
    /\ IF mouse.started
       THEN /\ droppable' = DropManager(droppable, p)
            /\ greedyDrop' = (greedyDrop \/ Takes("inner", p))
            /\ helper' \in IF \E d \in Droppables : Takes(d, p) THEN {"none", "dragged"} ELSE {"reverting"}
       ELSE UNCHANGED <<droppable, greedyDrop, helper>>

\* _mouseDown(): refused while another gesture is handled, or while the helper
\* is still there.
Press ==
    /\ ~button /\ button' = TRUE
    /\ IF mouse.handled \/ helper # "none" THEN UNCHANGED mouse
       ELSE \E delay \in BOOLEAN :
               mouse' = [handled |-> TRUE, started |-> FALSE, bound |-> TRUE, delayMet |-> ~delay]
    /\ UNCHANGED <<pointer, helper, droppable, hasty, greedyDrop>>

DelayMet ==
    /\ mouse.bound /\ ~mouse.delayMet
    /\ mouse' = [mouse EXCEPT !.delayMet = TRUE]
    /\ UNCHANGED <<button, pointer, helper, droppable, hasty, greedyDrop>>

\* _mouseMove(): starts the drag, or drags.
Move(p) ==
    /\ p # pointer /\ pointer' = p
    /\ UNCHANGED button
    /\ \/ /\ ~mouse.bound \/ (~mouse.started /\ ~mouse.delayMet)
          /\ UNCHANGED <<mouse, helper, droppable, hasty, greedyDrop>>
       \/ /\ mouse.bound /\ (mouse.started \/ mouse.delayMet)
          /\ mouse' = [mouse EXCEPT !.started = TRUE]
          /\ helper' = "dragged"
          /\ droppable' = DragManager(droppable, p)
          /\ hasty' = (hasty \/ (pointer = "inner" /\ p = "away"))
          /\ UNCHANGED greedyDrop
       \* "start" refused: the helper goes; the document still hears the button
       \/ /\ mouse.bound /\ ~mouse.started /\ mouse.delayMet
          /\ mouse' = [mouse EXCEPT !.bound = FALSE]
          /\ UNCHANGED <<helper, droppable, hasty, greedyDrop>>
       \* "drag" refused: it ends here, before the droppables hear of the move
       \/ /\ mouse.started /\ hasty' = TRUE
          /\ MouseUp(TRUE, p)

Release ==
    /\ button /\ button' = FALSE
    /\ MouseUp(FALSE, pointer)
    /\ UNCHANGED <<pointer, hasty>>

\* Outside the window: the drag goes on without a button.
ReleaseUnheard ==
    /\ button /\ pointer = "away" /\ button' = FALSE
    /\ UNCHANGED <<pointer, mouse, helper, droppable, hasty, greedyDrop>>

RevertEnds ==
    /\ helper = "reverting"
    /\ helper' \in {"none", "dragged"}
    /\ UNCHANGED <<button, pointer, mouse, droppable, hasty, greedyDrop>>

\* cancel() by the page.
Cancel ==
    /\ helper = "dragged"
    /\ MouseUp(mouse.handled, pointer)
    /\ UNCHANGED <<button, pointer, hasty>>

DragNext ==
    \/ Press \/ DelayMet \/ Release \/ ReleaseUnheard \/ RevertEnds \/ Cancel
    \/ \E p \in PointerPlaces : Move(p)

DragSpec == DragInit /\ [][DragNext]_dragVars
------------------------------------------------------------------------------
DragTypeOK ==
    /\ button \in BOOLEAN /\ pointer \in PointerPlaces /\ helper \in {"none", "dragged", "reverting"}
    /\ mouse \in [handled : BOOLEAN, started : BOOLEAN, bound : BOOLEAN, delayMet : BOOLEAN]

\* No drag goes on that the document will not hear the end of; when none goes on
\* no droppable takes the pointer to be over it, nor shows it, unless the pointer
\* once left the greedy droppable for outside in one move or the page refused a
\* move; and the outer one knows when the pointer is over it, unless its greedy child took a drop, which
\* leaves it deaf.
DropsSettle ==
    /\ mouse.started => mouse.bound /\ mouse.handled
    /\ ~mouse.started => \A d \in Droppables : ~droppable[d].isover /\ (hasty \/ ~droppable[d].hover)
    /\ mouse.started /\ ~hasty /\ ~greedyDrop =>
          \A d \in Droppables : droppable[d].isover <=> pointer = d

==============================================================================
