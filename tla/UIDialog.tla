------------------------------- MODULE UIDialog -------------------------------
(***************************************************************************)
(* The dialogs of jQuery UI that Zentyal.Dialog shows: their place in the  *)
(* document, the overlays of the modal ones, the handler that keeps the    *)
(* focus in them, which a timer binds, and the effects that hide them.     *)
(* A dialog may be opened again, closed or destroyed at any time, also     *)
(* while it fades out or is dragged.                                       *)
(***************************************************************************)
EXTENDS Naturals, FiniteSets, SequencesExt

CONSTANTS
    Dialog,      \* dialogs of the page
    MaxOpenings, \* bound: calls of open()
    MaxHides     \* bound: effects in the queue of a dialog

\* The page, and nothing, are no dialogs.
ASSUME DialogAssumption ==
    /\ IsFiniteSet(Dialog) /\ {"page", "none"} \intersect Dialog = {}
    /\ MaxOpenings \in Nat /\ MaxHides \in Nat

VARIABLES
    dialogs,          \* of each: modal, fades, isOpen, visible, queue of its effects
    opener,           \* what had the focus when it was opened
    stack,            \* wrappers and overlays in the order of the document
    overlayInstances, \* $.ui.dialog.overlayInstances
    focusTimers,      \* timers of _createOverlay
    focusKept,        \* focusin.dialog is bound to the document
    focus,            \* the active element: of the page, of a dialog, or none
    iframeBlocks,     \* frames are covered for a drag or a resize of a dialog
    openingsLeft,
    focusedEarly      \* history: the page had the focus in front of an
                      \* overlay before the timer bound the handler

dialogVars == <<dialogs, opener, stack, overlayInstances, focusTimers, focusKept, focus, iframeBlocks,
                openingsLeft, focusedEarly>>

Wrapper(d) == <<"dialog", d>>
Overlay(d) == <<"overlay", d>>
NotMade == [made |-> FALSE, modal |-> FALSE, fades |-> FALSE, isOpen |-> FALSE, visible |-> FALSE, queue |-> <<>>]
Overlays == {d \in Dialog : Contains(stack, Overlay(d))}

DialogInit ==
    /\ dialogs = [d \in Dialog |-> NotMade] /\ opener = [d \in Dialog |-> "page"]
    /\ stack = <<>> /\ overlayInstances = 0 /\ focusTimers = 0 /\ focusKept = FALSE
    /\ focus = "page" /\ iframeBlocks = {} /\ openingsLeft = MaxOpenings /\ focusedEarly = FALSE

Shown(ds, e) == e[1] = "overlay" \/ ds[e[2]].visible

\* What of a list is in a set, in its order.
Among(list, S) ==
    LET upTo[n \in 0..Len(list)] ==
            IF n = 0 THEN <<>> ELSE IF list[n] \in S THEN Append(upTo[n - 1], list[n]) ELSE upTo[n - 1]
    IN  upTo[Len(list)]

\* _moveToTop(): the visible elements behind it are moved in front of it.
MovedToTop(st, ds, d) ==
    LET at == SelectInSeq(st, LAMBDA e : e = Wrapper(d))
        behind == SubSeq(st, at + 1, Len(st))
        shown == {e \in ToSet(behind) : Shown(ds, e)}
    IN  SubSeq(st, 1, at - 1) \o Among(behind, shown) \o <<Wrapper(d)>> \o Among(behind, ToSet(behind) \ shown)

\* The handler of focusin sends what is not for a dialog to the last visible one.
LastVisible(st, ds) ==
    SelectLastInSeq(st, LAMBDA e : e[1] = "dialog" /\ ds[e[2]].visible)
Focused(what, kept, st, ds) ==
    IF kept /\ what = "page" /\ LastVisible(st, ds) > 0 THEN st[LastVisible(st, ds)][2] ELSE what
\* The page has the focus, and the handler that would take it is not bound.
NoteFocus == focusedEarly' = (focusedEarly \/ (focus' = "page" /\ Overlays' # {} /\ ~focusKept'))
------------------------------------------------------------------------------
\* _create(): the wrapper goes to the end of the body; autoOpen opens it.
CreateDialog(d, modal, fades) ==
    /\ ~dialogs[d].made
    /\ dialogs' = [dialogs EXCEPT ![d] = [NotMade EXCEPT !.made = TRUE, !.modal = modal, !.fades = fades]]
    /\ stack' = Append(stack, Wrapper(d))
    /\ UNCHANGED <<opener, overlayInstances, focusTimers, focusKept, focus, iframeBlocks, openingsLeft,
                   focusedEarly>>

\* _createOverlay(): the first one starts the timer.
OverlayCreated(d) ==
    IF dialogs[d].modal
    THEN /\ overlayInstances' = overlayInstances + 1
         /\ focusTimers' = focusTimers + IF overlayInstances = 0 THEN 1 ELSE 0
    ELSE UNCHANGED <<overlayInstances, focusTimers>>

\* open(): the dialog is shown at once, or behind the effect that still hides it.
OpenDialog(d) ==
    /\ dialogs[d].made /\ openingsLeft > 0 /\ openingsLeft' = openingsLeft - 1
    /\ IF dialogs[d].isOpen
       THEN /\ stack' = MovedToTop(stack, dialogs, d)
            /\ focus' = IF stack' # stack THEN d ELSE focus
            /\ UNCHANGED <<dialogs, opener, overlayInstances, focusTimers>>
       ELSE LET now == dialogs[d].queue = <<>>
                with == IF dialogs[d].modal THEN Append(stack, Overlay(d)) ELSE stack
            IN  /\ dialogs' = [dialogs EXCEPT ![d].isOpen = TRUE, ![d].visible = @ \/ now,
                                              ![d].queue = IF now THEN @ ELSE Append(@, "show")]
                /\ opener' = [opener EXCEPT ![d] = focus]
                /\ OverlayCreated(d)
                /\ stack' = MovedToTop(with, dialogs, d)
                /\ focus' = IF now THEN d ELSE focus
    /\ UNCHANGED <<focusKept, iframeBlocks>>
    /\ NoteFocus

\* The timer: nothing when no overlay is left.
FocusTimer ==
    /\ focusTimers > 0 /\ focusTimers' = focusTimers - 1
    /\ focusKept' = (focusKept \/ overlayInstances > 0)
    /\ UNCHANGED <<dialogs, opener, stack, overlayInstances, focus, iframeBlocks, openingsLeft,
                   focusedEarly>>

OverlayStays(d) == overlayInstances \* mutant
\* _destroyOverlay()
OverlayDestroyed(d) == IF d \in Overlays THEN overlayInstances - 1 ELSE overlayInstances
KeptAfter(d) == focusKept /\ OverlayDestroyed(d) # 0
Focusable(what) == what = "page" \/ (what \in Dialog /\ dialogs[what].visible)

\* close(), unless beforeClose refuses: by the cross, a button, Escape or the page.
CloseDialog(d) ==
    /\ dialogs[d].isOpen /\ Len(dialogs[d].queue) < MaxHides
    /\ LET now == dialogs[d].queue = <<>> /\ ~dialogs[d].fades
           back == IF Focusable(opener[d]) THEN Focused(opener[d], KeptAfter(d), stack, dialogs) ELSE "none"
       IN  /\ dialogs' = [dialogs EXCEPT ![d].isOpen = FALSE, ![d].visible = @ /\ ~now,
                                         ![d].queue = IF now THEN @ ELSE Append(@, "hide")]
           /\ focus' = IF now /\ back = d THEN "none" ELSE back
    /\ overlayInstances' = OverlayDestroyed(d) /\ focusKept' = KeptAfter(d)
    /\ stack' = RemoveFirst(stack, Overlay(d))
    /\ UNCHANGED <<opener, focusTimers, iframeBlocks, openingsLeft>>
    /\ NoteFocus

\* An effect ends and with it what it hides; what waits to be shown is shown.
EffectEnds(d) ==
    /\ dialogs[d].queue # <<>>
    /\ LET rest == Tail(dialogs[d].queue)
           again == rest # <<>> /\ Head(rest) = "show"
       IN  /\ dialogs' = [dialogs EXCEPT ![d].visible = again, ![d].queue = IF again THEN Tail(rest) ELSE rest]
           /\ focus' = IF again THEN d ELSE IF focus = d THEN "none" ELSE focus
    /\ UNCHANGED <<opener, stack, overlayInstances, focusTimers, focusKept, iframeBlocks, openingsLeft,
                   focusedEarly>>

\* destroy(), as Zentyal.Dialog does on "close": the drag ends without its stop.
DestroyDialog(d) ==
    /\ dialogs[d].made
    /\ dialogs' = [dialogs EXCEPT ![d] = NotMade]
    /\ overlayInstances' = OverlayDestroyed(d) /\ focusKept' = KeptAfter(d)
    /\ stack' = RemoveFirst(RemoveFirst(stack, Overlay(d)), Wrapper(d))
    /\ focus' = IF focus = d THEN "none" ELSE focus
    /\ UNCHANGED <<opener, focusTimers, iframeBlocks, openingsLeft, focusedEarly>>

Covered(d) == \E o \in Overlays :
    SelectInSeq(stack, LAMBDA e : e = Overlay(o)) > SelectInSeq(stack, LAMBDA e : e = Wrapper(d))

\* A click on a dialog raises it; a click on an overlay gives its dialog the focus.
MouseDown(d) ==
    /\ dialogs[d].visible
    /\ IF Covered(d)
       THEN /\ UNCHANGED stack
            /\ \E o \in Overlays : ~Covered(o) /\ focus' = o
       ELSE /\ stack' = MovedToTop(stack, dialogs, d)
            /\ focus' = d
    /\ UNCHANGED <<dialogs, opener, overlayInstances, focusTimers, focusKept, iframeBlocks, openingsLeft,
                   focusedEarly>>

\* Something outside the dialogs is given the focus.
PageFocus ==
    /\ focus' = Focused("page", focusKept, stack, dialogs)
    /\ UNCHANGED <<dialogs, opener, stack, overlayInstances, focusTimers, focusKept, iframeBlocks, openingsLeft>>
    /\ NoteFocus

\* _blockFrames(), _unblockFrames(): dragging and resizing.
DragDialog(d) ==
    /\ dialogs[d].visible /\ iframeBlocks = {} /\ iframeBlocks' = {d}
    /\ UNCHANGED <<dialogs, opener, stack, overlayInstances, focusTimers, focusKept, focus, openingsLeft,
                   focusedEarly>>
DragDialogEnds(d) ==
    /\ dialogs[d].made /\ d \in iframeBlocks /\ iframeBlocks' = iframeBlocks \ {d}
    /\ UNCHANGED <<dialogs, opener, stack, overlayInstances, focusTimers, focusKept, focus, openingsLeft,
                   focusedEarly>>

DialogNext ==
    \/ \E d \in Dialog, modal, fades \in BOOLEAN : CreateDialog(d, modal, fades)
    \/ \E d \in Dialog : OpenDialog(d) \/ CloseDialog(d) \/ DestroyDialog(d) \/ EffectEnds(d)
    \/ \E d \in Dialog : MouseDown(d) \/ DragDialog(d) \/ DragDialogEnds(d)
    \/ FocusTimer \/ PageFocus

DialogSpec == DialogInit /\ [][DialogNext]_dialogVars
------------------------------------------------------------------------------
DialogTypeOK ==
    /\ \A d \in Dialog : dialogs[d].isOpen \in BOOLEAN /\ dialogs[d].visible \in BOOLEAN
    /\ focus \in Dialog \union {"page", "none"} /\ focusTimers \in 0..MaxOpenings
    /\ overlayInstances \in 0..MaxOpenings /\ iframeBlocks \subseteq Dialog

\* The open modal dialogs, the overlays in the document and the number that is
\* counted are the same, and each overlay lies under its dialog, however dialogs
\* are raised, closed, reopened under an effect and destroyed; with no timer
\* pending the focus is kept in the dialogs exactly while there is an overlay,
\* so that the page does not get it, unless it took it before the timer.
OverlaysHold ==
    /\ Overlays = {d \in Dialog : dialogs[d].isOpen /\ dialogs[d].modal}
    /\ overlayInstances = Cardinality(Overlays)
    /\ \A d \in Overlays : SelectInSeq(stack, LAMBDA e : e = Overlay(d)) < SelectInSeq(stack, LAMBDA e : e = Wrapper(d))
    /\ focusTimers = 0 => (focusKept <=> Overlays # {})
    /\ focusTimers = 0 /\ ~focusedEarly /\ Overlays # {} => focus # "page"

==============================================================================
