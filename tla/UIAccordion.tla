------------------------------ MODULE UIAccordion ------------------------------
(***************************************************************************)
(* The accordion of jQuery UI: headers, of which one has its panel open.   *)
(* A header may be chosen while the panels of an earlier choice still      *)
(* move: their animation then jumps to its end.  The page may take headers *)
(* away at any time and calls refresh() then.                              *)
(***************************************************************************)
EXTENDS Integers, FiniteSets

CONSTANT MaxPanels  \* headers the widget is made with, by number in their order

ASSUME AccordionAssumption == MaxPanels \in Nat \ {0}

VARIABLES
    accordion,     \* the widget, see AccordionInit
    panelsOpen,    \* panels that are displayed
    openClass,     \* those with the class "ui-accordion-content-active"
    headerClass,   \* headers with "ui-accordion-header-active"
    panelMove,     \* the animation: what it shows and hides, the old panel of
                   \* its choice
    severalGone    \* history: headers were taken away, several at once

accordionVars == <<accordion, panelsOpen, openClass, headerClass, panelMove, severalGone>>

Nobody == 0
Still == [on |-> FALSE, show |-> Nobody, hide |-> Nobody, old |-> Nobody]

AccordionInit ==
    /\ accordion = [headers |-> 1..MaxPanels, active |-> 1, index |-> 0, collapsible |-> FALSE,
                    animate |-> TRUE, disabled |-> FALSE, live |-> TRUE,
                    prevShow |-> Nobody, prevHide |-> Nobody]
    /\ panelsOpen = {1} /\ openClass = {1} /\ headerClass = {1} /\ panelMove = Still
    /\ severalGone = FALSE
------------------------------------------------------------------------------
PlaceOf(hs, h) == Cardinality({g \in hs : g < h})
HeaderIn(hs, i) == IF i \in 0..(Cardinality(hs) - 1) THEN CHOOSE h \in hs : PlaceOf(hs, h) = i ELSE Nobody

\* The view: what the actions below change, as one record.
Now == [a |-> accordion, open |-> panelsOpen, class |-> openClass, marked |-> headerClass, move |-> panelMove]
ViewIs(v) ==
    /\ accordion' = v.a /\ panelsOpen' = v.open /\ openClass' = v.class
    /\ headerClass' = v.marked /\ panelMove' = v.move

\* The animation is over, or jumps to its end (stop(true, true)):
\* _toggleComplete() takes the class of the panel that was open before.
MoveOver(v) ==
    IF v.move.on
    THEN [v EXCEPT !.open = @ \ {v.move.hide}, !.class = @ \ {v.move.old}, !.move = Still]
    ELSE v

ToggledOver(v, old, new) == \* mutant
    IF v.a.animate
    THEN [v EXCEPT !.open = @ \union ({new} \ {Nobody}), !.a.prevShow = new, !.a.prevHide = old,
                   !.move = [on |-> TRUE, show |-> new, hide |-> old, old |-> old]]
    ELSE [v EXCEPT !.open = (@ \ {old}) \union ({new} \ {Nobody}), !.class = @ \ {old}]

\* _toggle(): the panel to hide is the one that was shown last
ToggledPanels(v, old, new) ==
    LET hide == IF v.a.prevShow # Nobody THEN v.a.prevShow ELSE old
        s == [MoveOver(v) EXCEPT !.a.prevShow = new, !.a.prevHide = hide]
    IN  IF v.a.animate
        THEN [s EXCEPT !.open = @ \union ({new} \ {Nobody}),
                       !.move = [on |-> TRUE, show |-> new, hide |-> hide, old |-> old]]
        ELSE [s EXCEPT !.open = (@ \ {hide}) \union ({new} \ {Nobody}), !.class = @ \ {old}]

\* _eventHandler()
Chosen(v, h) ==
    LET again == h = v.a.active
        new == IF again THEN Nobody ELSE h
        s == ToggledPanels([v EXCEPT !.a.active = new,
                                     !.a.index = IF again THEN -1 ELSE PlaceOf(v.a.headers, h)],
                           v.a.active, new)
    IN  IF again /\ ~v.a.collapsible THEN v
        ELSE [s EXCEPT !.marked = (@ \ {v.a.active}) \union ({new} \ {Nobody}),
                       !.class = @ \union ({new} \ {Nobody})]

\* _activate(): an index of no header is a click on the active one
ActivatedAt(v, i) ==
    LET h == HeaderIn(v.a.headers, i)
    IN  IF h = v.a.active THEN v ELSE Chosen(v, IF h # Nobody THEN h ELSE v.a.active)

\* _refresh(): the active header is looked up by its index, and the panels of
\* the others are hidden
RefreshedPanels(v) ==
    LET h == HeaderIn(v.a.headers, v.a.index)
        hs == {h} \ {Nobody}
    IN  [v EXCEPT !.a.active = h, !.open = hs, !.class = @ \union hs, !.marked = @ \union hs]

------------------------------------------------------------------------------
\* The page may refuse in "beforeActivate": nothing happens then.
ClickPanel(h) ==
    /\ accordion.live /\ ~accordion.disabled /\ h \in accordion.headers
    /\ ViewIs(Chosen(Now, h)) /\ UNCHANGED severalGone

SetActive(i) ==
    /\ accordion.live /\ (accordion.active # Nobody \/ HeaderIn(accordion.headers, i) # Nobody)
    /\ ViewIs(ActivatedAt(Now, i)) /\ UNCHANGED severalGone

PanelsMoved == panelMove.on /\ ViewIs(MoveOver(Now)) /\ UNCHANGED severalGone

SetPanelsOption(key, b) ==
    LET v == CASE key = "collapsible" -> [Now EXCEPT !.a.collapsible = b]
               [] key = "animate" -> [Now EXCEPT !.a.animate = b]
               [] key = "disabled" -> [Now EXCEPT !.a.disabled = b]
    IN  /\ accordion.live /\ accordion[key] # b
        /\ ViewIs(IF key = "collapsible" /\ ~b /\ accordion.index = -1 /\ accordion.headers # {}
                  THEN ActivatedAt(v, 0) ELSE v)
        /\ UNCHANGED severalGone

\* Headers and panels are removed, then refresh().
RemovePanels(gone) ==
    LET left == [Now EXCEPT !.a.headers = @ \ gone, !.open = @ \ gone, !.class = @ \ gone, !.marked = @ \ gone]
        a == left.a
        back == IF a.index > 0 THEN a.index - 1 ELSE 0
        none == [left EXCEPT !.a.index = -1, !.a.active = Nobody]
    IN  /\ accordion.live /\ gone # {} /\ gone \subseteq accordion.headers
        /\ ViewIs(RefreshedPanels(
              IF (a.index = -1 /\ a.collapsible) \/ a.headers = {} THEN none
              ELSE IF a.index = -1 THEN ActivatedAt(left, 0)
              ELSE IF a.active \notin a.headers /\ a.active # Nobody THEN ActivatedAt(left, back)
              ELSE [left EXCEPT !.a.index = IF a.active = Nobody THEN -1 ELSE PlaceOf(a.headers, a.active)]))
        /\ severalGone' = (severalGone \/ Cardinality(gone) > 1)

\* All panels are displayed; an animation is not stopped.
DestroyAccordion ==
    /\ accordion.live /\ accordion' = [accordion EXCEPT !.live = FALSE]
    /\ panelsOpen' = accordion.headers /\ openClass' = {} /\ headerClass' = {}
    /\ UNCHANGED <<panelMove, severalGone>>

AccordionNext ==
    \/ PanelsMoved \/ DestroyAccordion
    \/ \E h \in 1..MaxPanels : ClickPanel(h) \/ SetActive(h - 1)
    \/ \E key \in {"collapsible", "animate", "disabled"}, b \in BOOLEAN : SetPanelsOption(key, b)
    \/ \E gone \in SUBSET (1..MaxPanels) : RemovePanels(gone)

AccordionSpec == AccordionInit /\ [][AccordionNext]_accordionVars
------------------------------------------------------------------------------
\* Types of the widget and of its panels.
AccordionTypeOK ==
    /\ accordion.headers \subseteq 1..MaxPanels /\ accordion.index \in -1..(MaxPanels - 1)
    /\ panelsOpen \subseteq 1..MaxPanels /\ openClass \subseteq 1..MaxPanels

\* Whatever is chosen while panels still move, the panel of the active header
\* is displayed, and when they stand still no other is; header and panel have
\* their classes, the option "active" is the index of that header, and one is
\* open if the accordion does not collapse: unless several headers were taken
\* away at once, after which there may be none.
AccordionHolds ==
    accordion.live
        => LET active == {accordion.active} \ {Nobody}
           IN  /\ active \subseteq panelsOpen /\ headerClass = active
               /\ panelsOpen \subseteq active \union {panelMove.hide}
               /\ ~panelMove.on => openClass = active /\ panelsOpen = active
               /\ ~severalGone
                     => /\ accordion.index = (IF active = {} THEN -1
                                              ELSE PlaceOf(accordion.headers, accordion.active))
                        /\ active = {} => accordion.collapsible \/ accordion.headers = {}

==============================================================================
