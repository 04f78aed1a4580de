--------------------------- MODULE DashboardLayout ---------------------------
(***************************************************************************)
(* The layout of the dashboard: widgets are dragged from the list of a     *)
(* module into the dashboard, moved, or closed (dashboard.js, on the       *)
(* sortable of jQuery UI), and every change sends the whole layout to the  *)
(* server.                                                                 *)
(***************************************************************************)
EXTENDS Naturals, FiniteSets, SequencesExt

CONSTANTS
    Widget,      \* the widgets of the module whose list is shown
    MaxDrags,    \* bound: widgets dragged
    MaxUpdates   \* bound: layouts on their way to the server at once

ASSUME LayoutAssumption == MaxDrags \in Nat /\ MaxUpdates \in Nat

VARIABLES
    boxes,         \* the dashboard: its widget boxes in order
    listed,        \* the list of the module: the widgets it offers as not present
    dragged,       \* the box that is being dragged out of the list, if any
    layoutCalls,   \* requests on their way
    layoutSaved,   \* server: the layout it has
    drags,         \* how many widgets were dragged
    layoutHistory  \* history: whether a drop was before its content, or two layouts
                   \* were on their way at once

layoutVars == <<boxes, listed, dragged, layoutCalls, layoutSaved, drags, layoutHistory>>

NoBox == [widget |-> "none", element |-> 0, id |-> "none", closing |-> FALSE]

\* The id of a box is that of its widget, or still that of its place in the list.
DashboardIds == {boxes[i].widget : i \in {j \in DOMAIN boxes : boxes[j].id = "widget"}}

LayoutInit ==
    /\ boxes = <<>>
    /\ listed = Widget
    /\ dragged = NoBox
    /\ layoutCalls = {}
    /\ layoutSaved = <<>>
    /\ drags = 0
    /\ layoutHistory = [late |-> FALSE, crossed |-> FALSE]

Layouts == {q \in layoutCalls : q.op = "update"}

\* dashboardSortableUpdate(): the ids with the suffix of the list name their
\* widget as well; the helper of a drag has none.
SendsLayout(bs, late) ==
    /\ Cardinality(Layouts) < MaxUpdates
    /\ \E n \in 1..MaxUpdates :
          /\ \A q \in Layouts : q.element # n
          /\ layoutCalls' = layoutCalls \union
                {[op |-> "update", element |-> n, layout |-> [i \in DOMAIN bs |-> bs[i].widget]]}
    /\ layoutHistory' = [late |-> layoutHistory.late \/ late, crossed |-> layoutHistory.crossed \/ Layouts # {}]

ListKept(bs) == UNCHANGED listed \* mutant

\* showModuleWidgets(): what the dashboard has under its own id is present.
ShowModuleWidgets(bs) ==
    listed' = Widget \ {bs[i].widget : i \in {j \in DOMAIN bs : bs[j].id = "widget"}}

------------------------------------------------------------------------------
\* The content is asked for when the drag starts.
StartDrag(w) ==
    /\ dragged = NoBox /\ w \in listed /\ drags < MaxDrags
    /\ drags' = drags + 1
    /\ dragged' = [widget |-> w, element |-> drags + 1, id |-> "placeholder", closing |-> FALSE]
    /\ layoutCalls' = layoutCalls \union {[op |-> "widget", element |-> drags + 1]}
    /\ UNCHANGED <<boxes, listed, layoutSaved, layoutHistory>>

\* Dropped in the dashboard: update sends the layout before stop renders the list.
DropInDashboard(at) ==
    /\ dragged # NoBox /\ at \in 1..(Len(boxes) + 1)
    /\ boxes' = InsertAt(boxes, at, dragged) /\ dragged' = NoBox
    /\ SendsLayout(boxes', dragged.id = "placeholder")
    /\ ShowModuleWidgets(boxes')
    /\ UNCHANGED <<layoutSaved, drags>>

\* Dropped back in the list, which is rendered anew: the box is gone.
DropInList ==
    /\ dragged # NoBox /\ dragged' = NoBox
    /\ ShowModuleWidgets(boxes)
    /\ UNCHANGED <<boxes, layoutCalls, layoutSaved, drags, layoutHistory>>

\* The answer gives the box its id and its content, wherever it is by now.
WidgetContent(q) ==
    /\ q.op = "widget" /\ layoutCalls' = layoutCalls \ {q}
    /\ dragged' = IF dragged.element = q.element THEN [dragged EXCEPT !.id = "widget"] ELSE dragged
    /\ boxes' = [i \in DOMAIN boxes |->
                   IF boxes[i].element = q.element THEN [boxes[i] EXCEPT !.id = "widget"] ELSE boxes[i]]
    /\ UNCHANGED <<listed, layoutSaved, drags, layoutHistory>>

WidgetContentFails(q) ==
    /\ q.op = "widget" /\ layoutCalls' = layoutCalls \ {q}
    /\ UNCHANGED <<boxes, listed, dragged, layoutSaved, drags, layoutHistory>>

\* closeWidget() finds the box by its id and fades it out for 500 ms.
CloseWidget(w) ==
    /\ \E i \in DOMAIN boxes :
          /\ boxes[i].widget = w /\ boxes[i].id = "widget" /\ ~boxes[i].closing
          /\ \A j \in 1..(i - 1) : boxes[j].widget # w \/ boxes[j].id # "widget"
          /\ boxes' = [boxes EXCEPT ![i].closing = TRUE]
    /\ UNCHANGED <<listed, dragged, layoutCalls, layoutSaved, drags, layoutHistory>>

\* The list is rendered again if it has a place for the widget.
WidgetClosed(i) ==
    /\ i \in DOMAIN boxes /\ boxes[i].closing
    /\ boxes' = RemoveAt(boxes, i)
    /\ ShowModuleWidgets(boxes')
    /\ SendsLayout(boxes', FALSE)
    /\ UNCHANGED <<dragged, layoutSaved, drags>>

MoveWidget(i, to) ==
    /\ dragged = NoBox /\ i \in DOMAIN boxes /\ to \in DOMAIN boxes /\ i # to
    /\ boxes' = InsertAt(RemoveAt(boxes, i), to, boxes[i])
    /\ SendsLayout(boxes', FALSE)
    /\ UNCHANGED <<listed, dragged, layoutSaved, drags>>

\* The layouts reach the server in any order; that one is lost is not noticed.
SavesLayout(q) ==
    /\ q.op = "update" /\ layoutCalls' = layoutCalls \ {q}
    /\ layoutSaved' = q.layout
    /\ UNCHANGED <<boxes, listed, dragged, drags, layoutHistory>>

LayoutNext ==
    \/ \E w \in Widget : StartDrag(w) \/ CloseWidget(w)
    \/ \E i \in 1..MaxDrags : DropInDashboard(i) \/ WidgetClosed(i) \/ \E to \in 1..MaxDrags : MoveWidget(i, to)
    \/ DropInList
    \/ \E q \in layoutCalls : WidgetContent(q) \/ WidgetContentFails(q) \/ SavesLayout(q)

LayoutSpec == LayoutInit /\ [][LayoutNext]_layoutVars
------------------------------------------------------------------------------
\* Types of the dashboard and of its requests.
LayoutTypeOK ==
    /\ \A i \in DOMAIN boxes : boxes[i].widget \in Widget /\ boxes[i].id \in {"widget", "placeholder"}
    /\ listed \subseteq Widget /\ drags \in 0..MaxDrags
    /\ ToSet(layoutSaved) \subseteq Widget

\* If the content of every widget came while it was dragged, no widget is
\* twice on the dashboard: the list offers what the dashboard has not.  Late
\* content leaves a box without its id, which the list then offers again.
WidgetOnce ==
    ~layoutHistory.late => \A i, j \in DOMAIN boxes : boxes[i].widget = boxes[j].widget => i = j

\* If no two layouts were on their way at once the server ends with the one the
\* dashboard shows, boxes that fade out included.
LayoutKept ==
    (Layouts = {} /\ ~layoutHistory.crossed)
        => layoutSaved = [i \in DOMAIN boxes |-> boxes[i].widget]

==============================================================================
