------------------------------- MODULE UIWidget -------------------------------
(***************************************************************************)
(* The widget factory of jQuery UI: how a widget of an element is made,    *)
(* found again, called, disabled and destroyed, also when the page removes *)
(* the element; with the bar of the progress page as the widget that has a *)
(* state of its own.                                                       *)
(***************************************************************************)
EXTENDS Naturals, Sequences, FiniteSetsExt

CONSTANTS
    MaxInstances,  \* bound: widgets that are made
    BarLimit       \* bound: values and maxima of the bar

ASSUME BarAssumption == BarLimit \in Nat /\ MaxInstances \in Nat

VARIABLES
    instances,   \* what was made: widget, not destroyed yet, options.disabled, a timer of _delay()
    stored,      \* of each widget: its instance in the data of the element, 0 for none
    listening,       \* instances whose handlers are bound to the element
    elementThere,
    pointerOver, \* the pointer is over the element
    classes,     \* ui-state-hover, ui-state-disabled
    bar,         \* value, oldValue and max of the bar
    deadStored   \* history: a widget destroyed itself in its "create"

widgetVars == <<instances, stored, listening, elementThere, pointerOver, classes, bar, deadStored>>

WidgetNames == {"progressbar", "tooltip"}
InstancesMade == DOMAIN instances

WidgetInit ==
    /\ instances = <<>> /\ stored = [w \in WidgetNames |-> 0] /\ listening = {}
    /\ elementThere = TRUE /\ pointerOver = FALSE /\ classes = {}
    /\ bar = [value |-> 0, oldValue |-> 0, max |-> BarLimit] /\ deadStored = FALSE

------------------------------------------------------------------------------
\* _constrainedValue(), _refreshValue() of the bar.
Constrained(b) == [b EXCEPT !.value = Min({@, b.max})]
Refreshed(b) == [Constrained(b) EXCEPT !.oldValue = Constrained(b).value]

KeepsHandlers(hs, is) == hs \* mutant
\* destroy(): handlers by the namespace of the instance, data by the name of the
\* widget, classes of everybody.
UnboundHandlers(hs, is) == hs \ is
Destroyed(is) ==
    /\ listening' = UnboundHandlers(listening, is)
    /\ classes' = IF is = {} THEN classes ELSE {}

\* _create() of the bar
BarMade == Refreshed([value |-> 0, oldValue |-> 0, max |-> BarLimit])

\* _createWidget()
WidgetCreated(w, destroysItself) ==
    [widget |-> w, live |-> ~destroysItself, disabled |-> FALSE, delayed |-> FALSE]

\* bridge(): the first call makes the widget, and stores it once it is made,
\* whatever its "create" has done to it.
MakeWidget(w, destroysItself) ==
    /\ elementThere /\ stored[w] = 0 /\ Len(instances) < MaxInstances
    /\ LET i == Len(instances) + 1
       IN  /\ instances' = Append(instances, WidgetCreated(w, destroysItself))
           /\ stored' = [stored EXCEPT ![w] = i]
           /\ listening' = IF destroysItself THEN listening ELSE listening \union {i}
           /\ classes' = IF destroysItself THEN {} ELSE classes
    /\ bar' = IF w = "progressbar" THEN BarMade ELSE bar
    /\ deadStored' = (deadStored \/ destroysItself)
    /\ UNCHANGED <<elementThere, pointerOver>>

\* A method call: of what is stored.
Called(w) == elementThere /\ stored[w] # 0

\* _setOption("disabled"): the class is that of every widget of the element.
SetDisabled(w, value) ==
    /\ Called(w) /\ instances' = [instances EXCEPT ![stored[w]].disabled = value]
    /\ classes' = (classes \ {"hover", "disabled"}) \union IF value THEN {"disabled"} ELSE {}
    /\ UNCHANGED <<stored, listening, elementThere, pointerOver, bar, deadStored>>

DestroyWidget(w) ==
    /\ Called(w)
    /\ instances' = [instances EXCEPT ![stored[w]].live = FALSE]
    /\ Destroyed({stored[w]}) /\ stored' = [stored EXCEPT ![w] = 0]
    /\ UNCHANGED <<elementThere, pointerOver, bar, deadStored>>

\* cleanData(): "remove" is triggered, and every widget that hears it destroys
\* itself; then the data goes.
ElementRemoved ==
    /\ elementThere /\ elementThere' = FALSE /\ pointerOver' = FALSE
    /\ instances' = [i \in InstancesMade |-> [instances[i] EXCEPT !.live = @ /\ i \notin listening]]
    /\ Destroyed(listening) /\ stored' = [w \in WidgetNames |-> 0]
    /\ UNCHANGED <<bar, deadStored>>

\* The handlers of _hoverable(), unless the widget is disabled, or the element
\* has the class.
Hears == {i \in listening : ~instances[i].disabled /\ "disabled" \notin classes}
PointerEnters ==
    /\ elementThere /\ ~pointerOver /\ pointerOver' = TRUE
    /\ classes' = IF Hears = {} THEN classes ELSE classes \union {"hover"}
    /\ UNCHANGED <<instances, stored, listening, elementThere, bar, deadStored>>
PointerLeaves ==
    /\ pointerOver /\ pointerOver' = FALSE
    /\ classes' = IF Hears = {} THEN classes ELSE classes \ {"hover"}
    /\ UNCHANGED <<instances, stored, listening, elementThere, bar, deadStored>>

\* _delay(): destroy() leaves the timer, whose handler still runs.
Delays(w) ==
    /\ Called(w) /\ instances' = [instances EXCEPT ![stored[w]].delayed = TRUE]
    /\ UNCHANGED <<stored, listening, elementThere, pointerOver, classes, bar, deadStored>>
WidgetDelayEnds(i) ==
    /\ instances[i].delayed /\ instances' = [instances EXCEPT ![i].delayed = FALSE]
    /\ UNCHANGED <<stored, listening, elementThere, pointerOver, classes, bar, deadStored>>
------------------------------------------------------------------------------
\* progress.js sets the maximum first, and the value with it.
SetValue(v) ==
    /\ Called("progressbar") /\ bar' = Refreshed([bar EXCEPT !.value = v])
    /\ UNCHANGED <<instances, stored, listening, elementThere, pointerOver, classes, deadStored>>
SetMaximum(m) ==
    /\ Called("progressbar") /\ bar' = Refreshed([bar EXCEPT !.max = m])
    /\ UNCHANGED <<instances, stored, listening, elementThere, pointerOver, classes, deadStored>>

WidgetNext ==
    \/ \E w \in WidgetNames, b \in BOOLEAN : MakeWidget(w, b) \/ SetDisabled(w, b)
    \/ \E w \in WidgetNames : DestroyWidget(w) \/ Delays(w)
    \/ ElementRemoved \/ PointerEnters \/ PointerLeaves
    \/ \E i \in InstancesMade : WidgetDelayEnds(i)
    \/ \E v \in 0..BarLimit : SetValue(v) \/ SetMaximum(v)

WidgetSpec == WidgetInit /\ [][WidgetNext]_widgetVars
------------------------------------------------------------------------------
WidgetTypeOK ==
    /\ \A w \in WidgetNames : stored[w] \in 0..Len(instances)
    /\ listening \subseteq 1..MaxInstances /\ classes \subseteq {"hover", "disabled"}
    /\ bar.value \in 0..BarLimit /\ bar.max \in 0..BarLimit

\* What hears the events of the element are the widgets that live, and of each
\* widget the one that is stored, however they were made, called, disabled and
\* destroyed, by the page or with the element; an element that is gone has none;
\* it shows as hovered only while the pointer is over it; and the bar never runs
\* over its end.  (A widget that destroys itself in its "create" stays stored.)
WidgetsHold ==
    /\ listening = {i \in InstancesMade : instances[i].live}
    /\ \A i \in listening : stored[instances[i].widget] = i
    /\ ~deadStored => {stored[w] : w \in WidgetNames} \ {0} = listening
    /\ ~elementThere => listening = {} /\ (deadStored \/ classes = {})
    /\ "hover" \in classes => pointerOver /\ "disabled" \notin classes
    /\ bar.value <= bar.max

==============================================================================
