-------------------------------- MODULE UITabs --------------------------------
(***************************************************************************)
(* The tabs of jQuery UI: the header that is active, the panel that is     *)
(* shown in its place after one is hidden, and the requests that fill the  *)
(* panels of remote tabs.  Animations and answers end after the click;     *)
(* what the arrow keys choose is activated 300 ms later; the page may take *)
(* tabs away at any time.                                                  *)
(***************************************************************************)
EXTENDS Integers, FiniteSets

CONSTANTS
    MaxTabs,     \* tabs the widget is made with, by number in their order
    RemoteTabs,  \* those whose panel is loaded
    MaxLoads     \* bound: requests

ASSUME TabsUIAssumption == MaxTabs \in Nat \ {0}

VARIABLES
    tabOptions, \* collapsible, animates (hide and show)
    tabsUI,     \* the widget, see TabsUIInit
    tabFocus,   \* the header that has the focus
    activating, \* the delay after an arrow key: an index, or -1
    tabDisturbed \* history: a tab was taken away during an animation or
                 \* while another was loading, or the widget was destroyed

tabUIVars == <<tabOptions, tabsUI, tabFocus, activating, tabDisturbed>>

NoHeader == 0
Collapsed == -1
------------------------------------------------------------------------------
IndexOf(s, t) == Cardinality({u \in s.tabs : u < t})
HeaderAt(s, i) == CHOOSE t \in s.tabs : IndexOf(s, t) = i
LastIndex(s) == Cardinality(s.tabs) - 1
PanelOf(s, t) == {t} \intersect s.tabs

\* Requests: a remote panel is loaded whenever it is activated; xhr is the
\* last one.  A request that is over keeps a timer of 1 ms.
LoadPanel(s, t) ==
    IF t \notin RemoteTabs THEN s
    ELSE [s EXCEPT !.made = @ + 1, !.xhr = s.made + 1, !.loading = @ \union {t},
                   !.calls = @ \union {[no |-> s.made + 1, tab |-> t, status |-> "pending"]}]

NoAbort(s) == s \* mutant

AbortLoad(s) ==
    [s EXCEPT !.calls = {IF q.no = s.xhr /\ q.status = "pending" THEN [q EXCEPT !.status = "abort"] ELSE q
                            : q \in s.calls}]

\* _toggle(): hide the old panel, show the new one, and complete
ShowNew(s) ==
    [s EXCEPT !.marked = (@ \ {s.old}) \union ({s.new} \ {NoHeader}),
              !.shown = (@ \ {s.old}) \union PanelOf(s, s.new),
              !.phase = IF tabOptions.animates /\ s.new # NoHeader THEN "showing" ELSE "still"]

Toggle(s, old, new) ==
    LET t == [s EXCEPT !.old = old, !.new = new, !.phase = "hiding"]
    IN  IF tabOptions.animates /\ PanelOf(s, old) # {} THEN t ELSE ShowNew(t)

\* _eventHandler(): a click on a header, or what _activate() makes of an index
Handled(s, t) ==
    LET collapsing == t = s.active /\ tabOptions.collapsible
        new == IF collapsing THEN NoHeader ELSE t
        chosen == AbortLoad([s EXCEPT !.active = new,
                                      !.index = IF collapsing THEN Collapsed ELSE IndexOf(s, t)])
    IN  IF \/ t \in s.disabled \/ t \in s.loading \/ s.phase # "still"
           \/ t = s.active /\ ~tabOptions.collapsible
        THEN s
        ELSE Toggle(IF collapsing THEN chosen ELSE LoadPanel(chosen, t), s.active, new)

\* _activate() of an index, or of false
Activated(s, i) ==
    LET t == IF i \in 0..LastIndex(s) THEN HeaderAt(s, i) ELSE NoHeader
    IN  IF t = s.active THEN s
        ELSE IF t # NoHeader THEN Handled(s, t)
        ELSE Handled(s, s.active)

\* _findNextTab(): the next one that is not disabled, round the ends
NextIndex(s, i, forward) ==
    LET n == LastIndex(s) + 1
        at(k) == (i + (IF forward THEN k ELSE -k) + 2 * n) % n
        first == IF i > LastIndex(s) THEN 0 ELSE IF i < 0 THEN LastIndex(s) ELSE i
    IN  IF s.disabled = s.tabs \/ HeaderAt(s, first) \notin s.disabled THEN first
        ELSE LET k == CHOOSE k \in 1..n : /\ HeaderAt(s, at(k)) \notin s.disabled
                                          /\ \A j \in 1..(k - 1) : HeaderAt(s, at(j)) \in s.disabled
             IN  at(k)

\* _refresh(): only the panel of the active tab is shown
PanelsRedrawn(s) == [s EXCEPT !.shown = PanelOf(s, s.active), !.marked = @ \union ({s.active} \ {NoHeader})]

\* panels.stop(false, true): animations jump to their end; a panel shown in
\* the place of one that comes after it is asked too early
StopPanels(s) ==
    IF s.phase = "hiding"
    THEN LET t == ShowNew(s) IN IF s.new > s.old THEN [t EXCEPT !.phase = "still"] ELSE t
    ELSE [s EXCEPT !.phase = "still"]

------------------------------------------------------------------------------
NewTabs == [tabs |-> 1..MaxTabs, disabled |-> {}, active |-> 1, index |-> 0, phase |-> "still",
            old |-> NoHeader, new |-> NoHeader, shown |-> {1}, marked |-> {1},
            loading |-> {}, xhr |-> 0, calls |-> {}, made |-> 0, live |-> TRUE]

TabsUIInit ==
    /\ tabOptions = [collapsible |-> FALSE, animates |-> FALSE]
    /\ tabsUI = LoadPanel(NewTabs, 1) /\ tabFocus = 1 /\ activating = -1 /\ tabDisturbed = FALSE

\* The page sets the options "hide" and "show".
UseEffects ==
    /\ tabsUI.live /\ ~tabOptions.animates
    /\ tabOptions' = [tabOptions EXCEPT !.animates = TRUE]
    /\ UNCHANGED <<tabsUI, tabFocus, activating, tabDisturbed>>

Room(s) == s.made <= MaxLoads
Becomes(s) == Room(s) /\ tabsUI' = s

ClickHeader(t) ==
    /\ tabsUI.live /\ t \in tabsUI.tabs
    /\ Becomes(Handled(tabsUI, t))
    /\ tabFocus' = IF t \in tabsUI.disabled THEN tabFocus ELSE t
    /\ UNCHANGED <<tabOptions, activating, tabDisturbed>>

EffectOver ==
    /\ tabsUI.phase # "still"
    /\ tabsUI' = IF tabsUI.phase = "hiding" THEN ShowNew(tabsUI) ELSE [tabsUI EXCEPT !.phase = "still"]
    /\ UNCHANGED <<tabOptions, tabFocus, activating, tabDisturbed>>

\* Arrow keys; with Ctrl they move the focus only.
ArrowKey(forward, ctrl) ==
    /\ tabsUI.live /\ tabFocus \in tabsUI.tabs
    /\ LET i == NextIndex(tabsUI, IndexOf(tabsUI, tabFocus) + (IF forward THEN 1 ELSE -1), forward)
       IN  /\ tabFocus' = HeaderAt(tabsUI, i)
           /\ activating' = IF ctrl THEN -1 ELSE i
    /\ UNCHANGED <<tabOptions, tabsUI, tabDisturbed>>

\* Space activates; Enter also collapses.
SpaceOrEnter(enter) ==
    /\ tabsUI.live /\ tabFocus \in tabsUI.tabs
    /\ LET i == IndexOf(tabsUI, tabFocus)
       IN  Becomes(Activated(tabsUI, IF enter /\ i = tabsUI.index THEN Collapsed ELSE i))
    /\ activating' = -1
    /\ UNCHANGED <<tabOptions, tabFocus, tabDisturbed>>

\* Alt and Page Up or Page Down; false counts as 0 in "active + 1"
PageKey(forward) ==
    /\ tabsUI.live /\ tabFocus \in tabsUI.tabs
    /\ LET from == IF tabsUI.index = Collapsed THEN 0 ELSE tabsUI.index
           i == NextIndex(tabsUI, from + (IF forward THEN 1 ELSE -1), forward)
       IN  Becomes(Activated(tabsUI, i)) /\ tabFocus' = HeaderAt(tabsUI, i)
    /\ UNCHANGED <<tabOptions, activating, tabDisturbed>>

ActivatingEnds ==
    /\ activating >= 0
    /\ Becomes(Activated(tabsUI, activating)) /\ activating' = -1
    /\ UNCHANGED <<tabOptions, tabFocus, tabDisturbed>>

PanelAnswered(q, status) ==
    /\ q.status = "pending"
    /\ tabsUI' = [tabsUI EXCEPT !.calls = (@ \ {q}) \union {[q EXCEPT !.status = status]}]
    /\ UNCHANGED <<tabOptions, tabFocus, activating, tabDisturbed>>

PanelTimer(q) ==
    /\ q.status # "pending"
    /\ LET s == IF q.status = "abort" THEN StopPanels(tabsUI) ELSE tabsUI
       IN  tabsUI' = [s EXCEPT !.calls = @ \ {q}, !.loading = @ \ {q.tab},
                               !.xhr = IF @ = q.no THEN 0 ELSE @]
    /\ UNCHANGED <<tabOptions, tabFocus, activating, tabDisturbed>>

\* The page takes a header and its panel away and calls refresh().
RemoveTab(t) ==
    LET left == [tabsUI EXCEPT !.tabs = @ \ {t}, !.disabled = @ \ {t}, !.shown = @ \ {t}, !.marked = @ \ {t}]
        none == [left EXCEPT !.active = NoHeader, !.index = Collapsed]
        back == IF tabsUI.index > 0 THEN tabsUI.index - 1 ELSE 0
    IN  /\ tabsUI.live /\ t \in tabsUI.tabs
        /\ Becomes(PanelsRedrawn(
              IF left.active = NoHeader \/ left.tabs = {} THEN none
              ELSE IF left.active \in left.tabs
                   THEN [left EXCEPT !.index = IndexOf(left, left.active)]
              ELSE IF left.tabs = left.disabled THEN none
              ELSE Activated(left, NextIndex(left, back, FALSE))))
        /\ tabDisturbed' = (tabDisturbed \/ tabsUI.phase # "still" \/ tabsUI.loading # {})
        /\ tabFocus' = IF tabFocus = t THEN NoHeader ELSE tabFocus
        /\ UNCHANGED <<tabOptions, activating>>

EnableTab(t) ==
    /\ tabsUI.live /\ t \in tabsUI.disabled
    /\ tabsUI' = [tabsUI EXCEPT !.disabled = @ \ {t}]
    /\ UNCHANGED <<tabOptions, tabFocus, activating, tabDisturbed>>

DisableTab(t) ==
    /\ tabsUI.live /\ t \in tabsUI.tabs \ tabsUI.disabled
    /\ tabsUI' = [tabsUI EXCEPT !.disabled = @ \union {t}]
    /\ UNCHANGED <<tabOptions, tabFocus, activating, tabDisturbed>>

SetCollapsible(b) ==
    /\ tabsUI.live /\ tabOptions.collapsible # b
    /\ tabOptions' = [tabOptions EXCEPT !.collapsible = b]
    /\ IF ~b /\ tabsUI.index = Collapsed /\ tabsUI.tabs # {}
       THEN Room(tabsUI) /\ tabsUI.made < MaxLoads /\ tabsUI' = Activated(tabsUI, 0)
       ELSE UNCHANGED tabsUI
    /\ UNCHANGED <<tabFocus, activating, tabDisturbed>>

\* The timer of an arrow key and the animations are not stopped.
DestroyTabs ==
    /\ tabsUI.live
    /\ tabsUI' = [AbortLoad(tabsUI) EXCEPT !.live = FALSE, !.shown = tabsUI.tabs, !.marked = {}]
    /\ tabDisturbed' = TRUE
    /\ UNCHANGED <<tabOptions, tabFocus, activating>>

TabsUINext ==
    \/ UseEffects \/ EffectOver \/ ActivatingEnds \/ DestroyTabs
    \/ \E t \in 1..MaxTabs : ClickHeader(t) \/ RemoveTab(t) \/ EnableTab(t) \/ DisableTab(t)
    \/ \E b, ctrl \in BOOLEAN : ArrowKey(b, ctrl)
    \/ \E b \in BOOLEAN : SpaceOrEnter(b) \/ PageKey(b) \/ SetCollapsible(b)
    \/ \E q \in tabsUI.calls : PanelTimer(q) \/ \E status \in {"success", "error"} : PanelAnswered(q, status)

TabsUISpec == TabsUIInit /\ [][TabsUINext]_tabUIVars
------------------------------------------------------------------------------
\* Types of the widget and of its requests.
TabsUITypeOK ==
    /\ tabsUI.tabs \subseteq 1..MaxTabs /\ tabsUI.disabled \subseteq tabsUI.tabs
    /\ tabsUI.active \in 0..MaxTabs /\ tabsUI.index \in -1..(MaxTabs - 1)
    /\ tabsUI.phase \in {"still", "hiding", "showing"} /\ tabsUI.shown \subseteq 1..MaxTabs
    /\ tabFocus \in 0..MaxTabs /\ activating \in -1..(MaxTabs - 1)

\* Between animations the panel of the active tab is shown and no other, its
\* header is the only one marked, and the option "active" is its index; a
\* request goes on only for the active tab, and a header says that it loads
\* only as long as a request or its timer is left.  A tab that is taken away
\* during an animation, or while another one loads, may leave no panel at all.
PanelsHold ==
    /\ ~tabDisturbed /\ tabsUI.phase = "still"
          => /\ tabsUI.shown = PanelOf(tabsUI, tabsUI.active)
             /\ tabsUI.marked = {tabsUI.active} \ {NoHeader}
             /\ tabsUI.index = IF tabsUI.active = NoHeader THEN Collapsed
                               ELSE IndexOf(tabsUI, tabsUI.active)
    /\ ~tabDisturbed => \A q \in tabsUI.calls : q.status = "pending" => q.tab = tabsUI.active
    /\ tabsUI.loading = {q.tab : q \in tabsUI.calls}

==============================================================================
