--------------------------------- MODULE Tabs ---------------------------------
(***************************************************************************)
(* A menu of tabs (tabMenu.js) whose content is hung in the page when a    *)
(* tab is shown (hangTable, table-helper.js).  One hidden form carries the *)
(* parameters of every request.                                            *)
(***************************************************************************)
EXTENDS Naturals, FiniteSets, Sequences

CONSTANTS
    Tab,        \* the sequence of tabs
    OwnParams,  \* the additional parameters of each tab, as parameter -> value
    MaxTabCalls \* bound: requests for tabs on their way at once

\* There is a tab to begin with, and no tab calls a parameter "directory".
ASSUME TabsAssumption ==
    /\ Len(Tab) \in Nat \ {0} /\ DOMAIN Tab = 1..Len(Tab)
    /\ \A i \in DOMAIN Tab : "directory" \notin DOMAIN OwnParams[Tab[i]]

NoTab == "no tab"
TabIds == {Tab[i] : i \in DOMAIN Tab}

VARIABLES
    tabMenu,    \* activeTab, the tab of class "current", activeTabIdx
    tableForm,  \* the hidden inputs: directory, and the additional parameters
    tabData,    \* what the page shows: a tab, the spinner or nothing
    tabCalls,   \* requests on their way
    tabCrossed  \* history: two requests were on their way at once

tabsVars == <<tabMenu, tableForm, tabData, tabCalls, tabCrossed>>

TabsInit ==
    /\ tabMenu = [active |-> Tab[1], current |-> NoTab, idx |-> 1]
    /\ tableForm = <<>>
    /\ tabData = "blank"
    /\ tabCalls = {}
    /\ tabCrossed = FALSE

InputsKept(form, tab) == \* mutant
    [n \in DOMAIN form \union DOMAIN OwnParams[tab] \union {"directory"} |->
        IF n \in DOMAIN form THEN form[n] ELSE IF n = "directory" THEN tab ELSE OwnParams[tab][n]]

\* What stays in the form when another tab writes its parameters over it.
Inputs(form, tab) ==
    [n \in DOMAIN form \union DOMAIN OwnParams[tab] \union {"directory"} |->
        IF n = "directory" THEN tab
        ELSE IF n \in DOMAIN OwnParams[tab] THEN OwnParams[tab][n] ELSE form[n]]

\* showActiveTab(): nothing if there is no such tab.
ShowActiveTab(tab, idx) ==
    IF tab = NoTab
    THEN /\ tabMenu' = [tabMenu EXCEPT !.active = NoTab, !.idx = idx]
         /\ UNCHANGED <<tableForm, tabData, tabCalls, tabCrossed>>
    ELSE /\ tabMenu' = [active |-> tab, current |-> tab, idx |-> idx]
         /\ tableForm' = Inputs(tableForm, tab)
         /\ \E n \in 1..MaxTabCalls :
               /\ \A q \in tabCalls : q.id # n
               /\ tabCalls' = tabCalls \union {[id |-> n, tab |-> tab, params |-> tableForm']}
         /\ tabData' = "loading"
         /\ tabCrossed' = (tabCrossed \/ tabCalls # {})

\* A click does not move activeTabIdx.
ClickTab(i) == ShowActiveTab(Tab[i], tabMenu.idx)

TabAt(i) == IF i \in DOMAIN Tab THEN Tab[i] ELSE NoTab

\* next() stops one behind the last tab.
NextTab == tabMenu.idx <= Len(Tab) /\ ShowActiveTab(TabAt(tabMenu.idx + 1), tabMenu.idx + 1)
PreviousTab == tabMenu.idx > 1 /\ ShowActiveTab(TabAt(tabMenu.idx - 1), tabMenu.idx - 1)
FirstTab == ShowActiveTab(Tab[1], 1)
LastTab == ShowActiveTab(Tab[Len(Tab)], Len(Tab))

TabHung(q) ==
    /\ tabCalls' = tabCalls \ {q} /\ tabData' = q.tab
    /\ UNCHANGED <<tabMenu, tableForm, tabCrossed>>

\* The spinner was put without saving what it covers, so that restoreHidden()
\* leaves nothing.
TabFails(q) ==
    /\ tabCalls' = tabCalls \ {q} /\ tabData' = "blank"
    /\ UNCHANGED <<tabMenu, tableForm, tabCrossed>>

TabsNext ==
    \/ \E i \in DOMAIN Tab : ClickTab(i)
    \/ NextTab \/ PreviousTab \/ FirstTab \/ LastTab
    \/ \E q \in tabCalls : TabHung(q) \/ TabFails(q)

TabsSpec == TabsInit /\ [][TabsNext]_tabsVars
------------------------------------------------------------------------------
\* Types of the menu and of the page.
TabsTypeOK ==
    /\ tabMenu.active \in TabIds \union {NoTab} /\ tabMenu.current \in TabIds \union {NoTab}
    /\ tabMenu.idx \in 1..(Len(Tab) + 1)
    /\ tabData \in TabIds \union {"loading", "blank"}

\* Every request for a tab carries its directory and each of its own additional
\* parameters, whatever other tabs left in the form; and the tab marked as
\* current is the one the page shows or waits for, unless requests crossed.
TabAskedAndShown ==
    /\ \A q \in tabCalls : /\ q.params["directory"] = q.tab
                           /\ \A n \in DOMAIN OwnParams[q.tab] : q.params[n] = OwnParams[q.tab][n]
    /\ ~tabCrossed => tabData \in {tabMenu.current, "loading", "blank"}

==============================================================================
