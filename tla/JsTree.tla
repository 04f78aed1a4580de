-------------------------------- MODULE JsTree --------------------------------
(***************************************************************************)
(* A tree of jsTree with the plugins json_data, ui and search, as the page *)
(* of users and organizational units has it: a unit whose children are     *)
(* loaded when it is opened, and a user in it.  The tree may be opened,    *)
(* closed, searched and refreshed while answers are on their way, and what *)
(* is refreshed is made of new elements.                                   *)
(***************************************************************************)
EXTENDS Naturals, FiniteSets

CONSTANTS
    MaxRefreshes,  \* bound: calls of refresh()
    MaxLoadFails   \* bound: requests that fail

VARIABLES
    tree,        \* of each node: the number of its element (0: not in the document),
                 \* its class, jstree_is_loading, the classes jstree-loading,
                 \* jstree-clicked and jstree-search
    selected,    \* data.ui.selected: elements, in the document or not
    toSelect,    \* data.ui.to_select and data.core.to_open, by id
    toOpen, toLoad,
    loads,       \* requests for the children of an element, or for the tree
    copies,      \* elements made of each node
    twice,       \* history: children were put where there were some
    refreshesLeft, loadFailsLeft

treeVars == <<tree, selected, toSelect, toOpen, toLoad, loads, copies, twice, refreshesLeft, loadFailsLeft>>

TreeNodes == {"unit", "user"}
Absent == [copy |-> 0, class |-> "none", loading |-> FALSE, busy |-> FALSE, clicked |-> FALSE, found |-> FALSE]
Element(t, n) == <<n, t[n].copy>>
IsLoaded(t) == t["unit"].class = "open" \/ t["user"].copy # 0
There(t, n) == t[n].copy # 0

TreeInit ==
    /\ tree = [n \in TreeNodes |-> Absent]
    /\ selected = {} /\ toSelect = {} /\ toOpen = {} /\ toLoad = {}
    /\ loads = {[node |-> "tree", copy |-> 0, after |-> "refreshed"]}
    /\ copies = [n \in TreeNodes |-> 0]
    /\ twice = FALSE /\ refreshesLeft = MaxRefreshes /\ loadFailsLeft = MaxLoadFails

------------------------------------------------------------------------------
\* load_node_json(): an element that is being loaded is not asked for again, and
\* what was to follow is forgotten.
WithLoad(t, ls, after) ==
    IF t["unit"].loading THEN ls ELSE ls \union {[node |-> "unit", copy |-> t["unit"].copy, after |-> after]}
Loading(t) == [t EXCEPT !["unit"].loading = TRUE]

\* open_node()
Opens(t, ls) ==
    IF ~There(t, "unit") \/ t["unit"].class # "closed" THEN <<t, ls>>
    ELSE IF IsLoaded(t) THEN <<[t EXCEPT !["unit"].class = "open", !["unit"].busy = FALSE], ls>>
    ELSE <<[Loading(t) EXCEPT !["unit"].busy = TRUE], WithLoad(t, ls, "open")>>

\* deselect_all(), select_node(): the closed parents of what is selected open.
Clicked(t, ns) == [n \in TreeNodes |-> [t[n] EXCEPT !.clicked = n \in ns]]
ParentsOpen(t, n) == IF n = "user" /\ t["unit"].class = "closed"
                      THEN [t EXCEPT !["unit"].class = "open", !["unit"].busy = FALSE] ELSE t

Select(n) ==
    /\ There(tree, n) /\ ~tree[n].busy
    /\ tree' = ParentsOpen(Clicked(tree, {n}), n)
    /\ selected' = {Element(tree, n)}
    /\ UNCHANGED <<toSelect, toOpen, toLoad, loads, copies, twice, refreshesLeft, loadFailsLeft>>

\* With the key for several: select_node() or deselect_node().
SelectAlso(n) ==
    /\ There(tree, n) /\ ~tree[n].busy
    /\ IF Element(tree, n) \in selected
       THEN /\ selected' = selected \ {Element(tree, n)}
            /\ tree' = [tree EXCEPT ![n].clicked = FALSE]
       ELSE /\ selected' = selected \union {Element(tree, n)}
            /\ tree' = ParentsOpen([tree EXCEPT ![n].clicked = TRUE], n)
    /\ UNCHANGED <<toSelect, toOpen, toLoad, loads, copies, twice, refreshesLeft, loadFailsLeft>>

OpenNode ==
    /\ There(tree, "unit") /\ tree["unit"].class = "closed"
    /\ tree' = Opens(tree, loads)[1] /\ loads' = Opens(tree, loads)[2]
    /\ UNCHANGED <<selected, toSelect, toOpen, toLoad, copies, twice, refreshesLeft, loadFailsLeft>>

\* close_node: a selected child gives its selection to the parent.
CloseNode ==
    /\ tree["unit"].class = "open"
    /\ LET gives == tree["user"].clicked
       IN  /\ tree' = [tree EXCEPT !["unit"].class = "closed", !["unit"].clicked = @ \/ gives,
                                   !["user"].clicked = FALSE]
           /\ selected' = IF gives THEN (selected \ {Element(tree, "user")}) \union {Element(tree, "unit")}
                          ELSE selected
    /\ UNCHANGED <<toSelect, toOpen, toLoad, loads, copies, twice, refreshesLeft, loadFailsLeft>>

\* search(): what is in the document is marked, and its parents open.
SearchTree(ns) ==
    /\ tree' = [n \in TreeNodes |->
                   [(IF "user" \in ns /\ There(tree, "user") THEN ParentsOpen(tree, "user") ELSE tree)[n]
                        EXCEPT !.found = n \in ns /\ There(tree, n)]]
    /\ UNCHANGED <<selected, toSelect, toOpen, toLoad, loads, copies, twice, refreshesLeft, loadFailsLeft>>
ClearSearch == (\E n \in TreeNodes : tree[n].found) /\ SearchTree({})

\* refresh(): what is open and selected is kept by id.
SavedAndAsked ==
    /\ refreshesLeft > 0 /\ refreshesLeft' = refreshesLeft - 1
    /\ toSelect' = {e[1] : e \in selected}
    /\ toOpen' = IF tree["unit"].class = "open" THEN {"unit"} ELSE {}
    /\ UNCHANGED <<selected, toLoad, copies, twice, loadFailsLeft>>

RefreshTree ==
    /\ SavedAndAsked
    /\ tree' = [n \in TreeNodes |-> Absent]
    /\ loads' = loads \union {[node |-> "tree", copy |-> 0, after |-> "refreshed"]}

RefreshUnit ==
    /\ There(tree, "unit") /\ SavedAndAsked
    /\ tree' = [Loading(tree) EXCEPT !["user"] = Absent]
    /\ loads' = WithLoad(tree, loads, "refreshed")

------------------------------------------------------------------------------
KeepsGhosts(t, sel) == sel \union {Element(t, n) : n \in {m \in toSelect : There(t, m)}} \* mutant
\* reselect(): elements that are at the top of what was taken out are dropped; the
\* child keeps its parent and stays.
Reselected(t, sel) ==
    (sel \ {e \in sel : e[1] = "unit" /\ e # Element(t, "unit")})
        \union {Element(t, n) : n \in {m \in toSelect : There(t, m)}}

\* reload_nodes(): what was open is loaded first; the answer to that, or its failure,
\* comes back here.  Then what was open is opened and what was selected is selected.
Reloads(t, ls, back) ==
    LET asked == IF back THEN toLoad ELSE toLoad \union toOpen
        loading == asked # {} /\ There(t, "unit") /\ ~IsLoaded(t)
        t1 == IF loading THEN Loading(t) ELSE t
        ls1 == IF loading THEN WithLoad(t, ls, "again") ELSE ls
        opened == IF toOpen # {} THEN Opens(t1, ls1) ELSE <<t1, ls1>>
        again == {m \in toSelect : There(t, m)}
        shown == IF "user" \in again THEN ParentsOpen(opened[1], "user") ELSE opened[1]
    IN  /\ toLoad' = IF There(t, "unit") THEN {} ELSE asked
        /\ loads' = opened[2]
        /\ IF loading THEN tree' = opened[1] /\ UNCHANGED selected
           ELSE /\ tree' = [n \in TreeNodes |-> [shown[n] EXCEPT !.clicked = @ \/ n \in again]]
                /\ selected' = Reselected(t, selected)

\* What follows a load that was answered, or failed.
Goes(q, t, ls, ok) ==
    IF q.after = "again" \/ (q.after = "refreshed" /\ ok) THEN Reloads(t, ls, q.after = "again")
    ELSE LET next == IF ok THEN Opens(t, ls) ELSE <<t, ls>>
         IN  tree' = next[1] /\ loads' = next[2] /\ UNCHANGED <<selected, toLoad>>

\* The answer for an element that was taken out goes to that element.
Here(q) == q.node = "tree" \/ (There(tree, "unit") /\ q.copy = tree["unit"].copy)
Filled(q, n) ==
    LET new == [Absent EXCEPT !.copy = copies[n] + 1, !.class = IF n = "unit" THEN "closed" ELSE "leaf"]
    IN  IF q.node = "tree" THEN [unit |-> new, user |-> Absent]
        ELSE [tree EXCEPT !["user"] = new, !["unit"].loading = FALSE, !["unit"].busy = FALSE]

TreeLoaded(q) ==
    /\ q \in loads
    /\ LET n == IF q.node = "tree" THEN "unit" ELSE "user"
       IN  /\ copies' = IF Here(q) THEN [copies EXCEPT ![n] = @ + 1] ELSE copies
           /\ twice' = (twice \/ (Here(q) /\ q.node = "unit" /\ There(tree, "user")))
           /\ Goes(q, IF Here(q) THEN Filled(q, n) ELSE tree, loads \ {q}, TRUE)
    /\ UNCHANGED <<toSelect, toOpen, refreshesLeft, loadFailsLeft>>

LoadFails(q) ==
    /\ q \in loads /\ loadFailsLeft > 0 /\ loadFailsLeft' = loadFailsLeft - 1
    /\ LET settled == [tree EXCEPT !["unit"].loading = FALSE, !["unit"].busy = FALSE]
       IN  Goes(q, IF Here(q) /\ q.node = "unit" THEN settled ELSE tree, loads \ {q}, FALSE)
    /\ UNCHANGED <<toSelect, toOpen, copies, twice, refreshesLeft>>

TreeNext ==
    \/ \E n \in TreeNodes : Select(n) \/ SelectAlso(n)
    \/ OpenNode \/ CloseNode \/ RefreshTree \/ RefreshUnit \/ ClearSearch
    \/ \E ns \in SUBSET TreeNodes : SearchTree(ns)
    \/ \E q \in loads : TreeLoaded(q) \/ LoadFails(q)

TreeSpec == TreeInit /\ [][TreeNext]_treeVars
------------------------------------------------------------------------------
TreeTypeOK ==
    /\ \A n \in TreeNodes : tree[n].copy \in 0..copies[n] /\ tree[n].class \in {"none", "open", "closed", "leaf"}
    /\ selected \subseteq {<<n, k>> : n \in TreeNodes, k \in 1..copies["unit"] + copies["user"]}
    /\ toSelect \subseteq TreeNodes /\ toOpen \subseteq {"unit"} /\ toLoad \subseteq {"unit"}

\* What the page sends is what is marked: of the elements in the document exactly
\* those that show as clicked are selected, no unit is selected that is gone, and
\* children are never there twice, nor does an element load for ever - whatever
\* is opened, closed and refreshed before the answers come.  (A child that was
\* taken out of the document stays selected.)
SelectionShown ==
    /\ \A n \in TreeNodes : There(tree, n) => (tree[n].clicked <=> Element(tree, n) \in selected)
    /\ ~twice
    /\ There(tree, "unit") /\ tree["unit"].loading => \E q \in loads : q.node = "unit" /\ q.copy = tree["unit"].copy
    /\ loads = {} => Cardinality({e \in selected : e[1] = "unit"}) <= 1

==============================================================================
