------------------------------ MODULE UISortable ------------------------------
(***************************************************************************)
(* Connected lists of jQuery UI whose items are sorted with the mouse      *)
(* (ui.sortable): the rows of a table, the widgets of the dashboard.  While *)
(* an item is dragged a placeholder is moved in its stead; when it is let   *)
(* go the item takes that place and the page is told the order of the lists *)
(* that changed, which it sends to the server.  An answer of the server may *)
(* draw a list anew at any time, also under a drag.                        *)
(***************************************************************************)
EXTENDS Naturals, FiniteSets, SequencesExt

CONSTANTS
    Item,       \* items of the lists
    MaxRedraws  \* bound: lists drawn anew

\* The placeholder, and the name of no item, are no items.
ASSUME SortAssumption ==
    /\ IsFiniteSet(Item) /\ {"placeholder", "none"} \intersect Item = {}
    /\ MaxRedraws \in Nat

VARIABLES
    dom,          \* the children of each list: items and the placeholder
    sorting,      \* the drag that goes on
    toldOrder,    \* the order of each list as the page was told it last
    redrawsLeft,
    cancelled     \* history: cancel() was called during a drag

sortVars == <<dom, sorting, toldOrder, redrawsLeft, cancelled>>

Containers == {"dashboard1", "dashboard2"}
Placeholder == "placeholder"
NotSorting == [on |-> FALSE]

SortInit ==
    /\ dom = [c \in Containers |-> IF c = "dashboard1" THEN SetToSeq(Item) ELSE <<>>]
    /\ toldOrder = dom /\ sorting = NotSorting
    /\ redrawsLeft = MaxRedraws /\ cancelled = FALSE

HasPlaceholder(c) == Contains(dom[c], Placeholder)
Attached == \E c \in Containers : HasPlaceholder(c)
PrevOf(list, i) == LET k == SelectInSeq(list, LAMBDA x : x = i) IN IF k = 1 THEN "none" ELSE list[k - 1]

------------------------------------------------------------------------------
\* _mouseCapture(), _mouseStart(): the lists and their items are looked up anew,
\* the place of the item is kept, the placeholder goes behind it.
StartSort(c, i) ==
    /\ ~sorting.on /\ Contains(dom[c], i)
    /\ sorting' = [on |-> TRUE, item |-> i, parent |-> c, prev |-> PrevOf(dom[c], i), reverting |-> FALSE,
                   detached |-> FALSE, stale |-> {}]
    /\ dom' = [dom EXCEPT ![c] = InsertAt(@, SelectInSeq(@, LAMBDA x : x = i) + 1, Placeholder)]
    /\ UNCHANGED <<toldOrder, redrawsLeft, cancelled>>

Without(x) == [c \in Containers |-> RemoveFirst(dom[c], x)]

\* _rearrange(): within the list or, by _contactContainers(), into another; the
\* items of a list drawn anew are not those that were looked up.
Rearrange(c, k) ==
    /\ sorting.on /\ ~sorting.reverting /\ c \notin sorting.stale /\ Attached
    /\ k \in 1..(Len(Without(Placeholder)[c]) + 1)
    /\ dom' = [Without(Placeholder) EXCEPT ![c] = InsertAt(@, k, Placeholder)]
    /\ dom' # dom
    /\ UNCHANGED <<sorting, toldOrder, redrawsLeft, cancelled>>

\* option revert: the helper flies to the place first.
Reverts ==
    /\ sorting.on /\ ~sorting.reverting
    /\ sorting' = [sorting EXCEPT !.reverting = TRUE]
    /\ UNCHANGED <<dom, toldOrder, redrawsLeft, cancelled>>

\* The item, if it is in the document still, takes the place of the placeholder.
Taken ==
    LET i == sorting.item
    IN  IF sorting.detached THEN Without(Placeholder)
        ELSE [c \in Containers |->
                 LET rest == RemoveFirst(dom[c], i)
                 IN  [k \in DOMAIN rest |-> IF rest[k] = Placeholder THEN i ELSE rest[k]]]
InList(d, i) == CHOOSE c \in Containers : Contains(d[c], i)

InformedHere(c) == {sorting.parent} \* mutant
\* "update" comes where the item was, and where it came from elsewhere.
Informed(c) == {sorting.parent, c}

SortChanged(d, c) ==
    c # sorting.parent \/ sorting.detached \/ PrevOf(d[c], sorting.item) # sorting.prev

\* _clear(): a placeholder that was drawn over has no parent, and the exception
\* comes before the page is told.
Clear ==
    IF ~Attached
    THEN UNCHANGED <<dom, toldOrder>>
    ELSE LET c == CHOOSE x \in Containers : HasPlaceholder(x)
         IN  /\ dom' = Taken
             /\ toldOrder' = IF SortChanged(Taken, c)
                             THEN [x \in Containers |-> IF x \in Informed(c) THEN Taken[x] ELSE toldOrder[x]]
                             ELSE toldOrder

\* _mouseStop().
StopSort ==
    /\ sorting.on /\ Clear
    /\ sorting' = NotSorting
    /\ UNCHANGED <<redrawsLeft, cancelled>>

\* cancel(): first as if the item were let go, and the page is told; then the
\* item is put back behind the one it had before it, or first.
CancelSort ==
    /\ sorting.on /\ sorting.stale = {}
    /\ LET i == sorting.item
           p == sorting.parent
           c == CHOOSE x \in Containers : HasPlaceholder(x)
           rest == [x \in Containers |-> RemoveFirst(Taken[x], i)]
           at == IF sorting.prev = "none" THEN 1 ELSE SelectInSeq(rest[p], LAMBDA x : x = sorting.prev) + 1
       IN  /\ toldOrder' = IF SortChanged(Taken, c)
                           THEN [x \in Containers |-> IF x \in Informed(c) THEN Taken[x] ELSE toldOrder[x]]
                           ELSE toldOrder
           /\ dom' = [rest EXCEPT ![p] = InsertAt(@, at, i)]
    /\ sorting' = NotSorting /\ cancelled' = TRUE
    /\ UNCHANGED redrawsLeft

\* The page draws a list anew, as the server has it.
Redraw(c) ==
    /\ redrawsLeft > 0 /\ redrawsLeft' = redrawsLeft - 1
    /\ dom' = [dom EXCEPT ![c] = toldOrder[c]]
    /\ sorting' = IF sorting.on
                  THEN [sorting EXCEPT !.stale = @ \union {c}, !.detached = @ \/ c = sorting.parent]
                  ELSE sorting
    /\ UNCHANGED <<toldOrder, cancelled>>

SortNext ==
    \/ \E c \in Containers, i \in Item : StartSort(c, i)
    \/ \E c \in Containers, k \in 1..Len(SetToSeq(Item)) + 1 : Rearrange(c, k)
    \/ Reverts \/ StopSort \/ CancelSort
    \/ \E c \in Containers : Redraw(c)

SortSpec == SortInit /\ [][SortNext]_sortVars
------------------------------------------------------------------------------
SortTypeOK ==
    /\ dom \in [Containers -> Seq(Item \union {Placeholder})] /\ toldOrder \in [Containers -> Seq(Item)]
    /\ redrawsLeft \in 0..MaxRedraws

\* Every item is in one place of one list, whatever was dragged where, stopped or
\* drawn anew meanwhile; when nothing is dragged no placeholder is left and the
\* page was told the order of every list, so that the server gets what the user
\* sees - unless cancel() was called, which tells an order that it then undoes.
OrderTold ==
    ~cancelled =>
        /\ \A i \in Item : \E c \in Containers : \E k \in DOMAIN dom[c] :
              \A d \in Containers : \A n \in DOMAIN dom[d] : dom[d][n] = i <=> d = c /\ n = k
        /\ ~sorting.on => dom = toldOrder

==============================================================================
