------------------------------- MODULE Combobox -------------------------------
(***************************************************************************)
(* The combobox in which groups and users are chosen: a text field with    *)
(* the autocompletion of jQuery UI and its menu over a hidden select,      *)
(* whose option is what the form sends.  A timer starts the searches, the  *)
(* menu keeps items that were looked up before, and the page draws the     *)
(* options anew whenever the server has answered a form.                   *)
(***************************************************************************)
EXTENDS Naturals, FiniteSets

CONSTANTS
    Label,      \* texts of options
    Garbage,    \* text of no option
    NoLabel,    \* the empty text
    MaxTyped,   \* bound: times the text is typed
    MaxFresh    \* bound: times the options are drawn anew

VARIABLES
    options,     \* texts of the options of the select
    chosen,      \* the selected option
    field,       \* text, focused, previous (text at the focus), term, selectedItem
    searching,   \* the timer of _searchTimeout
    menu,        \* shown, items, active, the timer of collapseAll, and whether
                 \* the options of its items have been drawn over
    wasOpen,     \* of the button: its mouse is down, and the menu was shown then
    typedLeft, freshLeft,
    rethought    \* history: the text changed after a choice of the same visit to
                 \* the field, or the options were drawn anew during the visit, or
                 \* an item was chosen whose option was drawn over

comboVars == <<options, chosen, field, searching, menu, wasOpen, typedLeft, freshLeft, rethought>>

Texts == Label \union {Garbage, NoLabel}
NoMenu == [shown |-> FALSE, items |-> {}, active |-> NoLabel, collapsing |-> FALSE, old |-> FALSE]

ComboInit ==
    /\ options = Label /\ chosen = NoLabel
    /\ field = [text |-> NoLabel, focused |-> FALSE, previous |-> NoLabel, term |-> NoLabel, selectedItem |-> NoLabel]
    /\ searching = FALSE /\ menu = NoMenu /\ wasOpen = "up"
    /\ typedLeft = MaxTyped /\ freshLeft = MaxFresh /\ rethought = FALSE

\* _source(): the options the text is part of, all of them for the empty text.
Found(value) == IF value = NoLabel THEN options ELSE options \intersect {value}

\* search(), _suggest(), _close(): the source answers at once; the menu is filled
\* anew or hidden, and nothing in it is active.
Search(value) == [menu EXCEPT !.shown = Found(value) # {}, !.items = Found(value), !.active = NoLabel,
                                 !.old = FALSE]
HiddenMenu == [menu EXCEPT !.shown = FALSE, !.active = NoLabel]

\* The text is changed by the user or by an active item.
Retext(text) == rethought' = (rethought \/ (field.selectedItem # NoLabel /\ text # field.text))
------------------------------------------------------------------------------
FocusField ==
    /\ ~field.focused /\ wasOpen = "up"
    /\ field' = [field EXCEPT !.focused = TRUE, !.selectedItem = NoLabel, !.previous = field.text]
    /\ UNCHANGED <<options, chosen, searching, menu, wasOpen, typedLeft, freshLeft, rethought>>

\* keydown and input: the search comes later.
Type(text) ==
    /\ field.focused /\ typedLeft > 0 /\ typedLeft' = typedLeft - 1
    /\ field' = [field EXCEPT !.text = text] /\ Retext(text)
    /\ searching' = TRUE
    /\ UNCHANGED <<options, chosen, menu, wasOpen, freshLeft>>

\* The timer: only if the text has changed since the last search.
SearchTimeout ==
    /\ searching /\ searching' = FALSE
    /\ IF field.term = field.text THEN UNCHANGED <<field, menu>>
       ELSE /\ field' = [field EXCEPT !.selectedItem = NoLabel, !.term = field.text]
            /\ menu' = Search(field.text)
    /\ UNCHANGED <<options, chosen, wasOpen, typedLeft, freshLeft, rethought>>

\* _move(): the arrows search when the menu is hidden, else put the text of the
\* next item into the field, or behind the last one that of the search.
MoveHidden ==
    /\ field.focused /\ ~menu.shown
    /\ field' = [field EXCEPT !.term = field.text]
    /\ menu' = Search(field.text)
    /\ UNCHANGED <<options, chosen, searching, wasOpen, typedLeft, freshLeft, rethought>>

MoveTo(i) ==
    /\ field.focused /\ menu.shown /\ i \in menu.items \ {menu.active}
    /\ menu' = [menu EXCEPT !.active = i]
    /\ field' = [field EXCEPT !.text = i] /\ Retext(i)
    /\ UNCHANGED <<options, chosen, searching, wasOpen, typedLeft, freshLeft>>

MoveBeyond ==
    /\ field.focused /\ menu.shown /\ menu.active # NoLabel
    /\ menu' = [menu EXCEPT !.active = NoLabel]
    /\ field' = [field EXCEPT !.text = field.term] /\ Retext(field.term)
    /\ UNCHANGED <<options, chosen, searching, wasOpen, typedLeft, freshLeft>>

\* The mouse makes an item active; the menu collapses a while after it has left.
Hover(i) ==
    /\ menu.shown /\ i \in menu.items
    /\ menu' = [menu EXCEPT !.active = i, !.collapsing = FALSE]
    /\ UNCHANGED <<options, chosen, field, searching, wasOpen, typedLeft, freshLeft, rethought>>
MouseLeaves ==
    /\ menu.shown /\ ~menu.collapsing
    /\ menu' = [menu EXCEPT !.collapsing = TRUE]
    /\ UNCHANGED <<options, chosen, field, searching, wasOpen, typedLeft, freshLeft, rethought>>
CollapseAll ==
    /\ menu.collapsing
    /\ menu' = [menu EXCEPT !.active = NoLabel, !.collapsing = FALSE]
    /\ UNCHANGED <<options, chosen, field, searching, wasOpen, typedLeft, freshLeft, rethought>>

\* menuselect: by Enter, Tab or a click; an option that was drawn over is selected
\* for nobody.
SelectItem ==
    /\ field.focused /\ menu.shown /\ menu.active # NoLabel
    /\ LET i == menu.active
       IN  /\ chosen' = IF menu.old THEN chosen ELSE i
           /\ rethought' = (chosen' # i)
           /\ field' = [field EXCEPT !.text = i, !.term = i, !.selectedItem = i]
    /\ menu' = [HiddenMenu EXCEPT !.collapsing = TRUE]
    /\ UNCHANGED <<options, searching, wasOpen, typedLeft, freshLeft>>

Escape ==
    /\ field.focused /\ menu.shown
    /\ field' = [field EXCEPT !.text = field.term] /\ Retext(field.term)
    /\ menu' = HiddenMenu
    /\ UNCHANGED <<options, chosen, searching, wasOpen, typedLeft, freshLeft>>

KeepsInvalid(f) == f \* mutant
\* _removeIfInvalid(): a text of no option is taken away.
RemoveIfInvalid(f) ==
    IF f.selectedItem # NoLabel \/ f.text \in options THEN f ELSE [f EXCEPT !.text = NoLabel, !.term = NoLabel]

\* blur: the search that waits is dropped, the menu hides, and a text that is not
\* what it was at the focus is looked at.
Leave ==
    /\ field.focused
    /\ searching' = FALSE /\ menu' = HiddenMenu
    /\ LET changed == field.previous # field.text
       IN  /\ field' = [(IF changed THEN RemoveIfInvalid(field) ELSE field) EXCEPT !.focused = FALSE]
           /\ chosen' = IF ~changed \/ field.selectedItem # NoLabel THEN chosen
                        ELSE IF field.text \in options THEN field.text ELSE NoLabel
    /\ UNCHANGED <<options, typedLeft, freshLeft, rethought>>

Blur == Leave /\ UNCHANGED wasOpen

\* The button that shows all: mousedown takes the focus away, the click gives it
\* back and searches unless the menu was shown.
ButtonDown ==
    /\ wasOpen = "up" /\ wasOpen' = IF menu.shown THEN "shown" ELSE "hidden"
    /\ \/ Leave
       \/ ~field.focused /\ UNCHANGED <<options, chosen, field, searching, menu, typedLeft, freshLeft, rethought>>
ButtonClick ==
    /\ wasOpen # "up" /\ wasOpen' = "up"
    /\ field' = [field EXCEPT !.focused = TRUE, !.selectedItem = NoLabel, !.previous = field.text,
                              !.term = IF wasOpen = "hidden" THEN field.text ELSE @]
    /\ menu' = IF wasOpen = "hidden" THEN Search(NoLabel) ELSE menu
    /\ UNCHANGED <<options, chosen, searching, typedLeft, freshLeft, rethought>>

\* The page draws the options of an answer and calls clearText(): the browser
\* selects the first, and the field shows nothing.
Redrawn(ls) ==
    /\ freshLeft > 0 /\ freshLeft' = freshLeft - 1
    /\ options' = ls /\ chosen' \in IF ls = {} THEN {NoLabel} ELSE ls
    /\ field' = [field EXCEPT !.text = NoLabel]
    /\ menu' = [menu EXCEPT !.old = TRUE]
    /\ rethought' = field.focused
    /\ UNCHANGED <<searching, wasOpen, typedLeft>>

ComboNext ==
    \/ FocusField \/ SearchTimeout \/ MoveHidden \/ MoveBeyond \/ MouseLeaves \/ CollapseAll \/ SelectItem
    \/ Escape \/ Blur \/ ButtonDown \/ ButtonClick
    \/ \E text \in Texts : Type(text)
    \/ \E i \in Label : MoveTo(i) \/ Hover(i)
    \/ \E ls \in SUBSET Label : Redrawn(ls)

ComboSpec == ComboInit /\ [][ComboNext]_comboVars
------------------------------------------------------------------------------
ComboTypeOK ==
    /\ chosen \in options \union {NoLabel}
    /\ field.text \in Texts /\ field.term \in Texts /\ field.previous \in Texts
    /\ field.selectedItem \in Label \union {NoLabel} /\ menu.active \in menu.items \union {NoLabel}

\* What the form sends is what the user sees: when the field has been left, its
\* text is empty or that of the selected option, however it was typed, browsed,
\* chosen from the menu or drawn anew, unless the user changed the text after a
\* choice of the same visit or was in the field when it was drawn anew; and the menu, which a key would choose from, is
\* not shown once the field has been left.
ChoiceMatches ==
    /\ ~field.focused /\ ~rethought /\ field.text # NoLabel => field.text = chosen
    /\ ~field.focused => ~menu.shown

==============================================================================
