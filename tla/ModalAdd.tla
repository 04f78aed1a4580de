------------------------------- MODULE ModalAdd -------------------------------
(***************************************************************************)
(* Rows added in a dialog for the benefit of a select in the page beneath: *)
(* the form of the new row, the row added, its next page, and the cancel   *)
(* that takes it back (modalChangeView, modalAddNewRow, modalCancelAddRow  *)
(* of table-helper.js on dialog.js).                                       *)
(***************************************************************************)
EXTENDS Naturals, FiniteSets

CONSTANTS
    MaxRows,    \* bound: rows added
    MaxModal,   \* bound: requests on their way at once
    MaxModalLost \* bound: requests refused or lost

ASSUME ModalAssumption == MaxRows \in Nat /\ MaxModal \in Nat /\ MaxModalLost \in Nat

VARIABLES
    modal,        \* the dialog: open, what it shows, and its form's button
    choices,      \* the choices of the select in the page beneath
    modalRows,    \* server: the rows of the table
    modalCalls,   \* requests on their way
    rowsMade,     \* how many rows were ever added
    modalLost     \* how many requests were refused or lost

modalVars == <<modal, choices, modalRows, modalCalls, rowsMade, modalLost>>

ModalRow == 1..MaxRows
Closed == [open |-> FALSE, shows |-> "none", row |-> 0, button |-> "own", element |-> 0]

ModalInit ==
    /\ modal = Closed /\ choices = {} /\ modalRows = {} /\ modalCalls = {} /\ rowsMade = 0
    /\ modalLost = 0

\* Every dialog is an element of its own.
NewElement == CHOOSE n \in 1..(MaxModal + 1) : \A q \in modalCalls : q.element # n

ModalAsk(q) ==
    /\ Cardinality(modalCalls) < MaxModal /\ q \notin modalCalls
    /\ modalCalls' = modalCalls \union {q}

------------------------------------------------------------------------------
\* modalChangeView(): the dialog is created, or reused, and loads its form.
ModalChangeView ==
    /\ ~modal.open /\ rowsMade < MaxRows
    /\ modal' = [open |-> TRUE, shows |-> "loading", row |-> 0, button |-> "own", element |-> NewElement]
    /\ ModalAsk([op |-> "form", element |-> NewElement, row |-> 0])
    /\ UNCHANGED <<choices, modalRows, rowsMade, modalLost>>

\* loadInExistent(): the answer goes to the element of the dialog it was asked
\* for; a dialog that was closed meanwhile has been taken out of the document.
DialogLoaded(q) ==
    /\ q.op \in {"form", "nextPage"} /\ modalCalls' = modalCalls \ {q}
    /\ modal' = IF modal.open /\ modal.element = q.element
                THEN [modal EXCEPT !.shows = q.op, !.row = q.row, !.button = "own"] ELSE modal
    /\ UNCHANGED <<choices, modalRows, rowsMade, modalLost>>

\* load() shows nothing of a request that failed: the spinner stays.
DialogNotLoaded(q) ==
    /\ q.op \in {"form", "nextPage"} /\ modalLost < MaxModalLost
    /\ modalCalls' = modalCalls \ {q}
    /\ modalLost' = modalLost + 1
    /\ UNCHANGED <<modal, choices, modalRows, rowsMade>>

ModalAddNewRow ==
    /\ modal.open /\ modal.shows = "form" /\ modal.button = "own"
    /\ modal' = [modal EXCEPT !.button = "loading"]
    /\ ModalAsk([op |-> "add", element |-> modal.element, row |-> 0])
    /\ UNCHANGED <<choices, modalRows, rowsMade, modalLost>>

ServeModal(q) ==
    \/ /\ q.op = "add" /\ rowsMade < MaxRows
       /\ rowsMade' = rowsMade + 1 /\ modalRows' = modalRows \union {rowsMade'}
       /\ modalCalls' = (modalCalls \ {q}) \union {[op |-> "added", element |-> q.element, row |-> rowsMade']}
       /\ UNCHANGED <<modal, choices, modalLost>>
    \/ /\ q.op = "cancelAdd"
       /\ modalRows' = modalRows \ {q.row}
       /\ modalCalls' = (modalCalls \ {q}) \union {[op |-> "cancelled", element |-> q.element, row |-> q.row]}
       /\ UNCHANGED <<modal, choices, rowsMade, modalLost>>

\* The choice is added wherever the dialog is; the next page is shown in the
\* dialog, which is made anew if it was closed.
RowAdded(q) ==
    /\ q.op = "added"
    /\ choices' = choices \union {q.row}
    /\ LET n == IF modal.open THEN modal.element ELSE NewElement
       IN  /\ modal' = [open |-> TRUE, shows |-> "loading", row |-> 0, button |-> "own", element |-> n]
           /\ modalCalls' = (modalCalls \ {q}) \union {[op |-> "nextPage", element |-> n, row |-> q.row]}
    /\ UNCHANGED <<modalRows, rowsMade, modalLost>>

\* The server refuses, or the request is lost before it or after.
ModalCallFails(q) ==
    /\ q.op \in {"add", "added", "cancelAdd", "cancelled"} /\ modalLost < MaxModalLost
    /\ modalLost' = modalLost + 1
    /\ modal' = IF q.op \in {"add", "added"} /\ modal.open /\ modal.element = q.element
                THEN [modal EXCEPT !.button = "own"] ELSE modal
    /\ modalCalls' = modalCalls \ {q}
    /\ UNCHANGED <<choices, modalRows, rowsMade>>

ModalCancelAddRow ==
    /\ modal.open /\ modal.shows = "nextPage"
    /\ ModalAsk([op |-> "cancelAdd", element |-> modal.element, row |-> modal.row])
    /\ UNCHANGED <<modal, choices, modalRows, rowsMade, modalLost>>

KeepsChoice(q) == choices \* mutant

\* removeSelectChoice()
WithoutChoice(q) == choices \ {q.row}

RowCancelled(q) ==
    /\ q.op = "cancelled" /\ modalCalls' = modalCalls \ {q}
    /\ choices' = WithoutChoice(q) /\ modal' = Closed
    /\ UNCHANGED <<modalRows, rowsMade, modalLost>>

\* The dialog's own cross: the row that was added stays.
CloseModal ==
    /\ modal.open /\ modal' = Closed
    /\ UNCHANGED <<choices, modalRows, modalCalls, rowsMade, modalLost>>

ModalNext ==
    \/ ModalChangeView \/ ModalAddNewRow \/ ModalCancelAddRow \/ CloseModal
    \/ \E q \in modalCalls :
          \/ DialogLoaded(q) \/ DialogNotLoaded(q) \/ ServeModal(q)
          \/ RowAdded(q) \/ ModalCallFails(q) \/ RowCancelled(q)

ModalSpec == ModalInit /\ [][ModalNext]_modalVars
------------------------------------------------------------------------------
\* Types of the dialog, the select and the requests.
ModalTypeOK ==
    /\ modal.shows \in {"none", "loading", "form", "nextPage"} /\ modal.button \in {"own", "loading"}
    /\ choices \subseteq ModalRow /\ modalRows \subseteq ModalRow /\ rowsMade \in 0..MaxRows

\* With nothing on its way and nothing lost, the select offers exactly the
\* rows the server has, whenever dialogs were closed and rows cancelled.
ChoicesAreRows ==
    modalCalls = {} /\ modalLost = 0 => choices = modalRows

==============================================================================
