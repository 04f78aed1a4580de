----------------------------- MODULE TableHelper -----------------------------
(***************************************************************************)
(* The page of a table of rows: table-helper.js and the answers of the     *)
(* controller (CGI/Controller/DataTable.pm) its callbacks rely on.  Every  *)
(* operation replaces a part of the page with a spinner, sends a request   *)
(* and returns; the callbacks run when the answer comes, in any order.     *)
(***************************************************************************)
EXTENDS Naturals, FiniteSets, SequencesExt

CONSTANTS
    Row,          \* identifiers of rows
    Table,        \* the table itself, for the places that are no row's
    MaxRequests,  \* bound: requests of one page
    MaxLost       \* bound: requests that fail or are refused

\* The names of forms, and that of the table, are no row's.
ASSUME TableAssumption ==
    /\ IsFiniteSet(Row) /\ Row # {} /\ Table \notin Row /\ {"none", "add", "inUse"} \intersect Row = {}
    /\ MaxRequests \in Nat /\ MaxLost \in Nat

VARIABLES
    tableKind,    \* what the table offers: rows to edit, check boxes or custom
                  \* actions; "none" before the page is opened
    view,         \* the document, and the global savedElements
    dbRows,       \* the rows the server has, in order
    dbChecks,     \* the rows whose boolean field is set on the server
    requests,     \* requests on their way, and answers on their way back
    issued,       \* how many requests there have been
    lost,         \* history: operations that failed, were refused or questioned
    sent,         \* history: operations asked for
    overlapped    \* history: two requests were pending at once, or one was
                  \* sent past an open question

tableVars == <<tableKind, view, dbRows, dbChecks, requests, issued, lost, sent, overlapped>>

Buttons == <<"buttons", Table>>
CreatingForm == <<"creatingForm", Table>>
Pager == <<"pager", Table>>
Actions(r) == <<"actionsCell", r>>
Custom(r) == <<"customActions", r>>
Check(r) == <<"checkbox", r>>

\* The parts of the page that are replaced by a spinner.
Place == {Buttons, CreatingForm, Pager}
            \union ({"actionsCell", "customActions", "checkbox"} \X Row)

\* What a place shows: what the page put there, the spinner, nothing, a check
\* box hidden beside a small spinner, or one hidden for good.
Content == {"own", "loading", "blank", "sending", "hidden"}

\* A freshly rendered table; the global savedElements survives the rendering.
\* inUse and warning are the rows of the two questions "data in use" there may
\* be, in the form and above the table; rendered, the check boxes as rendered.
Rendered(v, rs, cs) ==
    [v EXCEPT !.html = [p \in Place |-> "own"], !.top = TRUE, !.form = "none",
              !.formShown = FALSE, !.inUse = Table, !.warning = Table, !.rows = rs,
              !.checked = cs, !.rendered = cs, !.disabled = {}]

NewView == [html |-> [p \in Place |-> "own"], saved |-> [p \in Place |-> "none"],
            top |-> TRUE, form |-> "none", formShown |-> FALSE, inUse |-> Table,
            warning |-> Table, rows |-> <<>>, checked |-> {}, rendered |-> {}, disabled |-> {}]

------------------------------------------------------------------------------
\* The helpers on the page.

SetLoading(v, P, isSaved) ==
    [v EXCEPT !.html = [p \in Place |-> IF p \in P THEN "loading" ELSE @[p]],
              !.saved = [p \in Place |-> IF p \in P /\ isSaved
                                            THEN IF v.html[p] = "sending" THEN "hidden" ELSE v.html[p]
                                            ELSE @[p]]]

\* The cells of a row that is gone are not found.
Present(v, p) == p[2] \in ToSet(v.rows) \union {Table}

RestoreHidden(v, P, keepIfNotSaved) ==
    LET back(p) == IF v.saved[p] # "none" THEN v.saved[p]
                   ELSE IF keepIfNotSaved THEN v.html[p] ELSE "blank"
    IN  [v EXCEPT !.html = [p \in Place |-> IF p \in P /\ Present(v, p) THEN back(p) ELSE @[p]],
                  !.saved = [p \in Place |-> IF p \in P THEN "none" ELSE @[p]]]

RestoreTop(v) ==
    [v EXCEPT !.top = TRUE, !.formShown = FALSE, !.html[CreatingForm] = "own"]

\* The two questions have the same id: the first in the document goes.
RemoveWarnings(v) ==
    IF v.warning # Table THEN [v EXCEPT !.warning = Table]
    ELSE [v EXCEPT !.inUse = Table, !.form = IF v.inUse # Table THEN "none" ELSE @]

\* Applies the changes an answer lists.
UpdateTable(v, c) ==
    CASE c.what = "reload" -> Rendered(v, c.rows, c.checks)
      [] c.what = "changeRowForm" ->
            [v EXCEPT !.top = FALSE, !.form = c.form, !.inUse = c.inUse, !.formShown = TRUE,
                      !.html[Buttons] = "own"]
      [] c.what = "dataInUseForm" ->
            [RemoveWarnings(v) EXCEPT !.warning = c.row, !.top = FALSE, !.formShown = FALSE]
      [] c.what = "removed" ->
            RestoreTop([v EXCEPT !.rows = RemoveFirst(@, c.row), !.html[Actions(c.row)] = "own",
                                 !.saved[Actions(c.row)] = "none"])
      [] c.what = "added" ->
            LET at == SelectInSeq(v.rows, LAMBDA r : r = c.after)
            IN  RestoreTop([v EXCEPT !.rows = IF c.after = Table THEN <<c.row>> \o @
                                              ELSE IF at = 0 THEN @ ELSE InsertAt(@, at + 1, c.row),
                                     !.html[Actions(c.row)] = "own"])
      [] c.what = "changed" ->
            RestoreTop([v EXCEPT !.html[Actions(c.row)] = "own"])

------------------------------------------------------------------------------
\* What the user can click, and the request it sends.

Quiet == requests = {}
InView == ToSet(view.rows)
Asked == view.warning # Table \/ view.inUse # Table

NoExtra == [rows |-> {}, prev |-> Table, next |-> Table]

Send(op, r, force, extra) ==
    /\ issued < MaxRequests
    /\ issued' = issued + 1
    /\ requests' = requests \union
          {[id |-> issued, op |-> op, row |-> r, force |-> force, extra |-> extra, answer |-> [res |-> "none"]]}
    /\ overlapped' = (overlapped \/ requests # {} \/ (Asked /\ ~force))
    /\ sent' = sent \union {op}
    /\ UNCHANGED <<tableKind, dbRows, dbChecks, lost>>

FormOpen(f) == view.form = f /\ view.formShown /\ view.html[Buttons] = "own"

AddNewRow ==
    /\ FormOpen("add")
    /\ view' = SetLoading(view, {Buttons}, TRUE)
    /\ Send("add", Table, FALSE, NoExtra)

\* From the form of the row, or from the question that its data is in use;
\* changeRow is called before the question is taken away.
ChangeRow(r, force) ==
    /\ tableKind = "rows" /\ IF force THEN view.warning = r ELSE FormOpen(r)
    /\ view' = LET v == SetLoading(view, {Buttons}, TRUE) IN IF force THEN RemoveWarnings(v) ELSE v
    /\ Send("edit", r, force, NoExtra)

DeleteActionClicked(r, force) ==
    /\ IF force THEN view.inUse = r /\ view.formShown
       ELSE tableKind = "rows" /\ r \in InView /\ view.html[Actions(r)] = "own"
    /\ view' = LET v == SetLoading(view, {Actions(r)}, TRUE)
               IN  IF force THEN RemoveWarnings(v) ELSE v
    /\ Send("del", r, force, NoExtra)

ShowChangeRowForm(action, r) ==
    /\ tableKind = "rows"
    /\ IF action = "changeAdd" THEN view.top /\ view.html[CreatingForm] = "own"
       ELSE r \in InView /\ view.html[Actions(r)] = "own"
    /\ view' = SetLoading(view, {IF action = "changeAdd" THEN CreatingForm ELSE Actions(r)}, TRUE)
    /\ Send(action, r, FALSE, NoExtra)

\* The pager and the search set their spinner without saving what it covers.
ChangeView ==
    /\ tableKind # "none" /\ view.html[Pager] = "own"
    /\ view' = SetLoading(view, {Pager}, FALSE)
    /\ Send("changeList", Table, FALSE, NoExtra)

\* The click has turned the box when the handler runs; a forced call sends
\* what the box shows, once its question was answered.
SendInPlaceBooleanValue(r, force) ==
    /\ tableKind = "checks"
    /\ IF force THEN view.warning = r ELSE r \in InView /\ view.html[Check(r)] = "own"
    /\ LET checked == IF force THEN view.checked ELSE SymDiff(view.checked, {r})
           v == [view EXCEPT !.checked = checked,
                             !.html[Check(r)] = IF @ = "own" THEN "sending" ELSE @]
       IN  /\ view' = IF force THEN RemoveWarnings(v) ELSE v
           /\ Send("editBoolean", r, force, [NoExtra EXCEPT !.rows = {r} \intersect checked])

\* The boxes that are there, hidden or not.
CheckAll(value) ==
    /\ tableKind = "checks" /\ InView # {}
    /\ LET rs == {r \in InView : view.html[Check(r)] # "loading"}
       IN  /\ view' = SetLoading(view, {Check(r) : r \in rs}, TRUE)
           /\ Send("checkAll", Table, value, [NoExtra EXCEPT !.rows = rs])

CustomActionClicked(r) ==
    /\ tableKind = "actions" /\ r \in InView \ view.disabled /\ view.html[Custom(r)] = "own"
    /\ view' = SetLoading([view EXCEPT !.disabled = @ \union (InView \ {r})], {Custom(r)}, TRUE)
    /\ Send("custom", r, FALSE, NoExtra)

\* A row is dropped elsewhere; the request names its new neighbours.
ChangeOrder(r, to) ==
    /\ tableKind = "rows" /\ r \in InView /\ to \in 1..Len(view.rows) /\ IsInjective(view.rows)
    /\ LET order == InsertAt(RemoveFirst(view.rows, r), to, r)
           prev == IF to > 1 THEN order[to - 1] ELSE Table
           next == IF to < Len(order) THEN order[to + 1] ELSE Table
       IN  /\ order # view.rows
           /\ view' = [view EXCEPT !.rows = order]
           /\ Send("setPosition", r, FALSE, [rows |-> {}, prev |-> prev, next |-> next])

\* Cancel of the form: restoreTop; of the question that data is in use: also
\* the cell of the row, if it is still saved, and the question goes.
CancelForm ==
    /\ view.formShown /\ view.form # "none" /\ view.inUse = Table /\ view.html[Buttons] = "own"
    /\ view' = RestoreTop(view)
    /\ UNCHANGED <<tableKind, dbRows, dbChecks, requests, issued, lost, sent, overlapped>>

CancelInUse(r) ==
    /\ view.warning = r \/ (view.inUse = r /\ view.formShown)
    /\ view' = RemoveWarnings(RestoreHidden(RestoreTop(view), {Actions(r)}, TRUE))
    /\ UNCHANGED <<tableKind, dbRows, dbChecks, requests, issued, lost, sent, overlapped>>

------------------------------------------------------------------------------
\* The server takes a request, in any order.

Ok(c) == [res |-> "ok", change |-> c]
Page(rs, cs) == Ok([what |-> "reload", rows |-> rs, checks |-> cs])
Changed(what, r) == Ok([what |-> what, row |-> r])
Form(f, r) == Ok([what |-> "changeRowForm", form |-> f, inUse |-> r])

Serve(q, answer, rs, cs) ==
    /\ q.answer.res = "none"
    /\ requests' = (requests \ {q}) \union {[q EXCEPT !.answer = answer]}
    /\ dbRows' = rs /\ dbChecks' = cs
    /\ UNCHANGED <<tableKind, view, issued, lost, sent, overlapped>>

Moved(r, at) ==
    LET rest == RemoveFirst(dbRows, r)
        place(x) == SelectInSeq(rest, LAMBDA y : y = x)
    IN  InsertAt(rest, IF at.prev # Table THEN place(at.prev) + 1 ELSE place(at.next), r)

ServeAdd(q) ==
    /\ q.op = "add"
    /\ \E r \in Row \ ToSet(dbRows) :
          LET rs == Append(dbRows, r)
          IN  IF dbRows = <<>> THEN Serve(q, Page(rs, dbChecks), rs, dbChecks)
              ELSE Serve(q, Ok([what |-> "added", row |-> r, after |-> Last(dbRows)]), rs, dbChecks)

ServeEdit(q) ==
    /\ q.op = "edit" /\ Contains(dbRows, q.row)
    /\ Serve(q, Changed("changed", q.row), dbRows, dbChecks)

ServeDel(q) ==
    /\ q.op = "del" /\ Contains(dbRows, q.row)
    /\ LET rs == RemoveFirst(dbRows, q.row)
       IN  Serve(q, IF rs = <<>> THEN Page(rs, dbChecks) ELSE Changed("removed", q.row), rs, dbChecks)

ServeForm(q) ==
    /\ q.op \in {"changeAdd", "changeEdit", "changeClone"}
    /\ Serve(q, Form(IF q.op = "changeEdit" THEN q.row ELSE "add", Table), dbRows, dbChecks)

ServePage(q) == q.op \in {"changeList", "custom"} /\ Serve(q, Page(dbRows, dbChecks), dbRows, dbChecks)

ServeBoolean(q) ==
    /\ q.op = "editBoolean"
    /\ Serve(q, Ok([what |-> "none"]), dbRows, (dbChecks \ {q.row}) \union q.extra.rows)

ServeCheckAll(q) ==
    /\ q.op = "checkAll"
    /\ Serve(q, Ok([what |-> "none"]), dbRows, IF q.force THEN ToSet(dbRows) ELSE {})

ServeOrder(q) ==
    /\ q.op = "setPosition"
    /\ Contains(dbRows, q.row) /\ {q.extra.prev, q.extra.next} \subseteq ToSet(dbRows) \union {Table}
    /\ Serve(q, Ok([what |-> "none"]), Moved(q.row, q.extra), dbChecks)

\* A change or removal of a row whose data is in use is questioned unless forced.
ServeInUse(q) ==
    /\ q.answer.res = "none" /\ q.op \in {"edit", "del", "editBoolean"} /\ ~q.force
    /\ requests' = (requests \ {q}) \union
          {[q EXCEPT !.answer = IF q.op = "del" THEN Form("inUse", q.row) ELSE Changed("dataInUseForm", q.row)]}
    /\ lost' = lost \union {<<q.op, FALSE, "questioned">>}
    /\ UNCHANGED <<tableKind, view, dbRows, dbChecks, issued, sent, overlapped>>

\* The request is refused (success is false in the answer) or fails (no
\* answer, or an error of the server).  An answer in HTML cannot refuse.
Lose(q, res) ==
    /\ q.answer.res = "none" /\ Cardinality({l \in lost : l[3] # "questioned"}) < MaxLost
    /\ res = "refused" => q.op \notin {"changeList", "custom"}
    /\ requests' = (requests \ {q}) \union {[q EXCEPT !.answer = [res |-> res]]}
    /\ lost' = lost \union {<<q.op, q.force, res>>}
    /\ UNCHANGED <<tableKind, view, dbRows, dbChecks, issued, sent, overlapped>>

------------------------------------------------------------------------------
\* The callbacks: success or error, then complete.

OnAddUnrestored(v, a) == IF a.res = "ok" THEN UpdateTable(v, a.change) ELSE v \* mutant

OnAdd(v, a) ==
    RestoreHidden(IF a.res = "ok" THEN UpdateTable(v, a.change) ELSE v, {Buttons}, FALSE)

OnDelete(v, r, a) ==
    IF a.res = "ok" THEN UpdateTable(v, a.change) ELSE RestoreHidden(v, {Actions(r)}, FALSE)

\* afterSetError runs when the form is refused and has no branch for
\* changeClone; complete restores the cell of changeEdit in every case.
OnShowForm(v, op, r, a) ==
    LET v1 == CASE a.res = "ok" -> UpdateTable(v, a.change)
                [] a.res = "refused" /\ op = "changeAdd" -> RestoreHidden(v, {CreatingForm}, FALSE)
                [] a.res = "refused" /\ op = "changeEdit" -> RestoreHidden(v, {Actions(r)}, FALSE)
                [] OTHER -> v
    IN  IF op = "changeEdit" THEN RestoreHidden(v1, {Actions(r)}, FALSE) ELSE v1

OnView(v, a) == IF a.res = "ok" THEN UpdateTable(v, a.change) ELSE v

\* The error callback calls prop(befChecked), which sets nothing.  The box
\* is found only where the cell was not replaced meanwhile; the refusal of an
\* answer is not looked at.
OnBoolean(v, r, a, replaced) ==
    LET v1 == IF a.res = "ok" /\ a.change.what = "dataInUseForm"
              THEN [RemoveWarnings(v) EXCEPT !.warning = r, !.top = FALSE] ELSE v
    IN  [v1 EXCEPT !.html[Check(r)] = IF @ = "sending" /\ ~replaced THEN "own" ELSE @]

OnCheckAllAsRendered(v, value, rs, a) == RestoreHidden(v, {Check(r) : r \in rs}, FALSE) \* mutant

\* The markup that comes back has the boxes as they were rendered.
OnCheckAll(v, value, rs, a) ==
    LET back == {r \in rs : v.saved[Check(r)] # "none"}
        v1 == RestoreHidden(v, {Check(r) : r \in rs}, FALSE)
        v2 == [v1 EXCEPT !.checked = (@ \ back) \union (back \intersect v.rendered)]
    IN  IF a.res # "ok" THEN v2
        ELSE [v2 EXCEPT !.checked = IF value THEN @ \union rs ELSE @ \ rs]

OnCustom(v, r, a) ==
    LET v1 == IF a.res = "ok" THEN UpdateTable(v, a.change) ELSE RestoreHidden(v, {Custom(r)}, FALSE)
    IN  [v1 EXCEPT !.disabled = @ \intersect {r}]

Answered(q) ==
    LET a == q.answer
    IN  CASE q.op \in {"add", "edit"} -> OnAdd(view, a)
          [] q.op = "del" -> OnDelete(view, q.row, a)
          [] q.op \in {"changeAdd", "changeEdit", "changeClone"} -> OnShowForm(view, q.op, q.row, a)
          [] q.op = "changeList" -> OnView(view, a)
          [] q.op = "editBoolean" -> OnBoolean(view, q.row, a,
                                             \E p \in requests : p.op = q.op /\ p.row = q.row /\ p.id > q.id)
          [] q.op = "checkAll" -> OnCheckAll(view, q.force, q.extra.rows, a)
          [] q.op = "custom" -> OnCustom(view, q.row, a)
          [] q.op = "setPosition" -> view

Answer(q) ==
    /\ q.answer.res # "none"
    /\ requests' = requests \ {q}
    /\ view' = Answered(q)
    /\ UNCHANGED <<tableKind, dbRows, dbChecks, issued, lost, sent, overlapped>>

------------------------------------------------------------------------------
TableInit ==
    /\ tableKind = "none"
    /\ dbRows = SubSeq(SetToSeq(Row), 1, Cardinality(Row) - 1)
    /\ dbChecks = {}
    /\ view = Rendered(NewView, dbRows, {})
    /\ requests = {} /\ issued = 0 /\ lost = {} /\ sent = {} /\ overlapped = FALSE

OpenTable(kind) ==
    /\ tableKind = "none" /\ tableKind' = kind
    /\ UNCHANGED <<view, dbRows, dbChecks, requests, issued, lost, sent, overlapped>>

TableNext ==
    \/ \E kind \in {"rows", "checks", "actions"} : OpenTable(kind)
    \/ AddNewRow \/ ChangeView \/ CancelForm
    \/ \E r \in Row :
          \/ \E force \in BOOLEAN : ChangeRow(r, force) \/ DeleteActionClicked(r, force)
          \/ \E action \in {"changeAdd", "changeEdit", "changeClone"} : ShowChangeRowForm(action, r)
          \/ \E force \in BOOLEAN : SendInPlaceBooleanValue(r, force)
          \/ CustomActionClicked(r) \/ CancelInUse(r)
          \/ \E to \in 1..Cardinality(Row) : ChangeOrder(r, to)
    \/ \E value \in BOOLEAN : CheckAll(value)
    \/ \E q \in requests :
          \/ ServeAdd(q) \/ ServeEdit(q) \/ ServeDel(q) \/ ServeForm(q) \/ ServePage(q)
          \/ ServeBoolean(q) \/ ServeCheckAll(q) \/ ServeOrder(q) \/ ServeInUse(q)
          \/ \E res \in {"refused", "failed"} : Lose(q, res)
          \/ Answer(q)

TableSpec == TableInit /\ [][TableNext]_tableVars
------------------------------------------------------------------------------
\* Types of the document and of what is remembered about it.
TableTypeOK ==
    /\ view.html \in [Place -> Content] /\ view.saved \in [Place -> Content \union {"none"}]
    /\ view.checked \subseteq Row /\ view.disabled \subseteq Row
    /\ ToSet(dbRows) \subseteq Row /\ dbChecks \subseteq Row /\ issued \in 0..MaxRequests

\* Operations after whose failure the page is left as it was found.
Forgives == ({"add", "edit", "del", "setPosition", "editBoolean", "checkAll", "custom"} \X {FALSE}
                \X {"refused", "failed", "questioned"})
               \union {<<"changeAdd", FALSE, "refused">>, <<"changeEdit", FALSE, "failed">>}
               \union {<<"checkAll", TRUE, "refused">>, <<"checkAll", TRUE, "failed">>}

\* When nothing is pending and no question is open, no spinner is left on the
\* page, every button is back and the way to go on (the top of the table or
\* a form) is shown: after requests that did not overlap, whatever was
\* answered and whichever of the forgiving operations failed.  Even then a row
\* that was cloned keeps its spinner, and the top stays hidden after the
\* question about a check box was confirmed.
PageComesBack ==
    (Quiet /\ ~overlapped /\ ~Asked /\ lost \subseteq Forgives /\ "changeClone" \notin sent)
        => /\ \A p \in Place \ {CreatingForm} : view.html[p] = "own"
           /\ view.top => view.html[CreatingForm] = "own"
           /\ <<"editBoolean", FALSE, "questioned">> \notin lost
                 => view.top \/ (view.formShown /\ view.form # "none")

\* A page whose requests did not overlap shows the rows of the server in their
\* order and its check boxes, unless a failed request was to move a row, or to
\* set boxes, or a box was turned and its question declined: those are not
\* taken back.
RowsShown ==
    (Quiet /\ ~overlapped)
        => /\ (\A l \in lost : l[1] # "setPosition") => view.rows = dbRows
           /\ (tableKind = "checks" /\ \A l \in lost : l[1] \notin {"editBoolean", "checkAll"})
                 => view.checked \intersect InView = dbChecks \intersect InView

==============================================================================
