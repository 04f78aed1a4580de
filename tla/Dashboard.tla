------------------------------ MODULE Dashboard ------------------------------
(***************************************************************************)
(* A widget of the dashboard that is brought up to date at an interval     *)
(* (updateWidgets, dashboard.js): sections that the server no longer has   *)
(* fade out, new ones are put in their place and loaded, and the status of *)
(* the service in each is compared with a cache before it is shown.        *)
(***************************************************************************)
EXTENDS Naturals, FiniteSets, SequencesExt

CONSTANTS
    Section,          \* names of the sections of the widget
    MaxPolls,         \* bound: requests for the widget on their way at once
    MaxServerChanges  \* bound: changes on the server

ASSUME DashboardAssumption == IsFiniteSet(Section) /\ MaxServerChanges \in Nat

VARIABLES
    service,       \* server: the order of its sections and the status in each
    changesLeft,   \* how many changes the server may still make
    shownSections, \* page: the sections in the document, in order
    statusInfo,    \* page: the status of each section that was shown last
    widgetCalls,   \* requests on their way, and their answers
    recreated      \* history: sections that were taken away and came back

dashboardVars == <<service, changesLeft, shownSections, statusInfo, widgetCalls, recreated>>

Unknown == "unknown"
Statuses == {"running", "stopped"}
AllSections == SetToSeq(Section)
NoAnswer == [sections |-> {}, status |-> [s \in Section |-> Unknown]]

DashboardInit ==
    /\ service = [sections |-> Section, status |-> [s \in Section |-> "running"]]
    /\ changesLeft = MaxServerChanges
    /\ shownSections = [i \in 1..Len(AllSections) |->
                           [name |-> AllSections[i], element |-> i, fading |-> FALSE, status |-> "running"]]
    /\ statusInfo = [s \in Section |-> Unknown]
    /\ widgetCalls = {}
    /\ recreated = {}

InDocument == {shownSections[i].name : i \in DOMAIN shownSections}
PageUnchanged == UNCHANGED <<shownSections, statusInfo, recreated>>

------------------------------------------------------------------------------
ServerChanges(s) ==
    /\ changesLeft > 0 /\ changesLeft' = changesLeft - 1
    /\ \/ service' = [service EXCEPT !.sections = SymDiff(@, {s})]
       \/ \E x \in Statuses \ {service.status[s]} : service' = [service EXCEPT !.status[s] = x]
    /\ PageUnchanged /\ UNCHANGED widgetCalls

Polls == {q \in widgetCalls : q.op = "widget"}

UpdateWidgets ==
    /\ \E i \in 1..MaxPolls :
          /\ \A q \in Polls : q.id # i
          /\ widgetCalls' = widgetCalls \union {[op |-> "widget", id |-> i, answer |-> NoAnswer]}
    /\ PageUnchanged /\ UNCHANGED <<service, changesLeft>>

WidgetJSON(q) ==
    /\ q.answer = NoAnswer
    /\ widgetCalls' = (widgetCalls \ {q}) \union {[q EXCEPT !.answer = service]}
    /\ PageUnchanged /\ UNCHANGED <<service, changesLeft>>

\* There is no error callback: the next interval asks again; a section whose
\* own request fails stays empty.
WidgetCallFails(q) ==
    /\ q.op = "widget" /\ q.answer = NoAnswer /\ widgetCalls' = widgetCalls \ {q}
    /\ PageUnchanged /\ UNCHANGED <<service, changesLeft>>

FreeElement(secs) ==
    CHOOSE n \in 1..(Len(secs) + Cardinality(widgetCalls) + 1) :
        /\ \A i \in DOMAIN secs : secs[i].element # n
        /\ \A q \in widgetCalls : q.op = "section" => q.element # n

PutLast(secs, s, prev) == \* mutant
    Append(secs, [name |-> s, element |-> FreeElement(secs), fading |-> FALSE, status |-> Unknown])

\* A section that is not in the document goes behind the one before it.
PutSection(secs, s, prev) ==
    LET new == [name |-> s, element |-> FreeElement(secs), fading |-> FALSE, status |-> Unknown]
        at == IF prev = Unknown THEN 0 ELSE SelectInSeq(secs, LAMBDA x : x.name = prev)
    IN  InsertAt(secs, at + 1, new)

\* One that fades out is in the document still, and is not made again.
WithSections(secs, names) ==
    LET step(acc, s) == IF \E i \in DOMAIN acc.secs : acc.secs[i].name = s
                        THEN [acc EXCEPT !.prev = s]
                        ELSE [secs |-> PutSection(acc.secs, s, acc.prev), prev |-> s, new |-> Append(acc.new, s)]
        put[i \in 0..Len(AllSections)] ==
            IF i = 0 THEN [secs |-> secs, prev |-> Unknown, new |-> <<>>]
            ELSE IF AllSections[i] \in names THEN step(put[i - 1], AllSections[i]) ELSE put[i - 1]
    IN  put[Len(AllSections)]

\* updateStatus(): what equals the cache is not shown again.
StatusUpdated(x, a) == IF statusInfo[x.name] = a.status[x.name] THEN x ELSE [x EXCEPT !.status = a.status[x.name]]

\* updateWidget()
UpdateWidget(q) ==
    /\ q.op = "widget" /\ q.answer # NoAnswer
    /\ LET a == q.answer
           fading == [i \in DOMAIN shownSections |->
                         [shownSections[i] EXCEPT !.fading = @ \/ shownSections[i].name \notin a.sections]]
           put == WithSections(fading, a.sections)
           old == {s \in a.sections : ~Contains(put.new, s)}
       IN  /\ shownSections' = [i \in DOMAIN put.secs |-> IF put.secs[i].name \in old
                                                            THEN StatusUpdated(put.secs[i], a) ELSE put.secs[i]]
           /\ statusInfo' = [s \in Section |-> IF s \in old THEN a.status[s] ELSE statusInfo[s]]
           /\ recreated' = recreated \union ToSet(put.new)
           /\ widgetCalls' = (widgetCalls \ {q}) \union
                 {[op |-> "section", section |-> x.name, element |-> x.element, answer |-> NoAnswer] :
                     x \in {y \in ToSet(put.secs) : Contains(put.new, y.name)}}
    /\ UNCHANGED <<service, changesLeft>>

\* The content comes for the element it was asked for, if that is still there.
SectionLoaded(q) ==
    /\ q.op = "section" /\ q.answer # NoAnswer
    /\ shownSections' = [i \in DOMAIN shownSections |->
                            IF shownSections[i].element = q.element
                            THEN [shownSections[i] EXCEPT !.status = q.answer.status[q.section]] ELSE shownSections[i]]
    /\ widgetCalls' = widgetCalls \ {q}
    /\ UNCHANGED <<service, changesLeft, statusInfo, recreated>>

\* 500 ms later, whatever was answered since.
FadedOut(s) ==
    /\ \E i \in DOMAIN shownSections :
          /\ shownSections[i].name = s /\ shownSections[i].fading
          /\ shownSections' = RemoveAt(shownSections, i)
    /\ UNCHANGED <<service, changesLeft, statusInfo, widgetCalls, recreated>>

DashboardNext ==
    \/ \E s \in Section : ServerChanges(s) \/ FadedOut(s)
    \/ UpdateWidgets
    \/ \E q \in widgetCalls : WidgetJSON(q) \/ WidgetCallFails(q) \/ UpdateWidget(q) \/ SectionLoaded(q)

DashboardSpec == DashboardInit /\ [][DashboardNext]_dashboardVars
------------------------------------------------------------------------------
\* Types of the document and of its cache.
DashboardTypeOK ==
    /\ \A i \in DOMAIN shownSections :
          shownSections[i].name \in Section /\ shownSections[i].status \in Statuses \union {Unknown}
    /\ statusInfo \in [Section -> Statuses \union {Unknown}]
    /\ service.sections \subseteq Section /\ changesLeft \in 0..MaxServerChanges

\* Once the server changes no more, the document has the sections of the server
\* and no other, in their order, and the right status in each that was never
\* taken away: late answers, or a section asked for while it fades out, disturb
\* it for a while only.  A section made again may keep a wrong status for ever.
DashboardSettles ==
    <>[](/\ [i \in DOMAIN shownSections |-> shownSections[i].name]
               = SelectSeq(AllSections, LAMBDA s : s \in service.sections)
         /\ \A i \in DOMAIN shownSections :
               shownSections[i].name \notin recreated
                   => shownSections[i].status = service.status[shownSections[i].name])

==============================================================================
