----------------------------- MODULE JQueryEvents -----------------------------
(***************************************************************************)
(* jQuery.event: handlers bound to an element or delegated by one above it, *)
(* namespaces, one(), and events that go up the document.  A handler is    *)
(* code of the page: it may bind, unbind, stop the event or trigger another *)
(* one before it returns.                                                  *)
(***************************************************************************)
EXTENDS Naturals, Sequences

CONSTANTS
    MaxBound,  \* bound: handlers bound
    MaxNested  \* bound: events that are dispatched at once

ASSUME EventAssumption == MaxBound \in Nat

VARIABLES
    handlers,      \* per element the handlers, those that are delegated in front
    delegateCount, \* per element how many are delegated
    eventStack,    \* the events being dispatched, the innermost last
    boundCount,    \* handlers bound so far
    onceCalled,    \* history: handlers of one() that were called
    calledAgain,   \* history: those that were called more than once
    nested         \* history: an event was triggered while another was dispatched

eventVars == <<handlers, delegateCount, eventStack, boundCount, onceCalled, calledAgain, nested>>

Nodes == {"cell", "table"}
Above == [cell |-> <<"cell", "table">>, table |-> <<"table">>]
Direct == "direct"
Namespaces == {"ns", "other"}

EventInit ==
    /\ handlers = [n \in Nodes |-> <<>>] /\ delegateCount = [n \in Nodes |-> 0]
    /\ eventStack = <<>> /\ boundCount = 0 /\ nested = FALSE
    /\ onceCalled = {} /\ calledAgain = {}

Current == eventStack[Len(eventStack)]
Outer == SubSeq(eventStack, 1, Len(eventStack) - 1)

\* Code of the page runs: in a handler, or when no event is dispatched.
HandlerRuns == eventStack # <<>> => Current.running
EventUnchanged == UNCHANGED <<eventStack, onceCalled, calledAgain, nested>>

------------------------------------------------------------------------------
BehindAll(s, k, h) == Append(s, h) \* mutant

InFront(s, k, h) == SubSeq(s, 1, k) \o <<h>> \o SubSeq(s, k + 1, Len(s))

\* on() and one(): a delegate goes behind the delegates, in front of the others.
On(n, selector, ns, once) ==
    /\ HandlerRuns /\ boundCount < MaxBound
    /\ boundCount' = boundCount + 1
    /\ LET h == [id |-> boundCount + 1, selector |-> selector, ns |-> ns, once |-> once]
       IN  IF selector = Direct
           THEN /\ handlers' = [handlers EXCEPT ![n] = Append(@, h)]
                /\ UNCHANGED delegateCount
           ELSE /\ handlers' = [handlers EXCEPT ![n] = InFront(@, delegateCount[n], h)]
                /\ delegateCount' = [delegateCount EXCEPT ![n] = @ + 1]
    /\ EventUnchanged

\* jQuery.event.remove() of the handlers with these ids: what is left of them
\* and how many delegates, once the first i have been looked at.
LeftBound(n, ids) ==
    LET hs == handlers[n]
        left[i \in 0..Len(hs)] ==
            IF i = 0 THEN [bound |-> <<>>, delegates |-> delegateCount[n]]
            ELSE IF hs[i].id \notin ids
                 THEN [bound |-> Append(left[i - 1].bound, hs[i]), delegates |-> left[i - 1].delegates]
            ELSE [bound |-> left[i - 1].bound,
                  delegates |-> left[i - 1].delegates - (IF hs[i].selector = Direct THEN 0 ELSE 1)]
    IN  left[Len(hs)]

RemoveHandlers(n, ids) ==
    /\ handlers' = [handlers EXCEPT ![n] = LeftBound(n, ids).bound]
    /\ delegateCount' = [delegateCount EXCEPT ![n] = LeftBound(n, ids).delegates]

Off(n, ns) ==
    /\ HandlerRuns /\ handlers[n] # <<>>
    /\ RemoveHandlers(n, {handlers[n][i].id : i \in {j \in DOMAIN handlers[n] : handlers[n][j].ns = ns}})
    /\ EventUnchanged /\ UNCHANGED boundCount

------------------------------------------------------------------------------
\* trigger(): the path of the event is set before any handler runs.
Trigger(n) ==
    /\ HandlerRuns /\ Len(eventStack) < MaxNested
    /\ eventStack' = Append(eventStack, [path |-> Above[n], target |-> n, at |-> n, queue |-> <<>>, elem |-> n,
                                         stopped |-> FALSE, stoppedNow |-> FALSE, running |-> FALSE])
    /\ nested' = (nested \/ eventStack # <<>>)
    /\ UNCHANGED <<handlers, delegateCount, boundCount, onceCalled, calledAgain>>

\* handlers(): a copy of what is bound when the event comes to the element, the
\* delegates of the elements below it first, as they match from the target up.
Delegates(n, target) ==
    LET matching[i \in 0..delegateCount[n]] ==
            IF i = 0 THEN <<>>
            ELSE IF target # n /\ handlers[n][i].selector = target THEN Append(matching[i - 1], handlers[n][i])
            ELSE matching[i - 1]
    IN  matching[delegateCount[n]]

HandlerQueue(n, target) ==
    LET bound == SubSeq(handlers[n], delegateCount[n] + 1, Len(handlers[n]))
        at(e, hs) == [i \in 1..Len(hs) |-> [elem |-> e, handler |-> hs[i]]]
    IN  at(target, Delegates(n, target)) \o at(n, bound)

EventContinues == eventStack # <<>> /\ ~Current.running
Updated(e) == eventStack' = Append(Outer, e)

ReachElement ==
    /\ EventContinues /\ Current.queue = <<>> /\ Current.path # <<>> /\ ~Current.stopped
    /\ LET n == Head(Current.path)
       IN  Updated([Current EXCEPT !.path = Tail(@), !.at = n, !.queue = HandlerQueue(n, Current.target),
                                   !.elem = Current.target])
    /\ UNCHANGED <<handlers, delegateCount, boundCount, onceCalled, calledAgain, nested>>

\* dispatch(): stopPropagation() lets the handlers of the same element run.
MayCall(e) ==
    /\ e.queue # <<>> /\ ~e.stoppedNow
    /\ e.stopped => Head(e.queue).elem = e.elem

CallHandler ==
    /\ EventContinues /\ MayCall(Current)
    /\ LET c == Head(Current.queue)
       IN  /\ Updated([Current EXCEPT !.queue = Tail(@), !.elem = c.elem, !.running = TRUE])
           /\ onceCalled' = IF c.handler.once THEN onceCalled \union {c.handler.id} ELSE onceCalled
           /\ calledAgain' = calledAgain \union ({c.handler.id} \intersect onceCalled)
           \* the function of one() unbinds itself before it calls the page
           /\ IF c.handler.once THEN RemoveHandlers(Current.at, {c.handler.id})
              ELSE UNCHANGED <<handlers, delegateCount>>
    /\ UNCHANGED <<boundCount, nested>>

HandlerReturns ==
    /\ eventStack # <<>> /\ Current.running
    /\ \/ Updated([Current EXCEPT !.running = FALSE])
       \/ Updated([Current EXCEPT !.running = FALSE, !.stopped = TRUE])
       \/ Updated([Current EXCEPT !.running = FALSE, !.stopped = TRUE, !.stoppedNow = TRUE])
    /\ UNCHANGED <<handlers, delegateCount, boundCount, onceCalled, calledAgain, nested>>

EventEnds ==
    /\ EventContinues /\ ~MayCall(Current)
    /\ Current.stopped \/ (Current.queue = <<>> /\ Current.path = <<>>)
    /\ eventStack' = Outer
    /\ UNCHANGED <<handlers, delegateCount, boundCount, onceCalled, calledAgain, nested>>

EventNext ==
    \/ \E n \in Nodes, ns \in Namespaces : Off(n, ns) \/ \E once \in BOOLEAN : On(n, Direct, ns, once)
    \/ \E ns \in Namespaces, once \in BOOLEAN : On("table", "cell", ns, once)
    \/ \E n \in Nodes : Trigger(n)
    \/ ReachElement \/ CallHandler \/ HandlerReturns \/ EventEnds

EventSpec == EventInit /\ [][EventNext]_eventVars
------------------------------------------------------------------------------
EventTypeOK ==
    /\ boundCount \in 0..MaxBound
    /\ \A n \in Nodes : delegateCount[n] \in 0..Len(handlers[n])
    /\ \A i \in DOMAIN eventStack : eventStack[i].at \in Nodes /\ eventStack[i].target \in Nodes

\* The delegates of an element are in front of its other handlers and are as many
\* as are counted, whatever was bound and unbound, so that a direct handler never
\* runs for an element below as if it were delegated; and a handler of one() is
\* called once, unless an event was triggered while another was dispatched, whose
\* copy of the handlers still holds it.
HandlersInOrder ==
    /\ \A n \in Nodes : \A i \in DOMAIN handlers[n] :
          handlers[n][i].selector # Direct <=> i <= delegateCount[n]
    /\ ~nested => calledAgain = {}

==============================================================================
