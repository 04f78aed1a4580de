------------------------------ MODULE JQueryAjax ------------------------------
(***************************************************************************)
(* Requests of the page (jQuery.ajax): the browser answers, a timeout or   *)
(* the page aborts, and one function, done(), tells success() or error()   *)
(* and then complete(), once, and counts the requests that are active.     *)
(* Those callbacks are code of the page: they may send or abort requests,  *)
(* whose done() then runs within, and they may throw.                      *)
(***************************************************************************)
EXTENDS Naturals, FiniteSets, Sequences

CONSTANTS Ajax  \* the requests of a page

ASSUME AjaxAssumption == IsFiniteSet(Ajax)

VARIABLES
    jqXHR,      \* the requests: state as in the code (3 is not made yet), the
                \* transport, the timer, whether the callbacks are installed
    active,     \* jQuery.active
    doneStack,  \* calls of done(), the innermost last
    ajaxTold,   \* history: callbacks called, per request
    ajaxThrown  \* history: a callback threw

ajaxVars == <<jqXHR, active, doneStack, ajaxTold, ajaxThrown>>

Unmade == 3
AjaxInit ==
    /\ jqXHR = [r \in Ajax |-> [state |-> Unmade, counted |-> FALSE, transport |-> FALSE,
                                timer |-> FALSE, installed |-> FALSE]]
    /\ active = 0 /\ doneStack = <<>>
    /\ ajaxTold = [r \in Ajax |-> <<>>] /\ ajaxThrown = FALSE

InnerDone == doneStack[Len(doneStack)]
OuterDones == SubSeq(doneStack, 1, Len(doneStack) - 1)

------------------------------------------------------------------------------
\* ajaxHandleResponses(): an answer is text, unless its type says more.
FinalDataType(ct, expected) == IF expected = "*" THEN ct ELSE "text"

Converters == {<<"text", "html">>, <<"text", "json">>, <<"text", "xml">>, <<"text", "script">>}

\* ajaxConvert(): what cannot be converted is an error of a request that succeeded.
Converts(from, to, wellFormed) ==
    \/ to = "*" \/ from = to
    \/ <<from, to>> \in Converters /\ (to \in {"json", "xml"} => wellFormed)

\* What done() makes of an answer.
IsSuccess(status, ct, expected, wellFormed) ==
    \/ status \in {204, 304}
    \/ status = 200 /\ Converts(FinalDataType(ct, expected), expected, wellFormed)

Told(r, what, told) == IF jqXHR[r].installed THEN [told EXCEPT ![r] = Append(@, what)] ELSE told

DoneAgain(r) == TRUE \* mutant
NotDone(r) == jqXHR[r].state # 2

\* done(), until the callbacks of the deferred run.
Done(r, success) ==
    IF NotDone(r)
    THEN /\ jqXHR' = [jqXHR EXCEPT ![r].state = 2, ![r].transport = FALSE, ![r].timer = FALSE]
         /\ doneStack' = Append(doneStack, [request |-> r, at |-> "settle"])
         /\ ajaxTold' = Told(r, IF success THEN "success" ELSE "error", ajaxTold)
         /\ UNCHANGED <<active, ajaxThrown>>
    ELSE UNCHANGED ajaxVars

------------------------------------------------------------------------------
\* ajax(): a prefilter may abort, then nothing is counted; beforeSend may, then
\* the callbacks are not installed yet; else it is sent.
AjaxPrefiltered(r) ==
    /\ jqXHR[r].state = Unmade
    /\ jqXHR' = [jqXHR EXCEPT ![r].state = 2]
    /\ UNCHANGED <<active, doneStack, ajaxTold, ajaxThrown>>

BeforeSendCancels(r) ==
    /\ jqXHR[r].state = Unmade
    /\ active' = active + 1
    /\ jqXHR' = [jqXHR EXCEPT ![r].state = 2, ![r].counted = TRUE]
    /\ doneStack' = Append(doneStack, [request |-> r, at |-> "settle"])
    /\ UNCHANGED <<ajaxTold, ajaxThrown>>

Sends(r) ==
    /\ jqXHR[r].state = Unmade
    /\ active' = active + 1
    /\ \E timeout \in BOOLEAN :
          jqXHR' = [jqXHR EXCEPT ![r] = [state |-> 1, counted |-> TRUE, transport |-> TRUE,
                                         timer |-> timeout, installed |-> TRUE]]
    /\ UNCHANGED <<doneStack, ajaxTold, ajaxThrown>>

\* The listener of the xhr calls once: an abort takes it away.
AjaxAnswers(r) ==
    /\ doneStack = <<>> /\ jqXHR[r].transport
    /\ \E status \in {0, 200, 204, 304, 500}, ct \in {"text", "html"},
          expected \in {"*", "json", "html"}, ok \in BOOLEAN :
          Done(r, IsSuccess(status, ct, expected, ok))

TimesOut(r) == doneStack = <<>> /\ jqXHR[r].timer /\ Done(r, FALSE)

\* abort() tells the error at once, in the middle of what the page does.
Abort(r) == jqXHR[r].state # Unmade /\ Done(r, FALSE)

------------------------------------------------------------------------------
\* The rest of done(), as its callbacks return.
SettleReturns ==
    /\ doneStack # <<>> /\ InnerDone.at = "settle"
    /\ doneStack' = Append(OuterDones, [InnerDone EXCEPT !.at = "complete"])
    /\ ajaxTold' = Told(InnerDone.request, "complete", ajaxTold)
    /\ UNCHANGED <<jqXHR, active, ajaxThrown>>

CompleteReturns ==
    /\ doneStack # <<>> /\ InnerDone.at = "complete"
    /\ active' = IF jqXHR[InnerDone.request].counted THEN active - 1 ELSE active
    /\ doneStack' = OuterDones
    /\ UNCHANGED <<jqXHR, ajaxTold, ajaxThrown>>

\* An exception leaves every done() on the stack where it is.
AjaxCallbackThrows ==
    /\ doneStack # <<>>
    /\ doneStack' = <<>> /\ ajaxThrown' = TRUE
    /\ UNCHANGED <<jqXHR, active, ajaxTold>>

AjaxNext ==
    \/ \E r \in Ajax : \/ AjaxPrefiltered(r) \/ BeforeSendCancels(r) \/ Sends(r)
                       \/ AjaxAnswers(r) \/ TimesOut(r) \/ Abort(r)
    \/ SettleReturns \/ CompleteReturns \/ AjaxCallbackThrows

AjaxSpec == AjaxInit /\ [][AjaxNext]_ajaxVars
------------------------------------------------------------------------------
AjaxTypeOK ==
    /\ \A r \in Ajax : jqXHR[r].state \in {1, 2, Unmade}
    /\ active \in 0..Cardinality(Ajax) /\ ajaxThrown \in BOOLEAN
    /\ \A i \in DOMAIN doneStack : doneStack[i].request \in Ajax /\ doneStack[i].at \in {"settle", "complete"}

Counted == {r \in Ajax : jqXHR[r].counted}
Ended == {r \in Ajax : jqXHR[r].state = 2 /\ \A i \in DOMAIN doneStack : doneStack[i].request # r}

\* A request tells success() or error(), one of them and once, and then
\* complete(), whatever answer, timeout and abort come, even from its own
\* callbacks; and jQuery.active is the number of requests that are not at their
\* end.  A callback that throws breaks both for good: the others of its request
\* are not called and ajaxStop never comes again.
ToldOnce ==
    /\ \A r \in Ajax : ajaxTold[r] \in {<<>>, <<"success">>, <<"error">>,
                                      <<"success", "complete">>, <<"error", "complete">>}
    /\ ~ajaxThrown =>
        /\ active = Cardinality(Counted \ Ended)
        /\ \A r \in Ended : jqXHR[r].installed => Len(ajaxTold[r]) = 2

==============================================================================
