---------------------------- MODULE SoftwareWizard ----------------------------
(***************************************************************************)
(* The wizard of the first installation, software-wizard.js: its pages are *)
(* loaded one after the other into two panes that take turns, and each is  *)
(* submitted, or skipped, before the next is loaded.                       *)
(***************************************************************************)
EXTENDS Naturals, FiniteSets

CONSTANTS
    LastStep,         \* the pages are 0..LastStep
    MaxWizardFails    \* bound: submissions refused and pages that do not come

ASSUME LastStepAssumption == LastStep \in Nat

NoStep == LastStep + 2
Pane == {0, 1}

VARIABLES
    wizard,        \* actualPage, visible, firstLoad, isLoading, and the document:
                   \* the panes that are shown, the page in each, the final page
    wizardCalls,   \* requests on their way: a page to load or a form to submit
    accepted,      \* how often the server has accepted the form of each page
    wizardFails    \* how many requests have failed

wizardVars == <<wizard, wizardCalls, accepted, wizardFails>>

FinishStep == LastStep + 1

\* setLoading(false) enables the buttons again; those of the wizard are inputs,
\* not buttons, and stay enabled all along: only isLoading stops a click.
Load(w, index) ==
    IF index > FinishStep THEN w
    ELSE LET shown == IF w.firstLoad THEN w.visible ELSE 1 - w.visible
             w1 == [w EXCEPT !.visible = shown, !.firstLoad = FALSE, !.actualPage = index,
                             !.shown = IF index > 0 THEN @ \ {w.visible} ELSE @]
         IN  IF index = FinishStep THEN [w1 EXCEPT !.isLoading = FALSE, !.page[shown] = FinishStep]
             ELSE [w1 EXCEPT !.isLoading = TRUE]

LoadCall(w, index) ==
    IF index > LastStep THEN {}
    ELSE {[op |-> "load", page |-> index, pane |-> IF w.firstLoad THEN w.visible ELSE 1 - w.visible]}

NewWizard == [actualPage |-> 0, visible |-> 0, firstLoad |-> TRUE, isLoading |-> FALSE,
              shown |-> {}, page |-> [p \in Pane |-> NoStep], next |-> TRUE]

WizardInit ==
    /\ wizard = Load(NewWizard, 0)
    /\ wizardCalls = LoadCall(NewWizard, 0)
    /\ accepted = [i \in 0..LastStep |-> 0]
    /\ wizardFails = 0

SubmitTwice == \* mutant
    /\ wizard.next /\ wizard.page[wizard.visible] # NoStep
    /\ wizard' = [wizard EXCEPT !.isLoading = TRUE]
    /\ wizardCalls' = wizardCalls \union
          {[op |-> "submit", page |-> wizard.page[wizard.visible], pane |-> Cardinality(wizardCalls)]}
    /\ UNCHANGED <<accepted, wizardFails>>

\* nextStep and skipStep: the form of the visible pane is submitted.  The final
\* page has none: until it has left, a click posts to the wizard's own address.
SubmitPage ==
    /\ wizard.next /\ ~wizard.isLoading /\ wizard.page[wizard.visible] # NoStep
    /\ wizard' = [wizard EXCEPT !.isLoading = TRUE]
    /\ wizardCalls' = wizardCalls \union
          {[op |-> "submit", page |-> wizard.page[wizard.visible], pane |-> wizard.visible]}
    /\ UNCHANGED <<accepted, wizardFails>>

PageLoaded(c) ==
    /\ c.op = "load"
    /\ wizard' = [wizard EXCEPT !.shown = @ \union {c.pane}, !.page[c.pane] = c.page, !.isLoading = FALSE]
    /\ wizardCalls' = wizardCalls \ {c}
    /\ UNCHANGED <<accepted, wizardFails>>

\* The request that loads a page has no error callback.
PageNotLoaded(c) ==
    /\ c.op = "load" /\ wizardFails < MaxWizardFails
    /\ wizardCalls' = wizardCalls \ {c}
    /\ wizardFails' = wizardFails + 1
    /\ UNCHANGED <<wizard, accepted>>

\* The server keeps the form, and the callback loads the page after actualPage.
PageAccepted(c) ==
    /\ c.op = "submit"
    /\ accepted' = [i \in 0..LastStep |-> accepted[i] + IF i = c.page THEN 1 ELSE 0]
    /\ LET next == wizard.actualPage + 1
       IN  /\ wizard' = Load(wizard, next)
           /\ wizardCalls' = (wizardCalls \ {c}) \union LoadCall(wizard, next)
    /\ UNCHANGED wizardFails

PageRefused(c) ==
    /\ c.op = "submit" /\ wizardFails < MaxWizardFails
    /\ wizard' = [wizard EXCEPT !.isLoading = FALSE]
    /\ wizardCalls' = wizardCalls \ {c}
    /\ wizardFails' = wizardFails + 1
    /\ UNCHANGED accepted

\* The final page leaves for the next address.
Leaves ==
    /\ wizard.page[wizard.visible] = FinishStep /\ wizard.next
    /\ wizard' = [wizard EXCEPT !.next = FALSE]
    /\ UNCHANGED <<wizardCalls, accepted, wizardFails>>

WizardNext ==
    \/ SubmitPage
    \/ \E c \in wizardCalls : PageLoaded(c) \/ PageNotLoaded(c) \/ PageAccepted(c) \/ PageRefused(c)
    \/ Leaves

WizardSpec == WizardInit /\ [][WizardNext]_wizardVars
------------------------------------------------------------------------------
\* Types of the globals of the script and of its requests.
WizardTypeOK ==
    /\ wizard \in [actualPage : 0..FinishStep, visible : Pane, firstLoad : BOOLEAN, isLoading : BOOLEAN,
                   shown : SUBSET Pane, page : [Pane -> 0..NoStep], next : BOOLEAN]
    /\ wizardCalls \subseteq [op : {"load", "submit"}, page : 0..FinishStep, pane : Pane]
    /\ accepted \in [0..LastStep -> Nat] /\ wizardFails \in Nat

\* Whatever is clicked while a request is on its way, the server has accepted
\* every page before the one asked for exactly once and no later one: no
\* page of the wizard is jumped over or sent twice.
StepsInOrder ==
    \A i \in 0..LastStep : accepted[i] = IF i < wizard.actualPage THEN 1 ELSE 0

\* A wizard that is not waiting shows one pane, the visible one, and in it the
\* page whose number the next submission counts from.
OnePaneShown ==
    (~wizard.isLoading /\ wizard.actualPage \in 0..LastStep)
        => wizard.shown = {wizard.visible} /\ wizard.page[wizard.visible] = wizard.actualPage

==============================================================================
