----------------------------- MODULE PagesProofs -----------------------------
(***************************************************************************)
(* Proofs about the scripts of the administration pages, for any number of *)
(* rows, tabs, mailboxes, widgets, polls and failures: the wizard, the     *)
(* migration of mailboxes, the menu of tabs, the page of a long action,    *)
(* the dialogs that add a row for a select, the combobox, the tree of      *)
(* users, the dashboard, the slides and the small scripts.                 *)
(***************************************************************************)
EXTENDS SoftwareWizard, Migration, Tabs, ProgressPage, ModalAdd, Combobox,
        JsTree, Dashboard, DashboardLayout, Carousel, PageScripts, Integers, TLAPS, FiniteSetTheorems, SequenceTheorems,
        WellFoundedInduction

-----------------------------------------------------------------------------
(* The wizard, for any number of pages and of failures.                    *)

\* What the promise rests on: one request at a time, about the page that is
\* counted, and none while clicks are taken.
OneCall ==
    /\ \A c, d \in wizardCalls : c = d
    /\ ~wizard.isLoading => wizardCalls = {} /\ wizard.page[wizard.visible] = wizard.actualPage
    /\ \A c \in wizardCalls :
          /\ c.page = wizard.actualPage
          /\ c.op = "load" => c.pane = wizard.visible /\ wizard.shown = {}
          /\ c.op = "submit" => wizard.page[wizard.visible] = wizard.actualPage

ShownPane ==
    wizard.actualPage <= LastStep
        => /\ ~wizard.isLoading => wizard.shown = {wizard.visible}
           /\ \A c \in wizardCalls : c.op = "submit" => wizard.shown = {wizard.visible}

WizardRecord == [actualPage : 0..FinishStep, visible : Pane, firstLoad : BOOLEAN, isLoading : BOOLEAN,
                 shown : SUBSET Pane, page : [Pane -> 0..NoStep], next : BOOLEAN]

WizardInv == WizardTypeOK /\ OneCall /\ ShownPane /\ StepsInOrder

\* What Load() and its request make of the wizard.
LEMMA LoadType ==
  ASSUME NEW w \in WizardRecord, NEW i \in Nat
  PROVE  /\ Load(w, i) \in WizardRecord
         /\ LoadCall(w, i) \subseteq [op : {"load", "submit"}, page : 0..FinishStep, pane : Pane]
<1>1. LastStep \in Nat /\ \A v \in Pane : 1 - v \in Pane
  BY LastStepAssumption DEF Pane
<1>2. w.visible \in Pane
  BY DEF WizardRecord
<1>3. LoadCall(w, i) \subseteq [op : {"load", "submit"}, page : 0..FinishStep, pane : Pane]
  BY <1>1, <1>2 DEF LoadCall, FinishStep
<1>4. CASE i > FinishStep
  BY <1>3, <1>4 DEF Load
<1>5. CASE ~(i > FinishStep)
  <2>1. i \in 0..FinishStep
    BY <1>1, <1>5 DEF FinishStep
  <2> DEFINE shown == IF w.firstLoad THEN w.visible ELSE 1 - w.visible
             w1 == [w EXCEPT !.visible = shown, !.firstLoad = FALSE, !.actualPage = i,
                             !.shown = IF i > 0 THEN @ \ {w.visible} ELSE @]
  <2>2. shown \in Pane /\ FinishStep \in 0..NoStep
    BY <1>1, <1>2 DEF FinishStep, NoStep
  <2>3. w.shown \in SUBSET Pane
    BY DEF WizardRecord
  <2>4. (IF i > 0 THEN w.shown \ {w.visible} ELSE w.shown) \in SUBSET Pane
    BY <2>3
  <2> HIDE DEF shown
  <2>5. w1 \in WizardRecord
    BY <2>1, <2>2, <2>4 DEF WizardRecord
  <2>6. /\ [w1 EXCEPT !.isLoading = TRUE] \in WizardRecord
        /\ [w1 EXCEPT !.isLoading = FALSE, !.page[shown] = FinishStep] \in WizardRecord
    <3> HIDE DEF w1
    <3>1. QED
      BY <2>2, <2>5 DEF WizardRecord
  <2>7. Load(w, i) = IF i = FinishStep THEN [w1 EXCEPT !.isLoading = FALSE, !.page[shown] = FinishStep]
                     ELSE [w1 EXCEPT !.isLoading = TRUE]
    BY <1>5 DEF Load, shown
  <2>8. QED
    BY <1>3, <2>6, <2>7
<1>6. QED
  BY <1>4, <1>5

LEMMA LoadedFields ==
  ASSUME NEW w \in WizardRecord, NEW i \in 1..FinishStep
  PROVE  /\ Load(w, i).actualPage = i
         /\ Load(w, i).visible = IF w.firstLoad THEN w.visible ELSE 1 - w.visible
         /\ Load(w, i).isLoading = (i # FinishStep)
         /\ Load(w, i).shown = w.shown \ {w.visible}
         /\ i = FinishStep => Load(w, i).page[Load(w, i).visible] = FinishStep
         /\ LoadCall(w, i) = IF i = FinishStep THEN {}
                             ELSE {[op |-> "load", page |-> i, pane |-> Load(w, i).visible]}
<1>1. LastStep \in Nat /\ ~(i > FinishStep) /\ i > 0 /\ (i > LastStep <=> i = FinishStep)
  BY LastStepAssumption DEF FinishStep
<1>2. w.visible \in Pane /\ 1 - w.visible \in Pane
  BY DEF WizardRecord, Pane
<1>3. CASE i = FinishStep
  BY <1>1, <1>2, <1>3 DEF Load, LoadCall, WizardRecord
<1>4. CASE i # FinishStep
  BY <1>1, <1>2, <1>4 DEF Load, LoadCall, WizardRecord
<1>5. QED
  BY <1>3, <1>4

LEMMA WizardStarts == WizardInit => WizardInv
<1> SUFFICES ASSUME WizardInit PROVE WizardInv
  OBVIOUS
<1>1. LastStep \in Nat
  BY LastStepAssumption
<1>2. NewWizard \in WizardRecord
  BY <1>1 DEF NewWizard, WizardRecord, Pane, FinishStep, NoStep
<1>3. /\ wizard.actualPage = 0 /\ wizard.visible = 0 /\ wizard.shown = {} /\ wizard.isLoading
      /\ wizardCalls = {[op |-> "load", page |-> 0, pane |-> 0]}
  <2>1. ~(0 > FinishStep) /\ 0 # FinishStep /\ ~(0 > LastStep)
    BY <1>1 DEF FinishStep
  <2>2. NewWizard.firstLoad /\ NewWizard.visible = 0 /\ NewWizard.shown = {}
    BY DEF NewWizard
  <2>3. wizard = [[NewWizard EXCEPT !.visible = 0, !.firstLoad = FALSE, !.actualPage = 0,
                                    !.shown = {}] EXCEPT !.isLoading = TRUE]
    BY <2>1, <2>2 DEF WizardInit, Load
  <2>4. wizardCalls = {[op |-> "load", page |-> 0, pane |-> 0]}
    BY <2>1, <2>2 DEF WizardInit, LoadCall
  <2>5. QED
    BY <2>3, <2>4 DEF NewWizard
<1>4. WizardTypeOK
  <2>1. /\ wizard \in WizardRecord
        /\ wizardCalls \subseteq [op : {"load", "submit"}, page : 0..FinishStep, pane : Pane]
    BY <1>2, LoadType DEF WizardInit
  <2>2. accepted \in [0..LastStep -> Nat] /\ wizardFails \in Nat
    BY DEF WizardInit
  <2>3. QED
    BY <2>1, <2>2 DEF WizardTypeOK, WizardRecord
<1>5. OneCall /\ ShownPane
  <2>2. \A c \in wizardCalls : c.op = "load" /\ c.page = 0 /\ c.pane = 0
    BY <1>3
  <2>3. \A c, d \in wizardCalls : c = d
    BY <1>3
  <2>4. OneCall
    BY <1>3, <2>2, <2>3 DEF OneCall
  <2>5. ShownPane
    BY <1>3, <2>2 DEF ShownPane
  <2>6. QED
    BY <2>4, <2>5
<1>6. StepsInOrder
  BY <1>1, <1>3 DEF StepsInOrder, WizardInit
<1>7. QED
  BY <1>4, <1>5, <1>6 DEF WizardInv

LEMMA SubmitKeeps == WizardInv /\ SubmitPage => WizardInv'
<1> SUFFICES ASSUME WizardInv, SubmitPage PROVE WizardInv'
  OBVIOUS
<1> DEFINE c == [op |-> "submit", page |-> wizard.page[wizard.visible], pane |-> wizard.visible]
<1>1. wizard \in WizardRecord /\ LastStep \in Nat
  BY LastStepAssumption DEF WizardInv, WizardTypeOK, WizardRecord
<1>2. wizardCalls = {} /\ wizard.page[wizard.visible] = wizard.actualPage
  BY DEF WizardInv, OneCall, SubmitPage
<1>3. wizard' = [wizard EXCEPT !.isLoading = TRUE] /\ wizardCalls' = {c} /\ accepted' = accepted
  BY <1>2 DEF SubmitPage
<1>4. /\ wizard'.actualPage = wizard.actualPage /\ wizard'.visible = wizard.visible
      /\ wizard'.shown = wizard.shown /\ wizard'.page = wizard.page /\ wizard'.isLoading
      /\ wizard' \in WizardRecord
  BY <1>1, <1>3 DEF WizardRecord
<1>5. c \in [op : {"load", "submit"}, page : 0..FinishStep, pane : Pane]
  BY <1>1, <1>2 DEF WizardRecord
<1>6. WizardTypeOK'
  BY <1>3, <1>4, <1>5 DEF WizardInv, WizardTypeOK, WizardRecord, SubmitPage
<1>7. OneCall'
  BY <1>2, <1>3, <1>4 DEF OneCall
<1>8. ShownPane' /\ StepsInOrder'
  BY <1>2, <1>3, <1>4 DEF WizardInv, ShownPane, StepsInOrder, SubmitPage
<1>9. QED
  BY <1>6, <1>7, <1>8 DEF WizardInv

\* Without its only request the wizard waits for nothing.
LEMMA OnlyCall ==
  ASSUME WizardInv, NEW c \in wizardCalls PROVE wizardCalls \ {c} = {}
  BY DEF WizardInv, OneCall

LEMMA LoadedKeeps == ASSUME WizardInv, NEW c \in wizardCalls, PageLoaded(c) PROVE WizardInv'
<1>1. wizard \in WizardRecord /\ LastStep \in Nat /\ c.pane \in Pane /\ c.page \in 0..FinishStep
  BY LastStepAssumption DEF WizardInv, WizardTypeOK, WizardRecord
<1>2. c.page = wizard.actualPage /\ c.pane = wizard.visible /\ wizard.shown = {}
  BY DEF WizardInv, OneCall, PageLoaded
<1>3. wizardCalls' = {} /\ accepted' = accepted
  BY OnlyCall DEF PageLoaded
<1>4. /\ wizard'.actualPage = wizard.actualPage /\ wizard'.visible = wizard.visible
      /\ wizard'.shown = {wizard.visible} /\ wizard'.page[wizard.visible] = wizard.actualPage
      /\ ~wizard'.isLoading /\ wizard' \in WizardRecord
  <2>1. wizard' = [wizard EXCEPT !.shown = @ \union {c.pane}, !.page[c.pane] = c.page, !.isLoading = FALSE]
    BY DEF PageLoaded
  <2>2. c.page \in 0..NoStep
    BY <1>1 DEF FinishStep, NoStep
  <2>3. wizard' \in WizardRecord
    BY <1>1, <2>1, <2>2 DEF WizardRecord
  <2>4. /\ wizard'.actualPage = wizard.actualPage /\ wizard'.visible = wizard.visible
        /\ wizard'.shown = wizard.shown \union {c.pane} /\ ~wizard'.isLoading
        /\ wizard'.page = [wizard.page EXCEPT ![c.pane] = c.page]
    BY <1>1, <2>1 DEF WizardRecord
  <2>5. wizard.page \in [Pane -> 0..NoStep]
    BY <1>1 DEF WizardRecord
  <2>6. wizard'.page[c.pane] = c.page
    BY <1>1, <2>4, <2>5
  <2>7. wizard'.shown = {c.pane}
    BY <1>2, <2>4
  <2>8. QED
    BY <1>2, <2>3, <2>4, <2>6, <2>7
<1>5. WizardTypeOK'
  BY <1>3, <1>4 DEF WizardInv, WizardTypeOK, WizardRecord, PageLoaded
<1>6. OneCall'
  BY <1>3, <1>4 DEF OneCall
<1>7. ShownPane' /\ StepsInOrder'
  BY <1>3, <1>4 DEF WizardInv, ShownPane, StepsInOrder
<1>8. QED
  BY <1>5, <1>6, <1>7 DEF WizardInv

LEMMA FailureKeeps ==
  ASSUME WizardInv, NEW c \in wizardCalls, PageNotLoaded(c) \/ PageRefused(c)
  PROVE  WizardInv'
<1>1. wizard \in WizardRecord /\ wizardFails' \in Nat
  BY DEF WizardInv, WizardTypeOK, WizardRecord, PageNotLoaded, PageRefused
<1>2. wizardCalls' = {} /\ accepted' = accepted
  BY OnlyCall DEF PageNotLoaded, PageRefused
<1>3. CASE PageNotLoaded(c)
  <2>1. wizard' = wizard /\ wizard.isLoading
    BY <1>3 DEF PageNotLoaded, WizardInv, OneCall
  <2>2. QED
    BY <1>1, <1>2, <2>1 DEF WizardInv, WizardTypeOK, OneCall, ShownPane, StepsInOrder
<1>4. CASE PageRefused(c)
  <2>1. c.op = "submit" /\ wizard' = [wizard EXCEPT !.isLoading = FALSE]
    BY <1>4 DEF PageRefused
  <2>2. /\ wizard'.actualPage = wizard.actualPage /\ wizard'.visible = wizard.visible
        /\ wizard'.shown = wizard.shown /\ wizard'.page = wizard.page /\ wizard' \in WizardRecord
    BY <1>1, <2>1 DEF WizardRecord
  <2>3. WizardTypeOK'
    BY <1>1, <1>2, <2>2 DEF WizardInv, WizardTypeOK, WizardRecord
  <2>4. OneCall' /\ ShownPane' /\ StepsInOrder'
    BY <1>2, <2>1, <2>2 DEF WizardInv, OneCall, ShownPane, StepsInOrder
  <2>5. QED
    BY <2>3, <2>4 DEF WizardInv
<1>5. QED
  BY <1>3, <1>4

LEMMA AcceptedKeeps == ASSUME WizardInv, NEW c \in wizardCalls, PageAccepted(c) PROVE WizardInv'
<1> DEFINE next == wizard.actualPage + 1
<1>1. /\ wizard \in WizardRecord /\ LastStep \in Nat /\ wizard.actualPage \in 0..FinishStep
      /\ next \in Nat /\ accepted \in [0..LastStep -> Nat]
  BY LastStepAssumption DEF WizardInv, WizardTypeOK, WizardRecord, FinishStep
<1>2. /\ c.op = "submit" /\ c.page = wizard.actualPage
      /\ wizard.page[wizard.visible] = wizard.actualPage /\ wizard.isLoading
  BY DEF WizardInv, OneCall, PageAccepted
<1>3. /\ wizard' = Load(wizard, next) /\ wizardCalls' = LoadCall(wizard, next)
      /\ accepted' = [i \in 0..LastStep |-> accepted[i] + IF i = wizard.actualPage THEN 1 ELSE 0]
  BY <1>2, OnlyCall DEF PageAccepted
<1>4. WizardTypeOK'
  <2>1. accepted' \in [0..LastStep -> Nat]
    BY <1>1, <1>3
  <2>2. /\ wizard' \in WizardRecord
        /\ wizardCalls' \subseteq [op : {"load", "submit"}, page : 0..FinishStep, pane : Pane]
    BY <1>1, <1>3, LoadType
  <2>3. QED
    BY <2>1, <2>2 DEF WizardInv, WizardTypeOK, WizardRecord, PageAccepted
<1>5. CASE wizard.actualPage = FinishStep
  <2>1. wizard' = wizard /\ wizardCalls' = {} /\ \A i \in 0..LastStep : accepted'[i] = accepted[i]
    BY <1>1, <1>3, <1>5 DEF Load, LoadCall, FinishStep
  <2>2. OneCall' /\ ShownPane' /\ StepsInOrder'
    BY <1>2, <2>1 DEF WizardInv, OneCall, ShownPane, StepsInOrder
  <2>3. QED
    BY <1>4, <2>2 DEF WizardInv
<1>6. CASE wizard.actualPage # FinishStep
  <2>1. next \in 1..FinishStep /\ wizard.actualPage <= LastStep
    BY <1>1, <1>6 DEF FinishStep
  <2>2. /\ wizard'.actualPage = next /\ wizard'.isLoading = (next # FinishStep)
        /\ wizard'.shown = wizard.shown \ {wizard.visible}
        /\ next = FinishStep => wizard'.page[wizard'.visible] = FinishStep
        /\ wizardCalls' = IF next = FinishStep THEN {}
                          ELSE {[op |-> "load", page |-> next, pane |-> wizard'.visible]}
    BY <1>1, <1>3, <2>1, LoadedFields
  <2>3. wizard.shown = {wizard.visible}
    BY <1>2, <2>1 DEF WizardInv, ShownPane
  <2> HIDE DEF next
  <2>a. wizard'.shown = {}
    BY <2>2, <2>3
  <2>b. /\ \A d \in wizardCalls' : d.op = "load" /\ d.page = next /\ d.pane = wizard'.visible
        /\ \A d, d2 \in wizardCalls' : d = d2
        /\ next = FinishStep => wizardCalls' = {}
    BY <2>2
  <2>4. OneCall'
    BY <2>2, <2>a, <2>b DEF OneCall
  <2>5. ShownPane'
    <3>1. wizard'.actualPage <= LastStep => next # FinishStep
      BY <1>1, <2>2 DEF FinishStep
    <3>2. QED
      BY <2>2, <2>b, <3>1 DEF ShownPane
  <2>6. StepsInOrder'
    <3>1. ASSUME NEW i \in 0..LastStep PROVE accepted'[i] = IF i < wizard'.actualPage THEN 1 ELSE 0
      <4>1. accepted[i] = IF i < wizard.actualPage THEN 1 ELSE 0
        BY DEF WizardInv, StepsInOrder
      <4>2. accepted'[i] = accepted[i] + IF i = wizard.actualPage THEN 1 ELSE 0
        BY <1>3
      <4>3. QED
        BY <1>1, <2>2, <4>1, <4>2 DEF next
    <3>2. QED
      BY <3>1 DEF StepsInOrder
  <2>7. QED
    BY <1>4, <2>4, <2>5, <2>6 DEF WizardInv
<1>7. QED
  BY <1>5, <1>6

LEMMA LeavesKeeps == WizardInv /\ Leaves => WizardInv'
<1> SUFFICES ASSUME WizardInv, Leaves PROVE WizardInv'
  OBVIOUS
<1>1. wizard \in WizardRecord
  BY DEF WizardInv, WizardTypeOK, WizardRecord
<1>2. /\ wizard'.actualPage = wizard.actualPage /\ wizard'.visible = wizard.visible
      /\ wizard'.shown = wizard.shown /\ wizard'.page = wizard.page
      /\ wizard'.isLoading = wizard.isLoading /\ wizard' \in WizardRecord
  BY <1>1 DEF Leaves, WizardRecord
<1>3. QED
  BY <1>2 DEF Leaves, WizardInv, WizardTypeOK, WizardRecord, OneCall, ShownPane, StepsInOrder

LEMMA WizardInvariant == WizardSpec => []WizardInv
<1>1. WizardInv /\ [WizardNext]_wizardVars => WizardInv'
  <2>1. SUFFICES ASSUME WizardInv, [WizardNext]_wizardVars PROVE WizardInv'
    OBVIOUS
  <2>2. CASE UNCHANGED wizardVars
    BY <2>1, <2>2 DEF wizardVars, WizardInv, WizardTypeOK, OneCall, ShownPane, StepsInOrder
  <2>3. QED
    BY <2>1, <2>2, SubmitKeeps, LoadedKeeps, FailureKeeps, AcceptedKeeps, LeavesKeeps DEF WizardNext
<1>2. QED
  BY <1>1, WizardStarts, PTL DEF WizardSpec

\* The type invariant of the wizard, for any number of pages (WizardTypeOK).
THEOREM WizardTypeCorrect == WizardSpec => []WizardTypeOK
  BY WizardInvariant, PTL DEF WizardInv

\* Every page before the one asked for was accepted exactly once and no later
\* one, whatever is clicked while a request is on its way (StepsInOrder).
THEOREM WizardInOrder == WizardSpec => []StepsInOrder
  BY WizardInvariant, PTL DEF WizardInv

\* A wizard that is not waiting shows one pane, with the page the next
\* submission counts from (OnePaneShown).
THEOREM WizardShowsOnePane == WizardSpec => []OnePaneShown
<1>1. WizardInv => OnePaneShown
  BY LastStepAssumption DEF WizardInv, OneCall, ShownPane, OnePaneShown
<1>2. QED
  BY <1>1, WizardInvariant, PTL

-----------------------------------------------------------------------------
(* The migration, for any mailboxes, polls and failures.                   *)

\* The states that a mailbox does not leave for one that is still to copy.
LastStates == {"copied", "migrated", "cancelled"}

RowState == MailboxState \union {Unset}

StatesOK == migration \in [Mailbox -> MailboxState] /\ rowState \in [Mailbox -> RowState]

\* No row is ahead of its mailbox, however old the answer it was set from.
RowsBehind == \A u \in Mailbox : rowState[u] \in LastStates => migration[u] \in LastStates

\* What a request or an answer on its way says was true when it was sent, and
\* a state that is final then is final now.
AskedOK(q) ==
    /\ q.op \in {"discard", "activate"} => q.user \in Mailbox
    /\ q.op = "progressed" =>
          /\ q.users \in [Mailbox -> MailboxState]
          /\ \A u \in Mailbox : q.users[u] \in LastStates => migration[u] \in LastStates
    /\ q.op = "obeyed" =>
          /\ q.user \in Mailbox /\ q.state \in {"cancelled", "migrated"}
          /\ migration[q.user] \in LastStates

AnswersBehind == \A q \in asked : AskedOK(q)

MigrationInv == StatesOK /\ RowsBehind /\ AnswersBehind /\ DoneMeansCopied

\* A step of the server that takes no mailbox out of a final state leaves true
\* what was said of the rows and of the answers.
LEMMA FinalStays ==
  ASSUME MigrationInv, migration' \in [Mailbox -> MailboxState],
         \A u \in Mailbox : migration[u] \in LastStates => migration'[u] \in LastStates,
         rowState' = rowState, doneButton' = doneButton
  PROVE  /\ StatesOK' /\ RowsBehind' /\ DoneMeansCopied'
         /\ \A q \in asked : AskedOK(q)'
<1>1. StatesOK' /\ RowsBehind'
  BY DEF MigrationInv, StatesOK, RowsBehind
<1>2. DoneMeansCopied'
  BY DEF MigrationInv, DoneMeansCopied, LastStates
<1>3. ASSUME NEW q \in asked PROVE AskedOK(q)'
  <2>1. AskedOK(q)
    BY DEF MigrationInv, AnswersBehind
  <2>2. QED
    BY <2>1 DEF AskedOK
<1>4. QED
  BY <1>1, <1>2, <1>3

\* Rows set from states that are no further than the mailboxes' own.
LEMMA AllStoppedFinal ==
  ASSUME NEW rows, \A u \in Mailbox : rows[u] \in LastStates => migration[u] \in LastStates, AllStopped(rows)
  PROVE  \A u \in Mailbox : migration[u] \in {"copied", "migrated", "cancelled"}
  BY DEF AllStopped, Stopped, LastStates

LEMMA MigrationStarts == MigrationInit => MigrationInv
  BY DEF MigrationInit, MigrationInv, StatesOK, RowsBehind, AnswersBehind, DoneMeansCopied,
         MailboxState, RowState, Unset, LastStates

\* The steps of the page that only touch what it asks and its selection.
LEMMA PageKeeps ==
  ASSUME MigrationInv, UNCHANGED <<migration, rowState, doneButton>>,
         \A q \in asked' : q \in asked \/ AskedOK(q)
  PROVE  MigrationInv'
<1>1. \A q \in asked' : AskedOK(q)'
  BY DEF MigrationInv, AnswersBehind, AskedOK
<1>2. QED
  BY <1>1 DEF MigrationInv, StatesOK, RowsBehind, AnswersBehind, DoneMeansCopied

LEMMA AdvanceKeeps == ASSUME MigrationInv, NEW u \in Mailbox, MailboxAdvances(u) PROVE MigrationInv'
<1>1. /\ migration' \in [Mailbox -> MailboxState]
      /\ \A v \in Mailbox : migration[v] \in LastStates => migration'[v] \in LastStates
  BY DEF MailboxAdvances, MigrationInv, StatesOK, MailboxState, LastStates
<1>2. rowState' = rowState /\ doneButton' = doneButton /\ asked' = asked
  BY DEF MailboxAdvances
<1>3. QED
  BY <1>1, <1>2, FinalStays DEF MigrationInv, AnswersBehind

LEMMA AnswersKeeps == ASSUME MigrationInv, NEW q \in asked, Answers(q) PROVE MigrationInv'
<1> DEFINE a == [op |-> "progressed", id |-> q.id, users |-> migration]
<1>1. a.op = "progressed" /\ a.users = migration
  OBVIOUS
<1>2. AskedOK(a)
  BY <1>1 DEF AskedOK, MigrationInv, StatesOK
<1>3. asked' = (asked \ {q}) \union {a} /\ UNCHANGED <<migration, rowState, doneButton>>
  BY DEF Answers
<1>4. QED
  BY <1>2, <1>3, PageKeeps

LEMMA ObeysKeeps == ASSUME MigrationInv, NEW q \in asked, Obeys(q) PROVE MigrationInv'
<1> DEFINE state == IF q.op = "discard" THEN "cancelled" ELSE "migrated"
           a == [op |-> "obeyed", user |-> q.user, state |-> state]
<1>1. q.op \in {"discard", "activate"} /\ q.user \in Mailbox
  BY DEF Obeys, MigrationInv, AnswersBehind, AskedOK
<1>2. /\ migration' = [migration EXCEPT ![q.user] = state]
      /\ asked' = (asked \ {q}) \union {a} /\ rowState' = rowState /\ doneButton' = doneButton
  BY DEF Obeys
<1>3. state \in {"cancelled", "migrated"} /\ migration \in [Mailbox -> MailboxState]
  BY DEF MigrationInv, StatesOK
<1>4. /\ migration' \in [Mailbox -> MailboxState] /\ migration'[q.user] \in LastStates
      /\ \A v \in Mailbox : migration[v] \in LastStates => migration'[v] \in LastStates
  BY <1>1, <1>2, <1>3 DEF MailboxState, LastStates
<1>5. AskedOK(a)'
  <2>1. a.op = "obeyed" /\ a.user = q.user /\ a.state = state
    OBVIOUS
  <2>2. QED
    BY <1>1, <1>3, <1>4, <2>1 DEF AskedOK
<1>6. \A r \in asked' : AskedOK(r)'
  BY <1>2, <1>4, <1>5, FinalStays
<1>7. QED
  BY <1>2, <1>4, <1>6, FinalStays DEF MigrationInv, AnswersBehind

LEMMA ShowsProgressKeeps ==
  ASSUME MigrationInv, NEW q \in asked, ShowsProgress(q) PROVE MigrationInv'
<1>1. /\ q.users \in [Mailbox -> MailboxState]
      /\ \A u \in Mailbox : q.users[u] \in LastStates => migration[u] \in LastStates
  BY DEF ShowsProgress, MigrationInv, AnswersBehind, AskedOK
<1>2. rowState' = q.users /\ migration' = migration /\ asked' = asked \ {q}
  BY DEF ShowsProgress
<1>3. StatesOK' /\ RowsBehind'
  BY <1>1, <1>2 DEF MigrationInv, StatesOK, RowsBehind, RowState
<1>4. AnswersBehind'
  BY <1>2 DEF MigrationInv, AnswersBehind, AskedOK
<1>5. DoneMeansCopied'
  <2>1. PICK order \in [1..Cardinality(Mailbox) -> Mailbox] :
          LET rows(i) == [u \in Mailbox |-> IF \E j \in 1..i : order[j] = u THEN q.users[u] ELSE rowState[u]]
              looks == {i \in DOMAIN order : q.users[order[i]] \in {"migrated", "cancelled"}}
          IN  doneButton' = IF looks = {} THEN doneButton
                            ELSE AllStopped(rows(CHOOSE i \in looks : \A j \in looks : j <= i))
    BY DEF ShowsProgress
  <2> DEFINE rows(i) == [u \in Mailbox |-> IF \E j \in 1..i : order[j] = u THEN q.users[u] ELSE rowState[u]]
  <2>2. PICK i : doneButton' = doneButton \/ doneButton' = AllStopped(rows(i))
    BY <2>1
  <2>3. CASE doneButton' = doneButton
    BY <1>2, <2>3 DEF MigrationInv, DoneMeansCopied
  <2>4. CASE doneButton' = AllStopped(rows(i))
    <3>1. \A u \in Mailbox : rows(i)[u] \in LastStates => migration[u] \in LastStates
      BY <1>1 DEF MigrationInv, RowsBehind
    <3> HIDE DEF rows
    <3>2. QED
      BY <1>2, <2>4, <3>1, AllStoppedFinal DEF DoneMeansCopied
  <2>5. QED
    BY <2>2, <2>3, <2>4
<1>6. QED
  BY <1>3, <1>4, <1>5 DEF MigrationInv

LEMMA ShowsObeyedKeeps == ASSUME MigrationInv, NEW q \in asked, ShowsObeyed(q) PROVE MigrationInv'
<1>1. q.user \in Mailbox /\ q.state \in {"cancelled", "migrated"} /\ migration[q.user] \in LastStates
  BY DEF ShowsObeyed, MigrationInv, AnswersBehind, AskedOK
<1>2. /\ rowState' = [rowState EXCEPT ![q.user] = q.state] /\ migration' = migration
      /\ asked' = asked \ {q} /\ doneButton' = AllStopped(rowState')
  BY DEF ShowsObeyed
<1>3. StatesOK' /\ RowsBehind'
  BY <1>1, <1>2 DEF MigrationInv, StatesOK, RowsBehind, RowState, MailboxState
<1>4. AnswersBehind'
  BY <1>2 DEF MigrationInv, AnswersBehind, AskedOK
<1>5. \A u \in Mailbox : rowState'[u] \in LastStates => migration[u] \in LastStates
  BY <1>2, <1>3 DEF RowsBehind
<1>6. DoneMeansCopied'
  BY <1>2, <1>5, AllStoppedFinal DEF DoneMeansCopied
<1>7. QED
  BY <1>3, <1>4, <1>6 DEF MigrationInv

LEMMA SelectionKeeps ==
  ASSUME MigrationInv,
         \/ \E n \in 0..2 : ChangeUsers(n)
         \/ EstimateMigration \/ StartMigration
         \/ \E t \in Timers : EstimateUpdate(t)
         \/ \E q \in asked : \/ \E answer \in {"ok", "error", "failed"} : EstimateStarted(q, answer)
                             \/ \E done \in BOOLEAN : EstimateUpdated(q, done)
                             \/ Refuses(q)
  PROVE  MigrationInv'
<1>1. UNCHANGED <<migration, rowState, doneButton>>
  BY DEF ChangeUsers, EstimateMigration, StartMigration, EstimateUpdate, EstimateStarted,
         EstimateUpdated, Refuses, Selected
<1>2. \A q \in asked' : q \in asked \/ q.op \in {"estimate", "estimateUpdate"}
  <2>1. CASE EstimateMigration
    BY <2>1 DEF EstimateMigration
  <2>2. ASSUME NEW t \in Timers, EstimateUpdate(t)
        PROVE  \A q \in asked' : q \in asked \/ q.op \in {"estimate", "estimateUpdate"}
    BY <2>2 DEF EstimateUpdate
  <2>3. QED
    BY <2>1, <2>2 DEF ChangeUsers, StartMigration, EstimateStarted, EstimateUpdated, Refuses
<1>3. QED
  BY <1>1, <1>2, PageKeeps DEF AskedOK

LEMMA AsksKeep ==
  ASSUME MigrationInv, Progress \/ \E u \in Mailbox : DiscardMailbox(u) \/ ActivateMailbox(u)
  PROVE  MigrationInv'
<1>1. UNCHANGED <<migration, rowState, doneButton>>
  BY DEF Progress, DiscardMailbox, ActivateMailbox, Ask
<1>2. \A q \in asked' : q \in asked \/ AskedOK(q)
  <2>1. \E a : /\ asked' = asked \union {a}
               /\ \/ a.op = "progress"
                  \/ a.op \in {"discard", "activate"} /\ a.user \in Mailbox
    <3>1. CASE Progress
      <4>1. PICK i \in 1..2 : Ask([op |-> "progress", id |-> i])
        BY <3>1 DEF Progress
      <4>2. asked' = asked \union {[op |-> "progress", id |-> i]}
        BY <4>1 DEF Ask
      <4>3. [op |-> "progress", id |-> i].op = "progress"
        OBVIOUS
      <4>4. QED
        BY <4>2, <4>3
    <3>2. CASE \E u \in Mailbox : DiscardMailbox(u) \/ ActivateMailbox(u)
      <4>1. PICK u \in Mailbox, op \in {"discard", "activate"} : Ask([op |-> op, user |-> u])
        BY <3>2 DEF DiscardMailbox, ActivateMailbox
      <4>2. asked' = asked \union {[op |-> op, user |-> u]}
        BY <4>1 DEF Ask
      <4>3. [op |-> op, user |-> u].op = op /\ [op |-> op, user |-> u].user = u
        OBVIOUS
      <4>4. QED
        BY <4>2, <4>3
    <3>3. QED
      BY <3>1, <3>2
  <2> PICK a : /\ asked' = asked \union {a}
               /\ \/ a.op = "progress"
                  \/ a.op \in {"discard", "activate"} /\ a.user \in Mailbox
    BY <2>1
  <2>2. AskedOK(a)
    BY DEF AskedOK
  <2>3. QED
    BY <2>2
<1>3. QED
  BY <1>1, <1>2, PageKeeps

LEMMA MigrationInvariant == MigrationSpec => []MigrationInv
<1>1. MigrationInv /\ [MigrationNext]_migrationVars => MigrationInv'
  <2>1. SUFFICES ASSUME MigrationInv, [MigrationNext]_migrationVars PROVE MigrationInv'
    OBVIOUS
  <2>2. CASE UNCHANGED migrationVars
    BY <2>1, <2>2, PageKeeps DEF migrationVars
  <2>3. QED
    BY <2>1, <2>2, SelectionKeeps, AsksKeep, AdvanceKeeps, AnswersKeeps, ObeysKeeps,
       ShowsProgressKeeps, ShowsObeyedKeeps DEF MigrationNext
<1>2. QED
  BY <1>1, MigrationStarts, PTL DEF MigrationSpec

\* DONE is never shown while the server has a mailbox still to copy, however
\* late and in whatever order the answers come (DoneMeansCopied).
THEOREM DoneAfterCopying == MigrationSpec => []DoneMeansCopied
  BY MigrationInvariant, PTL DEF MigrationInv

-----------------------------------------------------------------------------
(* The menu of tabs, for any tabs and parameters.                          *)

\* A request carries what its tab asks with, whatever the form held before.
Carries(q) ==
    /\ q.params["directory"] = q.tab
    /\ \A n \in DOMAIN OwnParams[q.tab] : q.params[n] = OwnParams[q.tab][n]

\* Until two requests cross there is one at most, for the tab that is marked.
OneRequest ==
    ~tabCrossed => /\ \A q, r \in tabCalls : q = r
                   /\ \A q \in tabCalls : q.tab = tabMenu.current
                   /\ tabData \in {tabMenu.current, "loading", "blank"}

TabsInv ==
    /\ \A q \in tabCalls : Carries(q)
    /\ OneRequest
    /\ tabMenu \in [active : TabIds \union {NoTab}, current : TabIds \union {NoTab}, idx : 1..(Len(Tab) + 1)]
    /\ tabData \in TabIds \union {"loading", "blank"}
    /\ \A q \in tabCalls : q.tab \in TabIds

\* Inputs() overwrites what another tab left of the same name.
LEMMA InputsCarry ==
  ASSUME NEW sent, NEW tab \in TabIds
  PROVE  /\ Inputs(sent, tab)["directory"] = tab
         /\ \A n \in DOMAIN OwnParams[tab] : Inputs(sent, tab)[n] = OwnParams[tab][n]
<1>1. "directory" \notin DOMAIN OwnParams[tab]
  BY TabsAssumption DEF TabIds
<1>2. QED
  BY <1>1 DEF Inputs

LEMMA ShownKeeps ==
  ASSUME TabsInv, NEW tab \in TabIds \union {NoTab}, NEW idx \in 1..(Len(Tab) + 1), ShowActiveTab(tab, idx)
  PROVE  TabsInv'
<1>1. CASE tab = NoTab
  <2>1. /\ tabMenu' = [tabMenu EXCEPT !.active = NoTab, !.idx = idx]
        /\ UNCHANGED <<tabData, tabCalls, tabCrossed>>
    BY <1>1 DEF ShowActiveTab
  <2>2. /\ tabMenu'.current = tabMenu.current
        /\ tabMenu' \in [active : TabIds \union {NoTab}, current : TabIds \union {NoTab}, idx : 1..(Len(Tab) + 1)]
    BY <2>1 DEF TabsInv
  <2>3. QED
    BY <2>1, <2>2 DEF TabsInv, OneRequest, Carries
<1>2. CASE tab # NoTab
  <2>1. tab \in TabIds
    BY <1>2
  <2>2. PICK n \in 1..MaxTabCalls :
          tabCalls' = tabCalls \union {[id |-> n, tab |-> tab, params |-> tableForm']}
    BY <1>2 DEF ShowActiveTab
  <2> DEFINE call == [id |-> n, tab |-> tab, params |-> tableForm']
  <2>3. call.tab = tab /\ call.params = tableForm'
    OBVIOUS
  <2>4. /\ tabMenu' = [active |-> tab, current |-> tab, idx |-> idx]
        /\ tableForm' = Inputs(tableForm, tab) /\ tabData' = "loading"
        /\ tabCrossed' = (tabCrossed \/ tabCalls # {})
    BY <1>2 DEF ShowActiveTab
  <2>5. Carries(call)
    BY <2>1, <2>3, <2>4, InputsCarry DEF Carries
  <2>6. \A q \in tabCalls' : Carries(q)'
    BY <2>2, <2>5 DEF TabsInv, Carries
  <2>7. tabMenu'.current = tab
    BY <2>4
  <2>8. OneRequest'
    BY <2>2, <2>3, <2>4, <2>7 DEF OneRequest
  <2>9. /\ tabMenu' \in [active : TabIds \union {NoTab}, current : TabIds \union {NoTab}, idx : 1..(Len(Tab) + 1)]
        /\ \A q \in tabCalls' : q.tab \in TabIds
    BY <2>1, <2>2, <2>3, <2>4 DEF TabsInv
  <2>10. QED
    BY <2>4, <2>6, <2>8, <2>9 DEF TabsInv
<1>3. QED
  BY <1>1, <1>2

LEMMA AnswerKeeps ==
  ASSUME TabsInv, NEW q \in tabCalls, TabHung(q) \/ TabFails(q)
  PROVE  TabsInv'
<1>1. /\ tabCalls' = tabCalls \ {q} /\ tabData' \in {q.tab, "blank"}
      /\ UNCHANGED <<tabMenu, tabCrossed>>
  BY DEF TabHung, TabFails
<1>2. OneRequest'
  BY <1>1 DEF TabsInv, OneRequest
<1>3. QED
  BY <1>1, <1>2 DEF TabsInv, Carries

LEMMA TabsInvariant == TabsSpec => []TabsInv
<1>1. ASSUME TabsInit PROVE TabsInv
  <2>1. 1 \in DOMAIN Tab /\ 1 \in 1..(Len(Tab) + 1)
    BY TabsAssumption
  <2>2. tabMenu = [active |-> Tab[1], current |-> NoTab, idx |-> 1] /\ Tab[1] \in TabIds
    BY <1>1, <2>1 DEF TabsInit, TabIds
  <2>3. tabMenu \in [active : TabIds \union {NoTab}, current : TabIds \union {NoTab}, idx : 1..(Len(Tab) + 1)]
    BY <2>1, <2>2
  <2>4. QED
    BY <1>1, <2>3 DEF TabsInit, TabsInv, OneRequest
<1>2. TabsInv /\ [TabsNext]_tabsVars => TabsInv'
  <2> SUFFICES ASSUME TabsInv, [TabsNext]_tabsVars PROVE TabsInv'
    OBVIOUS
  <2>1. tabMenu.idx \in 1..(Len(Tab) + 1) /\ Len(Tab) \in Nat \ {0} /\ DOMAIN Tab = 1..Len(Tab)
    BY TabsAssumption DEF TabsInv
  <2>2. ASSUME NEW i \in DOMAIN Tab, ClickTab(i) PROVE TabsInv'
    BY <2>1, <2>2, ShownKeeps DEF ClickTab, TabIds
  <2>3. \A i : TabAt(i) \in TabIds \union {NoTab}
    BY DEF TabAt, TabIds
  <2>4. CASE NextTab
    BY <2>1, <2>3, <2>4, ShownKeeps DEF NextTab
  <2>5. CASE PreviousTab
    BY <2>1, <2>3, <2>5, ShownKeeps DEF PreviousTab
  <2>6. Tab[1] \in TabIds /\ Tab[Len(Tab)] \in TabIds
    BY <2>1 DEF TabIds
  <2>7. CASE FirstTab
    BY <2>1, <2>6, <2>7, ShownKeeps DEF FirstTab
  <2>8. CASE LastTab
    BY <2>1, <2>6, <2>8, ShownKeeps DEF LastTab
  <2>9. ASSUME NEW q \in tabCalls, TabHung(q) \/ TabFails(q) PROVE TabsInv'
    BY <2>9, AnswerKeeps
  <2>10. CASE UNCHANGED tabsVars
    BY <2>10 DEF tabsVars, TabsInv, OneRequest, Carries
  <2>11. QED
    BY <2>2, <2>4, <2>5, <2>7, <2>8, <2>9, <2>10 DEF TabsNext
<1>3. QED
  BY <1>1, <1>2, PTL DEF TabsSpec

\* The types of the menu and of the page, for any tabs (TabsTypeOK).
THEOREM TabsTypeCorrect == TabsSpec => []TabsTypeOK
<1>1. TabsInv => TabsTypeOK
  BY DEF TabsInv, TabsTypeOK
<1>2. QED
  BY <1>1, TabsInvariant, PTL

\* Every request carries the parameters of its own tab and no other's under
\* the same name, and the marked tab is the one shown or awaited unless two
\* requests crossed (TabAskedAndShown).
THEOREM TabsAskRight == TabsSpec => []TabAskedAndShown
<1>1. TabsInv => TabAskedAndShown
  BY DEF TabsInv, OneRequest, Carries, TabAskedAndShown
<1>2. QED
  BY <1>1, TabsInvariant, PTL

-----------------------------------------------------------------------------
(* The page of a long action, for any number of polls, ticks and failures. *)

\* The hash as the process has it: in the file, or in hand between the
\* truncation and the write.
ProgressHash == [started : BOOLEAN, finished : BOOLEAN, retValue : {-1, 0, 1}, errorMsg : BOOLEAN,
                 ticks : Nat, totalTicks : Nat]
HashKept == IF runner.hash = Missing THEN progressFile ELSE runner.hash

SomeWrite == ({"finished", "errorMsg"} \X {TRUE}) \union ({"retValue"} \X {0, 1})
                \union ({"ticks", "totalTicks"} \X Nat)

Runner == [status : {"running", "finishing", "finished", "died"}, todo : Seq(SomeWrite),
           hash : ProgressHash \union {Missing}, retValue : {-1, 0, 1}]

\* Keys still to be set: no return value but the process's own, and no ticks
\* beyond the total that will be there by then.
WritesKept(r, total) ==
    \A i \in 1..Len(r.todo) :
        /\ r.todo[i][1] = "retValue" => r.status = "finishing" /\ r.todo[i][2] = r.retValue
        /\ r.todo[i][1] = "totalTicks" =>
              /\ i = 1 /\ Len(r.todo) = 2 /\ r.todo[2][1] = "ticks"
              /\ r.todo[i][2] >= total /\ r.todo[2][2] <= r.todo[i][2]
        /\ r.todo[i][1] = "ticks" => r.todo[i][2] <= total \/ r.todo[1][1] = "totalTicks"

FileKept ==
    /\ runner \in Runner
    /\ progressFile \in ProgressHash \union {Truncated}
    /\ HashKept \in ProgressHash /\ HashKept.ticks <= HashKept.totalTicks
    /\ runner.hash # Missing => progressFile = Truncated
    /\ runner.status \in {"running", "finishing"} => WritesKept(runner, HashKept.totalTicks)
    /\ runner.status \in {"running", "finishing"} /\ runner.hash # Missing =>
          runner.todo # <<>> /\ runner.hash[Head(runner.todo)[1]] = Head(runner.todo)[2]
    /\ runner.status = "finished" => runner.hash = Missing

Succeeded == runner.status \in {"finishing", "finished"} /\ runner.retValue = 0

OutcomeKept ==
    /\ replaced => progressFile = Created /\ runner.status = "finished"
    /\ ~replaced => /\ HashKept.retValue = 0 => Succeeded
                    /\ \A p \in Poll : polls[p].state = "done" => Succeeded
                    /\ progressPage.done => Succeeded

PollAnswer == [state : {"not running", "running", "done", "error"}, errorMsg : BOOLEAN,
           ticks : Nat, totalTicks : Nat]
PollKept(r) == \/ r \in [state : {"unused", "sent", "garbled", "none"}]
               \/ r \in PollAnswer /\ r.ticks <= r.totalTicks

ProgressInv == /\ ProgressTypeOK /\ FileKept /\ OutcomeKept
               /\ polls = [p \in Poll |-> polls[p]] /\ \A p \in Poll : PollKept(polls[p])

LEMMA Apart == Truncated \notin ProgressHash /\ Missing \notin ProgressHash /\ Created \in ProgressHash
  BY DEF ProgressHash, Truncated, Missing, Created

LEMMA SetKey ==
  ASSUME NEW h \in ProgressHash, NEW w \in SomeWrite
  PROVE  LET g == [h EXCEPT ![w[1]] = w[2]]
         IN  /\ g \in ProgressHash /\ g[w[1]] = w[2]
             /\ g.totalTicks = IF w[1] = "totalTicks" THEN w[2] ELSE h.totalTicks
             /\ g.ticks = IF w[1] = "ticks" THEN w[2] ELSE h.ticks
             /\ g.retValue = IF w[1] = "retValue" THEN w[2] ELSE h.retValue
  BY DEF ProgressHash, SomeWrite

LEMMA StateKept ==
  ASSUME NEW f \in ProgressHash \union {Truncated}, f # Truncated => f.ticks <= f.totalTicks
  PROVE  /\ PollKept(StateAsHash(f))
         /\ StateAsHash(f).state = "done" => f # Truncated /\ f.retValue = 0
         /\ StateAsHash(f).state \in {"not running", "running", "done", "error"}
<1>1. CASE f = Truncated
  BY <1>1 DEF StateAsHash, PollKept, PollAnswer
<1>2. CASE f # Truncated
  BY <1>2 DEF StateAsHash, PollKept, PollAnswer, ProgressHash
<1>3. QED
  BY <1>1, <1>2

LEMMA ShortSeqs ==
  ASSUME NEW S, NEW a \in S, NEW b \in S
  PROVE  <<>> \in Seq(S) /\ <<a>> \in Seq(S) /\ <<a, b>> \in Seq(S)
  OBVIOUS

LEMMA ConcatOnes ==
  ASSUME NEW a, NEW b
  PROVE  <<a>> \o <<b>> = <<a, b>>
<1> DEFINE s == <<a>> \o <<b>>
           t == <<a, b>>
<1>1. s \in Seq({a, b}) /\ Len(s) = 2 /\ s[1] = a /\ s[2] = b
  BY ConcatProperties
<1>2. t \in Seq({a, b}) /\ Len(t) = 2 /\ t[1] = a /\ t[2] = b
  OBVIOUS
<1> HIDE DEF s, t
<1>3. s = t
  BY <1>1, <1>2, SeqEqual
<1>4. QED
  BY <1>3 DEF s, t

LEMMA TickKeeps == ASSUME ProgressInv, NotifyTick PROVE ProgressInv'
<1> DEFINE t == progressFile.ticks + 1
           total == NewTotal(t, progressFile.totalTicks)
<1>1. /\ runner \in Runner /\ runner.status = "running" /\ runner.todo = <<>> /\ runner.hash = Missing
      /\ HashKept = progressFile /\ progressFile \in ProgressHash
      /\ progressFile.ticks <= progressFile.totalTicks
  BY DEF ProgressInv, FileKept, NotifyTick, Idle, HashKept
<1>2. t \in Nat /\ total \in Nat /\ t <= total /\ progressFile.totalTicks <= total
  BY <1>1 DEF ProgressHash, NewTotal
<1>3. TickWrites(1) = IF total # progressFile.totalTicks
                      THEN << <<"totalTicks", total>>, <<"ticks", t>> >> ELSE << <<"ticks", t>> >>
  <2> DEFINE a == <<"totalTicks", total>>
             b == <<"ticks", t>>
  <2>1. TickWrites(1) = (IF total # progressFile.totalTicks THEN <<a>> ELSE <<>>) \o <<b>>
    BY DEF TickWrites
  <2> HIDE DEF a, b, total
  <2>2. <<a>> \o <<b>> = <<a, b>> /\ <<>> \o <<b>> = <<b>>
    <3>1. <<>> \in Seq({a, b}) /\ <<a>> \in Seq({a, b}) /\ <<b>> \in Seq({a, b})
      BY ShortSeqs
    <3>2. <<a>> \o <<b>> = <<a, b>>
      BY ConcatOnes
    <3>3. <<>> \o <<b>> = <<b>>
      BY <3>1, ConcatEmptySeq
    <3>4. QED
      BY <3>2, <3>3
  <2>3. TickWrites(1) = IF total # progressFile.totalTicks THEN <<a, b>> ELSE <<b>>
    BY <2>1, <2>2
  <2>4. QED
    BY <2>3 DEF a, b
<1>4. TickWrites(1) \in Seq(SomeWrite)
  <2>1. <<"totalTicks", total>> \in SomeWrite /\ <<"ticks", t>> \in SomeWrite
    BY <1>2 DEF SomeWrite
  <2>2. QED
    BY <1>3, <2>1, ShortSeqs
<1>5. /\ runner' \in Runner /\ runner'.todo = TickWrites(1) /\ runner'.hash = Missing
      /\ runner'.status = "running" /\ runner'.retValue = runner.retValue /\ HashKept' = HashKept
  BY <1>1, <1>4 DEF NotifyTick, Runner, HashKept
<1>6. WritesKept(runner', HashKept.totalTicks)
  BY <1>1, <1>2, <1>3, <1>5 DEF WritesKept
<1>7. FileKept'
  BY <1>1, <1>5, <1>6 DEF ProgressInv, FileKept, NotifyTick
<1>8. QED
  BY <1>1, <1>5, <1>7 DEF NotifyTick, ProgressInv, ProgressTypeOK, OutcomeKept, Succeeded

LEMMA FinishKeeps ==
  ASSUME ProgressInv, NEW retValue \in {0, 1}, NEW errorMsg \in BOOLEAN, SetAsFinished(retValue, errorMsg)
  PROVE  ProgressInv'
<1>1. /\ runner \in Runner /\ runner.status = "running" /\ runner.todo = <<>> /\ runner.hash = Missing
      /\ HashKept = progressFile /\ progressFile \in ProgressHash
      /\ progressFile.ticks <= progressFile.totalTicks
  BY DEF ProgressInv, FileKept, SetAsFinished, Idle, HashKept
<1> DEFINE writes == FinishWrites(retValue, errorMsg)
<1>2. /\ writes \in Seq(SomeWrite)
      /\ \A i \in 1..Len(writes) :
            /\ writes[i][1] = "retValue" => writes[i][2] = retValue
            /\ writes[i][1] # "totalTicks"
            /\ writes[i][1] = "ticks" => writes[i][2] = progressFile.totalTicks
  <2> DEFINE finished == <<"finished", TRUE>>
             result == <<"retValue", retValue>>
             error == <<"errorMsg", TRUE>>
             ticks == <<"ticks", progressFile.totalTicks>>
             W == {finished, result, error, ticks}
  <2>1. finished \in SomeWrite /\ result \in SomeWrite /\ error \in SomeWrite /\ ticks \in SomeWrite
    BY <1>1 DEF SomeWrite, ProgressHash
  <2>2. \A w \in W : /\ w[1] = "retValue" => w[2] = retValue
                     /\ w[1] # "totalTicks"
                     /\ w[1] = "ticks" => w[2] = progressFile.totalTicks
    <3>1. finished[1] = "finished" /\ error[1] = "errorMsg"
      OBVIOUS
    <3>2. result[1] = "retValue" /\ result[2] = retValue
      OBVIOUS
    <3>3. ticks[1] = "ticks" /\ ticks[2] = progressFile.totalTicks
      OBVIOUS
    <3> HIDE DEF finished, result, error, ticks
    <3>4. QED
      BY <3>1, <3>2, <3>3
  <2>3. writes = <<finished, result>> \o (IF errorMsg THEN <<error>> ELSE <<>>)
                    \o (IF progressFile.ticks # progressFile.totalTicks THEN <<ticks>> ELSE <<>>)
    BY DEF FinishWrites
  <2> HIDE DEF finished, result, error, ticks, writes
  <2>4. writes \in Seq(W)
    BY <2>3, ShortSeqs, ConcatProperties
  <2>5. writes \in Seq(SomeWrite)
    BY <2>1, <2>4
  <2>6. QED
    BY <2>2, <2>4, <2>5
<1>3. /\ runner' \in Runner /\ runner'.todo = writes /\ runner'.hash = Missing
      /\ runner'.status = "finishing" /\ runner'.retValue = retValue /\ HashKept' = HashKept
  BY <1>1, <1>2 DEF SetAsFinished, Runner, HashKept
<1>4. WritesKept(runner', HashKept.totalTicks)
  <2> HIDE DEF writes
  <2>1. HashKept.totalTicks \in Nat
    BY <1>1 DEF ProgressHash
  <2>2. QED
    BY <1>1, <1>2, <1>3, <2>1 DEF WritesKept
<1>5. FileKept'
  BY <1>1, <1>3, <1>4 DEF ProgressInv, FileKept, SetAsFinished
<1>6. /\ UNCHANGED <<replaced, polls, progressPage>> /\ ~replaced
      /\ HashKept.retValue # 0 /\ ~progressPage.done /\ \A p \in Poll : polls[p].state # "done"
  BY <1>1 DEF ProgressInv, OutcomeKept, SetAsFinished, Succeeded
<1>7. OutcomeKept'
  BY <1>3, <1>6 DEF OutcomeKept
<1>8. ProgressTypeOK'
  BY <1>3, <1>6 DEF ProgressInv, ProgressTypeOK
<1>9. QED
  BY <1>5, <1>6, <1>7, <1>8 DEF ProgressInv

LEMMA TruncateKeeps == ASSUME ProgressInv, Truncate PROVE ProgressInv'
<1> DEFINE w == Head(runner.todo)
           h == [progressFile EXCEPT ![w[1]] = w[2]]
<1>1. /\ runner \in Runner /\ runner.todo \in Seq(SomeWrite) /\ runner.todo # <<>> /\ runner.hash = Missing
      /\ HashKept = progressFile /\ progressFile \in ProgressHash /\ progressFile # Truncated
      /\ progressFile.ticks <= progressFile.totalTicks
      /\ WritesKept(runner, progressFile.totalTicks) /\ ~replaced
  BY Apart DEF ProgressInv, FileKept, Truncate, HashKept, Runner, OutcomeKept
<1>2. w \in SomeWrite /\ w = runner.todo[1] /\ 1 \in 1..Len(runner.todo)
  BY <1>1, HeadTailProperties
<1>3. /\ h \in ProgressHash /\ h[w[1]] = w[2] 
      /\ h.totalTicks = IF w[1] = "totalTicks" THEN w[2] ELSE progressFile.totalTicks
      /\ h.ticks = IF w[1] = "ticks" THEN w[2] ELSE progressFile.ticks
      /\ h.retValue = IF w[1] = "retValue" THEN w[2] ELSE progressFile.retValue
  BY <1>1, <1>2, SetKey
<1>4. /\ runner' \in Runner /\ runner'.todo = runner.todo /\ runner'.hash = h
      /\ runner'.status = runner.status /\ runner'.retValue = runner.retValue /\ HashKept' = h
  <2> HIDE DEF h
  <2>1. runner' = [runner EXCEPT !.hash = h]
    BY DEF Truncate, h
  <2>2. QED
    BY <1>1, <1>3, <2>1, Apart DEF Runner, HashKept
<1> HIDE DEF h, w
<1>5. /\ w[1] = "totalTicks" => w[2] >= progressFile.totalTicks
      /\ w[1] = "ticks" => w[2] <= progressFile.totalTicks
      /\ w[1] = "retValue" => runner.status = "finishing" /\ w[2] = runner.retValue
  BY <1>1, <1>2 DEF WritesKept
<1>6. h.ticks <= h.totalTicks /\ progressFile.totalTicks <= h.totalTicks
  BY <1>1, <1>2, <1>3, <1>5 DEF ProgressHash, SomeWrite
<1>7. WritesKept(runner', h.totalTicks)
  <2> SUFFICES ASSUME NEW i \in 1..Len(runner.todo)
               PROVE  /\ runner.todo[i][1] = "retValue" => runner.status = "finishing" /\ runner.todo[i][2] = runner.retValue
                      /\ runner.todo[i][1] = "totalTicks" =>
                            /\ i = 1 /\ Len(runner.todo) = 2 /\ runner.todo[2][1] = "ticks"
                            /\ runner.todo[i][2] >= h.totalTicks /\ runner.todo[2][2] <= runner.todo[i][2]
                      /\ runner.todo[i][1] = "ticks" =>
                            runner.todo[i][2] <= h.totalTicks \/ runner.todo[1][1] = "totalTicks"
    BY <1>4 DEF WritesKept
  <2>1. runner.todo[i] \in SomeWrite /\ h.totalTicks \in Nat /\ progressFile.totalTicks \in Nat
    BY <1>1, <1>3 DEF ProgressHash
  <2>2. runner.todo[i][1] \in {"ticks", "totalTicks"} => runner.todo[i][2] \in Nat
    BY <2>1 DEF SomeWrite
  <2>3. QED
    BY <1>1, <1>2, <1>3, <1>6, <2>1, <2>2 DEF WritesKept
<1>8. FileKept'
  BY <1>1, <1>2, <1>3, <1>4, <1>6, <1>7 DEF ProgressInv, FileKept, Truncate, w
<1>9. h.retValue = 0 => Succeeded
  BY <1>1, <1>3, <1>5 DEF ProgressInv, OutcomeKept, Succeeded
<1>10. QED
  BY <1>1, <1>4, <1>8, <1>9 DEF Truncate, ProgressInv, ProgressTypeOK, OutcomeKept, Succeeded

LEMMA WriteKeeps == ASSUME ProgressInv, Write PROVE ProgressInv'
<1> DEFINE w == Head(runner.todo)
           todo == Tail(runner.todo)
           total == runner.hash.totalTicks
<1>1. /\ runner \in Runner /\ runner.todo \in Seq(SomeWrite) /\ runner.todo # <<>>
      /\ HashKept = runner.hash /\ runner.hash \in ProgressHash
      /\ runner.hash.ticks <= total /\ runner.hash[w[1]] = w[2]
      /\ WritesKept(runner, total) /\ ~replaced
  BY DEF ProgressInv, FileKept, Write, HashKept, Runner, OutcomeKept
<1>2. /\ w \in SomeWrite /\ w = runner.todo[1] /\ todo \in Seq(SomeWrite) /\ Len(todo) = Len(runner.todo) - 1
      /\ \A i \in 1..Len(todo) : todo[i] = runner.todo[i + 1]
      /\ Len(runner.todo) \in Nat \ {0}
  BY <1>1, HeadTailProperties, LenProperties
<1>3. /\ runner' \in Runner /\ runner'.todo = todo /\ runner'.hash = Missing
      /\ runner'.status \in {runner.status, "finished"}
      /\ runner'.status = "finished" => runner.status = "finishing"
      /\ runner'.retValue = runner.retValue /\ progressFile' = runner.hash /\ HashKept' = runner.hash
  <2> HIDE DEF todo
  <2>1. runner' = [runner EXCEPT !.hash = Missing, !.todo = todo,
                    !.status = IF runner.status = "finishing" /\ Len(runner.todo) = 1 THEN "finished" ELSE runner.status]
    BY <1>1 DEF Write, todo, Runner
  <2>2. QED
    BY <1>1, <1>2, <2>1 DEF Runner, HashKept, Write
<1> HIDE DEF w, todo, total
<1>4. runner'.status \in {"running", "finishing"} => WritesKept(runner', total)
  <2> SUFFICES ASSUME runner'.status = runner.status, NEW i \in 1..Len(todo)
               PROVE  /\ todo[i][1] = "retValue" => runner.status = "finishing" /\ todo[i][2] = runner.retValue
                      /\ todo[i][1] # "totalTicks"
                      /\ todo[i][1] = "ticks" => todo[i][2] <= total
    BY <1>3 DEF WritesKept
  <2>1. /\ i + 1 \in 1..Len(runner.todo) /\ i + 1 # 1 /\ todo[i] = runner.todo[i + 1]
        /\ 1 \in 1..Len(runner.todo)
    BY <1>2, SMTT(60)
  <2>2. w[1] = "totalTicks" => w[2] = total
    <3>1. runner.hash[w[1]] = w[2] /\ total = runner.hash.totalTicks
      BY <1>1 DEF total
    <3>2. QED
      BY ONLY <3>1
  <2>3. todo[i][1] = "ticks" => todo[i][2] <= total
    <3>1. CASE w[1] = "totalTicks"
      BY <1>1, <1>2, <2>1, <2>2, <3>1 DEF WritesKept
    <3>2. CASE w[1] # "totalTicks"
      BY <1>1, <1>2, <2>1, <3>2 DEF WritesKept
    <3>3. QED
      BY <3>1, <3>2
  <2>4. QED
    BY <1>1, <2>1, <2>3 DEF WritesKept
<1>5. FileKept'
  BY <1>1, <1>3, <1>4 DEF ProgressInv, FileKept, total
<1>6. UNCHANGED <<replaced, polls, progressPage>> /\ (Succeeded => Succeeded')
  BY <1>1, <1>3 DEF Write, Succeeded, Runner
<1>7. OutcomeKept'
  BY <1>1, <1>3, <1>6 DEF ProgressInv, OutcomeKept
<1>8. ProgressTypeOK'
  BY <1>1, <1>3, <1>6 DEF ProgressInv, ProgressTypeOK, Runner
<1>9. QED
  BY <1>5, <1>6, <1>7, <1>8 DEF ProgressInv

LEMMA EndKeeps == ASSUME ProgressInv, RunnerDies \/ Replace PROVE ProgressInv'
<1>1. runner \in Runner
  BY DEF ProgressInv, FileKept
<1>2. CASE RunnerDies
  <2>1. /\ runner' \in Runner /\ runner'.hash = runner.hash /\ runner'.status = "died"
        /\ HashKept' = HashKept /\ ~Succeeded /\ ~replaced /\ runner'.retValue = runner.retValue
    BY <1>1, <1>2 DEF RunnerDies, Runner, HashKept, Succeeded, ProgressInv, OutcomeKept
  <2>2. QED
    BY <1>2, <2>1 DEF RunnerDies, ProgressInv, ProgressTypeOK, FileKept, OutcomeKept, Succeeded
<1>3. CASE Replace
  <2>1. /\ runner' = runner /\ runner.hash = Missing /\ runner.status = "finished" /\ HashKept' = Created
        /\ progressFile' = Created /\ replaced'
    BY <1>3 DEF Replace, ProgressInv, FileKept, HashKept
  <2>2. Created \in ProgressHash /\ Created.ticks <= Created.totalTicks
    BY Apart DEF Created
  <2>3. FileKept'
    BY <1>1, <2>1, <2>2 DEF FileKept
  <2>4. QED
    BY <1>3, <2>1, <2>3 DEF Replace, ProgressInv, ProgressTypeOK, OutcomeKept
<1>4. QED
  BY <1>2, <1>3

LEMMA PollKeeps ==
  ASSUME ProgressInv, NEW p \in Poll,
         CallServer(p) \/ ReadState(p) \/ \E answered \in BOOLEAN : PollFails(p, answered)
  PROVE  ProgressInv'
<1>1. UNCHANGED <<progressFile, runner, replaced, progressPage>>
  BY DEF CallServer, ReadState, PollFails
<1>2. FileKept'
  BY <1>1 DEF ProgressInv, FileKept, HashKept
<1>3. PICK r : /\ polls' = [polls EXCEPT ![p] = r]
               /\ r \in [state : {"sent", "garbled", "none"}] \/ r = StateAsHash(progressFile)
  BY DEF CallServer, ReadState, PollFails
<1>4. /\ progressFile \in ProgressHash \union {Truncated}
      /\ progressFile # Truncated => progressFile.ticks <= progressFile.totalTicks /\ HashKept = progressFile
  BY DEF ProgressInv, FileKept, HashKept
<1>5. /\ PollKept(r)
      /\ r.state \in {"sent", "garbled", "none", "not running", "running", "done", "error"}
      /\ r.state = "done" /\ ~replaced => Succeeded
  <2>1. CASE r \in [state : {"sent", "garbled", "none"}]
    BY <2>1 DEF PollKept
  <2>2. CASE r = StateAsHash(progressFile)
    BY <1>4, <2>2, StateKept DEF ProgressInv, OutcomeKept
  <2>3. QED
    BY <1>3, <2>1, <2>2
<1>6. \A q \in Poll : polls'[q] = IF q = p THEN r ELSE polls[q]
  BY <1>3 DEF ProgressInv
<1>7. polls' = [q \in Poll |-> polls'[q]] /\ \A q \in Poll : PollKept(polls'[q])
  BY <1>3, <1>5, <1>6 DEF ProgressInv
<1>8. ProgressTypeOK'
  BY <1>1, <1>5, <1>6, ZenonT(60) DEF ProgressInv, ProgressTypeOK
<1>9. OutcomeKept'
  <2>1. HashKept' = HashKept /\ (Succeeded' <=> Succeeded)
    BY <1>1 DEF HashKept, Succeeded
  <2>2. QED
    BY <1>1, <1>5, <1>6, <2>1 DEF ProgressInv, OutcomeKept
<1>10. QED
  BY <1>2, <1>7, <1>8, <1>9 DEF ProgressInv

PageRecord == [progressing : BOOLEAN, done : BOOLEAN, warning : BOOLEAN, error : BOOLEAN,
               timer : BOOLEAN, loaders : 0..2, fails : 0..FailLimit - 1, left : BOOLEAN]

LEMMA PageLoadKeeps ==
  ASSUME ProgressInv, LoadNextPage \/ \E p \in Poll : Complete(p)
  PROVE  ProgressInv'
<1>1. progressPage \in PageRecord
  BY DEF ProgressInv, ProgressTypeOK, PageRecord
<1>2. CASE LoadNextPage
  <2>1. progressPage' \in PageRecord /\ progressPage'.done = progressPage.done
    BY <1>1, <1>2 DEF LoadNextPage, PageRecord
  <2>2. QED
    BY <1>2, <2>1 DEF LoadNextPage, ProgressInv, ProgressTypeOK, FileKept, HashKept, OutcomeKept, Succeeded, PageRecord
<1>3. ASSUME NEW p \in Poll, Complete(p) PROVE ProgressInv'
  <2> DEFINE updated == PageUpdated(progressPage, polls[p])
             fails == IF polls[p].state = "none" THEN progressPage.fails + 1 ELSE 0
  <2>1. /\ updated \in PageRecord
        /\ updated.done => progressPage.done \/ polls[p].state = "done"
    <3>1. polls[p].state \in {"done", "error"} => polls[p].errorMsg \in BOOLEAN
      BY DEF ProgressInv, PollKept, PollAnswer
    <3>2. CASE polls[p].state = "done"
      <4> DEFINE loaders == IF progressPage.loaders < 2 THEN progressPage.loaders + 1 ELSE progressPage.loaders
                 warning == progressPage.warning \/ polls[p].errorMsg
      <4>1. updated = [progressPage EXCEPT !.timer = FALSE, !.loaders = loaders,
                          !.warning = warning, !.progressing = FALSE, !.done = TRUE]
        BY <3>2 DEF PageUpdated
      <4>2. loaders \in 0..2
        BY <1>1 DEF PageRecord
      <4>3. warning \in BOOLEAN
        OBVIOUS
      <4> HIDE DEF loaders, warning, updated
      <4>4. QED
        BY <1>1, <3>2, <4>1, <4>2, <4>3 DEF PageRecord
    <3>3. CASE polls[p].state = "error"
      BY <1>1, <3>3 DEF PageUpdated, PageRecord
    <3>4. CASE polls[p].state \notin {"done", "error"}
      BY <1>1, <3>4 DEF PageUpdated
    <3>5. QED
      BY <3>2, <3>3, <3>4
  <2>2. fails \in Nat
    BY <1>1, ProgressAssumption DEF PageRecord
  <2>3. progressPage' = [updated EXCEPT !.fails = IF fails < FailLimit THEN fails ELSE 0, !.left = (fails >= FailLimit)]
    BY <1>3 DEF Complete
  <2>4. progressPage' \in PageRecord /\ progressPage'.done = updated.done
    <3>1. /\ (IF fails < FailLimit THEN fails ELSE 0) \in 0..FailLimit - 1
          /\ (fails >= FailLimit) \in BOOLEAN
      BY <2>2, ProgressAssumption
    <3> HIDE DEF updated, fails
    <3>2. QED
      BY <2>1, <2>3, <3>1 DEF PageRecord
  <2>5. UNCHANGED <<progressFile, runner, replaced>> /\ polls' = [polls EXCEPT ![p] = NoReply]
    BY <1>3 DEF Complete
  <2>6. \A q \in Poll : polls'[q] = IF q = p THEN NoReply ELSE polls[q]
    BY <2>5 DEF ProgressInv
  <2>7. polls' = [q \in Poll |-> polls'[q]] /\ \A q \in Poll : PollKept(polls'[q])
    BY <2>5, <2>6 DEF ProgressInv, PollKept, NoReply
  <2>8. FileKept'
    BY <2>5 DEF ProgressInv, FileKept, HashKept
  <2>9. ProgressTypeOK' /\ OutcomeKept'
    <3> HIDE DEF updated
    <3>1. QED
      BY <2>1, <2>4, <2>5, <2>6 DEF ProgressInv, ProgressTypeOK, OutcomeKept, Succeeded, HashKept, PageRecord, NoReply
  <2>10. QED
    BY <2>7, <2>8, <2>9 DEF ProgressInv
<1>4. QED
  BY <1>2, <1>3

LEMMA ProgressInvariant == ProgressSpec => []ProgressInv
<1>1. ProgressInit => ProgressInv
  <2> SUFFICES ASSUME ProgressInit PROVE ProgressInv
    OBVIOUS
  <2>1. progressFile = Created /\ HashKept = Created /\ Created \in ProgressHash /\ Created.ticks <= Created.totalTicks
    BY Apart DEF ProgressInit, HashKept, Created
  <2>2. runner \in Runner /\ runner.hash = Missing /\ runner.status = "running" /\ runner.todo = <<>>
    BY DEF ProgressInit, Runner
  <2>3. FileKept
    BY <2>1, <2>2 DEF FileKept, WritesKept
  <2>4. OutcomeKept
    BY <2>1 DEF ProgressInit, OutcomeKept, Created, NoReply
  <2>5. ProgressTypeOK
    <3>1. 0 \in 0..FailLimit - 1
      BY ProgressAssumption
    <3>2. progressPage \in PageRecord
      BY <3>1 DEF ProgressInit, PageRecord
    <3>3. \A p \in Poll : polls[p].state = "unused"
      BY DEF ProgressInit, NoReply
    <3>4. QED
      BY <2>2, <3>2, <3>3 DEF ProgressTypeOK, PageRecord, Runner
  <2>6. polls = [p \in Poll |-> polls[p]] /\ \A p \in Poll : PollKept(polls[p])
    BY DEF ProgressInit, PollKept, NoReply
  <2>7. QED
    BY <2>3, <2>4, <2>5, <2>6 DEF ProgressInv
<1>2. ProgressInv /\ [ProgressNext]_progressVars => ProgressInv'
  <2> SUFFICES ASSUME ProgressInv, [ProgressNext]_progressVars PROVE ProgressInv'
    OBVIOUS
  <2>1. CASE UNCHANGED progressVars
    <3>1. UNCHANGED <<progressFile, runner, replaced, polls, progressPage>>
      BY <2>1 DEF progressVars
    <3>2. FileKept'
      BY <3>1 DEF ProgressInv, FileKept, HashKept
    <3>3. OutcomeKept'
      BY <3>1 DEF ProgressInv, OutcomeKept, Succeeded, HashKept
    <3>4. QED
      BY <3>1, <3>2, <3>3 DEF ProgressInv, ProgressTypeOK
  <2>2. CASE NotifyTick \/ Truncate \/ Write \/ RunnerDies \/ Replace \/ LoadNextPage
    BY <2>2, TickKeeps, TruncateKeeps, WriteKeeps, EndKeeps, PageLoadKeeps
  <2>3. CASE \E retValue \in {0, 1}, errorMsg \in BOOLEAN : SetAsFinished(retValue, errorMsg)
    BY <2>3, FinishKeeps
  <2>4. CASE \E p \in Poll : \/ CallServer(p) \/ ReadState(p) \/ Complete(p)
                           \/ \E answered \in BOOLEAN : PollFails(p, answered)
    BY <2>4, PollKeeps, PageLoadKeeps
  <2>5. QED
    BY <2>1, <2>2, <2>3, <2>4 DEF ProgressNext
<1>3. QED
  BY <1>1, <1>2, PTL DEF ProgressSpec

\* The page says that the action is done only if its process has finished with
\* success, whatever was read half written, lost or answered late, unless the
\* file has become that of another action (DoneMeansDone).
THEOREM DoneIsDone == ProgressSpec => []DoneMeansDone
<1>1. ProgressInv => DoneMeansDone
  BY DEF ProgressInv, OutcomeKept, Succeeded, DoneMeansDone
<1>2. QED
  BY <1>1, ProgressInvariant, PTL

\* No answer counts more ticks than its total, for any number of ticks, because
\* the total is written before the ticks that need it (TicksWithinTotal).
THEOREM TicksFit == ProgressSpec => []TicksWithinTotal
<1>1. ProgressInv => TicksWithinTotal
  BY DEF ProgressInv, PollKept, PollAnswer, TicksWithinTotal
<1>2. QED
  BY <1>1, ProgressInvariant, PTL

-----------------------------------------------------------------------------
(* Rows added in a dialog, for any number of rows, requests and losses.    *)

Dialogs == 1..(MaxModal + 1)
ModalRecord == [open : BOOLEAN, shows : {"none", "loading", "form", "nextPage"}, row : 0..MaxRows,
                button : {"own", "loading"}, element : Dialogs \union {0}]
ModalCall == [op : {"form", "nextPage", "add", "added", "cancelAdd", "cancelled"},
              element : Dialogs, row : 0..MaxRows]

\* A row that the dialog has shown, or that a request after that is about.
RowShown(r) ==
    \/ \E q \in modalCalls : q.op \in {"nextPage", "cancelAdd", "cancelled"} /\ q.row = r
    \/ modal.shows = "nextPage" /\ modal.row = r

\* A row that was added is in the table, and not yet in the select, until its
\* answer comes; one that was cancelled is not in the table any more.
CallsKept ==
    \A q \in modalCalls :
        /\ q.op \notin {"form", "add"} => q.row \in 1..rowsMade
        /\ q.op = "added" => /\ q.row \in modalRows \ choices /\ ~RowShown(q.row)
                             /\ \A s \in modalCalls : s.op = "added" /\ s.row = q.row => s = q
        /\ q.op = "cancelled" => q.row \notin modalRows

\* The select and the table differ only in the rows whose answer is to come.
RowsKept ==
    /\ modalRows \subseteq 1..rowsMade /\ choices \subseteq 1..rowsMade
    /\ modalLost = 0 => \A r \in 1..rowsMade :
          /\ r \in modalRows \ choices => \E q \in modalCalls : q.op = "added" /\ q.row = r
          /\ r \in choices \ modalRows => \E q \in modalCalls : q.op = "cancelled" /\ q.row = r

ModalShape ==
    /\ modal \in ModalRecord /\ (modal.open => modal.element \in Dialogs)
    /\ modal.shows # "none" => modal.open
    /\ modal.shows = "nextPage" => modal.row \in 1..rowsMade
    /\ modalCalls \subseteq ModalCall
    /\ IsFiniteSet(modalCalls) /\ Cardinality(modalCalls) <= MaxModal
    /\ rowsMade \in 0..MaxRows /\ modalLost \in Nat

ModalInv == ModalShape /\ CallsKept /\ RowsKept

\* A dialog is an element of its own: as many requests as may be on their way
\* leave one free.
LEMMA NewElementIsFree ==
  ASSUME ModalShape
  PROVE  NewElement \in Dialogs /\ \A q \in modalCalls : q.element # NewElement
<1>1. \E n \in Dialogs : \A q \in modalCalls : q.element # n
  <2> SUFFICES ASSUME \A n \in Dialogs : \E q \in modalCalls : q.element = n PROVE FALSE
    OBVIOUS
  <2> DEFINE f == [n \in Dialogs |-> CHOOSE q \in modalCalls : q.element = n]
  <2>1. \A n \in Dialogs : f[n] \in modalCalls /\ f[n].element = n
    OBVIOUS
  <2>2. f \in [Dialogs -> modalCalls]
    BY <2>1
  <2>3. IsFiniteSet(Dialogs) /\ Cardinality(Dialogs) = MaxModal + 1
    BY ModalAssumption, FS_Interval DEF Dialogs
  <2>4. Cardinality(modalCalls) < Cardinality(Dialogs) /\ IsFiniteSet(modalCalls)
    BY <2>3, ModalAssumption, FS_CardinalityType DEF ModalShape
  <2> HIDE DEF f
  <2>5. \E m, n \in Dialogs : m # n /\ f[m] = f[n]
    BY <2>2, <2>3, <2>4, FS_PigeonHole
  <2>6. QED
    BY <2>1, <2>5
<1>2. QED
  BY <1>1 DEF NewElement, Dialogs

\* What happens to the requests keeps them finite and few.
LEMMA CallsFew ==
  ASSUME ModalShape, NEW q
  PROVE  /\ IsFiniteSet(modalCalls \ {q}) /\ Cardinality(modalCalls \ {q}) <= MaxModal
         /\ q \in modalCalls => \A r : /\ IsFiniteSet((modalCalls \ {q}) \union {r})
                                       /\ Cardinality((modalCalls \ {q}) \union {r}) <= MaxModal
         /\ ModalAsk(q) => IsFiniteSet(modalCalls') /\ Cardinality(modalCalls') <= MaxModal
<1>1. IsFiniteSet(modalCalls) /\ Cardinality(modalCalls) \in Nat /\ Cardinality(modalCalls) <= MaxModal
  BY FS_CardinalityType DEF ModalShape
<1>2. /\ IsFiniteSet(modalCalls \ {q})
      /\ Cardinality(modalCalls \ {q}) = IF q \in modalCalls THEN Cardinality(modalCalls) - 1
                                         ELSE Cardinality(modalCalls)
  BY <1>1, FS_RemoveElement
<1>3. \A r : /\ IsFiniteSet((modalCalls \ {q}) \union {r})
             /\ Cardinality((modalCalls \ {q}) \union {r}) <= Cardinality(modalCalls \ {q}) + 1
  BY <1>1, <1>2, FS_AddElement, SMTT(60)
<1>4. ModalAsk(q) => IsFiniteSet(modalCalls') /\ Cardinality(modalCalls') <= MaxModal
  BY <1>1, FS_AddElement, ModalAssumption, SMTT(60) DEF ModalAsk
<1>5. Cardinality(modalCalls \ {q}) \in Nat
  BY <1>2, FS_CardinalityType
<1>6. \A r : Cardinality((modalCalls \ {q}) \union {r}) \in Nat
  BY <1>3, FS_CardinalityType
<1>7. Cardinality(modalCalls \ {q}) <= MaxModal
  BY <1>1, <1>2, <1>5, ModalAssumption
<1>8. ASSUME q \in modalCalls, NEW r PROVE Cardinality((modalCalls \ {q}) \union {r}) <= MaxModal
  <2> DEFINE all == Cardinality(modalCalls)
             less == Cardinality(modalCalls \ {q})
             more == Cardinality((modalCalls \ {q}) \union {r})
  <2>1. all \in Nat /\ less \in Nat /\ more \in Nat
    BY <1>1, <1>5, <1>6
  <2>2. less = all - 1 /\ more <= less + 1 /\ all <= MaxModal
    BY <1>1, <1>2, <1>3, <1>8
  <2> HIDE DEF all, less, more
  <2>3. more <= MaxModal
    BY <2>1, <2>2, ModalAssumption
  <2>4. QED
    BY <2>3 DEF more
<1>9. QED
  BY <1>2, <1>3, <1>4, <1>7, <1>8

\* The rows that were shown stay so, but for those a step adds.
LEMMA ModalOpens == ASSUME ModalInv, ModalChangeView PROVE ModalInv'
<1> DEFINE q == [op |-> "form", element |-> NewElement, row |-> 0]
<1>1. q \in ModalCall /\ NewElement \in Dialogs
  BY NewElementIsFree, ModalAssumption DEF ModalInv, ModalCall
<1>2. /\ modalCalls' = modalCalls \union {q}
      /\ modal' = [open |-> TRUE, shows |-> "loading", row |-> 0, button |-> "own", element |-> NewElement]
      /\ UNCHANGED <<choices, modalRows, rowsMade, modalLost>>
  BY DEF ModalChangeView, ModalAsk
<1>3. ModalShape'
  <2>1. IsFiniteSet(modalCalls') /\ Cardinality(modalCalls') <= MaxModal
    BY CallsFew DEF ModalInv, ModalChangeView
  <2>2. QED
    BY <1>1, <1>2, <2>1, ModalAssumption DEF ModalInv, ModalShape, ModalRecord
<1>4. \A r : RowShown(r)' => RowShown(r)
  BY <1>2 DEF RowShown
<1>5. CallsKept'
  BY <1>2, <1>4 DEF ModalInv, CallsKept
<1>6. RowsKept'
  BY <1>2 DEF ModalInv, RowsKept
<1>7. QED
  BY <1>3, <1>5, <1>6 DEF ModalInv

LEMMA ModalAsks == ASSUME ModalInv, ModalAddNewRow \/ ModalCancelAddRow PROVE ModalInv'
<1>1. PICK q \in ModalCall :
         /\ ModalAsk(q)
         /\ \/ q.op = "add"
            \/ q.op = "cancelAdd" /\ modal.shows = "nextPage" /\ q.row = modal.row
  <2>1. modal \in ModalRecord /\ modal.open /\ modal.element \in Dialogs
    BY DEF ModalAddNewRow, ModalCancelAddRow, ModalInv, ModalShape
  <2>2. CASE ModalAddNewRow
    BY <2>1, <2>2, ModalAssumption DEF ModalAddNewRow, ModalCall
  <2>3. CASE ModalCancelAddRow
    BY <2>1, <2>3 DEF ModalCancelAddRow, ModalCall, ModalRecord
  <2>4. QED
    BY <2>2, <2>3
<1>2. /\ modalCalls' = modalCalls \union {q} /\ q.op \in {"add", "cancelAdd"}
      /\ UNCHANGED <<choices, modalRows, rowsMade, modalLost>>
  BY <1>1 DEF ModalAsk, ModalAddNewRow, ModalCancelAddRow
<1>3. /\ modal' \in ModalRecord /\ modal'.open = modal.open /\ modal'.shows = modal.shows
      /\ modal'.row = modal.row /\ modal'.element = modal.element
  BY DEF ModalAddNewRow, ModalCancelAddRow, ModalInv, ModalShape, ModalRecord
<1>4. ModalShape'
  <2>1. IsFiniteSet(modalCalls') /\ Cardinality(modalCalls') <= MaxModal
    BY <1>1, CallsFew DEF ModalInv
  <2>2. QED
    BY <1>2, <1>3, <2>1 DEF ModalInv, ModalShape
<1>5. \A r \in 1..rowsMade : RowShown(r)' => RowShown(r)
  BY <1>1, <1>2, <1>3 DEF RowShown
<1>6. q.op = "cancelAdd" => q.row \in 1..rowsMade
  BY <1>1 DEF ModalInv, ModalShape
<1>7. CallsKept'
  BY <1>2, <1>5, <1>6 DEF ModalInv, CallsKept
<1>8. RowsKept'
  BY <1>2 DEF ModalInv, RowsKept
<1>9. QED
  BY <1>4, <1>7, <1>8 DEF ModalInv

LEMMA DialogKeeps ==
  ASSUME ModalInv, NEW q \in modalCalls, DialogLoaded(q) \/ DialogNotLoaded(q)
  PROVE  ModalInv'
<1>1. /\ modalCalls' = modalCalls \ {q} /\ q.op \in {"form", "nextPage"} /\ q \in ModalCall
      /\ UNCHANGED <<choices, modalRows, rowsMade>> /\ modalLost' \in Nat
      /\ modalLost' = 0 => modalLost = 0
  BY DEF DialogLoaded, DialogNotLoaded, ModalInv, ModalShape
<1>2. \/ modal' = modal
      \/ modal.open /\ modal' = [modal EXCEPT !.shows = q.op, !.row = q.row, !.button = "own"]
  BY DEF DialogLoaded, DialogNotLoaded
<1>3. modal \in ModalRecord
  BY DEF ModalInv, ModalShape
<1>4. ModalShape'
  <2>1. IsFiniteSet(modalCalls') /\ Cardinality(modalCalls') <= MaxModal
    BY <1>1, CallsFew DEF ModalInv
  <2>2. /\ modal' \in ModalRecord /\ modal'.open = modal.open /\ modal'.element = modal.element
        /\ modal'.shows = "nextPage" => \/ modal.shows = "nextPage" /\ modal'.row = modal.row
                                        \/ q.op = "nextPage" /\ modal'.row = q.row
        /\ modal'.shows # "none" => modal.open
    BY <1>1, <1>2, <1>3 DEF ModalRecord, ModalCall, ModalInv, ModalShape
  <2>3. q.op = "nextPage" => q.row \in 1..rowsMade
    BY DEF ModalInv, CallsKept
  <2>4. QED
    BY <1>1, <2>1, <2>2, <2>3 DEF ModalInv, ModalShape
<1>5. \A r : RowShown(r)' => RowShown(r)
  BY <1>1, <1>2, <1>3 DEF RowShown, ModalRecord
<1>6. CallsKept'
  BY <1>1, <1>5 DEF ModalInv, CallsKept
<1>7. RowsKept'
  BY <1>1 DEF ModalInv, RowsKept
<1>8. QED
  BY <1>4, <1>6, <1>7 DEF ModalInv

LEMMA ServeKeeps == ASSUME ModalInv, NEW q \in modalCalls, ServeModal(q) PROVE ModalInv'
<1>1. /\ UNCHANGED <<modal, choices, modalLost>> /\ q \in ModalCall
      /\ q.op \in {"add", "cancelAdd"}
  BY DEF ServeModal, ModalInv, ModalShape
<1>2. CASE q.op = "add"
  <2> DEFINE n == rowsMade + 1
             r == [op |-> "added", element |-> q.element, row |-> n]
  <2>1. /\ rowsMade' = n /\ modalRows' = modalRows \union {n} /\ n \in 1..MaxRows
        /\ modalCalls' = (modalCalls \ {q}) \union {r} /\ r \in ModalCall
    BY <1>1, <1>2, ModalAssumption DEF ServeModal, ModalInv, ModalShape, ModalCall
  <2>2. ModalShape'
    <3>1. IsFiniteSet(modalCalls') /\ Cardinality(modalCalls') <= MaxModal
      BY <2>1, CallsFew DEF ModalInv
    <3>2. QED
      BY <1>1, <2>1, <3>1 DEF ModalInv, ModalShape
  <2>3. (\A k : RowShown(k)' => RowShown(k)) /\ ~RowShown(n)
    BY <1>1, <2>1 DEF RowShown, ModalInv, ModalShape, CallsKept
  <2>4. \A s \in modalCalls : s.op = "added" => s.row # n
    BY <2>1, ModalAssumption DEF ModalInv, CallsKept, ModalShape
  <2>5. CallsKept'
    BY <1>1, <2>1, <2>3, <2>4 DEF ModalInv, CallsKept, RowsKept, ModalShape
  <2>6. RowsKept'
    <3>1. \A s \in modalCalls : s.op \in {"added", "cancelled"} => s \in modalCalls'
      BY <1>2, <2>1
    <3>2. r \in modalCalls' /\ r.op = "added" /\ r.row = n
      BY <2>1
    <3> HIDE DEF r
    <3>3. QED
      BY <1>1, <2>1, <3>1, <3>2 DEF ModalInv, RowsKept, ModalShape
  <2>7. QED
    BY <2>2, <2>5, <2>6 DEF ModalInv
<1>3. CASE q.op = "cancelAdd"
  <2> DEFINE r == [op |-> "cancelled", element |-> q.element, row |-> q.row]
  <2>1. /\ rowsMade' = rowsMade /\ modalRows' = modalRows \ {q.row} /\ q.row \in 1..rowsMade
        /\ modalCalls' = (modalCalls \ {q}) \union {r} /\ r \in ModalCall
    BY <1>1, <1>3 DEF ServeModal, ModalInv, CallsKept, ModalCall
  <2>2. ModalShape'
    <3>1. IsFiniteSet(modalCalls') /\ Cardinality(modalCalls') <= MaxModal
      BY <2>1, CallsFew DEF ModalInv
    <3>2. QED
      BY <1>1, <2>1, <3>1 DEF ModalInv, ModalShape
  <2>3. (\A k : RowShown(k)' => RowShown(k)) /\ RowShown(q.row)
    BY <1>1, <1>3, <2>1 DEF RowShown
  <2>4. CallsKept'
    BY <1>1, <2>1, <2>3 DEF ModalInv, CallsKept
  <2>5. RowsKept'
    <3>1. \A s \in modalCalls : s.op \in {"added", "cancelled"} => s \in modalCalls'
      BY <1>3, <2>1
    <3>2. r \in modalCalls' /\ r.op = "cancelled" /\ r.row = q.row
      BY <2>1
    <3> HIDE DEF r
    <3>3. QED
      BY <1>1, <2>1, <3>1, <3>2, ZenonT(60) DEF ModalInv, RowsKept
  <2>6. QED
    BY <2>2, <2>4, <2>5 DEF ModalInv
<1>4. QED
  BY <1>1, <1>2, <1>3

LEMMA AddedKeeps == ASSUME ModalInv, NEW q \in modalCalls, RowAdded(q) PROVE ModalInv'
<1> DEFINE n == IF modal.open THEN modal.element ELSE NewElement
           r == [op |-> "nextPage", element |-> n, row |-> q.row]
<1>1. /\ q \in ModalCall /\ q.op = "added" /\ choices' = choices \union {q.row}
      /\ modal' = [open |-> TRUE, shows |-> "loading", row |-> 0, button |-> "own", element |-> n]
      /\ modalCalls' = (modalCalls \ {q}) \union {r}
      /\ UNCHANGED <<modalRows, rowsMade, modalLost>>
  BY DEF RowAdded, ModalInv, ModalShape
<1>2. n \in Dialogs
  BY NewElementIsFree DEF ModalInv, ModalShape
<1>3. q.row \in 1..rowsMade /\ q.row \in modalRows
  BY <1>1 DEF ModalInv, CallsKept
<1> HIDE DEF n
<1>4. ModalShape'
  <2>1. IsFiniteSet(modalCalls') /\ Cardinality(modalCalls') <= MaxModal
    BY <1>1, CallsFew DEF ModalInv
  <2>2. r \in ModalCall
    BY <1>1, <1>2 DEF ModalCall
  <2>3. modal' \in ModalRecord /\ modal'.open /\ modal'.element \in Dialogs /\ modal'.shows = "loading"
    BY <1>1, <1>2, ModalAssumption DEF ModalRecord
  <2>4. QED
    BY <1>1, <2>1, <2>2, <2>3 DEF ModalInv, ModalShape
<1>5. \A k : RowShown(k)' => RowShown(k) \/ k = q.row
  BY <1>1 DEF RowShown
<1>6. \A s \in modalCalls' : s.op = "added" => s \in modalCalls /\ s.row # q.row
  BY <1>1 DEF ModalInv, CallsKept
<1>7. CallsKept'
  BY <1>1, <1>3, <1>5, <1>6 DEF ModalInv, CallsKept
<1>8. RowsKept'
  BY <1>1, <1>3 DEF ModalInv, RowsKept
<1>9. QED
  BY <1>4, <1>7, <1>8 DEF ModalInv

\* A request that ends, whatever became of the dialog.
LEMMA EndedKeeps ==
  ASSUME ModalInv, NEW q \in modalCalls, ModalCallFails(q) \/ RowCancelled(q)
  PROVE  ModalInv'
<1>1. /\ modalCalls' = modalCalls \ {q} /\ UNCHANGED <<modalRows, rowsMade>>
      /\ \A r : RowShown(r)' => RowShown(r)
      /\ modal' \in ModalRecord /\ (modal'.open => modal'.element \in Dialogs)
      /\ modal'.shows # "none" => modal'.open
      /\ modal'.shows = "nextPage" => modal'.row \in 1..rowsMade
  <2>1. modal \in ModalRecord
    BY DEF ModalInv, ModalShape
  <2>2. CASE ModalCallFails(q)
    BY <2>1, <2>2 DEF ModalCallFails, ModalInv, ModalShape, ModalRecord, RowShown
  <2>3. CASE RowCancelled(q)
    BY <2>3, ModalAssumption DEF RowCancelled, Closed, ModalInv, ModalShape, ModalRecord, RowShown
  <2>4. QED
    BY <2>2, <2>3
<1>2. /\ modalLost' \in Nat
      /\ \/ choices' = choices /\ modalLost' # 0
         \/ choices' = choices \ {q.row} /\ q.op = "cancelled" /\ modalLost' = modalLost
  BY DEF ModalCallFails, RowCancelled, WithoutChoice, ModalInv, ModalShape
<1>3. ModalShape'
  <2>1. IsFiniteSet(modalCalls') /\ Cardinality(modalCalls') <= MaxModal
    BY <1>1, CallsFew DEF ModalInv
  <2>2. QED
    BY <1>1, <1>2, <2>1 DEF ModalInv, ModalShape
<1>4. CallsKept'
  BY <1>1, <1>2 DEF ModalInv, CallsKept
<1>5. RowsKept'
  <2>1. CASE modalLost' # 0
    BY <1>1, <1>2, <2>1 DEF ModalInv, RowsKept
  <2>2. CASE choices' = choices \ {q.row} /\ q.op = "cancelled" /\ modalLost' = modalLost
    BY <1>1, <2>2, ZenonT(60) DEF ModalInv, RowsKept, CallsKept
  <2>3. QED
    BY <1>2, <2>1, <2>2
<1>6. QED
  BY <1>3, <1>4, <1>5 DEF ModalInv

LEMMA CloseKeeps == ASSUME ModalInv, CloseModal \/ UNCHANGED modalVars PROVE ModalInv'
<1>1. UNCHANGED <<choices, modalRows, modalCalls, rowsMade, modalLost>> /\ (modal' = Closed \/ modal' = modal)
  BY DEF CloseModal, modalVars
<1>2. ModalShape'
  <2>1. Closed \in ModalRecord /\ ~Closed.open /\ Closed.shows = "none"
    BY ModalAssumption DEF ModalRecord, Closed
  <2>2. QED
    BY <1>1, <2>1 DEF ModalInv, ModalShape
<1>3. \A r : RowShown(r)' => RowShown(r)
  BY <1>1 DEF RowShown, Closed
<1>4. QED
  BY <1>1, <1>2, <1>3 DEF ModalInv, CallsKept, RowsKept

LEMMA ModalInvariant == ModalSpec => []ModalInv
<1>1. ModalInit => ModalInv
  <2> SUFFICES ASSUME ModalInit PROVE ModalInv
    OBVIOUS
  <2>1. IsFiniteSet(modalCalls) /\ Cardinality(modalCalls) = 0
    BY FS_EmptySet DEF ModalInit
  <2>2. ModalShape
    BY <2>1, ModalAssumption DEF ModalInit, ModalShape, ModalRecord, Closed
  <2>3. CallsKept /\ RowsKept
    BY DEF ModalInit, CallsKept, RowsKept
  <2>4. QED
    BY <2>2, <2>3 DEF ModalInv
<1>2. ModalInv /\ [ModalNext]_modalVars => ModalInv'
  BY ModalOpens, ModalAsks, DialogKeeps, ServeKeeps, AddedKeeps, EndedKeeps, CloseKeeps DEF ModalNext
<1>3. QED
  BY <1>1, <1>2, PTL DEF ModalSpec

\* With nothing on its way and nothing lost, the select offers exactly the rows
\* of the table, however often dialogs were closed and rows cancelled
\* (ChoicesAreRows).
THEOREM ChoicesKept == ModalSpec => []ChoicesAreRows
<1>1. ModalInv => ChoicesAreRows
  BY DEF ModalInv, RowsKept, ChoicesAreRows
<1>2. QED
  BY <1>1, ModalInvariant, PTL

-----------------------------------------------------------------------------
(* The dashboard, for any widgets and any number of drags and layouts.     *)

Box == [widget : Widget, element : Nat \ {0}, id : {"widget", "placeholder"}, closing : BOOLEAN]

WidgetsOf(bs) == [i \in DOMAIN bs |-> bs[i].widget]

LayoutCall == [op : {"update"}, element : Nat, layout : Seq(Widget)]
                 \union [op : {"widget"}, element : Nat \ {0}]

LayoutShape ==
    /\ boxes \in Seq(Box) /\ listed \subseteq Widget /\ dragged \in Box \union {NoBox}
    /\ layoutCalls \subseteq LayoutCall /\ layoutSaved \in Seq(Widget) /\ drags \in 0..MaxDrags
    /\ layoutHistory \in [late : BOOLEAN, crossed : BOOLEAN]

\* If no box was dropped before its content, the list offers nothing that is on
\* the dashboard, and what is dragged is not there either.
OnceIn(bs, len) == \A i, j \in 1..len : bs[i].widget = bs[j].widget => i = j
Once == OnceIn(boxes, Len(boxes))
OffersOthers ==
    \A i \in 1..Len(boxes) : /\ boxes[i].id = "widget" /\ boxes[i].widget \notin listed
                             /\ dragged # NoBox => boxes[i].widget # dragged.widget
OnceKept == ~layoutHistory.late => Once /\ OffersOthers

\* If no two layouts crossed, the only one on its way is that of the dashboard,
\* which the server has when there is none.
LayoutSent ==
    ~layoutHistory.crossed =>
        /\ Layouts = {} => layoutSaved = WidgetsOf(boxes)
        /\ \A q \in Layouts : Layouts = {q} /\ q.layout = WidgetsOf(boxes)

LayoutInv == LayoutShape /\ OnceKept /\ LayoutSent
\* What inserting and removing make of a sequence.
Inserts(bs, len, at, e, more) ==
    \A i \in 1..(len + 1) : more[i] = IF i < at THEN bs[i] ELSE IF i = at THEN e ELSE bs[i - 1]

Removes(bs, len, n, less) == \A i \in 1..(len - 1) : less[i] = IF i < n THEN bs[i] ELSE bs[i + 1]

LEMMA InsertAtInserts ==
  ASSUME NEW S, NEW s \in Seq(S), NEW n \in 1..(Len(s) + 1), NEW e \in S
  PROVE  /\ InsertAt(s, n, e) \in Seq(S) /\ Len(InsertAt(s, n, e)) = Len(s) + 1
         /\ Inserts(s, Len(s), n, e, InsertAt(s, n, e))
<1> DEFINE a == SubSeq(s, 1, n - 1)
           b == SubSeq(s, n, Len(s))
           c == a \o <<e>>
           u == c \o b
<1>1. Len(s) \in Nat /\ n \in Nat
  OBVIOUS
<1>2. a \in Seq(S) /\ Len(a) = n - 1 /\ \A j \in 1..(n - 1) : a[j] = s[j]
  BY <1>1
<1>3. b \in Seq(S) /\ Len(b) = Len(s) - n + 1 /\ \A j \in 1..Len(b) : b[j] = s[n + j - 1]
  BY <1>1
<1> HIDE DEF a, b
<1>4. c \in Seq(S) /\ Len(c) = n /\ c[n] = e /\ \A j \in 1..(n - 1) : c[j] = s[j]
  BY <1>1, <1>2
<1> HIDE DEF c
<1>5. u \in Seq(S) /\ Len(u) = Len(s) + 1
  BY <1>1, <1>3, <1>4
<1>6. ASSUME NEW j \in 1..(Len(s) + 1)
      PROVE  u[j] = IF j < n THEN s[j] ELSE IF j = n THEN e ELSE s[j - 1]
  <2>1. CASE j <= n
    <3>1. j \in 1..n /\ u[j] = c[j]
      BY <1>1, <1>3, <1>4, <2>1
    <3>2. QED
      BY <1>1, <1>4, <2>1, <3>1
  <2>2. CASE j > n
    <3>1. j - n \in 1..Len(b) /\ n + (j - n) - 1 = j - 1
      BY <1>1, <1>3, <2>2
    <3>2. u[j] = b[j - n]
      BY <1>1, <1>3, <1>4, <2>2
    <3>3. QED
      BY <1>1, <1>3, <2>2, <3>1, <3>2
  <2>3. j <= n \/ j > n
    BY <1>1
  <2>4. QED
    BY <2>1, <2>2, <2>3
<1>7. InsertAt(s, n, e) = u
  BY DEF InsertAt, a, b, c
<1> HIDE DEF u
<1>8. QED
  BY <1>5, <1>6, <1>7 DEF Inserts

LEMMA RemoveAtRemoves ==
  ASSUME NEW S, NEW s \in Seq(S), NEW n \in 1..Len(s)
  PROVE  /\ RemoveAt(s, n) \in Seq(S) /\ Len(RemoveAt(s, n)) = Len(s) - 1
         /\ Removes(s, Len(s), n, RemoveAt(s, n))
<1> DEFINE a == SubSeq(s, 1, n - 1)
           b == SubSeq(s, n + 1, Len(s))
           u == a \o b
<1>1. Len(s) \in Nat /\ n \in Nat /\ n <= Len(s) /\ n >= 1
  OBVIOUS
<1>2. a \in Seq(S) /\ Len(a) = n - 1 /\ \A j \in 1..(n - 1) : a[j] = s[j]
  BY <1>1
<1>3. b \in Seq(S) /\ Len(b) = Len(s) - n /\ \A j \in 1..Len(b) : b[j] = s[n + j]
  BY <1>1
<1> HIDE DEF a, b
<1>4. u \in Seq(S)
  BY <1>2, <1>3
<1>5. Len(u) = Len(s) - 1
  <2>1. a \in Seq(S) /\ b \in Seq(S)
    BY <1>2, <1>3
  <2>2. Len(u) = Len(a) + Len(b)
    BY <2>1
  <2> HIDE DEF u
  <2>3. QED
    BY <1>1, <1>2, <1>3, <2>2
<1>6. \A j \in 1..(Len(s) - 1) : u[j] = IF j < n THEN s[j] ELSE s[j + 1]
  BY <1>1, <1>3, <1>2
<1>7. RemoveAt(s, n) = u
  BY DEF RemoveAt, a, b
<1> HIDE DEF u
<1>8. QED
  BY <1>4, <1>5, <1>6, <1>7 DEF Removes

\* Inserting what is not there, or removing, leaves every widget once.
Lacks(bs, len, e) == \A i \in 1..len : bs[i].widget # e.widget

LEMMA OnceInserted ==
  ASSUME NEW bs, NEW len \in Nat, NEW at \in 1..(len + 1), NEW e, NEW more,
         OnceIn(bs, len), Lacks(bs, len, e), Inserts(bs, len, at, e, more)
  PROVE  OnceIn(more, len + 1)
<1> SUFFICES ASSUME NEW i \in 1..(len + 1), NEW j \in 1..(len + 1), more[i].widget = more[j].widget
             PROVE  i = j
  BY DEF OnceIn
<1> DEFINE Old(k) == IF k < at THEN k ELSE k - 1
<1>1. \A k \in 1..(len + 1) : k # at => Old(k) \in 1..len /\ more[k] = bs[Old(k)]
  BY DEF Inserts
<1>2. more[at] = e
  BY DEF Inserts
<1>3. CASE i = at
  BY <1>1, <1>2, <1>3 DEF Lacks
<1>4. CASE j = at
  BY <1>1, <1>2, <1>4 DEF Lacks
<1>5. CASE i # at /\ j # at
  <2>1. Old(i) = Old(j)
    <3> HIDE DEF Old
    <3>1. QED
      BY <1>1, <1>5 DEF OnceIn
  <2>2. QED
    BY <1>5, <2>1
<1>6. QED
  BY <1>3, <1>4, <1>5

LEMMA OnceRemoved ==
  ASSUME NEW bs, NEW len \in Nat, NEW n \in 1..len, NEW less, OnceIn(bs, len), Removes(bs, len, n, less)
  PROVE  OnceIn(less, len - 1) /\ Lacks(less, len - 1, bs[n])
<1> DEFINE Old(k) == IF k < n THEN k ELSE k + 1
<1>1. \A k \in 1..(len - 1) : Old(k) \in 1..len /\ Old(k) # n /\ less[k] = bs[Old(k)]
  BY DEF Removes
<1>2. \A i, j \in 1..(len - 1) : Old(i) = Old(j) => i = j
  OBVIOUS
<1> HIDE DEF Old
<1>3. QED
  BY <1>1, <1>2 DEF OnceIn, Lacks

LEMMA WidgetsOfType ==
  ASSUME NEW bs \in Seq(Box)
  PROVE  WidgetsOf(bs) \in Seq(Widget)
<1>1. DOMAIN bs = 1..Len(bs) /\ Len(bs) \in Nat /\ \A i \in 1..Len(bs) : bs[i] \in Box
  BY LenProperties, ElementOfSeq
<1>2. WidgetsOf(bs) \in [1..Len(bs) -> Widget]
  BY <1>1 DEF WidgetsOf, Box
<1>3. QED
  BY <1>1, <1>2, SeqDef

\* A layout that is sent is the only one, or it crosses another.
LEMMA SendsKeeps ==
  ASSUME LayoutShape, NEW late \in BOOLEAN, boxes' \in Seq(Box), SendsLayout(boxes', late)
  PROVE  /\ layoutCalls' \subseteq LayoutCall
         /\ layoutHistory' \in [late : BOOLEAN, crossed : BOOLEAN]
         /\ layoutHistory'.late = (layoutHistory.late \/ late)
         /\ LayoutSent'
<1>1. PICK n \in 1..MaxUpdates :
         layoutCalls' = layoutCalls \union {[op |-> "update", element |-> n, layout |-> WidgetsOf(boxes')]}
  BY DEF SendsLayout, WidgetsOf
<1> DEFINE q == [op |-> "update", element |-> n, layout |-> WidgetsOf(boxes')]
<1>2. q \in LayoutCall /\ q.op = "update" /\ q.layout = WidgetsOf(boxes')
  BY WidgetsOfType, LayoutAssumption DEF LayoutCall
<1>3. /\ layoutHistory' \in [late : BOOLEAN, crossed : BOOLEAN]
      /\ layoutHistory'.late = (layoutHistory.late \/ late)
      /\ ~layoutHistory'.crossed => Layouts = {}
  BY DEF SendsLayout, LayoutShape
<1> HIDE DEF q
<1>4. layoutCalls' = layoutCalls \union {q}
  BY <1>1 DEF q
<1>5. Layouts = {} => Layouts' = {q}
  BY <1>2, <1>4 DEF Layouts
<1>6. LayoutSent'
  BY <1>2, <1>3, <1>5 DEF LayoutSent, WidgetsOf
<1>7. QED
  BY <1>2, <1>3, <1>4, <1>6 DEF LayoutShape

LEMMA DragKeeps == ASSUME LayoutInv, NEW w \in Widget, StartDrag(w) PROVE LayoutInv'
<1> DEFINE box == [widget |-> w, element |-> drags + 1, id |-> "placeholder", closing |-> FALSE]
           q == [op |-> "widget", element |-> drags + 1]
<1>1. /\ dragged' = box /\ layoutCalls' = layoutCalls \union {q} /\ drags' = drags + 1
      /\ UNCHANGED <<boxes, listed, layoutSaved, layoutHistory>> /\ w \in listed
  BY DEF StartDrag
<1>2. box \in Box /\ q \in LayoutCall /\ drags' \in 0..MaxDrags
  BY <1>1, LayoutAssumption DEF LayoutInv, LayoutShape, Box, LayoutCall, StartDrag
<1>3. LayoutShape'
  BY <1>1, <1>2 DEF LayoutInv, LayoutShape
<1>4. OnceKept'
  BY <1>1 DEF LayoutInv, OnceKept, OffersOthers, Once
<1>5. Layouts' = Layouts
  BY <1>1 DEF Layouts
<1>6. LayoutSent'
  BY <1>1, <1>5 DEF LayoutInv, LayoutSent, WidgetsOf
<1>7. QED
  BY <1>3, <1>4, <1>6 DEF LayoutInv

\* The list, rendered anew, offers nothing that is on the dashboard under its
\* own id.
LEMMA ListedKeeps ==
  ASSUME NEW bs \in Seq(Box), ShowModuleWidgets(bs)
  PROVE  /\ listed' \subseteq Widget
         /\ \A i \in 1..Len(bs) : bs[i].id = "widget" => bs[i].widget \notin listed'
<1>1. DOMAIN bs = 1..Len(bs)
  OBVIOUS
<1>2. QED
  BY <1>1 DEF ShowModuleWidgets

LEMMA DropKeeps == ASSUME LayoutInv, NEW at \in Nat, DropInDashboard(at) PROVE LayoutInv'
<1> DEFINE late == dragged.id = "placeholder"
<1>1. /\ boxes' = InsertAt(boxes, at, dragged) /\ dragged' = NoBox /\ at \in 1..(Len(boxes) + 1)
      /\ SendsLayout(boxes', late) /\ ShowModuleWidgets(boxes')
      /\ UNCHANGED <<layoutSaved, drags>>
      /\ dragged \in Box /\ boxes \in Seq(Box) /\ dragged # NoBox
  BY DEF DropInDashboard, LayoutInv, LayoutShape
<1>2. /\ boxes' \in Seq(Box) /\ Len(boxes') = Len(boxes) + 1 /\ Len(boxes) \in Nat
      /\ \A i \in 1..(Len(boxes) + 1) :
            boxes'[i] = IF i < at THEN boxes[i] ELSE IF i = at THEN dragged ELSE boxes[i - 1]
  <2>1. Len(boxes) \in Nat
    BY <1>1, LenProperties
  <2> DEFINE more == InsertAt(boxes, at, dragged)
  <2>0. dragged \in Box /\ boxes \in Seq(Box) /\ at \in 1..(Len(boxes) + 1) /\ boxes' = more
    BY <1>1
  <2>2. more \in Seq(Box) /\ Len(more) = Len(boxes) + 1 /\ Inserts(boxes, Len(boxes), at, dragged, more)
    BY <2>0, InsertAtInserts
  <2> HIDE DEF more
  <2>3. QED
    BY <2>0, <2>1, <2>2 DEF Inserts
<1>3. /\ layoutCalls' \subseteq LayoutCall /\ LayoutSent'
      /\ layoutHistory' \in [late : BOOLEAN, crossed : BOOLEAN]
      /\ layoutHistory'.late = (layoutHistory.late \/ late)
  BY <1>1, <1>2, SendsKeeps DEF LayoutInv
<1>4. LayoutShape'
  BY <1>1, <1>2, <1>3, ListedKeeps DEF LayoutInv, LayoutShape
<1>5. OnceKept'
  <2> SUFFICES ASSUME ~layoutHistory'.late PROVE Once' /\ OffersOthers'
    BY DEF OnceKept
  <2>1. ~layoutHistory.late /\ dragged.id = "widget"
    BY <1>1, <1>3 DEF Box
  <2>2. \A i \in 1..Len(boxes) : boxes[i].id = "widget" /\ boxes[i].widget # dragged.widget
    BY <1>1, <2>1 DEF LayoutInv, OnceKept, OffersOthers
  <2>3. Once
    BY <2>1 DEF LayoutInv, OnceKept
  <2>4. Once'
    <3>1. OnceIn(boxes, Len(boxes)) /\ Lacks(boxes, Len(boxes), dragged)
      BY <2>2, <2>3 DEF Once, Lacks
    <3>2. Inserts(boxes, Len(boxes), at, dragged, boxes')
      BY <1>2 DEF Inserts
    <3>3. OnceIn(boxes', Len(boxes) + 1)
      BY <1>1, <1>2, <3>1, <3>2, OnceInserted
    <3>4. QED
      BY <1>2, <3>3 DEF Once
  <2>5. \A i \in 1..Len(boxes') : boxes'[i].id = "widget"
    BY <1>1, <1>2, <2>1, <2>2
  <2>6. QED
    BY <1>1, <1>2, <2>4, <2>5, ListedKeeps DEF OffersOthers
<1>6. QED
  BY <1>3, <1>4, <1>5 DEF LayoutInv

LEMMA DropBackKeeps == ASSUME LayoutInv, DropInList PROVE LayoutInv'
<1>1. /\ dragged' = NoBox /\ ShowModuleWidgets(boxes) /\ boxes \in Seq(Box)
      /\ UNCHANGED <<boxes, layoutCalls, layoutSaved, drags, layoutHistory>>
  BY DEF DropInList, LayoutInv, LayoutShape
<1>2. LayoutShape'
  BY <1>1, ListedKeeps DEF LayoutInv, LayoutShape
<1>3. OnceKept'
  BY <1>1, ListedKeeps DEF LayoutInv, OnceKept, Once, OnceIn, OffersOthers
<1>4. LayoutSent'
  BY <1>1 DEF LayoutInv, LayoutSent, WidgetsOf, Layouts
<1>5. QED
  BY <1>2, <1>3, <1>4 DEF LayoutInv

\* Boxes that only get their id, or begin to fade out.
LEMMA RelabelKeeps ==
  ASSUME LayoutInv, boxes' \in Seq(Box), Len(boxes') = Len(boxes),
         \A i \in 1..Len(boxes) : /\ boxes'[i].widget = boxes[i].widget
                                  /\ boxes[i].id = "widget" => boxes'[i].id = "widget",
         dragged' \in Box \union {NoBox}, dragged' # NoBox => dragged # NoBox,
         dragged'.widget = dragged.widget, layoutCalls' \subseteq layoutCalls,
         Layouts' = Layouts, UNCHANGED <<listed, layoutSaved, drags, layoutHistory>>
  PROVE  LayoutInv'
<1>1. LayoutShape'
  BY DEF LayoutInv, LayoutShape
<1>2. OnceKept'
  BY DEF LayoutInv, OnceKept, Once, OnceIn, OffersOthers
<1>3. WidgetsOf(boxes') = WidgetsOf(boxes)
  <2>1. DOMAIN boxes' = 1..Len(boxes) /\ DOMAIN boxes = 1..Len(boxes)
    BY DEF LayoutInv, LayoutShape
  <2>2. QED
    BY <2>1 DEF WidgetsOf
<1>4. LayoutSent'
  BY <1>3 DEF LayoutInv, LayoutSent, WidgetsOf
<1>5. QED
  BY <1>1, <1>2, <1>4 DEF LayoutInv

LEMMA ContentKeeps ==
  ASSUME LayoutInv, NEW q \in layoutCalls, WidgetContent(q) \/ WidgetContentFails(q)
  PROVE  LayoutInv'
<1>1. /\ q.op = "widget" /\ layoutCalls' = layoutCalls \ {q}
      /\ UNCHANGED <<listed, layoutSaved, drags, layoutHistory>>
      /\ boxes \in Seq(Box) /\ dragged \in Box \union {NoBox}
  BY DEF WidgetContent, WidgetContentFails, LayoutInv, LayoutShape
<1>2. Layouts' = Layouts
  BY <1>1 DEF Layouts
<1>3. CASE WidgetContent(q)
  <2>1. q.element \in Nat \ {0} /\ DOMAIN boxes = 1..Len(boxes) /\ Len(boxes) \in Nat
        /\ \A i \in 1..Len(boxes) : boxes[i] \in Box
    BY <1>1, LenProperties, ElementOfSeq DEF LayoutInv, LayoutShape, LayoutCall
  <2>2. /\ \A i \in 1..Len(boxes) : /\ boxes'[i] \in Box /\ boxes'[i].widget = boxes[i].widget
                                    /\ boxes[i].id = "widget" => boxes'[i].id = "widget"
        /\ boxes' \in [1..Len(boxes) -> Box]
    BY <1>3, <2>1 DEF WidgetContent, Box
  <2>3. boxes' \in Seq(Box) /\ Len(boxes') = Len(boxes)
    BY <2>1, <2>2, SeqDef
  <2>4. /\ dragged' \in Box \union {NoBox} /\ (dragged' # NoBox => dragged # NoBox)
        /\ dragged'.widget = dragged.widget
    <3>1. dragged' = IF dragged.element = q.element THEN [dragged EXCEPT !.id = "widget"] ELSE dragged
      BY <1>3 DEF WidgetContent
    <3>2. CASE dragged = NoBox
      BY <2>1, <3>1, <3>2 DEF NoBox
    <3>3. CASE dragged \in Box /\ dragged # NoBox
      BY <3>1, <3>3 DEF Box
    <3>4. QED
      BY <1>1, <3>2, <3>3
  <2>5. QED
    BY <1>1, <1>2, <2>2, <2>3, <2>4, RelabelKeeps
<1>4. CASE WidgetContentFails(q)
  <2>1. boxes' = boxes /\ dragged' = dragged
    BY <1>4 DEF WidgetContentFails
  <2>2. QED
    BY <1>1, <1>2, <2>1, RelabelKeeps
<1>5. QED
  BY <1>3, <1>4

LEMMA CloseKeepsLayout == ASSUME LayoutInv, NEW w \in Widget, CloseWidget(w) PROVE LayoutInv'
<1>1. /\ boxes \in Seq(Box) /\ DOMAIN boxes = 1..Len(boxes) /\ Len(boxes) \in Nat
      /\ \A i \in 1..Len(boxes) : boxes[i] \in Box
  BY LenProperties, ElementOfSeq DEF LayoutInv, LayoutShape
<1>2. PICK n \in 1..Len(boxes) : boxes' = [boxes EXCEPT ![n].closing = TRUE]
  BY <1>1 DEF CloseWidget
<1>3. /\ \A i \in 1..Len(boxes) : /\ boxes'[i] \in Box /\ boxes'[i].widget = boxes[i].widget
                                  /\ boxes'[i].id = boxes[i].id
      /\ boxes' \in [1..Len(boxes) -> Box]
  BY <1>1, <1>2 DEF Box
<1>4. boxes' \in Seq(Box) /\ Len(boxes') = Len(boxes)
  BY <1>1, <1>3, SeqDef
<1>5. UNCHANGED <<listed, dragged, layoutCalls, layoutSaved, drags, layoutHistory>>
  BY DEF CloseWidget
<1>6. QED
  BY <1>3, <1>4, <1>5, RelabelKeeps DEF Layouts, LayoutInv, LayoutShape

\* A box is taken out, or put elsewhere.
LEMMA ClosedKeeps == ASSUME LayoutInv, NEW n \in Nat, WidgetClosed(n) PROVE LayoutInv'
<1>1. /\ boxes \in Seq(Box) /\ n \in 1..Len(boxes) /\ Len(boxes) \in Nat /\ boxes' = RemoveAt(boxes, n)
      /\ ShowModuleWidgets(boxes') /\ SendsLayout(boxes', FALSE) /\ UNCHANGED <<dragged, layoutSaved, drags>>
  BY LenProperties DEF WidgetClosed, LayoutInv, LayoutShape
<1>2. /\ boxes' \in Seq(Box) /\ Len(boxes') = Len(boxes) - 1
      /\ \A i \in 1..(Len(boxes) - 1) : boxes'[i] = IF i < n THEN boxes[i] ELSE boxes[i + 1]
  <2> DEFINE less == RemoveAt(boxes, n)
  <2>0. boxes \in Seq(Box) /\ n \in 1..Len(boxes) /\ boxes' = less
    BY <1>1
  <2>1. less \in Seq(Box) /\ Len(less) = Len(boxes) - 1 /\ Removes(boxes, Len(boxes), n, less)
    BY <2>0, RemoveAtRemoves
  <2> HIDE DEF less
  <2>2. QED
    BY <2>0, <2>1 DEF Removes
<1>3. /\ layoutCalls' \subseteq LayoutCall /\ LayoutSent'
      /\ layoutHistory' \in [late : BOOLEAN, crossed : BOOLEAN]
      /\ layoutHistory'.late = layoutHistory.late
  BY <1>1, <1>2, SendsKeeps DEF LayoutInv, LayoutShape
<1>4. LayoutShape'
  BY <1>1, <1>2, <1>3, ListedKeeps DEF LayoutInv, LayoutShape
<1>5. OnceKept'
  <2> SUFFICES ASSUME ~layoutHistory'.late PROVE Once' /\ OffersOthers'
    BY DEF OnceKept
  <2>1. /\ Once /\ \A i \in 1..Len(boxes) : /\ boxes[i].id = "widget"
                                            /\ dragged # NoBox => boxes[i].widget # dragged.widget
    BY <1>3 DEF LayoutInv, OnceKept, OffersOthers
  <2>2. Once'
    <3>1. OnceIn(boxes, Len(boxes)) /\ Removes(boxes, Len(boxes), n, boxes')
      BY <1>2, <2>1 DEF Once, Removes
    <3>2. OnceIn(boxes', Len(boxes) - 1)
      BY <1>1, <3>1, OnceRemoved
    <3>3. QED
      BY <1>2, <3>2 DEF Once
  <2>3. \A i \in 1..Len(boxes') : /\ boxes'[i].id = "widget"
                                  /\ dragged # NoBox => boxes'[i].widget # dragged.widget
    BY <1>1, <1>2, <2>1, SMTT(60)
  <2>4. QED
    BY <1>1, <1>2, <2>2, <2>3, ListedKeeps DEF OffersOthers
<1>6. QED
  BY <1>3, <1>4, <1>5 DEF LayoutInv

LEMMA MoveKeeps == ASSUME LayoutInv, NEW n \in Nat, NEW to \in Nat, MoveWidget(n, to) PROVE LayoutInv'
<1> DEFINE less == RemoveAt(boxes, n)
           box == boxes[n]
           more == InsertAt(less, to, box)
<1>1. /\ boxes \in Seq(Box) /\ n \in 1..Len(boxes) /\ to \in 1..Len(boxes) /\ Len(boxes) \in Nat
      /\ boxes' = more /\ SendsLayout(boxes', FALSE) /\ box \in Box
      /\ UNCHANGED <<listed, dragged, layoutSaved, drags>>
  BY LenProperties, ElementOfSeq DEF MoveWidget, LayoutInv, LayoutShape
<1>2. /\ less \in Seq(Box) /\ Len(less) = Len(boxes) - 1
      /\ \A i \in 1..(Len(boxes) - 1) : less[i] = IF i < n THEN boxes[i] ELSE boxes[i + 1]
  <2>1. boxes \in Seq(Box) /\ n \in 1..Len(boxes)
    BY <1>1
  <2>2. less \in Seq(Box) /\ Len(less) = Len(boxes) - 1 /\ Removes(boxes, Len(boxes), n, less)
    BY <2>1, RemoveAtRemoves
  <2> HIDE DEF less
  <2>3. QED
    BY <2>2 DEF Removes
<1>0. box = boxes[n]
  OBVIOUS
<1> HIDE DEF less, box
<1>3. to \in 1..(Len(less) + 1) /\ Len(less) + 1 = Len(boxes)
  BY <1>1, <1>2
<1>4. /\ more \in Seq(Box) /\ Len(more) = Len(less) + 1
      /\ \A i \in 1..(Len(less) + 1) :
            more[i] = IF i < to THEN less[i] ELSE IF i = to THEN box ELSE less[i - 1]
  <2>1. less \in Seq(Box) /\ to \in 1..(Len(less) + 1) /\ box \in Box
    BY <1>1, <1>2, <1>3
  <2>2. more \in Seq(Box) /\ Len(more) = Len(less) + 1 /\ Inserts(less, Len(less), to, box, more)
    BY <2>1, InsertAtInserts
  <2>3. QED
    BY <2>2 DEF Inserts
<1> HIDE DEF more
<1>5. /\ boxes' \in Seq(Box) /\ Len(boxes') = Len(boxes)
      /\ \A i \in 1..Len(boxes) :
            boxes'[i] = IF i < to THEN less[i] ELSE IF i = to THEN box ELSE less[i - 1]
  BY <1>1, <1>3, <1>4
<1>6. /\ layoutCalls' \subseteq LayoutCall /\ LayoutSent'
      /\ layoutHistory' \in [late : BOOLEAN, crossed : BOOLEAN]
      /\ layoutHistory'.late = layoutHistory.late
  BY <1>1, <1>5, SendsKeeps DEF LayoutInv, LayoutShape
<1>7. LayoutShape'
  BY <1>1, <1>5, <1>6 DEF LayoutInv, LayoutShape
<1>8. OnceKept'
  <2> SUFFICES ASSUME ~layoutHistory'.late PROVE Once' /\ OffersOthers'
    BY DEF OnceKept
  <2>1. Once /\ OffersOthers
    BY <1>6 DEF LayoutInv, OnceKept
  <2>2. OnceIn(less, Len(less)) /\ Lacks(less, Len(less), box)
    <3>1. OnceIn(boxes, Len(boxes)) /\ Removes(boxes, Len(boxes), n, less)
      BY <1>2, <2>1 DEF Once, Removes
    <3>2. QED
      BY <1>0, <1>1, <1>2, <3>1, OnceRemoved
  <2>3. Once'
    <3>1. Inserts(less, Len(less), to, box, more)
      BY <1>4 DEF Inserts
    <3>2. OnceIn(more, Len(less) + 1)
      BY <1>2, <1>3, <2>2, <3>1, LenProperties, OnceInserted
    <3>3. QED
      BY <1>1, <1>3, <1>5, <3>2 DEF Once
  <2>4. \A i \in 1..Len(less) : \E j \in 1..Len(boxes) : less[i] = boxes[j]
    BY <1>1, <1>2
  <2>5. \A i \in 1..Len(boxes') : \E j \in 1..Len(boxes) : boxes'[i] = boxes[j]
    <3> SUFFICES ASSUME NEW i \in 1..Len(boxes) PROVE \E j \in 1..Len(boxes) : boxes'[i] = boxes[j]
      BY <1>5
    <3>1. CASE i < to
      <4>1. i \in 1..Len(less) /\ boxes'[i] = less[i]
        BY <1>1, <1>3, <1>5, <3>1
      <4>2. QED
        BY <2>4, <4>1
    <3>2. CASE i = to
      BY <1>0, <1>1, <1>5, <3>2
    <3>3. CASE i > to
      <4>1. i - 1 \in 1..Len(less) /\ boxes'[i] = less[i - 1]
        BY <1>1, <1>3, <1>5, <3>3
      <4>2. QED
        BY <2>4, <4>1
    <3>4. QED
      BY <1>1, <3>1, <3>2, <3>3
  <2>6. OffersOthers'
    BY <1>1, <2>1, <2>5 DEF OffersOthers
  <2>7. QED
    BY <2>3, <2>6
<1>9. QED
  BY <1>6, <1>7, <1>8 DEF LayoutInv

LEMMA SavesKeeps == ASSUME LayoutInv, NEW q \in layoutCalls, SavesLayout(q) PROVE LayoutInv'
<1>1. /\ q.op = "update" /\ layoutCalls' = layoutCalls \ {q} /\ layoutSaved' = q.layout /\ q \in LayoutCall
      /\ UNCHANGED <<boxes, listed, dragged, drags, layoutHistory>> /\ q \in Layouts
  BY DEF SavesLayout, LayoutInv, LayoutShape, Layouts
<1>2. LayoutShape'
  BY <1>1 DEF LayoutInv, LayoutShape, LayoutCall
<1>3. OnceKept'
  BY <1>1 DEF LayoutInv, OnceKept, Once, OnceIn, OffersOthers
<1>4. Layouts' = Layouts \ {q}
  BY <1>1 DEF Layouts
<1>5. LayoutSent'
  BY <1>1, <1>4 DEF LayoutInv, LayoutSent, WidgetsOf
<1>6. QED
  BY <1>2, <1>3, <1>5 DEF LayoutInv

LEMMA LayoutInvariant == LayoutSpec => []LayoutInv
<1>1. LayoutInit => LayoutInv
  BY LayoutAssumption DEF LayoutInit, LayoutInv, LayoutShape, OnceKept, Once, OnceIn, OffersOthers,
                          LayoutSent, Layouts, WidgetsOf
<1>2. LayoutInv /\ [LayoutNext]_layoutVars => LayoutInv'
  <2> SUFFICES ASSUME LayoutInv, [LayoutNext]_layoutVars PROVE LayoutInv'
    OBVIOUS
  <2>1. CASE UNCHANGED layoutVars
    BY <2>1 DEF layoutVars, LayoutInv, LayoutShape, OnceKept, Once, OnceIn, OffersOthers, LayoutSent, Layouts, WidgetsOf
  <2>2. \A i \in 1..MaxDrags : i \in Nat
    BY LayoutAssumption
  <2>3. QED
    BY <2>1, <2>2, DragKeeps, DropKeeps, DropBackKeeps, ContentKeeps, CloseKeepsLayout, ClosedKeeps,
       MoveKeeps, SavesKeeps DEF LayoutNext
<1>3. QED
  BY <1>1, <1>2, PTL DEF LayoutSpec

\* If the content of every widget came while it was dragged, no widget is twice
\* on the dashboard, however widgets are dragged, moved and closed (WidgetOnce).
THEOREM WidgetsOnce == LayoutSpec => []WidgetOnce
<1>1. LayoutInv => WidgetOnce
  BY DEF LayoutInv, LayoutShape, OnceKept, Once, OnceIn, WidgetOnce
<1>2. QED
  BY <1>1, LayoutInvariant, PTL

\* If no two layouts were on their way at once, the server ends with the one
\* that the dashboard shows (LayoutKept).
THEOREM LayoutsKept == LayoutSpec => []LayoutKept
<1>1. LayoutInv => LayoutKept
  BY DEF LayoutInv, LayoutSent, LayoutKept, WidgetsOf
<1>2. QED
  BY <1>1, LayoutInvariant, PTL

-----------------------------------------------------------------------------
(* The combobox, for any options.                                          *)

ComboShape ==
    /\ field \in [text : Texts, focused : BOOLEAN, previous : Texts, term : Texts, selectedItem : Texts]
    /\ menu \in [shown : BOOLEAN, items : SUBSET Label, active : Texts, collapsing : BOOLEAN, old : BOOLEAN]
    /\ options \subseteq Label

\* While the field is not focused nothing of it is going on; the button is down
\* only then.
FieldAtRest ==
    /\ ~field.focused => ~menu.shown /\ ~searching
    /\ wasOpen # "up" => ~field.focused
\* What was chosen in this visit stays the text and the search.
ChoiceStays ==
    field.focused /\ ~rethought /\ field.selectedItem # NoLabel
        => field.text = field.selectedItem /\ field.term = field.text /\ chosen = field.text
\* Until then the option is the one of the text when the visit began.
PreviousChosen ==
    field.focused /\ ~rethought /\ field.selectedItem = NoLabel /\ field.previous # NoLabel
        => field.previous = chosen
TextChosen == ~field.focused /\ ~rethought /\ field.text # NoLabel => field.text = chosen

ComboInv == ComboShape /\ FieldAtRest /\ ChoiceStays /\ PreviousChosen /\ TextChosen

LEMMA FoundIs == ASSUME ComboShape, NEW value PROVE Found(value) \subseteq Label /\ (Found(value) # {}) \in BOOLEAN
BY DEF ComboShape, Found

\* The steps, with what blur and the press of the button have in common.
ComboStep ==
    \/ FocusField \/ SearchTimeout \/ MoveHidden \/ MoveBeyond \/ MouseLeaves \/ CollapseAll \/ SelectItem
    \/ Escape \/ Leave \/ ButtonClick
    \/ \E text \in Texts : Type(text)
    \/ \E i \in Label : MoveTo(i)
    \/ \E i \in Label : Hover(i)
    \/ \E ls \in SUBSET Label : Redrawn(ls)
    \/ UNCHANGED <<options, chosen, field, searching, menu, typedLeft, freshLeft, rethought>>

LEMMA ComboSteps == ASSUME [ComboNext]_comboVars PROVE ComboStep
BY DEF ComboNext, ComboStep, Blur, ButtonDown, comboVars

LEMMA ComboShapeKept == ASSUME ComboShape, ComboStep PROVE ComboShape'
<1>1. CASE FocusField
  BY <1>1 DEF ComboShape, Texts, FocusField
<1>2. CASE \E text \in Texts : Type(text)
  BY <1>2 DEF ComboShape, Texts, Type, Retext
<1>3. CASE SearchTimeout
  BY <1>3, FoundIs, ZenonT(60) DEF ComboShape, Texts, SearchTimeout, Search
<1>4. CASE MoveHidden
  BY <1>4, FoundIs DEF ComboShape, Texts, MoveHidden, Search
<1>5. CASE \E i \in Label : MoveTo(i)
  BY <1>5 DEF ComboShape, Texts, MoveTo, Retext
<1>6. CASE MoveBeyond
  BY <1>6 DEF ComboShape, Texts, MoveBeyond, Retext
<1>7. CASE \E i \in Label : Hover(i)
  BY <1>7 DEF ComboShape, Texts, Hover
<1>8. CASE MouseLeaves
  BY <1>8 DEF ComboShape, Texts, MouseLeaves
<1>9. CASE CollapseAll
  BY <1>9 DEF ComboShape, Texts, CollapseAll
<1>10. CASE SelectItem
  BY <1>10 DEF ComboShape, Texts, SelectItem, HiddenMenu
<1>11. CASE Escape
  BY <1>11 DEF ComboShape, Texts, Escape, Retext, HiddenMenu
<1>12. CASE Leave
  BY <1>12 DEF ComboShape, Texts, Leave, HiddenMenu, RemoveIfInvalid
<1>13. CASE ButtonClick
  BY <1>13, FoundIs DEF ComboShape, Texts, ButtonClick, Search
<1>14. CASE \E ls \in SUBSET Label : Redrawn(ls)
  BY <1>14 DEF ComboShape, Texts, Redrawn
<1>15. CASE UNCHANGED <<options, chosen, field, searching, menu, typedLeft, freshLeft, rethought>>
  BY <1>15 DEF ComboShape
<1>16. QED
  BY <1>1, <1>2, <1>3, <1>4, <1>5, <1>6, <1>7, <1>8, <1>9, <1>10, <1>11, <1>12, <1>13, <1>14, <1>15 DEF ComboStep

LEMMA FieldAtRestKept == ASSUME ComboInv, [ComboNext]_comboVars PROVE FieldAtRest'
<1>1. CASE FocusField
  BY <1>1 DEF ComboInv, ComboShape, FieldAtRest, FocusField
<1>2. CASE \E text \in Texts : Type(text)
  BY <1>2 DEF ComboInv, ComboShape, FieldAtRest, Type, Retext
<1>3. CASE SearchTimeout
  BY <1>3 DEF ComboInv, ComboShape, FieldAtRest, SearchTimeout, Search
<1>4. CASE MoveHidden
  BY <1>4 DEF ComboInv, ComboShape, FieldAtRest, MoveHidden, Search
<1>5. CASE \E i \in Label : MoveTo(i)
  BY <1>5 DEF ComboInv, ComboShape, FieldAtRest, MoveTo, Retext
<1>6. CASE MoveBeyond
  BY <1>6 DEF ComboInv, ComboShape, FieldAtRest, MoveBeyond, Retext
<1>7. CASE \E i \in Label : Hover(i)
  BY <1>7 DEF ComboInv, ComboShape, FieldAtRest, Hover
<1>8. CASE MouseLeaves
  BY <1>8 DEF ComboInv, ComboShape, FieldAtRest, MouseLeaves
<1>9. CASE CollapseAll
  BY <1>9 DEF ComboInv, ComboShape, FieldAtRest, CollapseAll
<1>10. CASE SelectItem
  BY <1>10 DEF ComboInv, ComboShape, FieldAtRest, SelectItem, HiddenMenu
<1>11. CASE Escape
  BY <1>11 DEF ComboInv, ComboShape, FieldAtRest, Escape, Retext, HiddenMenu
<1>12. CASE Blur \/ ButtonDown
  <2>1. Leave => ~field'.focused /\ ~menu'.shown /\ ~searching'
    BY DEF ComboInv, ComboShape, Leave, HiddenMenu, RemoveIfInvalid
  <2>2. CASE Leave
    BY <2>1, <2>2 DEF FieldAtRest
  <2>3. CASE ButtonDown /\ ~Leave
    BY <2>3 DEF ComboInv, FieldAtRest, ButtonDown
  <2>4. QED
    BY <1>12, <2>2, <2>3 DEF Blur
<1>13. CASE ButtonClick
  BY <1>13 DEF ComboInv, ComboShape, FieldAtRest, ButtonClick, Search
<1>14. CASE \E ls \in SUBSET Label : Redrawn(ls)
  BY <1>14 DEF ComboInv, ComboShape, FieldAtRest, Redrawn
<1>15. CASE UNCHANGED comboVars
  BY <1>15 DEF ComboInv, FieldAtRest, comboVars
<1>16. QED
  BY <1>1, <1>2, <1>3, <1>4, <1>5, <1>6, <1>7, <1>8, <1>9, <1>10, <1>11, <1>12, <1>13, <1>14, <1>15 DEF ComboNext

LEMMA ChoiceKept == ASSUME ComboInv, ComboStep PROVE ChoiceStays' /\ PreviousChosen' /\ TextChosen'
<1>1. CASE FocusField
  <2>1. ChoiceStays'
    BY <1>1 DEF ComboInv, ComboShape, FieldAtRest, ChoiceStays, PreviousChosen, TextChosen, FocusField
  <2>2. PreviousChosen'
    BY <1>1 DEF ComboInv, ComboShape, FieldAtRest, ChoiceStays, PreviousChosen, TextChosen, FocusField
  <2>3. TextChosen'
    BY <1>1 DEF ComboInv, ComboShape, FieldAtRest, ChoiceStays, PreviousChosen, TextChosen, FocusField
  <2>4. QED
    BY <2>1, <2>2, <2>3
<1>2. CASE \E text \in Texts : Type(text)
  <2> SUFFICES ASSUME NEW text \in Texts, Type(text) PROVE ChoiceStays' /\ PreviousChosen' /\ TextChosen'
    BY <1>2
  <2>1. ChoiceStays'
    BY DEF ComboInv, ComboShape, FieldAtRest, ChoiceStays, PreviousChosen, TextChosen, Type, Retext
  <2>2. PreviousChosen'
    BY DEF ComboInv, ComboShape, FieldAtRest, ChoiceStays, PreviousChosen, TextChosen, Type, Retext
  <2>3. TextChosen'
    BY DEF ComboInv, ComboShape, FieldAtRest, ChoiceStays, PreviousChosen, TextChosen, Type, Retext
  <2>4. QED
    BY <2>1, <2>2, <2>3
<1>3. CASE SearchTimeout
  <2>1. ChoiceStays'
    BY <1>3 DEF ComboInv, ComboShape, FieldAtRest, ChoiceStays, PreviousChosen, TextChosen, SearchTimeout, Search
  <2>2. PreviousChosen'
    BY <1>3 DEF ComboInv, ComboShape, FieldAtRest, ChoiceStays, PreviousChosen, TextChosen, SearchTimeout, Search
  <2>3. TextChosen'
    BY <1>3 DEF ComboInv, ComboShape, FieldAtRest, ChoiceStays, PreviousChosen, TextChosen, SearchTimeout, Search
  <2>4. QED
    BY <2>1, <2>2, <2>3
<1>4. CASE MoveHidden
  <2>1. ChoiceStays'
    BY <1>4 DEF ComboInv, ComboShape, FieldAtRest, ChoiceStays, PreviousChosen, TextChosen, MoveHidden, Search
  <2>2. PreviousChosen'
    BY <1>4 DEF ComboInv, ComboShape, FieldAtRest, ChoiceStays, PreviousChosen, TextChosen, MoveHidden, Search
  <2>3. TextChosen'
    BY <1>4 DEF ComboInv, ComboShape, FieldAtRest, ChoiceStays, PreviousChosen, TextChosen, MoveHidden, Search
  <2>4. QED
    BY <2>1, <2>2, <2>3
<1>5. CASE \E i \in Label : MoveTo(i)
  <2> SUFFICES ASSUME NEW i \in Label, MoveTo(i) PROVE ChoiceStays' /\ PreviousChosen' /\ TextChosen'
    BY <1>5
  <2>1. ChoiceStays'
    BY DEF ComboInv, ComboShape, FieldAtRest, ChoiceStays, PreviousChosen, TextChosen, MoveTo, Retext
  <2>2. PreviousChosen'
    BY DEF ComboInv, ComboShape, FieldAtRest, ChoiceStays, PreviousChosen, TextChosen, MoveTo, Retext
  <2>3. TextChosen'
    BY DEF ComboInv, ComboShape, FieldAtRest, ChoiceStays, PreviousChosen, TextChosen, MoveTo, Retext
  <2>4. QED
    BY <2>1, <2>2, <2>3
<1>6. CASE MoveBeyond
  <2>1. ChoiceStays'
    BY <1>6 DEF ComboInv, ComboShape, FieldAtRest, ChoiceStays, PreviousChosen, TextChosen, MoveBeyond, Retext
  <2>2. PreviousChosen'
    BY <1>6 DEF ComboInv, ComboShape, FieldAtRest, ChoiceStays, PreviousChosen, TextChosen, MoveBeyond, Retext
  <2>3. TextChosen'
    BY <1>6 DEF ComboInv, ComboShape, FieldAtRest, ChoiceStays, PreviousChosen, TextChosen, MoveBeyond, Retext
  <2>4. QED
    BY <2>1, <2>2, <2>3
<1>7. CASE \E i \in Label : Hover(i)
  <2> SUFFICES ASSUME NEW i \in Label, Hover(i) PROVE ChoiceStays' /\ PreviousChosen' /\ TextChosen'
    BY <1>7
  <2>1. ChoiceStays'
    BY DEF ComboInv, ComboShape, FieldAtRest, ChoiceStays, PreviousChosen, TextChosen, Hover
  <2>2. PreviousChosen'
    BY DEF ComboInv, ComboShape, FieldAtRest, ChoiceStays, PreviousChosen, TextChosen, Hover
  <2>3. TextChosen'
    BY DEF ComboInv, ComboShape, FieldAtRest, ChoiceStays, PreviousChosen, TextChosen, Hover
  <2>4. QED
    BY <2>1, <2>2, <2>3
<1>8. CASE MouseLeaves
  <2>1. ChoiceStays'
    BY <1>8 DEF ComboInv, ComboShape, FieldAtRest, ChoiceStays, PreviousChosen, TextChosen, MouseLeaves
  <2>2. PreviousChosen'
    BY <1>8 DEF ComboInv, ComboShape, FieldAtRest, ChoiceStays, PreviousChosen, TextChosen, MouseLeaves
  <2>3. TextChosen'
    BY <1>8 DEF ComboInv, ComboShape, FieldAtRest, ChoiceStays, PreviousChosen, TextChosen, MouseLeaves
  <2>4. QED
    BY <2>1, <2>2, <2>3
<1>9. CASE CollapseAll
  <2>1. ChoiceStays'
    BY <1>9 DEF ComboInv, ComboShape, FieldAtRest, ChoiceStays, PreviousChosen, TextChosen, CollapseAll
  <2>2. PreviousChosen'
    BY <1>9 DEF ComboInv, ComboShape, FieldAtRest, ChoiceStays, PreviousChosen, TextChosen, CollapseAll
  <2>3. TextChosen'
    BY <1>9 DEF ComboInv, ComboShape, FieldAtRest, ChoiceStays, PreviousChosen, TextChosen, CollapseAll
  <2>4. QED
    BY <2>1, <2>2, <2>3
<1>10. CASE SelectItem
  <2>1. ChoiceStays'
    BY <1>10 DEF ComboInv, ComboShape, FieldAtRest, ChoiceStays, PreviousChosen, TextChosen, SelectItem, HiddenMenu
  <2>2. PreviousChosen'
    BY <1>10 DEF ComboInv, ComboShape, FieldAtRest, ChoiceStays, PreviousChosen, TextChosen, SelectItem, HiddenMenu
  <2>3. TextChosen'
    BY <1>10 DEF ComboInv, ComboShape, FieldAtRest, ChoiceStays, PreviousChosen, TextChosen, SelectItem, HiddenMenu
  <2>4. QED
    BY <2>1, <2>2, <2>3
<1>11. CASE Escape
  <2>1. ChoiceStays'
    BY <1>11 DEF ComboInv, ComboShape, FieldAtRest, ChoiceStays, PreviousChosen, TextChosen, Escape, Retext, HiddenMenu
  <2>2. PreviousChosen'
    BY <1>11 DEF ComboInv, ComboShape, FieldAtRest, ChoiceStays, PreviousChosen, TextChosen, Escape, Retext, HiddenMenu
  <2>3. TextChosen'
    BY <1>11 DEF ComboInv, ComboShape, FieldAtRest, ChoiceStays, PreviousChosen, TextChosen, Escape, Retext, HiddenMenu
  <2>4. QED
    BY <2>1, <2>2, <2>3
<1>12. CASE Leave
  <2>1. ChoiceStays'
    BY <1>12 DEF ComboInv, ComboShape, FieldAtRest, ChoiceStays, PreviousChosen, TextChosen, Leave, HiddenMenu, RemoveIfInvalid
  <2>2. PreviousChosen'
    BY <1>12 DEF ComboInv, ComboShape, FieldAtRest, ChoiceStays, PreviousChosen, TextChosen, Leave, HiddenMenu, RemoveIfInvalid
  <2>3. TextChosen'
    BY <1>12 DEF ComboInv, ComboShape, FieldAtRest, ChoiceStays, PreviousChosen, TextChosen, Leave, HiddenMenu, RemoveIfInvalid
  <2>4. QED
    BY <2>1, <2>2, <2>3
<1>13. CASE ButtonClick
  <2>1. ChoiceStays'
    BY <1>13 DEF ComboInv, ComboShape, FieldAtRest, ChoiceStays, PreviousChosen, TextChosen, ButtonClick, Search
  <2>2. PreviousChosen'
    BY <1>13 DEF ComboInv, ComboShape, FieldAtRest, ChoiceStays, PreviousChosen, TextChosen, ButtonClick, Search
  <2>3. TextChosen'
    BY <1>13 DEF ComboInv, ComboShape, FieldAtRest, ChoiceStays, PreviousChosen, TextChosen, ButtonClick, Search
  <2>4. QED
    BY <2>1, <2>2, <2>3
<1>14. CASE \E ls \in SUBSET Label : Redrawn(ls)
  <2> SUFFICES ASSUME NEW ls \in SUBSET Label, Redrawn(ls) PROVE ChoiceStays' /\ PreviousChosen' /\ TextChosen'
    BY <1>14
  <2>1. ChoiceStays'
    BY DEF ComboInv, ComboShape, FieldAtRest, ChoiceStays, PreviousChosen, TextChosen, Redrawn
  <2>2. PreviousChosen'
    BY DEF ComboInv, ComboShape, FieldAtRest, ChoiceStays, PreviousChosen, TextChosen, Redrawn
  <2>3. TextChosen'
    BY DEF ComboInv, ComboShape, FieldAtRest, ChoiceStays, PreviousChosen, TextChosen, Redrawn
  <2>4. QED
    BY <2>1, <2>2, <2>3
<1>15. CASE UNCHANGED <<options, chosen, field, searching, menu, typedLeft, freshLeft, rethought>>
  BY <1>15 DEF ComboInv, ChoiceStays, PreviousChosen, TextChosen
<1>16. QED
  BY <1>1, <1>2, <1>3, <1>4, <1>5, <1>6, <1>7, <1>8, <1>9, <1>10, <1>11, <1>12, <1>13, <1>14, <1>15 DEF ComboStep

\* With any options, however the text is typed, browsed and chosen: once the field
\* has been left it shows the option that the form sends (combobox.js).
THEOREM ChoicesMatch == ComboSpec => []ChoiceMatches
<1>1. ComboInit => ComboInv
  BY DEF ComboInit, ComboInv, ComboShape, FieldAtRest, ChoiceStays, PreviousChosen, TextChosen, Texts, NoMenu
<1>2. ASSUME ComboInv, [ComboNext]_comboVars PROVE ComboInv'
  BY <1>2, ComboSteps, ComboShapeKept, FieldAtRestKept, ChoiceKept DEF ComboInv
<1>3. ComboInv => ChoiceMatches
  BY DEF ComboInv, FieldAtRest, TextChosen, ChoiceMatches
<1>4. QED
  BY <1>1, <1>2, <1>3, PTL DEF ComboSpec

-----------------------------------------------------------------------------
(* The tree, for any number of refreshes and of requests that fail.        *)

TreeElement == [copy : Nat, class : {"none", "open", "closed", "leaf"}, loading : BOOLEAN, busy : BOOLEAN,
                clicked : BOOLEAN, found : BOOLEAN]
LoadRequest == [node : {"tree", "unit"}, copy : Nat, after : {"refreshed", "open", "again"}]

TreeShape ==
    /\ tree \in [TreeNodes -> TreeElement] /\ copies \in [TreeNodes -> Nat]
    /\ loads \subseteq LoadRequest
    /\ \A e \in selected : e = <<e[1], e[2]>> /\ e[1] \in TreeNodes /\ e[2] \in 1..copies[e[1]]
    /\ toSelect \subseteq TreeNodes /\ toOpen \subseteq {"unit"} /\ toLoad \subseteq {"unit"}

\* A tree that is drawn as it can be: what is not there has no marks, and a child
\* is there only with its parent.
TreeDrawable(t) ==
    /\ t \in [TreeNodes -> TreeElement]
    /\ \A n \in TreeNodes : ~There(t, n) => ~t[n].clicked /\ ~t[n].loading /\ t[n].class = "none"
    /\ There(t, "user") => There(t, "unit")

\* The requests for the children of the unit that is there.
OfUnit(t, ls) == {q \in ls : q.node = "unit" /\ q.copy = t["unit"].copy}
\* An element that loads has one request, and no children yet.
LoadsFit(t, ls) ==
    /\ TreeDrawable(t)
    /\ ls \subseteq LoadRequest
    /\ \A q \in ls : q.node = "unit" => q.copy # 0
    /\ t["unit"].loading <=> OfUnit(t, ls) # {}
    /\ \A p, q \in OfUnit(t, ls) : p = q
    /\ t["unit"].loading => ~There(t, "user")
    /\ \A q \in ls : q.node = "tree" => q.after = "refreshed"

NoneAhead ==
    /\ \A n \in TreeNodes : tree[n].copy <= copies[n]
    /\ \A q \in loads : q.node = "unit" => q.copy <= copies["unit"]

MarksShown(t, sel) == \A n \in TreeNodes : There(t, n) => (t[n].clicked <=> Element(t, n) \in sel)

\* Units that were taken out of the document are selected at most until what was
\* open before a refresh is loaded.
GhostsLeave(t, sel, ls) ==
    \/ \E q \in ls : q.after = "again"
    \/ /\ \A d, e \in sel : d[1] = "unit" /\ e[1] = "unit" => d = e
       /\ There(t, "unit") => \A e \in sel : e[1] = "unit" => e = Element(t, "unit")

NothingToLoad == There(tree, "unit") => toLoad = {}

\* What of it the page relies on comes with who asked for what and with which
\* elements are known.
TreeInv == /\ TreeShape /\ LoadsFit(tree, loads) /\ NoneAhead /\ MarksShown(tree, selected)
           /\ GhostsLeave(tree, selected, loads) /\ NothingToLoad /\ ~twice
\* What marking, opening and loading leave alone.
SameElements(t, u) ==
    \A n \in TreeNodes : u[n].copy = t[n].copy /\ u[n].clicked = t[n].clicked

LEMMA LoadingFits ==
  ASSUME NEW t, NEW ls, LoadsFit(t, ls), There(t, "unit"), ~There(t, "user"),
         NEW after \in {"refreshed", "open", "again"}
  PROVE  /\ LoadsFit(Loading(t), WithLoad(t, ls, after)) /\ SameElements(t, Loading(t))
         /\ ls \subseteq WithLoad(t, ls, after)
         /\ \A q \in WithLoad(t, ls, after) : q \in ls \/ q.copy = t["unit"].copy
<1> DEFINE u == Loading(t)
           l2 == WithLoad(t, ls, after)
           q0 == [node |-> "unit", copy |-> t["unit"].copy, after |-> after]
<1>1. u \in [TreeNodes -> TreeElement] /\ u["unit"].loading /\ u["user"] = t["user"]
      /\ u["unit"].copy = t["unit"].copy /\ u["unit"].clicked = t["unit"].clicked
      /\ u["unit"].class = t["unit"].class
  BY DEF LoadsFit, TreeDrawable, Loading, TreeNodes, TreeElement
<1>2. SameElements(t, u) /\ TreeDrawable(u)
  BY <1>1 DEF SameElements, LoadsFit, TreeDrawable, There, TreeNodes
<1>3. q0 \in LoadRequest /\ q0.node = "unit" /\ q0.copy = t["unit"].copy /\ q0.copy # 0
  BY DEF LoadsFit, TreeDrawable, There, TreeNodes, TreeElement, LoadRequest
<1>4. l2 = (IF t["unit"].loading THEN ls ELSE ls \union {q0})
  BY DEF WithLoad
<1> HIDE DEF u, q0, l2
<1>5. l2 \subseteq LoadRequest /\ \A q \in l2 : q.node = "unit" => q.copy # 0
  BY <1>3, <1>4 DEF LoadsFit
<1>6. OfUnit(u, l2) = (IF t["unit"].loading THEN OfUnit(t, ls) ELSE {q0})
  BY <1>1, <1>3, <1>4 DEF LoadsFit, OfUnit
<1>7. OfUnit(u, l2) # {} /\ \A p, q \in OfUnit(u, l2) : p = q
  BY <1>6 DEF LoadsFit
<1>8. \A q \in l2 : q.node = "tree" => q.after = "refreshed"
  BY <1>3, <1>4 DEF LoadsFit
<1>9. LoadsFit(u, l2)
  BY <1>1, <1>2, <1>5, <1>7, <1>8 DEF LoadsFit, There
<1> QED
  BY <1>2, <1>3, <1>4, <1>9 DEF u, l2

\* The same elements, differently marked.
Remarked(t, u) ==
    /\ u \in [TreeNodes -> TreeElement]
    /\ \A n \in TreeNodes : /\ u[n].copy = t[n].copy /\ u[n].loading = t[n].loading
                            /\ ~There(t, n) => ~u[n].clicked /\ u[n].class = "none"

LEMMA MarksFit ==
  ASSUME NEW t, NEW ls, NEW u, LoadsFit(t, ls), Remarked(t, u)
  PROVE  LoadsFit(u, ls)
BY DEF Remarked, LoadsFit, TreeDrawable, OfUnit, There, TreeNodes

LEMMA OpensFits ==
  ASSUME NEW t, NEW ls, LoadsFit(t, ls)
  PROVE  /\ LoadsFit(Opens(t, ls)[1], Opens(t, ls)[2]) /\ SameElements(t, Opens(t, ls)[1])
         /\ ls \subseteq Opens(t, ls)[2]
         /\ \A q \in Opens(t, ls)[2] : q \in ls \/ (There(t, "unit") /\ q.copy = t["unit"].copy)
<1>1. CASE ~There(t, "unit") \/ t["unit"].class # "closed"
  BY <1>1 DEF Opens, SameElements
<1>2. CASE There(t, "unit") /\ t["unit"].class = "closed" /\ IsLoaded(t)
  <2> DEFINE u == [t EXCEPT !["unit"].class = "open", !["unit"].busy = FALSE]
  <2>1. Opens(t, ls) = <<u, ls>>
    BY <1>2 DEF Opens
  <2>2. Remarked(t, u) /\ SameElements(t, u)
    BY <1>2, ZenonT(60) DEF LoadsFit, TreeDrawable, TreeNodes, TreeElement, SameElements, Remarked
  <2> HIDE DEF u
  <2>3. LoadsFit(u, ls)
    BY <2>2, MarksFit
  <2> QED
    BY <2>1, <2>2, <2>3
<1>3. CASE There(t, "unit") /\ t["unit"].class = "closed" /\ ~IsLoaded(t)
  <2> DEFINE w == Loading(t)
             l2 == WithLoad(t, ls, "open")
             u == [w EXCEPT !["unit"].busy = TRUE]
  <2>1. Opens(t, ls) = <<u, l2>>
    BY <1>3 DEF Opens
  <2>2. ~There(t, "user")
    BY <1>3 DEF IsLoaded, There
  <2>3. /\ LoadsFit(w, l2) /\ SameElements(t, w) /\ ls \subseteq l2
        /\ \A q \in l2 : q \in ls \/ q.copy = t["unit"].copy
    BY <1>3, <2>2, LoadingFits
  <2> HIDE DEF w, l2
  <2>4. Remarked(w, u) /\ SameElements(w, u)
    BY <2>3, ZenonT(60) DEF LoadsFit, TreeDrawable, TreeNodes, TreeElement, SameElements, Remarked
  <2> HIDE DEF u
  <2>5. LoadsFit(u, l2)
    BY <2>3, <2>4, MarksFit
  <2>6. SameElements(t, u)
    BY <2>3, <2>4 DEF SameElements
  <2> QED
    BY <1>3, <2>1, <2>3, <2>5, <2>6
<1> QED
  BY <1>1, <1>2, <1>3

LEMMA ParentsOpenFits ==
  ASSUME NEW t, NEW ls, LoadsFit(t, ls), NEW n \in TreeNodes, There(t, n)
  PROVE  /\ LoadsFit(ParentsOpen(t, n), ls) /\ SameElements(t, ParentsOpen(t, n))
         /\ \A m \in TreeNodes : ParentsOpen(t, n)[m].loading = t[m].loading
<1> DEFINE u == [t EXCEPT !["unit"].class = "open", !["unit"].busy = FALSE]
<1>1. There(t, "unit")
  BY DEF LoadsFit, TreeDrawable, TreeNodes
<1>2. Remarked(t, u) /\ SameElements(t, u)
  BY <1>1, ZenonT(60) DEF LoadsFit, TreeDrawable, TreeNodes, TreeElement, SameElements, Remarked
<1>3. ParentsOpen(t, n) \in {t, u}
  BY DEF ParentsOpen
<1> HIDE DEF u
<1>4. LoadsFit(u, ls)
  BY <1>2, MarksFit
<1> QED
  BY <1>2, <1>3, <1>4 DEF SameElements, Remarked

\* What answers may find selected.
SelectedFit(t, sel) == \A e \in sel : e = <<e[1], e[2]>> /\ e[1] \in TreeNodes
\* What a step may add to what was asked.
NewLoads(t, l1, l2) ==
    /\ l1 \subseteq l2
    /\ \A q \in l2 : q \in l1 \/ (There(t, "unit") /\ q.copy = t["unit"].copy)

LEMMA ReloadsKeep ==
  ASSUME NEW t, NEW ls, NEW back \in BOOLEAN, LoadsFit(t, ls), SelectedFit(t, selected), MarksShown(t, selected),
         toSelect \subseteq TreeNodes, toOpen \subseteq {"unit"}, toLoad \subseteq {"unit"},
         Reloads(t, ls, back)
  PROVE  /\ LoadsFit(tree', loads') /\ NewLoads(t, ls, loads')
         /\ \A n \in TreeNodes : tree'[n].copy = t[n].copy
         /\ MarksShown(tree', selected')
         /\ \A e \in selected' : e \in selected \/ \E n \in TreeNodes : There(t, n) /\ e = Element(t, n)
         /\ toLoad' \subseteq {"unit"} /\ (There(t, "unit") => toLoad' = {})
<1> DEFINE wanted == IF back THEN toLoad ELSE toLoad \union toOpen
           loading == wanted # {} /\ There(t, "unit") /\ ~IsLoaded(t)
           t1 == IF loading THEN Loading(t) ELSE t
           l1 == IF loading THEN WithLoad(t, ls, "again") ELSE ls
           opened == IF toOpen # {} THEN Opens(t1, l1) ELSE <<t1, l1>>
           again == {m \in toSelect : There(t, m)}
           shown == IF "user" \in again THEN ParentsOpen(opened[1], "user") ELSE opened[1]
           final == [n \in TreeNodes |-> [shown[n] EXCEPT !.clicked = @ \/ n \in again]]
<1>1. /\ toLoad' = (IF There(t, "unit") THEN {} ELSE wanted) /\ loads' = opened[2]
      /\ IF loading THEN tree' = opened[1] /\ UNCHANGED selected
         ELSE tree' = final /\ selected' = Reselected(t, selected)
  BY DEF Reloads
<1>2. wanted \subseteq {"unit"}
  OBVIOUS
<1>3. LoadsFit(t1, l1) /\ SameElements(t, t1) /\ NewLoads(t, ls, l1)
  <2>1. CASE loading
    <3>1. ~There(t, "user") /\ There(t, "unit")
      BY <2>1 DEF IsLoaded, There
    <3> QED
      BY <2>1, <3>1, LoadingFits DEF NewLoads
  <2>2. CASE ~loading
    BY <2>2 DEF SameElements, NewLoads
  <2> QED
    BY <2>1, <2>2
<1> HIDE DEF t1, l1
<1>4. LoadsFit(opened[1], opened[2]) /\ SameElements(t, opened[1]) /\ NewLoads(t, ls, opened[2])
  <2>1. CASE toOpen # {}
    <3>1. opened = Opens(t1, l1)
      BY <2>1
    <3>2. /\ LoadsFit(Opens(t1, l1)[1], Opens(t1, l1)[2]) /\ SameElements(t1, Opens(t1, l1)[1])
          /\ l1 \subseteq Opens(t1, l1)[2]
          /\ \A q \in Opens(t1, l1)[2] : q \in l1 \/ (There(t1, "unit") /\ q.copy = t1["unit"].copy)
      BY <1>3, OpensFits
    <3> QED
      BY <1>3, <3>1, <3>2 DEF SameElements, NewLoads, There, TreeNodes
  <2>2. CASE toOpen = {}
    BY <1>3, <2>2
  <2> QED
    BY <2>1, <2>2
<1>5. again \subseteq TreeNodes /\ \A n \in again : There(t, n)
  OBVIOUS
<1> DEFINE o == opened[1]
           l2 == opened[2]
<1> HIDE DEF opened, again, loading, wanted
<1>6. LoadsFit(shown, l2) /\ SameElements(t, shown)
  <2>1. CASE "user" \in again
    <3>1. There(o, "user")
      BY <1>4, <1>5, <2>1 DEF SameElements, There, TreeNodes
    <3> QED
      BY <1>4, <2>1, <3>1, ParentsOpenFits DEF SameElements, TreeNodes
  <2>2. CASE "user" \notin again
    BY <1>4, <2>2
  <2> QED
    BY <2>1, <2>2
<1>7. CASE loading
  <2>1. tree' = o /\ selected' = selected /\ loads' = l2
    BY <1>1, <1>7
  <2> HIDE DEF o, l2
  <2> QED
    BY <1>1, <1>2, <1>4, <2>1 DEF SameElements, MarksShown, Element, There, o, l2
<1>8. CASE ~loading
  <2>1. tree' = final /\ selected' = Reselected(t, selected) /\ loads' = l2
    BY <1>1, <1>8
  <2> HIDE DEF shown, o, l2
  <2>2. Remarked(shown, final) /\ \A n \in TreeNodes : final[n].copy = t[n].copy /\ (final[n].clicked <=> t[n].clicked \/ n \in again)
    <3>1. shown \in [TreeNodes -> TreeElement]
      BY <1>6 DEF LoadsFit, TreeDrawable
    <3>2. ASSUME NEW n \in TreeNodes
          PROVE  /\ final[n] \in TreeElement /\ final[n].copy = shown[n].copy /\ final[n].loading = shown[n].loading
                 /\ final[n].class = shown[n].class /\ (final[n].clicked <=> shown[n].clicked \/ n \in again)
      <4>1. shown[n] \in TreeElement /\ final[n] = [shown[n] EXCEPT !.clicked = @ \/ n \in again]
        BY <3>1
      <4> HIDE DEF final
      <4> QED
        BY <4>1 DEF TreeElement
    <3>3. final \in [TreeNodes -> TreeElement]
      BY <3>2
    <3> HIDE DEF final
    <3>4. ASSUME NEW n \in TreeNodes
          PROVE  /\ shown[n].copy = t[n].copy /\ (shown[n].clicked <=> t[n].clicked)
                 /\ ~There(shown, n) => n \notin again /\ ~shown[n].clicked /\ shown[n].class = "none"
      BY <1>5, <1>6 DEF SameElements, LoadsFit, TreeDrawable, There
    <3>5. Remarked(shown, final)
      BY <3>2, <3>3, <3>4 DEF Remarked
    <3> QED
      BY <3>2, <3>4, <3>5
  <2> HIDE DEF final
  <2>3. LoadsFit(final, l2)
    BY <1>6, <2>2, MarksFit
  <2>4. ASSUME NEW n \in TreeNodes, There(t, n)
        PROVE  Element(t, n) \in Reselected(t, selected) <=> Element(t, n) \in selected \/ n \in again
    BY <1>5, <2>4 DEF Reselected, Element, TreeNodes, again
  <2>5. MarksShown(tree', selected')
    BY <2>1, <2>2, <2>4 DEF MarksShown, Element, There
  <2>6. \A e \in selected' : e \in selected \/ \E n \in TreeNodes : There(t, n) /\ e = Element(t, n)
    BY <1>5, <2>1 DEF Reselected
  <2> QED
    BY <1>1, <1>2, <1>4, <2>1, <2>2, <2>3, <2>5, <2>6 DEF l2
<1> QED
  BY <1>7, <1>8

LEMMA ReloadsClear ==
  ASSUME NEW t, NEW ls, NEW back \in BOOLEAN, LoadsFit(t, ls), SelectedFit(t, selected), MarksShown(t, selected),
         toSelect \subseteq TreeNodes, toOpen \subseteq {"unit"}, toLoad \subseteq {"unit"},
         Reloads(t, ls, back),
         back => (There(t, "unit") => toLoad = {}),
         back \/ GhostsLeave(t, selected, ls) \/ ~t["unit"].loading
  PROVE  GhostsLeave(tree', selected', loads')
<1>1. NewLoads(t, ls, loads') /\ \A n \in TreeNodes : tree'[n].copy = t[n].copy
  BY ReloadsKeep
<1>2. Element(tree', "unit") = Element(t, "unit") /\ (There(tree', "unit") <=> There(t, "unit"))
  BY <1>1 DEF Element, There, TreeNodes
<1> DEFINE wanted == IF back THEN toLoad ELSE toLoad \union toOpen
           loading == wanted # {} /\ There(t, "unit") /\ ~IsLoaded(t)
<1>3. CASE ~loading
  <2>1. selected' = Reselected(t, selected)
    BY <1>3 DEF Reloads
  <2>2. \A e \in selected' : e[1] = "unit" => e = Element(t, "unit")
    BY <2>1 DEF Reselected, Element, TreeNodes
  <2> QED
    BY <1>2, <2>2 DEF GhostsLeave
<1>4. CASE loading
  <2>1. ~back
    BY <1>4
  <2>2. selected' = selected
    BY <1>4 DEF Reloads
  <2>3. CASE GhostsLeave(t, selected, ls)
    BY <1>1, <1>2, <2>2, <2>3 DEF GhostsLeave, NewLoads
  <2>4. CASE ~t["unit"].loading
    <3> DEFINE t1 == Loading(t)
               l1 == WithLoad(t, ls, "again")
               opened == IF toOpen # {} THEN Opens(t1, l1) ELSE <<t1, l1>>
               q0 == [node |-> "unit", copy |-> t["unit"].copy, after |-> "again"]
    <3>1. loads' = opened[2]
      BY <1>4 DEF Reloads
    <3>2. q0 \in l1 /\ q0.after = "again"
      BY <2>4 DEF WithLoad
    <3>3. LoadsFit(t1, l1)
      BY <1>4, LoadingFits DEF IsLoaded, There
    <3> HIDE DEF t1, l1, q0
    <3>4. l1 \subseteq Opens(t1, l1)[2]
      BY <3>3, OpensFits
    <3>5. l1 \subseteq opened[2]
      BY <3>4
    <3> HIDE DEF opened
    <3>6. q0 \in loads'
      BY <3>1, <3>2, <3>5
    <3> QED
      BY <3>2, <3>6 DEF GhostsLeave
  <2> QED
    BY <2>1, <2>3, <2>4
<1> QED
  BY <1>3, <1>4

LEMMA GoesKeep ==
  ASSUME NEW q \in LoadRequest, NEW t, NEW ls, NEW ok \in BOOLEAN, Goes(q, t, ls, ok),
         LoadsFit(t, ls), SelectedFit(t, selected), MarksShown(t, selected),
         toSelect \subseteq TreeNodes, toOpen \subseteq {"unit"}, toLoad \subseteq {"unit"},
         (q.after = "refreshed" /\ ok) \/ (There(t, "unit") => toLoad = {}),
         q.after # "again" => GhostsLeave(t, selected, ls) \/ (q.after = "refreshed" /\ ok /\ ~t["unit"].loading)
  PROVE  /\ LoadsFit(tree', loads') /\ NewLoads(t, ls, loads')
         /\ \A n \in TreeNodes : tree'[n].copy = t[n].copy
         /\ MarksShown(tree', selected')
         /\ \A e \in selected' : e \in selected \/ \E n \in TreeNodes : There(t, n) /\ e = Element(t, n)
         /\ toLoad' \subseteq {"unit"} /\ (There(t, "unit") => toLoad' = {})
         /\ GhostsLeave(tree', selected', loads')
<1>1. CASE q.after = "again" \/ (q.after = "refreshed" /\ ok)
  <2>1. Reloads(t, ls, q.after = "again") /\ (q.after = "again") \in BOOLEAN
    BY <1>1 DEF Goes
  <2>2. (q.after = "again") => (There(t, "unit") => toLoad = {})
    OBVIOUS
  <2>3. (q.after = "again") \/ GhostsLeave(t, selected, ls) \/ ~t["unit"].loading
    BY <1>1
  <2>4. GhostsLeave(tree', selected', loads')
    BY <2>1, <2>2, <2>3, ReloadsClear
  <2> QED
    BY <2>1, <2>4, ReloadsKeep
<1>2. CASE ~(q.after = "again" \/ (q.after = "refreshed" /\ ok))
  <2> DEFINE next == IF ok THEN Opens(t, ls) ELSE <<t, ls>>
  <2>1. tree' = next[1] /\ loads' = next[2] /\ UNCHANGED <<selected, toLoad>>
    BY <1>2 DEF Goes
  <2>2. LoadsFit(next[1], next[2]) /\ SameElements(t, next[1]) /\ NewLoads(t, ls, next[2])
    BY OpensFits DEF NewLoads, SameElements
  <2> HIDE DEF next
  <2>3. LoadsFit(tree', loads') /\ SameElements(t, tree') /\ NewLoads(t, ls, loads')
    BY <2>1, <2>2
  <2>4. MarksShown(tree', selected') /\ Element(tree', "unit") = Element(t, "unit")
        /\ (There(tree', "unit") <=> There(t, "unit"))
    BY <2>1, <2>3 DEF SameElements, MarksShown, Element, There, TreeNodes
  <2>5. GhostsLeave(t, selected, ls)
    BY <1>2 DEF LoadRequest
  <2>6. GhostsLeave(tree', selected', loads')
    BY <2>1, <2>3, <2>4, <2>5 DEF GhostsLeave, NewLoads
  <2> QED
    BY <1>2, <2>1, <2>3, <2>4, <2>6 DEF SameElements
<1> QED
  BY <1>1, <1>2

\* An answer puts elements nobody knew into the document.
LEMMA FilledFits ==
  ASSUME TreeInv, NEW q \in loads, Here(q)
  PROVE  LET n == IF q.node = "tree" THEN "unit" ELSE "user"
             t == Filled(q, n)
         IN  /\ LoadsFit(t, loads \ {q}) /\ n \in TreeNodes /\ There(t, "unit") /\ ~t["unit"].loading
             /\ t[n].copy = copies[n] + 1 /\ ~t[n].clicked
             /\ \A m \in TreeNodes : m # n => IF q.node = "tree" THEN t[m] = Absent
                                             ELSE t[m].copy = tree[m].copy /\ t[m].clicked = tree[m].clicked
<1> DEFINE new(n) == [Absent EXCEPT !.copy = copies[n] + 1, !.class = IF n = "unit" THEN "closed" ELSE "leaf"]
           ls == loads \ {q}
<1>1. Absent \in TreeElement /\ Absent.copy = 0 /\ ~Absent.clicked /\ ~Absent.loading /\ Absent.class = "none"
  BY DEF TreeElement, Absent
<1>2. \A n \in TreeNodes : /\ new(n) \in TreeElement /\ new(n).copy = copies[n] + 1 /\ new(n).copy # 0
                           /\ ~new(n).clicked /\ ~new(n).loading
  <2> SUFFICES ASSUME NEW n \in TreeNodes
               PROVE  /\ new(n) \in TreeElement /\ new(n).copy = copies[n] + 1 /\ new(n).copy # 0
                      /\ ~new(n).clicked /\ ~new(n).loading
    OBVIOUS
  <2> DEFINE k == copies[n] + 1
             c == IF n = "unit" THEN "closed" ELSE "leaf"
  <2>1. k \in Nat /\ k # 0 /\ c \in {"open", "closed", "leaf"}
    BY DEF TreeInv, TreeShape
  <2>2. new(n) = [Absent EXCEPT !.copy = k, !.class = c]
    OBVIOUS
  <2> HIDE DEF k, c, new
  <2>3. new(n) \in TreeElement /\ new(n).copy = k /\ ~new(n).clicked /\ ~new(n).loading
    BY <1>1, <2>1, <2>2 DEF TreeElement
  <2> QED
    BY <2>1, <2>3 DEF k
<1>3. /\ copies["unit"] \in Nat /\ ls \subseteq LoadRequest /\ \A p \in loads : p.copy \in Nat
      /\ \A p \in ls : p.node = "unit" => p.copy # 0 /\ p.copy <= copies["unit"]
      /\ \A p \in ls : p.node = "tree" => p.after = "refreshed"
  BY DEF TreeInv, TreeShape, NoneAhead, LoadsFit, LoadRequest, TreeNodes
<1>4. CASE q.node = "tree"
  <2> DEFINE t == Filled(q, "unit")
  <2>1. t = [m \in TreeNodes |-> IF m = "unit" THEN new("unit") ELSE Absent]
    BY <1>4 DEF Filled, TreeNodes
  <2> HIDE DEF new, t
  <2>2. /\ t \in [TreeNodes -> TreeElement] /\ t["unit"] = new("unit") /\ t["user"] = Absent
    BY <1>1, <1>2, <2>1 DEF TreeNodes
  <2>3. TreeDrawable(t) /\ t["unit"].copy = copies["unit"] + 1 /\ ~t["unit"].loading
    BY <1>1, <1>2, <2>2 DEF TreeDrawable, There, TreeNodes
  <2>4. OfUnit(t, ls) = {}
    BY <1>3, <2>3 DEF OfUnit
  <2>5. LoadsFit(t, ls)
    BY <1>3, <2>3, <2>4 DEF LoadsFit
  <2> QED
    BY <1>2, <1>4, <2>2, <2>3, <2>5 DEF There, TreeNodes, t
<1>5. CASE q.node = "unit"
  <2> DEFINE t == Filled(q, "user")
  <2>1. t = [tree EXCEPT !["user"] = new("user"), !["unit"].loading = FALSE, !["unit"].busy = FALSE]
    BY <1>5 DEF Filled
  <2>2. tree \in [TreeNodes -> TreeElement] /\ There(tree, "unit")
    BY <1>5 DEF Here, TreeInv, TreeShape
  <2> HIDE DEF new
  <2>3. /\ t \in [TreeNodes -> TreeElement] /\ t["user"] = new("user")
        /\ t["unit"].copy = tree["unit"].copy /\ t["unit"].clicked = tree["unit"].clicked
        /\ ~t["unit"].loading
    <3> DEFINE w == [tree EXCEPT !["user"] = new("user")]
    <3>1. w \in [TreeNodes -> TreeElement] /\ w["user"] = new("user") /\ w["unit"] = tree["unit"]
      BY <1>2, <2>2 DEF TreeNodes
    <3>2. t = [w EXCEPT !["unit"].loading = FALSE, !["unit"].busy = FALSE]
      BY <2>1
    <3> HIDE DEF t, w
    <3> QED
      BY <3>1, <3>2 DEF TreeNodes, TreeElement
  <2> HIDE DEF t
  <2>4. TreeDrawable(t)
    BY <1>2, <2>2, <2>3 DEF TreeDrawable, There, TreeNodes
  <2>5. OfUnit(t, ls) = {}
    BY <1>5, <2>2, <2>3 DEF OfUnit, Here, TreeInv, LoadsFit
  <2>6. LoadsFit(t, ls)
    BY <1>3, <2>3, <2>4, <2>5 DEF LoadsFit
  <2> QED
    BY <1>2, <1>5, <2>2, <2>3, <2>6 DEF There, TreeNodes, t
<1> QED
  BY <1>4, <1>5 DEF TreeInv, TreeShape, LoadRequest

\* A step whose tree, requests and selection fit: the invariant again.
LEMMA TreeFits ==
  ASSUME TreeInv, NEW t, NEW ls, ls \subseteq loads, NewLoads(t, ls, loads'), LoadsFit(tree', loads'),
         copies' \in [TreeNodes -> Nat],
         \A m \in TreeNodes : /\ t[m].copy <= copies'[m] /\ copies[m] <= copies'[m] /\ tree'[m].copy = t[m].copy
                              /\ t[m].copy \in Nat,
         MarksShown(tree', selected'),
         \A e \in selected' : e \in selected \/ \E m \in TreeNodes : There(t, m) /\ e = Element(t, m),
         toLoad' \subseteq {"unit"}, There(t, "unit") => toLoad' = {},
         toSelect' \subseteq TreeNodes, toOpen' \subseteq {"unit"},
         GhostsLeave(tree', selected', loads'), ~twice'
  PROVE  TreeInv'
<1>1. \A e \in selected' : e = <<e[1], e[2]>> /\ e[1] \in TreeNodes /\ e[2] \in 1..copies'[e[1]]
  <2> SUFFICES ASSUME NEW e \in selected'
               PROVE  e = <<e[1], e[2]>> /\ e[1] \in TreeNodes /\ e[2] \in 1..copies'[e[1]]
    OBVIOUS
  <2>1. CASE e \in selected
    <3>1. e = <<e[1], e[2]>> /\ e[1] \in TreeNodes /\ e[2] \in 1..copies[e[1]]
          /\ copies[e[1]] \in Nat /\ copies'[e[1]] \in Nat /\ copies[e[1]] <= copies'[e[1]]
      BY <2>1 DEF TreeInv, TreeShape
    <3> QED
      BY <3>1
  <2>2. ASSUME NEW m \in TreeNodes, There(t, m), e = Element(t, m)
        PROVE  e = <<e[1], e[2]>> /\ e[1] \in TreeNodes /\ e[2] \in 1..copies'[e[1]]
    <3>1. e[1] = m /\ e[2] = t[m].copy /\ e = <<m, t[m].copy>> /\ copies'[m] \in Nat
      BY <2>2 DEF Element
    <3> QED
      BY <2>2, <3>1 DEF There
  <2> QED
    BY <2>1, <2>2
<1>2. TreeShape'
  BY <1>1 DEF TreeShape, LoadsFit, TreeDrawable
<1>3. NoneAhead'
  <2>1. \A n \in TreeNodes : tree'[n].copy <= copies'[n]
    OBVIOUS
  <2>2. ASSUME NEW q \in loads', q.node = "unit"
        PROVE  q.copy <= copies'["unit"]
    <3>1. q \in loads \/ q.copy = t["unit"].copy
      BY DEF NewLoads
    <3>2. /\ copies["unit"] \in Nat /\ copies'["unit"] \in Nat /\ copies["unit"] <= copies'["unit"]
          /\ t["unit"].copy <= copies'["unit"]
      BY DEF TreeInv, TreeShape, TreeNodes
    <3>3. q \in loads => q.copy \in Nat /\ q.copy <= copies["unit"]
      BY <2>2 DEF TreeInv, TreeShape, NoneAhead, LoadRequest
    <3> QED
      BY <3>1, <3>2, <3>3
  <2> QED
    BY <2>1, <2>2 DEF NoneAhead
<1>4. NothingToLoad'
  BY DEF NothingToLoad, There, TreeNodes
<1> QED
  BY <1>2, <1>3, <1>4 DEF TreeInv

LEMMA TreeAnswers ==
  ASSUME TreeInv, NEW q, TreeLoaded(q)
  PROVE  TreeInv'
<1> DEFINE n == IF q.node = "tree" THEN "unit" ELSE "user"
           t == IF Here(q) THEN Filled(q, n) ELSE tree
           ls == loads \ {q}
<1>1. /\ q \in loads /\ q \in LoadRequest
      /\ copies' = (IF Here(q) THEN [copies EXCEPT ![n] = @ + 1] ELSE copies)
      /\ twice' = (twice \/ (Here(q) /\ q.node = "unit" /\ There(tree, "user")))
      /\ Goes(q, t, ls, TRUE) /\ toSelect' = toSelect /\ toOpen' = toOpen
  BY DEF TreeLoaded, TreeInv, TreeShape
<1>2. ~twice'
  BY <1>1 DEF TreeInv, LoadsFit, OfUnit, Here
<1>3. /\ copies \in [TreeNodes -> Nat] /\ tree \in [TreeNodes -> TreeElement]
      /\ \A m \in TreeNodes : tree[m].copy <= copies[m] /\ tree[m].copy \in Nat
  BY DEF TreeInv, TreeShape, NoneAhead, TreeElement
<1>4. CASE Here(q)
  <2>1. /\ LoadsFit(t, ls) /\ n \in TreeNodes /\ There(t, "unit") /\ ~t["unit"].loading
        /\ t[n].copy = copies[n] + 1 /\ ~t[n].clicked
        /\ \A m \in TreeNodes : m # n => IF q.node = "tree" THEN t[m] = Absent
                                        ELSE t[m].copy = tree[m].copy /\ t[m].clicked = tree[m].clicked
    BY <1>1, <1>4, FilledFits
  <2>2. /\ copies' \in [TreeNodes -> Nat]
        /\ \A m \in TreeNodes : t[m].copy <= copies'[m] /\ copies[m] <= copies'[m] /\ t[m].copy \in Nat
    BY <1>1, <1>3, <1>4, <2>1 DEF Absent
  <2>3. MarksShown(t, selected)
    <3>1. \A m \in TreeNodes : (\A k \in TreeNodes : m # k => ~(Element(t, m) \in {Element(t, k)}))
      BY DEF Element
    <3>2. Element(t, n) \notin selected
      <4>1. Element(t, n)[1] = n /\ Element(t, n)[2] = copies[n] + 1 /\ copies[n] \in Nat
        BY <1>3, <2>1 DEF Element
      <4> QED
        BY <2>1, <4>1 DEF TreeInv, TreeShape
    <3>3. ASSUME NEW m \in TreeNodes, m # n, There(t, m)
          PROVE  t[m].clicked <=> Element(t, m) \in selected
      BY <2>1, <3>3 DEF TreeInv, MarksShown, Element, There, Absent
    <3> QED
      BY <2>1, <3>2, <3>3 DEF MarksShown
  <2>4. q.after # "refreshed" => q.node = "unit"
    BY <1>1 DEF TreeInv, LoadsFit, LoadRequest
  <2>5. q.after # "refreshed" => toLoad = {}
    BY <1>4, <2>4 DEF Here, TreeInv, NothingToLoad
  <2>6. ASSUME q.after # "again", q.after # "refreshed"
        PROVE  GhostsLeave(t, selected, ls)
    <3>1. q.node = "unit" /\ There(tree, "unit")
      BY <1>4, <2>4, <2>6 DEF Here
    <3>2. Element(t, "unit") = Element(tree, "unit") /\ (There(t, "unit") <=> There(tree, "unit"))
      BY <2>1, <3>1 DEF Element, There, TreeNodes
    <3> QED
      BY <2>6, <3>2 DEF TreeInv, GhostsLeave
  <2>7. SelectedFit(t, selected) /\ toSelect \subseteq TreeNodes /\ toOpen \subseteq {"unit"} /\ toLoad \subseteq {"unit"}
    BY DEF TreeInv, TreeShape, SelectedFit
  <2> HIDE DEF t, ls
  <2>8. /\ LoadsFit(tree', loads') /\ NewLoads(t, ls, loads')
        /\ \A m \in TreeNodes : tree'[m].copy = t[m].copy
        /\ MarksShown(tree', selected')
        /\ \A e \in selected' : e \in selected \/ \E m \in TreeNodes : There(t, m) /\ e = Element(t, m)
        /\ toLoad' \subseteq {"unit"} /\ (There(t, "unit") => toLoad' = {})
        /\ GhostsLeave(tree', selected', loads')
    BY <1>1, <2>1, <2>3, <2>5, <2>6, <2>7, GoesKeep
  <2>9. ls \subseteq loads
    BY DEF ls
  <2> QED
    BY <1>1, <1>2, <2>2, <2>7, <2>8, <2>9, TreeFits
<1>5. CASE ~Here(q)
  <2>1. t = tree /\ copies' = copies
    BY <1>1, <1>5
  <2>2. LoadsFit(tree, ls)
    BY <1>5 DEF TreeInv, LoadsFit, OfUnit, Here, There
  <2>3. q.node = "unit" /\ (q.after # "again" => GhostsLeave(tree, selected, ls))
    BY <1>1, <1>5 DEF Here, TreeInv, TreeShape, LoadRequest, GhostsLeave
  <2>4. SelectedFit(tree, selected) /\ toSelect \subseteq TreeNodes /\ toOpen \subseteq {"unit"} /\ toLoad \subseteq {"unit"}
        /\ MarksShown(tree, selected) /\ (There(tree, "unit") => toLoad = {})
    BY DEF TreeInv, TreeShape, SelectedFit, NothingToLoad
  <2>5. ls \subseteq loads /\ Goes(q, tree, ls, TRUE)
    BY <1>1, <2>1
  <2> HIDE DEF t, ls
  <2>6. /\ LoadsFit(tree', loads') /\ NewLoads(tree, ls, loads')
        /\ \A m \in TreeNodes : tree'[m].copy = tree[m].copy
        /\ MarksShown(tree', selected')
        /\ \A e \in selected' : e \in selected \/ \E m \in TreeNodes : There(tree, m) /\ e = Element(tree, m)
        /\ toLoad' \subseteq {"unit"} /\ (There(tree, "unit") => toLoad' = {})
        /\ GhostsLeave(tree', selected', loads')
    BY <1>1, <2>2, <2>3, <2>4, <2>5, GoesKeep
  <2>7. \A m \in TreeNodes : copies[m] \in Nat /\ copies[m] <= copies[m]
    BY <1>3
  <2> QED
    BY <1>1, <1>2, <1>3, <2>1, <2>4, <2>5, <2>6, <2>7, TreeFits
<1> QED
  BY <1>4, <1>5

LEMMA TreeFails ==
  ASSUME TreeInv, NEW q, LoadFails(q)
  PROVE  TreeInv'
<1> DEFINE settled == [tree EXCEPT !["unit"].loading = FALSE, !["unit"].busy = FALSE]
           t == IF Here(q) /\ q.node = "unit" THEN settled ELSE tree
           ls == loads \ {q}
<1>1. /\ q \in loads /\ q \in LoadRequest
      /\ Goes(q, t, ls, FALSE) /\ toSelect' = toSelect /\ toOpen' = toOpen /\ copies' = copies /\ twice' = twice
  BY DEF LoadFails, TreeInv, TreeShape
<1>2. /\ copies \in [TreeNodes -> Nat] /\ tree \in [TreeNodes -> TreeElement] /\ ~twice
      /\ \A m \in TreeNodes : tree[m].copy <= copies[m] /\ tree[m].copy \in Nat
  BY DEF TreeInv, TreeShape, NoneAhead, TreeElement
<1>3. /\ LoadsFit(t, ls) /\ SameElements(tree, t)
  <2>1. CASE Here(q) /\ q.node = "unit"
    <3>1. t = settled
      BY <2>1
    <3>2. There(tree, "unit") /\ OfUnit(tree, ls) = {}
      BY <1>1, <2>1 DEF Here, OfUnit, TreeInv, LoadsFit
    <3>3. /\ settled \in [TreeNodes -> TreeElement] /\ SameElements(tree, settled)
          /\ settled["user"] = tree["user"] /\ ~settled["unit"].loading
      BY <1>2 DEF SameElements, TreeNodes, TreeElement
    <3> HIDE DEF t, settled
    <3>4. TreeDrawable(settled)
      BY <3>2, <3>3 DEF TreeInv, LoadsFit, TreeDrawable, SameElements, There, TreeNodes
    <3>5. OfUnit(settled, ls) = {}
      BY <3>2, <3>3 DEF OfUnit, SameElements, TreeNodes
    <3>6. LoadsFit(settled, ls)
      BY <3>3, <3>4, <3>5 DEF TreeInv, LoadsFit
    <3> QED
      BY <3>1, <3>3, <3>6
  <2>2. CASE q.node # "unit"
    BY <1>1, <2>2 DEF TreeInv, LoadsFit, OfUnit, SameElements
  <2>3. CASE q.node = "unit" /\ ~Here(q)
    BY <1>1, <2>3 DEF TreeInv, LoadsFit, OfUnit, SameElements, Here, There
  <2> QED
    BY <2>1, <2>2, <2>3
<1> HIDE DEF t
<1>4. Element(t, "unit") = Element(tree, "unit") /\ (There(t, "unit") <=> There(tree, "unit"))
  BY <1>3 DEF SameElements, Element, There, TreeNodes
<1>5. MarksShown(t, selected)
  BY <1>3 DEF TreeInv, MarksShown, SameElements, Element, There
<1>6. q.after # "again" => GhostsLeave(t, selected, ls)
  BY <1>1, <1>4 DEF TreeInv, GhostsLeave
<1>7. SelectedFit(t, selected) /\ toSelect \subseteq TreeNodes /\ toOpen \subseteq {"unit"} /\ toLoad \subseteq {"unit"}
      /\ (There(t, "unit") => toLoad = {}) /\ ls \subseteq loads
  BY <1>4 DEF TreeInv, TreeShape, SelectedFit, NothingToLoad
<1> HIDE DEF ls
<1>8. /\ LoadsFit(tree', loads') /\ NewLoads(t, ls, loads')
      /\ \A m \in TreeNodes : tree'[m].copy = t[m].copy
      /\ MarksShown(tree', selected')
      /\ \A e \in selected' : e \in selected \/ \E m \in TreeNodes : There(t, m) /\ e = Element(t, m)
      /\ toLoad' \subseteq {"unit"} /\ (There(t, "unit") => toLoad' = {})
      /\ GhostsLeave(tree', selected', loads')
  BY <1>1, <1>3, <1>5, <1>6, <1>7, GoesKeep
<1>9. \A m \in TreeNodes : t[m].copy <= copies'[m] /\ copies[m] <= copies'[m] /\ t[m].copy \in Nat
  BY <1>1, <1>2, <1>3 DEF SameElements
<1> QED
  BY <1>1, <1>2, <1>7, <1>8, <1>9, TreeFits

\* What is selected by hand, and what only draws the tree anew.
LEMMA TreeDrawn ==
  ASSUME TreeInv, LoadsFit(tree', loads'), NewLoads(tree, loads, loads'), UNCHANGED <<toLoad, copies, twice>>,
         \A m \in TreeNodes : tree'[m].copy = tree[m].copy,
         MarksShown(tree', selected'),
         \A e \in selected' : e \in selected \/ \E m \in TreeNodes : There(tree, m) /\ e = Element(tree, m),
         toSelect' \subseteq TreeNodes, toOpen' \subseteq {"unit"},
         GhostsLeave(tree', selected', loads')
  PROVE  TreeInv'
<1>1. /\ copies \in [TreeNodes -> Nat] /\ loads \subseteq loads /\ ~twice'
      /\ toLoad' \subseteq {"unit"} /\ (There(tree, "unit") => toLoad' = {})
      /\ \A m \in TreeNodes : /\ tree[m].copy <= copies'[m] /\ copies[m] <= copies'[m] /\ tree[m].copy \in Nat
  BY DEF TreeInv, TreeShape, NoneAhead, TreeElement, NothingToLoad
<1> QED
  BY <1>1, TreeFits

\* The steps, each on its own.
LEMMA NewLoadsNone == ASSUME NEW t, NEW ls PROVE NewLoads(t, ls, ls)
BY DEF NewLoads

LEMMA TreeSelects == ASSUME TreeInv, NEW n \in TreeNodes, Select(n) PROVE TreeInv'
<1> DEFINE c == Clicked(tree, {n})
<1>1. /\ There(tree, n) /\ tree' = ParentsOpen(c, n) /\ selected' = {Element(tree, n)}
      /\ UNCHANGED <<toSelect, toOpen, toLoad, loads, copies, twice>>
  BY DEF Select
<1>2. Remarked(tree, c) /\ \A m \in TreeNodes : c[m].copy = tree[m].copy /\ (c[m].clicked <=> m = n)
  <2>1. tree \in [TreeNodes -> TreeElement]
    BY DEF TreeInv, TreeShape
  <2>2. c = [m \in TreeNodes |-> [tree[m] EXCEPT !.clicked = m \in {n}]]
    BY DEF Clicked
  <2>3. ASSUME NEW m \in TreeNodes
        PROVE  /\ c[m] \in TreeElement /\ c[m].copy = tree[m].copy /\ c[m].loading = tree[m].loading
               /\ c[m].class = tree[m].class /\ (c[m].clicked <=> m = n)
    <3> DEFINE b == m \in {n}
    <3>1. c[m] = [tree[m] EXCEPT !.clicked = b] /\ tree[m] \in TreeElement
      BY <2>1, <2>2
    <3>2. b \in BOOLEAN /\ (b <=> m = n)
      OBVIOUS
    <3> HIDE DEF c, b
    <3> QED
      BY <3>1, <3>2 DEF TreeElement
  <2>4. c \in [TreeNodes -> TreeElement]
    BY <2>2, <2>3
  <2> HIDE DEF c
  <2> QED
    BY <1>1, <2>3, <2>4 DEF Remarked, TreeInv, LoadsFit, TreeDrawable
<1> HIDE DEF c
<1>3. LoadsFit(c, loads)
  BY <1>2, MarksFit DEF TreeInv
<1>4. LoadsFit(tree', loads') /\ SameElements(c, tree')
  BY <1>1, <1>2, <1>3, ParentsOpenFits DEF There
<1>5. \A m \in TreeNodes : tree'[m].copy = tree[m].copy /\ (tree'[m].clicked <=> m = n)
  BY <1>2, <1>4 DEF SameElements
<1>6. MarksShown(tree', selected')
  BY <1>1, <1>5 DEF MarksShown, Element
<1>7. GhostsLeave(tree', selected', loads')
  BY <1>1, <1>5 DEF GhostsLeave, Element, TreeNodes
<1> QED
  BY <1>1, <1>4, <1>5, <1>6, <1>7, NewLoadsNone, TreeDrawn DEF TreeInv, TreeShape

LEMMA TreeSelectsAlso == ASSUME TreeInv, NEW n \in TreeNodes, SelectAlso(n) PROVE TreeInv'
<1>1. There(tree, n) /\ UNCHANGED <<toSelect, toOpen, toLoad, loads, copies, twice>>
  BY DEF SelectAlso
<1>2. tree \in [TreeNodes -> TreeElement] /\ toSelect' \subseteq TreeNodes /\ toOpen' \subseteq {"unit"}
      /\ LoadsFit(tree, loads) /\ MarksShown(tree, selected)
  BY <1>1 DEF TreeInv, TreeShape
<1>3. ASSUME NEW b \in BOOLEAN
      PROVE  LET c == [tree EXCEPT ![n].clicked = b]
             IN  /\ LoadsFit(c, loads)
                 /\ \A m \in TreeNodes : c[m].copy = tree[m].copy /\ (c[m].clicked <=> IF m = n THEN b ELSE tree[m].clicked)
  <2> DEFINE c == [tree EXCEPT ![n].clicked = b]
  <2>1. c \in [TreeNodes -> TreeElement]
        /\ \A m \in TreeNodes : /\ c[m].copy = tree[m].copy /\ c[m].loading = tree[m].loading /\ c[m].class = tree[m].class
                               /\ (c[m].clicked <=> IF m = n THEN b ELSE tree[m].clicked)
    BY <1>2 DEF TreeElement
  <2> HIDE DEF c
  <2>2. Remarked(tree, c)
    BY <1>1, <1>2, <2>1 DEF Remarked, LoadsFit, TreeDrawable
  <2>3. LoadsFit(c, loads)
    BY <1>2, <2>2, MarksFit
  <2> QED
    BY <2>1, <2>3 DEF c
<1>4. CASE Element(tree, n) \in selected
  <2> DEFINE c == [tree EXCEPT ![n].clicked = FALSE]
  <2>1. tree' = c /\ selected' = selected \ {Element(tree, n)}
    BY <1>4 DEF SelectAlso
  <2>2. LoadsFit(c, loads) /\ \A m \in TreeNodes : c[m].copy = tree[m].copy /\ (c[m].clicked <=> m # n /\ tree[m].clicked)
    BY <1>3
  <2> HIDE DEF c
  <2>3. MarksShown(tree', selected')
    BY <1>2, <2>1, <2>2 DEF MarksShown, Element, There
  <2>4. GhostsLeave(tree', selected', loads')
    BY <1>1, <2>1, <2>2 DEF TreeInv, GhostsLeave, Element, There, TreeNodes
  <2> QED
    BY <1>1, <1>2, <2>1, <2>2, <2>3, <2>4, NewLoadsNone, TreeDrawn
<1>5. CASE Element(tree, n) \notin selected
  <2> DEFINE c == [tree EXCEPT ![n].clicked = TRUE]
  <2>1. tree' = ParentsOpen(c, n) /\ selected' = selected \union {Element(tree, n)}
    BY <1>5 DEF SelectAlso
  <2>2. LoadsFit(c, loads) /\ \A m \in TreeNodes : c[m].copy = tree[m].copy /\ (c[m].clicked <=> m = n \/ tree[m].clicked)
    BY <1>3
  <2> HIDE DEF c
  <2>3. LoadsFit(tree', loads') /\ SameElements(c, tree')
    BY <1>1, <2>1, <2>2, ParentsOpenFits DEF There
  <2>4. \A m \in TreeNodes : tree'[m].copy = tree[m].copy /\ (tree'[m].clicked <=> m = n \/ tree[m].clicked)
    BY <2>2, <2>3 DEF SameElements
  <2>5. MarksShown(tree', selected')
    BY <1>2, <2>1, <2>4 DEF MarksShown, Element, There
  <2>6. GhostsLeave(tree', selected', loads')
    BY <1>1, <2>1, <2>4 DEF TreeInv, GhostsLeave, LoadsFit, TreeDrawable, Element, There, TreeNodes
  <2> QED
    BY <1>1, <1>2, <2>1, <2>3, <2>4, <2>5, <2>6, NewLoadsNone, TreeDrawn
<1> QED
  BY <1>4, <1>5

LEMMA TreeOpens == ASSUME TreeInv, OpenNode PROVE TreeInv'
<1>1. tree' = Opens(tree, loads)[1] /\ loads' = Opens(tree, loads)[2]
      /\ UNCHANGED <<selected, toSelect, toOpen, toLoad, copies, twice>>
  BY DEF OpenNode
<1>2. LoadsFit(tree', loads') /\ SameElements(tree, tree') /\ NewLoads(tree, loads, loads')
  BY <1>1, OpensFits DEF TreeInv, NewLoads
<1>3. MarksShown(tree', selected')
  BY <1>1, <1>2 DEF TreeInv, MarksShown, SameElements, Element, There
<1>4. GhostsLeave(tree', selected', loads')
  BY <1>1, <1>2 DEF TreeInv, GhostsLeave, SameElements, NewLoads, Element, There, TreeNodes
<1> QED
  BY <1>1, <1>2, <1>3, <1>4, TreeDrawn DEF TreeInv, TreeShape, SameElements

LEMMA TreeCloses == ASSUME TreeInv, CloseNode PROVE TreeInv'
<1> DEFINE gives == tree["user"].clicked
           ut == [tree EXCEPT !["unit"].class = "closed", !["unit"].clicked = @ \/ gives]
           us == [ut EXCEPT !["user"].clicked = FALSE]
<1>1. /\ tree["unit"].class = "open" /\ tree' = us
      /\ selected' = (IF gives THEN (selected \ {Element(tree, "user")}) \union {Element(tree, "unit")} ELSE selected)
      /\ UNCHANGED <<toSelect, toOpen, toLoad, loads, copies, twice>>
  BY DEF CloseNode
<1>2. /\ tree \in [TreeNodes -> TreeElement] /\ toSelect' \subseteq TreeNodes /\ toOpen' \subseteq {"unit"}
      /\ LoadsFit(tree, loads) /\ MarksShown(tree, selected) /\ There(tree, "unit")
      /\ (gives => There(tree, "user"))
  BY <1>1 DEF TreeInv, TreeShape, LoadsFit, TreeDrawable, TreeNodes
<1>3. /\ us \in [TreeNodes -> TreeElement]
      /\ \A m \in TreeNodes : us[m].copy = tree[m].copy /\ us[m].loading = tree[m].loading
      /\ us["user"].class = tree["user"].class /\ ~us["user"].clicked
      /\ us["unit"].class = "closed" /\ (us["unit"].clicked <=> tree["unit"].clicked \/ gives)
  <2>1. ut \in [TreeNodes -> TreeElement] /\ ut["user"] = tree["user"]
        /\ ut["unit"].copy = tree["unit"].copy /\ ut["unit"].loading = tree["unit"].loading
        /\ ut["unit"].class = "closed" /\ (ut["unit"].clicked <=> tree["unit"].clicked \/ gives)
    BY <1>2, ZenonT(60) DEF TreeNodes, TreeElement
  <2> HIDE DEF ut
  <2> QED
    BY <2>1 DEF TreeNodes, TreeElement
<1> HIDE DEF us
<1>4. Remarked(tree, us)
  BY <1>2, <1>3 DEF Remarked, LoadsFit, TreeDrawable, TreeNodes
<1>5. LoadsFit(us, loads)
  BY <1>2, <1>4, MarksFit
<1>6. MarksShown(tree', selected')
  BY <1>1, <1>2, <1>3 DEF MarksShown, Element, There, TreeNodes
<1>7. GhostsLeave(tree', selected', loads')
  BY <1>1, <1>2, <1>3 DEF TreeInv, GhostsLeave, Element, There, TreeNodes
<1>8. \A e \in selected' : e \in selected \/ \E m \in TreeNodes : There(tree, m) /\ e = Element(tree, m)
  BY <1>1, <1>2 DEF TreeNodes
<1> QED
  BY <1>1, <1>2, <1>3, <1>5, <1>6, <1>7, <1>8, NewLoadsNone, TreeDrawn

LEMMA TreeSearched == ASSUME TreeInv, NEW ns, SearchTree(ns) PROVE TreeInv'
<1> DEFINE t == IF "user" \in ns /\ There(tree, "user") THEN ParentsOpen(tree, "user") ELSE tree
<1>1. /\ tree' = [n \in TreeNodes |-> [t[n] EXCEPT !.found = n \in ns /\ There(tree, n)]]
      /\ UNCHANGED <<selected, toSelect, toOpen, toLoad, loads, copies, twice>>
  BY DEF SearchTree
<1>2. LoadsFit(t, loads) /\ SameElements(tree, t)
  BY ParentsOpenFits DEF TreeInv, SameElements, TreeNodes
<1> HIDE DEF t
<1>3. ASSUME NEW n \in TreeNodes
      PROVE  /\ tree'[n] \in TreeElement /\ tree'[n].copy = t[n].copy /\ tree'[n].loading = t[n].loading
             /\ tree'[n].class = t[n].class /\ tree'[n].clicked = t[n].clicked
  <2>1. tree'[n] = [t[n] EXCEPT !.found = n \in ns /\ There(tree, n)] /\ t[n] \in TreeElement
    BY <1>1, <1>2 DEF LoadsFit, TreeDrawable
  <2>2. (n \in ns /\ There(tree, n)) \in BOOLEAN
    BY DEF There
  <2> QED
    BY <2>1, <2>2 DEF TreeElement
<1>4. tree' \in [TreeNodes -> TreeElement]
  BY <1>1, <1>3
<1>5. Remarked(t, tree')
  BY <1>2, <1>3, <1>4 DEF Remarked, LoadsFit, TreeDrawable
<1>6. LoadsFit(tree', loads')
  BY <1>1, <1>2, <1>5, MarksFit
<1>7. \A n \in TreeNodes : tree'[n].copy = tree[n].copy /\ tree'[n].clicked = tree[n].clicked
  BY <1>2, <1>3 DEF SameElements
<1>8. MarksShown(tree', selected')
  BY <1>1, <1>7 DEF TreeInv, MarksShown, Element, There
<1>9. GhostsLeave(tree', selected', loads')
  BY <1>1, <1>7 DEF TreeInv, GhostsLeave, Element, There, TreeNodes
<1> QED
  BY <1>1, <1>6, <1>7, <1>8, <1>9, NewLoadsNone, TreeDrawn DEF TreeInv, TreeShape

LEMMA AsksAnew == ASSUME TreeInv, SavedAndAsked
                  PROVE  /\ toSelect' \subseteq TreeNodes /\ toOpen' \subseteq {"unit"}
                         /\ UNCHANGED <<selected, toLoad, copies, twice>>
BY DEF SavedAndAsked, TreeInv, TreeShape

LEMMA TreeRefreshes == ASSUME TreeInv, RefreshTree PROVE TreeInv'
<1> DEFINE q0 == [node |-> "tree", copy |-> 0, after |-> "refreshed"]
<1>1. /\ tree' = [n \in TreeNodes |-> Absent] /\ loads' = loads \union {q0}
      /\ toSelect' \subseteq TreeNodes /\ toOpen' \subseteq {"unit"}
      /\ UNCHANGED <<selected, toLoad, copies, twice>>
  BY AsksAnew DEF RefreshTree
<1>2. q0 \in LoadRequest /\ q0.node = "tree" /\ q0.after = "refreshed"
  BY DEF LoadRequest
<1>3. Absent \in TreeElement /\ Absent.copy = 0 /\ ~Absent.clicked /\ ~Absent.loading /\ Absent.class = "none"
  BY DEF TreeElement, Absent
<1> HIDE DEF q0
<1>4. TreeDrawable(tree') /\ \A n \in TreeNodes : ~There(tree', n)
  BY <1>1, <1>3 DEF TreeDrawable, There, TreeNodes
<1>5. OfUnit(tree', loads') = {} /\ ~tree'["unit"].loading
  BY <1>1, <1>2, <1>3 DEF OfUnit, TreeInv, LoadsFit, TreeNodes
<1>6. LoadsFit(tree', loads')
  BY <1>1, <1>2, <1>4, <1>5 DEF LoadsFit, TreeInv, TreeNodes
<1>7. GhostsLeave(tree', selected', loads')
  <2>1. CASE There(tree, "unit")
    BY <1>1, <1>4, <2>1 DEF TreeInv, GhostsLeave, TreeNodes
  <2>2. CASE ~There(tree, "unit")
    BY <1>1, <1>4, <2>2 DEF TreeInv, GhostsLeave, TreeNodes
  <2> QED
    BY <2>1, <2>2
<1>8. TreeShape'
  BY <1>1, <1>4, <1>6 DEF TreeInv, TreeShape, LoadsFit, TreeDrawable
<1>9. NoneAhead'
  BY <1>1, <1>2, <1>3 DEF TreeInv, NoneAhead, TreeShape
<1>10. MarksShown(tree', selected') /\ NothingToLoad' /\ ~twice'
  BY <1>1, <1>4 DEF TreeInv, MarksShown, NothingToLoad, There, TreeNodes
<1> QED
  BY <1>6, <1>7, <1>8, <1>9, <1>10 DEF TreeInv

LEMMA UnitRefreshes == ASSUME TreeInv, RefreshUnit PROVE TreeInv'
<1> DEFINE w == [tree EXCEPT !["user"] = Absent]
<1>1. /\ There(tree, "unit") /\ tree' = [Loading(tree) EXCEPT !["user"] = Absent]
      /\ loads' = WithLoad(tree, loads, "refreshed")
      /\ toSelect' \subseteq TreeNodes /\ toOpen' \subseteq {"unit"}
      /\ UNCHANGED <<selected, toLoad, copies, twice>>
  BY AsksAnew DEF RefreshUnit
<1>2. Absent \in TreeElement /\ Absent.copy = 0 /\ ~Absent.clicked /\ ~Absent.loading /\ Absent.class = "none"
  BY DEF TreeElement, Absent
<1>3. tree \in [TreeNodes -> TreeElement] /\ LoadsFit(tree, loads)
  BY DEF TreeInv, TreeShape
<1>4. w \in [TreeNodes -> TreeElement] /\ w["user"] = Absent /\ w["unit"] = tree["unit"]
  BY <1>2, <1>3 DEF TreeNodes
<1>5. tree' = Loading(w) /\ loads' = WithLoad(w, loads, "refreshed")
  <2>1. loads' = WithLoad(w, loads, "refreshed")
    BY <1>1, <1>4 DEF WithLoad
  <2> DEFINE l == Loading(tree)
  <2>2. l \in [TreeNodes -> TreeElement] /\ l["unit"] = [tree["unit"] EXCEPT !.loading = TRUE]
    BY <1>3 DEF Loading, TreeNodes, TreeElement
  <2>3. tree' = [l EXCEPT !["user"] = Absent] /\ Loading(w) = [w EXCEPT !["unit"] = [w["unit"] EXCEPT !.loading = TRUE]]
    BY <1>1 DEF Loading
  <2> HIDE DEF l, w
  <2>4. tree' \in [TreeNodes -> TreeElement] /\ tree'["unit"] = [tree["unit"] EXCEPT !.loading = TRUE] /\ tree'["user"] = Absent
    BY <1>2, <2>2, <2>3 DEF TreeNodes
  <2>5. Loading(w)["unit"] = [tree["unit"] EXCEPT !.loading = TRUE] /\ Loading(w)["user"] = Absent
    BY <1>4, <2>3 DEF TreeNodes
  <2>6. tree' = [n \in TreeNodes |-> tree'[n]] /\ Loading(w) = [n \in TreeNodes |-> Loading(w)[n]]
    BY <1>4, <2>3, <2>4
  <2> QED
    BY <2>1, <2>4, <2>5, <2>6, ZenonT(60) DEF TreeNodes
<1> HIDE DEF w
<1>6. LoadsFit(w, loads) /\ There(w, "unit") /\ ~There(w, "user")
  BY <1>1, <1>2, <1>3, <1>4 DEF LoadsFit, TreeDrawable, OfUnit, There, TreeNodes
<1>7. /\ LoadsFit(tree', loads') /\ SameElements(w, tree') /\ NewLoads(w, loads, loads')
  BY <1>5, <1>6, LoadingFits DEF NewLoads
<1>8. MarksShown(tree', selected')
  BY <1>1, <1>2, <1>4, <1>7 DEF TreeInv, MarksShown, SameElements, Element, There, TreeNodes
<1>9. GhostsLeave(tree', selected', loads')
  BY <1>1, <1>4, <1>7 DEF TreeInv, GhostsLeave, SameElements, NewLoads, Element, There, TreeNodes
<1>10. /\ copies' \in [TreeNodes -> Nat] /\ loads \subseteq loads /\ ~twice'
       /\ toLoad' \subseteq {"unit"} /\ (There(w, "unit") => toLoad' = {})
       /\ \A m \in TreeNodes : /\ w[m].copy <= copies'[m] /\ copies[m] <= copies'[m]
                              /\ tree'[m].copy = w[m].copy /\ w[m].copy \in Nat
       /\ \A e \in selected' : e \in selected
  <2>1. \A m \in TreeNodes : copies[m] \in Nat /\ tree[m].copy \in Nat /\ tree[m].copy <= copies[m]
    BY DEF TreeInv, TreeShape, NoneAhead, TreeElement
  <2> QED
    BY <1>1, <1>2, <1>4, <1>7, <2>1 DEF TreeInv, TreeShape, NothingToLoad, SameElements, TreeNodes
<1> QED
  BY <1>1, <1>7, <1>8, <1>9, <1>10, TreeFits

LEMMA TreeStarts == TreeInit => TreeInv
<1> SUFFICES ASSUME TreeInit PROVE TreeInv
  OBVIOUS
<1>1. Absent \in TreeElement /\ Absent.copy = 0 /\ ~Absent.clicked /\ ~Absent.loading /\ Absent.class = "none"
  BY DEF TreeElement, Absent
<1>2. TreeShape
  BY <1>1 DEF TreeInit, TreeShape, TreeNodes, LoadRequest
<1>3. LoadsFit(tree, loads)
  BY <1>1, <1>2 DEF TreeInit, LoadsFit, TreeDrawable, OfUnit, There, TreeNodes, TreeShape
<1>4. NoneAhead
  BY <1>1 DEF TreeInit, NoneAhead
<1>5. MarksShown(tree, selected) /\ GhostsLeave(tree, selected, loads) /\ NothingToLoad /\ ~twice
  BY <1>1 DEF TreeInit, MarksShown, GhostsLeave, NothingToLoad, There, TreeNodes
<1> QED
  BY <1>2, <1>3, <1>4, <1>5 DEF TreeInv

LEMMA TreeStep == TreeInv /\ [TreeNext]_treeVars => TreeInv'
<1> SUFFICES ASSUME TreeInv, [TreeNext]_treeVars PROVE TreeInv'
  OBVIOUS
<1>1. CASE \E n \in TreeNodes : Select(n) \/ SelectAlso(n)
  BY <1>1, TreeSelects, TreeSelectsAlso
<1>2. CASE OpenNode \/ CloseNode \/ RefreshTree \/ RefreshUnit
  BY <1>2, TreeOpens, TreeCloses, TreeRefreshes, UnitRefreshes
<1>3. CASE ClearSearch \/ \E ns \in SUBSET TreeNodes : SearchTree(ns)
  BY <1>3, TreeSearched DEF ClearSearch
<1>4. CASE \E q \in loads : TreeLoaded(q) \/ LoadFails(q)
  BY <1>4, TreeAnswers, TreeFails
<1>5. CASE UNCHANGED treeVars
  BY <1>5 DEF treeVars, TreeInv, TreeShape, NoneAhead, NothingToLoad
<1> QED
  BY <1>1, <1>2, <1>3, <1>4, <1>5 DEF TreeNext

\* What is marked is what is sent, whatever is opened, closed and refreshed before
\* the answers come, for any number of refreshes and of requests that fail.
THEOREM MarkedIsSent == TreeSpec => []SelectionShown
<1>1. TreeInv => SelectionShown
  <2> SUFFICES ASSUME TreeInv PROVE SelectionShown
    OBVIOUS
  <2>1. \A n \in TreeNodes : There(tree, n) => (tree[n].clicked <=> Element(tree, n) \in selected)
    BY DEF TreeInv, MarksShown
  <2>2. There(tree, "unit") /\ tree["unit"].loading => \E q \in loads : q.node = "unit" /\ q.copy = tree["unit"].copy
    BY DEF TreeInv, LoadsFit, OfUnit
  <2>3. loads = {} => Cardinality({e \in selected : e[1] = "unit"}) <= 1
    <3> SUFFICES ASSUME loads = {} PROVE Cardinality({e \in selected : e[1] = "unit"}) <= 1
      OBVIOUS
    <3> DEFINE S == {e \in selected : e[1] = "unit"}
    <3>1. \A d, e \in S : d = e
      BY DEF TreeInv, GhostsLeave
    <3> HIDE DEF S
    <3>2. CASE S = {}
      BY <3>2, FS_EmptySet DEF S
    <3>3. CASE S # {}
      <4>1. PICK x : S = {x}
        BY <3>1, <3>3
      <4>2. Cardinality(S) = 1
        BY <4>1, FS_Singleton
      <4> QED
        BY <4>2 DEF S
    <3> QED
      BY <3>2, <3>3
  <2> QED
    BY <2>1, <2>2, <2>3 DEF SelectionShown, TreeInv
<1> QED
  BY <1>1, TreeStarts, TreeStep, PTL DEF TreeSpec

-----------------------------------------------------------------------------
(* The slides, for any number of them.                                     *)

SlideShape ==
    /\ slides \in Nat \ {0} /\ activeSlide \in 1..slides
    /\ sliding \in BOOLEAN /\ cycling \in BOOLEAN /\ paused \in BOOLEAN /\ overSlides \in BOOLEAN
    /\ endByHand \in BOOLEAN

CarouselInv == SlideShape /\ CarouselHolds

LEMMA SlideMoves ==
  ASSUME CarouselInv, NEW i \in 1..slides, Slide(i), UNCHANGED <<slides, overSlides>>,
         endByHand' = (endByHand \/ (~cycling /\ activeSlide' = slides)), slides > 1 => i # activeSlide
  PROVE  CarouselInv'
<1>1. CASE i = activeSlide
  BY <1>1 DEF Slide, SlideToItself, CarouselInv, SlideShape, CarouselHolds
<1>2. CASE i # activeSlide
  <2>1. /\ activeSlide' = i /\ disabled' = Controls(i) /\ cycling' = cycling
        /\ paused' = (~cycling /\ (paused \/ i = slides)) /\ sliding' = sliding
    BY <1>2 DEF Slide, SlideTo, StaysPaused
  <2>2. SlideShape'
    BY <2>1 DEF CarouselInv, SlideShape
  <2>3. slides > 1 => ("left" \in Controls(i) <=> i = 1) /\ ("right" \in Controls(i) <=> i = slides)
    BY DEF Controls, CarouselInv, SlideShape
  <2> QED
    BY <2>1, <2>2, <2>3 DEF CarouselInv, SlideShape, CarouselHolds
<1> QED
  BY <1>1, <1>2

\* The controls lead somewhere, and the slides move by themselves unless somebody
\* stopped them.
THEOREM SlidesMove == CarouselSpec => []CarouselHolds
<1>1. CarouselInit => CarouselInv
  <2> SUFFICES ASSUME CarouselInit PROVE CarouselInv
    OBVIOUS
  <2>1. slides \in Nat \ {0} /\ activeSlide = 1
    BY CarouselAssumption DEF CarouselInit
  <2>2. SlideShape
    <3>1. sliding \in BOOLEAN /\ cycling \in BOOLEAN /\ paused \in BOOLEAN /\ overSlides \in BOOLEAN /\ endByHand \in BOOLEAN
      BY Zenon DEF CarouselInit
    <3>2. activeSlide \in 1..slides
      BY <2>1
    <3> QED
      BY <2>1, <3>1, <3>2 DEF SlideShape
  <2>3. "left" \in disabled /\ "right" \notin disabled
    BY DEF CarouselInit
  <2>4. ~sliding /\ ~paused /\ (cycling <=> ~overSlides /\ ~paused)
    BY DEF CarouselInit
  <2> QED
    BY <2>1, <2>2, <2>3, <2>4 DEF CarouselInv, CarouselHolds
<1>2. CarouselInv /\ [CarouselNext]_slideVars => CarouselInv'
  <2> SUFFICES ASSUME CarouselInv, [CarouselNext]_slideVars PROVE CarouselInv'
    OBVIOUS
  <2>1. NextSlide \in 1..slides /\ PrevSlide \in 1..slides
        /\ (slides > 1 => NextSlide # activeSlide /\ PrevSlide # activeSlide)
    BY DEF CarouselInv, SlideShape, NextSlide, PrevSlide
  <2>2. CASE TimerSlides
    BY <2>1, <2>2, SlideMoves DEF TimerSlides, CarouselInv, SlideShape
  <2>3. ASSUME NEW control \in {"left", "right"}, ClickControl(control) PROVE CarouselInv'
    BY <2>1, <2>3, SlideMoves DEF ClickControl
  <2>4. CASE PointerOverSlides
    BY <2>4 DEF PointerOverSlides, CarouselInv, SlideShape, CarouselHolds
  <2>5. CASE PointerOffSlides
    BY <2>5 DEF PointerOffSlides, CarouselInv, SlideShape, CarouselHolds
  <2>6. CASE UNCHANGED slideVars
    BY <2>6 DEF slideVars, CarouselInv, SlideShape, CarouselHolds
  <2> QED
    BY <2>2, <2>3, <2>4, <2>5, <2>6 DEF CarouselNext
<1> QED
  BY <1>1, <1>2, PTL DEF CarouselSpec, CarouselInv

-----------------------------------------------------------------------------
(* The small scripts, for any number of submissions and packages.          *)

FormShape ==
    /\ form.button \in {"label", "spinner"} /\ form.saved \in {"none", "label", "spinner"}
    /\ form = [button |-> form.button, saved |-> form.saved, pending |-> form.pending, sent |-> form.sent,
               shown |-> form.shown, twice |-> form.twice]
    /\ form.pending \in Nat /\ form.twice \in BOOLEAN
\* A form that is sent once at a time waits for one answer, and its button was
\* saved before it became a spinner.
FormKept ==
    ~form.twice => \/ form.pending = 0 /\ form.button = "label" /\ form.saved = "none"
                      /\ (form.shown = {} \/ \E d : form.shown = {d})
                   \/ form.pending = 1 /\ form.button = "spinner" /\ form.saved = "label" /\ form.shown = {}

UploadKept ==
    /\ upload = [pending |-> upload.pending, started |-> upload.started, enabled |-> upload.enabled, twice |-> upload.twice]
    /\ upload.pending \in Nat /\ upload.enabled \in BOOLEAN /\ upload.twice \in BOOLEAN
    /\ ~upload.twice => upload.pending \in {0, 1} /\ (upload.enabled <=> upload.pending = 0)

\* What is shown of an account is its kind, and the label its name.
MailKept ==
    /\ mail = [account |-> mail.account, inForm |-> mail.inForm, label |-> mail.label, shown |-> mail.shown]
    /\ mail.account = "managed" => mail.shown = {"account", "managed"} /\ mail.label = "managed"
    /\ mail.account = "unmanaged" => mail.shown = {"account", "unmanaged"}
    /\ mail.account = "none" => "none" \in mail.shown
    /\ mail.account \in {"none", "managed", "unmanaged"}

AskedFor == [no : Nat, answer : {"none", "yes", "no"}]
ButtonShape ==
    /\ saveButton = [changed |-> saveButton.changed, unsaved |-> saveButton.unsaved, asked |-> saveButton.asked,
                     pending |-> saveButton.pending, overtaken |-> saveButton.overtaken,
                     elsewhere |-> saveButton.elsewhere]
    /\ saveButton.asked \in Nat /\ saveButton.pending \subseteq AskedFor
    /\ saveButton.changed \in BOOLEAN /\ saveButton.unsaved \in BOOLEAN
    /\ saveButton.overtaken \in BOOLEAN /\ saveButton.elsewhere \in BOOLEAN
    /\ \A r \in saveButton.pending : r.no <= saveButton.asked
    /\ \A q, r \in saveButton.pending : q.no = r.no => q = r
\* The answer to the last question is the one that counts: it comes last unless it
\* overtook another, and says what is so until a change is made.
LastAsked ==
    /\ ~saveButton.overtaken /\ saveButton.pending # {} => \E r \in saveButton.pending : r.no = saveButton.asked
    /\ ~saveButton.elsewhere => \A r \in saveButton.pending :
           r.no = saveButton.asked /\ r.answer # "none" => (r.answer = "yes" <=> saveButton.unsaved)
    /\ ~saveButton.elsewhere /\ ~saveButton.overtaken /\ saveButton.pending = {} =>
           saveButton.changed = saveButton.unsaved

MenuRecord == [shown : Folder \union {"none"}, open : SUBSET Folder, despleg : SUBSET Folder]
MenuKept ==
    /\ sideMenu \in MenuRecord
    /\ sideMenu.open = sideMenu.despleg /\ sideMenu.open \subseteq {sideMenu.shown, "core"}

PackageBoxes == [selected : SUBSET Package, ticked : SUBSET Package, all : BOOLEAN, hidden : SUBSET Package,
                 enabled : BOOLEAN, sent : SUBSET Package]
PackagesKept == packages \in PackageBoxes /\ (packages.ticked # {} => packages.enabled)

ScriptsInv == FormShape /\ FormKept /\ UploadKept /\ MailKept /\ ButtonShape /\ LastAsked /\ MenuKept /\ PackagesKept

LEMMA FormSteps ==
  ASSUME FormShape, FormKept, NEW f, form' = f,
         \/ f = [SetSpinner(form) EXCEPT !.pending = @ + 1, !.sent = @ + 1, !.shown = {},
                                        !.twice = @ \/ form.pending > 0]
         \/ \E div \in {{}, {"note"}, {"error"}} : form.pending > 0 /\
               f = [RestoreAfterLoading(form) EXCEPT !.pending = @ - 1, !.shown = @ \union div]
  PROVE  FormShape' /\ FormKept'
<1>1. CASE f = [SetSpinner(form) EXCEPT !.pending = @ + 1, !.sent = @ + 1, !.shown = {},
                                        !.twice = @ \/ form.pending > 0]
  <2> DEFINE b == form.twice \/ form.pending > 0
  <2>1. f = [button |-> "spinner", saved |-> form.button, pending |-> form.pending + 1, sent |-> form.sent + 1,
             shown |-> {}, twice |-> b]
    BY <1>1 DEF SetSpinner, FormShape
  <2>2. b \in BOOLEAN /\ form.pending + 1 \in Nat
    BY DEF FormShape
  <2> HIDE DEF b
  <2>3. /\ f.button = "spinner" /\ f.saved = form.button /\ f.pending = form.pending + 1 /\ f.sent = form.sent + 1
        /\ f.shown = {} /\ f.twice = b
    BY <2>1
  <2>4. FormShape'
    BY <2>1, <2>2, <2>3 DEF FormShape
  <2>5. FormKept'
    <3>1. ~b => form.pending = 0 /\ form.button = "label" /\ form.pending + 1 = 1
      BY DEF FormShape, FormKept, b
    <3> QED
      BY <2>3, <3>1 DEF FormKept
  <2> QED
    BY <2>4, <2>5
<1>2. ASSUME NEW div \in {{}, {"note"}, {"error"}}, form.pending > 0,
             f = [RestoreAfterLoading(form) EXCEPT !.pending = @ - 1, !.shown = @ \union div]
      PROVE  FormShape' /\ FormKept'
  <2> DEFINE button == IF form.saved = "none" THEN form.button ELSE form.saved
  <2>1. f = [button |-> button, saved |-> "none", pending |-> form.pending - 1, sent |-> form.sent,
             shown |-> form.shown \union div, twice |-> form.twice]
    <3>1. CASE form.saved = "none"
      BY <1>2, <3>1 DEF RestoreAfterLoading, FormShape
    <3>2. CASE form.saved # "none"
      BY <1>2, <3>2 DEF RestoreAfterLoading, FormShape
    <3> QED
      BY <3>1, <3>2
  <2>2. button \in {"label", "spinner"} /\ form.pending - 1 \in Nat
    BY <1>2 DEF FormShape
  <2> HIDE DEF button
  <2>3. /\ f.button = button /\ f.saved = "none" /\ f.pending = form.pending - 1 /\ f.sent = form.sent
        /\ f.shown = form.shown \union div /\ f.twice = form.twice
    BY <2>1
  <2>4. FormShape'
    BY <2>1, <2>2, <2>3 DEF FormShape
  <2>5. ASSUME ~form.twice
        PROVE  form.pending = 1 /\ button = "label" /\ (form.shown \union div = {} \/ \E d : form.shown \union div = {d})
    BY <1>2, <2>5 DEF FormKept, button
  <2>6. FormKept'
    BY <2>3, <2>5 DEF FormKept
  <2> QED
    BY <2>4, <2>6
<1> QED
  BY <1>1, <1>2

LEMMA UploadSteps ==
  ASSUME UploadKept, ChooseFile \/ \E blank \in BOOLEAN : IframeLoaded(blank)
  PROVE  UploadKept'
<1>1. CASE ChooseFile
  <2> DEFINE b == upload.twice \/ upload.pending > 0
  <2>1. upload' = [pending |-> upload.pending + 1, started |-> upload.started + 1, enabled |-> FALSE, twice |-> b]
    BY <1>1 DEF ChooseFile, UploadIs, UploadKept
  <2>2. b \in BOOLEAN
    BY DEF UploadKept
  <2> HIDE DEF b
  <2>3. /\ upload'.pending = upload.pending + 1 /\ upload'.started = upload.started + 1
        /\ upload'.enabled = FALSE /\ upload'.twice = b
    BY <2>1
  <2>4. ~b => upload.pending = 0
    BY DEF b, UploadKept
  <2> QED
    BY <2>1, <2>2, <2>3, <2>4 DEF UploadKept
<1>2. ASSUME NEW blank \in BOOLEAN, IframeLoaded(blank) PROVE UploadKept'
  <2>1. CASE blank
    BY <1>2, <2>1 DEF IframeLoaded, UploadIs, UploadKept
  <2>2. CASE ~blank
    <3>1. upload.pending > 0
          /\ upload' = [pending |-> upload.pending - 1, started |-> upload.started, enabled |-> TRUE, twice |-> upload.twice]
      BY <1>2, <2>2 DEF IframeLoaded, UploadIs, UploadKept
    <3>2. /\ upload'.pending = upload.pending - 1 /\ upload'.started = upload.started
          /\ upload'.enabled = TRUE /\ upload'.twice = upload.twice
      BY <3>1
    <3> QED
      BY <3>1, <3>2 DEF UploadKept
  <2> QED
    BY <2>1, <2>2
<1> QED
  BY <1>1, <1>2

LEMMA MailSteps ==
  ASSUME MailKept, NEW account \in {"none", "managed", "unmanaged"}, AccountChange(account) \/ TypeMail(account)
  PROVE  MailKept'
<1>1. CASE AccountChange(account)
  <2> DEFINE label == IF account = "none" THEN mail.label ELSE account
             shown == IF account = "none" THEN {"none", "managed"}
                      ELSE {"account", IF account = "unmanaged" THEN "unmanaged" ELSE "managed"}
  <2>1. mail' = [account |-> account, inForm |-> account, label |-> label, shown |-> shown]
    BY <1>1 DEF AccountChange, MailIs
  <2> HIDE DEF label, shown
  <2>2. mail'.account = account /\ mail'.inForm = account /\ mail'.label = label /\ mail'.shown = shown
    BY <2>1
  <2> QED
    BY <2>1, <2>2 DEF MailKept, label, shown
<1>2. CASE TypeMail(account)
  <2>1. mail' = [account |-> mail.account, inForm |-> account, label |-> mail.label, shown |-> mail.shown]
    BY <1>2 DEF TypeMail, MailIs, MailKept
  <2>2. mail'.account = mail.account /\ mail'.inForm = account /\ mail'.label = mail.label /\ mail'.shown = mail.shown
    BY <2>1
  <2> QED
    BY <2>1, <2>2 DEF MailKept
<1> QED
  BY <1>1, <1>2

LEMMA MenuSet ==
  ASSUME NEW m, m \in MenuRecord, NEW name, name \in Folder \union {"none"}
  PROVE  LET c == [m EXCEPT !.shown = name]
         IN  c \in MenuRecord /\ c.shown = name /\ c.open = m.open /\ c.despleg = m.despleg
BY DEF MenuRecord

LEMMA MenuClosed ==
  ASSUME NEW m, m \in MenuRecord, NEW name
  PROVE  /\ MenuClose(m, name) \in MenuRecord /\ MenuClose(m, name).shown = m.shown
         /\ MenuClose(m, name).open = m.open \ {name} /\ MenuClose(m, name).despleg = m.despleg \ {name}
BY DEF MenuClose, MenuRecord

LEMMA MenuOpened ==
  ASSUME NEW m, m \in MenuRecord, NEW name, name \in Folder
  PROVE  /\ MenuOpen(m, name) \in MenuRecord /\ MenuOpen(m, name).shown = name
         /\ MenuOpen(m, name).open = m.open \union {name} /\ MenuOpen(m, name).despleg = m.despleg \union {name}
BY DEF MenuOpen, MenuRecord

LEMMA MenuSteps ==
  ASSUME MenuKept, NEW name \in Folder, ShowMenu(name)
  PROVE  MenuKept'
<1>1. sideMenu \in MenuRecord /\ sideMenu.shown \in Folder \union {"none"} /\ name # "none"
      /\ "none" \notin sideMenu.open /\ name \in Folder /\ "none" \in Folder \union {"none"}
  BY DEF MenuKept, MenuRecord, Folder
<1>2. CASE sideMenu.shown = name
  <2> DEFINE m == [sideMenu EXCEPT !.shown = "none"]
  <2>1. sideMenu' = MenuClose(m, name)
    BY <1>2 DEF ShowMenu, MenuIs
  <2>2. m \in MenuRecord /\ m.shown = "none" /\ m.open = sideMenu.open /\ m.despleg = sideMenu.despleg
    BY <1>1, MenuSet
  <2> HIDE DEF m
  <2>3. /\ sideMenu' \in MenuRecord /\ sideMenu'.shown = "none" /\ sideMenu'.open = sideMenu.open \ {name}
        /\ sideMenu'.despleg = sideMenu.despleg \ {name}
    BY <2>1, <2>2, <1>1, MenuClosed
  <2> QED
    BY <1>2, <2>3 DEF MenuKept
<1>3. CASE sideMenu.shown # name /\ sideMenu.shown # "none"
  <2> DEFINE m == MenuClose(sideMenu, sideMenu.shown)
  <2>1. sideMenu' = MenuOpen(m, name)
    BY <1>3 DEF ShowMenu, MenuIs
  <2>2. m \in MenuRecord /\ m.open = sideMenu.open \ {sideMenu.shown} /\ m.despleg = sideMenu.despleg \ {sideMenu.shown}
    BY <1>1, MenuClosed
  <2> HIDE DEF m
  <2>3. /\ sideMenu' \in MenuRecord /\ sideMenu'.shown = name
        /\ sideMenu'.open = (sideMenu.open \ {sideMenu.shown}) \union {name}
        /\ sideMenu'.despleg = (sideMenu.despleg \ {sideMenu.shown}) \union {name}
    BY <2>1, <2>2, <1>1, MenuOpened
  <2> QED
    BY <1>1, <1>3, <2>3 DEF MenuKept
<1>4. CASE sideMenu.shown = "none" /\ name \in sideMenu.despleg
  <2>1. sideMenu' = MenuClose(sideMenu, name)
    BY <1>1, <1>4 DEF ShowMenu, MenuIs
  <2>2. /\ sideMenu' \in MenuRecord /\ sideMenu'.shown = "none" /\ sideMenu'.open = sideMenu.open \ {name}
        /\ sideMenu'.despleg = sideMenu.despleg \ {name}
    BY <1>1, <1>4, <2>1, MenuClosed
  <2> QED
    BY <1>4, <2>2 DEF MenuKept
<1>5. CASE sideMenu.shown = "none" /\ name \notin sideMenu.despleg
  <2>1. sideMenu' = MenuOpen(sideMenu, name)
    BY <1>1, <1>5 DEF ShowMenu, MenuIs
  <2>2. /\ sideMenu' \in MenuRecord /\ sideMenu'.shown = name /\ sideMenu'.open = sideMenu.open \union {name}
        /\ sideMenu'.despleg = sideMenu.despleg \union {name}
    BY <1>1, <2>1, MenuOpened
  <2> QED
    BY <1>1, <1>5, <2>2 DEF MenuKept
<1> QED
  BY <1>2, <1>3, <1>4, <1>5

\* What the button asked before a change says nothing of it; the question that goes
\* with the change is the last one.
LEMMA ButtonIs ==
  ASSUME ButtonShape, NEW changed \in BOOLEAN, NEW unsaved \in BOOLEAN, NEW next \in Nat, NEW pending \in SUBSET AskedFor,
         NEW overtaken \in BOOLEAN, NEW elsewhere \in BOOLEAN,
         saveButton' = [changed |-> changed, unsaved |-> unsaved, asked |-> next, pending |-> pending,
                        overtaken |-> overtaken, elsewhere |-> elsewhere],
         \A r \in pending : r.no <= next,
         \A q, r \in pending : q.no = r.no => q = r
  PROVE  /\ ButtonShape'
         /\ saveButton'.changed = changed /\ saveButton'.unsaved = unsaved /\ saveButton'.asked = next
         /\ saveButton'.pending = pending /\ saveButton'.overtaken = overtaken /\ saveButton'.elsewhere = elsewhere
<1>1. /\ saveButton'.changed = changed /\ saveButton'.unsaved = unsaved /\ saveButton'.asked = next
      /\ saveButton'.pending = pending /\ saveButton'.overtaken = overtaken /\ saveButton'.elsewhere = elsewhere
  OBVIOUS
<1> QED
  BY <1>1 DEF ButtonShape

LEMMA ChangeAsked ==
  ASSUME ButtonShape, LastAsked, ChangeMade
  PROVE  ButtonShape' /\ LastAsked'
<1> DEFINE b == saveButton
           q0 == [no |-> b.asked + 1, answer |-> "none"]
           ps == b.pending \union {q0}
<1>1. saveButton' = [changed |-> b.changed, unsaved |-> TRUE, asked |-> b.asked + 1, pending |-> ps,
                     overtaken |-> b.overtaken, elsewhere |-> FALSE]
  BY DEF ChangeMade, SaveButtonIs, ButtonShape
<1>2. b.asked + 1 \in Nat /\ q0 \in AskedFor /\ q0.no = b.asked + 1 /\ q0.answer = "none"
  BY DEF ButtonShape, AskedFor
<1> HIDE DEF q0
<1>3. \A r \in b.pending : r.no \in Nat /\ r.no < b.asked + 1
  BY DEF ButtonShape, AskedFor
<1>4. /\ ps \in SUBSET AskedFor /\ \A r \in ps : r.no <= b.asked + 1
      /\ \A q, r \in ps : q.no = r.no => q = r
  <2>1. ps \in SUBSET AskedFor /\ \A r \in ps : r.no <= b.asked + 1
    BY <1>2, <1>3 DEF ButtonShape
  <2>2. ASSUME NEW q \in ps, NEW r \in ps, q.no = r.no
        PROVE  q = r
    BY <1>2, <1>3, <2>2 DEF ButtonShape
  <2> QED
    BY <2>1, <2>2
<1>5. b.changed \in BOOLEAN /\ b.overtaken \in BOOLEAN /\ TRUE \in BOOLEAN /\ FALSE \in BOOLEAN
  BY DEF ButtonShape
<1> DEFINE next == b.asked + 1
<1> HIDE DEF ps, next
<1>6. /\ ButtonShape' /\ saveButton'.unsaved = TRUE /\ saveButton'.asked = next /\ saveButton'.pending = ps
  <2>1. next \in Nat /\ (\A r \in ps : r.no <= next)
        /\ saveButton' = [changed |-> b.changed, unsaved |-> TRUE, asked |-> next, pending |-> ps,
                          overtaken |-> b.overtaken, elsewhere |-> FALSE]
    BY <1>1, <1>2, <1>4 DEF next
  <2> QED
    BY <1>4, <1>5, <2>1, ButtonIs
<1>7. \A r \in ps : r.no = b.asked + 1 => r.answer = "none"
  BY <1>2, <1>3 DEF ps
<1> QED
  BY <1>2, <1>6, <1>7 DEF LastAsked, next, ps

LEMMA SavedElsewhere ==
  ASSUME ButtonShape, LastAsked, ChangesSavedElsewhere
  PROVE  ButtonShape' /\ LastAsked'
<1> DEFINE b == saveButton
<1>1. saveButton' = [changed |-> b.changed, unsaved |-> FALSE, asked |-> b.asked, pending |-> b.pending,
                     overtaken |-> b.overtaken, elsewhere |-> TRUE]
  BY DEF ChangesSavedElsewhere, SaveButtonIs, ButtonShape
<1>2. /\ b.changed \in BOOLEAN /\ b.overtaken \in BOOLEAN /\ b.asked \in Nat /\ b.pending \in SUBSET AskedFor
      /\ \A r \in b.pending : r.no <= b.asked
      /\ \A q, r \in b.pending : q.no = r.no => q = r
  BY DEF ButtonShape
<1>3. /\ ButtonShape' /\ saveButton'.asked = b.asked /\ saveButton'.pending = b.pending
      /\ saveButton'.overtaken = b.overtaken /\ saveButton'.elsewhere = TRUE
  BY <1>1, <1>2, ButtonIs, ZenonT(60)
<1> QED
  BY <1>3 DEF LastAsked

LEMMA ServerAnswers ==
  ASSUME ButtonShape, LastAsked, NEW r \in saveButton.pending, HasUnsavedChanges(r)
  PROVE  ButtonShape' /\ LastAsked'
<1> DEFINE b == saveButton
           a == IF b.unsaved THEN "yes" ELSE "no"
           q0 == [r EXCEPT !.answer = a]
           ps == (b.pending \ {r}) \union {q0}
<1>1. /\ saveButton' = [changed |-> b.changed, unsaved |-> b.unsaved, asked |-> b.asked, pending |-> ps,
                        overtaken |-> b.overtaken, elsewhere |-> b.elsewhere]
      /\ r.answer = "none"
  BY DEF HasUnsavedChanges, SaveButtonIs, ButtonShape
<1>2. /\ b.changed \in BOOLEAN /\ b.unsaved \in BOOLEAN /\ b.overtaken \in BOOLEAN /\ b.elsewhere \in BOOLEAN
      /\ b.asked \in Nat /\ b.pending \in SUBSET AskedFor /\ r \in AskedFor
      /\ \A p \in b.pending : p.no <= b.asked
      /\ \A q, p \in b.pending : q.no = p.no => q = p
  BY DEF ButtonShape
<1>3. q0 \in AskedFor /\ q0.no = r.no /\ q0.answer = a /\ (a = "yes" <=> b.unsaved)
  BY <1>2 DEF AskedFor
<1> HIDE DEF q0, a
<1>4. /\ ps \in SUBSET AskedFor /\ \A p \in ps : p.no <= b.asked
      /\ \A q, p \in ps : q.no = p.no => q = p
  <2>1. ps \in SUBSET AskedFor /\ \A p \in ps : p.no <= b.asked
    BY <1>2, <1>3
  <2>2. ASSUME NEW q \in ps, NEW p \in ps, q.no = p.no
        PROVE  q = p
    BY <1>2, <1>3, <2>2
  <2> QED
    BY <2>1, <2>2
<1>5. ButtonShape' /\ saveButton'.changed = b.changed /\ saveButton'.unsaved = b.unsaved /\ saveButton'.asked = b.asked
      /\ saveButton'.pending = ps /\ saveButton'.overtaken = b.overtaken /\ saveButton'.elsewhere = b.elsewhere
  BY <1>1, <1>2, <1>4, ButtonIs
<1>6. ps # {} /\ ((\E p \in b.pending : p.no = b.asked) => \E p \in ps : p.no = b.asked)
  BY <1>3
<1> QED
  BY <1>3, <1>5, <1>6 DEF LastAsked

LEMMA ButtonSet ==
  ASSUME ButtonShape, LastAsked, NEW r \in saveButton.pending, SetSaveChangesButton(r)
  PROVE  ButtonShape' /\ LastAsked'
<1> DEFINE b == saveButton
           over == b.overtaken \/ \E q \in b.pending : q.no < r.no
           changed == (r.answer = "yes")
           ps == b.pending \ {r}
<1>1. /\ saveButton' = [changed |-> changed, unsaved |-> b.unsaved, asked |-> b.asked, pending |-> ps,
                        overtaken |-> over, elsewhere |-> b.elsewhere]
      /\ r.answer # "none"
  BY DEF SetSaveChangesButton, SaveButtonIs, ButtonShape
<1>2. /\ changed \in BOOLEAN /\ over \in BOOLEAN
  BY DEF ButtonShape
<1>3. /\ b.unsaved \in BOOLEAN /\ b.elsewhere \in BOOLEAN
      /\ b.asked \in Nat /\ ps \in SUBSET AskedFor
      /\ \A p \in ps : p.no <= b.asked
      /\ \A q, p \in ps : q.no = p.no => q = p
  BY DEF ButtonShape
<1>4. ~over => ~b.overtaken /\ (ps = {} \/ r.no # b.asked)
  <2> SUFFICES ASSUME ~over, ps # {} PROVE r.no # b.asked
    BY DEF ButtonShape
  <2>1. PICK q \in ps : TRUE
    OBVIOUS
  <2>2. q \in AskedFor /\ r \in AskedFor /\ q # r /\ q.no <= b.asked /\ q.no # r.no
    BY <2>1 DEF ButtonShape
  <2>3. q.no \in Nat /\ r.no \in Nat /\ b.asked \in Nat /\ ~(q.no < r.no)
    BY <2>1, <2>2 DEF AskedFor, ButtonShape
  <2> QED
    BY <2>2, <2>3
<1> HIDE DEF over, changed
<1>5. ButtonShape' /\ saveButton'.changed = changed /\ saveButton'.unsaved = b.unsaved /\ saveButton'.asked = b.asked
      /\ saveButton'.pending = ps /\ saveButton'.overtaken = over /\ saveButton'.elsewhere = b.elsewhere
  BY <1>1, <1>2, <1>3, ButtonIs
<1>6. ~over /\ ps # {} => \E p \in ps : p.no = b.asked
  BY <1>4 DEF LastAsked
<1>7. ~over /\ ps = {} => r.no = b.asked
  BY <1>4 DEF LastAsked
<1>8. ~over /\ ~b.elsewhere /\ ps = {} => changed = b.unsaved
  BY <1>1, <1>3, <1>7, <1>2 DEF LastAsked, changed
<1>9. ~b.elsewhere => \A p \in ps : p.no = b.asked /\ p.answer # "none" => (p.answer = "yes" <=> b.unsaved)
  BY DEF LastAsked
<1> QED
  BY <1>5, <1>6, <1>8, <1>9 DEF LastAsked

LEMMA BoxesCounted ==
  ASSUME NEW p \in PackageBoxes
  PROVE  /\ UpdateActionButton(p) \in PackageBoxes
         /\ UpdateActionButton(p).ticked # {} => UpdateActionButton(p).enabled
<1> DEFINE b == p.all \/ p.ticked # {}
<1>1. b \in BOOLEAN /\ UpdateActionButton(p) = [p EXCEPT !.enabled = b]
  BY DEF UpdateActionButton, PackageBoxes
<1> HIDE DEF b
<1>2. UpdateActionButton(p) \in PackageBoxes /\ UpdateActionButton(p).ticked = p.ticked /\ UpdateActionButton(p).enabled = b
  BY <1>1 DEF PackageBoxes
<1> QED
  BY <1>2 DEF b

\* What is done to the packages.
PackageStep ==
    \/ \E p \in Package : TogglePackage(p) \/ TickPackage(p)
    \/ CheckAllPackages \/ SendForm \/ SendFormBasic
    \/ \E matching \in SUBSET Package : FilterTable(matching)

LEMMA PackageSteps == ASSUME PackagesKept, PackageStep PROVE PackagesKept'
<1>1. ASSUME NEW p \in Package, TogglePackage(p) PROVE PackagesKept'
  <2> DEFINE s == IF p \in packages.selected THEN packages.selected \ {p} ELSE packages.selected \union {p}
  <2>1. s \in SUBSET Package /\ packages' = [packages EXCEPT !.selected = s]
    BY <1>1 DEF TogglePackage, PackagesAre, PackagesKept, PackageBoxes
  <2> HIDE DEF s
  <2> QED
    BY <2>1 DEF PackagesKept, PackageBoxes
<1>2. ASSUME NEW p \in Package, TickPackage(p) PROVE PackagesKept'
  <2> DEFINE s == IF p \in packages.ticked THEN packages.ticked \ {p} ELSE packages.ticked \union {p}
             c == [packages EXCEPT !.ticked = s]
  <2>1. s \in SUBSET Package /\ packages' = UpdateActionButton(c)
    BY <1>2 DEF TickPackage, PackagesAre, PackagesKept, PackageBoxes
  <2> HIDE DEF s
  <2>2. c \in PackageBoxes
    BY <2>1 DEF PackagesKept, PackageBoxes
  <2> QED
    BY <2>1, <2>2, BoxesCounted DEF PackagesKept
<1>3. CASE CheckAllPackages
  <2> DEFINE s == IF packages.all THEN {} ELSE Package
             c == [packages EXCEPT !.all = ~@, !.ticked = s]
  <2>1. s \in SUBSET Package /\ packages' = UpdateActionButton(c)
    BY <1>3 DEF CheckAllPackages, PackagesAre
  <2> HIDE DEF s
  <2>2. c \in PackageBoxes
    BY <2>1 DEF PackagesKept, PackageBoxes
  <2> QED
    BY <2>1, <2>2, BoxesCounted DEF PackagesKept
<1>4. ASSUME NEW list \in SUBSET Package, SendPackages(list) PROVE PackagesKept'
  BY <1>4 DEF SendPackages, PackagesAre, PackagesKept, PackageBoxes
<1>5. packages.ticked \in SUBSET Package /\ packages.selected \in SUBSET Package
  BY DEF PackagesKept, PackageBoxes
<1>6. CASE SendForm \/ SendFormBasic
  BY <1>4, <1>5, <1>6 DEF SendForm, SendFormBasic
<1>7. ASSUME NEW matching \in SUBSET Package, FilterTable(matching) PROVE PackagesKept'
  BY <1>7 DEF FilterTable, PackagesAre, PackagesKept, PackageBoxes
<1> QED
  BY <1>1, <1>2, <1>3, <1>6, <1>7 DEF PackageStep

LEMMA ScriptsStart == ScriptsInit => ScriptsInv
<1> SUFFICES ASSUME ScriptsInit PROVE ScriptsInv
  OBVIOUS
<1>1. FormShape /\ FormKept
  BY DEF ScriptsInit, FormShape, FormKept
<1>2. UploadKept
  BY DEF ScriptsInit, UploadKept
<1>3. MailKept
  BY DEF ScriptsInit, MailKept
<1>4. ButtonShape /\ LastAsked
  <2>1. saveButton = [changed |-> FALSE, unsaved |-> FALSE, asked |-> 1,
                      pending |-> {[no |-> 1, answer |-> "none"]}, overtaken |-> FALSE, elsewhere |-> FALSE]
    BY DEF ScriptsInit
  <2>2. [no |-> 1, answer |-> "none"] \in AskedFor
    BY DEF AskedFor
  <2> QED
    BY <2>1, <2>2 DEF ButtonShape, LastAsked
<1>5. MenuKept
  BY DEF ScriptsInit, MenuKept, MenuRecord, Folder
<1>6. PackagesKept
  BY DEF ScriptsInit, PackagesKept, PackageBoxes
<1> QED
  BY <1>1, <1>2, <1>3, <1>4, <1>5, <1>6 DEF ScriptsInv

LEMMA ScriptsStep == ScriptsInv /\ [ScriptsNext]_scriptVars => ScriptsInv'
<1> SUFFICES ASSUME ScriptsInv, [ScriptsNext]_scriptVars PROVE ScriptsInv'
  OBVIOUS
<1> USE DEF ScriptsInv
<1>1. /\ UNCHANGED form => FormShape' /\ FormKept'
      /\ UNCHANGED upload => UploadKept'
      /\ UNCHANGED mail => MailKept'
      /\ UNCHANGED saveButton => ButtonShape' /\ LastAsked'
      /\ UNCHANGED sideMenu => MenuKept'
      /\ UNCHANGED packages => PackagesKept'
  <2>1. UNCHANGED form => FormShape' /\ FormKept'
    BY DEF FormShape, FormKept
  <2>2. (UNCHANGED upload => UploadKept') /\ (UNCHANGED mail => MailKept') /\ (UNCHANGED sideMenu => MenuKept')
    BY DEF UploadKept, MailKept, MenuKept
  <2>3. UNCHANGED saveButton => ButtonShape' /\ LastAsked'
    BY DEF ButtonShape, LastAsked
  <2>4. UNCHANGED packages => PackagesKept'
    BY DEF PackagesKept
  <2> QED
    BY <2>1, <2>2, <2>3, <2>4
<1>2. CASE SubmitForm \/ \E div \in {{}, {"note"}, {"error"}} : FormAnswered(div)
  <2>1. FormShape' /\ FormKept'
    BY <1>2, FormSteps DEF SubmitForm, FormAnswered, FormIs
  <2>2. UNCHANGED <<upload, mail, saveButton, sideMenu, packages>>
    BY <1>2 DEF SubmitForm, FormAnswered, FormIs
  <2> QED
    BY <1>1, <2>1, <2>2
<1>3. CASE ChooseFile \/ \E blank \in BOOLEAN : IframeLoaded(blank)
  <2>1. UNCHANGED <<form, mail, saveButton, sideMenu, packages>>
    BY <1>3 DEF ChooseFile, IframeLoaded, UploadIs
  <2> QED
    BY <1>1, <1>3, <2>1, UploadSteps
<1>4. CASE \E account \in {"none", "managed", "unmanaged"} : AccountChange(account) \/ TypeMail(account)
  <2>1. UNCHANGED <<form, upload, saveButton, sideMenu, packages>>
    BY <1>4 DEF AccountChange, TypeMail, MailIs
  <2> QED
    BY <1>1, <1>4, <2>1, MailSteps
<1>5. CASE ChangeMade \/ ChangesSavedElsewhere \/ \E r \in saveButton.pending : HasUnsavedChanges(r) \/ SetSaveChangesButton(r)
  <2>1. UNCHANGED <<form, upload, mail, sideMenu, packages>>
    BY <1>5 DEF ChangeMade, ChangesSavedElsewhere, HasUnsavedChanges, SetSaveChangesButton, SaveButtonIs
  <2> QED
    BY <1>1, <1>5, <2>1, ChangeAsked, SavedElsewhere, ServerAnswers, ButtonSet
<1>6. CASE \E name \in Folder : ShowMenu(name)
  <2>1. UNCHANGED <<form, upload, mail, saveButton, packages>>
    BY <1>6 DEF ShowMenu, MenuIs
  <2> QED
    BY <1>1, <1>6, <2>1, MenuSteps
<1>7. CASE PackageStep
  <2>1. UNCHANGED <<form, upload, mail, saveButton, sideMenu>>
    BY <1>7 DEF PackageStep, TogglePackage, TickPackage, CheckAllPackages, SendForm, SendFormBasic, SendPackages,
                FilterTable, PackagesAre
  <2> QED
    BY <1>1, <1>7, <2>1, PackageSteps
<1>8. CASE UNCHANGED scriptVars
  BY <1>1, <1>8 DEF scriptVars
<1> QED
  BY <1>2, <1>3, <1>4, <1>5, <1>6, <1>7, <1>8 DEF ScriptsNext, PackageStep

\* What forms, uploads, buttons and menus of the pages show, whatever the order of
\* clicks and answers, for any number of them.
THEOREM ScriptsKept == ScriptsSpec => []ScriptsHold
<1>1. ScriptsInv => ScriptsHold
  <2> SUFFICES ASSUME ScriptsInv PROVE ScriptsHold
    OBVIOUS
  <2>1. ~form.twice => /\ form.button = IF form.pending = 0 THEN "label" ELSE "spinner"
                       /\ Cardinality(form.shown) <= IF form.pending = 0 THEN 1 ELSE 0
    <3>1. Cardinality({}) = 0 /\ \A d : Cardinality({d}) = 1
      BY FS_EmptySet, FS_Singleton
    <3> SUFFICES ASSUME ~form.twice
                 PROVE  /\ form.button = IF form.pending = 0 THEN "label" ELSE "spinner"
                        /\ Cardinality(form.shown) <= IF form.pending = 0 THEN 1 ELSE 0
      OBVIOUS
    <3>2. CASE form.pending = 0
      <4>1. form.button = "label" /\ (form.shown = {} \/ \E d : form.shown = {d})
        BY <3>2 DEF ScriptsInv, FormKept
      <4>2. Cardinality(form.shown) \in {0, 1}
        BY <3>1, <4>1
      <4> QED
        BY <3>2, <4>1, <4>2
    <3>3. CASE form.pending # 0
      <4>1. form.button = "spinner" /\ form.shown = {}
        BY <3>3 DEF ScriptsInv, FormKept
      <4> QED
        BY <3>1, <3>3, <4>1
    <3> QED
      BY <3>2, <3>3
  <2>2. ~upload.twice => upload.enabled = (upload.pending = 0)
    BY DEF ScriptsInv, UploadKept
  <2>3. FormWillRemoveAccount <=> mail.account = "managed" /\ mail.inForm # mail.account
    BY DEF ScriptsInv, MailKept, FormWillRemoveAccount
  <2>4. saveButton.pending = {} /\ ~saveButton.overtaken /\ ~saveButton.elsewhere => saveButton.changed = saveButton.unsaved
    BY DEF ScriptsInv, LastAsked
  <2> QED
    BY <2>1, <2>2, <2>3, <2>4 DEF ScriptsHold, ScriptsInv, MenuKept, PackagesKept
<1> QED
  BY <1>1, ScriptsStart, ScriptsStep, PTL DEF ScriptsSpec

-----------------------------------------------------------------------------
(* The types of the pages' scripts, as far as their invariants say them.     *)

LEMMA LayoutTyped == LayoutInv => LayoutTypeOK
<1> SUFFICES ASSUME LayoutInv PROVE LayoutTypeOK
  OBVIOUS
<1>1. \A i \in DOMAIN boxes : boxes[i].widget \in Widget /\ boxes[i].id \in {"widget", "placeholder"}
  <2>1. boxes \in Seq(Box)
    BY DEF LayoutInv, LayoutShape
  <2>2. \A i \in DOMAIN boxes : boxes[i] \in Box
    BY <2>1
  <2>3. QED
    BY <2>2 DEF Box
<1>2. ToSet(layoutSaved) \subseteq Widget
  <2>1. layoutSaved \in Seq(Widget)
    BY DEF LayoutInv, LayoutShape
  <2>2. QED
    BY <2>1 DEF ToSet
<1>3. QED
  BY <1>1, <1>2 DEF LayoutInv, LayoutShape, LayoutTypeOK

LEMMA ModalTyped == ModalInv => ModalTypeOK
<1> SUFFICES ASSUME ModalInv PROVE ModalTypeOK
  OBVIOUS
<1>1. modal \in ModalRecord /\ rowsMade \in 0..MaxRows /\ modalRows \subseteq 1..rowsMade /\ choices \subseteq 1..rowsMade
  BY DEF ModalInv, ModalShape, RowsKept
<1>2. 1..rowsMade \subseteq ModalRow
  BY <1>1, ModalAssumption DEF ModalRow
<1>3. modal.shows \in {"none", "loading", "form", "nextPage"} /\ modal.button \in {"own", "loading"}
  BY <1>1 DEF ModalRecord
<1>4. QED
  BY <1>1, <1>2, <1>3 DEF ModalTypeOK

LEMMA ProgressTyped == ProgressInv => ProgressTypeOK
  BY DEF ProgressInv

LEMMA TreeTyped == TreeInv => TreeTypeOK
<1> SUFFICES ASSUME TreeInv PROVE TreeTypeOK
  OBVIOUS
<1>0. /\ tree \in [TreeNodes -> TreeElement] /\ copies \in [TreeNodes -> Nat]
      /\ \A n \in TreeNodes : tree[n].copy <= copies[n]
      /\ \A e \in selected : e = <<e[1], e[2]>> /\ e[1] \in TreeNodes /\ e[2] \in 1..copies[e[1]]
  BY DEF TreeInv, TreeShape, NoneAhead
<1>1. ASSUME NEW n \in TreeNodes
      PROVE  tree[n].copy \in 0..copies[n] /\ tree[n].class \in {"none", "open", "closed", "leaf"}
  <2>1. tree[n] \in TreeElement /\ tree[n].copy <= copies[n] /\ copies[n] \in Nat
    BY <1>0
  <2>2. tree[n].copy \in Nat /\ tree[n].class \in {"none", "open", "closed", "leaf"}
    BY <2>1 DEF TreeElement
  <2>3. QED
    BY <2>1, <2>2
<1>2. ASSUME NEW e \in selected PROVE e \in {<<n, k>> : n \in TreeNodes, k \in 1..copies["unit"] + copies["user"]}
  <2>1. PICK n \in TreeNodes, k \in Nat : k \in 1..copies[n] /\ e = <<n, k>>
    BY <1>0
  <2>2. copies["unit"] \in Nat /\ copies["user"] \in Nat /\ n \in {"unit", "user"}
    BY <1>0 DEF TreeNodes
  <2>3. k \in 1..copies["unit"] + copies["user"]
    BY <2>1, <2>2
  <2>4. QED
    BY <2>1, <2>3
<1>3. QED
  BY <1>1, <1>2 DEF TreeInv, TreeShape, TreeTypeOK

LEMMA ScriptsTyped == ScriptsInv => ScriptsTypeOK
  BY DEF ScriptsInv, FormShape, MenuKept, MenuRecord, PackagesKept, PackageBoxes, ScriptsTypeOK

LEMMA LayoutTypes == LayoutSpec => []LayoutTypeOK
BY LayoutInvariant, LayoutTyped, PTL

LEMMA ModalTypes == ModalSpec => []ModalTypeOK
BY ModalInvariant, ModalTyped, PTL

LEMMA ProgressTypes == ProgressSpec => []ProgressTypeOK
BY ProgressInvariant, ProgressTyped, PTL

LEMMA TreeTypes == TreeSpec => []TreeTypeOK
BY TreeStarts, TreeStep, TreeTyped, PTL DEF TreeSpec

LEMMA ScriptsTypes == ScriptsSpec => []ScriptsTypeOK
BY ScriptsStart, ScriptsStep, ScriptsTyped, PTL DEF ScriptsSpec

(* Those that need an invariant of their own: the slides, the menu of the   *)
(* combobox and the choice of mailboxes.                                    *)

LEMMA SlidesTyped == CarouselSpec => []CarouselTypeOK
<1>1. CarouselInit => CarouselTypeOK /\ slides \in Nat \ {0}
  BY CarouselAssumption DEF CarouselInit, CarouselTypeOK
<1>2. (CarouselTypeOK /\ slides \in Nat \ {0}) /\ [CarouselNext]_slideVars => (CarouselTypeOK /\ slides \in Nat \ {0})'
  <2> SUFFICES ASSUME CarouselTypeOK, slides \in Nat \ {0}, [CarouselNext]_slideVars
               PROVE  CarouselTypeOK' /\ slides' \in Nat \ {0}
    OBVIOUS
  <2>1. NextSlide \in 1..slides /\ PrevSlide \in 1..slides
    BY DEF CarouselTypeOK, NextSlide, PrevSlide
  <2>2. \A i \in 1..slides : Slide(i) => activeSlide' \in 1..slides /\ disabled' \subseteq {"left", "right"}
    BY DEF CarouselTypeOK, Slide, SlideTo, SlideToItself, Controls
  <2>3. CASE TimerSlides \/ \E control \in {"left", "right"} : ClickControl(control)
    BY <2>1, <2>2, <2>3 DEF TimerSlides, ClickControl, CarouselTypeOK
  <2>4. CASE PointerOverSlides \/ PointerOffSlides \/ UNCHANGED slideVars
    BY <2>4 DEF PointerOverSlides, PointerOffSlides, slideVars, CarouselTypeOK
  <2>5. QED
    BY <2>3, <2>4 DEF CarouselNext
<1>3. QED
  BY <1>1, <1>2, PTL DEF CarouselSpec

\* The menu offers options until they are drawn over.
MenuOffers ==
    /\ chosen \in options \union {NoLabel} /\ menu.active \in menu.items \union {NoLabel}
    /\ field.selectedItem \in Label \union {NoLabel}
    /\ ~menu.old => menu.items \subseteq options

LEMMA MenuOffersKept == ASSUME ComboShape, MenuOffers, ComboStep PROVE MenuOffers'
<1>0. \A value : Found(value) \subseteq options
  BY DEF Found
<1>1. CASE FocusField
  BY <1>1 DEF ComboShape, MenuOffers, FocusField
<1>2. CASE \E text \in Texts : Type(text)
  BY <1>2 DEF ComboShape, MenuOffers, Type
<1>3. CASE SearchTimeout
  <2>1. CASE field.term = field.text
    BY <1>3, <2>1 DEF MenuOffers, SearchTimeout
  <2>2. CASE field.term # field.text
    <3>1. menu' = Search(field.text) /\ options' = options /\ chosen' = chosen /\ field'.selectedItem = NoLabel
      BY <1>3, <2>2 DEF ComboShape, SearchTimeout
    <3>2. Search(field.text).items = Found(field.text) /\ Search(field.text).active = NoLabel
      BY DEF ComboShape, Search
    <3>3. QED
      BY <1>0, <3>1, <3>2 DEF MenuOffers
  <2>3. QED
    BY <2>1, <2>2
<1>4. CASE MoveHidden
  BY <1>0, <1>4 DEF ComboShape, MenuOffers, MoveHidden, Search
<1>5. CASE \E i \in Label : MoveTo(i)
  BY <1>5 DEF ComboShape, MenuOffers, MoveTo
<1>6. CASE MoveBeyond
  BY <1>6 DEF ComboShape, MenuOffers, MoveBeyond
<1>7. CASE \E i \in Label : Hover(i)
  BY <1>7 DEF ComboShape, MenuOffers, Hover
<1>8. CASE MouseLeaves
  BY <1>8 DEF ComboShape, MenuOffers, MouseLeaves
<1>9. CASE CollapseAll
  BY <1>9 DEF ComboShape, MenuOffers, CollapseAll
<1>10. CASE SelectItem
  BY <1>10 DEF ComboShape, MenuOffers, SelectItem, HiddenMenu
<1>11. CASE Escape
  BY <1>11 DEF ComboShape, MenuOffers, Escape, HiddenMenu
<1>12. CASE Leave
  BY <1>12 DEF ComboShape, MenuOffers, Leave, HiddenMenu, RemoveIfInvalid
<1>13. CASE ButtonClick
  BY <1>0, <1>13 DEF ComboShape, MenuOffers, ButtonClick, Search
<1>14. CASE \E ls \in SUBSET Label : Redrawn(ls)
  BY <1>14 DEF ComboShape, MenuOffers, Redrawn
<1>15. CASE UNCHANGED <<options, chosen, field, searching, menu, typedLeft, freshLeft, rethought>>
  BY <1>15 DEF MenuOffers
<1>16. QED
  BY <1>1, <1>2, <1>3, <1>4, <1>5, <1>6, <1>7, <1>8, <1>9, <1>10, <1>11, <1>12, <1>13, <1>14, <1>15 DEF ComboStep

LEMMA ComboTyped == ComboSpec => []ComboTypeOK
<1>1. ComboInit => ComboShape /\ MenuOffers
  BY DEF ComboInit, ComboShape, MenuOffers, Texts, NoMenu
<1>2. (ComboShape /\ MenuOffers) /\ [ComboNext]_comboVars => (ComboShape /\ MenuOffers)'
  BY ComboSteps, ComboShapeKept, MenuOffersKept
<1>3. ComboShape /\ MenuOffers => ComboTypeOK
  BY DEF ComboShape, MenuOffers, ComboTypeOK
<1>4. QED
  BY <1>1, <1>2, <1>3, PTL DEF ComboSpec

\* The selection, and the numbers of the estimates that were asked for.
SelectionRecord ==
    [checked : 0..2, estimate : BOOLEAN, enabled : BOOLEAN, start : BOOLEAN, loading : BOOLEAN,
     timers : SUBSET Timers, intervalId : 0..MaxEstimates, started : Nat, left : BOOLEAN]
SelectionTyped ==
    /\ doneButton \in BOOLEAN /\ selection \in SelectionRecord
    /\ \A q \in asked : q.op = "estimate" => q.id \in Nat /\ q.id + 1 \in Timers

LEMMA NoSelection == NewSelection \in SelectionRecord /\ [NewSelection EXCEPT !.left = TRUE] \in SelectionRecord
<1>1. 0 \in 0..2 /\ 0 \in 0..MaxEstimates /\ {} \in SUBSET Timers
  BY MigrationAssumption
<1>2. QED
  BY <1>1 DEF NewSelection, SelectionRecord

LEMMA SelectionStep == ASSUME SelectionTyped, [MigrationNext]_migrationVars PROVE SelectionTyped'
<1> USE MigrationAssumption
<1>1. ASSUME NEW n \in 0..2, ChangeUsers(n) PROVE SelectionTyped'
  BY <1>1 DEF SelectionTyped, SelectionRecord, ChangeUsers, Selected
<1>2. CASE EstimateMigration
  <2>1. /\ selection.started \in Nat /\ selection.started < MaxEstimates
        /\ asked' = asked \union {[op |-> "estimate", id |-> selection.started]}
    BY <1>2 DEF SelectionTyped, SelectionRecord, EstimateMigration
  <2>2. selection.started + 1 \in Timers
    BY <2>1 DEF Timers
  <2>3. selection' \in SelectionRecord /\ doneButton' = doneButton
    <3>1. PICK k \in Nat : k = selection.started + 1
      BY <2>1
    <3>2. selection' = [selection EXCEPT !.estimate = FALSE, !.loading = TRUE, !.started = k]
      BY <1>2, <3>1 DEF EstimateMigration, Selected
    <3>3. selection' \in SelectionRecord
      BY <3>1, <3>2 DEF SelectionTyped, SelectionRecord
    <3>4. QED
      BY <1>2, <3>3 DEF EstimateMigration, Selected
  <2>4. QED
    BY <2>1, <2>2, <2>3 DEF SelectionTyped
<1>3. ASSUME NEW q \in asked, NEW answer \in {"ok", "error", "failed"}, EstimateStarted(q, answer)
      PROVE  SelectionTyped'
  <2>1. q.id \in Nat /\ q.id + 1 \in Timers /\ q.id + 1 \in 0..MaxEstimates
    BY <1>3 DEF SelectionTyped, EstimateStarted, Timers
  <2>2. asked' \subseteq asked /\ doneButton' = doneButton
    BY <1>3 DEF EstimateStarted, Selected
  <2>3. CASE answer = "ok"
    <3>1. PICK k : k = q.id + 1 /\ k \in Timers /\ k \in 0..MaxEstimates
      BY <2>1
    <3>2. selection' = [selection EXCEPT !.timers = @ \union {k}, !.intervalId = k]
      BY <1>3, <2>3, <3>1 DEF EstimateStarted, Selected
    <3>3. selection' \in SelectionRecord
      BY <3>1, <3>2 DEF SelectionTyped, SelectionRecord
    <3>4. QED
      BY <2>2, <3>3 DEF SelectionTyped
  <2>4. CASE answer # "ok"
    <3>1. selection' = [selection EXCEPT !.estimate = TRUE] \/ selection' = selection
      BY <1>3, <2>4 DEF EstimateStarted, Selected
    <3>2. selection' \in SelectionRecord
      BY <3>1 DEF SelectionTyped, SelectionRecord
    <3>3. QED
      BY <2>2, <3>2 DEF SelectionTyped
  <2>5. QED
    BY <2>3, <2>4
<1>4. ASSUME NEW t \in Timers, EstimateUpdate(t) PROVE SelectionTyped'
  BY <1>4 DEF SelectionTyped, EstimateUpdate, Selected
<1>5. ASSUME NEW q \in asked, NEW done \in BOOLEAN, EstimateUpdated(q, done) PROVE SelectionTyped'
  BY <1>5 DEF SelectionTyped, SelectionRecord, EstimateUpdated, Selected
<1>6. CASE StartMigration
  BY <1>6, NoSelection DEF SelectionTyped, StartMigration, Selected
<1>7. ASSUME NEW u \in Mailbox, MailboxAdvances(u) PROVE SelectionTyped'
  BY <1>7 DEF SelectionTyped, MailboxAdvances
<1>8. ASSUME NEW u \in Mailbox, DiscardMailbox(u) \/ ActivateMailbox(u) PROVE SelectionTyped'
  BY <1>8 DEF SelectionTyped, DiscardMailbox, ActivateMailbox, Ask
<1>9. CASE Progress
  BY <1>9 DEF SelectionTyped, Progress, Ask
<1>10. ASSUME NEW q \in asked, Answers(q) \/ Obeys(q) \/ Refuses(q) PROVE SelectionTyped'
  BY <1>10 DEF SelectionTyped, Answers, Obeys, Refuses
<1>11. ASSUME NEW q \in asked, ShowsProgress(q) PROVE SelectionTyped'
  <2>1. \A rows : AllStopped(rows) \in BOOLEAN
    BY DEF AllStopped
  <2>2. doneButton' \in BOOLEAN
    BY <1>11, <2>1 DEF SelectionTyped, ShowsProgress
  <2>3. QED
    BY <1>11, <2>2 DEF SelectionTyped, ShowsProgress
<1>12. ASSUME NEW q \in asked, ShowsObeyed(q) PROVE SelectionTyped'
  BY <1>12 DEF SelectionTyped, ShowsObeyed, AllStopped
<1>13. CASE UNCHANGED migrationVars
  BY <1>13 DEF SelectionTyped, migrationVars
<1>14. QED
  BY <1>1, <1>2, <1>3, <1>4, <1>5, <1>6, <1>7, <1>8, <1>9, <1>10, <1>11, <1>12, <1>13 DEF MigrationNext

LEMMA MigrationTyped == MigrationSpec => []MigrationTypeOK
<1>1. MigrationInit => SelectionTyped
  BY NoSelection DEF MigrationInit, SelectionTyped
<1>2. SelectionTyped /\ [MigrationNext]_migrationVars => SelectionTyped'
  BY SelectionStep
<1>3. MigrationInv /\ SelectionTyped => MigrationTypeOK
  BY DEF MigrationInv, StatesOK, RowState, SelectionTyped, SelectionRecord, MigrationTypeOK
<1>4. QED
  BY <1>1, <1>2, <1>3, MigrationInvariant, PTL DEF MigrationSpec

-----------------------------------------------------------------------------
(* The sections of the dashboard.                                           *)

LEMMA FirstNumber == ASSUME NEW S, S \subseteq Nat, S # {} PROVE \E m \in S : \A x \in S : m <= x
<1>1. PICK m \in S : \A x \in Nat : <<x, m>> \in OpToRel(<, Nat) => x \notin S
  BY WFMin, NatLessThanWellFounded
<1>2. \A x, y \in Nat : x < y => <<x, y>> \in OpToRel(<, Nat)
  BY DEF OpToRel
<1>3. \A x \in S : ~(x < m)
  BY <1>1, <1>2
<1>4. QED
  BY <1>3

\* Sections in the document, whatever their elements are called, and requests
\* about them.
SectionRecord(E) == [name : Section, element : E, fading : BOOLEAN, status : Statuses \union {Unknown}]
WidgetAnswer == [sections : SUBSET Section, status : [Section -> Statuses \union {Unknown}]]
WidgetCall(E) == [op : {"widget"}, id : Nat, answer : WidgetAnswer]
                 \union [op : {"section"}, section : Section, element : E, answer : WidgetAnswer]
SectionsInv ==
    /\ \E E : shownSections \in Seq(SectionRecord(E)) /\ widgetCalls \subseteq WidgetCall(E)
    /\ statusInfo \in [Section -> Statuses \union {Unknown}]
    /\ service \in WidgetAnswer /\ changesLeft \in 0..MaxServerChanges

LEMMA SectionsIncrease ==
  ASSUME NEW E, NEW F, E \subseteq F
  PROVE  SectionRecord(E) \subseteq SectionRecord(F) /\ WidgetCall(E) \subseteq WidgetCall(F)
         /\ Seq(SectionRecord(E)) \subseteq Seq(SectionRecord(F))
<1>1. SectionRecord(E) \subseteq SectionRecord(F)
  BY DEF SectionRecord
<1>2. WidgetCall(E) \subseteq WidgetCall(F)
  BY DEF WidgetCall
<1>3. Seq(SectionRecord(E)) \subseteq Seq(SectionRecord(F))
  <2>1. ASSUME NEW s \in Seq(SectionRecord(E)) PROVE s \in Seq(SectionRecord(F))
    <3>1. PICK n \in Nat : s \in [1..n -> SectionRecord(E)]
      OBVIOUS
    <3>2. s \in [1..n -> SectionRecord(F)]
      BY <1>1, <3>1
    <3>3. QED
      BY <3>2
  <2>2. QED
    BY <2>1
<1>4. QED
  BY <1>1, <1>2, <1>3

\* A section that is put in its place is one of the sections.
LEMMA SectionPut ==
  ASSUME NEW E, NEW secs \in Seq(SectionRecord(E)), NEW s \in Section, NEW prev
  PROVE  \E F : E \subseteq F /\ PutSection(secs, s, prev) \in Seq(SectionRecord(F))
<1>1. PICK e : e = FreeElement(secs)
  OBVIOUS
<1> DEFINE F == E \union {e}
           new == [name |-> s, element |-> e, fading |-> FALSE, status |-> Unknown]
           at == IF prev = Unknown THEN 0 ELSE SelectInSeq(secs, LAMBDA x : x.name = prev)
<1>2. E \subseteq F /\ new \in SectionRecord(F)
  BY DEF SectionRecord
<1>3. secs \in Seq(SectionRecord(F))
  BY <1>2, SectionsIncrease
<1>4. at \in 0..Len(secs)
  <2> DEFINE I == {i \in 1..Len(secs) : secs[i].name = prev}
  <2>1. CASE prev = Unknown \/ I = {}
    BY <2>1 DEF SelectInSeq
  <2>2. CASE prev # Unknown /\ I # {}
    <3>1. at = Min(I)
      BY <2>2 DEF SelectInSeq
    <3>2. I \subseteq Nat /\ I \subseteq 1..Len(secs)
      OBVIOUS
    <3>3. Min(I) \in I
      <4> HIDE DEF I
      <4>1. \E m \in I : \A k \in I : m <= k
        BY <2>2, <3>2, FirstNumber
      <4>2. QED
        BY <4>1 DEF Min
    <3>4. QED
      BY <3>1, <3>2, <3>3
  <2>3. QED
    BY <2>1, <2>2
<1>5. PutSection(secs, s, prev) = InsertAt(secs, at + 1, new)
  BY <1>1 DEF PutSection
<1> HIDE DEF at, new, F
<1>6. at + 1 \in 1..(Len(secs) + 1)
  BY <1>4
<1>7. InsertAt(secs, at + 1, new) \in Seq(SectionRecord(F))
  BY <1>2, <1>3, <1>6, InsertAtInserts
<1>8. QED
  BY <1>2, <1>5, <1>7

\* What a number of sections put so far must be.
PutRight(acc) == \E F : acc.secs \in Seq(SectionRecord(F)) /\ acc = [secs |-> acc.secs, prev |-> acc.prev, new |-> acc.new]

LEMMA SectionsPut ==
  ASSUME NEW E, NEW secs \in Seq(SectionRecord(E)), NEW names, NEW n \in Nat, Len(AllSections) = n,
         \A i \in 1..n : AllSections[i] \in Section
  PROVE  \E F : WithSections(secs, names).secs \in Seq(SectionRecord(F))
<1> DEFINE step(acc, s) == IF \E i \in DOMAIN acc.secs : acc.secs[i].name = s
                           THEN [acc EXCEPT !.prev = s]
                           ELSE [secs |-> PutSection(acc.secs, s, acc.prev), prev |-> s, new |-> Append(acc.new, s)]
           base == [secs |-> secs, prev |-> Unknown, new |-> <<>>]
           next(i, acc) == IF AllSections[i] \in names THEN step(acc, AllSections[i]) ELSE acc
           Puts(f, m) == \A i \in 0..m : f[i] = IF i = 0 THEN base ELSE next(i, f[i - 1])
           Bad == {m \in 0..n : ~\E f : f = [i \in 0..m |-> f[i]] /\ Puts(f, m)}
<1>1. PutRight(base)
  BY DEF PutRight
<1>2. ASSUME NEW acc, PutRight(acc), NEW s \in Section PROVE PutRight(step(acc, s))
  <2>1. PICK F : acc.secs \in Seq(SectionRecord(F)) /\ acc = [secs |-> acc.secs, prev |-> acc.prev, new |-> acc.new]
    BY <1>2 DEF PutRight
  <2>2. CASE \E i \in DOMAIN acc.secs : acc.secs[i].name = s
    <3>1. step(acc, s) = [secs |-> acc.secs, prev |-> s, new |-> acc.new]
      BY <2>1, <2>2
    <3>2. QED
      BY <2>1, <3>1 DEF PutRight
  <2>3. CASE ~\E i \in DOMAIN acc.secs : acc.secs[i].name = s
    <3>1. PICK G : PutSection(acc.secs, s, acc.prev) \in Seq(SectionRecord(G))
      BY <1>2, <2>1, SectionPut
    <3>2. step(acc, s) = [secs |-> PutSection(acc.secs, s, acc.prev), prev |-> s, new |-> Append(acc.new, s)]
      BY <2>3
    <3>3. QED
      BY <3>1, <3>2 DEF PutRight
  <2>4. QED
    BY <2>2, <2>3
<1> HIDE DEF step
<1>3. ASSUME NEW acc, PutRight(acc), NEW i \in 1..n PROVE PutRight(next(i, acc))
  BY <1>2, <1>3
<1> HIDE DEF next, base
<1>4. Bad = {}
  <2>1. SUFFICES ASSUME Bad # {} PROVE FALSE
    OBVIOUS
  <2>2. PICK m \in Bad : \A x \in Bad : m <= x
    <3>1. Bad \subseteq Nat
      OBVIOUS
    <3> HIDE DEF Bad
    <3>2. QED
      BY <2>1, <3>1, FirstNumber
  <2>3. CASE m = 0
    <3> DEFINE f == [i \in 0..0 |-> base]
    <3>1. f = [i \in 0..0 |-> f[i]] /\ Puts(f, 0)
      OBVIOUS
    <3> HIDE DEF f
    <3>2. QED
      BY <2>2, <2>3, <3>1
  <2>4. CASE m # 0
    <3>1. m - 1 \in 0..n /\ m - 1 \notin Bad /\ m \in 1..n
      <4>1. m \in 0..n /\ m - 1 \in 0..n /\ ~(m <= m - 1) /\ m \in 1..n
        BY <2>2, <2>4
      <4> HIDE DEF Bad
      <4>2. QED
        BY <2>2, <4>1
    <3>2. PICK f : f = [i \in 0..(m - 1) |-> f[i]] /\ Puts(f, m - 1)
      <4> HIDE DEF Puts
      <4>1. QED
        BY <3>1
    <3> DEFINE g == [i \in 0..m |-> IF i = m THEN next(m, f[m - 1]) ELSE f[i]]
    <3>3. \A i \in 0..m : i # m => i \in 0..(m - 1)
      BY <3>1
    <3>4. ASSUME NEW i \in 0..m PROVE g[i] = IF i = 0 THEN base ELSE next(i, g[i - 1])
      <4>1. i # 0 => i - 1 \in 0..m /\ i - 1 # m
        BY <3>1
      <4>2. QED
        BY <2>4, <3>2, <3>3, <4>1
    <3>5. g = [i \in 0..m |-> g[i]]
      OBVIOUS
    <3> HIDE DEF g
    <3>6. QED
      BY <2>2, <3>4, <3>5
  <2>5. QED
    BY <2>3, <2>4
<1> DEFINE Ends(f) == f = [i \in 0..n |-> IF i = 0 THEN base ELSE next(i, f[i - 1])]
<1>5. \E f : Ends(f)
  <2>1. n \in 0..n
    OBVIOUS
  <2>2. PICK f : f = [i \in 0..n |-> f[i]] /\ Puts(f, n)
    <3> HIDE DEF Puts
    <3>1. QED
      BY <1>4, <2>1
  <2>3. Ends(f)
    <3> DEFINE g == [i \in 0..n |-> IF i = 0 THEN base ELSE next(i, f[i - 1])]
    <3>1. \A i \in 0..n : f[i] = g[i]
      BY <2>2
    <3>2. g = [i \in 0..n |-> g[i]]
      OBVIOUS
    <3> HIDE DEF g
    <3>3. f = g
      BY <2>2, <3>1, <3>2
    <3>4. QED
      BY <3>3 DEF g
  <2> HIDE DEF Ends
  <2>4. QED
    BY <2>3
<1> DEFINE put == CHOOSE f : Ends(f)
<1>6. Ends(put)
  <2> HIDE DEF Ends
  <2>1. QED
    BY <1>5
<1>7. WithSections(secs, names) = put[n]
  BY DEF WithSections, base, next, step
<1>8. \A i \in 0..n : put[i] = IF i = 0 THEN base ELSE next(i, put[i - 1])
  <2> HIDE DEF put
  <2>1. QED
    BY <1>6
<1> HIDE DEF put, Ends
<1>9. \A i \in 0..n : PutRight(put[i])
  <2> DEFINE Wrong == {i \in 0..n : ~PutRight(put[i])}
  <2>1. SUFFICES ASSUME Wrong # {} PROVE FALSE
    OBVIOUS
  <2>2. PICK m \in Wrong : \A x \in Wrong : m <= x
    <3>1. Wrong \subseteq Nat
      OBVIOUS
    <3> HIDE DEF Wrong
    <3>2. QED
      BY <2>1, <3>1, FirstNumber
  <2>3. CASE m = 0
    BY <1>1, <1>8, <2>2, <2>3
  <2>4. CASE m # 0
    <3>1. m \in 1..n /\ m - 1 \in 0..n /\ ~(m <= m - 1)
      BY <2>2, <2>4
    <3>2. PutRight(put[m - 1])
      BY <2>2, <3>1
    <3>3. PutRight(next(m, put[m - 1]))
      BY <1>3, <3>1, <3>2
    <3>4. QED
      BY <1>8, <2>2, <2>4, <3>3
  <2>5. QED
    BY <2>3, <2>4
<1>10. PutRight(put[n])
  BY <1>9
<1>11. QED
  BY <1>7, <1>10 DEF PutRight

\* Sections changed where they are are sections.
LEMMA SectionsChanged ==
  ASSUME NEW E, NEW secs \in Seq(SectionRecord(E)), NEW changed,
         changed = [i \in DOMAIN secs |-> changed[i]], \A i \in DOMAIN secs : changed[i] \in SectionRecord(E)
  PROVE  changed \in Seq(SectionRecord(E))
<1>1. DOMAIN secs = 1..Len(secs) /\ Len(secs) \in Nat
  OBVIOUS
<1>2. changed \in [1..Len(secs) -> SectionRecord(E)]
  BY <1>1
<1>3. QED
  BY <1>1, <1>2

LEMMA UpdateKeeps == ASSUME SectionsInv, NEW q \in widgetCalls, UpdateWidget(q), NEW n \in Nat, Len(AllSections) = n,
                            \A i \in 1..n : AllSections[i] \in Section
                     PROVE  SectionsInv'
<1> PICK E : shownSections \in Seq(SectionRecord(E)) /\ widgetCalls \subseteq WidgetCall(E)
  BY DEF SectionsInv
<1> DEFINE a == q.answer
           fading == [i \in DOMAIN shownSections |->
                         [shownSections[i] EXCEPT !.fading = @ \/ shownSections[i].name \notin a.sections]]
           put == WithSections(fading, a.sections)
           old == {s \in a.sections : ~Contains(put.new, s)}
           secs == [i \in DOMAIN put.secs |-> IF put.secs[i].name \in old
                                              THEN StatusUpdated(put.secs[i], a) ELSE put.secs[i]]
           calls == {[op |-> "section", section |-> x.name, element |-> x.element, answer |-> NoAnswer] :
                        x \in {y \in ToSet(put.secs) : Contains(put.new, y.name)}}
<1>1. a \in WidgetAnswer /\ NoAnswer \in WidgetAnswer
  BY DEF WidgetCall, WidgetAnswer, NoAnswer
<1>2. /\ shownSections' = secs /\ widgetCalls' = (widgetCalls \ {q}) \union calls
      /\ statusInfo' = [s \in Section |-> IF s \in old THEN a.status[s] ELSE statusInfo[s]]
      /\ UNCHANGED <<service, changesLeft>>
  BY DEF UpdateWidget
<1>3. fading \in Seq(SectionRecord(E))
  <2>1. \A i \in DOMAIN shownSections : shownSections[i] \in SectionRecord(E)
    OBVIOUS
  <2>2. \A i \in DOMAIN shownSections : fading[i] \in SectionRecord(E)
    BY <2>1 DEF SectionRecord
  <2>3. fading = [i \in DOMAIN shownSections |-> fading[i]]
    OBVIOUS
  <2> HIDE DEF fading
  <2>4. QED
    BY <2>2, <2>3, SectionsChanged
<1> HIDE DEF fading
<1>4. PICK G : put.secs \in Seq(SectionRecord(G))
  BY <1>3, SectionsPut
<1> HIDE DEF put
<1> PICK F : F = E \union G
  OBVIOUS
<1>5. put.secs \in Seq(SectionRecord(F)) /\ widgetCalls \subseteq WidgetCall(F)
  <2>1. E \subseteq F /\ G \subseteq F
    OBVIOUS
  <2>2. QED
    BY <1>4, <2>1, SectionsIncrease
<1>6. secs \in Seq(SectionRecord(F))
  <2>1. \A i \in DOMAIN put.secs : put.secs[i] \in SectionRecord(F)
    BY <1>5
  <2>2. \A s \in Section : a.status[s] \in Statuses \union {Unknown}
    BY <1>1 DEF WidgetAnswer
  <2>3. \A i \in DOMAIN put.secs : secs[i] \in SectionRecord(F)
    <3> HIDE DEF a, old
    <3>1. QED
      BY <2>1, <2>2 DEF SectionRecord, StatusUpdated
  <2>4. secs = [i \in DOMAIN put.secs |-> secs[i]]
    OBVIOUS
  <2> HIDE DEF secs
  <2>5. QED
    BY <1>5, <2>3, <2>4, SectionsChanged
<1>7. calls \subseteq WidgetCall(F)
  <2>1. \A x \in ToSet(put.secs) : x \in SectionRecord(F)
    BY <1>5 DEF ToSet
  <2>2. QED
    BY <1>1, <2>1 DEF WidgetCall, SectionRecord
<1>8. statusInfo' \in [Section -> Statuses \union {Unknown}]
  <2>1. \A s \in Section : a.status[s] \in Statuses \union {Unknown} /\ statusInfo[s] \in Statuses \union {Unknown}
    BY <1>1 DEF WidgetAnswer, SectionsInv
  <2> HIDE DEF a, old
  <2>2. QED
    BY <1>2, <2>1
<1> HIDE DEF calls, secs
<1>9. shownSections' \in Seq(SectionRecord(F)) /\ widgetCalls' \subseteq WidgetCall(F)
  BY <1>2, <1>5, <1>6, <1>7
<1>10. QED
  BY <1>2, <1>8, <1>9 DEF SectionsInv

\* The sections in some order are sections.
LEMMA SectionsOrdered == Len(AllSections) \in Nat /\ \A i \in 1..Len(AllSections) : AllSections[i] \in Section
<1> DEFINE n == Cardinality(Section)
<1>1. n \in Nat /\ ExistsBijection(1..n, Section)
  BY DashboardAssumption, FS_CardinalityType
<1>2. PICK g \in [1..n -> Section] : IsInjective(g)
  BY <1>1 DEF ExistsBijection, Bijection, Injection
<1>3. PICK f : f = AllSections
  OBVIOUS
<1>4. f \in [1..n -> Section]
  BY <1>2, <1>3 DEF AllSections, SetToSeq
<1>5. f \in Seq(Section) /\ Len(f) = n
  BY <1>1, <1>4, SeqDef
<1>6. QED
  BY <1>1, <1>3, <1>4, <1>5

LEMMA SectionsStart == DashboardInit => SectionsInv
<1> SUFFICES ASSUME DashboardInit PROVE SectionsInv
  OBVIOUS
<1>1. PICK n \in Nat : n = Len(AllSections) /\ \A i \in 1..n : AllSections[i] \in Section
  BY SectionsOrdered
<1>2. shownSections = [i \in 1..n |-> [name |-> AllSections[i], element |-> i, fading |-> FALSE, status |-> "running"]]
  BY <1>1 DEF DashboardInit
<1>3. \A i \in 1..n : [name |-> AllSections[i], element |-> i, fading |-> FALSE, status |-> "running"] \in SectionRecord(Nat)
  BY <1>1 DEF SectionRecord, Statuses
<1>4. shownSections \in [1..n -> SectionRecord(Nat)]
  BY <1>2, <1>3
<1>5. shownSections \in Seq(SectionRecord(Nat))
  BY <1>4
<1>6. service \in WidgetAnswer /\ statusInfo \in [Section -> Statuses \union {Unknown}]
  BY DEF DashboardInit, WidgetAnswer, Statuses
<1>7. widgetCalls \subseteq WidgetCall(Nat) /\ changesLeft \in 0..MaxServerChanges
  BY DashboardAssumption DEF DashboardInit
<1>8. QED
  BY <1>5, <1>6, <1>7 DEF SectionsInv

LEMMA SectionsStep == ASSUME SectionsInv, [DashboardNext]_dashboardVars PROVE SectionsInv'
<1> PICK E : shownSections \in Seq(SectionRecord(E)) /\ widgetCalls \subseteq WidgetCall(E)
  BY DEF SectionsInv
<1>0. /\ statusInfo \in [Section -> Statuses \union {Unknown}] /\ service \in WidgetAnswer
      /\ changesLeft \in 0..MaxServerChanges /\ MaxServerChanges \in Nat
  BY DashboardAssumption DEF SectionsInv
<1>1. ASSUME NEW s \in Section, ServerChanges(s) PROVE SectionsInv'
  <2>1. changesLeft' \in 0..MaxServerChanges /\ UNCHANGED <<shownSections, statusInfo, widgetCalls>>
    BY <1>0, <1>1 DEF ServerChanges, PageUnchanged
  <2>2. service' \in WidgetAnswer
    <3>1. CASE service' = [service EXCEPT !.sections = SymDiff(@, {s})]
      <4>1. SymDiff(service.sections, {s}) \in SUBSET Section
        BY <1>0 DEF SymDiff, WidgetAnswer
      <4>2. QED
        BY <1>0, <3>1, <4>1 DEF WidgetAnswer
    <3>2. CASE \E x \in Statuses \ {service.status[s]} : service' = [service EXCEPT !.status[s] = x]
      BY <1>0, <3>2 DEF WidgetAnswer
    <3>3. QED
      BY <1>1, <3>1, <3>2 DEF ServerChanges
  <2>3. QED
    BY <1>0, <2>1, <2>2 DEF SectionsInv
<1>2. CASE UpdateWidgets
  <2>1. PICK i \in 1..MaxPolls : widgetCalls' = widgetCalls \union {[op |-> "widget", id |-> i, answer |-> NoAnswer]}
    BY <1>2 DEF UpdateWidgets
  <2>2. NoAnswer \in WidgetAnswer
    BY DEF WidgetAnswer, NoAnswer
  <2>3. [op |-> "widget", id |-> i, answer |-> NoAnswer] \in WidgetCall(E)
    BY <2>2 DEF WidgetCall
  <2>4. QED
    BY <1>0, <1>2, <2>1, <2>3 DEF SectionsInv, UpdateWidgets, PageUnchanged
<1>3. ASSUME NEW q \in widgetCalls, WidgetJSON(q) PROVE SectionsInv'
  <2>1. [q EXCEPT !.answer = service] \in WidgetCall(E)
    BY <1>0 DEF WidgetCall
  <2>2. QED
    BY <1>0, <1>3, <2>1 DEF SectionsInv, WidgetJSON, PageUnchanged
<1>4. ASSUME NEW q \in widgetCalls, WidgetCallFails(q) PROVE SectionsInv'
  BY <1>0, <1>4 DEF SectionsInv, WidgetCallFails, PageUnchanged
<1>5. ASSUME NEW q \in widgetCalls, UpdateWidget(q) PROVE SectionsInv'
  BY <1>5, UpdateKeeps, SectionsOrdered
<1>6. ASSUME NEW q \in widgetCalls, SectionLoaded(q) PROVE SectionsInv'
  <2>1. PICK x : x = q.answer.status[q.section] /\ x \in Statuses \union {Unknown}
    BY <1>6 DEF SectionLoaded, WidgetCall, WidgetAnswer
  <2> DEFINE secs == [i \in DOMAIN shownSections |-> IF shownSections[i].element = q.element
                        THEN [shownSections[i] EXCEPT !.status = x] ELSE shownSections[i]]
  <2>2. \A i \in DOMAIN shownSections : secs[i] \in SectionRecord(E)
    <3>1. \A i \in DOMAIN shownSections : shownSections[i] \in SectionRecord(E)
      OBVIOUS
    <3>2. QED
      BY <2>1, <3>1 DEF SectionRecord
  <2>3. secs = [i \in DOMAIN shownSections |-> secs[i]]
    OBVIOUS
  <2>4. shownSections' = secs
    BY <1>6, <2>1 DEF SectionLoaded
  <2> HIDE DEF secs
  <2>5. secs \in Seq(SectionRecord(E))
    BY <2>2, <2>3, SectionsChanged
  <2>6. QED
    BY <1>0, <1>6, <2>4, <2>5 DEF SectionsInv, SectionLoaded
<1>7. ASSUME NEW s \in Section, FadedOut(s) PROVE SectionsInv'
  <2>1. PICK i \in DOMAIN shownSections : shownSections' = RemoveAt(shownSections, i)
    BY <1>7 DEF FadedOut
  <2>2. i \in 1..Len(shownSections)
    OBVIOUS
  <2>3. shownSections' \in Seq(SectionRecord(E))
    BY <2>1, <2>2, RemoveAtRemoves
  <2>4. QED
    BY <1>0, <1>7, <2>3 DEF SectionsInv, FadedOut
<1>8. CASE UNCHANGED dashboardVars
  BY <1>0, <1>8 DEF SectionsInv, dashboardVars
<1>9. QED
  BY <1>1, <1>2, <1>3, <1>4, <1>5, <1>6, <1>7, <1>8 DEF DashboardNext

LEMMA SectionsTyped == DashboardSpec => []DashboardTypeOK
<1>1. SectionsInv => DashboardTypeOK
  <2> SUFFICES ASSUME SectionsInv PROVE DashboardTypeOK
    OBVIOUS
  <2> PICK E : shownSections \in Seq(SectionRecord(E))
    BY DEF SectionsInv
  <2>1. \A i \in DOMAIN shownSections : shownSections[i] \in SectionRecord(E)
    OBVIOUS
  <2>2. QED
    BY <2>1 DEF SectionsInv, SectionRecord, WidgetAnswer, DashboardTypeOK
<1>2. QED
  BY <1>1, SectionsStart, SectionsStep, PTL DEF DashboardSpec
=============================================================================
