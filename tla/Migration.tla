------------------------------ MODULE Migration ------------------------------
(***************************************************************************)
(* The two pages of a migration of mailboxes, openchange.js: the choice of *)
(* mailboxes with the estimate of the time it takes, and the progress of   *)
(* every mailbox, which is polled while mailboxes are discarded or         *)
(* activated.  The server is no part of the repository: it takes a mailbox *)
(* from waiting to ongoing and copied, and obeys the buttons.              *)
(***************************************************************************)
EXTENDS Naturals, FiniteSets

CONSTANTS
    Mailbox,       \* user names of the mailboxes
    MaxAsked,      \* bound: requests on their way at once
    MaxEstimates   \* bound: estimates that are started

ASSUME MigrationAssumption == MaxEstimates \in Nat

VARIABLES
    migration,     \* server: the state of every mailbox
    rowState,      \* page: the state that setProgressStatus() showed last
    doneButton,    \* page: whether DONE is shown
    asked,         \* requests on their way, and their answers
    selection      \* the page before: its buttons, its timers and estimateIntervalId

migrationVars == <<migration, rowState, doneButton, asked, selection>>

Unset == "unset"
Timers == 1..MaxEstimates

NewSelection == [checked |-> 0, estimate |-> FALSE, enabled |-> FALSE, start |-> FALSE, loading |-> FALSE,
                 timers |-> {}, intervalId |-> 0, started |-> 0, left |-> FALSE]

MigrationInit ==
    /\ migration = [u \in Mailbox |-> "waiting"]
    /\ rowState = [u \in Mailbox |-> Unset]
    /\ doneButton = FALSE
    /\ asked = {}
    /\ selection = NewSelection

------------------------------------------------------------------------------
\* The mailboxes are selected, and the estimate asked for until it is done.

Selecting == ~selection.left
Selected(s) == selection' = s /\ UNCHANGED <<migration, rowState, doneButton>>

\* changeUsers() shows the button of the estimate again, whatever goes on.
ChangeUsers(nChecked) ==
    /\ Selecting /\ nChecked # selection.checked
    /\ Selected(IF nChecked = 0 THEN [selection EXCEPT !.checked = 0, !.enabled = FALSE]
                ELSE [selection EXCEPT !.checked = nChecked, !.enabled = TRUE, !.estimate = TRUE, !.start = FALSE])
    /\ UNCHANGED asked

EstimateMigration ==
    /\ Selecting /\ selection.estimate /\ selection.enabled /\ selection.started < MaxEstimates
    /\ Selected([selection EXCEPT !.estimate = FALSE, !.loading = TRUE, !.started = @ + 1])
    /\ asked' = asked \union {[op |-> "estimate", id |-> selection.started]}

\* Only success has a callback; a second estimate loses the timer of the first.
EstimateStarted(q, answer) ==
    /\ Selecting /\ q.op = "estimate" /\ asked' = asked \ {q}
    /\ Selected(CASE answer = "ok" -> [selection EXCEPT !.timers = @ \union {q.id + 1}, !.intervalId = q.id + 1]
                  [] answer = "error" -> [selection EXCEPT !.estimate = TRUE]
                  [] answer = "failed" -> selection)

\* estimateUpdate(): asked by a timer, answered at once or after others.
EstimateUpdate(t) ==
    /\ Selecting /\ t \in selection.timers
    /\ asked' = asked \union {[op |-> "estimateUpdate", id |-> t]}
    /\ Selected(selection)

EstimateUpdated(q, done) ==
    /\ Selecting /\ q.op = "estimateUpdate" /\ asked' = asked \ {q}
    /\ Selected(IF done THEN [selection EXCEPT !.loading = FALSE, !.start = TRUE,
                                               !.timers = @ \ {selection.intervalId}]
                ELSE selection)

StartMigration ==
    /\ Selecting /\ selection.start
    /\ Selected([NewSelection EXCEPT !.left = TRUE])
    /\ asked' = {}

------------------------------------------------------------------------------
\* The progress page.

MailboxAdvances(u) ==
    /\ ~Selecting
    /\ \/ migration[u] = "waiting" /\ migration' = [migration EXCEPT ![u] = "ongoing"]
       \/ migration[u] = "ongoing" /\ migration' = [migration EXCEPT ![u] = "copied"]
    /\ UNCHANGED <<rowState, doneButton, asked, selection>>

\* The buttons of a row are part of its state.
DiscardEnabled(u) == rowState[u] \in {"waiting", "ongoing", "copied"}
ActivateEnabled(u) == rowState[u] = "copied"

Ask(q) ==
    /\ ~Selecting /\ Cardinality(asked) < MaxAsked /\ q \notin asked
    /\ asked' = asked \union {q}
    /\ UNCHANGED <<migration, rowState, doneButton, selection>>

Progress == \E i \in 1..2 : Ask([op |-> "progress", id |-> i])
DiscardMailbox(u) == DiscardEnabled(u) /\ Ask([op |-> "discard", user |-> u])
ActivateMailbox(u) == ActivateEnabled(u) /\ Ask([op |-> "activate", user |-> u])

\* The server answers with the state of every mailbox, or obeys a button, or
\* answers with an error or a warning, which the page only shows as a message.
Answers(q) ==
    /\ q.op = "progress" /\ asked' = (asked \ {q}) \union {[op |-> "progressed", id |-> q.id, users |-> migration]}
    /\ UNCHANGED <<migration, rowState, doneButton, selection>>

Obeys(q) ==
    /\ \/ q.op = "discard" /\ migration[q.user] \in {"waiting", "ongoing", "copied"}
       \/ q.op = "activate" /\ migration[q.user] = "copied"
    /\ LET state == IF q.op = "discard" THEN "cancelled" ELSE "migrated"
       IN  /\ migration' = [migration EXCEPT ![q.user] = state]
           /\ asked' = (asked \ {q}) \union {[op |-> "obeyed", user |-> q.user, state |-> state]}
    /\ UNCHANGED <<rowState, doneButton, selection>>

Refuses(q) ==
    /\ q.op \in {"progress", "discard", "activate"} /\ asked' = asked \ {q}
    /\ UNCHANGED <<migration, rowState, doneButton, selection>>

\* A row has the class "stopped" when its mailbox is copied, too.
Stopped(rows, u) == rows[u] \in {"migrated", "cancelled", "copied"}

AnyStopped(rows) == \E u \in Mailbox : Stopped(rows, u) \* mutant

\* updateDone()
AllStopped(rows) == \A u \in Mailbox : Stopped(rows, u)

\* setProgressStatus() of one mailbox after the other; each that is migrated
\* or cancelled looks at all the rows, those not yet set with their old state.
ShowsProgress(q) ==
    /\ q.op = "progressed" /\ asked' = asked \ {q}
    /\ rowState' = q.users
    /\ \E order \in [1..Cardinality(Mailbox) -> Mailbox] :
          /\ \A i, j \in DOMAIN order : i # j => order[i] # order[j]
          /\ LET rows(i) == [u \in Mailbox |-> IF \E j \in 1..i : order[j] = u THEN q.users[u] ELSE rowState[u]]
                 looks == {i \in DOMAIN order : q.users[order[i]] \in {"migrated", "cancelled"}}
             IN  doneButton' = IF looks = {} THEN doneButton
                               ELSE AllStopped(rows(CHOOSE i \in looks : \A j \in looks : j <= i))
    /\ UNCHANGED <<migration, selection>>

ShowsObeyed(q) ==
    /\ q.op = "obeyed" /\ asked' = asked \ {q}
    /\ rowState' = [rowState EXCEPT ![q.user] = q.state]
    /\ doneButton' = AllStopped(rowState')
    /\ UNCHANGED <<migration, selection>>

MigrationNext ==
    \/ \E n \in 0..2 : ChangeUsers(n)
    \/ EstimateMigration \/ StartMigration
    \/ \E t \in Timers : EstimateUpdate(t)
    \/ \E u \in Mailbox : MailboxAdvances(u) \/ DiscardMailbox(u) \/ ActivateMailbox(u)
    \/ Progress
    \/ \E q \in asked :
          \/ \E answer \in {"ok", "error", "failed"} : EstimateStarted(q, answer)
          \/ \E done \in BOOLEAN : EstimateUpdated(q, done)
          \/ Answers(q) \/ Obeys(q) \/ Refuses(q) \/ ShowsProgress(q) \/ ShowsObeyed(q)

MigrationSpec == MigrationInit /\ [][MigrationNext]_migrationVars
------------------------------------------------------------------------------
MailboxState == {"waiting", "ongoing", "copied", "migrated", "cancelled"}

\* Types of the two pages and of the server's states.
MigrationTypeOK ==
    /\ migration \in [Mailbox -> MailboxState] /\ rowState \in [Mailbox -> MailboxState \union {Unset}]
    /\ doneButton \in BOOLEAN
    /\ selection.timers \subseteq Timers /\ selection.intervalId \in 0..MaxEstimates

\* DONE leads to the end of the whole migration.  Although answers come late
\* and set rows back to older states, it is never shown while the server has
\* a mailbox still to copy.
DoneMeansCopied ==
    doneButton => \A u \in Mailbox : migration[u] \in {"copied", "migrated", "cancelled"}

==============================================================================
