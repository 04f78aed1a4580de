----------------------------- MODULE ProgressPage -----------------------------
(***************************************************************************)
(* A long action and the page that follows it.  The process of the action  *)
(* keeps its progress in a file (EBox::ProgressIndicator over              *)
(* EBox::Util::SHM), which it reads, truncates and writes for every key it *)
(* sets; the page (progress.js) polls what the file says at an interval,   *)
(* without waiting for the answer to the poll before.                      *)
(***************************************************************************)
EXTENDS Naturals, Integers, Sequences

CONSTANTS
    Poll,        \* requests of the page that may be on their way at once
    MaxTicks,    \* bound: ticks the action notifies
    FailLimit    \* the failed polls in a row after which the page leaves: 10 in the code

ASSUME ProgressAssumption == MaxTicks \in Nat /\ FailLimit \in Nat \ {0}

VARIABLES
    progressFile,  \* the hash in the file, Truncated or Missing
    runner,        \* the process: its status, the keys it has still to set,
                   \* the hash it is about to write, its result
    replaced,      \* history: another action took the file over
    polls,         \* the state of every poll: unused, sent or its answer
    progressPage   \* the page: what it shows, its timers and consecutiveFails

progressVars == <<progressFile, runner, replaced, polls, progressPage>>

Truncated == [what |-> "truncated"]
Missing == [what |-> "missing"]
Created == [started |-> TRUE, finished |-> FALSE, retValue |-> -1, errorMsg |-> FALSE,
            ticks |-> 0, totalTicks |-> 1]

NoReply == [state |-> "unused"]

ProgressInit ==
    /\ progressFile = Created
    /\ runner = [status |-> "running", todo |-> <<>>, hash |-> Missing, retValue |-> -1]
    /\ replaced = FALSE
    /\ polls = [p \in Poll |-> NoReply]
    /\ progressPage = [progressing |-> TRUE, done |-> FALSE, warning |-> FALSE, error |-> FALSE,
                       timer |-> TRUE, loaders |-> 0, fails |-> 0, left |-> FALSE]

------------------------------------------------------------------------------
\* The process of the action: setValue() is three steps, of which the first
\* two, to read the hash and to truncate the file, no one tells apart.

NewTotal(ticks, total) == IF ticks > total THEN total + 5 ELSE total

TotalAfterTicks(n) == \* mutant
    LET t == progressFile.ticks + n
        total == NewTotal(t, progressFile.totalTicks)
    IN  <<<<"ticks", t>>>> \o IF total # progressFile.totalTicks THEN <<<<"totalTicks", total>>>> ELSE <<>>

\* notifyTick(): the total grows before the ticks that need it.
TickWrites(n) ==
    LET t == progressFile.ticks + n
        total == NewTotal(t, progressFile.totalTicks)
    IN  (IF total # progressFile.totalTicks THEN <<<<"totalTicks", total>>>> ELSE <<>>) \o <<<<"ticks", t>>>>

Idle == runner.status = "running" /\ runner.todo = <<>>

NotifyTick ==
    /\ Idle /\ progressFile.ticks < MaxTicks
    /\ runner' = [runner EXCEPT !.todo = TickWrites(1)]
    /\ UNCHANGED <<progressFile, replaced, polls, progressPage>>

\* setAsFinished(): up to four keys, one after the other.
FinishWrites(retValue, errorMsg) ==
    <<<<"finished", TRUE>>, <<"retValue", retValue>>>>
        \o (IF errorMsg THEN <<<<"errorMsg", TRUE>>>> ELSE <<>>)
        \o (IF progressFile.ticks # progressFile.totalTicks
               THEN <<<<"ticks", progressFile.totalTicks>>>> ELSE <<>>)

SetAsFinished(retValue, errorMsg) ==
    /\ Idle
    /\ runner' = [runner EXCEPT !.status = "finishing", !.retValue = retValue,
                                !.todo = FinishWrites(retValue, errorMsg)]
    /\ UNCHANGED <<progressFile, replaced, polls, progressPage>>

Truncate ==
    /\ runner.status \in {"running", "finishing"} /\ runner.todo # <<>> /\ runner.hash = Missing
    /\ runner' = [runner EXCEPT !.hash = [progressFile EXCEPT ![Head(runner.todo)[1]] = Head(runner.todo)[2]]]
    /\ progressFile' = Truncated
    /\ UNCHANGED <<replaced, polls, progressPage>>

Write ==
    /\ runner.status \in {"running", "finishing"} /\ runner.hash # Missing
    /\ progressFile' = runner.hash
    /\ runner' = [runner EXCEPT !.hash = Missing, !.todo = Tail(@),
                    !.status = IF @ = "finishing" /\ Len(runner.todo) = 1 THEN "finished" ELSE @]
    /\ UNCHANGED <<replaced, polls, progressPage>>

\* The process is killed, perhaps between truncating and writing.
RunnerDies ==
    /\ runner.status = "running"
    /\ runner' = [runner EXCEPT !.status = "died"]
    /\ UNCHANGED <<progressFile, replaced, polls, progressPage>>

\* create() for another action first removes what has finished; the only file
\* gone, _unique_id() gives the same id again.
Replace ==
    /\ runner.status = "finished" /\ ~replaced
    /\ progressFile' = Created /\ replaced' = TRUE
    /\ UNCHANGED <<runner, polls, progressPage>>

------------------------------------------------------------------------------
\* The page.

CallServer(p) ==
    /\ progressPage.timer /\ ~progressPage.left /\ polls[p] = NoReply
    /\ polls' = [polls EXCEPT ![p] = [state |-> "sent"]]
    /\ UNCHANGED <<progressFile, runner, replaced, progressPage>>

StateByFinished(f) == \* mutant
    IF f = Truncated THEN [state |-> "not running", errorMsg |-> FALSE, ticks |-> 0, totalTicks |-> 0]
    ELSE [state |-> IF f.finished THEN "done" ELSE "running",
          errorMsg |-> f.errorMsg, ticks |-> f.ticks, totalTicks |-> f.totalTicks]

\* stateAsHash(): a return value other than 0 is an error, -1 as well; an
\* empty file is an empty hash, not started.
StateAsHash(f) ==
    IF f = Truncated THEN [state |-> "not running", errorMsg |-> FALSE, ticks |-> 0, totalTicks |-> 0]
    ELSE [state |-> CASE ~f.started -> "not running"
                      [] f.started /\ f.finished -> IF f.retValue = 0 THEN "done" ELSE "error"
                      [] OTHER -> "running",
          errorMsg |-> f.errorMsg, ticks |-> f.ticks, totalTicks |-> f.totalTicks]

ReadState(p) ==
    /\ polls[p].state = "sent"
    /\ polls' = [polls EXCEPT ![p] = StateAsHash(progressFile)]
    /\ UNCHANGED <<progressFile, runner, replaced, progressPage>>

\* No answer, or an error of the server whose text is not JSON.
PollFails(p, answered) ==
    /\ polls[p].state = "sent"
    /\ polls' = [polls EXCEPT ![p] = [state |-> IF answered THEN "garbled" ELSE "none"]]
    /\ UNCHANGED <<progressFile, runner, replaced, progressPage>>

UpdatedOnSuccess(page, r) == \* mutant
    IF r.state = "done" THEN [page EXCEPT !.timer = FALSE, !.progressing = FALSE, !.done = TRUE] ELSE page

\* updatePage(): the timer stops, but answers on their way are still shown.
PageUpdated(page, r) ==
    CASE r.state = "done" -> [page EXCEPT !.timer = FALSE, !.loaders = IF @ < 2 THEN @ + 1 ELSE @,
                                 !.warning = @ \/ r.errorMsg, !.progressing = FALSE, !.done = TRUE]
      [] r.state = "error" -> [page EXCEPT !.timer = FALSE, !.progressing = FALSE, !.error = TRUE]
      [] OTHER -> page

Complete(p) ==
    /\ polls[p].state \notin {"unused", "sent"} /\ ~progressPage.left
    /\ LET fails == IF polls[p].state = "none" THEN progressPage.fails + 1 ELSE 0
       IN  progressPage' = [PageUpdated(progressPage, polls[p]) EXCEPT
                               !.fails = IF fails < FailLimit THEN fails ELSE 0, !.left = (fails >= FailLimit)]
    /\ polls' = [polls EXCEPT ![p] = NoReply]
    /\ UNCHANGED <<progressFile, runner, replaced>>

\* loadWhenAvailable(): asks for the next page at an interval until it comes.
LoadNextPage ==
    /\ progressPage.loaders > 0 /\ ~progressPage.left
    /\ progressPage' = [progressPage EXCEPT !.left = TRUE]
    /\ UNCHANGED <<progressFile, runner, replaced, polls>>

ProgressNext ==
    \/ NotifyTick \/ Truncate \/ Write \/ RunnerDies \/ Replace \/ LoadNextPage
    \/ \E retValue \in {0, 1}, errorMsg \in BOOLEAN : SetAsFinished(retValue, errorMsg)
    \/ \E p \in Poll :
          \/ CallServer(p) \/ ReadState(p) \/ Complete(p)
          \/ \E answered \in BOOLEAN : PollFails(p, answered)

ProgressSpec == ProgressInit /\ [][ProgressNext]_progressVars
------------------------------------------------------------------------------
\* Types of the page and of its polls.
ProgressTypeOK ==
    /\ progressPage \in [progressing : BOOLEAN, done : BOOLEAN, warning : BOOLEAN, error : BOOLEAN,
                         timer : BOOLEAN, loaders : 0..2, fails : 0..FailLimit - 1, left : BOOLEAN]
    /\ \A p \in Poll : polls[p].state \in {"unused", "sent", "garbled", "none", "not running",
                                           "running", "done", "error"}
    /\ runner.status \in {"running", "finishing", "finished", "died"} /\ runner.retValue \in {-1, 0, 1}

\* The page says that the action is done only if its process has finished with
\* success, whatever was read half written or answered late, unless the file
\* has become that of another action.
DoneMeansDone ==
    progressPage.done /\ ~replaced => runner.status \in {"finishing", "finished"} /\ runner.retValue = 0

\* No answer counts more ticks than its total: the bar is never beyond its end.
TicksWithinTotal ==
    \A p \in Poll : polls[p].state = "running" => polls[p].ticks <= polls[p].totalTicks

\* Once the process has finished the page hears of it, or leaves: the timer
\* keeps on and every poll is answered or fails.
PageHearsTheEnd ==
    (runner.status = "finished") ~> (replaced \/ progressPage.left \/ ~progressPage.timer)

==============================================================================
