---------------------------- MODULE JQueryDeferred ----------------------------
(***************************************************************************)
(* jQuery.Callbacks and jQuery.Deferred, on which ready(), the requests    *)
(* and the animations of the interface stand: three lists of callbacks, of *)
(* which "done" and "fail" fire once and remember, "progress" fires often  *)
(* and remembers.  A callback is code of the page: while it runs it may    *)
(* add callbacks, settle the deferred, notify, or throw.                   *)
(*                                                                         *)
(* Every list that settles starts with three callbacks of its own (set the *)
(* state, disable the other list, lock the progress): they run first, and  *)
(* are part of firing here.                                                *)
(***************************************************************************)
EXTENDS Naturals, Sequences

CONSTANTS
    MaxAdded,    \* bound: callbacks added to a list
    MaxNotified  \* bound: values notified

ASSUME DeferredAssumption == MaxAdded \in Nat /\ MaxNotified \in Nat

VARIABLES
    deferredState, \* pending, resolved or rejected
    lists,         \* the three callback lists
    firings,       \* calls of fire() on the stack, the innermost last
    addedTo,       \* history: how many callbacks were added to each list
    heard,         \* history: per list the calls made, callback and value
    notified,      \* history: how many values were notified
    thrown         \* history: a callback threw

deferredVars == <<deferredState, lists, firings, addedTo, heard, notified, thrown>>

Lists == {"done", "fail", "progress"}
Settling == {"done", "fail"}
Final(l) == IF l = "done" THEN "resolved" ELSE "rejected"
OtherList(l) == IF l = "done" THEN "fail" ELSE "done"
Nothing == 0

\* "repeats" is whether stack is there, "usable" whether list is.
NewList(once) ==
    [usable |-> TRUE, list |-> <<>>, firing |-> FALSE, fired |-> FALSE, memory |-> Nothing,
     start |-> 0, index |-> 0, length |-> 0, repeats |-> ~once, stack |-> <<>>]

DeferredInit ==
    /\ deferredState = "pending"
    /\ lists = [l \in Lists |-> NewList(l \in Settling)]
    /\ firings = <<>>
    /\ addedTo = [l \in Lists |-> 0]
    /\ heard = [l \in Lists |-> <<>>]
    /\ notified = 0 /\ thrown = FALSE

------------------------------------------------------------------------------
Innermost == firings[Len(firings)]
Popped == SubSeq(firings, 1, Len(firings) - 1)

\* Code of the page runs: outside any list, or in the callback being called.
PageCode == firings # <<>> => Innermost.called

DropsMemory(c) == [c EXCEPT !.memory = Nothing]  \* mutant

Disabled(c) == [c EXCEPT !.usable = FALSE, !.list = <<>>, !.repeats = FALSE, !.stack = <<>>, !.memory = Nothing]
Locked(c) == IF c.memory = Nothing THEN Disabled(c) ELSE [c EXCEPT !.repeats = FALSE, !.stack = <<>>]

\* fire()
StartFire(c, value) ==
    [c EXCEPT !.memory = value, !.fired = TRUE, !.index = c.start, !.start = 0,
              !.length = Len(c.list), !.firing = TRUE]
FiringOf(l, value) == [list |-> l, value |-> value, called |-> FALSE]

\* add(): with the batch that fires, or at once when the list remembers.
\* Callbacks are numbered in the order they are added.
Add(l) ==
    /\ PageCode /\ addedTo[l] < MaxAdded
    /\ addedTo' = [addedTo EXCEPT ![l] = @ + 1]
    /\ LET c == lists[l]
           more == [c EXCEPT !.list = Append(@, addedTo[l] + 1)]
       IN  \/ /\ ~c.usable
              /\ UNCHANGED <<lists, firings>>
           \/ /\ c.usable /\ c.firing
              /\ lists' = [lists EXCEPT ![l] = [more EXCEPT !.length = Len(more.list)]]
              /\ UNCHANGED firings
           \/ /\ c.usable /\ ~c.firing /\ c.memory = Nothing
              /\ lists' = [lists EXCEPT ![l] = more]
              /\ UNCHANGED firings
           \/ /\ c.usable /\ ~c.firing /\ c.memory # Nothing
              /\ lists' = [lists EXCEPT ![l] = StartFire([more EXCEPT !.start = Len(c.list)], c.memory)]
              /\ firings' = Append(firings, FiringOf(l, c.memory))
    /\ UNCHANGED <<deferredState, heard, notified, thrown>>

MayFire(c) == c.usable /\ (~c.fired \/ c.repeats)

\* resolve() and reject()
Settle(l) ==
    /\ PageCode
    /\ IF MayFire(lists[l])
       THEN /\ deferredState' = Final(l)
            /\ lists' = [lists EXCEPT ![l] = StartFire(@, 1), ![OtherList(l)] = Disabled(@), !["progress"] = Locked(@)]
            /\ firings' = Append(firings, FiringOf(l, 1))
       ELSE UNCHANGED <<deferredState, lists, firings>>
    /\ UNCHANGED <<addedTo, heard, notified, thrown>>

\* notify(): from within a progress callback it waits for the batch to end.
Notify ==
    /\ PageCode /\ notified < MaxNotified /\ notified' = notified + 1
    /\ LET c == lists["progress"]
       IN  \/ /\ ~MayFire(c)
              /\ UNCHANGED <<lists, firings>>
           \/ /\ MayFire(c) /\ c.firing
              /\ lists' = [lists EXCEPT !["progress"].stack = Append(@, notified + 1)]
              /\ UNCHANGED firings
           \/ /\ MayFire(c) /\ ~c.firing
              /\ lists' = [lists EXCEPT !["progress"] = StartFire(@, notified + 1)]
              /\ firings' = Append(firings, FiringOf("progress", notified + 1))
    /\ UNCHANGED <<deferredState, addedTo, heard, thrown>>

------------------------------------------------------------------------------
\* The loop of fire().
More(c) == c.usable /\ c.index < c.length

CallNext ==
    /\ ~PageCode
    /\ LET l == Innermost.list
       IN  /\ More(lists[l])
           /\ heard' = [heard EXCEPT ![l] = Append(@, <<lists[l].list[lists[l].index + 1], Innermost.value>>)]
    /\ firings' = [firings EXCEPT ![Len(firings)].called = TRUE]
    /\ UNCHANGED <<deferredState, lists, addedTo, notified, thrown>>

CallbackReturns ==
    /\ firings # <<>> /\ Innermost.called
    /\ lists' = [lists EXCEPT ![Innermost.list].index = @ + 1]
    /\ firings' = [firings EXCEPT ![Len(firings)].called = FALSE]
    /\ UNCHANGED <<deferredState, addedTo, heard, notified, thrown>>

\* The exception leaves every loop below it: their lists keep "firing" set.
CallbackThrows ==
    /\ firings # <<>> /\ Innermost.called
    /\ firings' = <<>> /\ thrown' = TRUE
    /\ UNCHANGED <<deferredState, lists, addedTo, heard, notified>>

\* After the loop: the next value that waits, or the end of a list that fires once.
AfterLoop(c) ==
    CASE ~c.usable                     -> c
      [] c.usable /\ c.repeats         -> c
      [] c.usable /\ ~c.repeats /\ c.memory # Nothing -> [c EXCEPT !.list = <<>>]
      [] OTHER                         -> Disabled(c)

LoopEnds ==
    /\ ~PageCode
    /\ LET l == Innermost.list
           c == lists[l]
       IN  /\ ~More(c)
           /\ IF c.stack = <<>>
              THEN /\ lists' = [lists EXCEPT ![l] = AfterLoop([c EXCEPT !.firing = FALSE])]
                   /\ firings' = Popped
              ELSE /\ lists' = [lists EXCEPT ![l] = StartFire([c EXCEPT !.stack = Tail(@)], Head(c.stack))]
                   /\ firings' = Append(Popped, FiringOf(l, Head(c.stack)))
    /\ UNCHANGED <<deferredState, addedTo, heard, notified, thrown>>

DeferredNext ==
    \/ \E l \in Lists : Add(l)
    \/ \E l \in Settling : Settle(l)
    \/ Notify
    \/ CallNext \/ CallbackReturns \/ CallbackThrows \/ LoopEnds

DeferredSpec == DeferredInit /\ [][DeferredNext]_deferredVars
------------------------------------------------------------------------------
DeferredTypeOK ==
    /\ deferredState \in {"pending", "resolved", "rejected"}
    /\ addedTo \in [Lists -> 0..MaxAdded] /\ notified \in 0..MaxNotified /\ thrown \in BOOLEAN
    /\ \A i \in DOMAIN firings : firings[i].list \in Lists
    /\ \A l \in Lists : lists[l].index \in 0..MaxAdded /\ lists[l].length \in 0..MaxAdded

SettledInOrder ==
    \A l \in Settling :
        LET ids == [i \in 1..Len(heard[l]) |-> heard[l][i][1]]
        IN  /\ ids = [i \in 1..Len(heard[l]) |-> i]
            /\ heard[l] # <<>> => deferredState = Final(l)
            /\ deferredState = Final(l) /\ firings = <<>> /\ ~thrown => Len(heard[l]) = addedTo[l]

ProgressInOrder ==
    \A i, j \in DOMAIN heard["progress"] :
        i < j /\ heard["progress"][i][1] = heard["progress"][j][1]
            => heard["progress"][i][2] < heard["progress"][j][2]

\* A settled deferred calls the callbacks of its side, each once and in the
\* order they were added, whether before, during or after it settled and by
\* whomever; it never calls one of the other side.  Nobody waits once the code of
\* the page ends, unless a callback threw: then those behind it are lost.  A
\* callback of the progress never hears a value after a later one, nor twice.
HeardInOrder == SettledInOrder /\ ProgressInOrder

==============================================================================
