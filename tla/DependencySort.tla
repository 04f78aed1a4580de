--------------------------- MODULE DependencySort ---------------------------
(***************************************************************************)
(* EBox::GlobalImpl::sortModulesByDependencies, which orders the modules   *)
(* that are saved, restarted or enabled so that each one comes after those *)
(* it depends on.  It walks the list with an index; a module whose         *)
(* dependencies are not all before the index is moved to the end.          *)
(*                                                                         *)
(* One step is one turn of the while loop.  Lists are functions of 1..n.   *)
(***************************************************************************)
EXTENDS Integers

CONSTANTS Module,    \* modules of the system
          MaxLength  \* bound: length of the list to sort

ASSUME MaxLengthIsNat == MaxLength \in Nat

VARIABLES depends,  \* dependencies that each module declares
          size,     \* length of the list
          modules,  \* the list
          i,        \* how many modules are in their place
          turns     \* history: modules moved since the last one was
                    \* placed, counted up to size

loopVars == <<depends, size, modules, i, turns>>

Listed == {modules[j] : j \in 1..size}

\* The list has no module twice: modifiedModules() looks before it pushes.
LoopInit == /\ depends \in [Module -> SUBSET Module]
            /\ size \in 0..MaxLength
            /\ modules \in [1..size -> Module]
            /\ \A j, k \in 1..size : modules[j] = modules[k] => j = k
            /\ i = 0
            /\ turns = 0

\* Dependencies on modules that are not in the list do not count.
DependenciesOutside(m) == depends[m] \* mutant
Dependencies(m) == depends[m] \intersect Listed

FoundUpTo(k) == {modules[j] : j \in 1..k}

FoundWithItself == FoundUpTo(i + 1) \* mutant
Found == FoundUpTo(i)

Ready == Dependencies(modules[i + 1]) \subseteq Found

Advance == /\ i < size
           /\ Ready
           /\ i' = i + 1
           /\ turns' = 0
           /\ UNCHANGED <<depends, size, modules>>

MovedCopy == \* mutant
    [j \in 1..(size + 1) |-> IF j <= size THEN modules[j] ELSE modules[i + 1]]

MovedWithoutSplice == \* mutant
    [j \in 1..size |-> IF j = size THEN modules[i + 1] ELSE modules[j]]

\* splice() takes the module at the index out, push() puts it last.
Moved == [j \in 1..size |-> IF j <= i THEN modules[j]
                            ELSE IF j < size THEN modules[j + 1]
                            ELSE modules[i + 1]]

Postpone == /\ i < size
            /\ ~Ready
            /\ modules' = Moved
            /\ turns' = IF turns < size THEN turns + 1 ELSE turns
            /\ UNCHANGED <<depends, size, i>>

LoopNext == Advance \/ Postpone

LoopSpec == LoopInit /\ [][LoopNext]_loopVars

\* A loop in one process.
LoopFairSpec == LoopSpec /\ WF_loopVars(LoopNext)

-----------------------------------------------------------------------------
\* Type invariant of the loop.
LoopTypeOK == /\ depends \in [Module -> SUBSET Module]
              /\ size \in 0..MaxLength
              /\ modules \in [1..size -> Module]
              /\ i \in 0..size
              /\ turns \in Nat

\* No module is lost or repeated while the list is rotated (splice and push).
NoneTwice == \A j, k \in 1..size : modules[j] = modules[k] => j = k

\* The modules of the list are always those that were given to the function.
SameModules == [][Listed' = Listed]_loopVars

\* Each module in its place comes after every listed module that it needs: when
\* the loop ends the whole list is in an order in which it can be saved.
PlacedInOrder == \A j \in 1..i : Dependencies(modules[j]) \subseteq FoundUpTo(j - 1)

\* The listed modules can be ordered: no set of them depends on itself.
CanBeOrdered ==
    \A S \in (SUBSET Listed) \ {{}} : \E m \in S : depends[m] \intersect S = {}

\* Where an order exists the loop never goes round the rest of the list without
\* placing a module, so it ends after size * (size - 1) / 2 moves at most.
NoIdleRound == CanBeOrdered /\ i < size => turns < size - i

\* The loop ends when the listed modules can be ordered (while $i < @modules).
EndsUnlessCyclic == CanBeOrdered ~> i = size

\* A cycle of dependencies keeps the process that saves changes in the loop for
\* ever (t/Global.t: "method does not resolve cyclic dependencies").
CyclesNeverEnd == ~CanBeOrdered => i < size
=============================================================================
