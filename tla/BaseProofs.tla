----------------------------- MODULE BaseProofs -----------------------------
(***************************************************************************)
(* Proofs about the two parts that the others stand on: FileLock, for any  *)
(* processes, locks and inodes, and DependencySort, for any modules, any   *)
(* dependencies and lists of any length.                                   *)
(***************************************************************************)
EXTENDS FileLock, DependencySort, WellFoundedInduction, TLAPS

-----------------------------------------------------------------------------
\* File locks.

InLock(p) == pc[p] \in {"try", "timed", "wait", "held"}

\* The names of kept files lead to the same inode for ever.
KeptStay == \A r \in Resource \ Removed : file[r] \in Inode

\* Who asks for a lock that is kept, or has it, has its one inode open.
KeptOpen == \A p \in Proc :
    InLock(p) => /\ wanted[p] \in Resource
                 /\ handle[p] \in Inode
                 /\ wanted[p] \notin Removed => handle[p] = file[wanted[p]]

HeldOwns == \A p \in Proc : pc[p] = "held" => owner[handle[p]] = p

RemovingWants == \A p \in Proc : pc[p] = "removing" => wanted[p] \in Resource

LockInv == /\ TypeOK
           /\ KeptStay
           /\ KeptOpen
           /\ HeldOwns
           /\ RemovingWants
           /\ IdleOwnsNothing

-----------------------------------------------------------------------------
LEMMA LockInvInit == Init => LockInv
  BY NoneIsApart DEF Init, LockInv, TypeOK, Places, KeptStay, KeptOpen, InLock,
     HeldOwns, RemovingWants, IdleOwnsNothing

\* open() finds or creates an inode and moves no name that leads somewhere.
LEMMA OpenType ==
  ASSUME TypeOK, NEW p \in Proc, NEW r \in Resource, Open(p, r)
  PROVE  /\ Opened(r) \in Inode
         /\ file' \in [Resource -> Inode \union {None}]
         /\ file'[r] = Opened(r)
         /\ \A s \in Resource : file[s] # None => file'[s] = file[s]
<1>1. Opened(r) \in Inode
  <2>1. CASE file[r] = None
    <3>1. Unused # {} /\ Unused \subseteq Inode
      BY <2>1 DEF Open, Unused
    <3>2. (CHOOSE j \in Unused : TRUE) \in Unused
      BY <3>1
    <3>3. QED
      BY <2>1, <3>1, <3>2 DEF Opened
  <2>2. CASE file[r] # None
    BY <2>2 DEF Opened, TypeOK
  <2>3. QED
    BY <2>1, <2>2
<1>2. file' = [file EXCEPT ![r] = Opened(r)]
  BY DEF Open
<1>3. file[r] # None => Opened(r) = file[r]
  BY DEF Opened
<1> HIDE DEF Opened
<1>4. QED
  BY <1>1, <1>2, <1>3 DEF TypeOK

\* It takes from p, and from nobody else, what it owned.
LEMMA FreedOwners ==
  ASSUME TypeOK, NEW p \in Proc
  PROVE  /\ Freed(p) \in [Inode -> Proc \union {None}]
         /\ \A j \in Inode : Freed(p)[j] # p
         /\ \A q \in Proc \ {p}, j \in Inode : Freed(p)[j] = q <=> owner[j] = q
  BY NoneIsApart DEF Freed, TypeOK

LEMMA LockOpenInv ==
  ASSUME LockInv, NEW p \in Proc, NEW r \in Resource, LockOpen(p, r)
  PROVE  LockInv'
<1>1. /\ Open(p, r)
      /\ owner' = Freed(p)
      /\ handle' = [handle EXCEPT ![p] = Opened(r)]
      /\ wanted' = [wanted EXCEPT ![p] = r]
  BY DEF LockOpen, Open
<1>2. PICK mode \in {"try", "timed", "wait"} : pc' = [pc EXCEPT ![p] = mode]
  BY DEF LockOpen
<1>3. TypeOK
  BY DEF LockInv
<1> HIDE DEF Opened, Freed
<1>4. TypeOK'
  BY <1>1, <1>2, <1>3, OpenType, FreedOwners DEF TypeOK, Places
<1>5. KeptStay'
  BY <1>1, <1>3, OpenType, NoneIsApart DEF LockInv, KeptStay
<1>6. KeptOpen'
  <2>1. SUFFICES ASSUME NEW q \in Proc, InLock(q)'
                 PROVE  /\ wanted'[q] \in Resource
                        /\ handle'[q] \in Inode
                        /\ wanted'[q] \notin Removed => handle'[q] = file'[wanted'[q]]
    BY DEF KeptOpen
  <2>2. CASE q = p
    BY <1>1, <1>3, <2>2, OpenType DEF TypeOK
  <2>3. CASE q # p
    <3>1. wanted'[q] = wanted[q] /\ handle'[q] = handle[q] /\ pc'[q] = pc[q]
      BY <1>1, <1>2, <1>3, <2>3 DEF TypeOK
    <3>2. InLock(q)
      BY <2>1, <3>1 DEF InLock
    <3>3. /\ wanted[q] \in Resource
          /\ handle[q] \in Inode
          /\ wanted[q] \notin Removed => handle[q] = file[wanted[q]]
      BY <3>2 DEF LockInv, KeptOpen
    <3>4. wanted[q] \notin Removed => file'[wanted[q]] = file[wanted[q]]
      BY <1>1, <1>3, <3>3, OpenType, NoneIsApart DEF LockInv, KeptStay
    <3>5. QED
      BY <3>1, <3>3, <3>4
  <2>4. QED
    BY <2>2, <2>3
<1>7. HeldOwns'
  BY <1>1, <1>2, <1>3, FreedOwners DEF LockInv, HeldOwns, TypeOK, KeptOpen, InLock
<1>8. RemovingWants'
  BY <1>1, <1>2, <1>3 DEF LockInv, RemovingWants, TypeOK
<1>9. IdleOwnsNothing'
  BY <1>1, <1>2, <1>3, FreedOwners DEF LockInv, IdleOwnsNothing, TypeOK
<1>10. QED
  BY <1>4, <1>5, <1>6, <1>7, <1>8, <1>9 DEF LockInv

\* unlock() and the end of the process close the file: p is out of the lock.
LEMMA ReleaseInv ==
  ASSUME LockInv, NEW p \in Proc,
         owner' = Freed(p),
         handle' = [handle EXCEPT ![p] = None],
         file' \in [Resource -> Inode \union {None}],
         \A s \in Resource : file[s] # None => file'[s] = file[s],
         wanted' \in [Proc -> Resource \union {None}],
         \A q \in Proc \ {p} : wanted'[q] = wanted[q],
         \/ pc' = [pc EXCEPT ![p] = "idle"]
         \/ pc' = [pc EXCEPT ![p] = "removing"] /\ wanted'[p] \in Resource
  PROVE  LockInv'
<1>1. TypeOK
  BY DEF LockInv
<1> HIDE DEF Freed
<1>2. /\ pc' \in [Proc -> Places] /\ ~InLock(p)'
      /\ \A q \in Proc \ {p} : pc'[q] = pc[q] /\ handle'[q] = handle[q]
  BY <1>1 DEF TypeOK, Places, InLock
<1>3. TypeOK'
  BY <1>1, <1>2, FreedOwners DEF TypeOK
<1>4. KeptStay'
  BY NoneIsApart DEF LockInv, KeptStay
<1>5. KeptOpen'
  <2>1. SUFFICES ASSUME NEW q \in Proc \ {p}, InLock(q)
                 PROVE  /\ wanted[q] \in Resource
                        /\ handle[q] \in Inode
                        /\ wanted[q] \notin Removed => handle[q] = file'[wanted[q]]
    BY <1>2 DEF KeptOpen, InLock
  <2>2. /\ wanted[q] \in Resource
        /\ handle[q] \in Inode
        /\ wanted[q] \notin Removed => handle[q] = file[wanted[q]]
    BY <2>1 DEF LockInv, KeptOpen
  <2>3. QED
    BY <2>2, NoneIsApart DEF LockInv, KeptStay
<1>6. HeldOwns'
  <2>1. SUFFICES ASSUME NEW q \in Proc \ {p}, pc[q] = "held"
                 PROVE  owner'[handle[q]] = q
    BY <1>2 DEF HeldOwns, InLock
  <2>2. handle[q] \in Inode /\ owner[handle[q]] = q
    BY <2>1 DEF LockInv, KeptOpen, InLock, HeldOwns
  <2>3. QED
    BY <1>1, <2>2, FreedOwners
<1>7. RemovingWants'
  BY <1>1 DEF LockInv, RemovingWants, TypeOK
<1>8. IdleOwnsNothing'
  BY <1>1, <1>2, FreedOwners DEF LockInv, IdleOwnsNothing
<1>9. QED
  BY <1>3, <1>4, <1>5, <1>6, <1>7, <1>8 DEF LockInv

LEMMA FlockInv ==
  ASSUME LockInv, NEW p \in Proc, Flock(p)
  PROVE  LockInv'
<1>1. /\ TypeOK /\ handle[p] \in Inode /\ owner[handle[p]] = None
      /\ \A j \in Inode : owner[j] # p
  BY DEF LockInv, Flock, KeptOpen, InLock, IdleOwnsNothing
<1>2. /\ owner' = [owner EXCEPT ![handle[p]] = p]
      /\ pc' = [pc EXCEPT ![p] = "held"]
      /\ UNCHANGED <<file, handle, wanted>>
  BY DEF Flock
<1>3. TypeOK'
  BY <1>1, <1>2 DEF TypeOK, Places
<1>4. KeptStay' /\ RemovingWants'
  BY <1>1, <1>2 DEF LockInv, KeptStay, RemovingWants, TypeOK
<1>5. KeptOpen'
  BY <1>1, <1>2 DEF LockInv, KeptOpen, InLock, TypeOK, Flock
<1>6. HeldOwns'
  <2>1. SUFFICES ASSUME NEW q \in Proc, pc'[q] = "held" PROVE owner'[handle[q]] = q
    BY <1>2 DEF HeldOwns
  <2>2. CASE q = p
    BY <1>1, <1>2, <2>2 DEF TypeOK
  <2>3. CASE q # p
    <3>1. pc[q] = "held"
      BY <1>1, <1>2, <2>1, <2>3 DEF TypeOK
    <3>2. handle[q] \in Inode /\ owner[handle[q]] = q
      BY <3>1 DEF LockInv, KeptOpen, InLock, HeldOwns
    <3>3. handle[q] # handle[p]
      BY <1>1, <3>2, NoneIsApart
    <3>4. QED
      BY <1>1, <1>2, <3>2, <3>3 DEF TypeOK
  <2>4. QED
    BY <2>2, <2>3
<1>7. IdleOwnsNothing'
  <2>1. SUFFICES ASSUME NEW q \in Proc, NEW j \in Inode, owner'[j] = q
                 PROVE  pc'[q] = "held" /\ handle[q] = j
    BY <1>2 DEF IdleOwnsNothing
  <2>2. CASE j = handle[p]
    BY <1>1, <1>2, <2>1, <2>2 DEF TypeOK
  <2>3. CASE j # handle[p]
    BY <1>1, <1>2, <2>1, <2>3 DEF LockInv, IdleOwnsNothing, TypeOK
  <2>4. QED
    BY <2>2, <2>3
<1>8. QED
  BY <1>3, <1>4, <1>5, <1>6, <1>7 DEF LockInv

\* LOCK_NB and the alarm give up: the handle that stays is forgotten.
LEMMA LockThrowsInv ==
  ASSUME LockInv, NEW p \in Proc, LockThrows(p)
  PROVE  LockInv'
<1>1. \A j \in Inode : owner[j] # p
  BY DEF LockInv, IdleOwnsNothing, LockThrows
<1>2. owner = Freed(p)
  BY <1>1 DEF LockInv, TypeOK, Freed
<1> HIDE DEF Freed
<1>3. /\ owner' = Freed(p)
      /\ handle' = [handle EXCEPT ![p] = None]
      /\ wanted' = [wanted EXCEPT ![p] = None]
      /\ pc' = [pc EXCEPT ![p] = "idle"]
      /\ file' = file
  BY <1>2 DEF LockThrows
<1>4. QED
  BY <1>3, ReleaseInv DEF LockInv, TypeOK

LEMMA UnlockOpenInv ==
  ASSUME LockInv, NEW p \in Proc, UnlockOpen(p)
  PROVE  LockInv'
<1>1. wanted[p] \in Resource
  BY DEF UnlockOpen, LockInv, KeptOpen, InLock
<1>2. /\ Open(p, wanted[p])
      /\ owner' = Freed(p)
      /\ handle' = [handle EXCEPT ![p] = None]
      /\ wanted' = wanted
      /\ pc' = [pc EXCEPT ![p] = "removing"]
  BY DEF UnlockOpen, Open
<1>3. /\ file' \in [Resource -> Inode \union {None}]
      /\ \A s \in Resource : file[s] # None => file'[s] = file[s]
  BY <1>1, <1>2, OpenType DEF LockInv
<1>4. QED
  BY <1>1, <1>2, <1>3, ReleaseInv DEF LockInv, TypeOK

LEMMA ExitInv ==
  ASSUME LockInv, NEW p \in Proc, Exit(p)
  PROVE  LockInv'
  BY ReleaseInv DEF Exit, LockInv, TypeOK

\* Only a name whose file is removed stops leading to its inode.
LEMMA UnlinkInv ==
  ASSUME LockInv, NEW p \in Proc, Unlink(p)
  PROVE  LockInv'
<1>1. TypeOK /\ wanted[p] \in Resource /\ pc[p] = "removing"
  BY DEF LockInv, RemovingWants, Unlink
<1>2. /\ wanted' = [wanted EXCEPT ![p] = None]
      /\ pc' = [pc EXCEPT ![p] = "idle"]
      /\ owner' = owner /\ handle' = handle
  BY DEF Unlink
<1>3. /\ file' \in [Resource -> Inode \union {None}]
      /\ \A r \in Resource \ Removed : file'[r] = file[r]
  BY <1>1 DEF Unlink, TypeOK
<1>4. TypeOK' /\ KeptStay'
  BY <1>1, <1>2, <1>3 DEF LockInv, TypeOK, KeptStay, Places
<1>5. KeptOpen'
  BY <1>1, <1>2, <1>3 DEF LockInv, KeptOpen, InLock, TypeOK
<1>6. HeldOwns' /\ RemovingWants' /\ IdleOwnsNothing'
  BY <1>1, <1>2 DEF LockInv, HeldOwns, RemovingWants, IdleOwnsNothing, TypeOK
<1>7. QED
  BY <1>4, <1>5, <1>6 DEF LockInv

-----------------------------------------------------------------------------
LEMMA LockInvInductive ==
  ASSUME LockInv, [Next]_vars
  PROVE  LockInv'
<1>1. CASE UNCHANGED vars
  BY <1>1 DEF vars, LockInv, TypeOK, KeptStay, KeptOpen, InLock, HeldOwns,
     RemovingWants, IdleOwnsNothing
<1>2. ASSUME NEW p \in Proc, Step(p) PROVE LockInv'
  BY <1>2, LockOpenInv, FlockInv, LockThrowsInv, UnlockOpenInv, UnlinkInv DEF Step
<1>3. ASSUME NEW p \in Proc, Exit(p) PROVE LockInv'
  BY <1>3, ExitInv
<1>4. QED
  BY <1>1, <1>2, <1>3 DEF Next

\* The type invariant of names, inodes and processes.
THEOREM LockTypeCorrect == Spec => []TypeOK
<1>1. LockInv => TypeOK
  BY DEF LockInv
<1>2. QED
  BY <1>1, LockInvInit, LockInvInductive, PTL DEF Spec

\* At most one process is between lock() and unlock() of a lock whose file is
\* never removed, that of the Redis transactions (KeptExclusive).
THEOREM KeptLockExclusive == Spec => []KeptExclusive
<1>1. LockInv => KeptExclusive
  <2>1. SUFFICES ASSUME LockInv, NEW r \in Resource \ Removed,
                        NEW p \in Proc, NEW q \in Proc, Holds(p, r), Holds(q, r)
                 PROVE  p = q
    BY DEF KeptExclusive, Exclusive
  <2>2. handle[p] = file[r] /\ handle[q] = file[r]
    BY <2>1 DEF Holds, LockInv, KeptOpen, InLock
  <2>3. owner[handle[p]] = p /\ owner[handle[q]] = q
    BY <2>1 DEF Holds, LockInv, HeldOwns
  <2>4. QED
    BY <2>2, <2>3
<1>2. QED
  BY <1>1, LockInvInit, LockInvInductive, PTL DEF Spec

\* A process that is done with its lock, or whose lock() threw, keeps nobody
\* out, whatever happened to the file meanwhile (IdleOwnsNothing).
THEOREM IdleProcessesOwnNothing == Spec => []IdleOwnsNothing
<1>1. LockInv => IdleOwnsNothing
  BY DEF LockInv
<1>2. QED
  BY <1>1, LockInvInit, LockInvInductive, PTL DEF Spec

-----------------------------------------------------------------------------
\* The order of the modules.

\* The type invariant of the loop holds.
THEOREM SortTypeCorrect == LoopSpec => []LoopTypeOK
<1>1. LoopInit => LoopTypeOK
  BY DEF LoopInit, LoopTypeOK
<1>2. LoopTypeOK /\ [LoopNext]_loopVars => LoopTypeOK'
  <2>1. SUFFICES ASSUME LoopTypeOK, [LoopNext]_loopVars PROVE LoopTypeOK'
    OBVIOUS
  <2>2. CASE Advance
    BY <2>1, <2>2 DEF Advance, LoopTypeOK
  <2>3. CASE Postpone
    <3>1. Moved \in [1..size -> Module]
      BY <2>1, <2>3, MaxLengthIsNat DEF Postpone, Moved, LoopTypeOK
    <3>2. turns' \in Nat
      BY <2>1, <2>3 DEF Postpone, LoopTypeOK
    <3>3. QED
      BY <2>1, <2>3, <3>1, <3>2 DEF Postpone, LoopTypeOK
  <2>4. CASE UNCHANGED loopVars
    BY <2>1, <2>4 DEF loopVars, LoopTypeOK
  <2>5. QED
    BY <2>1, <2>2, <2>3, <2>4 DEF LoopNext
<1>3. QED
  BY <1>1, <1>2, PTL DEF LoopSpec

\* A move takes the first module that is not in its place to the end.
LEMMA MovedShifts ==
  ASSUME LoopTypeOK, Postpone
  PROVE  /\ size \in Nat /\ i \in 0..(size - 1) /\ size' = size /\ i' = i
         /\ \A j \in 1..i : modules'[j] = modules[j]
         /\ \A j \in (i + 1)..(size - 1) : modules'[j] = modules[j + 1]
         /\ modules'[size] = modules[i + 1]
  BY MaxLengthIsNat DEF LoopTypeOK, Postpone, Moved

\* It moves, and neither loses nor adds.
LEMMA MovedKeepsListed ==
  ASSUME LoopTypeOK, Postpone
  PROVE  Listed' = Listed
<1> USE MovedShifts
<1>1. ASSUME NEW j \in 1..size PROVE modules[j] \in Listed'
  <2>1. CASE j <= i
    BY <2>1 DEF Listed
  <2>2. CASE j = i + 1
    BY <2>2 DEF Listed
  <2>3. CASE j > i + 1
    <3>1. j - 1 \in (i + 1)..(size - 1) /\ j - 1 \in 1..size /\ (j - 1) + 1 = j
      BY <2>3
    <3>2. modules'[j - 1] = modules[j]
      BY <3>1
    <3>3. QED
      BY <3>1, <3>2 DEF Listed
  <2>4. QED
    BY <2>1, <2>2, <2>3
<1>2. ASSUME NEW j \in 1..size PROVE modules'[j] \in Listed
  <2>1. CASE j <= i
    BY <2>1 DEF Listed
  <2>2. CASE j = size
    BY <2>2 DEF Listed
  <2>3. CASE i < j /\ j < size
    BY <2>3 DEF Listed
  <2>4. QED
    BY <2>1, <2>2, <2>3
<1>3. QED
  BY <1>1, <1>2 DEF Listed

LEMMA FoundStays ==
  ASSUME LoopTypeOK, Postpone, NEW k \in 0..i
  PROVE  FoundUpTo(k)' = FoundUpTo(k)
  BY MovedShifts DEF FoundUpTo

-----------------------------------------------------------------------------
\* Every module that is in its place comes after those of the list that it
\* depends on, however many times the others were rotated (PlacedInOrder).
THEOREM SortedInOrder == LoopSpec => []PlacedInOrder
<1>1. LoopInit => PlacedInOrder
  BY DEF LoopInit, PlacedInOrder
<1>2. LoopTypeOK /\ PlacedInOrder /\ [LoopNext]_loopVars => PlacedInOrder'
  <2>1. SUFFICES ASSUME LoopTypeOK, PlacedInOrder, [LoopNext]_loopVars PROVE PlacedInOrder'
    OBVIOUS
  <2>2. CASE Advance
    <3>1. SUFFICES ASSUME NEW j \in 1..(i + 1)
                   PROVE  Dependencies(modules[j]) \subseteq FoundUpTo(j - 1)
      BY <2>1, <2>2 DEF Advance, PlacedInOrder, Dependencies, Listed, FoundUpTo
    <3>2. i \in Nat
      BY <2>1, MaxLengthIsNat DEF LoopTypeOK
    <3>3. CASE j = i + 1
      BY <2>2, <3>2, <3>3 DEF Advance, Ready, Found
    <3>4. CASE j # i + 1
      BY <2>1, <3>2, <3>4 DEF PlacedInOrder
    <3>5. QED
      BY <3>3, <3>4
  <2>3. CASE Postpone
    <3>1. /\ i' = i /\ i \in Nat
          /\ depends' = depends
          /\ \A j \in 1..i : modules'[j] = modules[j]
      BY <2>1, <2>3, MovedShifts DEF Postpone
    <3>2. ASSUME NEW j \in 1..i
          PROVE  depends[modules[j]] \intersect Listed \subseteq FoundUpTo(j - 1)'
      <4>1. FoundUpTo(j - 1)' = FoundUpTo(j - 1)
        BY <2>1, <2>3, <3>1, FoundStays
      <4>2. QED
        BY <2>1, <4>1 DEF PlacedInOrder, Dependencies
    <3>3. Listed' = Listed
      BY <2>1, <2>3, MovedKeepsListed
    <3>4. QED
      BY <3>1, <3>2, <3>3 DEF PlacedInOrder, Dependencies
  <2>4. CASE UNCHANGED loopVars
    BY <2>1, <2>4 DEF loopVars, PlacedInOrder, Dependencies, Listed, FoundUpTo
  <2>5. QED
    BY <2>1, <2>2, <2>3, <2>4 DEF LoopNext
<1>3. QED
  BY <1>1, <1>2, SortTypeCorrect, PTL DEF LoopSpec

\* The list keeps its modules: none is lost when it is rotated (SameModules).
THEOREM SortKeepsModules == LoopSpec => SameModules
<1>1. LoopTypeOK /\ [LoopNext]_loopVars => [Listed' = Listed]_loopVars
  <2>1. SUFFICES ASSUME LoopTypeOK, LoopNext PROVE Listed' = Listed
    BY DEF loopVars
  <2>2. CASE Advance
    BY <2>2 DEF Advance, Listed
  <2>3. CASE Postpone
    BY <2>1, <2>3, MovedKeepsListed
  <2>4. QED
    BY <2>1, <2>2, <2>3 DEF LoopNext
<1>2. QED
  BY <1>1, SortTypeCorrect, PTL DEF LoopSpec, SameModules

-----------------------------------------------------------------------------
(* Progress, as far as it is a matter of safety.  The modules that were    *)
(* moved since the last one was placed are at the end of the list, and     *)
(* none of them can be placed yet.                                         *)

TailWaits == \A j \in (i + 1)..size :
                j > size - turns => ~(Dependencies(modules[j]) \subseteq Found)

LEMMA TailWaitsInductive ==
  ASSUME LoopTypeOK, TailWaits, [LoopNext]_loopVars
  PROVE  TailWaits'
<1>1. i \in Nat /\ size \in Nat /\ turns \in Nat
  BY MaxLengthIsNat DEF LoopTypeOK
<1>2. CASE Advance
  <2>1. \A j \in (i + 1)'..size' : ~(j > size' - turns')
    BY <1>1, <1>2 DEF Advance
  <2>2. QED
    BY <2>1 DEF TailWaits
<1>3. CASE Postpone
  <2>1. /\ Listed' = Listed
        /\ depends' = depends /\ i' = i /\ size' = size
        /\ Found' = Found
    BY <1>1, <1>3, MovedKeepsListed, FoundStays DEF Postpone, Found
  <2>2. SUFFICES ASSUME NEW j \in (i + 1)..size, j > size - turns'
                 PROVE  ~(depends[modules'[j]] \intersect Listed \subseteq Found)
    BY <2>1 DEF TailWaits, Dependencies
  <2>3. CASE j = size
    BY <1>3, <2>3, MovedShifts DEF Postpone, Ready, Dependencies
  <2>4. CASE j < size
    <3>1. j + 1 \in (i + 1)..size /\ j + 1 > size - turns
      BY <1>1, <1>3, <2>2, <2>4 DEF Postpone
    <3>2. modules'[j] = modules[j + 1]
      BY <1>1, <1>3, <2>4, MovedShifts
    <3>3. QED
      BY <3>1, <3>2 DEF TailWaits, Dependencies
  <2>5. QED
    BY <1>1, <2>3, <2>4
<1>4. CASE UNCHANGED loopVars
  BY <1>4 DEF loopVars, TailWaits, Dependencies, Listed, Found, FoundUpTo
<1>5. QED
  BY <1>2, <1>3, <1>4 DEF LoopNext

\* Where the listed modules can be ordered, the loop never moves all those that
\* are left without placing one (NoIdleRound).
THEOREM SortAdvances == LoopSpec => []NoIdleRound
<1>1. LoopTypeOK /\ TailWaits => NoIdleRound
  <2>1. SUFFICES ASSUME LoopTypeOK, TailWaits, CanBeOrdered, i < size,
                        turns >= size - i
                 PROVE  FALSE
    <3>1. SUFFICES ASSUME LoopTypeOK, TailWaits PROVE NoIdleRound
      OBVIOUS
    <3>2. size \in Nat /\ turns \in Nat /\ i \in Nat
      BY <3>1, MaxLengthIsNat DEF LoopTypeOK
    <3>3. QED
      BY <3>1, <3>2 DEF NoIdleRound
  <2>2. i \in Nat /\ size \in Nat /\ turns \in Nat
    BY <2>1, MaxLengthIsNat DEF LoopTypeOK
  <2> DEFINE Left == {modules[j] : j \in (i + 1)..size}
  <2>3. Left \in (SUBSET Listed) \ {{}}
    BY <2>1, <2>2 DEF Listed
  <2>4. PICK m \in Left : depends[m] \intersect Left = {}
    BY <2>1, <2>3 DEF CanBeOrdered
  <2>5. Listed \subseteq Found \union Left
    BY <2>2 DEF Listed, Found, FoundUpTo
  <2>6. Dependencies(m) \subseteq Found
    BY <2>4, <2>5 DEF Dependencies
  <2>7. ~(Dependencies(m) \subseteq Found)
    <3>1. PICK j \in (i + 1)..size : m = modules[j]
      BY <2>4
    <3>2. j > size - turns
      BY <2>1, <2>2
    <3>3. QED
      BY <2>1, <3>1, <3>2 DEF TailWaits
  <2>8. QED
    BY <2>6, <2>7
<1>2. LoopInit => TailWaits
  BY MaxLengthIsNat DEF LoopInit, TailWaits
<1>3. QED
  BY <1>1, <1>2, TailWaitsInductive, SortTypeCorrect, PTL DEF LoopSpec

-----------------------------------------------------------------------------
Smaller == {ss \in Nat \X Nat : ss[1] < ss[2]}

LEMMA SmallerWellFounded == IsWellFoundedOn(Smaller, Nat)
  BY NatLessThanWellFounded, Zenon DEF OpToRel, Smaller

LEMMA SmallerPairs ==
  ASSUME NEW a \in Nat, NEW b \in Nat, a < b
  PROVE  <<a, b>> \in Smaller
  BY DEF Smaller

\* A cycle among the listed modules is never put in order: the loop that has
\* one does not end (CyclesNeverEnd).
THEOREM CyclesLoop == LoopSpec => []CyclesNeverEnd
<1>1. LoopTypeOK /\ PlacedInOrder => CyclesNeverEnd
  <2>1. SUFFICES ASSUME LoopTypeOK, PlacedInOrder, i >= size PROVE CanBeOrdered
    BY MaxLengthIsNat DEF CyclesNeverEnd, LoopTypeOK
  <2>2. i = size /\ size \in Nat
    BY <2>1, MaxLengthIsNat DEF LoopTypeOK
  <2>3. SUFFICES ASSUME NEW S \in (SUBSET Listed) \ {{}}
                 PROVE  \E m \in S : depends[m] \intersect S = {}
    BY DEF CanBeOrdered
  <2> DEFINE Held == {j \in 1..size : modules[j] \in S}
  <2>4. Held \subseteq Nat /\ Held # {}
    BY <2>2 DEF Listed
  <2> HIDE DEF Held
  <2>5. PICK j \in Held : \A k \in Held : ~(<<k, j>> \in Smaller)
    BY <2>4, SmallerWellFounded, WFMin
  <2>6. \A k \in Held : k >= j
    <3>1. SUFFICES ASSUME NEW k \in Held PROVE ~(k < j)
      BY <2>4
    <3>2. k \in Nat /\ j \in Nat
      BY <2>4
    <3>3. QED
      BY <2>5, <3>2, SmallerPairs
  <2> USE DEF Held
  <2>7. modules[j] \in S
    OBVIOUS
  <2>8. depends[modules[j]] \intersect S \subseteq FoundUpTo(j - 1)
    BY <2>1, <2>2 DEF PlacedInOrder, Dependencies
  <2>9. FoundUpTo(j - 1) \intersect S = {}
    BY <2>2, <2>6 DEF FoundUpTo
  <2>10. QED
    BY <2>7, <2>8, <2>9
<1>2. QED
  BY <1>1, SortedInOrder, SortTypeCorrect, PTL
=============================================================================
