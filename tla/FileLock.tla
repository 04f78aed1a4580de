------------------------------ MODULE FileLock -------------------------------
(***************************************************************************)
(* The two file locks of Zentyal: EBox::Util::Lock, which modules take     *)
(* while they are saved and iptables while it is reloaded, and             *)
(* EBox::Util::SHMLock, which guards the Redis transactions.  Both are     *)
(* flock(2) on a file; unlock() of the first also removes the file.        *)
(*                                                                         *)
(* flock(2) locks the open inode and not the name, so the model keeps, for *)
(* each name, the inode it leads to, and for each process the inode it has *)
(* open.  Every system call is a step.                                     *)
(***************************************************************************)
EXTENDS FiniteSets

CONSTANTS Proc,      \* processes
          Resource,  \* names of locks
          Removed,   \* the names whose file unlock() removes (Util/Lock.pm)
          Inode,     \* bound: inodes, enough to never run out
          None       \* no inode, no owner, no resource

ASSUME RemovedAreResources == Removed \subseteq Resource
ASSUME NoneIsApart == None \notin Proc \union Inode \union Resource

VARIABLES file,    \* inode that each name leads to
          owner,   \* process with the flock of each inode
          handle,  \* inode open in each process
          wanted,  \* lock that each process asks for or has
          pc       \* where it is in lock() or unlock()

vars == <<file, owner, handle, wanted, pc>>

\* try: LOCK_NB; timed: an alarm ends the wait; wait: no limit; held: lock()
\* has returned; removing: unlock() has closed the file.
Places == {"idle", "try", "timed", "wait", "held", "removing"}

\* init() of SHMLock creates its file once.
Init == /\ file \in {f \in [Resource -> Inode \union {None}] :
                        /\ \A r \in Resource : f[r] = None <=> r \in Removed
                        /\ \A r, s \in Resource \ Removed :
                              f[r] = f[s] => r = s}
        /\ owner = [i \in Inode |-> None]
        /\ handle = [p \in Proc |-> None]
        /\ wanted = [p \in Proc |-> None]
        /\ pc = [p \in Proc |-> "idle"]

Unused == Inode \ ({file[r] : r \in Resource} \union {handle[p] : p \in Proc})

FreedForgetsOthers(p) == [i \in {handle[p]} |-> None] \* mutant

\* open($handle, ">$file"): perl closes what the handle had open, which drops
\* its flock, and the file is created if it is not there.
Freed(p) == [i \in Inode |-> IF owner[i] = p THEN None ELSE owner[i]]

Opened(r) == IF file[r] = None THEN CHOOSE i \in Unused : TRUE ELSE file[r]

Open(p, r) ==
    /\ file[r] = None => Unused # {}
    /\ owner' = Freed(p)
    /\ file' = [file EXCEPT ![r] = Opened(r)]

\* lock(resource, blocking, blockingTimeOut); that of SHMLock only waits.
LockOpen(p, r) ==
    /\ pc[p] = "idle"
    /\ Open(p, r)
    /\ handle' = [handle EXCEPT ![p] = Opened(r)]
    /\ wanted' = [wanted EXCEPT ![p] = r]
    /\ \E mode \in IF r \in Removed THEN {"try", "timed", "wait"} ELSE {"wait"} :
          pc' = [pc EXCEPT ![p] = mode]

Flock(p) ==
    /\ pc[p] \in {"try", "timed", "wait"}
    /\ owner[handle[p]] = None
    /\ owner' = [owner EXCEPT ![handle[p]] = p]
    /\ pc' = [pc EXCEPT ![p] = "held"]
    /\ UNCHANGED <<file, handle, wanted>>

\* EBox::Exceptions::Lock: LOCK_NB found the file locked, or the alarm rang.
\* The handle that stays open has no flock: it is as good as closed.
LockThrows(p) ==
    /\ \/ pc[p] = "timed"
       \/ pc[p] = "try" /\ owner[handle[p]] # None
    /\ pc' = [pc EXCEPT ![p] = "idle"]
    /\ wanted' = [wanted EXCEPT ![p] = None]
    /\ handle' = [handle EXCEPT ![p] = None]
    /\ UNCHANGED <<file, owner>>

\* unlock() opens the file once more; that closes the handle with the flock,
\* and the LOCK_UN that follows is for the new one, soon closed.
UnlockKeepsOpen(p) == \* mutant
    /\ pc[p] = "held"
    /\ pc' = [pc EXCEPT ![p] = "removing"]
    /\ UNCHANGED <<file, owner, handle, wanted>>

UnlockOpen(p) ==
    /\ pc[p] = "held"
    /\ Open(p, wanted[p])
    /\ handle' = [handle EXCEPT ![p] = None]
    /\ pc' = [pc EXCEPT ![p] = "removing"]
    /\ UNCHANGED wanted

UnlinkAlways(p) == \* mutant
    /\ pc[p] = "removing"
    /\ file' = [file EXCEPT ![wanted[p]] = None]
    /\ wanted' = [wanted EXCEPT ![p] = None]
    /\ pc' = [pc EXCEPT ![p] = "idle"]
    /\ UNCHANGED <<owner, handle>>

\* unlink($file), of whatever file has the name by then.
Unlink(p) ==
    /\ pc[p] = "removing"
    /\ file' = IF wanted[p] \in Removed
               THEN [file EXCEPT ![wanted[p]] = None] ELSE file
    /\ wanted' = [wanted EXCEPT ![p] = None]
    /\ pc' = [pc EXCEPT ![p] = "idle"]
    /\ UNCHANGED <<owner, handle>>

\* The process ends anywhere; the system closes its files.
Exit(p) ==
    /\ owner' = Freed(p)
    /\ handle' = [handle EXCEPT ![p] = None]
    /\ wanted' = [wanted EXCEPT ![p] = None]
    /\ pc' = [pc EXCEPT ![p] = "idle"]
    /\ UNCHANGED file

Step(p) == \/ \E r \in Resource : LockOpen(p, r)
           \/ Flock(p) \/ LockThrows(p) \/ UnlockOpen(p) \/ Unlink(p)

Next == \E p \in Proc : Step(p) \/ Exit(p)

Spec == Init /\ [][Next]_vars

\* The code between lock() and unlock() ends; the kernel wakes a waiter that
\* finds the lock free again and again.
Fairness == \A p \in Proc : /\ WF_vars(UnlockOpen(p) \/ Unlink(p))
                            /\ WF_vars(LockThrows(p))
                            /\ SF_vars(Flock(p))

FairSpec == Spec /\ Fairness

-----------------------------------------------------------------------------
\* Type invariant of the names, the inodes and the processes.
TypeOK == /\ file \in [Resource -> Inode \union {None}]
          /\ owner \in [Inode -> Proc \union {None}]
          /\ handle \in [Proc -> Inode \union {None}]
          /\ wanted \in [Proc -> Resource \union {None}]
          /\ pc \in [Proc -> Places]

Holds(p, r) == pc[p] = "held" /\ wanted[p] = r

Exclusive(r) == \A p, q \in Proc : Holds(p, r) /\ Holds(q, r) => p = q

\* A lock whose file is kept, that of the Redis transactions, has one holder
\* at most (SHMLock lock and unlock).
KeptExclusive == \A r \in Resource \ Removed : Exclusive(r)

\* A lock whose file is removed has one holder at most (Util/Lock lock, unlock).
RemovedExclusive == \A r \in Removed : Exclusive(r)

\* A process that is not in lock() or between lock() and unlock() keeps nobody
\* out, even if its lock() threw or the file was replaced under it.
IdleOwnsNothing == \A p \in Proc, i \in Inode :
                      owner[i] = p => pc[p] = "held" /\ handle[p] = i

\* Every call of lock() returns or throws.
LockCallEnds == \A p \in Proc :
    pc[p] \in {"try", "timed", "wait"} ~> pc[p] \in {"held", "idle"}
=============================================================================
