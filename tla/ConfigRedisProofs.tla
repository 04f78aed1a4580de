-------------------------- MODULE ConfigRedisProofs --------------------------
(***************************************************************************)
(* Proofs about ConfigRedis for any processes, keys and values.  For any   *)
(* number of connection failures: types, the lock, and versions.  Then,    *)
(* under what each needs, that nothing is left over and that caches are    *)
(* coherent: no commit fails, an exception of a row operation ends the     *)
(* request, and, for the caches, no caller gives a default or reads a key  *)
(* its transaction has unset.  The other runs of ConfigRedis show that     *)
(* each of these is needed.  Under the same hypotheses ConfigRedis         *)
(* implements ConfStore.                                                   *)
(***************************************************************************)
EXTENDS ConfigRedis, TLAPS

(* The operators on the package globals keep their type.                   *)

LEMMA StartedType == Started \in Globals /\ NoCache \in [Key -> Optional]
  BY DEF Started, Globals, NoCache, Optional

LEMMA RefreshedType ==
  ASSUME NEW g \in Globals, version \in Nat
  PROVE  Refreshed(g) \in Globals /\ Refreshed(g).trans = g.trans
  BY StartedType DEF Refreshed, Globals

LEMMA PutType ==
  ASSUME NEW g \in Globals, NEW k \in Key, NEW v \in Optional
  PROVE  Put(g, k, v) \in Globals /\ Put(g, k, v).trans = g.trans
  BY DEF Put, Globals

LEMMA RemoveType ==
  ASSUME NEW g \in Globals, NEW ks \in SUBSET Key
  PROVE  Remove(g, ks) \in Globals /\ Remove(g, ks).trans = g.trans
<1>1. [k \in Key |-> IF k \in ks THEN NoValue ELSE g.cache[k]] \in [Key -> Optional]
  BY DEF Globals, Optional
<1>2. QED
  BY <1>1 DEF Remove, Globals

LEMMA LookupType ==
  ASSUME NEW g \in Globals, NEW k \in Key, NEW d \in Optional,
         store \in [Key -> Optional]
  PROVE  Lookup(g, k, d) \in Optional
  BY DEF Lookup, Globals

LEMMA RememberType ==
  ASSUME NEW g \in Globals, NEW k \in Key, NEW v \in Optional
  PROVE  Remember(g, k, v) \in Globals /\ Remember(g, k, v).trans = g.trans
  BY DEF Remember, Globals

LEMMA CopiedType ==
  ASSUME NEW g \in Globals, NEW src \in Key, NEW dst \in Key,
         store \in [Key -> Optional]
  PROVE  Copied(g, src, dst) \in Globals /\ Copied(g, src, dst).trans = g.trans
<1> DEFINE h == Remove(g, IF Listed(g, dst) THEN {dst} ELSE {})
           v == Lookup(h, src, NoValue)
<1>1. h \in Globals /\ h.trans = g.trans
  BY RemoveType
<1>2. v \in Optional
  BY <1>1, LookupType DEF Optional
<1>3. /\ Remember(h, src, v) \in Globals
      /\ Remember(h, src, v).trans = g.trans
  BY <1>1, <1>2, RememberType
<1>4. /\ Put(Remember(h, src, v), dst, v) \in Globals
      /\ Put(Remember(h, src, v), dst, v).trans = g.trans
  BY <1>2, <1>3, PutType
<1> HIDE DEF h, v
<1>5. Copied(g, src, dst) = IF Listed(h, src) THEN Put(Remember(h, src, v), dst, v)
                                             ELSE h
  BY DEF Copied, h, v
<1>6. QED
  BY <1>1, <1>4, <1>5

LEMMA ForgottenType ==
  ASSUME NEW g \in Globals
  PROVE  Forgotten(g) \in Globals /\ Forgotten(g).trans = 0
<1>1. [k \in Key |-> IF k \in g.modified THEN NoValue ELSE g.cache[k]]
        \in [Key -> Optional]
  BY DEF Globals, Optional
<1>2. CASE g.trans = 0
  BY <1>2 DEF Forgotten
<1>3. CASE g.trans # 0
  <2>1. Forgotten(g) = [trans |-> 0,
                        cache |-> [k \in Key |-> IF k \in g.modified THEN NoValue
                                                                     ELSE g.cache[k]],
                        modified |-> {}, deleted |-> {}, version |-> g.version]
    BY <1>3 DEF Forgotten, Globals
  <2>2. QED
    BY <1>1, <2>1 DEF Globals
<1>4. QED
  BY <1>2, <1>3

LEMMA EnteredType ==
  ASSUME TypeOK, NEW p \in Proc
  PROVE  Entered(p) \in Globals /\ Entered(p).trans = proc[p].trans
  BY RefreshedType DEF Entered, TypeOK

LEMMA FlushedType ==
  ASSUME NEW g \in Globals, NEW ks, store \in [Key -> Optional]
  PROVE  Flushed(g, ks) \in [Key -> Optional]
  BY DEF Flushed, Globals, Optional

LEMMA SavedType ==
  ASSUME TypeOK, NEW s \in [Key -> Optional], Saved(s)
  PROVE  store' \in [Key -> Optional] /\ past' \in [Key -> SUBSET Optional]
  BY DEF Saved, TypeOK
(* The type invariant without the locations and the answers.               *)

DataTypeOK == /\ store \in [Key -> Optional]
              /\ version \in Nat
              /\ lock \in Proc \union {NoProc}
              /\ proc \in [Proc -> Globals]
              /\ drops \in Nat
              /\ past \in [Key -> SUBSET Optional]

LEMMA CleanType ==
  ASSUME NEW g \in Globals, NEW v \in Nat, NEW m \in SUBSET Key
  PROVE  /\ [g EXCEPT !.modified = {}, !.deleted = {}, !.version = v] \in Globals
         /\ [g EXCEPT !.modified = {}, !.deleted = {}] \in Globals
         /\ [g EXCEPT !.modified = m] \in Globals
  BY DEF Globals

LEMMA SyncType ==
  ASSUME TypeOK, NEW p \in Proc, NEW g \in Globals, Sync(p, g)
  PROVE  DataTypeOK'
<1>1. lock' \in Proc \union {NoProc} /\ drops' \in Nat
  BY DEF Sync, TypeOK
<1>2. CASE Dirty(g) = {}
  BY <1>1, <1>2 DEF Sync, TypeOK, DataTypeOK
<1>3. CASE Dirty(g) # {}
  <2>1. version' \in Nat /\ Incremented \in Nat
    BY <1>3 DEF Sync, Incremented, TypeOK
  <2>2. proc' \in [Proc -> Globals]
    BY <1>3, <2>1, CleanType DEF Sync, TypeOK
  <2>3. store' \in [Key -> Optional] /\ past' \in [Key -> SUBSET Optional]
    BY <1>3, FlushedType, SavedType DEF Sync, TypeOK
  <2>4. QED
    BY <1>1, <2>1, <2>2, <2>3 DEF DataTypeOK
<1>4. QED
  BY <1>2, <1>3

LEMMA SyncFailsType ==
  ASSUME TypeOK, NEW p \in Proc, NEW g \in Globals, SyncFails(p, g)
  PROVE  DataTypeOK'
<1>1. lock' \in Proc \union {NoProc} /\ drops' \in Nat
  BY DEF SyncFails, TypeOK
<1>2. CASE /\ \E m \in {g.modified, {}} :
                 proc' = [proc EXCEPT ![p] = [g EXCEPT !.modified = m]]
           /\ UNCHANGED <<store, version, past>>
  <2>1. PICK m \in {g.modified, {}} :
           proc' = [proc EXCEPT ![p] = [g EXCEPT !.modified = m]]
    BY <1>2
  <2>2. m \in SUBSET Key
    BY <2>1 DEF Globals
  <2>3. proc' \in [Proc -> Globals]
    BY <2>1, <2>2, CleanType DEF TypeOK
  <2>4. QED
    BY <1>1, <1>2, <2>3 DEF TypeOK, DataTypeOK
<1>3. CASE \E ks \in SUBSET Dirty(g) :
             /\ proc' = [proc EXCEPT ![p] = [g EXCEPT !.modified = {},
                                                      !.deleted = {}]]
             /\ Saved(Flushed(g, ks))
             /\ version' = Incremented \/ (ks = {} /\ version' = version)
  <2>1. PICK ks \in SUBSET Dirty(g) :
           /\ proc' = [proc EXCEPT ![p] = [g EXCEPT !.modified = {},
                                                    !.deleted = {}]]
           /\ Saved(Flushed(g, ks))
           /\ version' = Incremented \/ (ks = {} /\ version' = version)
    BY <1>3
  <2>6. Flushed(g, ks) \in [Key -> Optional]
    BY FlushedType DEF TypeOK
  <2>2. store' \in [Key -> Optional] /\ past' \in [Key -> SUBSET Optional]
    BY <2>1, <2>6, SavedType
  <2>3. proc' \in [Proc -> Globals]
    BY <1>3, CleanType DEF TypeOK
  <2>4. version' \in Nat
    BY <1>3 DEF Incremented, TypeOK
  <2>5. QED
    BY <1>1, <2>2, <2>3, <2>4 DEF DataTypeOK
<1>4. QED
  BY <1>2, <1>3 DEF SyncFails

LEMMA CountedType ==
  ASSUME NEW g \in Globals
  PROVE  /\ [g EXCEPT !.trans = g.trans - 1] \in Globals
         /\ [g EXCEPT !.trans = g.trans + 1] \in Globals
         /\ [g EXCEPT !.trans = 1] \in Globals
  BY DEF Globals

LEMMA BeginType ==
  ASSUME TypeOK, NEW p \in Proc, Begin(p)
  PROVE  DataTypeOK' /\ answer' = answer
<1>1. lock' \in Proc \union {NoProc}
  BY DEF Begin, TypeOK
<1>2. proc' \in [Proc -> Globals]
  <2>1. [Refreshed(proc[p]) EXCEPT !.trans = 1] \in Globals
    BY RefreshedType, CountedType DEF TypeOK
  <2>2. [proc[p] EXCEPT !.trans = proc[p].trans + 1] \in Globals
    BY CountedType DEF TypeOK
  <2>3. CASE proc[p].trans = 0
    BY <2>1, <2>3 DEF Begin, TypeOK
  <2>4. CASE proc[p].trans # 0
    BY <2>2, <2>4 DEF Begin, TypeOK
  <2>5. QED
    BY <2>3, <2>4
<1>3. QED
  BY <1>1, <1>2 DEF Begin, TypeOK, DataTypeOK

LEMMA CommitType ==
  ASSUME TypeOK, NEW p \in Proc, NEW ok \in Locations, NEW bad \in Locations,
         Commit(p, ok, bad)
  PROVE  TypeOK'
<1> DEFINE g == [proc[p] EXCEPT !.trans = @ - 1]
<1>1. g \in Globals
  BY CountedType DEF TypeOK
<1> HIDE DEF g
<1>2. /\ answer' = answer
      /\ \/ g.trans = 0 /\ Sync(p, g) /\ pc' = [pc EXCEPT ![p] = ok]
         \/ g.trans = 0 /\ SyncFails(p, g) /\ pc' = [pc EXCEPT ![p] = bad]
         \/ /\ proc' = [proc EXCEPT ![p] = g]
            /\ pc' = [pc EXCEPT ![p] = ok]
            /\ UNCHANGED <<store, version, lock, drops, past>>
  BY DEF Commit, g
<1>3. pc' \in [Proc -> Locations]
  BY <1>2 DEF TypeOK
<1>4. DataTypeOK'
  <2>1. CASE Sync(p, g)
    BY <1>1, <2>1, SyncType
  <2>2. CASE SyncFails(p, g)
    BY <1>1, <2>2, SyncFailsType
  <2>3. CASE /\ proc' = [proc EXCEPT ![p] = g]
             /\ UNCHANGED <<store, version, lock, drops, past>>
    BY <1>1, <2>3 DEF TypeOK, DataTypeOK
  <2>4. QED
    BY <1>2, <2>1, <2>2, <2>3
<1>5. QED
  BY <1>2, <1>3, <1>4 DEF TypeOK, DataTypeOK

LEMMA RollbackType ==
  ASSUME TypeOK, NEW p \in Proc, Rollback(p)
  PROVE  DataTypeOK' /\ answer' = answer
  BY ForgottenType DEF Rollback, TypeOK, DataTypeOK

LEMMA OperateType ==
  ASSUME TypeOK, NEW p \in Proc, NEW g \in Globals, Operate(p, g)
  PROVE  TypeOK'
<1>1. answer' = answer
  BY DEF Operate
<1>2. pc' \in [Proc -> Locations]
  BY DEF Operate, TypeOK, Locations
<1>3. DataTypeOK'
  <2>1. CASE /\ proc' = [proc EXCEPT ![p] = g]
             /\ UNCHANGED <<store, version, lock, pc, drops, past>>
    BY <2>1 DEF TypeOK, DataTypeOK
  <2>2. CASE Sync(p, g)
    BY <2>2, SyncType
  <2>3. CASE SyncFails(p, g)
    BY <2>3, SyncFailsType
  <2>4. QED
    BY <2>1, <2>2, <2>3 DEF Operate
<1>4. QED
  BY <1>1, <1>2, <1>3 DEF TypeOK, DataTypeOK

-----------------------------------------------------------------------------
(* The operations.                                                         *)

LEMMA SetType ==
  ASSUME TypeOK, NEW p \in Proc, NEW k \in Key, NEW v \in Value
  PROVE  Put(Entered(p), k, v) \in Globals
  BY EnteredType, PutType DEF Optional

LEMMA UnsetType ==
  ASSUME TypeOK, NEW p \in Proc, NEW ks \in SUBSET Key
  PROVE  Remove(Entered(p), ks) \in Globals
  BY EnteredType, RemoveType

LEMMA BackupType ==
  ASSUME TypeOK, NEW p \in Proc, NEW src \in Key, NEW dst \in Key
  PROVE  Copied(Entered(p), src, dst) \in Globals
  BY EnteredType, CopiedType DEF TypeOK

LEMMA GetType ==
  ASSUME TypeOK, NEW p \in Proc, NEW k \in Key, NEW d \in Defaults \union {NoValue},
         Get(p, k, d)
  PROVE  TypeOK'
<1> DEFINE v == Lookup(proc[p], k, d)
<1>1. d \in Optional
  BY ConstantTypes DEF Optional
<1>2. proc[p] \in Globals
  BY DEF TypeOK
<1>3. v \in Optional
  BY <1>1, <1>2, LookupType DEF TypeOK
<1>4. Remember(proc[p], k, v) \in Globals
  BY <1>2, <1>3, RememberType
<1>5. /\ answer' = [answer EXCEPT ![p] = v]
      /\ proc' = [proc EXCEPT ![p] = Remember(proc[p], k, v)]
      /\ UNCHANGED <<store, version, lock, pc, drops, past>>
  BY DEF Get
<1> HIDE DEF v
<1>6. QED
  BY <1>3, <1>4, <1>5 DEF TypeOK

\* The package globals, the store and the lock keep their types (TypeOK) in
\* every behaviour, failed commits and dead processes included.
THEOREM TypeCorrect == Spec => []TypeOK
<1>1. Init => TypeOK
  BY StartedType DEF Init, TypeOK, Optional, Locations
<1>2. TypeOK /\ [Next]_vars => TypeOK'
  <2>1. SUFFICES ASSUME TypeOK, [Next]_vars PROVE TypeOK'
    OBVIOUS
  <2>2. CASE UNCHANGED vars
    BY <2>1, <2>2 DEF vars, TypeOK
  <2>3. ASSUME NEW p \in Proc, Crash(p) PROVE TypeOK'
    BY <2>1, <2>3, StartedType DEF Crash, TypeOK, Locations
  <2>4. ASSUME NEW p \in Proc, Caller(p) PROVE TypeOK'
    <3>1. CASE RequestBegin(p)
      BY <2>1, <3>1, BeginType DEF RequestBegin, TypeOK, DataTypeOK, Locations
    <3>2. CASE RequestCommit(p)
      BY <2>1, <3>2, CommitType DEF RequestCommit, Locations
    <3>3. CASE RequestRollback(p)
      BY <2>1, <3>3, RollbackType DEF RequestRollback, TypeOK, DataTypeOK, Locations
    <3>4. CASE RowBegin(p)
      BY <2>1, <3>4, BeginType DEF RowBegin, TypeOK, DataTypeOK, Locations
    <3>5. CASE RowCommit(p)
      BY <2>1, <3>5, CommitType DEF RowCommit, Locations
    <3>6. CASE RowAbort(p)
      <4>1. pc' \in [Proc -> Locations]
        BY <2>1, <3>6 DEF RowAbort, TypeOK, Locations
      <4>2. QED
        BY <2>1, <3>6, <4>1, RollbackType DEF RowAbort, TypeOK, DataTypeOK
    <3>7. ASSUME NEW k \in Key, NEW v \in Value, Set(p, k, v) PROVE TypeOK'
      BY <2>1, <3>7, SetType, OperateType DEF Set
    <3>8. ASSUME NEW k \in Key, NEW d \in Defaults \union {NoValue}, Get(p, k, d)
          PROVE TypeOK'
      BY <2>1, <3>8, GetType
    <3>9. ASSUME NEW k \in Key, NEW k2 \in Key, BackupDir(p, k, k2) PROVE TypeOK'
      BY <2>1, <3>9, BackupType, OperateType DEF BackupDir
    <3>10. ASSUME NEW ks \in SUBSET Key, Unset(p, ks) PROVE TypeOK'
      BY <2>1, <3>10, UnsetType, OperateType DEF Unset
    <3>11. QED
      BY <2>4, <3>1, <3>2, <3>3, <3>4, <3>5, <3>6, <3>7, <3>8, <3>9, <3>10 DEF Caller
  <2>5. QED
    BY <2>1, <2>2, <2>3, <2>4 DEF Next
<1>3. QED
  BY <1>1, <1>2, PTL DEF Spec

-----------------------------------------------------------------------------
(* Whoever counts an open transaction has the lock.                        *)

\* Only the globals of p change, and its counter becomes n.
CountBecomes(p, n) == /\ proc'[p].trans = n
                      /\ \A q \in Proc \ {p} : proc'[q] = proc[q]

LEMMA SyncCount ==
  ASSUME TypeOK, NEW p \in Proc, NEW g \in Globals, Sync(p, g)
  PROVE  CountBecomes(p, g.trans)
<1>1. CASE Dirty(g) = {}
  BY <1>1 DEF Sync, TypeOK, CountBecomes
<1>2. CASE Dirty(g) # {}
  BY <1>2, ZenonT(60) DEF Sync, TypeOK, CountBecomes, Globals
<1>3. QED
  BY <1>1, <1>2

LEMMA SyncFailsCount ==
  ASSUME TypeOK, NEW p \in Proc, NEW g \in Globals, SyncFails(p, g)
  PROVE  CountBecomes(p, g.trans)
<1>1. ASSUME NEW h, h.trans = g.trans, proc' = [proc EXCEPT ![p] = h]
      PROVE  CountBecomes(p, g.trans)
  BY <1>1 DEF TypeOK, CountBecomes
<1>2. ASSUME NEW m, proc' = [proc EXCEPT ![p] = [g EXCEPT !.modified = m]]
      PROVE  CountBecomes(p, g.trans)
  <2>1. [g EXCEPT !.modified = m].trans = g.trans
    BY DEF Globals
  <2>2. QED
    BY <1>1, <1>2, <2>1
<1>3. CASE proc' = [proc EXCEPT ![p] = [g EXCEPT !.modified = {},
                                                 !.deleted = {}]]
  <2>1. [g EXCEPT !.modified = {}, !.deleted = {}].trans = g.trans
    BY DEF Globals
  <2>2. QED
    BY <1>1, <1>3, <2>1
<1>4. QED
  BY <1>2, <1>3 DEF SyncFails

LEMMA SettleHoldsLock ==
  ASSUME TypeOK, OpenHoldsLock, NEW p \in Proc, NEW g \in Globals,
         g.trans = 0, lock \in {p, NoProc},
         Sync(p, g) \/ SyncFails(p, g)
  PROVE  OpenHoldsLock'
<1>1. CountBecomes(p, 0)
  BY SyncCount, SyncFailsCount
<1>2. \A q \in Proc \ {p} : ~(proc[q].trans > 0)
  BY ConstantsAreApart DEF OpenHoldsLock
<1>3. QED
  BY <1>1, <1>2 DEF OpenHoldsLock, CountBecomes

LEMMA OperateHoldsLock ==
  ASSUME TypeOK, OpenHoldsLock, NEW p \in Proc, NEW g \in Globals,
         g.trans = proc[p].trans, Operate(p, g)
  PROVE  OpenHoldsLock'
<1>1. CASE /\ proc' = [proc EXCEPT ![p] = g]
           /\ lock' = lock
  BY <1>1 DEF OpenHoldsLock, TypeOK
<1>2. CASE /\ proc[p].trans = 0
           /\ LockFree(p)
           /\ Sync(p, g) \/ SyncFails(p, g)
  BY <1>2, SettleHoldsLock DEF LockFree
<1>3. QED
  BY <1>1, <1>2 DEF Operate

LEMMA BeginHoldsLock ==
  ASSUME TypeOK, OpenHoldsLock, NEW p \in Proc, Begin(p)
  PROVE  OpenHoldsLock'
<1>1. CASE proc[p].trans = 0
  <2>1. lock' = p /\ lock \in {p, NoProc}
    BY <1>1 DEF Begin, LockFree
  <2>2. \A q \in Proc \ {p} : proc'[q] = proc[q] /\ ~(proc[q].trans > 0)
    BY <1>1, <2>1, ConstantsAreApart DEF Begin, OpenHoldsLock, TypeOK
  <2>3. QED
    BY <2>1, <2>2 DEF OpenHoldsLock
<1>2. CASE proc[p].trans # 0
  <2>1. proc' = [proc EXCEPT ![p] = [proc[p] EXCEPT !.trans = proc[p].trans + 1]]
        /\ lock' = lock
    BY <1>2 DEF Begin
  <2>2. proc'[p].trans = proc[p].trans + 1 /\ proc[p].trans \in Int
    BY <2>1 DEF TypeOK, Globals
  <2>3. \A q \in Proc \ {p} : proc'[q] = proc[q]
    BY <2>1 DEF TypeOK
  <2>4. QED
    BY <1>2, <2>1, <2>2, <2>3 DEF OpenHoldsLock
<1>3. QED
  BY <1>1, <1>2

LEMMA CommitHoldsLock ==
  ASSUME TypeOK, OpenHoldsLock, NEW p \in Proc, NEW ok, NEW bad,
         Commit(p, ok, bad)
  PROVE  OpenHoldsLock'
<1> DEFINE g == [proc[p] EXCEPT !.trans = @ - 1]
<1>1. /\ g \in Globals
      /\ g.trans = proc[p].trans - 1
      /\ proc[p].trans \in Int
  BY CountedType DEF TypeOK, Globals
<1> HIDE DEF g
<1>2. \/ g.trans = 0 /\ (Sync(p, g) \/ SyncFails(p, g))
      \/ g.trans # 0 /\ proc' = [proc EXCEPT ![p] = g] /\ lock' = lock
  BY DEF Commit, g
<1>3. CASE g.trans = 0 /\ (Sync(p, g) \/ SyncFails(p, g))
  <2>1. proc[p].trans > 0
    BY <1>1, <1>3
  <2>2. lock = p
    BY <2>1 DEF OpenHoldsLock
  <2>3. QED
    BY <1>1, <1>3, <2>2, SettleHoldsLock
<1>4. CASE g.trans # 0 /\ proc' = [proc EXCEPT ![p] = g] /\ lock' = lock
  <2>1. proc'[p].trans > 0 => proc[p].trans > 0
    BY <1>1, <1>4 DEF TypeOK
  <2>2. QED
    BY <1>4, <2>1 DEF OpenHoldsLock, TypeOK
<1>5. QED
  BY <1>2, <1>3, <1>4

\* Rolling back and dying leave p with a counter of zero and without the lock.
LEMMA ReleaseHoldsLock ==
  ASSUME TypeOK, OpenHoldsLock, NEW p \in Proc, NEW g \in Globals, g.trans = 0,
         proc' = [proc EXCEPT ![p] = g],
         lock' = IF lock = p THEN NoProc ELSE lock
  PROVE  OpenHoldsLock'
  BY DEF OpenHoldsLock, TypeOK

\* Two processes are never between begin() and commit() at once, whatever
\* rollbacks were swallowed and whatever commits failed (OpenHoldsLock).
THEOREM LockHeld == Spec => []OpenHoldsLock
<1>1. Init => OpenHoldsLock
  BY DEF Init, Started, OpenHoldsLock
<1>2. TypeOK /\ OpenHoldsLock /\ [Next]_vars => OpenHoldsLock'
  <2>1. SUFFICES ASSUME TypeOK, OpenHoldsLock, [Next]_vars PROVE OpenHoldsLock'
    OBVIOUS
  <2>2. CASE UNCHANGED vars
    BY <2>1, <2>2 DEF vars, OpenHoldsLock
  <2>3. ASSUME NEW p \in Proc, Crash(p) PROVE OpenHoldsLock'
    <3>1. Started \in Globals /\ Started.trans = 0
      BY StartedType DEF Started
    <3>2. QED
      BY <2>1, <2>3, <3>1, ReleaseHoldsLock DEF Crash
  <2>4. ASSUME NEW p \in Proc, Rollback(p) PROVE OpenHoldsLock'
    <3>1. proc[p] \in Globals
      BY <2>1 DEF TypeOK
    <3>2. QED
      BY <2>1, <2>4, <3>1, ForgottenType, ReleaseHoldsLock DEF Rollback
  <2>5. ASSUME NEW p \in Proc, Caller(p) PROVE OpenHoldsLock'
    <3>1. CASE RequestBegin(p) \/ RowBegin(p)
      BY <2>1, <3>1, BeginHoldsLock DEF RequestBegin, RowBegin
    <3>2. CASE RequestCommit(p) \/ RowCommit(p)
      BY <2>1, <3>2, CommitHoldsLock DEF RequestCommit, RowCommit
    <3>3. CASE RequestRollback(p) \/ RowAbort(p)
      BY <2>4, <3>3 DEF RequestRollback, RowAbort
    <3>4. ASSUME NEW k \in Key, NEW v \in Value, Set(p, k, v) PROVE OpenHoldsLock'
      <4>1. Put(Entered(p), k, v).trans = proc[p].trans
        BY <2>1, EnteredType, PutType DEF Optional
      <4>2. QED
        BY <2>1, <3>4, <4>1, SetType, OperateHoldsLock DEF Set
    <3>5. ASSUME NEW k \in Key, NEW d \in Defaults \union {NoValue}, Get(p, k, d)
          PROVE OpenHoldsLock'
      <4>1. proc[p] \in Globals /\ d \in Optional
        BY <2>1, ConstantTypes DEF TypeOK, Optional
      <4>2. Lookup(proc[p], k, d) \in Optional
        BY <2>1, <4>1, LookupType DEF TypeOK
      <4>3. Remember(proc[p], k, Lookup(proc[p], k, d)).trans = proc[p].trans
        BY <4>1, <4>2, RememberType
      <4>4. /\ proc' = [proc EXCEPT ![p] = Remember(proc[p], k, Lookup(proc[p], k, d))]
            /\ lock' = lock
        BY <3>5 DEF Get
      <4>5. QED
        BY <2>1, <4>3, <4>4 DEF OpenHoldsLock, TypeOK
    <3>6. ASSUME NEW k \in Key, NEW k2 \in Key, BackupDir(p, k, k2)
          PROVE OpenHoldsLock'
      <4>1. Copied(Entered(p), k, k2).trans = proc[p].trans
        BY <2>1, EnteredType, CopiedType DEF TypeOK
      <4>2. QED
        BY <2>1, <3>6, <4>1, BackupType, OperateHoldsLock DEF BackupDir
    <3>7. ASSUME NEW ks \in SUBSET Key, Unset(p, ks) PROVE OpenHoldsLock'
      <4>1. Remove(Entered(p), ks).trans = proc[p].trans
        BY <2>1, EnteredType, RemoveType
      <4>2. QED
        BY <2>1, <3>7, <4>1, UnsetType, OperateHoldsLock DEF Unset
    <3>8. QED
      BY <2>5, <3>1, <3>2, <3>3, <3>4, <3>5, <3>6, <3>7 DEF Caller
  <2>6. QED
    BY <2>1, <2>2, <2>3, <2>5 DEF Next
<1>3. QED
  BY <1>1, <1>2, TypeCorrect, PTL DEF Spec

-----------------------------------------------------------------------------
(* A change of the stored data shows in the version.                       *)

LEMMA NothingFlushed ==
  ASSUME TypeOK, NEW g, Saved(Flushed(g, {}))
  PROVE  store' = store
  BY DEF Saved, Flushed, TypeOK

LEMMA SyncRaises ==
  ASSUME TypeOK, NEW p, NEW g, Sync(p, g) \/ SyncFails(p, g)
  PROVE  store' # store => version' > version
<1>1. version + 1 > version
  BY DEF TypeOK
<1>2. CASE Sync(p, g)
  BY <1>1, <1>2 DEF Sync, Incremented
<1>3. CASE SyncFails(p, g)
  <2>1. CASE UNCHANGED <<store, version, past>>
    BY <2>1
  <2>2. ASSUME NEW ks \in SUBSET Dirty(g),
               Saved(Flushed(g, ks)),
               version' = Incremented \/ (ks = {} /\ version' = version)
        PROVE  store' # store => version' > version
    BY <1>1, <2>2, NothingFlushed DEF Incremented
  <2>3. QED
    BY <1>3, <2>1, <2>2 DEF SyncFails
<1>4. QED
  BY <1>2, <1>3

\* No stored value changes, in a transaction that is committed or in one that a
\* lost connection applies by halves, without raising the version that makes the
\* other processes flush their caches (ChangeRaisesVersion).
THEOREM ChangesShow == Spec => ChangeRaisesVersion
<1>1. TypeOK /\ [Next]_vars => [store' # store => version' > version]_vars
  <2>1. SUFFICES ASSUME TypeOK, Next, store' # store PROVE version' > version
    BY DEF vars
  <2>2. ASSUME NEW p, NEW g, Operate(p, g) PROVE version' > version
    BY <2>1, <2>2, SyncRaises DEF Operate
  <2>3. ASSUME NEW p, NEW ok, NEW bad, Commit(p, ok, bad) PROVE version' > version
    BY <2>1, <2>3, SyncRaises DEF Commit
  <2>4. ASSUME NEW p \in Proc, Caller(p) PROVE version' > version
    <3>1. CASE RequestBegin(p) \/ RowBegin(p)
      BY <2>1, <3>1 DEF RequestBegin, RowBegin, Begin
    <3>2. CASE RequestCommit(p) \/ RowCommit(p)
      BY <2>3, <3>2 DEF RequestCommit, RowCommit
    <3>3. CASE RequestRollback(p) \/ RowAbort(p)
      BY <2>1, <3>3 DEF RequestRollback, RowAbort, Rollback
    <3>4. ASSUME NEW k, NEW v, Set(p, k, v) PROVE version' > version
      BY <2>2, <3>4 DEF Set
    <3>5. ASSUME NEW k, NEW d, Get(p, k, d) PROVE version' > version
      BY <2>1, <3>5 DEF Get
    <3>6. ASSUME NEW k, NEW k2, BackupDir(p, k, k2) PROVE version' > version
      BY <2>2, <3>6 DEF BackupDir
    <3>7. ASSUME NEW ks, Unset(p, ks) PROVE version' > version
      BY <2>2, <3>7 DEF Unset
    <3>8. QED
      BY <2>4, <3>1, <3>2, <3>3, <3>4, <3>5, <3>6, <3>7 DEF Caller
  <2>5. ASSUME NEW p \in Proc, Crash(p) PROVE version' > version
    BY <2>1, <2>5 DEF Crash
  <2>6. QED
    BY <2>1, <2>4, <2>5 DEF Next
<1>2. QED
  BY <1>1, TypeCorrect, PTL DEF Spec, ChangeRaisesVersion

-----------------------------------------------------------------------------
(* Without failures.                                                        *)

NoFaults == MaxDrops = 0 /\ Catches = FALSE
PlainReads == Defaults = {} /\ RereadsUnset = FALSE

LEMMA NoSyncFails ==
  ASSUME NoFaults, TypeOK
  PROVE  \A p, g : ~SyncFails(p, g)
  BY DEF NoFaults, TypeOK, SyncFails

-----------------------------------------------------------------------------
(* The counter is the depth of the request, and at depth zero nothing is   *)
(* unsaved.                                                                *)

DepthOf(l) == IF l = "request" THEN 1 ELSE IF l = "row" THEN 2 ELSE 0

NestedAt(p) == /\ proc[p].trans = DepthOf(pc[p])
               /\ proc[p].trans = 0 => Dirty(proc[p]) = {}

Nested == \A p \in Proc : NestedAt(p)

LEMMA OthersNested ==
  ASSUME TypeOK, Nested, NEW p \in Proc, NEW g, NEW l,
         proc' = [proc EXCEPT ![p] = g], pc' = [pc EXCEPT ![p] = l],
         g.trans = DepthOf(l), g.trans = 0 => Dirty(g) = {}
  PROVE  Nested'
<1>1. proc'[p] = g /\ pc'[p] = l
  BY DEF TypeOK
<1>2. \A q \in Proc \ {p} : proc'[q] = proc[q] /\ pc'[q] = pc[q]
  BY DEF TypeOK
<1>3. QED
  BY <1>1, <1>2 DEF Nested, NestedAt, Dirty

\* What a process has once it has written everything.
LEMMA SyncClean ==
  ASSUME TypeOK, NEW p \in Proc, NEW g \in Globals, Sync(p, g)
  PROVE  \E h \in Globals : /\ proc' = [proc EXCEPT ![p] = h]
                            /\ h.trans = g.trans /\ Dirty(h) = {}
<1>1. CASE Dirty(g) = {}
  BY <1>1 DEF Sync
<1>2. CASE Dirty(g) # {}
  <2> DEFINE h == [g EXCEPT !.modified = {}, !.deleted = {}, !.version = version + 1]
  <2>1. version + 1 \in Nat
    BY DEF TypeOK
  <2>2. h \in Globals /\ h.trans = g.trans /\ h.modified = {} /\ h.deleted = {}
    BY <2>1 DEF Globals
  <2>3. proc' = [proc EXCEPT ![p] = h]
    BY <1>2 DEF Sync, Incremented
  <2>4. QED
    BY <2>2, <2>3 DEF Dirty
<1>3. QED
  BY <1>1, <1>2

LEMMA OperateNested ==
  ASSUME NoFaults, TypeOK, Nested, NEW p \in Proc, NEW g \in Globals,
         g.trans = proc[p].trans, Operate(p, g)
  PROVE  Nested'
<1>1. pc' = [pc EXCEPT ![p] = pc[p]] /\ proc[p].trans = DepthOf(pc[p])
  BY NoSyncFails DEF Operate, TypeOK, Nested, NestedAt
<1>2. CASE proc[p].trans # 0
  <2>1. proc' = [proc EXCEPT ![p] = g]
    BY <1>2 DEF Operate
  <2>2. QED
    BY <1>1, <1>2, <2>1, OthersNested
<1>3. CASE proc[p].trans = 0
  <2>1. Sync(p, g)
    BY <1>3, NoSyncFails DEF Operate
  <2>2. PICK h \in Globals : /\ proc' = [proc EXCEPT ![p] = h]
                             /\ h.trans = g.trans /\ Dirty(h) = {}
    BY <2>1, SyncClean
  <2>3. h.trans = DepthOf(pc[p])
    BY <1>1, <2>2
  <2>4. QED
    BY <1>1, <2>2, <2>3, OthersNested
<1>4. QED
  BY <1>2, <1>3

LEMMA BeginNested ==
  ASSUME TypeOK, Nested, NEW p \in Proc, Begin(p), NEW l,
         DepthOf(l) = DepthOf(pc[p]) + 1, pc' = [pc EXCEPT ![p] = l]
  PROVE  Nested'
<1>1. proc[p] \in Globals /\ proc[p].trans = DepthOf(pc[p]) /\ DepthOf(pc[p]) \in {0, 1, 2}
  BY DEF TypeOK, Nested, NestedAt, DepthOf
<1>2. CASE proc[p].trans = 0
  <2>1. Refreshed(proc[p]) \in Globals
    BY <1>1, RefreshedType DEF TypeOK
  <2> DEFINE h == [Refreshed(proc[p]) EXCEPT !.trans = 1]
  <2>2. proc' = [proc EXCEPT ![p] = h] /\ h.trans = 1
    BY <1>2, <2>1 DEF Begin, Globals
  <2>3. DepthOf(l) = h.trans /\ h.trans # 0
    BY <1>1, <1>2, <2>2
  <2> HIDE DEF h
  <2>4. QED
    BY <2>2, <2>3, OthersNested
<1>3. CASE proc[p].trans # 0
  <2> DEFINE h == [proc[p] EXCEPT !.trans = proc[p].trans + 1]
  <2>1. proc' = [proc EXCEPT ![p] = h] /\ h.trans = proc[p].trans + 1
    BY <1>1, <1>3 DEF Begin, Globals
  <2>2. DepthOf(l) = h.trans /\ h.trans # 0
    BY <1>1, <2>1
  <2> HIDE DEF h
  <2>3. QED
    BY <2>1, <2>2, OthersNested
<1>4. QED
  BY <1>2, <1>3

LEMMA CommitNested ==
  ASSUME NoFaults, TypeOK, Nested, NEW p \in Proc, NEW ok, NEW bad, Commit(p, ok, bad),
         DepthOf(pc[p]) = DepthOf(ok) + 1
  PROVE  Nested'
<1> DEFINE g == [proc[p] EXCEPT !.trans = @ - 1]
<1>1. /\ g \in Globals /\ g.trans = proc[p].trans - 1
      /\ proc[p].trans = DepthOf(ok) + 1 /\ DepthOf(ok) \in {0, 1, 2}
  BY CountedType DEF TypeOK, Globals, Nested, NestedAt, DepthOf
<1> HIDE DEF g
<1>2. /\ pc' = [pc EXCEPT ![p] = ok]
      /\ \/ g.trans = 0 /\ Sync(p, g)
         \/ g.trans # 0 /\ proc' = [proc EXCEPT ![p] = g]
  BY NoSyncFails DEF Commit, g
<1>3. g.trans = DepthOf(ok)
  BY <1>1
<1>4. CASE Sync(p, g)
  <2>1. PICK h \in Globals : /\ proc' = [proc EXCEPT ![p] = h]
                             /\ h.trans = g.trans /\ Dirty(h) = {}
    BY <1>1, <1>4, SyncClean
  <2>2. QED
    BY <1>2, <1>3, <2>1, OthersNested
<1>5. CASE g.trans # 0 /\ proc' = [proc EXCEPT ![p] = g]
  BY <1>2, <1>3, <1>5, OthersNested
<1>6. QED
  BY <1>2, <1>4, <1>5

LEMMA RollbackNested ==
  ASSUME TypeOK, Nested, NEW p \in Proc, Rollback(p), NEW l, DepthOf(l) = 0,
         pc' = [pc EXCEPT ![p] = l]
  PROVE  Nested'
<1>1. proc[p] \in Globals
  BY DEF TypeOK
<1>2. Forgotten(proc[p]).trans = 0
  BY <1>1, ForgottenType
<1>3. Dirty(Forgotten(proc[p])) = {}
  <2>1. CASE proc[p].trans = 0
    BY <2>1 DEF Forgotten, Nested, NestedAt
  <2>2. CASE proc[p].trans # 0
    BY <1>1, <2>2 DEF Forgotten, Dirty, Globals
  <2>3. QED
    BY <2>1, <2>2
<1>4. proc' = [proc EXCEPT ![p] = Forgotten(proc[p])]
  BY DEF Rollback
<1>5. QED
  BY <1>2, <1>3, <1>4, OthersNested

LEMMA NestedInvariant == ASSUME NoFaults PROVE Spec => []Nested
<1>1. Init => Nested
  BY DEF Init, Nested, NestedAt, Started, DepthOf, Dirty
<1>2. TypeOK /\ Nested /\ [Next]_vars => Nested'
  <2>1. SUFFICES ASSUME TypeOK, Nested, [Next]_vars PROVE Nested'
    OBVIOUS
  <2>2. CASE UNCHANGED vars
    BY <2>1, <2>2 DEF vars, Nested, NestedAt, Dirty
  <2>3. ASSUME NEW p \in Proc, Crash(p) PROVE Nested'
    <3>1. Started.trans = 0 /\ Dirty(Started) = {} /\ DepthOf("idle") = 0
      BY DEF Started, Dirty, DepthOf
    <3>2. QED
      BY <2>1, <2>3, <3>1, OthersNested DEF Crash
  <2>4. ASSUME NEW p \in Proc, Caller(p) PROVE Nested'
    <3>1. CASE RequestBegin(p) \/ RowBegin(p)
      BY <2>1, <3>1, BeginNested DEF RequestBegin, RowBegin, DepthOf
    <3>2. CASE RequestCommit(p) \/ RowCommit(p)
      BY <2>1, <3>2, CommitNested DEF RequestCommit, RowCommit, DepthOf
    <3>3. CASE RequestRollback(p) \/ RowAbort(p)
      BY <2>1, <3>3, RollbackNested DEF RequestRollback, RowAbort, DepthOf, NoFaults
    <3>4. ASSUME NEW k \in Key, NEW v \in Value, Set(p, k, v) PROVE Nested'
      BY <2>1, <3>4, EnteredType, PutType, OperateNested DEF Set, Optional
    <3>5. ASSUME NEW k \in Key, NEW d \in Defaults \union {NoValue}, Get(p, k, d) PROVE Nested'
      <4>1. proc[p] \in Globals /\ Lookup(proc[p], k, d) \in Optional
        BY <2>1, ConstantTypes, LookupType DEF TypeOK, Optional
      <4> DEFINE g == Remember(proc[p], k, Lookup(proc[p], k, d))
      <4>2. g.trans = proc[p].trans /\ Dirty(g) = Dirty(proc[p])
        BY <4>1 DEF Remember, Dirty, Globals
      <4>3. /\ proc' = [proc EXCEPT ![p] = g]
            /\ pc' = [pc EXCEPT ![p] = pc[p]]
        BY <2>1, <3>5 DEF Get, TypeOK
      <4> HIDE DEF g
      <4>4. QED
        BY <2>1, <4>2, <4>3, OthersNested DEF Nested, NestedAt
    <3>6. ASSUME NEW k \in Key, NEW k2 \in Key, BackupDir(p, k, k2) PROVE Nested'
      BY <2>1, <3>6, EnteredType, CopiedType, OperateNested DEF BackupDir, TypeOK
    <3>7. ASSUME NEW ks \in SUBSET Key, Unset(p, ks) PROVE Nested'
      BY <2>1, <3>7, EnteredType, RemoveType, OperateNested DEF Unset
    <3>8. QED
      BY <2>4, <3>1, <3>2, <3>3, <3>4, <3>5, <3>6, <3>7 DEF Caller
  <2>5. QED
    BY <2>1, <2>2, <2>3, <2>4 DEF Next
<1>3. QED
  BY <1>1, <1>2, TypeCorrect, PTL DEF Spec

\* Only the holder of the lock has writes that are not on the server, if no
\* commit fails and no exception of a row operation is swallowed: a process
\* with unsaved writes counts a transaction, and so has the lock.
THEOREM NothingLeft == ASSUME NoFaults PROVE Spec => []NothingLeftOver
<1>1. TypeOK /\ Nested /\ OpenHoldsLock => NothingLeftOver
  <2>1. ASSUME Nested, NEW p \in Proc, Dirty(proc[p]) # {} PROVE proc[p].trans > 0
    BY <2>1 DEF Nested, NestedAt, DepthOf
  <2>2. QED
    BY <2>1 DEF OpenHoldsLock, NothingLeftOver
<1>2. QED
  BY <1>1, NestedInvariant, TypeCorrect, LockHeld, PTL

-----------------------------------------------------------------------------
(* Coherence of the caches.                                                *)

\* Globals that may be used in a transaction: those of the version that the
\* server has.
Fresh(g) == /\ g.version = version
            /\ \A k \in g.deleted : g.cache[k] = NoValue
            /\ \A k \in Key \ Dirty(g) : g.cache[k] \in {NoValue, store[k]}

Sound(g) == /\ g.version <= version
            /\ g.trans > 0 => g.version = version
            /\ g.version = version => Fresh(g)

Coherent == \A p \in Proc : Sound(proc[p])

LEMMA RefreshedFresh ==
  ASSUME TypeOK, NEW g \in Globals, Sound(g), Dirty(g) = {}
  PROVE  Fresh(Refreshed(g))
<1>1. g.deleted = {} /\ g.modified = {}
  BY DEF Dirty, Globals
<1>2. CASE version > g.version
  <2>1. Refreshed(g).cache = NoCache /\ Refreshed(g).version = version /\ Refreshed(g).deleted = {}
    BY <1>1, <1>2 DEF Refreshed, Globals
  <2>2. QED
    BY <2>1 DEF Fresh, NoCache
<1>3. CASE ~(version > g.version)
  <2>1. g.version \in Nat /\ version \in Nat
    BY DEF Globals, TypeOK
  <2>2. g.version = version
    BY <1>3, <2>1 DEF Sound
  <2>3. QED
    BY <1>3, <2>2 DEF Refreshed, Sound
<1>4. QED
  BY <1>2, <1>3

LEMMA EnteredFresh ==
  ASSUME TypeOK, Nested, Coherent, NEW p \in Proc
  PROVE  Fresh(Entered(p))
<1>1. proc[p] \in Globals /\ Sound(proc[p]) /\ NestedAt(p)
  BY DEF TypeOK, Nested, Coherent
<1>2. CASE proc[p].trans = 0
  BY <1>1, <1>2, RefreshedFresh DEF Entered, NestedAt
<1>3. CASE proc[p].trans # 0
  <2>1. proc[p].trans > 0
    BY <1>1, <1>3 DEF NestedAt, DepthOf
  <2>2. QED
    BY <1>1, <1>3, <2>1 DEF Entered, Sound
<1>4. QED
  BY <1>2, <1>3

LEMMA PutFresh ==
  ASSUME NEW g \in Globals, Fresh(g), NEW k \in Key, NEW v \in Optional
  PROVE  Fresh(Put(g, k, v))
<1> DEFINE h == Put(g, k, v)
<1>1. /\ h.version = g.version /\ h.deleted = g.deleted \ {k} /\ h.modified = g.modified \union {k}
      /\ \A j \in Key : j # k => h.cache[j] = g.cache[j]
  BY DEF Put, Globals
<1> HIDE DEF h
<1>2. g.deleted \subseteq Key
  BY DEF Globals
<1>3. QED
  BY <1>1, <1>2 DEF Fresh, Dirty, h

LEMMA RemoveFresh ==
  ASSUME NEW g \in Globals, Fresh(g), NEW ks \in SUBSET Key
  PROVE  Fresh(Remove(g, ks))
<1> DEFINE h == Remove(g, ks)
<1>1. /\ h.version = g.version /\ h.deleted = g.deleted \union ks /\ h.modified = g.modified \ ks
      /\ \A j \in Key : h.cache[j] = IF j \in ks THEN NoValue ELSE g.cache[j]
  BY DEF Remove, Globals
<1> HIDE DEF h
<1>2. g.deleted \subseteq Key
  BY DEF Globals
<1>3. QED
  BY <1>1, <1>2 DEF Fresh, Dirty, h

\* A value that is looked up is in the cache or on the server; without a
\* default nothing else is remembered.
LEMMA RememberFresh ==
  ASSUME TypeOK, NEW g \in Globals, Fresh(g), NEW k \in Key, g.cache[k] # NoValue \/ k \notin g.deleted
  PROVE  Fresh(Remember(g, k, Lookup(g, k, NoValue)))
<1> DEFINE v == Lookup(g, k, NoValue)
           h == Remember(g, k, v)
<1>1. /\ h.version = g.version /\ h.deleted = g.deleted /\ h.modified = g.modified
      /\ \A j \in Key : h.cache[j] = IF j = k THEN v ELSE g.cache[j]
  BY DEF Remember, Globals
<1>2. g.cache[k] # NoValue => v = g.cache[k]
  BY DEF Lookup
<1>3. g.cache[k] = NoValue => v = store[k]
  BY DEF Lookup
<1> HIDE DEF h, v
<1>4. g.deleted \subseteq Key
  BY DEF Globals
<1>5. QED
  BY <1>1, <1>2, <1>3, <1>4 DEF Fresh, Dirty, h, v

LEMMA CopiedFresh ==
  ASSUME TypeOK, NEW g \in Globals, Fresh(g), NEW src \in Key, NEW dst \in Key
  PROVE  Fresh(Copied(g, src, dst))
<1> DEFINE h == Remove(g, IF Listed(g, dst) THEN {dst} ELSE {})
           v == Lookup(h, src, NoValue)
<1>1. h \in Globals /\ Fresh(h)
  BY RemoveType, RemoveFresh
<1>2. v \in Optional
  BY <1>1, LookupType DEF Optional, TypeOK
<1>3. Remember(h, src, v) \in Globals
  BY <1>1, <1>2, RememberType
<1> HIDE DEF h
<1>4. CASE Listed(h, src)
  <2>1. Fresh(Remember(h, src, v))
    BY <1>1, <1>4, RememberFresh DEF Listed
  <2>2. QED
    BY <1>2, <1>3, <1>4, <2>1, PutFresh DEF Copied, h
<1>5. CASE ~Listed(h, src)
  BY <1>1, <1>5 DEF Copied, h
<1>6. QED
  BY <1>4, <1>5

-----------------------------------------------------------------------------
(* The steps keep the caches coherent.                                     *)

\* A step that writes nothing to the server.
LEMMA LocalCoherent ==
  ASSUME TypeOK, Coherent, NEW p \in Proc, NEW g,
         proc' = [proc EXCEPT ![p] = g], Sound(g), UNCHANGED <<store, version>>
  PROVE  Coherent'
<1>1. proc'[p] = g /\ \A q \in Proc \ {p} : proc'[q] = proc[q]
  BY DEF TypeOK
<1>2. \A q \in Proc : Sound(proc'[q])
  BY <1>1 DEF Coherent
<1>3. QED
  BY <1>2 DEF Coherent, Sound, Fresh, Dirty

\* What the commands of a transaction make of the server.
LEMMA FlushedAgrees ==
  ASSUME TypeOK, NEW g \in Globals, Fresh(g), NEW k \in Key
  PROVE  g.cache[k] \in {NoValue, Flushed(g, Dirty(g))[k]}
<1>1. CASE k \notin Dirty(g)
  BY <1>1 DEF Flushed, Fresh
<1>2. CASE k \in g.deleted
  BY <1>2 DEF Fresh
<1>3. CASE k \in g.modified \ g.deleted
  BY <1>3 DEF Flushed, Dirty
<1>4. QED
  BY <1>1, <1>2, <1>3 DEF Dirty

LEMMA SyncCoherent ==
  ASSUME TypeOK, Coherent, NEW p \in Proc, NEW g \in Globals, g.trans = 0, Fresh(g),
         Sync(p, g), \A q \in Proc \ {p} : ~(proc[q].trans > 0)
  PROVE  Coherent'
<1>1. CASE Dirty(g) = {}
  <2>1. Sound(g)
    BY DEF Sound, Fresh, TypeOK
  <2>2. QED
    BY <1>1, <2>1, LocalCoherent DEF Sync
<1>2. CASE Dirty(g) # {}
  <2> DEFINE h == [g EXCEPT !.modified = {}, !.deleted = {}, !.version = version + 1]
  <2>1. /\ proc' = [proc EXCEPT ![p] = h] /\ version' = version + 1
        /\ store' = Flushed(g, Dirty(g))
    BY <1>2 DEF Sync, Incremented, Saved
  <2>2. /\ h.trans = 0 /\ h.version = version + 1 /\ h.deleted = {} /\ h.modified = {}
        /\ h.cache = g.cache
    BY DEF Globals
  <2>3. proc'[p] = h /\ \A q \in Proc \ {p} : proc'[q] = proc[q]
    BY <2>1 DEF TypeOK
  <2> HIDE DEF h
  <2>4. ASSUME NEW q \in Proc \ {p} PROVE Sound(proc[q])'
    <3>1. proc[q].version \in Nat /\ version \in Nat /\ proc[q].version <= version
      BY DEF TypeOK, Globals, Coherent, Sound
    <3>2. proc[q].version # version' /\ proc[q].version <= version'
      BY <2>1, <3>1
    <3>3. QED
      BY <2>3, <3>2 DEF Sound
  <2>5. Sound(proc[p])'
    <3>1. \A k \in Key : h.cache[k] \in {NoValue, store'[k]}
      BY <2>1, <2>2, FlushedAgrees
    <3>2. Fresh(proc[p])'
      BY <2>1, <2>2, <2>3, <3>1 DEF Fresh
    <3>3. QED
      BY <2>1, <2>2, <2>3, <3>2 DEF Sound, TypeOK
  <2>6. QED
    BY <2>4, <2>5 DEF Coherent
<1>3. QED
  BY <1>1, <1>2

\* Nobody else counts a transaction while p may take the lock, or has it.
LEMMA OthersAreOut ==
  ASSUME OpenHoldsLock, NEW p \in Proc, lock \in {NoProc, p}
  PROVE  \A q \in Proc \ {p} : ~(proc[q].trans > 0)
  BY ConstantsAreApart DEF OpenHoldsLock

LEMMA OperateCoherent ==
  ASSUME NoFaults, TypeOK, Nested, OpenHoldsLock, Coherent, NEW p \in Proc, NEW g \in Globals,
         g.trans = proc[p].trans, Fresh(g), Operate(p, g)
  PROVE  Coherent'
<1>1. CASE proc[p].trans # 0
  <2>1. Sound(g)
    BY DEF Sound, Fresh, TypeOK
  <2>2. QED
    BY <1>1, <2>1, LocalCoherent DEF Operate
<1>2. CASE proc[p].trans = 0
  BY <1>2, NoSyncFails, OthersAreOut, SyncCoherent DEF Operate, LockFree
<1>3. QED
  BY <1>1, <1>2

\* The counter alone says nothing of the data.
LEMMA CountedFresh ==
  ASSUME NEW g \in Globals, Fresh(g), NEW n
  PROVE  Fresh([g EXCEPT !.trans = n])
<1> DEFINE h == [g EXCEPT !.trans = n]
<1>1. h.version = g.version /\ h.cache = g.cache /\ h.modified = g.modified /\ h.deleted = g.deleted
  BY DEF Globals
<1> HIDE DEF h
<1>2. Fresh(h)
  BY <1>1 DEF Fresh, Dirty
<1>3. QED
  BY <1>2 DEF h

LEMMA FreshIsSound ==
  ASSUME TypeOK, NEW g, Fresh(g) PROVE Sound(g)
  BY DEF Sound, Fresh, TypeOK

LEMMA OpenIsFresh ==
  ASSUME Nested, Coherent, NEW p \in Proc, proc[p].trans # 0
  PROVE  Fresh(proc[p])
<1>1. proc[p].trans > 0
  BY DEF Nested, NestedAt, DepthOf
<1>2. QED
  BY <1>1 DEF Coherent, Sound

LEMMA BeginCoherent ==
  ASSUME TypeOK, Nested, Coherent, NEW p \in Proc, Begin(p)
  PROVE  Coherent'
<1>1. proc[p] \in Globals /\ Fresh(Entered(p)) /\ Entered(p) \in Globals
  BY EnteredFresh, EnteredType DEF TypeOK
<1>2. PICK n : proc' = [proc EXCEPT ![p] = [Entered(p) EXCEPT !.trans = n]]
  BY DEF Begin, Entered
<1>3. Sound([Entered(p) EXCEPT !.trans = n])
  BY <1>1, CountedFresh, FreshIsSound
<1>4. QED
  BY <1>2, <1>3, LocalCoherent DEF Begin

LEMMA CommitCoherent ==
  ASSUME NoFaults, TypeOK, Nested, OpenHoldsLock, Coherent, NEW p \in Proc, NEW ok, NEW bad,
         Commit(p, ok, bad), proc[p].trans > 0
  PROVE  Coherent'
<1> DEFINE g == [proc[p] EXCEPT !.trans = @ - 1]
<1>1. proc[p] \in Globals /\ g \in Globals
  BY CountedType DEF TypeOK
<1>2. Fresh(g)
  <2>1. Fresh(proc[p])
    BY OpenIsFresh DEF Nested, NestedAt, DepthOf
  <2>2. QED
    BY <1>1, <2>1, CountedFresh
<1> HIDE DEF g
<1>3. \/ g.trans = 0 /\ Sync(p, g)
      \/ proc' = [proc EXCEPT ![p] = g] /\ UNCHANGED <<store, version>>
  BY NoSyncFails DEF Commit, g
<1>4. CASE g.trans = 0 /\ Sync(p, g)
  <2>1. lock = p
    BY DEF OpenHoldsLock
  <2>2. QED
    BY <1>1, <1>2, <1>4, <2>1, OthersAreOut, SyncCoherent
<1>5. CASE proc' = [proc EXCEPT ![p] = g] /\ UNCHANGED <<store, version>>
  BY <1>2, <1>5, FreshIsSound, LocalCoherent
<1>6. QED
  BY <1>3, <1>4, <1>5

LEMMA RollbackCoherent ==
  ASSUME TypeOK, Nested, Coherent, NEW p \in Proc, Rollback(p)
  PROVE  Coherent'
<1> DEFINE g == Forgotten(proc[p])
<1>1. proc[p] \in Globals
  BY DEF TypeOK
<1>2. Sound(g)
  <2>1. CASE proc[p].trans = 0
    BY <2>1 DEF Forgotten, Coherent
  <2>2. CASE proc[p].trans # 0
    <3>1. Fresh(proc[p])
      BY <2>2, OpenIsFresh
    <3>2. /\ g.version = proc[p].version /\ g.deleted = {} /\ g.modified = {}
          /\ \A k \in Key : g.cache[k] = IF k \in proc[p].modified THEN NoValue ELSE proc[p].cache[k]
      BY <1>1, <2>2 DEF Forgotten, Globals
    <3> HIDE DEF g
    <3>3. Fresh(g)
      BY <3>1, <3>2 DEF Fresh, Dirty
    <3>4. QED
      BY <3>3, FreshIsSound
  <2>3. QED
    BY <2>1, <2>2
<1>3. QED
  BY <1>2, LocalCoherent DEF Rollback

LEMMA GetCoherent ==
  ASSUME PlainReads, TypeOK, Nested, Coherent, NEW p \in Proc, NEW k \in Key,
         NEW d \in Defaults \union {NoValue}, Get(p, k, d)
  PROVE  Coherent'
<1> DEFINE g == proc[p]
           h == Remember(g, k, Lookup(g, k, NoValue))
<1>1. g \in Globals /\ Sound(g) /\ k \notin g.deleted
  BY DEF TypeOK, Coherent, Get, PlainReads
<1>2. proc' = [proc EXCEPT ![p] = h] /\ UNCHANGED <<store, version>>
  BY DEF Get, PlainReads
<1>3. h.version = g.version /\ h.trans = g.trans
  BY <1>1 DEF Remember, Globals
<1>4. g.version = version => Fresh(h)
  BY <1>1, RememberFresh DEF Sound
<1> HIDE DEF g, h
<1>5. Sound(h)
  BY <1>1, <1>3, <1>4 DEF Sound
<1>6. QED
  BY <1>2, <1>5, LocalCoherent

LEMMA CoherentInvariant == ASSUME NoFaults, PlainReads PROVE Spec => []Coherent
<1>1. Init => Coherent
  BY DEF Init, Coherent, Sound, Fresh, Started, NoCache
<1>2. TypeOK /\ Nested /\ OpenHoldsLock /\ Coherent /\ [Next]_vars => Coherent'
  <2>1. SUFFICES ASSUME TypeOK, Nested, OpenHoldsLock, Coherent, [Next]_vars PROVE Coherent'
    OBVIOUS
  <2>2. CASE UNCHANGED vars
    BY <2>1, <2>2 DEF vars, Coherent, Sound, Fresh, Dirty
  <2>3. ASSUME NEW p \in Proc, Crash(p) PROVE Coherent'
    <3>1. Sound(Started)
      BY <2>1 DEF Sound, Fresh, Started, NoCache, TypeOK
    <3>2. QED
      BY <2>1, <2>3, <3>1, LocalCoherent DEF Crash
  <2>4. ASSUME NEW p \in Proc, Caller(p) PROVE Coherent'
    <3>1. CASE RequestBegin(p) \/ RowBegin(p)
      BY <2>1, <3>1, BeginCoherent DEF RequestBegin, RowBegin
    <3>2. CASE RequestCommit(p) \/ RowCommit(p)
      <4>1. proc[p].trans > 0
        BY <2>1, <3>2 DEF RequestCommit, RowCommit, Nested, NestedAt, DepthOf
      <4>2. QED
        BY <2>1, <3>2, <4>1, CommitCoherent DEF RequestCommit, RowCommit
    <3>3. CASE RequestRollback(p) \/ RowAbort(p)
      BY <2>1, <3>3, RollbackCoherent DEF RequestRollback, RowAbort
    <3>4. ASSUME NEW k \in Key, NEW v \in Value, Set(p, k, v) PROVE Coherent'
      <4>1. v \in Optional
        BY DEF Optional
      <4>2. QED
        BY <2>1, <3>4, <4>1, EnteredType, EnteredFresh, PutType, PutFresh, OperateCoherent DEF Set
    <3>5. ASSUME NEW k \in Key, NEW d \in Defaults \union {NoValue}, Get(p, k, d) PROVE Coherent'
      BY <2>1, <3>5, GetCoherent
    <3>6. ASSUME NEW k \in Key, NEW k2 \in Key, BackupDir(p, k, k2) PROVE Coherent'
      BY <2>1, <3>6, EnteredType, EnteredFresh, CopiedType, CopiedFresh, OperateCoherent
      DEF BackupDir, TypeOK
    <3>7. ASSUME NEW ks \in SUBSET Key, Unset(p, ks) PROVE Coherent'
      BY <2>1, <3>7, EnteredType, EnteredFresh, RemoveType, RemoveFresh, OperateCoherent DEF Unset
    <3>8. QED
      BY <2>4, <3>1, <3>2, <3>3, <3>4, <3>5, <3>6, <3>7 DEF Caller
  <2>5. QED
    BY <2>1, <2>2, <2>3, <2>4 DEF Next
<1>3. QED
  BY <1>1, <1>2, TypeCorrect, NestedInvariant, LockHeld, PTL DEF Spec

\* A cache that has the version of the server agrees with it but for what the
\* running transaction has written, if no commit fails, no exception of a row
\* operation is swallowed, and callers give no default and do not read what
\* their transaction has unset.
THEOREM CachesCohere == ASSUME NoFaults, PlainReads PROVE Spec => []CacheCoherent
<1>1. Coherent => CacheCoherent
  BY DEF Coherent, Sound, Fresh, CacheCoherent
<1>2. QED
  BY <1>1, CoherentInvariant, PTL

-----------------------------------------------------------------------------
(* ConfigRedis implements ConfStore. *)

(* What the mapping needs besides: the holder counts a transaction, what   *)
(* is written has a value, and what is cached was committed once.          *)

Held == lock # NoProc => proc[lock].trans > 0

Kept(g) == /\ \A k \in g.modified : g.cache[k] # NoValue /\ k \notin g.deleted
           /\ \A k \in Key \ g.modified : g.cache[k] \in past[k] \union {NoValue}

StoreInPast == \A k \in Key : store[k] \in past[k]

AllKept == StoreInPast /\ \A p \in Proc : Kept(proc[p])

LEMMA EnteredKept ==
  ASSUME TypeOK, Nested, AllKept, NEW p \in Proc
  PROVE  Kept(Entered(p))
<1>1. proc[p] \in Globals /\ Kept(proc[p]) /\ NestedAt(p)
  BY DEF TypeOK, Nested, AllKept
<1>2. CASE proc[p].trans = 0 /\ version > proc[p].version
  <2>1. Entered(p).cache = NoCache /\ Entered(p).modified = {}
    BY <1>1, <1>2 DEF Entered, Refreshed, NestedAt, Dirty, Globals
  <2>2. QED
    BY <2>1 DEF Kept, NoCache
<1>3. CASE ~(proc[p].trans = 0 /\ version > proc[p].version)
  BY <1>1, <1>3 DEF Entered, Refreshed
<1>4. QED
  BY <1>2, <1>3

LEMMA PutKept ==
  ASSUME NEW g \in Globals, Kept(g), NEW k \in Key, NEW v \in Optional, v # NoValue
  PROVE  Kept(Put(g, k, v))
<1> DEFINE h == Put(g, k, v)
<1>1. /\ h.deleted = g.deleted \ {k} /\ h.modified = g.modified \union {k}
      /\ \A j \in Key : h.cache[j] = IF j = k THEN v ELSE g.cache[j]
  BY DEF Put, Globals
<1>2. g.modified \subseteq Key
  BY DEF Globals
<1> HIDE DEF h
<1>3. QED
  BY <1>1, <1>2 DEF Kept, h

LEMMA RemoveKept ==
  ASSUME NEW g \in Globals, Kept(g), NEW ks \in SUBSET Key
  PROVE  Kept(Remove(g, ks))
<1> DEFINE h == Remove(g, ks)
<1>1. /\ h.deleted = g.deleted \union ks /\ h.modified = g.modified \ ks
      /\ \A j \in Key : h.cache[j] = IF j \in ks THEN NoValue ELSE g.cache[j]
  BY DEF Remove, Globals
<1>2. g.modified \subseteq Key
  BY DEF Globals
<1> HIDE DEF h
<1>3. QED
  BY <1>1, <1>2 DEF Kept, h

LEMMA RememberKept ==
  ASSUME StoreInPast, NEW g \in Globals, Kept(g), NEW k \in Key
  PROVE  Kept(Remember(g, k, Lookup(g, k, NoValue)))
<1> DEFINE v == Lookup(g, k, NoValue)
           h == Remember(g, k, v)
<1>1. /\ h.deleted = g.deleted /\ h.modified = g.modified
      /\ \A j \in Key : h.cache[j] = IF j = k THEN v ELSE g.cache[j]
  BY DEF Remember, Globals
<1>2. g.cache[k] # NoValue => v = g.cache[k]
  BY DEF Lookup
<1>3. g.cache[k] = NoValue => v = store[k]
  BY DEF Lookup
<1>4. g.modified \subseteq Key
  BY DEF Globals
<1> HIDE DEF h, v
<1>5. Kept(h)
  BY <1>1, <1>2, <1>3, <1>4 DEF Kept, StoreInPast
<1>6. QED
  BY <1>5 DEF h, v

LEMMA CopiedKept ==
  ASSUME TypeOK, StoreInPast, NEW g \in Globals, Kept(g), NEW src \in Key, NEW dst \in Key
  PROVE  Kept(Copied(g, src, dst))
<1> DEFINE h == Remove(g, IF Listed(g, dst) THEN {dst} ELSE {})
           v == Lookup(h, src, NoValue)
<1>1. h \in Globals /\ Kept(h)
  BY RemoveType, RemoveKept
<1>2. v \in Optional
  BY <1>1, LookupType DEF Optional, TypeOK
<1>3. Remember(h, src, v) \in Globals
  BY <1>1, <1>2, RememberType
<1> HIDE DEF h
<1>4. Kept(Remember(h, src, v))
  BY <1>1, RememberKept
<1>5. CASE Listed(h, src)
  <2>1. v # NoValue
    BY <1>5 DEF Listed, Lookup
  <2>2. QED
    BY <1>2, <1>3, <1>4, <1>5, <2>1, PutKept DEF Copied, h
<1>6. CASE ~Listed(h, src)
  BY <1>1, <1>6 DEF Copied, h
<1>7. QED
  BY <1>5, <1>6

LEMMA CountedKept ==
  ASSUME NEW g \in Globals, Kept(g), NEW n
  PROVE  Kept([g EXCEPT !.trans = n])
<1> DEFINE h == [g EXCEPT !.trans = n]
<1>1. h.cache = g.cache /\ h.modified = g.modified /\ h.deleted = g.deleted
  BY DEF Globals
<1> HIDE DEF h
<1>2. Kept(h)
  BY <1>1 DEF Kept
<1>3. QED
  BY <1>2 DEF h

-----------------------------------------------------------------------------
(* The steps keep it so.                                                   *)

LEMMA LocalKept ==
  ASSUME TypeOK, AllKept, NEW p \in Proc, NEW g,
         proc' = [proc EXCEPT ![p] = g], Kept(g), UNCHANGED <<store, past>>
  PROVE  AllKept'
<1>1. proc'[p] = g /\ \A q \in Proc \ {p} : proc'[q] = proc[q]
  BY DEF TypeOK
<1>2. \A q \in Proc : Kept(proc'[q])
  BY <1>1 DEF AllKept
<1>3. QED
  BY <1>2 DEF AllKept, Kept, StoreInPast

LEMMA SyncKept ==
  ASSUME TypeOK, AllKept, NEW p \in Proc, NEW g \in Globals, Kept(g), Sync(p, g)
  PROVE  AllKept'
<1>1. CASE Dirty(g) = {}
  BY <1>1, LocalKept DEF Sync
<1>2. CASE Dirty(g) # {}
  <2> DEFINE h == [g EXCEPT !.modified = {}, !.deleted = {}, !.version = version + 1]
  <2>1. /\ proc' = [proc EXCEPT ![p] = h] /\ store' = Flushed(g, Dirty(g))
        /\ \A k \in Key : past'[k] = past[k] \union {store'[k]}
    BY <1>2 DEF Sync, Incremented, Saved
  <2>2. h.modified = {} /\ h.cache = g.cache
    BY DEF Globals
  <2>3. proc'[p] = h /\ \A q \in Proc \ {p} : proc'[q] = proc[q]
    BY <2>1 DEF TypeOK
  <2> HIDE DEF h
  <2>4. ASSUME NEW q \in Proc \ {p} PROVE Kept(proc[q])'
    <3>1. Kept(proc[q]) /\ proc'[q] = proc[q]
      BY <2>3 DEF AllKept
    <3>2. QED
      BY <2>1, <3>1 DEF Kept
  <2>5. Kept(proc[p])'
    <3>1. ASSUME NEW k \in g.modified PROVE g.cache[k] = store'[k]
      <4>1. k \in Key /\ k \in Dirty(g)
        BY DEF Globals, Dirty
      <4>2. QED
        BY <2>1, <4>1 DEF Flushed, Kept
    <3>2. \A k \in Key : g.cache[k] \in past'[k] \union {NoValue}
      BY <2>1, <3>1 DEF Kept
    <3>3. QED
      BY <2>2, <2>3, <3>2 DEF Kept
  <2>6. StoreInPast'
    BY <2>1 DEF StoreInPast
  <2>7. QED
    BY <2>4, <2>5, <2>6 DEF AllKept
<1>3. QED
  BY <1>1, <1>2

LEMMA OperateKept ==
  ASSUME NoFaults, TypeOK, AllKept, NEW p \in Proc, NEW g \in Globals, Kept(g), Operate(p, g)
  PROVE  AllKept'
  BY NoSyncFails, SyncKept, LocalKept DEF Operate

LEMMA BeginKept ==
  ASSUME TypeOK, Nested, AllKept, NEW p \in Proc, Begin(p)
  PROVE  AllKept'
<1>1. PICK n : proc' = [proc EXCEPT ![p] = [Entered(p) EXCEPT !.trans = n]]
  BY DEF Begin, Entered
<1>2. Kept([Entered(p) EXCEPT !.trans = n])
  BY EnteredKept, EnteredType, CountedKept
<1>3. QED
  BY <1>1, <1>2, LocalKept DEF Begin

LEMMA CommitKept ==
  ASSUME NoFaults, TypeOK, AllKept, NEW p \in Proc, NEW ok, NEW bad, Commit(p, ok, bad)
  PROVE  AllKept'
<1> DEFINE g == [proc[p] EXCEPT !.trans = @ - 1]
<1>1. proc[p] \in Globals /\ g \in Globals
  BY CountedType DEF TypeOK
<1>2. Kept(g)
  BY <1>1, CountedKept DEF AllKept
<1> HIDE DEF g
<1>3. Sync(p, g) \/ (proc' = [proc EXCEPT ![p] = g] /\ UNCHANGED <<store, past>>)
  BY NoSyncFails DEF Commit, g
<1>4. QED
  BY <1>1, <1>2, <1>3, SyncKept, LocalKept

LEMMA RollbackKept ==
  ASSUME TypeOK, AllKept, NEW p \in Proc, Rollback(p)
  PROVE  AllKept'
<1> DEFINE g == Forgotten(proc[p])
<1>1. proc[p] \in Globals /\ Kept(proc[p])
  BY DEF TypeOK, AllKept
<1>2. Kept(g)
  <2>1. CASE proc[p].trans = 0
    BY <1>1, <2>1 DEF Forgotten
  <2>2. CASE proc[p].trans # 0
    <3>1. /\ g.deleted = {} /\ g.modified = {}
          /\ \A k \in Key : g.cache[k] = IF k \in proc[p].modified THEN NoValue ELSE proc[p].cache[k]
      BY <1>1, <2>2 DEF Forgotten, Globals
    <3> HIDE DEF g
    <3>2. QED
      BY <1>1, <3>1 DEF Kept
  <2>3. QED
    BY <2>1, <2>2
<1>3. QED
  BY <1>2, LocalKept DEF Rollback

LEMMA KeptInvariant == ASSUME NoFaults, PlainReads PROVE Spec => []AllKept
<1>1. Init => AllKept
  BY DEF Init, AllKept, StoreInPast, Kept, Started, NoCache
<1>2. TypeOK /\ Nested /\ AllKept /\ [Next]_vars => AllKept'
  <2>1. SUFFICES ASSUME TypeOK, Nested, AllKept, [Next]_vars PROVE AllKept'
    OBVIOUS
  <2>2. CASE UNCHANGED vars
    BY <2>1, <2>2 DEF vars, AllKept, StoreInPast, Kept
  <2>3. ASSUME NEW p \in Proc, Crash(p) PROVE AllKept'
    <3>1. Kept(Started)
      BY DEF Kept, Started, NoCache
    <3>2. QED
      BY <2>1, <2>3, <3>1, LocalKept DEF Crash
  <2>4. ASSUME NEW p \in Proc, Caller(p) PROVE AllKept'
    <3>1. CASE RequestBegin(p) \/ RowBegin(p)
      BY <2>1, <3>1, BeginKept DEF RequestBegin, RowBegin
    <3>2. CASE RequestCommit(p) \/ RowCommit(p)
      BY <2>1, <3>2, CommitKept DEF RequestCommit, RowCommit
    <3>3. CASE RequestRollback(p) \/ RowAbort(p)
      BY <2>1, <3>3, RollbackKept DEF RequestRollback, RowAbort
    <3>4. ASSUME NEW k \in Key, NEW v \in Value, Set(p, k, v) PROVE AllKept'
      <4>1. v \in Optional /\ v # NoValue
        BY ConstantsAreApart DEF Optional
      <4>2. QED
        BY <2>1, <3>4, <4>1, EnteredType, EnteredKept, PutType, PutKept, OperateKept DEF Set
    <3>5. ASSUME NEW k \in Key, NEW d \in Defaults \union {NoValue}, Get(p, k, d) PROVE AllKept'
      <4>1. proc[p] \in Globals /\ Kept(proc[p]) /\ d = NoValue
        BY <2>1 DEF TypeOK, AllKept, PlainReads
      <4>2. Kept(Remember(proc[p], k, Lookup(proc[p], k, d)))
        BY <2>1, <4>1, RememberKept DEF AllKept
      <4>3. QED
        BY <2>1, <3>5, <4>2, LocalKept DEF Get
    <3>6. ASSUME NEW k \in Key, NEW k2 \in Key, BackupDir(p, k, k2) PROVE AllKept'
      BY <2>1, <3>6, EnteredType, EnteredKept, CopiedType, CopiedKept, OperateKept
      DEF BackupDir, TypeOK, AllKept
    <3>7. ASSUME NEW ks \in SUBSET Key, Unset(p, ks) PROVE AllKept'
      BY <2>1, <3>7, EnteredType, EnteredKept, RemoveType, RemoveKept, OperateKept DEF Unset
    <3>8. QED
      BY <2>4, <3>1, <3>2, <3>3, <3>4, <3>5, <3>6, <3>7 DEF Caller
  <2>5. QED
    BY <2>1, <2>2, <2>3, <2>4 DEF Next
<1>3. QED
  BY <1>1, <1>2, TypeCorrect, NestedInvariant, PTL DEF Spec

-----------------------------------------------------------------------------
(* The lock is held only by a process that counts a transaction.           *)

LEMMA HeldInvariant == ASSUME NoFaults PROVE Spec => []Held
<1>1. Init => Held
  BY DEF Init, Held
<1>2. TypeOK /\ Nested /\ Held /\ [Next]_vars => Held'
  <2>1. SUFFICES ASSUME TypeOK, Nested, Held, [Next]_vars PROVE Held'
    OBVIOUS
  <2>2. CASE UNCHANGED vars
    BY <2>1, <2>2 DEF vars, Held
  <2>3. ASSUME NEW p \in Proc, NEW g, proc' = [proc EXCEPT ![p] = g],
               lock' = (IF lock = p THEN NoProc ELSE lock)
        PROVE  Held'
    BY <2>1, <2>3 DEF Held, TypeOK
  <2>4. ASSUME NEW p \in Proc, NEW g \in Globals, g.trans = proc[p].trans, Operate(p, g)
        PROVE  Held'
    <3>1. CASE proc' = [proc EXCEPT ![p] = g] /\ lock' = lock
      BY <2>1, <2>4, <3>1 DEF Held, TypeOK
    <3>2. CASE Sync(p, g)
      BY <3>2 DEF Sync, Held
    <3>3. QED
      BY <2>1, <2>4, <3>1, <3>2, NoSyncFails DEF Operate
  <2>5. ASSUME NEW p \in Proc, Begin(p) PROVE Held'
    <3>1. proc[p] \in Globals /\ proc[p].trans \in {0, 1, 2}
      BY <2>1 DEF TypeOK, Nested, NestedAt, DepthOf
    <3>2. CASE proc[p].trans = 0
      <4> DEFINE h == [Refreshed(proc[p]) EXCEPT !.trans = 1]
      <4>1. Refreshed(proc[p]) \in Globals
        BY <2>1, <3>1, RefreshedType DEF TypeOK
      <4>2. h.trans = 1
        BY <4>1 DEF Globals
      <4>3. lock' = p /\ proc'[p] = h
        BY <2>1, <2>5, <3>2 DEF Begin, TypeOK
      <4> HIDE DEF h
      <4>4. QED
        BY <4>2, <4>3 DEF Held
    <3>3. CASE proc[p].trans # 0
      <4>1. [proc[p] EXCEPT !.trans = proc[p].trans + 1].trans > 0
        BY <3>1 DEF Globals
      <4>2. QED
        BY <2>1, <2>5, <3>3, <4>1 DEF Begin, Held, TypeOK
    <3>4. QED
      BY <3>2, <3>3
  <2>6. ASSUME NEW p \in Proc, NEW ok, NEW bad, Commit(p, ok, bad), DepthOf(pc[p]) = DepthOf(ok) + 1
        PROVE  Held'
    <3> DEFINE g == [proc[p] EXCEPT !.trans = @ - 1]
    <3>1. g.trans \in {0, 1, 2}
      <4>1. proc[p] \in Globals /\ g.trans = proc[p].trans - 1
        BY <2>1 DEF TypeOK, Globals
      <4>2. proc[p].trans = DepthOf(ok) + 1 /\ DepthOf(ok) \in {0, 1, 2}
        BY <2>1, <2>6 DEF Nested, NestedAt, DepthOf
      <4>3. QED
        BY <4>1, <4>2
    <3> HIDE DEF g
    <3>2. Sync(p, g) \/ (g.trans # 0 /\ proc' = [proc EXCEPT ![p] = g] /\ lock' = lock)
      BY <2>1, <2>6, NoSyncFails DEF Commit, g
    <3>3. CASE Sync(p, g)
      BY <3>3 DEF Sync, Held
    <3>4. CASE g.trans # 0 /\ proc' = [proc EXCEPT ![p] = g] /\ lock' = lock
      BY <2>1, <3>1, <3>4 DEF Held, TypeOK
    <3>5. QED
      BY <3>2, <3>3, <3>4
  <2>7. ASSUME NEW p \in Proc, Caller(p) PROVE Held'
    <3>1. CASE RequestBegin(p) \/ RowBegin(p)
      BY <2>5, <3>1 DEF RequestBegin, RowBegin
    <3>2. CASE RequestCommit(p) \/ RowCommit(p)
      BY <2>6, <3>2 DEF RequestCommit, RowCommit, DepthOf
    <3>3. CASE RequestRollback(p) \/ RowAbort(p)
      BY <2>3, <3>3 DEF RequestRollback, RowAbort, Rollback
    <3>4. ASSUME NEW k \in Key, NEW v \in Value, Set(p, k, v) PROVE Held'
      BY <2>1, <2>4, <3>4, EnteredType, PutType DEF Set, Optional
    <3>5. ASSUME NEW k \in Key, NEW d \in Defaults \union {NoValue}, Get(p, k, d) PROVE Held'
      <4>1. proc[p] \in Globals /\ Lookup(proc[p], k, d) \in Optional
        BY <2>1, ConstantTypes, LookupType DEF TypeOK, Optional
      <4>2. Remember(proc[p], k, Lookup(proc[p], k, d)).trans = proc[p].trans
        BY <4>1, RememberType
      <4>3. QED
        BY <2>1, <3>5, <4>2 DEF Get, Held, TypeOK
    <3>6. ASSUME NEW k \in Key, NEW k2 \in Key, BackupDir(p, k, k2) PROVE Held'
      BY <2>1, <2>4, <3>6, EnteredType, CopiedType DEF BackupDir, TypeOK
    <3>7. ASSUME NEW ks \in SUBSET Key, Unset(p, ks) PROVE Held'
      BY <2>1, <2>4, <3>7, EnteredType, RemoveType DEF Unset
    <3>8. QED
      BY <2>7, <3>1, <3>2, <3>3, <3>4, <3>5, <3>6, <3>7 DEF Caller
  <2>8. QED
    BY <2>1, <2>2, <2>3, <2>7 DEF Next, Crash
<1>3. QED
  BY <1>1, <1>2, TypeCorrect, NestedInvariant, PTL DEF Spec

-----------------------------------------------------------------------------
(* Every step is one of ConfStore, or changes nothing there.               *)

Mapped == /\ TypeOK /\ OpenHoldsLock /\ Nested
          /\ Coherent /\ AllKept /\ Held

AbstractStep == [Store!Next]_Store!cvars

LEMMA MappedInvariant == ASSUME NoFaults, PlainReads PROVE Spec => []Mapped
<1>1. TypeOK /\ OpenHoldsLock /\ Nested /\ Coherent /\ AllKept /\ Held => Mapped
  BY DEF Mapped
<1>2. QED
  BY <1>1, TypeCorrect, LockHeld, NestedInvariant, CoherentInvariant, KeptInvariant, HeldInvariant, PTL

\* Who counts a transaction has the lock, and the other way round.
LEMMA LockMeansOpen ==
  ASSUME Mapped, NEW p \in Proc
  PROVE  /\ proc[p].trans # 0 <=> lock = p
         /\ lock # p => Dirty(proc[p]) = {}
         /\ LockFree(p) /\ proc[p].trans = 0 => lock = NoProc
<1>1. proc[p].trans = DepthOf(pc[p]) /\ (proc[p].trans = 0 => Dirty(proc[p]) = {})
  BY DEF Mapped, Nested, NestedAt
<1>2. proc[p].trans # 0 => proc[p].trans > 0
  BY <1>1 DEF DepthOf
<1>3. lock = p => proc[p].trans > 0
  BY ConstantsAreApart DEF Mapped, Held
<1>4. proc[p].trans > 0 => lock = p
  BY DEF Mapped, OpenHoldsLock
<1>5. QED
  BY <1>1, <1>2, <1>3, <1>4 DEF LockFree

LEMMA NothingPending == lock = NoProc => Pending = Store!NoWrites
  BY DEF Pending, Store!NoWrites

LEMMA NothingPendingNext == lock' = NoProc => Pending' = Store!NoWrites
  BY DEF Pending, Store!NoWrites

\* What the holder has written does not depend on its counter.
LEMMA PendingSame ==
  ASSUME lock' = lock,
         lock # NoProc => /\ proc'[lock].deleted = proc[lock].deleted
                          /\ proc'[lock].modified = proc[lock].modified
                          /\ \A k \in proc[lock].modified : proc'[lock].cache[k] = proc[lock].cache[k]
  PROVE  Pending' = Pending
  BY DEF Pending

\* A step of a process that does not hold the lock, and takes it not.
LEMMA OutsideMaps ==
  ASSUME Mapped, NEW p \in Proc, NEW g, lock # p, lock' = lock,
         proc' = [proc EXCEPT ![p] = g], UNCHANGED <<store, past>>
  PROVE  Pending' = Pending
<1>1. lock # NoProc => lock \in Proc /\ proc'[lock] = proc[lock]
  BY DEF Mapped, TypeOK
<1>2. QED
  BY <1>1, PendingSame

\* What a transaction publishes, when it has written nothing as well.
LEMMA SyncPublishes ==
  ASSUME Mapped, NEW p, NEW g, Sync(p, g)
  PROVE  /\ store' = Flushed(g, Dirty(g))
         /\ past' = [k \in Key |-> past[k] \union {store'[k]}]
         /\ lock' = NoProc
<1>1. CASE Dirty(g) = {}
  <2>1. store' = store /\ past' = past /\ lock' = NoProc
    BY <1>1 DEF Sync
  <2>2. Flushed(g, {}) = store
    BY DEF Flushed, Mapped, TypeOK
  <2>3. past = [k \in Key |-> past[k] \union {store[k]}]
    BY DEF Mapped, TypeOK, AllKept, StoreInPast
  <2>4. QED
    BY <1>1, <2>1, <2>2, <2>3
<1>2. CASE Dirty(g) # {}
  BY <1>2 DEF Sync, Saved
<1>3. QED
  BY <1>1, <1>2

LEMMA OperateMaps ==
  ASSUME NoFaults, Mapped, NEW p \in Proc, NEW g \in Globals, Operate(p, g)
  PROVE  AbstractStep
<1>1. CASE proc[p].trans # 0
  <2>1. lock = p /\ lock' = p /\ proc'[p] = g
    BY <1>1, LockMeansOpen DEF Operate, Mapped, TypeOK
  <2>2. Pending' \in [Key -> Store!Optional \union {Same}]
    BY <2>1, ConstantsAreApart DEF Pending, Globals, Optional, Store!Optional
  <2>3. Store!Write(p)
    BY <1>1, <2>1, <2>2 DEF Operate, Store!Write
  <2>4. QED
    BY <2>3 DEF AbstractStep, Store!Next
<1>2. CASE proc[p].trans = 0
  <2>1. lock = NoProc /\ Sync(p, g) /\ answer' = answer
    BY <1>2, LockMeansOpen, NoSyncFails DEF Operate, Mapped
  <2>2. /\ lock' = NoProc /\ store' \in [Key -> Store!Optional]
        /\ past' = [k \in Key |-> past[k] \union {store'[k]}]
    BY <2>1, SyncPublishes, FlushedType DEF Mapped, TypeOK, Optional, Store!Optional
  <2>3. Store!Once(p)
    BY <2>1, <2>2, NothingPending, NothingPendingNext DEF Store!Once, Store!Publish
  <2>4. QED
    BY <2>3 DEF AbstractStep, Store!Next
<1>3. QED
  BY <1>1, <1>2

LEMMA BeginMaps ==
  ASSUME Mapped, NEW p \in Proc, Begin(p)
  PROVE  AbstractStep
<1>1. proc[p] \in Globals
  BY DEF Mapped, TypeOK
<1>2. CASE proc[p].trans = 0
  <2> DEFINE h == [Refreshed(proc[p]) EXCEPT !.trans = 1]
  <2>1. lock = NoProc /\ lock' = p /\ UNCHANGED <<store, past, answer>>
    BY <1>2, LockMeansOpen DEF Begin
  <2>2. proc'[p] = h
    BY <1>2 DEF Begin, Mapped, TypeOK
  <2>3. Dirty(proc[p]) = {}
    BY <2>1, LockMeansOpen, ConstantsAreApart
  <2>4. h.deleted = {} /\ h.modified = {}
    BY <1>1, <2>3 DEF Refreshed, Dirty, Globals
  <2> HIDE DEF h
  <2>5. Pending' = Store!NoWrites
    BY <2>1, <2>2, <2>4, ConstantsAreApart DEF Pending, Store!NoWrites
  <2>6. Store!Open(p)
    BY <2>1, <2>5, NothingPending DEF Store!Open
  <2>7. QED
    BY <2>6 DEF AbstractStep, Store!Next
<1>3. CASE proc[p].trans # 0
  <2> DEFINE h == [proc[p] EXCEPT !.trans = proc[p].trans + 1]
  <2>1. lock = p /\ lock' = lock /\ UNCHANGED <<store, past, answer>>
    BY <1>3, LockMeansOpen DEF Begin
  <2>2. proc'[p] = h
    BY <1>3 DEF Begin, Mapped, TypeOK
  <2>3. h.deleted = proc[p].deleted /\ h.modified = proc[p].modified /\ h.cache = proc[p].cache
    BY <1>1 DEF Globals
  <2> HIDE DEF h
  <2>4. Pending' = Pending
    BY <2>1, <2>2, <2>3, PendingSame
  <2>5. QED
    BY <2>1, <2>4 DEF AbstractStep, Store!cvars
<1>4. QED
  BY <1>2, <1>3

\* What the commands of a transaction write is what it has written.
LEMMA FlushedIsPending ==
  ASSUME Mapped, NEW p \in Proc, lock = p, NEW g,
         g.cache = proc[p].cache, g.modified = proc[p].modified, g.deleted = proc[p].deleted
  PROVE  Flushed(g, Dirty(g)) = Store!Over(Pending, store)
<1>1. proc[p] \in Globals /\ Kept(proc[p]) /\ lock # NoProc
  BY ConstantsAreApart DEF Mapped, TypeOK, AllKept
<1>2. ASSUME NEW k \in Key PROVE Flushed(g, Dirty(g))[k] = Store!Over(Pending, store)[k]
  <2>1. CASE k \in proc[p].deleted
    BY <1>1, <2>1, ConstantsAreApart DEF Flushed, Dirty, Store!Over, Pending
  <2>2. CASE k \in proc[p].modified
    <3>1. /\ k \notin proc[p].deleted /\ proc[p].cache[k] # NoValue
          /\ proc[p].cache[k] # Same
      BY <1>1, <2>2, ConstantsAreApart DEF Kept, Globals, Optional
    <3>2. QED
      BY <1>1, <2>2, <3>1 DEF Flushed, Dirty, Store!Over, Pending
  <2>3. CASE k \notin proc[p].modified \union proc[p].deleted
    BY <1>1, <2>3 DEF Flushed, Dirty, Store!Over, Pending
  <2>4. QED
    BY <2>1, <2>2, <2>3
<1>3. QED
  BY <1>2 DEF Flushed, Store!Over

LEMMA CommitMaps ==
  ASSUME NoFaults, Mapped, NEW p \in Proc, NEW ok, NEW bad, Commit(p, ok, bad), proc[p].trans # 0
  PROVE  AbstractStep
<1> DEFINE g == [proc[p] EXCEPT !.trans = @ - 1]
<1>1. lock = p /\ TypeOK
  BY LockMeansOpen DEF Mapped
<1>2. g.cache = proc[p].cache /\ g.modified = proc[p].modified /\ g.deleted = proc[p].deleted
  BY <1>1 DEF TypeOK, Globals
<1> HIDE DEF g
<1>3. /\ answer' = answer
      /\ \/ Sync(p, g)
         \/ proc' = [proc EXCEPT ![p] = g] /\ UNCHANGED <<store, lock, past>>
  BY <1>1, NoSyncFails DEF Commit, g
<1>4. CASE Sync(p, g)
  <2>1. /\ store' = Store!Over(Pending, store) /\ lock' = NoProc
        /\ past' = [k \in Key |-> past[k] \union {store'[k]}]
    BY <1>1, <1>2, <1>4, SyncPublishes, FlushedIsPending
  <2>2. Store!Close(p)
    BY <1>1, <1>3, <2>1, NothingPendingNext DEF Store!Close, Store!Publish
  <2>3. QED
    BY <2>2 DEF AbstractStep, Store!Next
<1>5. CASE proc' = [proc EXCEPT ![p] = g] /\ UNCHANGED <<store, lock, past>>
  <2>1. proc'[p] = g
    BY <1>1, <1>5 DEF TypeOK
  <2>2. Pending' = Pending
    BY <1>1, <1>2, <1>5, <2>1, PendingSame
  <2>3. QED
    BY <1>3, <1>5, <2>2 DEF AbstractStep, Store!cvars
<1>6. QED
  BY <1>3, <1>4, <1>5

\* Rolling back, or dying.
LEMMA ReleaseMaps ==
  ASSUME Mapped, NEW p \in Proc, NEW g, proc' = [proc EXCEPT ![p] = g],
         lock' = (IF lock = p THEN NoProc ELSE lock), UNCHANGED <<store, past, answer>>
  PROVE  AbstractStep
<1>1. CASE lock = p
  <2>1. Store!Abort(p)
    BY <1>1, NothingPendingNext DEF Store!Abort
  <2>2. QED
    BY <2>1 DEF AbstractStep, Store!Next
<1>2. CASE lock # p
  BY <1>2, OutsideMaps DEF AbstractStep, Store!cvars
<1>3. QED
  BY <1>1, <1>2

LEMMA GetMaps ==
  ASSUME PlainReads, Mapped, NEW p \in Proc, NEW k \in Key, Get(p, k, NoValue)
  PROVE  AbstractStep
<1> DEFINE g == proc[p]
           v == Lookup(g, k, NoValue)
           h == Remember(g, k, v)
<1>1. g \in Globals /\ k \notin g.deleted /\ Kept(g) /\ Sound(g)
  BY DEF Mapped, TypeOK, Get, PlainReads, AllKept, Coherent
<1>2. /\ answer' = [answer EXCEPT ![p] = v] /\ proc' = [proc EXCEPT ![p] = h]
      /\ UNCHANGED <<store, lock, past>>
  BY DEF Get
<1>3. v = IF g.cache[k] # NoValue THEN g.cache[k] ELSE store[k]
  BY DEF Lookup
<1>4. /\ h.deleted = g.deleted /\ h.modified = g.modified
      /\ \A j \in Key : h.cache[j] = IF j = k THEN v ELSE g.cache[j]
  BY <1>1 DEF Remember, Globals
<1>5. proc'[p] = h /\ g.modified \subseteq Key
  BY <1>1, <1>2 DEF Mapped, TypeOK, Globals
<1> HIDE DEF g, v, h
<1>6. CASE lock = p
  <2>1. Fresh(proc[p]) /\ lock # NoProc
    BY <1>6, LockMeansOpen, OpenIsFresh, ConstantsAreApart DEF Mapped
  <2>2. v = Store!Over(Pending, store)[k]
    <3>1. CASE k \in g.modified
      <4>1. g.cache[k] # NoValue /\ g.cache[k] # Same
        BY <1>1, <3>1, ConstantsAreApart DEF Kept, Globals, Optional
      <4>2. QED
        BY <1>1, <1>3, <1>6, <2>1, <3>1, <4>1 DEF Store!Over, Pending, g
    <3>2. CASE k \notin g.modified
      <4>1. g.cache[k] \in {NoValue, store[k]}
        BY <1>1, <2>1, <3>2 DEF Fresh, Dirty, g
      <4>2. QED
        BY <1>1, <1>3, <1>6, <2>1, <3>2, <4>1 DEF Store!Over, Pending, g
    <3>3. QED
      BY <3>1, <3>2
  <2>3. Pending' = Pending
    <3>1. \A j \in g.modified : h.cache[j] = g.cache[j]
      BY <1>1, <1>3, <1>4, <1>5 DEF Kept
    <3>2. QED
      BY <1>2, <1>4, <1>5, <1>6, <3>1, PendingSame DEF g
  <2>4. Store!ReadOwn(p, k)
    BY <1>2, <1>6, <2>2, <2>3 DEF Store!ReadOwn
  <2>5. QED
    BY <2>4 DEF AbstractStep, Store!Next
<1>7. CASE lock # p
  <2>1. Dirty(proc[p]) = {}
    BY <1>7, LockMeansOpen
  <2>2. v \in past[k]
    BY <1>1, <1>3, <2>1 DEF Kept, Dirty, Mapped, AllKept, StoreInPast, g
  <2>3. Pending' = Pending
    BY <1>2, <1>7, OutsideMaps
  <2>4. Store!ReadPast(p, k)
    BY <1>2, <1>7, <2>2, <2>3 DEF Store!ReadPast
  <2>5. QED
    BY <2>4 DEF AbstractStep, Store!Next
<1>8. QED
  BY <1>6, <1>7

\* Transactions are atomic and isolated (IsConfStore): the initial state is one
\* of ConfStore, and every step is one of its steps or changes nothing there.
THEOREM TransactionsIsolated == ASSUME NoFaults, PlainReads PROVE Spec => IsConfStore
<1>1. Init => Store!Init
  BY ConstantsAreApart DEF Init, Store!Init, Store!NoWrites, Pending
<1>2. Mapped /\ [Next]_vars => [Store!Next]_Store!cvars
  <2>1. SUFFICES ASSUME Mapped, [Next]_vars PROVE AbstractStep
    BY DEF AbstractStep
  <2>2. TypeOK /\ Nested
    BY <2>1 DEF Mapped
  <2>3. CASE UNCHANGED vars
    BY <2>1, <2>3 DEF vars, AbstractStep, Store!cvars, Pending
  <2>4. ASSUME NEW p \in Proc, Crash(p) PROVE AbstractStep
    BY <2>1, <2>4, ReleaseMaps DEF Crash
  <2>5. ASSUME NEW p \in Proc, Caller(p) PROVE AbstractStep
    <3>1. CASE RequestBegin(p) \/ RowBegin(p)
      BY <2>1, <3>1, BeginMaps DEF RequestBegin, RowBegin
    <3>2. CASE RequestCommit(p) \/ RowCommit(p)
      <4>1. proc[p].trans # 0
        BY <2>2, <3>2 DEF RequestCommit, RowCommit, Nested, NestedAt, DepthOf
      <4>2. QED
        BY <2>1, <3>2, <4>1, CommitMaps DEF RequestCommit, RowCommit
    <3>3. CASE RequestRollback(p) \/ RowAbort(p)
      BY <2>1, <3>3, ReleaseMaps DEF RequestRollback, RowAbort, Rollback
    <3>4. ASSUME NEW k \in Key, NEW v \in Value, Set(p, k, v) PROVE AbstractStep
      BY <2>1, <2>2, <3>4, EnteredType, PutType, OperateMaps DEF Set, Optional
    <3>5. ASSUME NEW k \in Key, NEW d \in Defaults \union {NoValue}, Get(p, k, d) PROVE AbstractStep
      BY <2>1, <3>5, GetMaps DEF PlainReads
    <3>6. ASSUME NEW k \in Key, NEW k2 \in Key, BackupDir(p, k, k2) PROVE AbstractStep
      BY <2>1, <2>2, <3>6, EnteredType, CopiedType, OperateMaps DEF BackupDir, TypeOK
    <3>7. ASSUME NEW ks \in SUBSET Key, Unset(p, ks) PROVE AbstractStep
      BY <2>1, <2>2, <3>7, EnteredType, RemoveType, OperateMaps DEF Unset
    <3>8. QED
      BY <2>5, <3>1, <3>2, <3>3, <3>4, <3>5, <3>6, <3>7 DEF Caller
  <2>6. QED
    BY <2>1, <2>3, <2>4, <2>5 DEF Next
<1>3. QED
  BY <1>1, <1>2, MappedInvariant, PTL DEF Spec, IsConfStore, Store!Spec

=============================================================================
