----------------------------- MODULE ConfigRedis -----------------------------
(***************************************************************************)
(* EBox::Config::Redis: the configuration store that every Zentyal process *)
(* (web workers, daemons, scripts) opens.  Each process has a cache, the   *)
(* keys it has modified and deleted and a transaction counter as package   *)
(* globals; all share the Redis server, its 'version' key and the 'redis'  *)
(* file lock of EBox::Util::SHMLock.                                       *)
(*                                                                         *)
(* The transactions are those of a web request (CGI/Run.pm) or of a script *)
(* (Util/Init.pm moduleAction), and inside it those of the row operations  *)
(* of Model/DataTable.pm.                                                  *)
(*                                                                         *)
(* A Redis command is atomic, and the commands between lock() and unlock() *)
(* are one step: nobody else writes to the server in between.  get() does  *)
(* not take the lock and is a step of its own.                             *)
(***************************************************************************)
EXTENDS Integers, FiniteSets

CONSTANTS Proc, Key, Value, NoValue, NoProc,
          Defaults,     \* defaults that callers give to get()
          Catches,      \* CGIs catch the exception of a failed row operation
          RereadsUnset, \* callers read a key their transaction has unset
          MaxDrops,     \* bound: failures of the connection to Redis
          Same,         \* ConfStore: the holder has not written the key
          MaxVersion    \* bound: no writes are started from this version on

ASSUME ConstantsAreApart == /\ NoValue \notin Value
                            /\ Same \notin Value \union {NoValue}
                            /\ NoProc \notin Proc
ASSUME ConstantTypes == /\ Defaults \subseteq Value
                        /\ Catches \in BOOLEAN
                        /\ RereadsUnset \in BOOLEAN
                        /\ MaxDrops \in Nat
                        /\ MaxVersion \in Nat

VARIABLES store,    \* keys of the Redis server
          version,  \* its 'version' key
          lock,     \* the process that holds the file lock
          proc,     \* package globals of each process
          pc,       \* where its request is
          answer,   \* the value of its last get()
          drops,    \* connection failures so far
          past      \* history: committed values of each key

vars == <<store, version, lock, proc, pc, answer, drops, past>>

Optional == Value \union {NoValue}
Locations == {"idle", "request", "row", "failed"}
NoCache == [k \in Key |-> NoValue]

StartedNoVersion == [trans |-> 0, cache |-> NoCache, modified |-> {},
                     deleted |-> {}, version |-> NoValue] \* mutant

\* Package globals of a process that has just started.
Started == [trans |-> 0, cache |-> NoCache, modified |-> {}, deleted |-> {},
            version |-> 0]

Globals == [trans : Int, cache : [Key -> Optional], modified : SUBSET Key,
            deleted : SUBSET Key, version : Nat]

Init == /\ store = [k \in Key |-> NoValue]
        /\ version = 0
        /\ lock = NoProc
        /\ proc = [p \in Proc |-> Started]
        /\ pc = [p \in Proc |-> "idle"]
        /\ answer = [p \in Proc |-> NoValue]
        /\ drops = 0
        /\ past = [k \in Key |-> {NoValue}]

-----------------------------------------------------------------------------
(* What the operations do to the package globals g of their process.       *)

RefreshedNoFlush(g) == [g EXCEPT !.version = version] \* mutant

\* begin() with the lock taken: a newer version of the data flushes the cache.
Refreshed(g) ==
    IF version > g.version
    THEN [g EXCEPT !.cache = NoCache, !.version = version]
    ELSE g

Put(g, k, v) == [g EXCEPT !.cache[k] = v,
                          !.modified = @ \union {k},
                          !.deleted = @ \ {k}]

Remove(g, ks) == [g EXCEPT !.cache = [k \in Key |-> IF k \in ks THEN NoValue
                                                                ELSE @[k]],
                           !.modified = @ \ ks,
                           !.deleted = @ \union ks]

\* get(): the cache, else the server, else the default of the caller.
Lookup(g, k, default) ==
    IF g.cache[k] # NoValue THEN g.cache[k]
    ELSE IF store[k] # NoValue THEN store[k] ELSE default

\* A value found is cached, a default too; undef is not.
Remember(g, k, v) == [g EXCEPT !.cache[k] = v]

\* _keys() hides the keys deleted by this transaction, unless they are cached.
Listed(g, k) == \/ g.cache[k] # NoValue
                \/ store[k] # NoValue /\ k \notin g.deleted

\* backup_dir() with one key in the directory.
Copied(g, src, dst) ==
    LET h == Remove(g, IF Listed(g, dst) THEN {dst} ELSE {})
        v == Lookup(h, src, NoValue)
    IN  IF Listed(h, src) THEN Put(Remember(h, src, v), dst, v) ELSE h

Dirty(g) == g.modified \union g.deleted

FlushedNoDel(g, ks) == \* mutant
    [k \in Key |-> IF k \in ks \ g.deleted THEN g.cache[k] ELSE store[k]]

\* Keys that set/del commands change; a modified key whose value was flushed
\* from the cache is skipped with "Tried to set an undefined value".
Flushed(g, ks) ==
    [k \in Key |->
        IF k \notin ks THEN store[k]
        ELSE IF k \in g.deleted THEN NoValue
        ELSE IF k \in g.modified /\ g.cache[k] # NoValue THEN g.cache[k]
        ELSE store[k]]

-----------------------------------------------------------------------------
IncrementedNot == version \* mutant

\* INCR version
Incremented == version + 1

Saved(s) == /\ store' = s
            /\ past' = [k \in Key |-> past[k] \union {s[k]}]

\* _sync(), then unlock(): MULTI, the writes, INCR version, EXEC.
Sync(p, g) ==
    /\ lock' = NoProc
    /\ UNCHANGED drops
    /\ IF Dirty(g) = {}
       THEN /\ proc' = [proc EXCEPT ![p] = g]
            /\ UNCHANGED <<store, version, past>>
       ELSE /\ proc' = [proc EXCEPT ![p] = [g EXCEPT !.modified = {},
                                                     !.deleted = {},
                                                     !.version = Incremented]]
            /\ Saved(Flushed(g, Dirty(g)))
            /\ version' = Incremented

\* _sync() that throws: the lock stays taken.
SyncFails(p, g) ==
    /\ Dirty(g) # {}
    /\ drops < MaxDrops
    /\ drops' = drops + 1
    /\ lock' = p
    /\ \/ \* the server is gone before DEL or before, five tries, nothing applied
          /\ \E m \in {g.modified, {}} :
                proc' = [proc EXCEPT ![p] = [g EXCEPT !.modified = m]]
          /\ UNCHANGED <<store, version, past>>
       \/ \* _redis_call connects again in mid-transaction: the server forgets
          \* MULTI and what was queued, the commands left (on the keys ks; DEL
          \* is the last, before INCR) are applied at once, EXEC is refused
          \E ks \in SUBSET Dirty(g) :
            /\ ks = {} \/ g.deleted \subseteq ks
            /\ proc' = [proc EXCEPT ![p] = [g EXCEPT !.modified = {},
                                                     !.deleted = {}]]
            /\ Saved(Flushed(g, ks))
            /\ version' = Incremented \/ (ks = {} /\ version' = version)

\* begin() by a process that may have the lock from a failed commit: lock()
\* opens the file again, which drops the old lock.
LockFree(p) == lock \in {NoProc, p}

Begin(p) ==
    /\ IF proc[p].trans = 0
       THEN /\ LockFree(p)
            /\ lock' = p
            /\ proc' = [proc EXCEPT ![p] = [Refreshed(@) EXCEPT !.trans = 1]]
       ELSE /\ proc' = [proc EXCEPT ![p].trans = @ + 1]
            /\ UNCHANGED lock
    /\ UNCHANGED <<store, version, answer, drops, past>>

\* commit(), going to location ok, or to bad if it throws.
Commit(p, ok, bad) ==
    LET g == [proc[p] EXCEPT !.trans = @ - 1]
    IN  /\ UNCHANGED answer
        /\ \/ /\ g.trans = 0
              /\ \/ Sync(p, g) /\ pc' = [pc EXCEPT ![p] = ok]
                 \/ SyncFails(p, g) /\ pc' = [pc EXCEPT ![p] = bad]
           \/ /\ g.trans # 0
              /\ proc' = [proc EXCEPT ![p] = g]
              /\ pc' = [pc EXCEPT ![p] = ok]
              /\ UNCHANGED <<store, version, lock, drops, past>>

ForgottenOneLevel(g) == \* mutant
    IF g.trans = 0 THEN g
    ELSE [g EXCEPT !.trans = @ - 1, !.modified = {}, !.deleted = {},
                   !.cache = [k \in Key |-> IF k \in g.modified THEN NoValue
                                                                ELSE @[k]]]

ForgottenKeepsModified(g) == \* mutant
    [g EXCEPT !.trans = 0, !.deleted = {}]

\* rollback() forgets what the transaction wrote; the counter goes to zero
\* whatever the depth of the caller.
Forgotten(g) ==
    IF g.trans = 0 THEN g
    ELSE [g EXCEPT !.trans = 0, !.modified = {}, !.deleted = {},
                   !.cache = [k \in Key |-> IF k \in g.modified THEN NoValue
                                                                ELSE @[k]]]

RollbackKeepsLock(p) == \* mutant
    /\ proc' = [proc EXCEPT ![p] = Forgotten(@)]
    /\ UNCHANGED <<store, version, lock, answer, drops, past>>

Rollback(p) ==
    /\ proc' = [proc EXCEPT ![p] = Forgotten(@)]
    /\ lock' = IF lock = p THEN NoProc ELSE lock
    /\ UNCHANGED <<store, version, answer, drops, past>>

\* An operation between begin() and commit() of its own: nested in the
\* transaction of the caller, or a transaction by itself.
Entered(p) == IF proc[p].trans = 0 THEN Refreshed(proc[p]) ELSE proc[p]

Operate(p, g) ==
    /\ pc[p] # "failed"
    /\ version < MaxVersion
    /\ UNCHANGED answer
    /\ \/ /\ proc[p].trans # 0
          /\ proc' = [proc EXCEPT ![p] = g]
          /\ UNCHANGED <<store, version, lock, pc, drops, past>>
       \/ /\ proc[p].trans = 0
          /\ LockFree(p)
          /\ \/ Sync(p, g) /\ UNCHANGED pc
             \/ /\ SyncFails(p, g)
                /\ pc' = [pc EXCEPT ![p] = IF @ = "idle" THEN @ ELSE "failed"]

-----------------------------------------------------------------------------
(* The operations that other code calls.                                   *)

Set(p, k, v) == Operate(p, Put(Entered(p), k, v))

\* unset(@keys), and delete_dir() with the keys it lists.
Unset(p, ks) == Operate(p, Remove(Entered(p), ks))

BackupDir(p, src, dst) == Operate(p, Copied(Entered(p), src, dst))

Get(p, k, default) ==
    /\ pc[p] # "failed"
    /\ RereadsUnset \/ k \notin proc[p].deleted
    /\ LET v == Lookup(proc[p], k, default)
       IN  /\ answer' = [answer EXCEPT ![p] = v]
           /\ proc' = [proc EXCEPT ![p] = Remember(@, k, v)]
    /\ UNCHANGED <<store, version, lock, pc, drops, past>>

\* EBox::CGI::Run::run and EBox::Util::Init::moduleAction
RequestBegin(p) == /\ pc[p] = "idle"
                   /\ pc' = [pc EXCEPT ![p] = "request"]
                   /\ Begin(p)

RequestCommit(p) == /\ pc[p] = "request"
                    /\ Commit(p, "idle", "failed")

\* the handler, or its commit(), throws
RequestRollback(p) == /\ pc[p] \in {"request", "failed"}
                      /\ pc' = [pc EXCEPT ![p] = "idle"]
                      /\ Rollback(p)

\* EBox::Model::DataTable::addTypedRow, removeRow, setTypedRow
RowBegin(p) == /\ pc[p] = "request"
               /\ pc' = [pc EXCEPT ![p] = "row"]
               /\ Begin(p)

RowCommit(p) == /\ pc[p] = "row"
                /\ Commit(p, "request", "failed")

\* the row is refused: roll back and throw.  An External exception ends in
\* EBox::CGI::Base::run, which shows the error and returns to Run::run.
RowAbort(p) == /\ pc[p] = "row"
               /\ \E to \in {"failed"} \union (IF Catches THEN {"request"} ELSE {}) :
                    pc' = [pc EXCEPT ![p] = to]
               /\ Rollback(p)

\* The process dies, the system closes its files, another takes its place.
Crash(p) == /\ proc' = [proc EXCEPT ![p] = Started]
            /\ pc' = [pc EXCEPT ![p] = "idle"]
            /\ lock' = IF lock = p THEN NoProc ELSE lock
            /\ UNCHANGED <<store, version, answer, drops, past>>
-----------------------------------------------------------------------------

Caller(p) ==
    \/ RequestBegin(p) \/ RequestCommit(p) \/ RequestRollback(p)
    \/ RowBegin(p) \/ RowCommit(p) \/ RowAbort(p)
    \/ \E k \in Key :
          \/ \E v \in Value : Set(p, k, v)
          \/ \E d \in Defaults \union {NoValue} : Get(p, k, d)
          \/ \E k2 \in Key \ {k} : BackupDir(p, k, k2)
    \/ \E ks \in (SUBSET Key) \ {{}} : Unset(p, ks)

Next == \E p \in Proc : Caller(p) \/ Crash(p)

Spec == Init /\ [][Next]_vars

\* Handlers and row operations are finite pieces of code: each ends.
Fairness == \A p \in Proc : /\ WF_vars(RowCommit(p) \/ RowAbort(p))
                            /\ SF_vars(RequestCommit(p))
                            /\ WF_vars(RequestRollback(p) /\ pc[p] = "failed")

FairSpec == Spec /\ Fairness

-----------------------------------------------------------------------------
\* Type invariant of the store, the lock and the package globals.
TypeOK == /\ store \in [Key -> Optional]
          /\ version \in Nat
          /\ lock \in Proc \union {NoProc}
          /\ proc \in [Proc -> Globals]
          /\ pc \in [Proc -> Locations]
          /\ answer \in [Proc -> Optional]
          /\ drops \in Nat
          /\ past \in [Key -> SUBSET Optional]

\* A process that counts an open transaction holds the file lock, whatever
\* exceptions were swallowed and whatever commits failed before: two processes
\* are never between begin() and commit() at once (begin, commit, rollback).
OpenHoldsLock == \A p \in Proc : proc[p].trans > 0 => lock = p

\* Every change of the stored data, a half-applied one too, raises the version
\* that tells the other processes to flush their caches (_sync, begin).
ChangeRaisesVersion == [][store' # store => version' > version]_vars

\* A key that the process has unset is gone for it: get() finds nothing.
UnsetIsGone ==
    [][\A p \in Proc, k \in Key :
          (k \in proc[p].deleted /\ Get(p, k, NoValue)) => answer'[p] = NoValue]_vars

\* A cache that has the version of the server agrees with it, except for the
\* keys that the running transaction has written (get, begin, _sync).
CacheCoherent ==
    \A p \in Proc : proc[p].version = version =>
        \A k \in Key \ Dirty(proc[p]) : proc[p].cache[k] \in {NoValue, store[k]}

\* Only the holder of the lock has writes that are not on the server: no
\* request leaves something behind for a later one to commit.
NothingLeftOver == \A p \in Proc : Dirty(proc[p]) # {} => lock = p

\* The begin() of a request that starts is never taken for a nested one: it
\* opens a transaction, and takes the lock and the current version with it.
RequestOpens ==
    [][\A p \in Proc : (pc[p] = "idle" /\ pc'[p] = "request") => lock' = p]_vars

\* Every request ends, and when it does its process has given up the lock.
RequestsEnd == \A p \in Proc :
                  pc[p] # "idle" ~> (pc[p] = "idle" /\ lock # p)

-----------------------------------------------------------------------------
(* Refinement: the process with the lock is the holder of ConfStore.       *)

Pending == [k \in Key |->
              IF lock = NoProc THEN Same
              ELSE IF k \in proc[lock].deleted THEN NoValue
              ELSE IF k \in proc[lock].modified THEN proc[lock].cache[k]
              ELSE Same]

Store == INSTANCE ConfStore WITH data <- store, holder <- lock, writes <- Pending

\* Transactions are atomic and isolated: the store implements ConfStore.
IsConfStore == Store!Spec
=============================================================================
