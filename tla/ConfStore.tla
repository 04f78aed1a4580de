------------------------------ MODULE ConfStore ------------------------------
(***************************************************************************)
(* What EBox::Config::Redis promises to the modules of Zentyal: a store of *)
(* configuration keys that transactions change one at a time and all at    *)
(* once.  The holder of the store reads its own writes over the committed  *)
(* data; a process that does not hold it reads some committed value of the *)
(* key, not always the last one, because reads outside a transaction may   *)
(* be answered from a cache.                                               *)
(***************************************************************************)
CONSTANTS Proc,     \* processes that use the store
          Key,      \* configuration keys
          Value,    \* values a key may have
          NoValue,  \* the key does not exist
          NoProc,   \* nobody holds the store
          Same      \* the holder has not written the key

VARIABLES data,     \* committed value of each key
          past,     \* every committed value that each key has had
          holder,   \* the process with an open transaction
          writes,   \* what that transaction has written
          answer    \* the last value read by each process

cvars == <<data, past, holder, writes, answer>>

Optional == Value \union {NoValue}
NoWrites == [k \in Key |-> Same]

Over(w, d) == [k \in Key |-> IF w[k] = Same THEN d[k] ELSE w[k]]

Init == /\ data = [k \in Key |-> NoValue]
        /\ past = [k \in Key |-> {NoValue}]
        /\ holder = NoProc
        /\ writes = NoWrites
        /\ answer = [p \in Proc |-> NoValue]

Publish(d) == /\ data' = d
              /\ past' = [k \in Key |-> past[k] \union {d[k]}]

Open(p) == /\ holder = NoProc
           /\ holder' = p
           /\ UNCHANGED <<data, past, writes, answer>>

Write(p) == /\ holder = p
            /\ writes' \in [Key -> Optional \union {Same}]
            /\ UNCHANGED <<data, past, holder, answer>>

ReadOwn(p, k) == /\ holder = p
                 /\ answer' = [answer EXCEPT ![p] = Over(writes, data)[k]]
                 /\ UNCHANGED <<data, past, holder, writes>>

ReadPast(p, k) == /\ holder # p
                  /\ \E v \in past[k] : answer' = [answer EXCEPT ![p] = v]
                  /\ UNCHANGED <<data, past, holder, writes>>

Close(p) == /\ holder = p
            /\ Publish(Over(writes, data))
            /\ holder' = NoProc
            /\ writes' = NoWrites
            /\ UNCHANGED answer

\* Rollback, or the death of the process.
Abort(p) == /\ holder = p
            /\ holder' = NoProc
            /\ writes' = NoWrites
            /\ UNCHANGED <<data, past, answer>>

\* An operation that opens and closes a transaction of its own.
Once(p) == /\ holder = NoProc
           /\ data' \in [Key -> Optional]
           /\ Publish(data')
           /\ UNCHANGED <<holder, writes, answer>>

Next == \E p \in Proc :
          \/ Open(p) \/ Write(p) \/ Close(p) \/ Abort(p) \/ Once(p)
          \/ \E k \in Key : ReadOwn(p, k) \/ ReadPast(p, k)

Spec == Init /\ [][Next]_cvars
=============================================================================
