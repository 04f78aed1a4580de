------------------------------ MODULE JQueryData ------------------------------
(***************************************************************************)
(* What jQuery keeps of the elements of a page, and how elements are put   *)
(* in, moved, cloned and taken out.  Data and handlers are in one cache    *)
(* under ids that are used again; a script that comes into the document is *)
(* evaluated unless it is known to have been before.  The tables, forms    *)
(* and dialogs that come as answers of the server all go through here.     *)
(***************************************************************************)
EXTENDS Naturals, SequencesExt

CONSTANTS
    MaxMoves,  \* bound: insertions and removals
    MaxKept    \* bound: data and handlers that are kept

ASSUME DataAssumption == MaxMoves \in Nat /\ MaxKept \in Nat

VARIABLES
    parentOf,    \* of each element: another one, the body, nothing, or not made
    expando,     \* the id of the data of each element, 0 for none
    cache,       \* of each id: what is kept
    deletedIds,  \* ids to be used again, the last one first
    evaluations, \* history: times that a script was evaluated; a clone has those of its source
    forgotten,   \* history: scripts whose data was cleaned, that were put into the
                 \* document as copies for several targets, or whose clone may differ
    movesLeft, keptLeft

dataVars == <<parentOf, expando, cache, deletedIds, evaluations, forgotten, movesLeft, keptLeft>>

Boxes == {"box1", "box2"}
Scripts == {"script", "copy"}
PageElements == Boxes \union Scripts
Ids == 1..Cardinality(PageElements)
NoEntry == [live |-> FALSE, events |-> {}, data |-> FALSE, globalEval |-> FALSE]

DataInit ==
    /\ parentOf = [box1 |-> "body", box2 |-> "none", script |-> "none", copy |-> "unmade"]
    /\ expando = [n \in PageElements |-> 0] /\ cache = [i \in Ids |-> NoEntry] /\ deletedIds = <<>>
    /\ evaluations = [n \in Scripts |-> 0] /\ forgotten = {} /\ movesLeft = MaxMoves /\ keptLeft = MaxKept

\* jQuery.contains(document, n)
InPage(p, n) == p[n] = "body" \/ (p[n] \in Boxes /\ p[p[n]] = "body")
Made(n) == parentOf[n] # "unmade"
\* getAll(): the element, then what is in it.
All(n) == <<n>> \o SetToSeq({m \in PageElements : parentOf[m] = n})

------------------------------------------------------------------------------
\* The cache, its ids and those to be used again, as one value.
Store == [expando |-> expando, cache |-> cache, deletedIds |-> deletedIds]
StoreIs(st) == expando' = st.expando /\ cache' = st.cache /\ deletedIds' = st.deletedIds
EntryOf(st, n) == IF st.expando[n] = 0 THEN NoEntry ELSE st.cache[st.expando[n]]

\* internalData(): an element without an id takes the last one that was given
\* back, or a new one.
Allocated(st, n) ==
    IF st.expando[n] # 0 THEN st
    ELSE LET k == Len(st.deletedIds)
             used == {st.expando[m] : m \in PageElements} \union ToSet(st.deletedIds)
             id == IF k > 0 THEN st.deletedIds[k] ELSE CHOOSE i \in Ids \ used : \A j \in Ids \ used : i <= j
         IN  [st EXCEPT !.expando[n] = id, !.cache[id] = [NoEntry EXCEPT !.live = TRUE],
                        !.deletedIds = IF k > 0 THEN Front(@) ELSE @]

NewEntry(st, n) == EntryOf(Allocated(st, n), n)

Kept(st, n, entry) == LET a == Allocated(st, n) IN [a EXCEPT !.cache[a.expando[n]] = entry]

\* cleanData() of one element, when its entry is there.
GivenBack(st, n) ==
    LET id == st.expando[n]
    IN  [st EXCEPT !.expando[n] = 0, !.cache[id] = NoEntry, !.deletedIds = Append(@, id)]

\* isEmptyDataObject(): internalRemoveData() gives back an entry with nothing in it.
Emptied(st, n) ==
    LET e == EntryOf(st, n)
    IN  IF e.live /\ e.events = {} /\ ~e.data /\ ~e.globalEval THEN GivenBack(st, n) ELSE st

\* event.remove() of a type; the last one takes "events" from the data.
Unbound(st, n, type) ==
    IF type \notin EntryOf(st, n).events THEN st
    ELSE Emptied([st EXCEPT !.cache[st.expando[n]].events = @ \ {type}], n)

\* cleanData(): types with a special event are unbound one by one, and the last
\* of them may have given the entry back.
Again(st, id) == TRUE \* mutant
StillThere(st, id) == st.cache[id].live
Cleaned1(st, n) ==
    LET id == st.expando[n]
        st1 == Unbound(st, n, "special")
    IN  IF id = 0 THEN st
        ELSE IF StillThere(st1, id)
             THEN [st1 EXCEPT !.expando[n] = 0, !.cache[id] = NoEntry, !.deletedIds = Append(@, id)]
             ELSE st1
Cleaned(st, ns) ==
    LET step[i \in 0..Len(ns)] == IF i = 0 THEN st ELSE Cleaned1(step[i - 1], ns[i]) IN step[Len(ns)]

\* setGlobalEval() of the scripts among ns.
Marked1(st, n) == IF n \in Scripts THEN Kept(st, n, [NewEntry(st, n) EXCEPT !.globalEval = TRUE]) ELSE st
Marked(st, ns) ==
    LET step[i \in 0..Len(ns)] == IF i = 0 THEN st ELSE Marked1(step[i - 1], ns[i]) IN step[Len(ns)]
------------------------------------------------------------------------------
Keeps == keptLeft > 0 /\ keptLeft' = keptLeft - 1

\* data(key, value), and data(key) of an element with an attribute data-key.
SetData(n) ==
    /\ Made(n) /\ Keeps /\ StoreIs(Kept(Store, n, [NewEntry(Store, n) EXCEPT !.data = TRUE]))
    /\ UNCHANGED <<parentOf, evaluations, forgotten, movesLeft>>

RemoveData(n) ==
    /\ EntryOf(Store, n).data
    /\ StoreIs(Emptied([Store EXCEPT !.cache[expando[n]].data = FALSE], n))
    /\ UNCHANGED <<parentOf, evaluations, forgotten, movesLeft, keptLeft>>

BindType(n, type) ==
    /\ Made(n) /\ Keeps /\ StoreIs(Kept(Store, n, [NewEntry(Store, n) EXCEPT !.events = @ \union {type}]))
    /\ UNCHANGED <<parentOf, evaluations, forgotten, movesLeft>>

UnbindType(n, type) ==
    /\ type \in EntryOf(Store, n).events /\ StoreIs(Unbound(Store, n, type))
    /\ UNCHANGED <<parentOf, evaluations, forgotten, movesLeft, keptLeft>>

Moves == movesLeft > 0 /\ movesLeft' = movesLeft - 1 /\ UNCHANGED keptLeft

\* domManip(): scripts that come from the document are marked before, the others
\* are evaluated when they are in the document.
Inserted(st, n, target) ==
    LET from == IF InPage(parentOf, n) THEN Marked(st, All(n)) ELSE st
    IN  /\ StoreIs(from) /\ parentOf' = [parentOf EXCEPT ![n] = target]
        /\ evaluations' = [s \in Scripts |->
               IF s \in ToSet(All(n)) /\ InPage(parentOf', s) /\ ~EntryOf(from, s).globalEval
               THEN evaluations[s] + 1 ELSE evaluations[s]]

\* append(), prepend(), before(), after(), html() with a script in it.
Insert(n, target) ==
    /\ Moves /\ Made(n) /\ n # target
    /\ target \in IF n \in Boxes THEN {"body"} ELSE Boxes
    /\ Inserted(Store, n, target)
    /\ UNCHANGED forgotten

\* clone(), with data: the handlers are bound anew, "globalEval" comes from the
\* source or, when that is in the document, is set.
Copied(st, withData) ==
    LET source == EntryOf(st, "script")
        bound == IF withData /\ source.live
                 THEN Kept(st, "copy", source) ELSE st
    IN  IF InPage(parentOf, "script") THEN Marked(bound, <<"copy">>)
        ELSE IF source.globalEval THEN Marked(bound, <<"copy">>) ELSE bound

CloneScript(withData) ==
    /\ Moves /\ ~Made("copy") /\ StoreIs(Copied(Store, withData))
    /\ parentOf' = [parentOf EXCEPT !["copy"] = "none"]
    /\ evaluations' = [evaluations EXCEPT !["copy"] = evaluations["script"]]
    /\ forgotten' = IF "script" \in forgotten THEN forgotten \union {"copy"} ELSE forgotten

\* append() to both boxes: the last one gets the script, the other a copy that is
\* not among those that are evaluated.
InsertInBoth ==
    /\ Moves /\ ~Made("copy")
    /\ LET from == IF InPage(parentOf, "script") THEN Marked(Store, <<"script">>) ELSE Store
           out == [parentOf EXCEPT !["script"] = "none"]
           copied == Kept(from, "copy", EntryOf(from, "script"))
       IN  /\ StoreIs(IF EntryOf(from, "script").live THEN copied ELSE from)
           /\ parentOf' = [out EXCEPT !["script"] = "box2", !["copy"] = "box1"]
           /\ evaluations' = [script |-> IF InPage(parentOf', "script") /\ ~EntryOf(from, "script").globalEval
                                         THEN evaluations["script"] + 1 ELSE evaluations["script"],
                              copy |-> evaluations["script"]]
    /\ forgotten' = forgotten \union {"copy"}

\* remove() cleans the data of the element and of what is in it; empty(), html()
\* and replaceWith() of what is in it alone.
RemoveElement(n) ==
    /\ Moves /\ Made(n)
    /\ StoreIs(Cleaned(Store, All(n)))
    /\ parentOf' = [parentOf EXCEPT ![n] = "none"]
    /\ forgotten' = forgotten \union (ToSet(All(n)) \intersect Scripts)
    /\ UNCHANGED evaluations

EmptyBox(b) ==
    /\ Moves
    /\ LET inside == Tail(All(b))
       IN  /\ inside # <<>> /\ StoreIs(Cleaned(Store, inside))
           /\ parentOf' = [n \in PageElements |-> IF n \in ToSet(inside) THEN "none" ELSE parentOf[n]]
           /\ forgotten' = forgotten \union ToSet(inside)
    /\ UNCHANGED evaluations

DetachElement(n) ==
    /\ Moves /\ Made(n) /\ parentOf[n] # "none"
    /\ StoreIs(IF InPage(parentOf, n) THEN Marked(Store, All(n)) ELSE Store)
    /\ parentOf' = [parentOf EXCEPT ![n] = "none"]
    /\ UNCHANGED <<evaluations, forgotten>>

DataNext ==
    \/ \E n \in PageElements : SetData(n) \/ RemoveData(n) \/ RemoveElement(n) \/ DetachElement(n)
    \/ \E n \in PageElements, type \in {"special", "plain"} : BindType(n, type) \/ UnbindType(n, type)
    \/ \E n \in PageElements, target \in Boxes \union {"body"} : Insert(n, target)
    \/ InsertInBoth
    \/ \E withData \in BOOLEAN : CloneScript(withData)
    \/ \E b \in Boxes : EmptyBox(b)

DataSpec == DataInit /\ [][DataNext]_dataVars
------------------------------------------------------------------------------
DataTypeOK ==
    /\ \A n \in PageElements : expando[n] \in Ids \union {0}
    /\ \A i \in Ids : cache[i].events \subseteq {"special", "plain"}
    /\ movesLeft \in 0..MaxMoves

\* No two elements share an id, an id that is to be used again is given back once
\* and belongs to none, and what is kept belongs to an element that has it - so
\* that a handler or a datum never turns up at another element and nothing is
\* leaked; and a script is evaluated once however it, its box or its clone is
\* moved, taken out and put back - unless its data was cleaned or it was copied
\* to several places at once - and has been when it is in the document.
DataHolds ==
    /\ \A n, m \in PageElements : n # m /\ expando[n] # 0 => expando[n] # expando[m]
    /\ IsInjective(deletedIds) /\ \A n \in PageElements : ~Contains(deletedIds, expando[n])
    /\ \A i \in Ids : cache[i].live <=> \E n \in PageElements : expando[n] = i
    /\ \A s \in Scripts \ forgotten :
           evaluations[s] <= 1 /\ (Made(s) /\ InPage(parentOf, s) => evaluations[s] = 1)

==============================================================================
