---------------------------- MODULE ListProofs ----------------------------
(***************************************************************************)
(* Proofs about the lists the pages show.  TableHelper, the tables of rows *)
(* in the browser, for any rows, any requests that are lost and any number *)
(* of clicks: which rows a page shows, and that what a request replaced by *)
(* a spinner comes back.  UISortable, lists whose items are dragged, for   *)
(* any items: that the page is told the order the document shows.          *)
(* UIDialog, dialogs and their overlays in the order of the document, for  *)
(* any dialogs and openings: that overlays are there, counted and under    *)
(* their dialogs, and that the focus is kept.                              *)
(***************************************************************************)
EXTENDS TableHelper, UISortable, UIDialog, Integers, TLAPS, FiniteSetTheorems, SequenceTheorems,
        NaturalsInduction, WellFoundedInduction

-----------------------------------------------------------------------------
(* Sequences of rows.                                                      *)

PutsIn(bs, len, at, e, more) ==
    \A i \in 1..(len + 1) : more[i] = IF i < at THEN bs[i] ELSE IF i = at THEN e ELSE bs[i - 1]

TakesOut(bs, len, n, less) == \A i \in 1..(len - 1) : less[i] = IF i < n THEN bs[i] ELSE bs[i + 1]

LEMMA InsertAtPutsIn ==
  ASSUME NEW S, NEW s \in Seq(S), NEW n \in 1..(Len(s) + 1), NEW e \in S
  PROVE  /\ InsertAt(s, n, e) \in Seq(S) /\ Len(InsertAt(s, n, e)) = Len(s) + 1
         /\ PutsIn(s, Len(s), n, e, InsertAt(s, n, e))
<1> DEFINE a == SubSeq(s, 1, n - 1)
           b == SubSeq(s, n, Len(s))
           c == a \o <<e>>
           u == c \o b
<1>1. Len(s) \in Nat /\ n \in Nat
  OBVIOUS
<1>2. a \in Seq(S) /\ Len(a) = n - 1 /\ \A j \in 1..(n - 1) : a[j] = s[j]
  BY <1>1
<1>3. b \in Seq(S) /\ Len(b) = Len(s) - n + 1 /\ \A j \in 1..Len(b) : b[j] = s[n + j - 1]
  BY <1>1
<1> HIDE DEF a, b
<1>4. c \in Seq(S) /\ Len(c) = n /\ c[n] = e /\ \A j \in 1..(n - 1) : c[j] = s[j]
  BY <1>1, <1>2
<1> HIDE DEF c
<1>5. u \in Seq(S) /\ Len(u) = Len(s) + 1
  BY <1>1, <1>3, <1>4
<1>6. ASSUME NEW j \in 1..(Len(s) + 1)
      PROVE  u[j] = IF j < n THEN s[j] ELSE IF j = n THEN e ELSE s[j - 1]
  <2>1. CASE j <= n
    <3>1. j \in 1..n /\ u[j] = c[j]
      BY <1>1, <1>3, <1>4, <2>1
    <3>2. QED
      BY <1>1, <1>4, <2>1, <3>1
  <2>2. CASE j > n
    <3>1. j - n \in 1..Len(b) /\ n + (j - n) - 1 = j - 1
      BY <1>1, <1>3, <2>2
    <3>2. u[j] = b[j - n]
      BY <1>1, <1>3, <1>4, <2>2
    <3>3. QED
      BY <1>1, <1>3, <2>2, <3>1, <3>2
  <2>3. j <= n \/ j > n
    BY <1>1
  <2>4. QED
    BY <2>1, <2>2, <2>3
<1>7. InsertAt(s, n, e) = u
  BY DEF InsertAt, a, b, c
<1> HIDE DEF u
<1>8. QED
  BY <1>5, <1>6, <1>7 DEF PutsIn

LEMMA RemoveAtTakesOut ==
  ASSUME NEW S, NEW s \in Seq(S), NEW n \in 1..Len(s)
  PROVE  /\ RemoveAt(s, n) \in Seq(S) /\ Len(RemoveAt(s, n)) = Len(s) - 1
         /\ TakesOut(s, Len(s), n, RemoveAt(s, n))
<1> DEFINE a == SubSeq(s, 1, n - 1)
           b == SubSeq(s, n + 1, Len(s))
           u == a \o b
<1>1. Len(s) \in Nat /\ n \in Nat /\ n <= Len(s) /\ n >= 1
  OBVIOUS
<1>2. a \in Seq(S) /\ Len(a) = n - 1 /\ \A j \in 1..(n - 1) : a[j] = s[j]
  BY <1>1
<1>3. b \in Seq(S) /\ Len(b) = Len(s) - n /\ \A j \in 1..Len(b) : b[j] = s[n + j]
  BY <1>1
<1> HIDE DEF a, b
<1>4. u \in Seq(S)
  BY <1>2, <1>3
<1>5. Len(u) = Len(s) - 1
  <2>1. a \in Seq(S) /\ b \in Seq(S)
    BY <1>2, <1>3
  <2>2. Len(u) = Len(a) + Len(b)
    BY <2>1
  <2> HIDE DEF u
  <2>3. QED
    BY <1>1, <1>2, <1>3, <2>2
<1>6. \A j \in 1..(Len(s) - 1) : u[j] = IF j < n THEN s[j] ELSE s[j + 1]
  BY <1>1, <1>3, <1>2
<1>7. RemoveAt(s, n) = u
  BY DEF RemoveAt, a, b
<1> HIDE DEF u
<1>8. QED
  BY <1>4, <1>5, <1>6, <1>7 DEF TakesOut

LEMMA LowestPlace ==
  ASSUME NEW T \in SUBSET Nat, T # {}
  PROVE  \E e \in T : \A x \in T : e <= x
<1> DEFINE less == {ss \in Nat \X Nat : ss[1] < ss[2]}
<1>1. IsWellFoundedOn(less, Nat)
  BY NatLessThanWellFounded, Zenon DEF OpToRel
<1> HIDE DEF less
<1>2. PICK e \in T : \A x \in T : <<x, e>> \notin less
  BY <1>1, WFMin
<1>3. ASSUME NEW x \in T PROVE e <= x
  <2>1. x \in Nat /\ e \in Nat
    OBVIOUS
  <2>2. x < e => <<x, e>> \in less
    BY <2>1 DEF less
  <2>3. QED
    BY <1>2, <2>1, <2>2
<1>4. QED
  BY <1>3

\* No element is twice in a list.
Unrepeated(S) == {list \in Seq(S) : \A i, j \in 1..Len(list) : list[i] = list[j] => i = j}
Where(list, x) == SelectInSeq(list, LAMBDA y : y = x)

LEMMA InSet ==
  ASSUME NEW S, NEW list \in Seq(S)
  PROVE  /\ ToSet(list) \subseteq S
         /\ \A x : x \in ToSet(list) <=> Contains(list, x)
         /\ \A i \in 1..Len(list) : list[i] \in ToSet(list)
<1>1. DOMAIN list = 1..Len(list)
  OBVIOUS
<1>2. QED
  BY <1>1 DEF ToSet, Contains

LEMMA SameList ==
  ASSUME NEW S, NEW a \in Seq(S), NEW b \in Seq(S), Len(a) = Len(b), \A i \in 1..Len(a) : a[i] = b[i]
  PROVE  a = b
  BY SeqEqual

LEMMA WhereIs ==
  ASSUME NEW S, NEW list \in Seq(S), NEW x
  PROVE  /\ Where(list, x) \in 0..Len(list)
         /\ Contains(list, x) => Where(list, x) \in 1..Len(list) /\ list[Where(list, x)] = x
         /\ ~Contains(list, x) => Where(list, x) = 0
<1> DEFINE I == {i \in 1..Len(list) : list[i] = x}
           k == Where(list, x)
<1>1. k = IF I # {} THEN Min(I) ELSE 0
  BY DEF SelectInSeq, Where
<1>2. CASE I = {}
  <2>1. k = 0
    BY <1>1, <1>2
  <2>2. ~Contains(list, x)
    BY <1>2 DEF Contains
  <2> HIDE DEF k
  <2>3. QED
    BY <2>1, <2>2 DEF k
<1>3. CASE I # {}
  <2>1. I \in SUBSET Nat
    OBVIOUS
  <2>2. PICK e \in I : \A j \in I : e <= j
    <3> HIDE DEF I
    <3>1. QED
      BY <1>3, <2>1, LowestPlace
  <2>3. Min(I) \in I
    <3> HIDE DEF I
    <3>1. QED
      BY <2>2 DEF Min
  <2>4. k \in I
    BY <1>1, <1>3, <2>3
  <2>5. Contains(list, x)
    BY <2>4 DEF Contains
  <2> HIDE DEF k
  <2>6. QED
    BY <2>4, <2>5 DEF k
<1>4. QED
  BY <1>2, <1>3

LEMMA WhereOnly ==
  ASSUME NEW S, NEW list \in Unrepeated(S), NEW k \in 1..Len(list)
  PROVE  Where(list, list[k]) = k
<1>1. list \in Seq(S) /\ Contains(list, list[k])
  BY DEF Unrepeated, Contains
<1>2. PICK m : m = Where(list, list[k])
  OBVIOUS
<1>3. m \in 1..Len(list) /\ list[m] = list[k]
  BY <1>1, <1>2, WhereIs
<1>4. QED
  BY <1>2, <1>3 DEF Unrepeated

LEMMA RemovedFirst ==
  ASSUME NEW S, NEW list \in Seq(S), NEW x
  PROVE  /\ RemoveFirst(list, x) \in Seq(S)
         /\ Contains(list, x) => RemoveFirst(list, x) = RemoveAt(list, Where(list, x))
         /\ ~Contains(list, x) => RemoveFirst(list, x) = list
<1>1. CASE Contains(list, x)
  <2>1. RemoveFirst(list, x) = RemoveAt(list, Where(list, x))
    BY <1>1 DEF RemoveFirst, Contains, Where
  <2>2. PICK k \in 1..Len(list) : k = Where(list, x)
    BY <1>1, WhereIs
  <2>3. RemoveAt(list, k) \in Seq(S)
    BY RemoveAtTakesOut
  <2>4. QED
    BY <1>1, <2>1, <2>2, <2>3
<1>2. CASE ~Contains(list, x)
  BY <1>2 DEF RemoveFirst, Contains
<1>3. QED
  BY <1>1, <1>2

LEMMA InsertedKeeps ==
  ASSUME NEW S, NEW list \in Unrepeated(S), NEW x \in S, ~Contains(list, x), NEW i \in 1..(Len(list) + 1)
  PROVE  /\ InsertAt(list, i, x) \in Unrepeated(S)
         /\ ToSet(InsertAt(list, i, x)) = ToSet(list) \union {x}
<1>1. PICK u : u = InsertAt(list, i, x)
  OBVIOUS
<1>2. list \in Seq(S) /\ \A j, k \in 1..Len(list) : list[j] = list[k] => j = k
  BY DEF Unrepeated
<1>3. /\ u \in Seq(S) /\ Len(u) = Len(list) + 1
      /\ \A j \in 1..(Len(list) + 1) : u[j] = IF j < i THEN list[j] ELSE IF j = i THEN x ELSE list[j - 1]
  <2>1. u \in Seq(S) /\ Len(u) = Len(list) + 1 /\ PutsIn(list, Len(list), i, x, u)
    BY <1>1, <1>2, InsertAtPutsIn
  <2>2. QED
    BY <2>1 DEF PutsIn
<1>4. \A j \in 1..Len(list) : list[j] # x
  BY DEF Contains
<1>5. Len(list) \in Nat
  BY <1>2
<1>6. ASSUME NEW j \in 1..Len(u), NEW k \in 1..Len(u), u[j] = u[k] PROVE j = k
  <2>1. \A m \in 1..Len(u) : m # i => IF m < i THEN m \in 1..Len(list) /\ u[m] = list[m]
                                               ELSE m - 1 \in 1..Len(list) /\ u[m] = list[m - 1]
    BY <1>3, <1>5
  <2>2. CASE j = i \/ k = i
    BY <1>3, <1>4, <1>6, <2>1, <2>2
  <2>3. CASE j # i /\ k # i
    <3>1. CASE j < i /\ k < i
      BY <1>2, <1>6, <2>1, <2>3, <3>1
    <3>2. CASE ~(j < i) /\ ~(k < i)
      <4>1. k - 1 \in 1..Len(list) /\ j - 1 \in 1..Len(list) /\ list[k - 1] = list[j - 1]
        BY <1>6, <2>1, <2>3, <3>2
      <4>2. k - 1 = j - 1
        BY <1>2, <4>1
      <4>3. QED
        BY <1>3, <1>5, <4>2
    <3>3. CASE j < i /\ ~(k < i)
      <4>1. j \in 1..Len(list) /\ k - 1 \in 1..Len(list) /\ list[j] = list[k - 1]
        BY <1>6, <2>1, <2>3, <3>3
      <4>2. j = k - 1
        BY <1>2, <4>1
      <4>3. QED
        BY <1>3, <1>5, <2>3, <3>3, <4>2
    <3>4. CASE ~(j < i) /\ k < i
      <4>1. k \in 1..Len(list) /\ j - 1 \in 1..Len(list) /\ list[k] = list[j - 1]
        BY <1>6, <2>1, <2>3, <3>4
      <4>2. k = j - 1
        BY <1>2, <4>1
      <4>3. QED
        BY <1>3, <1>5, <2>3, <3>4, <4>2
    <3>5. QED
      BY <3>1, <3>2, <3>3, <3>4
  <2>4. QED
    BY <2>2, <2>3
<1>7. \A y : Contains(u, y) <=> Contains(list, y) \/ y = x
  <2>1. ASSUME NEW y, Contains(u, y) PROVE Contains(list, y) \/ y = x
    <3>1. PICK j \in 1..Len(u) : u[j] = y
      BY <2>1 DEF Contains
    <3>2. QED
      BY <1>3, <1>5, <3>1, SMTT(60) DEF Contains
  <2>2. ASSUME NEW y, Contains(list, y) PROVE Contains(u, y)
    <3>1. PICK j \in 1..Len(list) : list[j] = y
      BY <2>2 DEF Contains
    <3>2. CASE j < i
      BY <1>3, <1>5, <3>1, <3>2 DEF Contains
    <3>3. CASE ~(j < i)
      <4>1. j + 1 \in 1..Len(u) /\ u[j + 1] = y
        BY <1>3, <1>5, <3>1, <3>3
      <4>2. QED
        BY <4>1 DEF Contains
    <3>4. QED
      BY <3>2, <3>3
  <2>3. Contains(u, x)
    BY <1>3, <1>5 DEF Contains
  <2>4. QED
    BY <2>1, <2>2, <2>3
<1>8. ToSet(u) = ToSet(list) \union {x}
  <2>1. \A y : y \in ToSet(u) <=> Contains(u, y)
    BY <1>3, InSet
  <2>2. \A y : y \in ToSet(list) <=> Contains(list, y)
    BY <1>2, InSet
  <2>3. QED
    BY <1>7, <2>1, <2>2
<1>9. u \in Unrepeated(S)
  BY <1>3, <1>6 DEF Unrepeated
<1>10. QED
  BY <1>1, <1>8, <1>9

LEMMA FirstRemovedKeeps ==
  ASSUME NEW S, NEW list \in Unrepeated(S), NEW x
  PROVE  /\ RemoveFirst(list, x) \in Unrepeated(S)
         /\ ToSet(RemoveFirst(list, x)) = ToSet(list) \ {x}
         /\ ~Contains(RemoveFirst(list, x), x)
<1>1. PICK u : u = RemoveFirst(list, x)
  OBVIOUS
<1>2. list \in Seq(S) /\ (\A j, k \in 1..Len(list) : list[j] = list[k] => j = k) /\ Len(list) \in Nat
  BY DEF Unrepeated
<1>3. (\A y : y \in ToSet(list) <=> Contains(list, y))
  BY <1>2, InSet
<1>4. CASE ~Contains(list, x)
  <2>1. u = list
    BY <1>1, <1>2, <1>4, RemovedFirst
  <2>2. QED
    BY <1>1, <1>3, <1>4, <2>1
<1>5. CASE Contains(list, x)
  <2>1. PICK i \in 1..Len(list) : i = Where(list, x) /\ list[i] = x
    BY <1>2, <1>5, WhereIs
  <2>2. u = RemoveAt(list, i)
    BY <1>1, <1>2, <1>5, <2>1, RemovedFirst
  <2>3. /\ u \in Seq(S) /\ Len(u) = Len(list) - 1
        /\ \A j \in 1..(Len(list) - 1) : u[j] = IF j < i THEN list[j] ELSE list[j + 1]
    <3>1. u \in Seq(S) /\ Len(u) = Len(list) - 1 /\ TakesOut(list, Len(list), i, u)
      BY <1>2, <2>2, RemoveAtTakesOut
    <3>2. QED
      BY <3>1 DEF TakesOut
  <2>4. \A j \in 1..Len(u) : IF j < i THEN j \in 1..Len(list) /\ u[j] = list[j]
                                      ELSE j + 1 \in 1..Len(list) /\ u[j] = list[j + 1]
    BY <1>2, <2>3
  <2>5. ASSUME NEW j \in 1..Len(u), NEW k \in 1..Len(u), u[j] = u[k] PROVE j = k
    BY <1>2, <2>3, <2>4, <2>5
  <2>6. \A y : Contains(u, y) <=> Contains(list, y) /\ y # x
    <3>1. ASSUME NEW y, Contains(u, y) PROVE Contains(list, y) /\ y # x
      <4>1. PICK j \in 1..Len(u) : u[j] = y
        BY <3>1 DEF Contains
      <4>2. CASE j < i
        BY <1>2, <2>1, <2>4, <4>1, <4>2 DEF Contains
      <4>3. CASE ~(j < i)
        <5>1. j + 1 \in 1..Len(list) /\ list[j + 1] = y /\ j + 1 # i
          BY <1>2, <2>3, <2>4, <4>1, <4>3
        <5>2. QED
          BY <1>2, <2>1, <5>1 DEF Contains
      <4>4. QED
        BY <4>2, <4>3
    <3>2. ASSUME NEW y, Contains(list, y), y # x PROVE Contains(u, y)
      <4>1. PICK j \in 1..Len(list) : list[j] = y
        BY <3>2 DEF Contains
      <4>2. CASE j < i
        <5>1. j \in 1..Len(u) /\ u[j] = y
          BY <1>2, <2>3, <4>1, <4>2
        <5>2. QED
          BY <5>1 DEF Contains
      <4>3. CASE j > i
        <5>1. j - 1 \in 1..(Len(list) - 1)
          BY <1>2, <2>1, <4>1, <4>3
        <5>2. ~(j - 1 < i) /\ (j - 1) + 1 = j
          BY <1>2, <2>1, <4>1, <4>3
        <5>3. u[j - 1] = y
          BY <2>3, <4>1, <5>1, <5>2
        <5>4. QED
          BY <2>3, <5>1, <5>3 DEF Contains
      <4>4. j # i
        BY <2>1, <3>2, <4>1
      <4>5. QED
        BY <1>2, <4>2, <4>3, <4>4
    <3>3. QED
      BY <3>1, <3>2
  <2>7. \A y : y \in ToSet(u) <=> Contains(u, y)
    BY <2>3, InSet
  <2>8. u \in Unrepeated(S)
    BY <2>3, <2>5 DEF Unrepeated
  <2>9. QED
    BY <1>1, <1>3, <2>6, <2>7, <2>8
<1>6. QED
  BY <1>4, <1>5

LEMMA RemoveInserted ==
  ASSUME NEW S, NEW list \in Unrepeated(S), NEW x \in S, ~Contains(list, x), NEW i \in 1..(Len(list) + 1)
  PROVE  RemoveFirst(InsertAt(list, i, x), x) = list
<1>1. PICK u : u = InsertAt(list, i, x)
  OBVIOUS
<1>2. list \in Seq(S) /\ Len(list) \in Nat
  BY DEF Unrepeated
<1>3. /\ u \in Seq(S) /\ Len(u) = Len(list) + 1
      /\ \A j \in 1..(Len(list) + 1) : u[j] = IF j < i THEN list[j] ELSE IF j = i THEN x ELSE list[j - 1]
  <2>1. u \in Seq(S) /\ Len(u) = Len(list) + 1 /\ PutsIn(list, Len(list), i, x, u)
    BY <1>1, <1>2, InsertAtPutsIn
  <2>2. QED
    BY <2>1 DEF PutsIn
<1>4. u \in Unrepeated(S)
  BY <1>1, InsertedKeeps
<1>5. i \in 1..Len(u) /\ u[i] = x
  BY <1>2, <1>3
<1>6. Where(u, x) = i
  BY <1>4, <1>5, WhereOnly
<1>7. Contains(u, x)
  BY <1>5 DEF Contains
<1>8. PICK w : w = RemoveFirst(u, x)
  OBVIOUS
<1>9. w = RemoveAt(u, i)
  BY <1>3, <1>6, <1>7, <1>8, RemovedFirst
<1>10. /\ w \in Seq(S) /\ Len(w) = Len(u) - 1
       /\ \A j \in 1..(Len(u) - 1) : w[j] = IF j < i THEN u[j] ELSE u[j + 1]
  <2>1. w \in Seq(S) /\ Len(w) = Len(u) - 1 /\ TakesOut(u, Len(u), i, w)
    BY <1>3, <1>5, <1>9, RemoveAtTakesOut
  <2>2. QED
    BY <2>1 DEF TakesOut
<1>11. Len(w) = Len(list) /\ \A j \in 1..Len(w) : w[j] = list[j]
  <2>1. Len(w) = Len(list)
    BY <1>2, <1>3, <1>10
  <2>2. ASSUME NEW j \in 1..Len(w) PROVE w[j] = list[j]
    <3>1. CASE j < i
      BY <1>2, <1>3, <1>10, <2>1, <3>1
    <3>2. CASE ~(j < i)
      <4>1. j + 1 \in 1..(Len(list) + 1) /\ ~(j + 1 < i) /\ j + 1 # i /\ (j + 1) - 1 = j /\ j \in 1..(Len(u) - 1)
        BY <1>2, <1>3, <2>1, <3>2
      <4>2. w[j] = u[j + 1]
        BY <1>10, <3>2, <4>1
      <4>3. u[j + 1] = list[(j + 1) - 1]
        BY <1>3, <4>1
      <4>4. QED
        BY <4>1, <4>2, <4>3
    <3>3. QED
      BY <3>1, <3>2
  <2>3. QED
    BY <2>1, <2>2
<1>12. QED
  BY <1>1, <1>2, <1>8, <1>10, <1>11, SameList

LEMMA InsertedLast ==
  ASSUME NEW S, NEW list \in Seq(S), NEW x \in S
  PROVE  InsertAt(list, Len(list) + 1, x) = Append(list, x)
<1>1. PICK u : u = InsertAt(list, Len(list) + 1, x)
  OBVIOUS
<1>2. PICK w : w = Append(list, x)
  OBVIOUS
<1>3. Len(list) \in Nat
  OBVIOUS
<1>4. /\ u \in Seq(S) /\ Len(u) = Len(list) + 1
      /\ \A j \in 1..(Len(list) + 1) :
            u[j] = IF j < Len(list) + 1 THEN list[j] ELSE IF j = Len(list) + 1 THEN x ELSE list[j - 1]
  <2>1. u \in Seq(S) /\ Len(u) = Len(list) + 1 /\ PutsIn(list, Len(list), Len(list) + 1, x, u)
    BY <1>1, <1>3, InsertAtPutsIn
  <2>2. QED
    BY <2>1 DEF PutsIn
<1>5. /\ w \in Seq(S) /\ Len(w) = Len(list) + 1
      /\ \A j \in 1..(Len(list) + 1) : w[j] = IF j < Len(list) + 1 THEN list[j] ELSE x
  BY <1>2, <1>3
<1>6. \A j \in 1..Len(u) : u[j] = w[j]
  BY <1>3, <1>4, <1>5
<1>7. QED
  BY <1>1, <1>2, <1>4, <1>5, <1>6, SameList

-----------------------------------------------------------------------------
(* The table of rows.                                                      *)

TableKinds == {"none", "rows", "checks", "actions"}
TableForms == {"none", "add", "inUse"}
SomeRow == Row \union {Table}
TableViews ==
    [html : [Place -> Content], saved : [Place -> Content \union {"none"}], top : BOOLEAN,
     form : Row \union TableForms, formShown : BOOLEAN, inUse : SomeRow, warning : SomeRow,
     rows : Seq(Row), checked : SUBSET Row, rendered : SUBSET Row, disabled : SUBSET Row]

\* What an answer may change, by what was asked.
OfRow(what, r) == [what |-> what, row |-> r]
FormFor(f, r) == [what |-> "changeRowForm", form |-> f, inUse |-> r]
Unchanging == [what |-> "none"]
IsPage(c) == \E rs \in Seq(Row), cs \in SUBSET Row : c = [what |-> "reload", rows |-> rs, checks |-> cs]
IsAdded(c) == \E r, after \in Row : c = [what |-> "added", row |-> r, after |-> after]

ChangeFits(q, c) ==
    \/ q.op \in {"changeList", "custom", "add", "del"} /\ IsPage(c)
    \/ q.op = "add" /\ IsAdded(c)
    \/ q.op = "edit" /\ c = OfRow("changed", q.row)
    \/ q.op = "del" /\ c = OfRow("removed", q.row)
    \/ q.op = "del" /\ ~q.force /\ c = FormFor("inUse", q.row)
    \/ q.op \in {"edit", "editBoolean"} /\ ~q.force /\ c = OfRow("dataInUseForm", q.row)
    \/ q.op \in {"changeAdd", "changeClone"} /\ c = FormFor("add", Table)
    \/ q.op = "changeEdit" /\ c = FormFor(q.row, Table)
    \/ q.op \in {"editBoolean", "checkAll", "setPosition"} /\ c = Unchanging

OpsOf(kind) ==
    CASE kind = "rows" -> {"add", "edit", "del", "changeAdd", "changeEdit", "changeClone", "changeList", "setPosition"}
      [] kind = "checks" -> {"changeList", "editBoolean", "checkAll"}
      [] kind = "actions" -> {"changeList", "custom"}
      [] kind = "none" -> {}

TableExtras == [rows : SUBSET Row, prev : SomeRow, next : SomeRow]

\* A request, and what is known of it and of its answer.
IsRequest(q) ==
    /\ q = [id |-> q.id, op |-> q.op, row |-> q.row, force |-> q.force, extra |-> q.extra, answer |-> q.answer]
    /\ q.id \in Nat /\ q.row \in SomeRow /\ q.force \in BOOLEAN /\ q.extra \in TableExtras

AskedFits(kind, q) ==
    /\ kind \in TableKinds /\ q.op \in OpsOf(kind)
    /\ q.op \notin {"add", "changeList", "checkAll"} => q.row \in Row
    /\ q.op = "setPosition" => /\ q.extra.prev # Table \/ q.extra.next # Table
                               /\ q.extra.prev # q.row /\ q.extra.next # q.row
    /\ q.op = "editBoolean" => q.extra.rows \subseteq {q.row}

AnswerFits(q, ls) ==
    /\ q.answer.res \in {"none", "ok", "refused", "failed"}
    /\ q.answer.res \in {"refused", "failed"} => <<q.op, q.force, q.answer.res>> \in ls
    /\ q.answer.res = "refused" => q.op \notin {"changeList", "custom"}
    /\ q.answer.res = "ok" => /\ ChangeFits(q, q.answer.change)
                              /\ q.answer.change.what = "dataInUseForm" => <<q.op, FALSE, "questioned">> \in ls

RequestFits(kind, q, ls) == IsRequest(q) /\ AskedFits(kind, q) /\ AnswerFits(q, ls)

-----------------------------------------------------------------------------
(* What the helpers make of the page.                                      *)

PlacesApart ==
    /\ Buttons \in Place /\ CreatingForm \in Place /\ Pager \in Place
    /\ \A r \in Row : Actions(r) \in Place /\ Check(r) \in Place /\ Custom(r) \in Place
    /\ Buttons # CreatingForm /\ Buttons # Pager /\ CreatingForm # Pager
    /\ \A r : /\ Actions(r) \notin {Buttons, CreatingForm, Pager}
              /\ Check(r) \notin {Buttons, CreatingForm, Pager}
              /\ Custom(r) \notin {Buttons, CreatingForm, Pager}
    /\ \A r, s : /\ Actions(r) = Actions(s) => r = s
                 /\ Check(r) = Check(s) => r = s
                 /\ Custom(r) = Custom(s) => r = s
                 /\ Actions(r) # Check(s) /\ Actions(r) # Custom(s) /\ Check(r) # Custom(s)

LEMMA PlacesDiffer == PlacesApart
  BY DEF PlacesApart, Place, Buttons, CreatingForm, Pager, Actions, Check, Custom

LEMMA PlacePresent ==
  ASSUME NEW v \in TableViews
  PROVE  /\ Present(v, Buttons) /\ Present(v, CreatingForm) /\ Present(v, Pager)
         /\ \A r \in Row : (Present(v, Actions(r)) <=> r \in ToSet(v.rows))
                           /\ (Present(v, Check(r)) <=> r \in ToSet(v.rows))
                           /\ (Present(v, Custom(r)) <=> r \in ToSet(v.rows))
  BY TableAssumption DEF Present, Buttons, CreatingForm, Pager, Actions, Check, Custom

SameWay(u, v) == u.top = v.top /\ u.form = v.form /\ u.formShown = v.formShown
SameAsked(u, v) == u.inUse = v.inUse /\ u.warning = v.warning
SameRows(u, v) == u.rows = v.rows /\ u.checked = v.checked /\ u.rendered = v.rendered /\ u.disabled = v.disabled

HtmlIs(u, v, P, content) == \A p \in Place : u.html[p] = IF p \in P THEN content ELSE v.html[p]

LEMMA SetLoadingIs ==
  ASSUME NEW v \in TableViews, NEW P \in SUBSET Place, NEW keep \in BOOLEAN
  PROVE  LET u == SetLoading(v, P, keep)
         IN  /\ u \in TableViews /\ SameWay(u, v) /\ SameAsked(u, v) /\ SameRows(u, v)
             /\ HtmlIs(u, v, P, "loading")
             /\ \A p \in Place : u.saved[p] = IF p \in P /\ keep
                                                THEN IF v.html[p] = "sending" THEN "hidden" ELSE v.html[p]
                                                ELSE v.saved[p]
<1> DEFINE html == [p \in Place |-> IF p \in P THEN "loading" ELSE v.html[p]]
           saved == [p \in Place |-> IF p \in P /\ keep
                                       THEN IF v.html[p] = "sending" THEN "hidden" ELSE v.html[p]
                                       ELSE v.saved[p]]
           u == SetLoading(v, P, keep)
<1>1. u = [v EXCEPT !.html = html, !.saved = saved]
  BY DEF SetLoading
<1>2. html \in [Place -> Content] /\ saved \in [Place -> Content \union {"none"}]
  BY DEF TableViews, Content
<1>3. (\A p \in Place : html[p] = IF p \in P THEN "loading" ELSE v.html[p])
      /\ (\A p \in Place : saved[p] = IF p \in P /\ keep
                                                THEN IF v.html[p] = "sending" THEN "hidden" ELSE v.html[p]
                                                ELSE v.saved[p])
  OBVIOUS
<1> HIDE DEF html, saved
<1>4. u \in TableViews /\ SameWay(u, v) /\ SameAsked(u, v) /\ SameRows(u, v) /\ u.html = html /\ u.saved = saved
  BY <1>1, <1>2 DEF TableViews, SameWay, SameAsked, SameRows
<1> HIDE DEF u
<1>5. QED
  BY <1>3, <1>4 DEF HtmlIs, u

BackIn(v, p, keep) ==
    IF v.saved[p] # "none" THEN v.saved[p] ELSE IF keep THEN v.html[p] ELSE "blank"

LEMMA RestoreHiddenIs ==
  ASSUME NEW v \in TableViews, NEW P \in SUBSET Place, NEW keep \in BOOLEAN
  PROVE  LET u == RestoreHidden(v, P, keep)
         IN  /\ u \in TableViews /\ SameWay(u, v) /\ SameAsked(u, v) /\ SameRows(u, v)
             /\ \A p \in Place : u.html[p] = IF p \in P /\ Present(v, p) THEN BackIn(v, p, keep) ELSE v.html[p]
             /\ \A p \in Place : u.saved[p] = IF p \in P THEN "none" ELSE v.saved[p]
<1> DEFINE html == [p \in Place |-> IF p \in P /\ Present(v, p) THEN BackIn(v, p, keep) ELSE v.html[p]]
           saved == [p \in Place |-> IF p \in P THEN "none" ELSE v.saved[p]]
           u == RestoreHidden(v, P, keep)
<1>1. u = [v EXCEPT !.html = html, !.saved = saved]
  BY DEF RestoreHidden, BackIn
<1>2. html \in [Place -> Content] /\ saved \in [Place -> Content \union {"none"}]
  BY DEF TableViews, Content, BackIn
<1>3. (\A p \in Place : html[p] = IF p \in P /\ Present(v, p) THEN BackIn(v, p, keep) ELSE v.html[p])
      /\ (\A p \in Place : saved[p] = IF p \in P THEN "none" ELSE v.saved[p])
  OBVIOUS
<1> HIDE DEF html, saved
<1>4. u \in TableViews /\ SameWay(u, v) /\ SameAsked(u, v) /\ SameRows(u, v) /\ u.html = html /\ u.saved = saved
  BY <1>1, <1>2 DEF TableViews, SameWay, SameAsked, SameRows
<1> HIDE DEF u
<1>5. QED
  BY <1>3, <1>4 DEF u

LEMMA RestoreTopIs ==
  ASSUME NEW v \in TableViews
  PROVE  LET u == RestoreTop(v)
         IN  /\ u \in TableViews /\ SameAsked(u, v) /\ SameRows(u, v) /\ u.saved = v.saved
             /\ u.top /\ ~u.formShown /\ u.form = v.form
             /\ HtmlIs(u, v, {CreatingForm}, "own")
<1> DEFINE html == [v.html EXCEPT ![CreatingForm] = "own"]
           u == RestoreTop(v)
<1>1. u = [v EXCEPT !.top = TRUE, !.formShown = FALSE, !.html = html]
  BY DEF RestoreTop
<1>2. html \in [Place -> Content] /\ \A p \in Place : html[p] = IF p \in {CreatingForm} THEN "own" ELSE v.html[p]
  BY DEF TableViews, Content
<1> HIDE DEF html
<1>3. /\ u \in TableViews /\ SameAsked(u, v) /\ SameRows(u, v) /\ u.html = html /\ u.saved = v.saved
      /\ u.top /\ ~u.formShown /\ u.form = v.form
  BY <1>1, <1>2, ZenonT(60) DEF TableViews, SameAsked, SameRows
<1> HIDE DEF u
<1>4. QED
  BY <1>2, <1>3 DEF HtmlIs, u

LEMMA RemoveWarningsIs ==
  ASSUME NEW v \in TableViews
  PROVE  LET u == RemoveWarnings(v)
         IN  /\ u \in TableViews /\ SameRows(u, v) /\ u.html = v.html /\ u.saved = v.saved
             /\ u.top = v.top /\ u.formShown = v.formShown
             /\ u.warning = Table
             /\ v.warning # Table => u.inUse = v.inUse /\ u.form = v.form
             /\ v.warning = Table => u.inUse = Table /\ u.form = IF v.inUse # Table THEN "none" ELSE v.form
<1> DEFINE u == RemoveWarnings(v)
<1>1. Table \in SomeRow /\ "none" \in Row \union TableForms
  BY DEF SomeRow, TableForms
<1>2. CASE v.warning # Table
  <2>1. u = [v EXCEPT !.warning = Table]
    BY <1>2 DEF RemoveWarnings
  <2>2. QED
    BY <1>1, <1>2, <2>1 DEF TableViews, SameRows
<1>3. CASE v.warning = Table
  <2> DEFINE form == IF v.inUse # Table THEN "none" ELSE v.form
  <2>1. u = [v EXCEPT !.inUse = Table, !.form = form]
    BY <1>3 DEF RemoveWarnings
  <2>2. form \in Row \union TableForms
    BY <1>1 DEF TableViews
  <2> HIDE DEF form
  <2>3. /\ u \in TableViews /\ SameRows(u, v) /\ u.html = v.html /\ u.saved = v.saved
        /\ u.top = v.top /\ u.formShown = v.formShown /\ u.warning = v.warning /\ u.inUse = Table /\ u.form = form
    BY <1>1, <2>1, <2>2 DEF TableViews, SameRows
  <2> HIDE DEF u
  <2>4. QED
    BY <1>3, <2>3 DEF form, u
<1>4. QED
  BY <1>2, <1>3

\* The document after a new rendering.
LEMMA RenderedIs ==
  ASSUME NEW v \in TableViews, NEW rs \in Seq(Row), NEW cs \in SUBSET Row
  PROVE  LET u == Rendered(v, rs, cs)
         IN  /\ u \in TableViews /\ u.saved = v.saved /\ \A p \in Place : u.html[p] = "own"
             /\ u.top /\ ~u.formShown /\ u.form = "none" /\ u.inUse = Table /\ u.warning = Table
             /\ u.rows = rs /\ u.checked = cs /\ u.rendered = cs /\ u.disabled = {}
<1> DEFINE html == [p \in Place |-> "own"]
           u == Rendered(v, rs, cs)
<1>1. u = [v EXCEPT !.html = html, !.top = TRUE, !.form = "none", !.formShown = FALSE, !.inUse = Table,
                    !.warning = Table, !.rows = rs, !.checked = cs, !.rendered = cs, !.disabled = {}]
  BY DEF Rendered
<1>2. html \in [Place -> Content] /\ \A p \in Place : html[p] = "own"
  BY DEF Content
<1>3. Table \in SomeRow /\ "none" \in Row \union TableForms
  BY DEF SomeRow, TableForms
<1> HIDE DEF html
<1> DEFINE w == [html |-> html, saved |-> v.saved, top |-> TRUE, form |-> "none", formShown |-> FALSE,
                 inUse |-> Table, warning |-> Table, rows |-> rs, checked |-> cs, rendered |-> cs, disabled |-> {}]
<1>4. /\ u \in TableViews /\ u.saved = v.saved /\ u.html = html
      /\ u.top /\ ~u.formShown /\ u.form = "none" /\ u.inUse = Table /\ u.warning = Table
      /\ u.rows = rs /\ u.checked = cs /\ u.rendered = cs /\ u.disabled = {}
  <2>1. u = w
    <3> HIDE DEF u
    <3>1. v = [html |-> v.html, saved |-> v.saved, top |-> v.top, form |-> v.form, formShown |-> v.formShown,
               inUse |-> v.inUse, warning |-> v.warning, rows |-> v.rows, checked |-> v.checked,
               rendered |-> v.rendered, disabled |-> v.disabled]
      BY DEF TableViews
    <3>2. QED
      BY <1>1, <3>1
  <2>2. w \in TableViews
    <3>1. v.saved \in [Place -> Content \union {"none"}]
      BY DEF TableViews
    <3>2. QED
      BY <1>2, <1>3, <3>1 DEF TableViews
  <2>3. /\ w.saved = v.saved /\ w.html = html
        /\ w.top /\ ~w.formShown /\ w.form = "none" /\ w.inUse = Table /\ w.warning = Table
        /\ w.rows = rs /\ w.checked = cs /\ w.rendered = cs /\ w.disabled = {}
    OBVIOUS
  <2> HIDE DEF w, u
  <2>4. QED
    BY <2>1, <2>2, <2>3
<1> HIDE DEF u
<1>5. QED
  BY <1>2, <1>4 DEF u

LEMMA ReloadIs ==
  ASSUME NEW v, NEW rs, NEW cs, NEW c, c = [what |-> "reload", rows |-> rs, checks |-> cs]
  PROVE  UpdateTable(v, c) = Rendered(v, rs, cs)
  BY DEF UpdateTable

LEMMA FormMade ==
  ASSUME NEW v \in TableViews, NEW f \in Row \union TableForms, NEW r \in SomeRow
  PROVE  LET u == UpdateTable(v, FormFor(f, r))
         IN  /\ u \in TableViews /\ SameRows(u, v) /\ u.saved = v.saved /\ u.warning = v.warning
             /\ ~u.top /\ u.form = f /\ u.inUse = r /\ u.formShown
             /\ HtmlIs(u, v, {Buttons}, "own")
<1> DEFINE html == [v.html EXCEPT ![Buttons] = "own"]
           u == UpdateTable(v, FormFor(f, r))
<1>1. u = [v EXCEPT !.top = FALSE, !.form = f, !.inUse = r, !.formShown = TRUE, !.html = html]
  BY DEF UpdateTable, FormFor
<1>2. html \in [Place -> Content] /\ \A p \in Place : html[p] = IF p \in {Buttons} THEN "own" ELSE v.html[p]
  BY DEF TableViews, Content
<1> HIDE DEF html
<1> HIDE DEF u
<1>3. u \in TableViews
  BY <1>1, <1>2 DEF TableViews
<1>4. u.saved = v.saved /\ u.warning = v.warning /\ SameRows(u, v)
  BY <1>1 DEF TableViews, SameRows
<1>5. ~u.top /\ u.form = f /\ u.inUse = r /\ u.formShown /\ u.html = html
  BY <1>1 DEF TableViews
<1>6. QED
  BY <1>2, <1>3, <1>4, <1>5 DEF HtmlIs, u

LEMMA QuestionIs ==
  ASSUME NEW v \in TableViews, NEW r \in Row
  PROVE  LET u == UpdateTable(v, OfRow("dataInUseForm", r))
             w == RemoveWarnings(v)
         IN  /\ u \in TableViews /\ SameRows(u, v) /\ u.html = v.html /\ u.saved = v.saved
             /\ ~u.top /\ ~u.formShown /\ u.warning = r /\ u.form = w.form /\ u.inUse = w.inUse
<1> DEFINE w == RemoveWarnings(v)
           u == UpdateTable(v, OfRow("dataInUseForm", r))
<1>1. u = [w EXCEPT !.warning = r, !.top = FALSE, !.formShown = FALSE]
  BY DEF UpdateTable, OfRow
<1>2. w \in TableViews /\ SameRows(w, v) /\ w.html = v.html /\ w.saved = v.saved
  BY RemoveWarningsIs
<1>3. r \in SomeRow
  BY DEF SomeRow
<1> HIDE DEF w
<1>4. /\ u \in TableViews /\ SameRows(u, w) /\ u.html = w.html /\ u.saved = w.saved
      /\ ~u.top /\ ~u.formShown /\ u.warning = r /\ u.form = w.form /\ u.inUse = w.inUse
  BY <1>1, <1>2, <1>3 DEF TableViews, SameRows
<1> HIDE DEF u
<1>5. QED
  BY <1>2, <1>4 DEF SameRows, u, w

\* The rows change, the cell of a row is given back and the top is shown.
RowDone(u, v, r, rs) ==
    /\ u \in TableViews /\ SameAsked(u, v) /\ u.top /\ ~u.formShown /\ u.form = v.form
    /\ u.rows = rs /\ u.checked = v.checked /\ u.rendered = v.rendered /\ u.disabled = v.disabled
    /\ HtmlIs(u, v, {CreatingForm, Actions(r)}, "own")

RowRedrawn(w, v, r, rs) ==
    /\ w \in TableViews /\ SameAsked(w, v) /\ w.form = v.form
    /\ w.rows = rs /\ w.checked = v.checked /\ w.rendered = v.rendered /\ w.disabled = v.disabled
    /\ HtmlIs(w, v, {Actions(r)}, "own")

LEMMA RowIsDone ==
  ASSUME NEW v, NEW r, NEW rs, NEW w, RowRedrawn(w, v, r, rs)
  PROVE  RowDone(RestoreTop(w), v, r, rs) /\ RestoreTop(w).saved = w.saved
<1>1. PICK u : u = RestoreTop(w)
  OBVIOUS
<1>2. w \in TableViews
  BY DEF RowRedrawn
<1>3. /\ u \in TableViews /\ SameAsked(u, w) /\ SameRows(u, w) /\ u.saved = w.saved
      /\ u.top /\ ~u.formShown /\ u.form = w.form
      /\ HtmlIs(u, w, {CreatingForm}, "own")
  BY <1>1, <1>2, RestoreTopIs
<1>4. HtmlIs(u, v, {CreatingForm, Actions(r)}, "own")
  BY <1>3 DEF HtmlIs, RowRedrawn
<1>5. QED
  BY <1>1, <1>3, <1>4 DEF RowDone, RowRedrawn, SameAsked, SameRows

LEMMA ChangedIs ==
  ASSUME NEW v \in TableViews, NEW r \in Row
  PROVE  LET u == UpdateTable(v, OfRow("changed", r)) IN RowDone(u, v, r, v.rows) /\ u.saved = v.saved
<1> DEFINE html == [v.html EXCEPT ![Actions(r)] = "own"]
           w == [v EXCEPT !.rows = v.rows, !.html = html, !.saved = v.saved]
           u == UpdateTable(v, OfRow("changed", r))
<1>1. u = RestoreTop([v EXCEPT !.html = html])
  BY DEF UpdateTable, OfRow
<1>2. /\ v.rows \in Seq(Row) /\ v.saved \in [Place -> Content \union {"none"}]
      /\ w = [v EXCEPT !.html = html]
  <2> HIDE DEF html
  <2>1. QED
    BY DEF TableViews
<1>3. html = [v.html EXCEPT ![Actions(r)] = "own"]
  OBVIOUS
<1> HIDE DEF html
<1>6. w = [v EXCEPT !.rows = v.rows, !.html = html, !.saved = v.saved]
  OBVIOUS
<1> HIDE DEF w
<1>7. html \in [Place -> Content] /\ HtmlIs(w, v, {Actions(r)}, "own") /\ w.html = html
  <2>1. html \in [Place -> Content] /\ \A p \in Place : html[p] = IF p \in {Actions(r)} THEN "own" ELSE v.html[p]
    BY <1>3 DEF TableViews, Content
  <2>2. w.html = html
    BY <1>6 DEF TableViews
  <2>3. QED
    BY <2>1, <2>2 DEF HtmlIs
<1>8. RowRedrawn(w, v, r, v.rows) /\ w.saved = v.saved
  BY <1>2, <1>6, <1>7 DEF RowRedrawn, TableViews, SameAsked
<1>4. RowDone(RestoreTop(w), v, r, v.rows) /\ RestoreTop(w).saved = v.saved
  BY <1>8, RowIsDone
<1>5. QED
  BY <1>1, <1>2, <1>4, <1>6

LEMMA RemovedIs ==
  ASSUME NEW v \in TableViews, NEW r \in Row
  PROVE  LET u == UpdateTable(v, OfRow("removed", r))
         IN  /\ RowDone(u, v, r, RemoveFirst(v.rows, r))
             /\ \A p \in Place : u.saved[p] = IF p = Actions(r) THEN "none" ELSE v.saved[p]
<1> DEFINE html == [v.html EXCEPT ![Actions(r)] = "own"]
           saved == [v.saved EXCEPT ![Actions(r)] = "none"]
           rs == RemoveFirst(v.rows, r)
           w == [v EXCEPT !.rows = rs, !.html = html, !.saved = saved]
           u == UpdateTable(v, OfRow("removed", r))
<1>1. u = RestoreTop(w)
  BY DEF UpdateTable, OfRow
<1>2. /\ rs \in Seq(Row) /\ saved \in [Place -> Content \union {"none"}]
      /\ \A p \in Place : saved[p] = IF p = Actions(r) THEN "none" ELSE v.saved[p]
  <2>1. v.rows \in Seq(Row) /\ v.saved \in [Place -> Content \union {"none"}]
    BY DEF TableViews
  <2>2. rs \in Seq(Row)
    BY <2>1, RemovedFirst
  <2> HIDE DEF rs
  <2>3. QED
    BY <2>1, <2>2
<1>3. html = [v.html EXCEPT ![Actions(r)] = "own"]
  OBVIOUS
<1> HIDE DEF html, saved, rs
<1>6. w = [v EXCEPT !.rows = rs, !.html = html, !.saved = saved]
  OBVIOUS
<1> HIDE DEF w
<1>7. html \in [Place -> Content] /\ HtmlIs(w, v, {Actions(r)}, "own") /\ w.html = html
  <2>1. html \in [Place -> Content] /\ \A p \in Place : html[p] = IF p \in {Actions(r)} THEN "own" ELSE v.html[p]
    BY <1>3 DEF TableViews, Content
  <2>2. w.html = html
    BY <1>6 DEF TableViews
  <2>3. QED
    BY <2>1, <2>2 DEF HtmlIs
<1>8. RowRedrawn(w, v, r, rs) /\ w.saved = saved
  BY <1>2, <1>6, <1>7 DEF RowRedrawn, TableViews, SameAsked
<1>4. RowDone(RestoreTop(w), v, r, rs) /\ RestoreTop(w).saved = saved
  BY <1>8, RowIsDone
<1>5. QED
  BY <1>1, <1>2, <1>4 DEF rs

\* Where a row is added.
AddedTo(list, r, after) ==
    IF after = Table THEN <<r>> \o list
    ELSE IF Where(list, after) = 0 THEN list ELSE InsertAt(list, Where(list, after) + 1, r)

LEMMA AddedIs ==
  ASSUME NEW v \in TableViews, NEW r \in Row, NEW after \in Row, NEW c,
         c = [what |-> "added", row |-> r, after |-> after]
  PROVE  LET u == UpdateTable(v, c) IN RowDone(u, v, r, AddedTo(v.rows, r, after)) /\ u.saved = v.saved
<1> DEFINE html == [v.html EXCEPT ![Actions(r)] = "own"]
           rs == AddedTo(v.rows, r, after)
           w == [v EXCEPT !.rows = rs, !.html = html, !.saved = v.saved]
           u == UpdateTable(v, c)
<1>1. u = RestoreTop([v EXCEPT !.rows = rs, !.html = html])
  BY DEF UpdateTable, AddedTo, Where
<1>2. v.rows \in Seq(Row) /\ v.saved \in [Place -> Content \union {"none"}]
  BY DEF TableViews
<1>9. rs \in Seq(Row)
  <2>1. after # Table
    BY TableAssumption
  <2>2. PICK k : k = Where(v.rows, after)
    OBVIOUS
  <2>3. k \in 0..Len(v.rows)
    BY <1>2, <2>2, WhereIs
  <2>4. k # 0 => k + 1 \in 1..(Len(v.rows) + 1)
    BY <1>2, <2>3
  <2>5. k # 0 => InsertAt(v.rows, k + 1, r) \in Seq(Row)
    BY <1>2, <2>4, InsertAtPutsIn
  <2>6. QED
    BY <1>2, <2>1, <2>2, <2>5 DEF AddedTo
<1>3. html = [v.html EXCEPT ![Actions(r)] = "own"]
  OBVIOUS
<1> HIDE DEF html, rs
<1>5. w = [v EXCEPT !.rows = rs, !.html = html]
  BY DEF TableViews
<1>6. w = [v EXCEPT !.rows = rs, !.html = html, !.saved = v.saved]
  OBVIOUS
<1> HIDE DEF w
<1>7. html \in [Place -> Content] /\ HtmlIs(w, v, {Actions(r)}, "own") /\ w.html = html
  <2>1. html \in [Place -> Content] /\ \A p \in Place : html[p] = IF p \in {Actions(r)} THEN "own" ELSE v.html[p]
    BY <1>3 DEF TableViews, Content
  <2>2. w.html = html
    BY <1>6 DEF TableViews
  <2>3. QED
    BY <2>1, <2>2 DEF HtmlIs
<1>8. RowRedrawn(w, v, r, rs) /\ w.saved = v.saved
  BY <1>2, <1>6, <1>7, <1>9 DEF RowRedrawn, TableViews, SameAsked
<1>4. RowDone(RestoreTop(w), v, r, rs) /\ RestoreTop(w).saved = v.saved
  BY <1>8, RowIsDone
<1>10. QED
  BY <1>1, <1>4, <1>5 DEF rs

-----------------------------------------------------------------------------
(* What an answer makes of the page, by what was asked.                    *)

\* The operations whose answer is applied to the table.
Updating == {"add", "edit", "del", "changeAdd", "changeEdit", "changeClone", "changeList", "custom"}

\* The rows an answer makes of those that are shown.
RowsMade(rs, c) ==
    CASE c.what = "reload" -> c.rows
      [] c.what = "removed" -> RemoveFirst(rs, c.row)
      [] c.what = "added" -> AddedTo(rs, c.row, c.after)
      [] OTHER -> rs
RowsAfter(rs, a) == IF a.res = "ok" THEN RowsMade(rs, a.change) ELSE rs

\* Outside of tables of rows there are no forms and no cells of actions.
OtherKind(kind, v) ==
    kind # "rows" => /\ ~v.formShown /\ v.inUse = Table
                     /\ \A r \in Row : v.saved[Actions(r)] = "none"

LEMMA UpdateIs ==
  ASSUME NEW v \in TableViews, NEW kind, NEW q, IsRequest(q), AskedFits(kind, q), NEW c, ChangeFits(q, c),
         q.op \in Updating, OtherKind(kind, v)
  PROVE  LET u == UpdateTable(v, c)
         IN  u \in TableViews /\ OtherKind(kind, u) /\ u.rows = RowsMade(v.rows, c)
<1> DEFINE u == UpdateTable(v, c)
<1> USE DEF Updating
<1>1. CASE IsPage(c)
  <2>1. PICK rs \in Seq(Row), cs \in SUBSET Row : c = [what |-> "reload", rows |-> rs, checks |-> cs]
    BY <1>1 DEF IsPage
  <2>2. u = Rendered(v, rs, cs)
    BY <2>1, ReloadIs
  <2>3. /\ u \in TableViews /\ u.saved = v.saved /\ ~u.formShown /\ u.inUse = Table
        /\ u.rows = rs
    BY <2>2, RenderedIs
  <2> HIDE DEF u
  <2>4. RowsMade(v.rows, c) = rs
    BY <2>1 DEF RowsMade
  <2>5. QED
    BY <2>3, <2>4 DEF OtherKind, u
<1>2. CASE q.op = "add" /\ IsAdded(c)
  <2>1. PICK r \in Row, after \in Row : c = [what |-> "added", row |-> r, after |-> after]
    BY <1>2 DEF IsAdded
  <2>2. RowDone(u, v, r, AddedTo(v.rows, r, after)) /\ u.saved = v.saved
    BY <2>1, AddedIs
  <2> HIDE DEF u
  <2>3. RowsMade(v.rows, c) = AddedTo(v.rows, r, after)
    BY <2>1 DEF RowsMade
  <2>4. QED
    BY <2>2, <2>3 DEF OtherKind, RowDone, SameAsked, u
<1>3. CASE q.op = "edit" /\ c = OfRow("changed", q.row)
  <2>1. q.row \in Row
    BY <1>3 DEF AskedFits
  <2>2. RowDone(u, v, q.row, v.rows) /\ u.saved = v.saved
    BY <1>3, <2>1, ChangedIs
  <2> HIDE DEF u
  <2>3. RowsMade(v.rows, c) = v.rows
    BY <1>3 DEF RowsMade, OfRow
  <2>4. QED
    BY <2>2, <2>3 DEF OtherKind, RowDone, SameAsked, u
<1>4. CASE q.op = "del" /\ c = OfRow("removed", q.row)
  <2>1. q.row \in Row
    BY <1>4 DEF AskedFits
  <2>2. /\ RowDone(u, v, q.row, RemoveFirst(v.rows, q.row))
        /\ \A p \in Place : u.saved[p] = IF p = Actions(q.row) THEN "none" ELSE v.saved[p]
    BY <1>4, <2>1, RemovedIs
  <2> HIDE DEF u
  <2>3. RowsMade(v.rows, c) = RemoveFirst(v.rows, q.row)
    BY <1>4 DEF RowsMade, OfRow
  <2>4. \A r \in Row : Actions(r) \in Place
    BY PlacesDiffer DEF PlacesApart
  <2>5. QED
    BY <2>2, <2>3, <2>4 DEF OtherKind, RowDone, SameAsked, u
<1>5. CASE q.op \in {"edit", "editBoolean"} /\ c = OfRow("dataInUseForm", q.row)
  <2>1. q.row \in Row
    BY <1>5 DEF AskedFits
  <2>2. /\ u \in TableViews /\ SameRows(u, v) /\ u.saved = v.saved
        /\ ~u.formShown /\ u.inUse \in {v.inUse, Table}
    BY <1>5, <2>1, QuestionIs, RemoveWarningsIs
  <2> HIDE DEF u
  <2>3. RowsMade(v.rows, c) = v.rows
    BY <1>5 DEF RowsMade, OfRow
  <2>4. QED
    BY <2>2, <2>3 DEF OtherKind, SameRows, u
<1>6. ASSUME NEW f \in Row \union TableForms, NEW r \in SomeRow, c = FormFor(f, r), q.op \in {"del", "changeAdd", "changeEdit", "changeClone"}
      PROVE  u \in TableViews /\ OtherKind(kind, u) /\ u.rows = RowsMade(v.rows, c)
  <2>1. u \in TableViews /\ SameRows(u, v)
    BY <1>6, FormMade
  <2>2. kind = "rows"
    BY <1>6 DEF AskedFits, OpsOf, TableKinds
  <2> HIDE DEF u
  <2>3. RowsMade(v.rows, c) = v.rows
    BY <1>6 DEF RowsMade, FormFor
  <2>4. QED
    BY <2>1, <2>2, <2>3 DEF OtherKind, SameRows
<1>7. CASE q.op = "del" /\ c = FormFor("inUse", q.row)
  BY <1>6, <1>7 DEF TableForms, IsRequest
<1>8. CASE q.op \in {"changeAdd", "changeClone"} /\ c = FormFor("add", Table)
  BY <1>6, <1>8 DEF TableForms, SomeRow
<1>9. CASE q.op = "changeEdit" /\ c = FormFor(q.row, Table)
  BY <1>6, <1>9 DEF AskedFits, SomeRow
<1>10. QED
  BY <1>1, <1>2, <1>3, <1>4, <1>5, <1>7, <1>8, <1>9 DEF ChangeFits

FitsAs(u, v, kind) == u \in TableViews /\ OtherKind(kind, u) /\ u.rows = v.rows

LEMMA RestoreKeepsType ==
  ASSUME NEW v \in TableViews, NEW kind, OtherKind(kind, v), NEW P \in SUBSET Place, NEW keep \in BOOLEAN
  PROVE  FitsAs(RestoreHidden(v, P, keep), v, kind)
<1>1. PICK u : u = RestoreHidden(v, P, keep)
  OBVIOUS
<1>2. /\ u \in TableViews /\ SameWay(u, v) /\ SameAsked(u, v) /\ SameRows(u, v)
      /\ \A p \in Place : u.saved[p] = IF p \in P THEN "none" ELSE v.saved[p]
  BY <1>1, RestoreHiddenIs
<1>3. \A r \in Row : Actions(r) \in Place
  BY PlacesDiffer DEF PlacesApart
<1>4. QED
  BY <1>1, <1>2, <1>3 DEF FitsAs, OtherKind, SameWay, SameAsked, SameRows

\* The answer of an operation that updates the table.
TableUpdated(v, a) == IF a.res = "ok" THEN UpdateTable(v, a.change) ELSE v

LEMMA UpdatedIs ==
  ASSUME NEW v \in TableViews, NEW kind, NEW q, IsRequest(q), AskedFits(kind, q), NEW ls, AnswerFits(q, ls),
         q.op \in Updating, OtherKind(kind, v)
  PROVE  LET u == TableUpdated(v, q.answer)
         IN  u \in TableViews /\ OtherKind(kind, u) /\ u.rows = RowsAfter(v.rows, q.answer)
<1>1. CASE q.answer.res = "ok"
  <2>1. PICK c : c = q.answer.change
    OBVIOUS
  <2>2. ChangeFits(q, c)
    BY <1>1, <2>1 DEF AnswerFits
  <2>3. PICK u : u = UpdateTable(v, c)
    OBVIOUS
  <2>4. u \in TableViews /\ OtherKind(kind, u) /\ u.rows = RowsMade(v.rows, c)
    BY <2>2, <2>3, UpdateIs
  <2>5. QED
    BY <1>1, <2>1, <2>3, <2>4 DEF TableUpdated, RowsAfter
<1>2. CASE q.answer.res # "ok"
  BY <1>2 DEF TableUpdated, RowsAfter
<1>3. QED
  BY <1>1, <1>2

FormRestored(w, q) ==
    IF q.answer.res = "refused" /\ q.op = "changeAdd" THEN RestoreHidden(w, {CreatingForm}, FALSE)
    ELSE IF q.answer.res = "refused" /\ q.op = "changeEdit" THEN RestoreHidden(w, {Actions(q.row)}, FALSE)
    ELSE w
CustomRestored(w, q) == IF q.answer.res = "ok" THEN w ELSE RestoreHidden(w, {Custom(q.row)}, FALSE)
EnabledBut(x, r) == [x EXCEPT !.disabled = x.disabled \intersect {r}]

\* What the callbacks do, in terms of the update.
LEMMA AnsweredBy ==
  ASSUME NEW q, NEW u, u = Answered(q), NEW w, w = TableUpdated(view, q.answer), IsRequest(q)
  PROVE  /\ q.op \in {"add", "edit"} => u = RestoreHidden(w, {Buttons}, FALSE)
         /\ q.op = "del" => u = IF q.answer.res = "ok" THEN w ELSE RestoreHidden(w, {Actions(q.row)}, FALSE)
         /\ q.op \in {"changeAdd", "changeEdit", "changeClone"} =>
               u = IF q.op = "changeEdit" THEN RestoreHidden(FormRestored(w, q), {Actions(q.row)}, FALSE)
                   ELSE FormRestored(w, q)
         /\ q.op = "changeList" => u = w
         /\ q.op = "custom" => u = EnabledBut(CustomRestored(w, q), q.row)
         /\ q.op = "setPosition" => u = view
<1>1. CASE q.answer.res = "ok"
  BY <1>1 DEF Answered, TableUpdated, OnAdd, OnDelete, OnShowForm, OnView, OnCustom, FormRestored, CustomRestored, EnabledBut
<1>2. CASE q.answer.res # "ok"
  BY <1>2 DEF Answered, TableUpdated, OnAdd, OnDelete, OnShowForm, OnView, OnCustom, FormRestored, CustomRestored, EnabledBut
<1>3. QED
  BY <1>1, <1>2

LEMMA BooleanIs ==
  ASSUME NEW v \in TableViews, NEW r \in Row, NEW a, NEW replaced \in BOOLEAN
  PROVE  LET u == OnBoolean(v, r, a, replaced)
             w == RemoveWarnings(v)
         IN  /\ u \in TableViews /\ SameRows(u, v) /\ u.saved = v.saved /\ u.formShown = v.formShown
             /\ \A p \in Place : u.html[p] = IF p = Check(r) /\ v.html[p] = "sending" /\ ~replaced THEN "own" ELSE v.html[p]
             /\ a.res = "ok" /\ a.change.what = "dataInUseForm"
                   => ~u.top /\ u.warning = r /\ u.form = w.form /\ u.inUse = w.inUse
             /\ ~(a.res = "ok" /\ a.change.what = "dataInUseForm")
                   => u.top = v.top /\ u.form = v.form /\ SameAsked(u, v)
<1> DEFINE w == RemoveWarnings(v)
           x == IF a.res = "ok" /\ a.change.what = "dataInUseForm"
                THEN [w EXCEPT !.warning = r, !.top = FALSE] ELSE v
           html == [x.html EXCEPT ![Check(r)] = IF x.html[Check(r)] = "sending" /\ ~replaced THEN "own" ELSE x.html[Check(r)]]
           u == OnBoolean(v, r, a, replaced)
<1>1. u = [x EXCEPT !.html = html]
  BY DEF OnBoolean
<1>2. /\ w \in TableViews /\ SameRows(w, v) /\ w.html = v.html /\ w.saved = v.saved
      /\ w.top = v.top /\ w.formShown = v.formShown
  BY RemoveWarningsIs
<1>3. /\ x \in TableViews /\ SameRows(x, v) /\ x.html = v.html /\ x.saved = v.saved /\ x.formShown = v.formShown
      /\ a.res = "ok" /\ a.change.what = "dataInUseForm"
            => ~x.top /\ x.warning = r /\ x.form = w.form /\ x.inUse = w.inUse
      /\ ~(a.res = "ok" /\ a.change.what = "dataInUseForm")
            => x.top = v.top /\ x.form = v.form /\ SameAsked(x, v)
  <2> HIDE DEF w
  <2>1. CASE a.res = "ok" /\ a.change.what = "dataInUseForm"
    <3>1. x = [w EXCEPT !.warning = r, !.top = FALSE] /\ r \in SomeRow
      BY <2>1 DEF SomeRow
    <3> HIDE DEF x
    <3>2. QED
      BY <1>2, <2>1, <3>1 DEF TableViews, SameRows
  <2>2. CASE ~(a.res = "ok" /\ a.change.what = "dataInUseForm")
    BY <2>2 DEF SameRows, SameAsked
  <2>3. QED
    BY <2>1, <2>2
<1> HIDE DEF x
<1>4. Check(r) \in Place
  BY PlacesDiffer DEF PlacesApart
<1>5. /\ html \in [Place -> Content]
      /\ \A p \in Place : html[p] = IF p = Check(r) /\ v.html[p] = "sending" /\ ~replaced THEN "own" ELSE v.html[p]
  BY <1>3, <1>4 DEF TableViews, Content
<1> HIDE DEF html
<1>6. /\ u \in TableViews /\ SameRows(u, x) /\ SameAsked(u, x) /\ u.saved = x.saved /\ u.formShown = x.formShown
      /\ u.top = x.top /\ u.form = x.form /\ u.html = html
  BY <1>1, <1>3, <1>5 DEF TableViews, SameRows, SameAsked
<1> HIDE DEF u
<1>7. QED
  BY <1>3, <1>5, <1>6 DEF SameRows, SameAsked, u, w

\* The boxes among rs whose markup comes back.
BackAmong(v, rs) == {r \in rs : v.saved[Check(r)] # "none"}
ChecksOf(rs) == {Check(r) : r \in rs}

CheckedAll(u, v, value, rs, a) ==
    /\ u \in TableViews /\ SameWay(u, v) /\ SameAsked(u, v) /\ u.rows = v.rows /\ u.rendered = v.rendered
    /\ \A p \in Place : u.html[p] = IF p \in ChecksOf(rs) /\ Present(v, p) THEN BackIn(v, p, FALSE) ELSE v.html[p]
    /\ \A p \in Place : u.saved[p] = IF p \in ChecksOf(rs) THEN "none" ELSE v.saved[p]
    /\ a.res = "ok" /\ value => rs \subseteq u.checked
    /\ a.res = "ok" /\ ~value => u.checked \intersect rs = {}
    /\ u.checked \ rs = v.checked \ rs

LEMMA CheckAllIs ==
  ASSUME NEW v \in TableViews, NEW value \in BOOLEAN, NEW rs \in SUBSET Row, NEW a
  PROVE  CheckedAll(OnCheckAll(v, value, rs, a), v, value, rs, a)
<1> DEFINE back == BackAmong(v, rs)
           w == RestoreHidden(v, ChecksOf(rs), FALSE)
           most == (v.checked \ back) \union (back \intersect v.rendered)
           checked == IF a.res # "ok" THEN most ELSE IF value THEN most \union rs ELSE most \ rs
           u == OnCheckAll(v, value, rs, a)
<1>1. ChecksOf(rs) \in SUBSET Place
  BY PlacesDiffer DEF PlacesApart, ChecksOf
<1>2. /\ w \in TableViews /\ SameWay(w, v) /\ SameAsked(w, v) /\ SameRows(w, v)
      /\ \A p \in Place : w.html[p] = IF p \in ChecksOf(rs) /\ Present(v, p) THEN BackIn(v, p, FALSE) ELSE v.html[p]
      /\ \A p \in Place : w.saved[p] = IF p \in ChecksOf(rs) THEN "none" ELSE v.saved[p]
  BY <1>1, RestoreHiddenIs, ZenonT(60)
<1>3. u = [w EXCEPT !.checked = checked]
  <2> DEFINE v2 == [w EXCEPT !.checked = most]
  <2>1. v2 = [w EXCEPT !.checked = (w.checked \ back) \union (back \intersect v.rendered)]
    BY <1>2 DEF SameRows
  <2>2. u = IF a.res # "ok" THEN v2 ELSE [v2 EXCEPT !.checked = IF value THEN v2.checked \union rs ELSE v2.checked \ rs]
    BY <2>1 DEF OnCheckAll, BackAmong, ChecksOf
  <2> HIDE DEF w, u
  <2>3. v2 \in TableViews /\ v2.checked = most
    BY <1>2 DEF TableViews
  <2>4. [v2 EXCEPT !.checked = IF value THEN v2.checked \union rs ELSE v2.checked \ rs]
          = [w EXCEPT !.checked = IF value THEN most \union rs ELSE most \ rs]
    BY <1>2, <2>3 DEF TableViews
  <2>5. QED
    BY <2>2, <2>4
<1>4. /\ checked \subseteq Row /\ checked \ rs = v.checked \ rs
      /\ a.res = "ok" /\ value => rs \subseteq checked
      /\ a.res = "ok" /\ ~value => checked \intersect rs = {}
  <2>1. v.checked \subseteq Row /\ v.rendered \subseteq Row /\ back \subseteq rs
    BY DEF TableViews, BackAmong
  <2> HIDE DEF back
  <2>2. most \subseteq Row /\ most \ rs = v.checked \ rs
    BY <2>1
  <2> HIDE DEF most
  <2>3. CASE a.res = "ok" /\ value
    BY <2>2, <2>3
  <2>4. CASE a.res = "ok" /\ ~value
    BY <2>2, <2>4
  <2>5. CASE a.res # "ok"
    BY <2>2, <2>5
  <2>6. QED
    BY <2>3, <2>4, <2>5
<1> HIDE DEF checked, w
<1>5. /\ u \in TableViews /\ SameWay(u, w) /\ SameAsked(u, w) /\ u.rows = w.rows /\ u.rendered = w.rendered
      /\ u.html = w.html /\ u.saved = w.saved /\ u.checked = checked
  <2> HIDE DEF u
  <2>1. QED
    BY <1>2, <1>3, <1>4 DEF TableViews, SameWay, SameAsked
<1> HIDE DEF u
<1>6. QED
  BY <1>2, <1>4, <1>5 DEF SameWay, SameAsked, SameRows, CheckedAll, u

TableOps == {"add", "edit", "del", "changeAdd", "changeEdit", "changeClone", "changeList", "custom",
             "setPosition", "editBoolean", "checkAll"}

LEMMA OpsAre ==
  ASSUME NEW kind, NEW q, AskedFits(kind, q)
  PROVE  /\ q.op \in TableOps
         /\ kind = "rows" <=> \/ q.op \in TableOps \ {"changeList", "custom", "editBoolean", "checkAll"}
                              \/ q.op = "changeList" /\ kind = "rows"
         /\ q.op \in {"editBoolean", "checkAll"} => kind = "checks"
         /\ q.op = "custom" => kind = "actions"
  BY DEF AskedFits, OpsOf, TableKinds, TableOps

LEMMA AnsweredIs ==
  ASSUME view \in TableViews, NEW kind, OtherKind(kind, view),
         NEW q, NEW ls, RequestFits(kind, q, ls), q.answer.res # "none",
         NEW u, u = Answered(q)
  PROVE  u \in TableViews /\ OtherKind(kind, u) /\ u.rows = RowsAfter(view.rows, q.answer)
<1>1. IsRequest(q) /\ AskedFits(kind, q) /\ AnswerFits(q, ls) /\ q.op \in TableOps
  BY OpsAre DEF RequestFits
<1>2. /\ Buttons \in Place /\ CreatingForm \in Place
      /\ \A r \in Row : Actions(r) \in Place /\ Custom(r) \in Place /\ Check(r) \in Place
  BY PlacesDiffer DEF PlacesApart
<1>3. CASE q.op \in Updating
  <2>1. PICK w : w = TableUpdated(view, q.answer)
    OBVIOUS
  <2>2. w \in TableViews /\ OtherKind(kind, w) /\ w.rows = RowsAfter(view.rows, q.answer)
    BY <1>1, <1>3, <2>1, UpdatedIs
  <2>3. ASSUME NEW p \in Place, NEW x \in TableViews, OtherKind(kind, x)
        PROVE  FitsAs(RestoreHidden(x, {p}, FALSE), x, kind)
    <3>1. {p} \in SUBSET Place /\ FALSE \in BOOLEAN
      OBVIOUS
    <3>2. QED
      BY <2>3, <3>1, RestoreKeepsType
  <2>4. CASE q.op \in {"add", "edit"}
    <3>1. u = RestoreHidden(w, {Buttons}, FALSE)
      BY <1>1, <2>1, <2>4, AnsweredBy
    <3>2. QED
      BY <1>2, <2>2, <2>3, <3>1 DEF FitsAs
  <2>5. CASE q.op = "del"
    <3>1. u = IF q.answer.res = "ok" THEN w ELSE RestoreHidden(w, {Actions(q.row)}, FALSE)
      BY <1>1, <2>1, <2>5, AnsweredBy
    <3>2. q.row \in Row
      BY <1>1, <2>5 DEF AskedFits
    <3>3. QED
      BY <1>2, <2>2, <2>3, <3>1, <3>2, ZenonT(60) DEF FitsAs
  <2>6. CASE q.op \in {"changeAdd", "changeEdit", "changeClone"}
    <3>0. PICK x : x = FormRestored(w, q)
      OBVIOUS
    <3>1. u = IF q.op = "changeEdit" THEN RestoreHidden(x, {Actions(q.row)}, FALSE) ELSE x
      BY <1>1, <2>1, <2>6, <3>0, AnsweredBy
    <3>2. q.row \in Row
      BY <1>1, <2>6 DEF AskedFits
    <3>3. x \in TableViews /\ OtherKind(kind, x) /\ x.rows = w.rows
      BY <1>2, <2>2, <2>3, <3>0, <3>2 DEF FormRestored, FitsAs
    <3>4. CASE q.op = "changeEdit"
      <4>1. u = RestoreHidden(x, {Actions(q.row)}, FALSE)
        BY <3>1, <3>4
      <4>2. FitsAs(u, x, kind)
        BY <1>2, <2>3, <3>2, <3>3, <4>1
      <4>3. QED
        BY <2>2, <3>3, <4>2 DEF FitsAs
    <3>5. CASE q.op # "changeEdit"
      BY <2>2, <3>1, <3>3, <3>5
    <3>6. QED
      BY <3>4, <3>5
  <2>7. CASE q.op = "changeList"
    BY <1>1, <2>1, <2>2, <2>7, AnsweredBy
  <2>8. CASE q.op = "custom"
    <3>0. PICK x : x = CustomRestored(w, q)
      OBVIOUS
    <3>1. u = EnabledBut(x, q.row)
      BY <1>1, <2>1, <2>8, <3>0, AnsweredBy
    <3>2. q.row \in Row
      BY <1>1, <2>8 DEF AskedFits
    <3>3. x \in TableViews /\ OtherKind(kind, x) /\ x.rows = w.rows
      BY <1>2, <2>2, <2>3, <3>0, <3>2 DEF CustomRestored, FitsAs
    <3>4. u = [x EXCEPT !.disabled = x.disabled \intersect {q.row}]
      BY <3>1 DEF EnabledBut
    <3>5. u \in TableViews /\ u.formShown = x.formShown /\ u.inUse = x.inUse /\ u.saved = x.saved /\ u.rows = x.rows
      BY <3>3, <3>4 DEF TableViews
    <3>6. QED
      BY <2>2, <3>3, <3>5 DEF OtherKind
  <2>9. QED
    BY <1>3, <2>4, <2>5, <2>6, <2>7, <2>8 DEF Updating
<1>4. CASE q.op = "setPosition"
  <2>1. u = view
    BY <1>4 DEF Answered
  <2>2. RowsAfter(view.rows, q.answer) = view.rows
    BY <1>1, <1>4 DEF RowsAfter, RowsMade, AnswerFits, ChangeFits, Unchanging
  <2>3. QED
    BY <2>1, <2>2
<1>5. CASE q.op = "editBoolean"
  <2>1. PICK replaced \in BOOLEAN : u = OnBoolean(view, q.row, q.answer, replaced)
    BY <1>5 DEF Answered
  <2>2. q.row \in Row
    BY <1>1, <1>5 DEF AskedFits
  <2>3. /\ u \in TableViews /\ SameRows(u, view) /\ u.saved = view.saved /\ u.formShown = view.formShown
        /\ u.inUse \in {Table, view.inUse}
    BY <2>1, <2>2, BooleanIs, RemoveWarningsIs DEF SameAsked
  <2>4. RowsAfter(view.rows, q.answer) = view.rows
    BY <1>1, <1>5 DEF RowsAfter, RowsMade, AnswerFits, ChangeFits, Unchanging, OfRow
  <2>5. QED
    BY <2>3, <2>4 DEF SameRows, OtherKind
<1>6. CASE q.op = "checkAll"
  <2>2. q.force \in BOOLEAN /\ q.extra.rows \in SUBSET Row
    BY <1>1 DEF IsRequest, TableExtras
  <2>1. u = OnCheckAll(view, q.force, q.extra.rows, q.answer)
    BY <1>6 DEF Answered
  <2>3. CheckedAll(u, view, q.force, q.extra.rows, q.answer)
    BY <2>1, <2>2, CheckAllIs
  <2>4. RowsAfter(view.rows, q.answer) = view.rows
    BY <1>1, <1>6 DEF RowsAfter, RowsMade, AnswerFits, ChangeFits, Unchanging
  <2>5. QED
    BY <1>2, <2>3, <2>4 DEF CheckedAll, SameWay, SameAsked, OtherKind, ChecksOf, PlacesApart
<1>7. QED
  BY <1>1, <1>3, <1>4, <1>5, <1>6 DEF TableOps, Updating

-----------------------------------------------------------------------------
(* What holds of the table, of the requests and of their answers.          *)

TableShape ==
    /\ tableKind \in TableKinds /\ view \in TableViews /\ OtherKind(tableKind, view)
    /\ dbRows \in Unrepeated(Row) /\ dbChecks \in SUBSET Row
    /\ issued \in 0..MaxRequests /\ overlapped \in BOOLEAN
    /\ \A q \in requests : RequestFits(tableKind, q, lost)
    /\ \A l \in lost : l[1] \in OpsOf(tableKind)

\* A new request.
LEMMA SentFits ==
  ASSUME TableShape, NEW op, NEW r, NEW force, NEW extra, Send(op, r, force, extra), NEW q,
         q = [id |-> issued, op |-> op, row |-> r, force |-> force, extra |-> extra, answer |-> [res |-> "none"]],
         r \in SomeRow, force \in BOOLEAN, extra \in TableExtras, AskedFits(tableKind, q),
         view' \in TableViews, OtherKind(tableKind, view')
  PROVE  TableShape' /\ requests' = requests \union {q} /\ IsRequest(q)
<1>1. /\ requests' = requests \union {q} /\ issued' = issued + 1 /\ issued < MaxRequests
      /\ overlapped' = (overlapped \/ requests # {} \/ (Asked /\ ~force))
      /\ UNCHANGED <<tableKind, dbRows, dbChecks, lost>>
  BY DEF Send
<1>2. IsRequest(q) /\ q.answer = [res |-> "none"]
  <2>1. q.id = issued /\ issued \in Nat
    BY TableAssumption DEF TableShape
  <2>2. /\ q = [id |-> q.id, op |-> q.op, row |-> q.row, force |-> q.force, extra |-> q.extra, answer |-> q.answer]
        /\ q.row \in SomeRow /\ q.force \in BOOLEAN /\ q.extra \in TableExtras /\ q.answer = [res |-> "none"]
    OBVIOUS
  <2>3. QED
    BY <2>1, <2>2 DEF IsRequest
<1>3. RequestFits(tableKind, q, lost)
  BY <1>2 DEF RequestFits, AnswerFits
<1>4. issued' \in 0..MaxRequests
  BY <1>1, TableAssumption DEF TableShape
<1>5. QED
  BY <1>1, <1>2, <1>3, <1>4 DEF TableShape

\* A request with its answer.
LEMMA RepliedIs ==
  ASSUME NEW q, IsRequest(q), NEW a, NEW s, s = [q EXCEPT !.answer = a]
  PROVE  /\ IsRequest(s) /\ s.op = q.op /\ s.row = q.row /\ s.force = q.force /\ s.extra = q.extra /\ s.answer = a
         /\ s.id = q.id
<1>1. s = [id |-> q.id, op |-> q.op, row |-> q.row, force |-> q.force, extra |-> q.extra, answer |-> a]
  BY DEF IsRequest
<1>2. QED
  BY <1>1 DEF IsRequest

Replies(q, a, s) ==
    /\ s.op = q.op /\ s.row = q.row /\ s.force = q.force /\ s.extra = q.extra /\ s.answer = a
    /\ requests' = (requests \ {q}) \union {s}

LEMMA RepliedFits ==
  ASSUME TableShape, NEW q \in requests, NEW a, requests' = (requests \ {q}) \union {[q EXCEPT !.answer = a]},
         UNCHANGED <<tableKind, view, issued, overlapped>>, lost \subseteq lost', \A l \in lost' : l[1] \in OpsOf(tableKind),
         dbRows' \in Unrepeated(Row), dbChecks' \in SUBSET Row,
         \A s : Replies(q, a, s) => AnswerFits(s, lost')
  PROVE  TableShape' /\ \E s : Replies(q, a, s)
<1>1. IsRequest(q) /\ AskedFits(tableKind, q)
  BY DEF TableShape, RequestFits
<1>2. PICK s : s = [q EXCEPT !.answer = a]
  OBVIOUS
<1>3. IsRequest(s) /\ Replies(q, a, s)
  BY <1>1, <1>2, RepliedIs DEF Replies
<1>4. AskedFits(tableKind, s)
  BY <1>1, <1>3 DEF AskedFits, Replies
<1>5. RequestFits(tableKind, s, lost')
  BY <1>3, <1>4 DEF RequestFits
<1>6. \A p \in requests : RequestFits(tableKind, p, lost')
  BY DEF TableShape, RequestFits, AnswerFits
<1>7. \A p \in requests' : RequestFits(tableKind, p, lost')
  BY <1>2, <1>5, <1>6
<1>8. QED
  BY <1>3, <1>7 DEF TableShape

LEMMA AppendedKeeps ==
  ASSUME NEW S, NEW list \in Unrepeated(S), NEW x \in S, x \notin ToSet(list)
  PROVE  Append(list, x) \in Unrepeated(S) /\ ToSet(Append(list, x)) = ToSet(list) \union {x}
<1>1. list \in Seq(S) /\ Len(list) \in Nat
  BY DEF Unrepeated
<1>2. ~Contains(list, x) /\ Len(list) + 1 \in 1..(Len(list) + 1)
  BY <1>1, InSet
<1>3. InsertAt(list, Len(list) + 1, x) = Append(list, x)
  BY <1>1, InsertedLast
<1>4. PICK i : i = Len(list) + 1
  OBVIOUS
<1>5. /\ InsertAt(list, i, x) \in Unrepeated(S)
      /\ ToSet(InsertAt(list, i, x)) = ToSet(list) \union {x}
  BY <1>2, <1>4, InsertedKeeps
<1>6. QED
  BY <1>3, <1>4, <1>5

\* A row put after the one before its new place, or else before the one after it.
MovedIn(list, r, at) ==
    LET rest == RemoveFirst(list, r)
    IN  InsertAt(rest, IF at.prev # Table THEN Where(rest, at.prev) + 1 ELSE Where(rest, at.next), r)

LEMMA MovedKeeps ==
  ASSUME NEW list \in Unrepeated(Row), NEW r \in Row, Contains(list, r), NEW at,
         {at.prev, at.next} \subseteq ToSet(list) \union {Table},
         at.prev # Table \/ at.next # Table, at.prev # r, at.next # r
  PROVE  MovedIn(list, r, at) \in Unrepeated(Row) /\ ToSet(MovedIn(list, r, at)) = ToSet(list)
<1>1. PICK rest : rest = RemoveFirst(list, r)
  OBVIOUS
<1>2. rest \in Unrepeated(Row) /\ ToSet(rest) = ToSet(list) \ {r} /\ ~Contains(rest, r)
  BY <1>1, FirstRemovedKeeps
<1>3. rest \in Seq(Row) /\ list \in Seq(Row) /\ Len(rest) \in Nat
  BY <1>2 DEF Unrepeated
<1>4. ASSUME NEW x \in ToSet(list), x # r PROVE Where(rest, x) \in 1..Len(rest)
  <2>1. Contains(rest, x)
    BY <1>2, <1>3, <1>4, InSet
  <2>2. QED
    BY <1>3, <2>1, WhereIs
<1>5. PICK i : i = IF at.prev # Table THEN Where(rest, at.prev) + 1 ELSE Where(rest, at.next)
  OBVIOUS
<1>6. i \in 1..(Len(rest) + 1)
  <2>1. CASE at.prev # Table
    <3>1. Where(rest, at.prev) \in 1..Len(rest)
      BY <1>4, <2>1
    <3>2. QED
      BY <1>3, <1>5, <2>1, <3>1
  <2>2. CASE at.prev = Table
    <3>1. Where(rest, at.next) \in 1..Len(rest)
      BY <1>4, <2>2
    <3>2. QED
      BY <1>3, <1>5, <2>2, <3>1
  <2>3. QED
    BY <2>1, <2>2
<1>7. InsertAt(rest, i, r) \in Unrepeated(Row) /\ ToSet(InsertAt(rest, i, r)) = ToSet(rest) \union {r}
  BY <1>2, <1>6, InsertedKeeps
<1>8. MovedIn(list, r, at) = InsertAt(rest, i, r)
  BY <1>1, <1>5 DEF MovedIn
<1>9. r \in ToSet(list)
  BY <1>3, InSet
<1>10. QED
  BY <1>2, <1>7, <1>8, <1>9

\* The place to which a row is dropped is named by the rows beside it.
LEMMA DroppedThere ==
  ASSUME NEW list \in Unrepeated(Row), NEW r \in Row, Contains(list, r), NEW to \in 1..Len(list),
         NEW order, order = InsertAt(RemoveFirst(list, r), to, r), order # list, NEW at,
         at.prev = IF to > 1 THEN order[to - 1] ELSE Table,
         at.next = IF to < Len(order) THEN order[to + 1] ELSE Table
  PROVE  /\ MovedIn(list, r, at) = order /\ order \in Unrepeated(Row) /\ ToSet(order) = ToSet(list)
         /\ at.prev \in ToSet(list) \union {Table} /\ at.next \in ToSet(list) \union {Table}
         /\ at.prev # Table \/ at.next # Table
         /\ at.prev # r /\ at.next # r
<1>1. PICK rest : rest = RemoveFirst(list, r)
  OBVIOUS
<1>2. rest \in Unrepeated(Row) /\ ToSet(rest) = ToSet(list) \ {r} /\ ~Contains(rest, r)
  BY <1>1, FirstRemovedKeeps
<1>3. rest \in Seq(Row) /\ list \in Seq(Row) /\ Len(rest) \in Nat /\ Len(list) \in Nat
  BY <1>2 DEF Unrepeated
<1>4. PICK k \in 1..Len(list) : k = Where(list, r) /\ list[k] = r
  BY <1>3, WhereIs
<1>5. Len(rest) = Len(list) - 1
  <2>1. rest = RemoveAt(list, k)
    BY <1>1, <1>3, <1>4, RemovedFirst
  <2>2. QED
    BY <1>3, <1>4, <2>1, RemoveAtTakesOut
<1>6. to \in 1..(Len(rest) + 1)
  BY <1>3, <1>5
<1>7. /\ order \in Unrepeated(Row) /\ ToSet(order) = ToSet(rest) \union {r}
      /\ Len(order) = Len(rest) + 1 /\ PutsIn(rest, Len(rest), to, r, order)
  BY <1>1, <1>2, <1>3, <1>6, InsertedKeeps, InsertAtPutsIn
<1>8. \A j \in 1..(Len(rest) + 1) : order[j] = IF j < to THEN rest[j] ELSE IF j = to THEN r ELSE rest[j - 1]
  BY <1>7 DEF PutsIn
<1>9. r \in ToSet(list)
  BY <1>3, InSet
<1>10. \A j \in 1..Len(rest) : rest[j] \in ToSet(rest) /\ rest[j] # Table /\ rest[j] # r
  <2>1. ASSUME NEW j \in 1..Len(rest) PROVE rest[j] \in ToSet(rest) /\ rest[j] # Table /\ rest[j] # r
    <3>1. rest[j] \in ToSet(rest) /\ rest[j] \in Row
      BY <1>3, InSet, ElementOfSeq
    <3>2. QED
      BY <1>2, <3>1, TableAssumption
  <2>2. QED
    BY <2>1
<1>11. CASE to > 1
  <2>1. to - 1 \in 1..Len(rest) /\ at.prev = rest[to - 1]
    <3>1. to - 1 \in 1..(Len(rest) + 1) /\ to - 1 < to /\ to - 1 \in 1..Len(rest)
      BY <1>3, <1>6, <1>11
    <3>2. QED
      BY <1>8, <1>11, <3>1
  <2>2. Where(rest, rest[to - 1]) = to - 1
    BY <1>2, <2>1, WhereOnly
  <2>3. at.prev \in ToSet(list) /\ at.prev # Table /\ at.prev # r
    BY <1>2, <1>10, <2>1
  <2>4. MovedIn(list, r, at) = InsertAt(rest, Where(rest, at.prev) + 1, r)
    BY <1>1, <2>3 DEF MovedIn
  <2>5. MovedIn(list, r, at) = order
    BY <1>1, <1>3, <1>6, <2>1, <2>2, <2>4
  <2>6. at.next \in ToSet(list) \union {Table} /\ at.next # r
    <3>1. CASE to < Len(order)
      <4>1. to + 1 \in 1..(Len(rest) + 1) /\ to \in 1..Len(rest) /\ ~(to + 1 < to) /\ to + 1 # to /\ (to + 1) - 1 = to
        BY <1>3, <1>6, <1>7, <3>1
      <4>2. at.next = rest[to]
        BY <1>8, <3>1, <4>1
      <4>3. QED
        BY <1>2, <1>10, <4>1, <4>2
    <3>2. CASE ~(to < Len(order))
      BY <3>2, TableAssumption
    <3>3. QED
      BY <3>1, <3>2
  <2>7. QED
    BY <1>2, <1>7, <1>9, <2>3, <2>5, <2>6
<1>12. CASE to = 1
  <2>1. at.prev = Table
    BY <1>12
  <2>2. Len(rest) # 0
    <3>1. SUFFICES ASSUME Len(rest) = 0 PROVE FALSE
      OBVIOUS
    <3>2. Len(list) = 1 /\ Len(order) = 1 /\ k = 1
      BY <1>3, <1>4, <1>5, <1>7, <3>1
    <3>3. order[1] = r /\ list[1] = r
      BY <1>4, <1>8, <1>12, <3>1, <3>2
    <3>4. order = list
      <4>1. order \in Seq(Row) /\ \A j \in 1..Len(order) : order[j] = list[j]
        BY <1>7, <3>2, <3>3 DEF Unrepeated
      <4>2. QED
        BY <1>3, <3>2, <4>1, SameList
    <3>5. QED
      BY <3>4
  <2>3. 2 \in 1..(Len(rest) + 1) /\ 1 \in 1..Len(rest) /\ to < Len(order) /\ to + 1 = 2 /\ ~(2 < to) /\ 2 # to /\ 2 - 1 = 1
    BY <1>3, <1>7, <1>12, <2>2
  <2>4. at.next = rest[1]
    BY <1>8, <2>3
  <2>5. at.next \in ToSet(list) /\ at.next # Table /\ at.next # r
    BY <1>2, <1>10, <2>3, <2>4
  <2>6. Where(rest, rest[1]) = 1
    BY <1>2, <2>3, WhereOnly
  <2>7. MovedIn(list, r, at) = order
    BY <1>1, <1>12, <2>1, <2>4, <2>6 DEF MovedIn
  <2>8. QED
    BY <1>2, <1>7, <1>9, <2>1, <2>5, <2>7, TableAssumption
<1>13. QED
  BY <1>6, <1>11, <1>12

-----------------------------------------------------------------------------
(* The server takes a request.                                             *)

Serves(q) ==
    \/ ServeAdd(q) \/ ServeEdit(q) \/ ServeDel(q) \/ ServeForm(q) \/ ServePage(q)
    \/ ServeBoolean(q) \/ ServeCheckAll(q) \/ ServeOrder(q) \/ ServeInUse(q)
    \/ \E res \in {"refused", "failed"} : Lose(q, res)

IsQuestion(a) == a.res = "ok" /\ a.change.what = "dataInUseForm"

\* What a served request did on the server, and its answer tells of it.
ServedRight(q, a) ==
    /\ q.answer.res = "none" /\ a.res \in {"ok", "refused", "failed"}
    /\ lost \subseteq lost' /\ \A l \in lost' \ lost : l[1] = q.op
    /\ a.res \in {"refused", "failed"} => <<q.op, q.force, a.res>> \in lost' /\ dbRows' = dbRows
    /\ a.res = "refused" => q.op \notin {"changeList", "custom"}
    /\ a.res = "ok" => ChangeFits(q, a.change)
    /\ IsQuestion(a) => <<q.op, FALSE, "questioned">> \in lost'
    /\ q.op # "setPosition" => RowsAfter(dbRows, a) = dbRows'
    /\ q.op = "setPosition" /\ a.res = "ok" => dbRows' = MovedIn(dbRows, q.row, q.extra)
    /\ q.op = "editBoolean" /\ a.res = "ok" /\ ~IsQuestion(a) => dbChecks' = (dbChecks \ {q.row}) \union q.extra.rows
    /\ q.op = "checkAll" /\ a.res = "ok" => dbChecks' = IF q.force THEN ToSet(dbRows') ELSE {}
    /\ q.op = "changeList" /\ a.res = "ok" => a.change.checks = dbChecks
    /\ q.op \notin {"editBoolean", "checkAll"} => dbChecks' = dbChecks

LEMMA RightFits ==
  ASSUME TableShape, NEW q \in requests, NEW a, ServedRight(q, a), 
         requests' = (requests \ {q}) \union {[q EXCEPT !.answer = a]},
         UNCHANGED <<tableKind, view, issued, overlapped>>, dbRows' \in Unrepeated(Row), dbChecks' \in SUBSET Row
  PROVE  TableShape' /\ \E s : Replies(q, a, s)
<1>1. AskedFits(tableKind, q) /\ q.op \in OpsOf(tableKind)
  BY DEF TableShape, RequestFits, AskedFits
<1>2. \A l \in lost' : l[1] \in OpsOf(tableKind)
  BY <1>1 DEF ServedRight, TableShape
<1>3. ASSUME NEW s, Replies(q, a, s) PROVE AnswerFits(s, lost')
  <2>1. s.op = q.op /\ s.row = q.row /\ s.force = q.force /\ s.extra = q.extra /\ s.answer = a
    BY <1>3 DEF Replies
  <2>2. a.res = "ok" => ChangeFits(s, a.change)
    BY <2>1 DEF ServedRight, ChangeFits
  <2>3. QED
    BY <2>1, <2>2 DEF ServedRight, AnswerFits, IsQuestion
<1>4. QED
  BY <1>2, <1>3, RepliedFits DEF ServedRight

\* An answer that tells of what is done.
GoodReply(q, a, rs, cs) ==
    /\ a.res = "ok" /\ ChangeFits(q, a.change) /\ ~IsQuestion(a) /\ rs \in Unrepeated(Row) /\ cs \in SUBSET Row
    /\ q.op # "setPosition" => RowsAfter(dbRows, a) = rs
    /\ q.op = "setPosition" => rs = MovedIn(dbRows, q.row, q.extra)
    /\ q.op = "editBoolean" => cs = (dbChecks \ {q.row}) \union q.extra.rows
    /\ q.op = "checkAll" => cs = IF q.force THEN ToSet(rs) ELSE {}
    /\ q.op = "changeList" => a.change.checks = dbChecks
    /\ q.op \notin {"editBoolean", "checkAll"} => cs = dbChecks

\* What a step of the server leaves.
ServedWell(q, a) ==
    /\ UNCHANGED <<tableKind, view, issued, sent, overlapped>>
    /\ ServedRight(q, a) /\ \E s : Replies(q, a, s)

LEMMA ServeGives ==
  ASSUME TableShape, NEW q \in requests, NEW a, NEW rs, NEW cs, Serve(q, a, rs, cs), GoodReply(q, a, rs, cs)
  PROVE  TableShape' /\ ServedWell(q, a)
<1>1. /\ requests' = (requests \ {q}) \union {[q EXCEPT !.answer = a]} /\ dbRows' = rs /\ dbChecks' = cs
      /\ UNCHANGED <<tableKind, view, issued, lost, sent, overlapped>> /\ q.answer.res = "none"
  BY DEF Serve
<1>2. ServedRight(q, a) /\ dbRows' \in Unrepeated(Row) /\ dbChecks' \in SUBSET Row
  BY <1>1 DEF ServedRight, GoodReply
<1>3. QED
  BY <1>1, <1>2, RightFits DEF ServedWell

LEMMA PageFits ==
  ASSUME NEW rs \in Seq(Row), NEW cs \in SUBSET Row, NEW a, a = Page(rs, cs)
  PROVE  a.res = "ok" /\ IsPage(a.change) /\ ~IsQuestion(a) /\ a.change.checks = cs /\ \A old : RowsAfter(old, a) = rs
<1>1. a.res = "ok" /\ a.change = [what |-> "reload", rows |-> rs, checks |-> cs]
  BY DEF Page, Ok
<1>2. PICK c : c = a.change
  OBVIOUS
<1>3. c.what = "reload" /\ c.rows = rs /\ c.checks = cs
  BY <1>1, <1>2
<1>4. IsPage(c)
  BY <1>1, <1>2 DEF IsPage
<1>5. \A old : RowsMade(old, c) = rs
  BY <1>3 DEF RowsMade
<1>6. QED
  BY <1>1, <1>2, <1>3, <1>4, <1>5 DEF IsQuestion, RowsAfter

LEMMA ServesWell ==
  ASSUME TableShape, NEW q \in requests, Serves(q)
  PROVE  TableShape' /\ \E a : ServedWell(q, a)
<1>1. /\ IsRequest(q) /\ AskedFits(tableKind, q) /\ dbRows \in Unrepeated(Row) /\ dbRows \in Seq(Row)
      /\ dbChecks \in SUBSET Row /\ Len(dbRows) \in Nat
  BY DEF TableShape, RequestFits, Unrepeated
<1>2. CASE ServeAdd(q)
  <2>1. PICK r \in Row \ ToSet(dbRows) :
             LET rs == Append(dbRows, r)
             IN  IF dbRows = <<>> THEN Serve(q, Page(rs, dbChecks), rs, dbChecks)
                 ELSE Serve(q, Ok([what |-> "added", row |-> r, after |-> Last(dbRows)]), rs, dbChecks)
    BY <1>2 DEF ServeAdd
  <2>2. PICK rs : rs = Append(dbRows, r)
    OBVIOUS
  <2>3. rs \in Unrepeated(Row) /\ rs \in Seq(Row)
    BY <1>1, <2>2, AppendedKeeps DEF Unrepeated
  <2>4. q.op = "add"
    BY <1>2 DEF ServeAdd
  <2>5. CASE dbRows = <<>>
    <3>1. PICK a : a = Page(rs, dbChecks)
      OBVIOUS
    <3>2. Serve(q, a, rs, dbChecks)
      BY <2>1, <2>2, <2>5, <3>1
    <3>3. a.res = "ok" /\ IsPage(a.change) /\ ~IsQuestion(a) /\ RowsAfter(dbRows, a) = rs
      BY <1>1, <2>3, <3>1, PageFits
    <3>4. GoodReply(q, a, rs, dbChecks)
      BY <1>1, <2>3, <2>4, <3>3 DEF GoodReply, ChangeFits
    <3>5. QED
      BY <3>2, <3>4, ServeGives
  <2>6. CASE dbRows # <<>>
    <3>1. PICK a, after : after = Last(dbRows) /\ a = Ok([what |-> "added", row |-> r, after |-> after])
      OBVIOUS
    <3>2. Serve(q, a, rs, dbChecks)
      BY <2>1, <2>2, <2>6, <3>1
    <3>3. a.res = "ok" /\ a.change = [what |-> "added", row |-> r, after |-> after]
      BY <3>1 DEF Ok
    <3>4. Len(dbRows) \in 1..Len(dbRows) /\ after = dbRows[Len(dbRows)] /\ after \in Row
      BY <1>1, <2>6, <3>1 DEF Last
    <3>5. Where(dbRows, after) = Len(dbRows) /\ after # Table
      BY <1>1, <3>4, WhereOnly, TableAssumption
    <3>6. AddedTo(dbRows, r, after) = rs
      <4>1. AddedTo(dbRows, r, after) = InsertAt(dbRows, Len(dbRows) + 1, r)
        BY <1>1, <3>4, <3>5 DEF AddedTo
      <4>2. QED
        BY <1>1, <2>2, <4>1, InsertedLast
    <3>7. RowsAfter(dbRows, a) = rs /\ ~IsQuestion(a) /\ IsAdded(a.change)
      BY <3>3, <3>4, <3>6 DEF RowsAfter, RowsMade, IsQuestion, IsAdded
    <3>8. GoodReply(q, a, rs, dbChecks)
      BY <1>1, <2>3, <2>4, <3>3, <3>7 DEF GoodReply, ChangeFits
    <3>9. QED
      BY <3>2, <3>8, ServeGives
  <2>7. QED
    BY <2>5, <2>6
<1>3. CASE ServeEdit(q)
  <2>1. PICK a : a = Changed("changed", q.row)
    OBVIOUS
  <2>2. Serve(q, a, dbRows, dbChecks) /\ q.op = "edit"
    BY <1>3, <2>1 DEF ServeEdit
  <2>3. a.res = "ok" /\ a.change = OfRow("changed", q.row)
    BY <2>1 DEF Changed, Ok, OfRow
  <2>4. RowsAfter(dbRows, a) = dbRows /\ ~IsQuestion(a)
    BY <2>3 DEF RowsAfter, RowsMade, IsQuestion, OfRow
  <2>5. GoodReply(q, a, dbRows, dbChecks)
    BY <1>1, <2>2, <2>3, <2>4 DEF GoodReply, ChangeFits
  <2>6. QED
    BY <2>2, <2>5, ServeGives
<1>4. CASE ServeDel(q)
  <2>1. PICK rs : rs = RemoveFirst(dbRows, q.row)
    OBVIOUS
  <2>2. rs \in Unrepeated(Row) /\ rs \in Seq(Row)
    BY <1>1, <2>1, FirstRemovedKeeps DEF Unrepeated
  <2>3. PICK a : a = IF rs = <<>> THEN Page(rs, dbChecks) ELSE Changed("removed", q.row)
    OBVIOUS
  <2>4. Serve(q, a, rs, dbChecks) /\ q.op = "del"
    BY <1>4, <2>1, <2>3 DEF ServeDel
  <2>5. a.res = "ok" /\ RowsAfter(dbRows, a) = rs /\ ~IsQuestion(a) /\ ChangeFits(q, a.change)
    <3>1. CASE rs = <<>>
      <4>1. a = Page(rs, dbChecks)
        BY <2>3, <3>1
      <4>2. a.res = "ok" /\ IsPage(a.change) /\ ~IsQuestion(a) /\ RowsAfter(dbRows, a) = rs
        BY <1>1, <2>2, <4>1, PageFits
      <4>3. QED
        BY <2>4, <4>2 DEF ChangeFits
    <3>2. CASE rs # <<>>
      <4>1. a.res = "ok" /\ a.change = OfRow("removed", q.row)
        BY <2>3, <3>2 DEF Changed, Ok, OfRow
      <4>2. QED
        BY <2>1, <2>4, <4>1 DEF RowsAfter, RowsMade, IsQuestion, OfRow, ChangeFits
    <3>3. QED
      BY <3>1, <3>2
  <2>6. GoodReply(q, a, rs, dbChecks)
    BY <1>1, <2>2, <2>4, <2>5 DEF GoodReply
  <2>7. QED
    BY <2>4, <2>6, ServeGives
<1>5. CASE ServeForm(q)
  <2>1. PICK f, a : f = (IF q.op = "changeEdit" THEN q.row ELSE "add") /\ a = Form(f, Table)
    OBVIOUS
  <2>2. Serve(q, a, dbRows, dbChecks) /\ q.op \in {"changeAdd", "changeEdit", "changeClone"}
    BY <1>5, <2>1 DEF ServeForm
  <2>3. a.res = "ok" /\ a.change = FormFor(f, Table)
    BY <2>1 DEF Form, Ok, FormFor
  <2>4. RowsAfter(dbRows, a) = dbRows /\ ~IsQuestion(a)
    BY <2>3 DEF RowsAfter, RowsMade, IsQuestion, FormFor
  <2>5. ChangeFits(q, a.change)
    BY <2>1, <2>2, <2>3 DEF ChangeFits
  <2>6. GoodReply(q, a, dbRows, dbChecks)
    BY <1>1, <2>2, <2>3, <2>4, <2>5 DEF GoodReply
  <2>7. QED
    BY <2>2, <2>6, ServeGives
<1>6. CASE ServePage(q)
  <2>1. PICK a : a = Page(dbRows, dbChecks)
    OBVIOUS
  <2>2. Serve(q, a, dbRows, dbChecks) /\ q.op \in {"changeList", "custom"}
    BY <1>6, <2>1 DEF ServePage
  <2>3. a.res = "ok" /\ IsPage(a.change) /\ ~IsQuestion(a) /\ RowsAfter(dbRows, a) = dbRows /\ a.change.checks = dbChecks
    BY <1>1, <2>1, PageFits
  <2>4. GoodReply(q, a, dbRows, dbChecks)
    BY <1>1, <2>2, <2>3 DEF GoodReply, ChangeFits
  <2>5. QED
    BY <2>2, <2>4, ServeGives
<1>7. PICK done : done = Ok([what |-> "none"])
  OBVIOUS
<1>8. /\ done.res = "ok" /\ done.change = Unchanging /\ RowsAfter(dbRows, done) = dbRows /\ ~IsQuestion(done)
      /\ q.op \in {"editBoolean", "checkAll", "setPosition"} => ChangeFits(q, done.change)
  <2>1. done.res = "ok" /\ done.change = Unchanging
    BY <1>7 DEF Ok, Unchanging
  <2>2. QED
    BY <2>1 DEF RowsAfter, RowsMade, IsQuestion, ChangeFits, Unchanging
<1>9. CASE ServeBoolean(q)
  <2>1. PICK cs : cs = (dbChecks \ {q.row}) \union q.extra.rows
    OBVIOUS
  <2>2. Serve(q, done, dbRows, cs) /\ q.op = "editBoolean"
    BY <1>7, <1>9, <2>1 DEF ServeBoolean
  <2>3. cs \in SUBSET Row
    BY <1>1, <2>1 DEF IsRequest, TableExtras
  <2>4. GoodReply(q, done, dbRows, cs)
    BY <1>1, <1>8, <2>1, <2>2, <2>3 DEF GoodReply
  <2>5. QED
    BY <2>2, <2>4, ServeGives
<1>10. CASE ServeCheckAll(q)
  <2>1. PICK cs : cs = IF q.force THEN ToSet(dbRows) ELSE {}
    OBVIOUS
  <2>2. Serve(q, done, dbRows, cs) /\ q.op = "checkAll"
    BY <1>7, <1>10, <2>1 DEF ServeCheckAll
  <2>3. cs \in SUBSET Row
    BY <1>1, <2>1, InSet
  <2>4. GoodReply(q, done, dbRows, cs)
    BY <1>1, <1>8, <2>1, <2>2, <2>3 DEF GoodReply
  <2>5. QED
    BY <2>2, <2>4, ServeGives
<1>11. CASE ServeOrder(q)
  <2>1. PICK rs : rs = MovedIn(dbRows, q.row, q.extra)
    OBVIOUS
  <2>2. Serve(q, done, rs, dbChecks) /\ q.op = "setPosition"
    BY <1>7, <1>11, <2>1 DEF ServeOrder, Moved, MovedIn, Where
  <2>3. /\ Contains(dbRows, q.row) /\ {q.extra.prev, q.extra.next} \subseteq ToSet(dbRows) \union {Table}
        /\ q.row \in Row
        /\ q.extra.prev # Table \/ q.extra.next # Table
        /\ q.extra.prev # q.row /\ q.extra.next # q.row
    BY <1>1, <1>11, <2>2 DEF ServeOrder, AskedFits
  <2>4. rs \in Unrepeated(Row)
    BY <1>1, <2>1, <2>3, MovedKeeps
  <2>5. GoodReply(q, done, rs, dbChecks)
    BY <1>1, <1>8, <2>1, <2>2, <2>4 DEF GoodReply
  <2>6. QED
    BY <2>2, <2>5, ServeGives
<1>12. CASE ServeInUse(q)
  <2>1. PICK a : a = IF q.op = "del" THEN Form("inUse", q.row) ELSE Changed("dataInUseForm", q.row)
    OBVIOUS
  <2>2. /\ q.answer.res = "none" /\ q.op \in {"edit", "del", "editBoolean"} /\ ~q.force
        /\ requests' = (requests \ {q}) \union {[q EXCEPT !.answer = a]}
        /\ lost' = lost \union {<<q.op, FALSE, "questioned">>}
        /\ UNCHANGED <<tableKind, view, dbRows, dbChecks, issued, sent, overlapped>>
    BY <1>12, <2>1 DEF ServeInUse
  <2>3. /\ a.res = "ok" /\ ChangeFits(q, a.change) /\ RowsAfter(dbRows, a) = dbRows
        /\ q.op = "editBoolean" => IsQuestion(a)
    <3>1. CASE q.op = "del"
      <4>1. a.res = "ok" /\ a.change = FormFor("inUse", q.row)
        BY <2>1, <3>1 DEF Form, Ok, FormFor
      <4>2. QED
        BY <2>2, <3>1, <4>1 DEF ChangeFits, RowsAfter, RowsMade, FormFor
    <3>2. CASE q.op # "del"
      <4>1. a.res = "ok" /\ a.change = OfRow("dataInUseForm", q.row)
        BY <2>1, <3>2 DEF Changed, Ok, OfRow
      <4>2. QED
        BY <2>2, <3>2, <4>1 DEF ChangeFits, RowsAfter, RowsMade, OfRow, IsQuestion
    <3>3. QED
      BY <3>1, <3>2
  <2>8. PICK t : t = <<q.op, FALSE, "questioned">>
    OBVIOUS
  <2>9. t[1] = q.op /\ lost' = lost \union {t}
    BY <2>2, <2>8
  <2>6. lost \subseteq lost' /\ (\A l \in lost' \ lost : l[1] = q.op) /\ <<q.op, FALSE, "questioned">> \in lost'
    BY <2>8, <2>9
  <2>7. dbRows' = dbRows /\ dbChecks' = dbChecks /\ q.answer.res = "none"
    BY <2>2
  <2>4. ServedRight(q, a)
    BY <2>2, <2>3, <2>6, <2>7 DEF ServedRight
  <2>5. QED
    BY <1>1, <2>2, <2>4, RightFits DEF ServedWell
<1>13. ASSUME NEW res \in {"refused", "failed"}, Lose(q, res) PROVE TableShape' /\ \E a : ServedWell(q, a)
  <2>1. PICK a : a = [res |-> res]
    OBVIOUS
  <2>2. /\ q.answer.res = "none"
        /\ res = "refused" => q.op \notin {"changeList", "custom"}
        /\ requests' = (requests \ {q}) \union {[q EXCEPT !.answer = a]}
        /\ lost' = lost \union {<<q.op, q.force, res>>}
        /\ UNCHANGED <<tableKind, view, dbRows, dbChecks, issued, sent, overlapped>>
    BY <1>13, <2>1 DEF Lose
  <2>3. a.res = res /\ a.res # "ok" /\ RowsAfter(dbRows, a) = dbRows /\ ~IsQuestion(a)
    BY <2>1 DEF RowsAfter, IsQuestion
  <2>6. lost \subseteq lost' /\ (\A l \in lost' \ lost : l[1] = q.op) /\ <<q.op, q.force, res>> \in lost'
    BY <2>2
  <2>7. dbRows' = dbRows /\ dbChecks' = dbChecks /\ q.answer.res = "none"
    BY <2>2
  <2>4. ServedRight(q, a)
    BY <2>2, <2>3, <2>6, <2>7 DEF ServedRight
  <2>5. QED
    BY <1>1, <2>2, <2>4, RightFits DEF ServedWell
<1>14. QED
  BY <1>2, <1>3, <1>4, <1>5, <1>6, <1>9, <1>10, <1>11, <1>12, <1>13 DEF Serves

-----------------------------------------------------------------------------
(* What a click does.                                                      *)

\* What a request replaced by spinners.
IsAway(q, p) ==
    \/ q.op \in {"add", "edit"} /\ p = Buttons
    \/ q.op \in {"del", "changeEdit", "changeClone"} /\ p = Actions(q.row)
    \/ q.op = "changeAdd" /\ p = CreatingForm
    \/ q.op = "changeList" /\ p = Pager
    \/ q.op = "checkAll" /\ p \in ChecksOf(q.extra.rows)
    \/ q.op = "custom" /\ p = Custom(q.row)

SpinnersCover(u, v, q) ==
    /\ \A p \in Place : u.html[p] = IF IsAway(q, p) THEN "loading" ELSE v.html[p]
    /\ \A p \in Place : u.saved[p] = IF IsAway(q, p) /\ q.op # "changeList"
                                         THEN IF v.html[p] = "sending" THEN "hidden" ELSE v.html[p]
                                         ELSE v.saved[p]
    /\ u.rows = v.rows /\ u.checked = v.checked

BoxTurned(u, v, q) ==
    /\ \A p \in Place : u.html[p] = IF p = Check(q.row) /\ v.html[p] = "own" THEN "sending" ELSE v.html[p]
    /\ u.saved = v.saved /\ u.rows = v.rows
    /\ u.checked = IF q.force THEN v.checked ELSE SymDiff(v.checked, {q.row})
    /\ q.extra.rows = {q.row} \intersect u.checked

RowDropped(u, v, q) ==
    /\ u.html = v.html /\ u.saved = v.saved /\ u.checked = v.checked
    /\ u.rows = MovedIn(v.rows, q.row, q.extra)

\* One of the questions goes, and the form with it when it is in the form.
Unasked(u, v) ==
    /\ u.warning = Table /\ u.top = v.top /\ u.formShown = v.formShown
    /\ v.warning # Table => u.inUse = v.inUse /\ u.form = v.form
    /\ v.warning = Table => u.inUse = Table /\ u.form = IF v.inUse # Table THEN "none" ELSE v.form

Shows(u, v, q) ==
    /\ q.op \notin {"setPosition", "editBoolean"} => SpinnersCover(u, v, q)
    /\ q.op = "editBoolean" => BoxTurned(u, v, q)
    /\ q.op = "setPosition" => RowDropped(u, v, q)
    /\ q.force /\ q.op # "checkAll" => Unasked(u, v)
    /\ ~(q.force /\ q.op # "checkAll") => SameWay(u, v) /\ SameAsked(u, v)

\* What must be on the page.
Allowed(v, q) ==
    /\ q.op = "add" => v.form = "add" /\ v.formShown /\ v.html[Buttons] = "own"
    /\ q.op = "edit" => IF q.force THEN v.warning = q.row
                        ELSE v.form = q.row /\ v.formShown /\ v.html[Buttons] = "own"
    /\ q.op = "del" => IF q.force THEN v.inUse = q.row /\ v.formShown
                       ELSE q.row \in ToSet(v.rows) /\ v.html[Actions(q.row)] = "own"
    /\ q.op = "changeAdd" => v.top /\ v.html[CreatingForm] = "own"
    /\ q.op \in {"changeEdit", "changeClone"} => q.row \in ToSet(v.rows) /\ v.html[Actions(q.row)] = "own"
    /\ q.op = "changeList" => v.html[Pager] = "own"
    /\ q.op = "editBoolean" => IF q.force THEN v.warning = q.row
                               ELSE q.row \in ToSet(v.rows) /\ v.html[Check(q.row)] = "own"
    /\ q.op = "checkAll" => q.extra.rows = {r \in ToSet(v.rows) : v.html[Check(r)] # "loading"}
    /\ q.op = "custom" => q.row \in ToSet(v.rows) /\ v.html[Custom(q.row)] = "own"
    /\ q.force => q.op \in {"edit", "del", "editBoolean", "checkAll"}

ClickSent(q) ==
    /\ IsRequest(q) /\ AskedFits(tableKind, q) /\ q.answer.res = "none"
    /\ requests' = requests \union {q} /\ sent' = sent \union {q.op}
    /\ overlapped' = (overlapped \/ requests # {} \/ (Asked /\ ~q.force))
    /\ UNCHANGED <<tableKind, dbRows, dbChecks, lost>>
    /\ Shows(view', view, q) /\ Allowed(view, q)

LEMMA ClickGives ==
  ASSUME TableShape, NEW op, NEW r, NEW force, NEW extra, Send(op, r, force, extra), NEW q,
         q = [id |-> issued, op |-> op, row |-> r, force |-> force, extra |-> extra, answer |-> [res |-> "none"]],
         r \in SomeRow, force \in BOOLEAN, extra \in TableExtras, AskedFits(tableKind, q),
         view' \in TableViews, Shows(view', view, q), Allowed(view, q)
  PROVE  TableShape' /\ \E p : ClickSent(p)
<1>1. /\ q.op = op /\ q.row = r /\ q.force = force /\ q.extra = extra /\ q.answer.res = "none"
  OBVIOUS
<1>2. OtherKind(tableKind, view')
  <2>1. SUFFICES ASSUME tableKind # "rows"
                 PROVE  ~view'.formShown /\ view'.inUse = Table /\ \A s \in Row : view'.saved[Actions(s)] = "none"
    BY DEF OtherKind
  <2>2. ~view.formShown /\ view.inUse = Table /\ \A s \in Row : view.saved[Actions(s)] = "none"
    BY <2>1 DEF TableShape, OtherKind
  <2>3. q.op \in {"changeList", "editBoolean", "checkAll", "custom"}
    BY <2>1 DEF AskedFits, OpsOf, TableKinds
  <2>4. ~view'.formShown /\ view'.inUse = Table
    BY <2>2, <2>3 DEF Shows, Unasked, SameWay, SameAsked
  <2>5. ASSUME NEW s \in Row PROVE view'.saved[Actions(s)] = "none"
    <3>1. Actions(s) \in Place /\ ~IsAway(q, Actions(s))
      BY <2>3, PlacesDiffer DEF IsAway, PlacesApart, ChecksOf
    <3>2. QED
      BY <2>2, <2>3, <3>1 DEF Shows, SpinnersCover, BoxTurned
  <2>6. QED
    BY <2>4, <2>5
<1>3. TableShape' /\ requests' = requests \union {q} /\ IsRequest(q)
  BY <1>2, SentFits
<1>4. /\ overlapped' = (overlapped \/ requests # {} \/ (Asked /\ ~force)) /\ sent' = sent \union {op}
      /\ UNCHANGED <<tableKind, dbRows, dbChecks, lost>>
  BY DEF Send
<1>5. ClickSent(q)
  BY <1>1, <1>3, <1>4 DEF ClickSent
<1>6. QED
  BY <1>3, <1>5

LEMMA CoversIs ==
  ASSUME NEW v \in TableViews, NEW q, NEW P \in SUBSET Place, \A p \in Place : p \in P <=> IsAway(q, p),
         NEW keep \in BOOLEAN, keep <=> q.op # "changeList", NEW u, u = SetLoading(v, P, keep),
         NEW w, w = IF q.force /\ q.op # "checkAll" THEN RemoveWarnings(u) ELSE u,
         q.op \notin {"setPosition", "editBoolean"}
  PROVE  w \in TableViews /\ Shows(w, v, q)
<1>1. /\ u \in TableViews /\ SameWay(u, v) /\ SameAsked(u, v) /\ SameRows(u, v)
      /\ HtmlIs(u, v, P, "loading")
      /\ \A p \in Place : u.saved[p] = IF p \in P /\ keep
                                         THEN IF v.html[p] = "sending" THEN "hidden" ELSE v.html[p]
                                         ELSE v.saved[p]
  BY SetLoadingIs
<1>2. SpinnersCover(u, v, q)
  <2>1. \A p \in Place : u.html[p] = IF IsAway(q, p) THEN "loading" ELSE v.html[p]
    BY <1>1 DEF HtmlIs
  <2>2. \A p \in Place : u.saved[p] = IF IsAway(q, p) /\ q.op # "changeList"
                                         THEN IF v.html[p] = "sending" THEN "hidden" ELSE v.html[p]
                                         ELSE v.saved[p]
    BY <1>1
  <2>3. QED
    BY <1>1, <2>1, <2>2 DEF SpinnersCover, SameRows
<1>3. CASE ~(q.force /\ q.op # "checkAll")
  <2>1. w = u
    BY <1>3
  <2>2. QED
    BY <1>1, <1>2, <1>3, <2>1 DEF Shows
<1>4. CASE q.force /\ q.op # "checkAll"
  <2>1. w = RemoveWarnings(u)
    BY <1>4
  <2>2. /\ w \in TableViews /\ SameRows(w, u) /\ w.html = u.html /\ w.saved = u.saved
        /\ w.top = u.top /\ w.formShown = u.formShown
        /\ w.warning = Table
        /\ u.warning # Table => w.inUse = u.inUse /\ w.form = u.form
        /\ u.warning = Table => w.inUse = Table /\ w.form = IF u.inUse # Table THEN "none" ELSE u.form
    BY <1>1, <2>1, RemoveWarningsIs
  <2>3. Unasked(w, v)
    BY <1>1, <2>2 DEF Unasked, SameWay, SameAsked
  <2>4. SpinnersCover(w, v, q)
    BY <1>2, <2>2 DEF SpinnersCover, SameRows
  <2>5. QED
    BY <1>4, <2>2, <2>3, <2>4 DEF Shows
<1>5. QED
  BY <1>3, <1>4

LEMMA NoExtraFits == NoExtra \in TableExtras
  BY DEF NoExtra, TableExtras, SomeRow

LEMMA AddClick ==
  ASSUME TableShape, AddNewRow
  PROVE  TableShape' /\ \E p : ClickSent(p)
<1>1. PICK q : q = [id |-> issued, op |-> "add", row |-> Table, force |-> FALSE, extra |-> NoExtra,
                    answer |-> [res |-> "none"]]
  OBVIOUS
<1>2. q.op = "add" /\ q.row = Table /\ ~q.force
  BY <1>1
<1>3. /\ FormOpen("add") /\ view' = SetLoading(view, {Buttons}, TRUE)
      /\ Send("add", Table, FALSE, NoExtra) /\ view \in TableViews
  BY DEF AddNewRow, TableShape
<1>4. {Buttons} \in SUBSET Place /\ \A p \in Place : p \in {Buttons} <=> IsAway(q, p)
  BY <1>2, PlacesDiffer DEF IsAway, PlacesApart
<1>5. view' \in TableViews /\ Shows(view', view, q)
  <2>1. PICK u : u = view'
    OBVIOUS
  <2>2. u = SetLoading(view, {Buttons}, TRUE) /\ TRUE \in BOOLEAN
    BY <1>3, <2>1
  <2>3. QED
    BY <1>2, <1>3, <1>4, <2>1, <2>2, CoversIs
<1>6. tableKind = "rows"
  BY <1>3 DEF FormOpen, TableShape, OtherKind
<1>7. AskedFits(tableKind, q)
  BY <1>2, <1>6 DEF AskedFits, OpsOf, TableKinds
<1>8. Allowed(view, q)
  BY <1>2, <1>3 DEF Allowed, FormOpen
<1>9. Table \in SomeRow /\ FALSE \in BOOLEAN
  BY DEF SomeRow
<1>10. QED
  BY <1>1, <1>3, <1>5, <1>7, <1>8, <1>9, NoExtraFits, ClickGives

LEMMA ViewClick ==
  ASSUME TableShape, ChangeView
  PROVE  TableShape' /\ \E p : ClickSent(p)
<1>1. PICK q : q = [id |-> issued, op |-> "changeList", row |-> Table, force |-> FALSE, extra |-> NoExtra,
                    answer |-> [res |-> "none"]]
  OBVIOUS
<1>2. q.op = "changeList" /\ q.row = Table /\ ~q.force
  BY <1>1
<1>3. /\ tableKind # "none" /\ view.html[Pager] = "own" /\ view' = SetLoading(view, {Pager}, FALSE)
      /\ Send("changeList", Table, FALSE, NoExtra) /\ view \in TableViews
  BY DEF ChangeView, TableShape
<1>4. {Pager} \in SUBSET Place /\ \A p \in Place : p \in {Pager} <=> IsAway(q, p)
  BY <1>2, PlacesDiffer DEF IsAway, PlacesApart
<1>5. view' \in TableViews /\ Shows(view', view, q)
  <2>1. PICK u : u = view'
    OBVIOUS
  <2>2. u = SetLoading(view, {Pager}, FALSE) /\ FALSE \in BOOLEAN
    BY <1>3, <2>1
  <2>3. QED
    BY <1>2, <1>3, <1>4, <2>1, <2>2, CoversIs
<1>7. AskedFits(tableKind, q)
  BY <1>2, <1>3 DEF AskedFits, OpsOf, TableKinds, TableShape
<1>8. Allowed(view, q)
  BY <1>2, <1>3 DEF Allowed
<1>9. Table \in SomeRow /\ FALSE \in BOOLEAN
  BY DEF SomeRow
<1>10. QED
  BY <1>1, <1>3, <1>5, <1>7, <1>8, <1>9, NoExtraFits, ClickGives

LEMMA ChangeClick ==
  ASSUME TableShape, NEW r \in Row, NEW force \in BOOLEAN, ChangeRow(r, force)
  PROVE  TableShape' /\ \E p : ClickSent(p)
<1>1. PICK q : q = [id |-> issued, op |-> "edit", row |-> r, force |-> force, extra |-> NoExtra,
                    answer |-> [res |-> "none"]]
  OBVIOUS
<1>2. q.op = "edit" /\ q.row = r /\ q.force = force
  BY <1>1
<1>3. /\ tableKind = "rows" /\ IF force THEN view.warning = r ELSE FormOpen(r)
      /\ view' = IF force THEN RemoveWarnings(SetLoading(view, {Buttons}, TRUE)) ELSE SetLoading(view, {Buttons}, TRUE)
      /\ Send("edit", r, force, NoExtra) /\ view \in TableViews
  BY DEF ChangeRow, TableShape
<1>4. {Buttons} \in SUBSET Place /\ \A p \in Place : p \in {Buttons} <=> IsAway(q, p)
  BY <1>2, PlacesDiffer DEF IsAway, PlacesApart
<1>5. view' \in TableViews /\ Shows(view', view, q)
  <2>1. PICK u : u = SetLoading(view, {Buttons}, TRUE)
    OBVIOUS
  <2>2. PICK w : w = view'
    OBVIOUS
  <2>3. w = IF q.force /\ q.op # "checkAll" THEN RemoveWarnings(u) ELSE u
    BY <1>2, <1>3, <2>1, <2>2
  <2>4. QED
    BY <1>2, <1>3, <1>4, <2>1, <2>2, <2>3, CoversIs
<1>7. AskedFits(tableKind, q)
  BY <1>2, <1>3 DEF AskedFits, OpsOf, TableKinds
<1>8. Allowed(view, q)
  BY <1>2, <1>3 DEF Allowed, FormOpen
<1>9. r \in SomeRow
  BY DEF SomeRow
<1>10. QED
  BY <1>1, <1>3, <1>5, <1>7, <1>8, <1>9, NoExtraFits, ClickGives

LEMMA DeleteClick ==
  ASSUME TableShape, NEW r \in Row, NEW force \in BOOLEAN, DeleteActionClicked(r, force)
  PROVE  TableShape' /\ \E p : ClickSent(p)
<1>1. PICK q : q = [id |-> issued, op |-> "del", row |-> r, force |-> force, extra |-> NoExtra,
                    answer |-> [res |-> "none"]]
  OBVIOUS
<1>2. q.op = "del" /\ q.row = r /\ q.force = force
  BY <1>1
<1>3. /\ IF force THEN view.inUse = r /\ view.formShown
         ELSE tableKind = "rows" /\ r \in InView /\ view.html[Actions(r)] = "own"
      /\ view' = IF force THEN RemoveWarnings(SetLoading(view, {Actions(r)}, TRUE)) ELSE SetLoading(view, {Actions(r)}, TRUE)
      /\ Send("del", r, force, NoExtra) /\ view \in TableViews
  BY DEF DeleteActionClicked, TableShape
<1>4. {Actions(r)} \in SUBSET Place /\ \A p \in Place : p \in {Actions(r)} <=> IsAway(q, p)
  BY <1>2, PlacesDiffer DEF IsAway, PlacesApart
<1>5. view' \in TableViews /\ Shows(view', view, q)
  <2>1. PICK u : u = SetLoading(view, {Actions(r)}, TRUE)
    OBVIOUS
  <2>2. PICK w : w = view'
    OBVIOUS
  <2>3. w = IF q.force /\ q.op # "checkAll" THEN RemoveWarnings(u) ELSE u
    BY <1>2, <1>3, <2>1, <2>2
  <2>4. QED
    BY <1>2, <1>3, <1>4, <2>1, <2>2, <2>3, CoversIs
<1>6. tableKind = "rows"
  BY <1>3 DEF TableShape, OtherKind
<1>7. AskedFits(tableKind, q)
  BY <1>2, <1>6 DEF AskedFits, OpsOf, TableKinds
<1>8. Allowed(view, q)
  BY <1>2, <1>3 DEF Allowed, InView
<1>9. r \in SomeRow
  BY DEF SomeRow
<1>10. QED
  BY <1>1, <1>3, <1>5, <1>7, <1>8, <1>9, NoExtraFits, ClickGives

LEMMA FormClick ==
  ASSUME TableShape, NEW r \in Row, NEW action \in {"changeAdd", "changeEdit", "changeClone"},
         ShowChangeRowForm(action, r)
  PROVE  TableShape' /\ \E p : ClickSent(p)
<1>1. PICK q : q = [id |-> issued, op |-> action, row |-> r, force |-> FALSE, extra |-> NoExtra,
                    answer |-> [res |-> "none"]]
  OBVIOUS
<1>2. q.op = action /\ q.row = r /\ ~q.force
  BY <1>1
<1> DEFINE place == IF action = "changeAdd" THEN CreatingForm ELSE Actions(r)
<1>3. /\ tableKind = "rows"
      /\ IF action = "changeAdd" THEN view.top /\ view.html[CreatingForm] = "own"
         ELSE r \in InView /\ view.html[Actions(r)] = "own"
      /\ view' = SetLoading(view, {place}, TRUE)
      /\ Send(action, r, FALSE, NoExtra) /\ view \in TableViews
  BY DEF ShowChangeRowForm, TableShape
<1>4. {place} \in SUBSET Place /\ \A p \in Place : p \in {place} <=> IsAway(q, p)
  BY <1>2, PlacesDiffer DEF IsAway, PlacesApart
<1>5. view' \in TableViews /\ Shows(view', view, q)
  <2> HIDE DEF place
  <2>1. PICK u : u = view'
    OBVIOUS
  <2>2. u = SetLoading(view, {place}, TRUE) /\ TRUE \in BOOLEAN
    BY <1>3, <2>1
  <2>3. QED
    BY <1>2, <1>3, <1>4, <2>1, <2>2, CoversIs
<1>7. AskedFits(tableKind, q)
  BY <1>2, <1>3 DEF AskedFits, OpsOf, TableKinds
<1>8. Allowed(view, q)
  BY <1>2, <1>3 DEF Allowed, InView
<1>9. r \in SomeRow /\ FALSE \in BOOLEAN
  BY DEF SomeRow
<1>10. QED
  BY <1>1, <1>3, <1>5, <1>7, <1>8, <1>9, NoExtraFits, ClickGives

LEMMA CustomClick ==
  ASSUME TableShape, NEW r \in Row, CustomActionClicked(r)
  PROVE  TableShape' /\ \E p : ClickSent(p)
<1>1. PICK q : q = [id |-> issued, op |-> "custom", row |-> r, force |-> FALSE, extra |-> NoExtra,
                    answer |-> [res |-> "none"]]
  OBVIOUS
<1>2. q.op = "custom" /\ q.row = r /\ ~q.force
  BY <1>1
<1> DEFINE v == [view EXCEPT !.disabled = @ \union (InView \ {r})]
<1>3. /\ tableKind = "actions" /\ r \in InView /\ view.html[Custom(r)] = "own"
      /\ view' = SetLoading(v, {Custom(r)}, TRUE)
      /\ Send("custom", r, FALSE, NoExtra) /\ view \in TableViews
  BY DEF CustomActionClicked, TableShape
<1>4. {Custom(r)} \in SUBSET Place /\ \A p \in Place : p \in {Custom(r)} <=> IsAway(q, p)
  BY <1>2, PlacesDiffer DEF IsAway, PlacesApart
<1>5. view' \in TableViews /\ Shows(view', view, q)
  <2>1. InView \subseteq Row
    BY <1>3, InSet DEF InView, TableViews
  <2>2. /\ v \in TableViews /\ SameWay(v, view) /\ SameAsked(v, view)
        /\ v.html = view.html /\ v.saved = view.saved /\ v.rows = view.rows /\ v.checked = view.checked
    <3>1. PICK d : d = view.disabled \union (InView \ {r})
      OBVIOUS
    <3>2. v = [view EXCEPT !.disabled = d] /\ d \in SUBSET Row
      BY <1>3, <2>1, <3>1 DEF TableViews
    <3> HIDE DEF v
    <3>3. QED
      BY <1>3, <3>2 DEF TableViews, SameWay, SameAsked
  <2> HIDE DEF v
  <2>3. PICK u : u = view'
    OBVIOUS
  <2>4. u = SetLoading(v, {Custom(r)}, TRUE) /\ TRUE \in BOOLEAN
    BY <1>3, <2>3
  <2>5. u \in TableViews /\ Shows(u, v, q)
    BY <1>2, <1>4, <2>2, <2>4, CoversIs
  <2>6. QED
    BY <1>2, <2>2, <2>3, <2>5 DEF Shows, SpinnersCover, SameWay, SameAsked
<1>7. AskedFits(tableKind, q)
  BY <1>2, <1>3 DEF AskedFits, OpsOf, TableKinds
<1>8. Allowed(view, q)
  BY <1>2, <1>3 DEF Allowed, InView
<1>9. r \in SomeRow /\ FALSE \in BOOLEAN
  BY DEF SomeRow
<1>10. QED
  BY <1>1, <1>3, <1>5, <1>7, <1>8, <1>9, NoExtraFits, ClickGives

LEMMA ExtraRows ==
  ASSUME NEW rs \in SUBSET Row, NEW e, e = [NoExtra EXCEPT !.rows = rs]
  PROVE  e \in TableExtras /\ e.rows = rs
  BY DEF NoExtra, TableExtras, SomeRow

LEMMA CheckAllClick ==
  ASSUME TableShape, NEW value \in BOOLEAN, CheckAll(value)
  PROVE  TableShape' /\ \E p : ClickSent(p)
<1>1. PICK rs : rs = {r \in InView : view.html[Check(r)] # "loading"}
  OBVIOUS
<1>2. PICK e : e = [NoExtra EXCEPT !.rows = rs]
  OBVIOUS
<1>3. PICK q : q = [id |-> issued, op |-> "checkAll", row |-> Table, force |-> value, extra |-> e,
                    answer |-> [res |-> "none"]]
  OBVIOUS
<1>4. q.op = "checkAll" /\ q.row = Table /\ q.extra = e
  BY <1>3
<1>5. /\ tableKind = "checks" /\ view' = SetLoading(view, ChecksOf(rs), TRUE)
      /\ Send("checkAll", Table, value, e) /\ view \in TableViews
  BY <1>1, <1>2 DEF CheckAll, TableShape, ChecksOf
<1>6. rs \in SUBSET Row
  BY <1>1, <1>5, InSet DEF InView, TableViews
<1>7. e \in TableExtras /\ e.rows = rs
  BY <1>2, <1>6, ExtraRows
<1>8. ChecksOf(rs) \in SUBSET Place /\ \A p \in Place : p \in ChecksOf(rs) <=> IsAway(q, p)
  BY <1>4, <1>6, <1>7, PlacesDiffer DEF IsAway, PlacesApart, ChecksOf
<1>9. view' \in TableViews /\ Shows(view', view, q)
  <2>1. PICK u : u = view'
    OBVIOUS
  <2>2. u = SetLoading(view, ChecksOf(rs), TRUE) /\ TRUE \in BOOLEAN
    BY <1>5, <2>1
  <2>3. QED
    BY <1>4, <1>5, <1>8, <2>1, <2>2, CoversIs
<1>10. AskedFits(tableKind, q)
  BY <1>4, <1>5 DEF AskedFits, OpsOf, TableKinds
<1>11. Allowed(view, q)
  BY <1>1, <1>4, <1>7 DEF Allowed, InView
<1>12. Table \in SomeRow
  BY DEF SomeRow
<1>13. QED
  BY <1>3, <1>5, <1>7, <1>9, <1>10, <1>11, <1>12, ClickGives

LEMMA BooleanClick ==
  ASSUME TableShape, NEW r \in Row, NEW force \in BOOLEAN, SendInPlaceBooleanValue(r, force)
  PROVE  TableShape' /\ \E p : ClickSent(p)
<1>1. PICK checked : checked = IF force THEN view.checked ELSE SymDiff(view.checked, {r})
  OBVIOUS
<1>2. PICK e : e = [NoExtra EXCEPT !.rows = {r} \intersect checked]
  OBVIOUS
<1>3. PICK q : q = [id |-> issued, op |-> "editBoolean", row |-> r, force |-> force, extra |-> e,
                    answer |-> [res |-> "none"]]
  OBVIOUS
<1>4. q.op = "editBoolean" /\ q.row = r /\ q.extra = e /\ q.force = force
  BY <1>3
<1>5. PICK html : html = [view.html EXCEPT ![Check(r)] = IF view.html[Check(r)] = "own" THEN "sending" ELSE view.html[Check(r)]]
  OBVIOUS
<1>6. PICK v : v = [view EXCEPT !.checked = checked, !.html = html]
  OBVIOUS
<1>7. /\ tableKind = "checks" /\ view' = (IF force THEN RemoveWarnings(v) ELSE v)
      /\ IF force THEN view.warning = r ELSE r \in InView /\ view.html[Check(r)] = "own"
      /\ Send("editBoolean", r, force, e) /\ view \in TableViews
  BY <1>1, <1>2, <1>5, <1>6 DEF SendInPlaceBooleanValue, TableShape
<1>8. {r} \intersect checked \in SUBSET Row /\ checked \in SUBSET Row
  BY <1>1, <1>7 DEF TableViews, SymDiff
<1>9. e \in TableExtras /\ e.rows = {r} \intersect checked
  BY <1>2, <1>8, ExtraRows
<1>10. /\ html \in [Place -> Content]
       /\ \A p \in Place : html[p] = IF p = Check(r) /\ view.html[p] = "own" THEN "sending" ELSE view.html[p]
  BY <1>5, <1>7, PlacesDiffer DEF TableViews, PlacesApart, Content
<1>11. /\ v \in TableViews /\ v.html = html /\ v.checked = checked /\ v.saved = view.saved /\ v.rows = view.rows
       /\ SameWay(v, view) /\ SameAsked(v, view)
  BY <1>6, <1>7, <1>8, <1>10 DEF TableViews, SameWay, SameAsked
<1>12. view' \in TableViews /\ Shows(view', view, q)
  <2>1. PICK u : u = view'
    OBVIOUS
  <2>2. BoxTurned(v, view, q)
    BY <1>1, <1>4, <1>9, <1>10, <1>11 DEF BoxTurned
  <2>3. CASE ~force
    <3>1. u = v
      BY <1>7, <2>1, <2>3
    <3>2. QED
      BY <1>4, <1>11, <2>1, <2>2, <2>3, <3>1 DEF Shows
  <2>4. CASE force
    <3>1. u = RemoveWarnings(v)
      BY <1>7, <2>1, <2>4
    <3>2. /\ u \in TableViews /\ SameRows(u, v) /\ u.html = v.html /\ u.saved = v.saved
          /\ u.top = v.top /\ u.formShown = v.formShown
          /\ u.warning = Table
          /\ v.warning # Table => u.inUse = v.inUse /\ u.form = v.form
          /\ v.warning = Table => u.inUse = Table /\ u.form = IF v.inUse # Table THEN "none" ELSE v.form
      BY <1>11, <3>1, RemoveWarningsIs
    <3>3. BoxTurned(u, view, q)
      BY <2>2, <3>2 DEF BoxTurned, SameRows
    <3>4. Unasked(u, view)
      BY <1>11, <3>2 DEF Unasked, SameWay, SameAsked
    <3>5. QED
      BY <1>4, <2>1, <2>4, <3>2, <3>3, <3>4 DEF Shows
  <2>5. QED
    BY <2>3, <2>4
<1>13. AskedFits(tableKind, q)
  BY <1>4, <1>7, <1>9 DEF AskedFits, OpsOf, TableKinds
<1>14. Allowed(view, q)
  BY <1>4, <1>7 DEF Allowed, InView
<1>15. r \in SomeRow
  BY DEF SomeRow
<1>16. QED
  BY <1>3, <1>7, <1>9, <1>12, <1>13, <1>14, <1>15, ClickGives

LEMMA OrderClick ==
  ASSUME TableShape, NEW r \in Row, NEW to, ChangeOrder(r, to)
  PROVE  TableShape' /\ \E p : ClickSent(p)
<1>1. PICK order : order = InsertAt(RemoveFirst(view.rows, r), to, r)
  OBVIOUS
<1>2. PICK e : e = [rows |-> {}, prev |-> IF to > 1 THEN order[to - 1] ELSE Table,
                    next |-> IF to < Len(order) THEN order[to + 1] ELSE Table]
  OBVIOUS
<1>3. PICK q : q = [id |-> issued, op |-> "setPosition", row |-> r, force |-> FALSE, extra |-> e,
                    answer |-> [res |-> "none"]]
  OBVIOUS
<1>4. q.op = "setPosition" /\ q.row = r /\ q.extra = e /\ ~q.force
  BY <1>3
<1>5. /\ tableKind = "rows" /\ r \in InView /\ to \in 1..Len(view.rows) /\ IsInjective(view.rows)
      /\ order # view.rows /\ view' = [view EXCEPT !.rows = order]
      /\ Send("setPosition", r, FALSE, e) /\ view \in TableViews
  BY <1>1, <1>2 DEF ChangeOrder, TableShape
<1>6. view.rows \in Unrepeated(Row) /\ Contains(view.rows, r) /\ view.rows \in Seq(Row)
  <2>1. view.rows \in Seq(Row)
    BY <1>5 DEF TableViews
  <2>2. Contains(view.rows, r)
    BY <1>5, <2>1, InSet DEF InView
  <2>3. QED
    BY <1>5, <2>1, <2>2 DEF Unrepeated, IsInjective
<1>7. /\ e.prev = (IF to > 1 THEN order[to - 1] ELSE Table) /\ e.next = IF to < Len(order) THEN order[to + 1] ELSE Table
      /\ e.rows = {}
  BY <1>2
<1>8. /\ MovedIn(view.rows, r, e) = order /\ order \in Unrepeated(Row) /\ ToSet(order) = ToSet(view.rows)
      /\ e.prev \in ToSet(view.rows) \union {Table} /\ e.next \in ToSet(view.rows) \union {Table}
      /\ e.prev # Table \/ e.next # Table
      /\ e.prev # r /\ e.next # r
  <2>1. PICK list : list = view.rows
    OBVIOUS
  <2>2. list \in Unrepeated(Row) /\ Contains(list, r) /\ to \in 1..Len(list) /\ order # list
        /\ order = InsertAt(RemoveFirst(list, r), to, r)
    BY <1>1, <1>5, <1>6, <2>1
  <2>3. QED
    BY <1>7, <2>1, <2>2, DroppedThere
<1>9. e \in TableExtras
  BY <1>2, <1>6, <1>8, InSet DEF TableExtras, SomeRow
<1>10. view' \in TableViews /\ Shows(view', view, q)
  <2>1. PICK u : u = view'
    OBVIOUS
  <2>2. u = [view EXCEPT !.rows = order] /\ order \in Seq(Row)
    BY <1>5, <1>8, <2>1 DEF Unrepeated
  <2>3. /\ u \in TableViews /\ u.rows = order /\ u.html = view.html /\ u.saved = view.saved /\ u.checked = view.checked
        /\ SameWay(u, view) /\ SameAsked(u, view)
    BY <1>5, <2>2 DEF TableViews, SameWay, SameAsked
  <2>4. RowDropped(u, view, q)
    BY <1>4, <1>8, <2>3 DEF RowDropped
  <2>5. QED
    BY <1>4, <2>1, <2>3, <2>4 DEF Shows
<1>11. AskedFits(tableKind, q)
  BY <1>4, <1>5, <1>8 DEF AskedFits, OpsOf, TableKinds
<1>12. Allowed(view, q)
  BY <1>4 DEF Allowed
<1>13. r \in SomeRow /\ FALSE \in BOOLEAN
  BY DEF SomeRow
<1>14. QED
  BY <1>3, <1>5, <1>9, <1>10, <1>11, <1>12, <1>13, ClickGives

Clicks ==
    \/ AddNewRow \/ ChangeView
    \/ \E r \in Row :
          \/ \E force \in BOOLEAN : ChangeRow(r, force) \/ DeleteActionClicked(r, force)
          \/ \E action \in {"changeAdd", "changeEdit", "changeClone"} : ShowChangeRowForm(action, r)
          \/ \E force \in BOOLEAN : SendInPlaceBooleanValue(r, force)
          \/ CustomActionClicked(r)
          \/ \E to \in 1..Cardinality(Row) : ChangeOrder(r, to)
    \/ \E value \in BOOLEAN : CheckAll(value)

\* Every click sends one request, and covers what it may change.
LEMMA ClicksWell ==
  ASSUME TableShape, Clicks
  PROVE  TableShape' /\ \E q : ClickSent(q)
  BY AddClick, ViewClick, ChangeClick, DeleteClick, FormClick, BooleanClick, CustomClick, OrderClick, CheckAllClick
   DEF Clicks

-----------------------------------------------------------------------------
(* What an answer makes of the page.                                       *)

TableRedrawn(w, v, rs, cs) ==
    /\ w \in TableViews /\ w.saved = v.saved /\ \A p \in Place : w.html[p] = "own"
    /\ w.top /\ ~w.formShown /\ w.form = "none" /\ w.inUse = Table /\ w.warning = Table
    /\ w.rows = rs /\ w.checked = cs

FormUp(w, v, f, r) ==
    /\ w \in TableViews /\ SameRows(w, v) /\ w.saved = v.saved /\ w.warning = v.warning
    /\ ~w.top /\ w.form = f /\ w.inUse = r /\ w.formShown /\ HtmlIs(w, v, {Buttons}, "own")

\* The other question goes.
QuestionUp(w, v, r) ==
    /\ w \in TableViews /\ SameRows(w, v) /\ w.html = v.html /\ w.saved = v.saved
    /\ ~w.top /\ ~w.formShown /\ w.warning = r
    /\ v.warning # Table => w.inUse = v.inUse
    /\ v.warning = Table => w.inUse = Table

UpdatedAs(w, v, q, c) ==
    \/ /\ q.op \in {"changeList", "custom", "add", "del"}
       /\ \E rs \in Seq(Row), cs \in SUBSET Row :
             c = [what |-> "reload", rows |-> rs, checks |-> cs] /\ TableRedrawn(w, v, rs, cs)
    \/ /\ q.op = "add" /\ w.saved = v.saved
       /\ \E r, after \in Row : RowDone(w, v, r, AddedTo(v.rows, r, after))
    \/ q.op = "edit" /\ w.saved = v.saved /\ RowDone(w, v, q.row, v.rows)
    \/ /\ q.op = "del" /\ RowDone(w, v, q.row, RemoveFirst(v.rows, q.row))
       /\ \A p \in Place : w.saved[p] = IF p = Actions(q.row) THEN "none" ELSE v.saved[p]
    \/ q.op = "del" /\ ~q.force /\ FormUp(w, v, "inUse", q.row)
    \/ q.op = "edit" /\ ~q.force /\ QuestionUp(w, v, q.row)
    \/ q.op \in {"changeAdd", "changeClone"} /\ FormUp(w, v, "add", Table)
    \/ q.op = "changeEdit" /\ FormUp(w, v, q.row, Table)

LEMMA UpdateShows ==
  ASSUME NEW v \in TableViews, NEW kind, NEW q, IsRequest(q), AskedFits(kind, q), NEW c, ChangeFits(q, c),
         q.op \in Updating, NEW u, u = UpdateTable(v, c)
  PROVE  UpdatedAs(u, v, q, c)
<1>1. CASE IsPage(c) /\ q.op \in {"changeList", "custom", "add", "del"}
  <2>1. PICK rs \in Seq(Row), cs \in SUBSET Row : c = [what |-> "reload", rows |-> rs, checks |-> cs]
    BY <1>1 DEF IsPage
  <2>2. u = Rendered(v, rs, cs)
    BY <2>1, ReloadIs
  <2>3. TableRedrawn(u, v, rs, cs)
    BY <2>2, RenderedIs DEF TableRedrawn
  <2>4. QED
    BY <1>1, <2>1, <2>3 DEF UpdatedAs
<1>2. CASE q.op = "add" /\ IsAdded(c)
  <2>1. PICK r \in Row, after \in Row : c = [what |-> "added", row |-> r, after |-> after]
    BY <1>2 DEF IsAdded
  <2>2. RowDone(u, v, r, AddedTo(v.rows, r, after)) /\ u.saved = v.saved
    BY <2>1, AddedIs
  <2>3. QED
    BY <1>2, <2>2 DEF UpdatedAs
<1>3. CASE q.op = "edit" /\ c = OfRow("changed", q.row)
  <2>1. q.row \in Row
    BY <1>3 DEF AskedFits
  <2>2. RowDone(u, v, q.row, v.rows) /\ u.saved = v.saved
    BY <1>3, <2>1, ChangedIs
  <2>3. QED
    BY <1>3, <2>2 DEF UpdatedAs
<1>4. CASE q.op = "del" /\ c = OfRow("removed", q.row)
  <2>1. q.row \in Row
    BY <1>4 DEF AskedFits
  <2>2. /\ RowDone(u, v, q.row, RemoveFirst(v.rows, q.row))
        /\ \A p \in Place : u.saved[p] = IF p = Actions(q.row) THEN "none" ELSE v.saved[p]
    BY <1>4, <2>1, RemovedIs
  <2>3. QED
    BY <1>4, <2>2 DEF UpdatedAs
<1>5. CASE q.op = "edit" /\ ~q.force /\ c = OfRow("dataInUseForm", q.row)
  <2>1. q.row \in Row
    BY <1>5 DEF AskedFits
  <2>2. PICK w : w = RemoveWarnings(v)
    OBVIOUS
  <2>3. /\ u \in TableViews /\ SameRows(u, v) /\ u.html = v.html /\ u.saved = v.saved
        /\ ~u.top /\ ~u.formShown /\ u.warning = q.row /\ u.form = w.form /\ u.inUse = w.inUse
    BY <1>5, <2>1, <2>2, QuestionIs
  <2>4. (v.warning # Table => w.inUse = v.inUse) /\ (v.warning = Table => w.inUse = Table)
    BY <2>2, RemoveWarningsIs
  <2>5. QuestionUp(u, v, q.row)
    BY <2>3, <2>4 DEF QuestionUp
  <2>6. QED
    BY <1>5, <2>5 DEF UpdatedAs
<1>6. ASSUME NEW f \in Row \union TableForms, NEW r \in SomeRow, c = FormFor(f, r)
      PROVE  FormUp(u, v, f, r)
  <2> DEFINE d == UpdateTable(v, FormFor(f, r))
  <2>1. /\ d \in TableViews /\ SameRows(d, v) /\ d.saved = v.saved /\ d.warning = v.warning
        /\ ~d.top /\ d.form = f /\ d.inUse = r /\ d.formShown
        /\ HtmlIs(d, v, {Buttons}, "own")
    BY FormMade
  <2>2. u = d
    BY <1>6
  <2> HIDE DEF d
  <2>3. QED
    BY <2>1, <2>2 DEF FormUp
<1>7. CASE q.op = "del" /\ ~q.force /\ c = FormFor("inUse", q.row)
  BY <1>6, <1>7 DEF TableForms, IsRequest, UpdatedAs
<1>8. CASE q.op \in {"changeAdd", "changeClone"} /\ c = FormFor("add", Table)
  BY <1>6, <1>8 DEF TableForms, SomeRow, UpdatedAs
<1>9. CASE q.op = "changeEdit" /\ c = FormFor(q.row, Table)
  BY <1>6, <1>9 DEF AskedFits, SomeRow, UpdatedAs
<1>10. QED
  BY <1>1, <1>2, <1>3, <1>4, <1>5, <1>7, <1>8, <1>9 DEF ChangeFits, Updating

\* A place is given back what was saved, or nothing.
RestoredAs(u, w, P) ==
    /\ u \in TableViews /\ SameWay(u, w) /\ SameAsked(u, w) /\ SameRows(u, w)
    /\ \A p \in Place : u.html[p] = IF p \in P /\ Present(w, p) THEN BackIn(w, p, FALSE) ELSE w.html[p]
    /\ \A p \in Place : u.saved[p] = IF p \in P THEN "none" ELSE w.saved[p]

LEMMA RestoreShows ==
  ASSUME NEW w \in TableViews, NEW P \in SUBSET Place, NEW u, u = RestoreHidden(w, P, FALSE)
  PROVE  RestoredAs(u, w, P)
<1> DEFINE d == RestoreHidden(w, P, FALSE)
<1>1. /\ d \in TableViews /\ SameWay(d, w) /\ SameAsked(d, w) /\ SameRows(d, w)
      /\ \A p \in Place : d.html[p] = IF p \in P /\ Present(w, p) THEN BackIn(w, p, FALSE) ELSE w.html[p]
      /\ \A p \in Place : d.saved[p] = IF p \in P THEN "none" ELSE w.saved[p]
  BY RestoreHiddenIs, ZenonT(60)
<1>2. u = d
  OBVIOUS
<1> HIDE DEF d
<1>3. QED
  BY <1>1, <1>2 DEF RestoredAs

BoxHeard(u, v, q) ==
    /\ SameRows(u, v) /\ u.saved = v.saved /\ u.formShown = v.formShown
    /\ \E replaced \in BOOLEAN :
          /\ replaced => \E p \in requests : p.id > q.id
          /\ \A p \in Place : u.html[p] = IF p = Check(q.row) /\ v.html[p] = "sending" /\ ~replaced THEN "own"
                                          ELSE v.html[p]
    /\ IsQuestion(q.answer) => /\ ~u.top /\ u.warning = q.row
                               /\ v.warning # Table => u.inUse = v.inUse /\ u.form = v.form
                               /\ v.warning = Table => /\ u.inUse = Table
                                                       /\ u.form = IF v.inUse # Table THEN "none" ELSE v.form
    /\ ~IsQuestion(q.answer) => u.top = v.top /\ u.form = v.form /\ SameAsked(u, v)

\* The callbacks, in terms of the update.
HeardAs(u, v, q) ==
    \/ /\ q.op \in {"add", "edit"}
       /\ \E w \in TableViews : /\ IF q.answer.res = "ok" THEN UpdatedAs(w, v, q, q.answer.change) ELSE w = v
                                /\ RestoredAs(u, w, {Buttons})
    \/ /\ q.op = "del"
       /\ IF q.answer.res = "ok" THEN UpdatedAs(u, v, q, q.answer.change) ELSE RestoredAs(u, v, {Actions(q.row)})
    \/ /\ q.op = "changeAdd"
       /\ IF q.answer.res = "ok" THEN UpdatedAs(u, v, q, q.answer.change)
          ELSE IF q.answer.res = "refused" THEN RestoredAs(u, v, {CreatingForm}) ELSE u = v
    \/ /\ q.op = "changeClone"
       /\ IF q.answer.res = "ok" THEN UpdatedAs(u, v, q, q.answer.change) ELSE u = v
    \/ /\ q.op = "changeEdit"
       /\ \E w \in TableViews : /\ IF q.answer.res = "ok" THEN UpdatedAs(w, v, q, q.answer.change)
                                   ELSE IF q.answer.res = "refused" THEN RestoredAs(w, v, {Actions(q.row)}) ELSE w = v
                                /\ RestoredAs(u, w, {Actions(q.row)})
    \/ /\ q.op = "changeList"
       /\ IF q.answer.res = "ok" THEN UpdatedAs(u, v, q, q.answer.change) ELSE u = v
    \/ /\ q.op = "custom"
       /\ \E w \in TableViews : /\ IF q.answer.res = "ok" THEN UpdatedAs(w, v, q, q.answer.change)
                                   ELSE RestoredAs(w, v, {Custom(q.row)})
                                /\ u.html = w.html /\ u.saved = w.saved /\ u.rows = w.rows /\ u.checked = w.checked
                                /\ SameWay(u, w) /\ SameAsked(u, w)
    \/ q.op = "setPosition" /\ u = v
    \/ q.op = "editBoolean" /\ BoxHeard(u, v, q)
    \/ q.op = "checkAll" /\ CheckedAll(u, v, q.force, q.extra.rows, q.answer)

LEMMA AnswerShows ==
  ASSUME view \in TableViews, NEW kind,
         NEW q, NEW ls, RequestFits(kind, q, ls), q.answer.res # "none",
         NEW u, u = Answered(q)
  PROVE  HeardAs(u, view, q)
<1>1. IsRequest(q) /\ AskedFits(kind, q) /\ AnswerFits(q, ls) /\ q.op \in TableOps
  BY OpsAre DEF RequestFits
<1>2. /\ Buttons \in Place /\ CreatingForm \in Place
      /\ \A r \in Row : Actions(r) \in Place /\ Custom(r) \in Place /\ Check(r) \in Place
  BY PlacesDiffer DEF PlacesApart
<1>3. CASE q.op \in Updating
  <2>1. PICK w : w = TableUpdated(view, q.answer)
    OBVIOUS
  <2>2. w \in TableViews /\ IF q.answer.res = "ok" THEN UpdatedAs(w, view, q, q.answer.change) ELSE w = view
    <3>1. CASE q.answer.res = "ok"
      <4>1. w = UpdateTable(view, q.answer.change) /\ ChangeFits(q, q.answer.change)
        BY <1>1, <2>1, <3>1 DEF TableUpdated, AnswerFits
      <4>2. PICK c : c = q.answer.change
        OBVIOUS
      <4>3. UpdatedAs(w, view, q, c)
        BY <1>1, <1>3, <4>1, <4>2, UpdateShows
      <4>4. w \in TableViews
        BY <4>3 DEF UpdatedAs, TableRedrawn, RowDone, FormUp, QuestionUp
      <4>5. QED
        BY <3>1, <4>2, <4>3, <4>4
    <3>2. CASE q.answer.res # "ok"
      BY <2>1, <3>2 DEF TableUpdated
    <3>3. QED
      BY <3>1, <3>2
  <2>3. ASSUME NEW p \in Place, NEW x \in TableViews, NEW y, y = RestoreHidden(x, {p}, FALSE)
        PROVE  RestoredAs(y, x, {p}) /\ y \in TableViews
    <3>1. PICK P \in SUBSET Place : P = {p}
      OBVIOUS
    <3>2. y = RestoreHidden(x, P, FALSE)
      BY <2>3, <3>1
    <3>3. RestoredAs(y, x, P)
      BY <3>2, RestoreShows
    <3>4. QED
      BY <3>1, <3>3 DEF RestoredAs
  <2>4. CASE q.op \in {"add", "edit"}
    <3>1. u = RestoreHidden(w, {Buttons}, FALSE)
      BY <1>1, <2>1, <2>4, AnsweredBy
    <3>2. RestoredAs(u, w, {Buttons})
      BY <1>2, <2>2, <2>3, <3>1
    <3>3. QED
      BY <2>2, <2>4, <3>2 DEF HeardAs
  <2>5. CASE q.op = "del"
    <3>1. u = IF q.answer.res = "ok" THEN w ELSE RestoreHidden(w, {Actions(q.row)}, FALSE)
      BY <1>1, <2>1, <2>5, AnsweredBy
    <3>2. q.row \in Row
      BY <1>1, <2>5 DEF AskedFits
    <3>3. q.answer.res # "ok" => RestoredAs(u, view, {Actions(q.row)})
      BY <1>2, <2>2, <2>3, <3>1, <3>2
    <3>4. QED
      BY <2>2, <2>5, <3>1, <3>3 DEF HeardAs
  <2>6. CASE q.op \in {"changeAdd", "changeEdit", "changeClone"}
    <3>0. PICK x : x = FormRestored(w, q)
      OBVIOUS
    <3>1. u = IF q.op = "changeEdit" THEN RestoreHidden(x, {Actions(q.row)}, FALSE) ELSE x
      BY <1>1, <2>1, <2>6, <3>0, AnsweredBy
    <3>2. q.row \in Row
      BY <1>1, <2>6 DEF AskedFits
    <3>3. CASE q.op = "changeEdit"
      <4>1. q.answer.res = "refused" => RestoredAs(x, w, {Actions(q.row)}) /\ x \in TableViews
        BY <1>2, <2>2, <2>3, <3>0, <3>2, <3>3 DEF FormRestored
      <4>2. q.answer.res # "refused" => x = w
        BY <3>0 DEF FormRestored
      <4>3. u = RestoreHidden(x, {Actions(q.row)}, FALSE) /\ x \in TableViews
        BY <2>2, <3>1, <3>3, <4>1, <4>2
      <4>4. RestoredAs(u, x, {Actions(q.row)})
        BY <1>2, <2>3, <3>2, <4>3
      <4>5. IF q.answer.res = "ok" THEN UpdatedAs(x, view, q, q.answer.change)
            ELSE IF q.answer.res = "refused" THEN RestoredAs(x, view, {Actions(q.row)}) ELSE x = view
        BY <2>2, <4>1, <4>2
      <4>6. QED
        BY <3>3, <4>3, <4>4, <4>5 DEF HeardAs
    <3>4. CASE q.op = "changeAdd"
      <4>1. u = x
        BY <3>1, <3>4
      <4>2. q.answer.res = "refused" => RestoredAs(x, w, {CreatingForm})
        BY <1>2, <2>2, <2>3, <3>0, <3>4 DEF FormRestored
      <4>3. q.answer.res # "refused" => x = w
        BY <3>0 DEF FormRestored
      <4>4. QED
        BY <2>2, <3>4, <4>1, <4>2, <4>3 DEF HeardAs
    <3>5. CASE q.op = "changeClone"
      <4>1. u = w
        BY <3>0, <3>1, <3>5 DEF FormRestored
      <4>2. QED
        BY <2>2, <3>5, <4>1 DEF HeardAs
    <3>6. QED
      BY <2>6, <3>3, <3>4, <3>5
  <2>7. CASE q.op = "changeList"
    <3>1. u = w
      BY <1>1, <2>1, <2>7, AnsweredBy
    <3>2. QED
      BY <2>2, <2>7, <3>1 DEF HeardAs
  <2>8. CASE q.op = "custom"
    <3>0. PICK x : x = CustomRestored(w, q)
      OBVIOUS
    <3>1. u = EnabledBut(x, q.row)
      BY <1>1, <2>1, <2>8, <3>0, AnsweredBy
    <3>2. q.row \in Row
      BY <1>1, <2>8 DEF AskedFits
    <3>3. q.answer.res = "ok" => x = w
      BY <3>0 DEF CustomRestored
    <3>4. q.answer.res # "ok" => RestoredAs(x, w, {Custom(q.row)}) /\ x \in TableViews
      BY <1>2, <2>2, <2>3, <3>0, <3>2 DEF CustomRestored
    <3>5. x \in TableViews /\ IF q.answer.res = "ok" THEN UpdatedAs(x, view, q, q.answer.change)
                              ELSE RestoredAs(x, view, {Custom(q.row)})
      BY <2>2, <3>3, <3>4
    <3>6. u = [x EXCEPT !.disabled = x.disabled \intersect {q.row}]
      BY <3>1 DEF EnabledBut
    <3>7. /\ u.html = x.html /\ u.saved = x.saved /\ u.rows = x.rows /\ u.checked = x.checked
          /\ SameWay(u, x) /\ SameAsked(u, x)
      BY <3>5, <3>6 DEF TableViews, SameWay, SameAsked
    <3>8. QED
      BY <2>8, <3>5, <3>7 DEF HeardAs
  <2>9. QED
    BY <1>3, <2>4, <2>5, <2>6, <2>7, <2>8 DEF Updating
<1>4. CASE q.op = "setPosition"
  BY <1>4 DEF Answered, HeardAs
<1>5. CASE q.op = "editBoolean"
  <2>1. PICK replaced \in BOOLEAN : /\ replaced <=> \E p \in requests : p.op = q.op /\ p.row = q.row /\ p.id > q.id
                                    /\ u = OnBoolean(view, q.row, q.answer, replaced)
    BY <1>5 DEF Answered
  <2>2. q.row \in Row
    BY <1>1, <1>5 DEF AskedFits
  <2>3. PICK w : w = RemoveWarnings(view)
    OBVIOUS
  <2>4. /\ SameRows(u, view) /\ u.saved = view.saved /\ u.formShown = view.formShown
        /\ \A p \in Place : u.html[p] = IF p = Check(q.row) /\ view.html[p] = "sending" /\ ~replaced THEN "own"
                                        ELSE view.html[p]
        /\ q.answer.res = "ok" /\ q.answer.change.what = "dataInUseForm"
              => ~u.top /\ u.warning = q.row /\ u.form = w.form /\ u.inUse = w.inUse
        /\ ~(q.answer.res = "ok" /\ q.answer.change.what = "dataInUseForm")
              => u.top = view.top /\ u.form = view.form /\ SameAsked(u, view)
    BY <2>1, <2>2, <2>3, BooleanIs
  <2>5. /\ view.warning # Table => w.inUse = view.inUse /\ w.form = view.form
        /\ view.warning = Table => w.inUse = Table /\ w.form = IF view.inUse # Table THEN "none" ELSE view.form
    BY <2>3, RemoveWarningsIs
  <2>6. /\ IsQuestion(q.answer) => /\ ~u.top /\ u.warning = q.row
                                   /\ view.warning # Table => u.inUse = view.inUse /\ u.form = view.form
                                   /\ view.warning = Table => /\ u.inUse = Table
                                                              /\ u.form = IF view.inUse # Table THEN "none" ELSE view.form
        /\ ~IsQuestion(q.answer) => u.top = view.top /\ u.form = view.form /\ SameAsked(u, view)
    BY <2>4, <2>5 DEF IsQuestion
  <2>7. replaced => \E p \in requests : p.id > q.id
    BY <2>1
  <2>8. \E some \in BOOLEAN :
           /\ some => \E p \in requests : p.id > q.id
           /\ \A p \in Place : u.html[p] = IF p = Check(q.row) /\ view.html[p] = "sending" /\ ~some THEN "own"
                                            ELSE view.html[p]
    BY <2>4, <2>7
  <2>9. BoxHeard(u, view, q)
    BY <2>4, <2>6, <2>8 DEF BoxHeard
  <2>10. QED
    BY <1>5, <2>9 DEF HeardAs
<1>6. CASE q.op = "checkAll"
  <2>2. q.force \in BOOLEAN /\ q.extra.rows \in SUBSET Row
    BY <1>1 DEF IsRequest, TableExtras
  <2>1. u = OnCheckAll(view, q.force, q.extra.rows, q.answer)
    BY <1>6 DEF Answered
  <2>3. CheckedAll(u, view, q.force, q.extra.rows, q.answer)
    BY <2>1, <2>2, CheckAllIs
  <2>5. QED
    BY <1>6, <2>3 DEF HeardAs
<1>7. QED
  BY <1>1, <1>3, <1>4, <1>5, <1>6 DEF TableOps, Updating

-----------------------------------------------------------------------------
(* The rows that are shown are those of the server.                        *)

Ordered(ls) == \A l \in ls : l[1] # "setPosition"
BoxesKept(ls) == \A l \in ls : l[1] \notin {"editBoolean", "checkAll"}

\* The rows shown are those of the server, once the request that is on its way
\* is served and its answer heard.
RowsRight(v, qs, db) ==
    /\ qs = {} => v.rows = db
    /\ \A q \in qs : IF q.answer.res # "none" THEN RowsAfter(v.rows, q.answer) = db
                     ELSE v.rows = IF q.op = "setPosition" THEN MovedIn(db, q.row, q.extra) ELSE db

\* Boxes are replaced by spinners only while all of them are to be set.
BoxesRight(v, qs) ==
    /\ \A r \in Row : v.html[Check(r)] = "loading" => \E q \in qs : q.op = "checkAll" /\ r \in q.extra.rows
    /\ \A q \in qs : q.op = "checkAll" => /\ q.extra.rows = ToSet(v.rows)
                                          /\ \A r \in q.extra.rows : v.saved[Check(r)] \notin {"loading", "none"}

SameBoxes(V, cs, ds) == \A r \in V : r \in cs <=> r \in ds

\* So are the boxes of the rows.
ChecksPend(v, q, db, dc) ==
    IF q.op = "editBoolean" /\ q.answer.res = "none"
       THEN SameBoxes(ToSet(v.rows), v.checked, (dc \ {q.row}) \union q.extra.rows)
    ELSE IF q.op = "checkAll" /\ q.answer.res = "ok" THEN dc = IF q.force THEN ToSet(db) ELSE {}
    ELSE IF q.op = "changeList" /\ q.answer.res = "ok" THEN SameBoxes(ToSet(db), q.answer.change.checks, dc)
    ELSE SameBoxes(ToSet(v.rows), v.checked, dc)

ChecksRight(v, qs, db, dc) ==
    /\ qs = {} => SameBoxes(ToSet(v.rows), v.checked, dc)
    /\ \A q \in qs : ChecksPend(v, q, db, dc)

RowsInv ==
    ~overlapped =>
       /\ \A p, q \in requests : p = q
       /\ BoxesRight(view, requests)
       /\ Ordered(lost) => RowsRight(view, requests, dbRows)
       /\ (BoxesKept(lost) /\ tableKind = "checks") => ChecksRight(view, requests, dbRows, dbChecks)

\* In a table of check boxes no rows are moved.
LEMMA OrderedBoxes ==
  ASSUME TableShape, tableKind # "rows"
  PROVE  Ordered(lost)
  BY DEF TableShape, Ordered, OpsOf, TableKinds

LEMMA RowsClick ==
  ASSUME TableShape, RowsInv, NEW q, ClickSent(q)
  PROVE  RowsInv'
<1>1. SUFFICES ASSUME ~overlapped'
               PROVE  /\ \A p, s \in requests' : p = s
                      /\ BoxesRight(view', requests')
                      /\ Ordered(lost') => RowsRight(view', requests', dbRows')
                      /\ (BoxesKept(lost') /\ tableKind' = "checks") => ChecksRight(view', requests', dbRows', dbChecks')
  BY DEF RowsInv
<1>2. /\ ~overlapped /\ requests = {} /\ requests' = {q} /\ q.answer.res = "none" /\ AskedFits(tableKind, q)
      /\ lost' = lost /\ tableKind' = tableKind /\ dbRows' = dbRows /\ dbChecks' = dbChecks
      /\ Shows(view', view, q) /\ Allowed(view, q)
  BY <1>1 DEF ClickSent, TableShape
<1>3. PICK u : u = view'
  OBVIOUS
<1>4. Shows(u, view, q) /\ view \in TableViews /\ q.op \in TableOps
  BY <1>2, <1>3, OpsAre DEF TableShape
<1>5. u.rows = IF q.op = "setPosition" THEN MovedIn(view.rows, q.row, q.extra) ELSE view.rows
  BY <1>4 DEF Shows, SpinnersCover, BoxTurned, RowDropped, TableOps
<1>6. \A r \in Row : view.html[Check(r)] # "loading"
  BY <1>2 DEF RowsInv, BoxesRight
<1>7. BoxesRight(u, {q})
  <2>1. \A r \in Row : Check(r) \in Place
    BY PlacesDiffer DEF PlacesApart
  <2>2. CASE q.op # "checkAll"
    <3>1. ASSUME NEW r \in Row PROVE u.html[Check(r)] # "loading"
      <4>1. q.op \notin {"setPosition", "editBoolean"} => ~IsAway(q, Check(r))
        BY <2>2, PlacesDiffer DEF IsAway, PlacesApart
      <4>2. QED
        BY <1>4, <1>6, <2>1, <4>1 DEF Shows, SpinnersCover, BoxTurned, RowDropped
    <3>2. QED
      BY <2>2, <3>1 DEF BoxesRight
  <2>3. CASE q.op = "checkAll"
    <3>1. q.extra.rows = {r \in ToSet(view.rows) : view.html[Check(r)] # "loading"}
      BY <1>2, <2>3 DEF Allowed
    <3>2. ToSet(view.rows) \subseteq Row
      BY <1>4, InSet DEF TableViews
    <3>3. q.extra.rows = ToSet(u.rows)
      BY <1>5, <1>6, <2>3, <3>1, <3>2
    <3>4. SpinnersCover(u, view, q)
      BY <1>4, <2>3 DEF Shows
    <3>5. ASSUME NEW r \in Row PROVE IsAway(q, Check(r)) <=> r \in q.extra.rows
      BY <2>3, <3>2, <3>1, PlacesDiffer DEF IsAway, PlacesApart, ChecksOf
    <3>6. ASSUME NEW r \in Row, u.html[Check(r)] = "loading" PROVE r \in q.extra.rows
      BY <1>6, <2>1, <3>4, <3>5, <3>6 DEF SpinnersCover
    <3>7. ASSUME NEW r \in q.extra.rows PROVE u.saved[Check(r)] \notin {"loading", "none"}
      <4>1. r \in Row
        BY <3>1, <3>2
      <4>2. u.saved[Check(r)] = IF view.html[Check(r)] = "sending" THEN "hidden" ELSE view.html[Check(r)]
        BY <2>1, <2>3, <3>4, <3>5, <4>1 DEF SpinnersCover
      <4>3. view.html[Check(r)] \in Content
        BY <1>4, <2>1, <4>1 DEF TableViews
      <4>4. QED
        BY <1>6, <4>1, <4>2, <4>3 DEF Content
    <3>8. QED
      BY <2>3, <3>3, <3>6, <3>7 DEF BoxesRight
  <2>4. QED
    BY <2>2, <2>3
<1>8. Ordered(lost) => RowsRight(u, {q}, dbRows)
  BY <1>2, <1>5 DEF RowsRight, RowsInv
<1>9. (BoxesKept(lost) /\ tableKind = "checks") => ChecksRight(u, {q}, dbRows, dbChecks)
  <2>1. SUFFICES ASSUME BoxesKept(lost), tableKind = "checks" PROVE ChecksRight(u, {q}, dbRows, dbChecks)
    OBVIOUS
  <2>2. SameBoxes(ToSet(view.rows), view.checked, dbChecks)
    BY <1>2, <2>1 DEF RowsInv, ChecksRight
  <2>3. q.op \in {"changeList", "editBoolean", "checkAll"}
    BY <1>2, <2>1 DEF AskedFits, OpsOf
  <2>4. u.rows = view.rows
    BY <1>5, <2>3
  <2>5. CASE q.op # "editBoolean"
    <3>1. u.checked = view.checked
      BY <1>4, <2>3, <2>5 DEF Shows, SpinnersCover
    <3>2. ChecksPend(u, q, dbRows, dbChecks)
      BY <1>2, <2>2, <2>4, <2>5, <3>1 DEF ChecksPend
    <3>3. QED
      BY <3>2 DEF ChecksRight
  <2>6. CASE q.op = "editBoolean"
    <3>1. BoxTurned(u, view, q)
      BY <1>4, <2>6 DEF Shows
    <3>2. SameBoxes(ToSet(u.rows), u.checked, (dbChecks \ {q.row}) \union q.extra.rows)
      BY <2>2, <2>4, <3>1 DEF BoxTurned, SameBoxes, SymDiff
    <3>3. ChecksPend(u, q, dbRows, dbChecks)
      BY <1>2, <2>6, <3>2 DEF ChecksPend
    <3>4. QED
      BY <3>3 DEF ChecksRight
  <2>7. QED
    BY <2>5, <2>6
<1>10. QED
  BY <1>2, <1>3, <1>7, <1>8, <1>9

LEMMA RowsServe ==
  ASSUME TableShape, RowsInv, NEW q \in requests, NEW a, ServedWell(q, a)
  PROVE  RowsInv'
<1>1. SUFFICES ASSUME ~overlapped'
               PROVE  /\ \A p, s \in requests' : p = s
                      /\ BoxesRight(view', requests')
                      /\ Ordered(lost') => RowsRight(view', requests', dbRows')
                      /\ (BoxesKept(lost') /\ tableKind' = "checks") => ChecksRight(view', requests', dbRows', dbChecks')
  BY DEF RowsInv
<1>2. UNCHANGED <<tableKind, view, issued, sent, overlapped>> /\ ServedRight(q, a)
  BY DEF ServedWell
<1>3. PICK s : Replies(q, a, s)
  BY DEF ServedWell
<1>4. ~overlapped /\ requests = {q} /\ requests' = {s}
  BY <1>1, <1>2, <1>3 DEF RowsInv, Replies
<1>5. /\ s.op = q.op /\ s.row = q.row /\ s.force = q.force /\ s.extra = q.extra /\ s.answer = a
      /\ q.answer.res = "none" /\ a.res # "none" /\ lost \subseteq lost'
      /\ RequestFits(tableKind, q, lost)
  BY <1>2, <1>3 DEF Replies, ServedRight, TableShape
<1>6. BoxesRight(view, {s})
  BY <1>4, <1>5 DEF RowsInv, BoxesRight
<1>7. Ordered(lost') => RowsRight(view, {s}, dbRows')
  <2>1. SUFFICES ASSUME Ordered(lost') PROVE RowsAfter(view.rows, a) = dbRows'
    BY <1>5 DEF RowsRight
  <2>2. Ordered(lost)
    BY <1>5, <2>1 DEF Ordered
  <2>3. view.rows = IF q.op = "setPosition" THEN MovedIn(dbRows, q.row, q.extra) ELSE dbRows
    BY <1>4, <1>5, <2>2 DEF RowsInv, RowsRight
  <2>4. CASE q.op # "setPosition"
    BY <1>2, <2>3, <2>4 DEF ServedRight
  <2>5. CASE q.op = "setPosition"
    <3>1. PICK t : t = <<q.op, q.force, a.res>>
      OBVIOUS
    <3>2. t[1] = "setPosition"
      BY <2>5, <3>1
    <3>3. a.res = "ok"
      BY <1>2, <2>1, <3>1, <3>2 DEF ServedRight, Ordered
    <3>4. dbRows' = view.rows /\ ChangeFits(q, a.change)
      BY <1>2, <2>3, <2>5, <3>3 DEF ServedRight
    <3>5. a.change = Unchanging
      BY <2>5, <3>4 DEF ChangeFits
    <3>6. QED
      BY <3>4, <3>5 DEF RowsAfter, RowsMade, Unchanging
  <2>6. QED
    BY <2>4, <2>5
<1>8. (BoxesKept(lost') /\ tableKind = "checks") => ChecksRight(view, {s}, dbRows', dbChecks')
  <2>1. SUFFICES ASSUME BoxesKept(lost'), tableKind = "checks" PROVE ChecksPend(view, s, dbRows', dbChecks')
    BY DEF ChecksRight
  <2>2. BoxesKept(lost)
    BY <1>5, <2>1 DEF BoxesKept
  <2>3. ChecksPend(view, q, dbRows, dbChecks)
    BY <1>4, <2>1, <2>2 DEF RowsInv, ChecksRight
  <2>4. q.op \in {"changeList", "editBoolean", "checkAll"}
    BY <1>5, <2>1 DEF RequestFits, AskedFits, OpsOf
  <2>5. CASE q.op = "changeList"
    <3>1. dbChecks' = dbChecks /\ (a.res = "ok" => a.change.checks = dbChecks)
      BY <1>2, <2>5 DEF ServedRight
    <3>2. SameBoxes(ToSet(view.rows), view.checked, dbChecks)
      BY <1>5, <2>3, <2>5 DEF ChecksPend
    <3>3. QED
      BY <1>5, <2>5, <3>1, <3>2 DEF ChecksPend, SameBoxes
  <2>6. CASE q.op \in {"editBoolean", "checkAll"}
    <3>1. PICK t : t = <<q.op, q.force, a.res>>
      OBVIOUS
    <3>2. t[1] = q.op /\ t \notin lost'
      BY <2>1, <2>6, <3>1 DEF BoxesKept
    <3>3. a.res = "ok"
      BY <1>2, <3>1, <3>2 DEF ServedRight
    <3>4. PICK z : z = <<q.op, FALSE, "questioned">>
      OBVIOUS
    <3>5. z[1] = q.op /\ z \notin lost'
      BY <2>1, <2>6, <3>4 DEF BoxesKept
    <3>6. ~IsQuestion(a)
      BY <1>2, <3>4, <3>5 DEF ServedRight
    <3>7. CASE q.op = "editBoolean"
      <4>1. dbChecks' = (dbChecks \ {q.row}) \union q.extra.rows
        BY <1>2, <3>3, <3>6, <3>7 DEF ServedRight
      <4>2. SameBoxes(ToSet(view.rows), view.checked, dbChecks')
        BY <1>5, <2>3, <3>7, <4>1 DEF ChecksPend
      <4>3. QED
        BY <1>5, <3>3, <3>7, <4>2 DEF ChecksPend
    <3>8. CASE q.op = "checkAll"
      BY <1>2, <1>5, <3>3, <3>8 DEF ServedRight, ChecksPend
    <3>9. QED
      BY <2>6, <3>7, <3>8
  <2>7. QED
    BY <2>4, <2>5, <2>6
<1>9. QED
  BY <1>2, <1>4, <1>6, <1>7, <1>8
\* No update replaces a box by a spinner.
LEMMA UpdatedBoxes ==
  ASSUME NEW v, NEW w, NEW q, NEW c, UpdatedAs(w, v, q, c), NEW r \in Row
  PROVE  w.html[Check(r)] \in {v.html[Check(r)], "own"}
<1>1. /\ Check(r) \in Place /\ Check(r) # Buttons /\ Check(r) # CreatingForm
      /\ \A s : Actions(s) # Check(r)
  BY PlacesDiffer DEF PlacesApart
<1>2. ASSUME NEW rs, NEW cs, TableRedrawn(w, v, rs, cs) PROVE w.html[Check(r)] = "own"
  BY <1>1, <1>2 DEF TableRedrawn
<1>3. ASSUME NEW s, NEW rs, RowDone(w, v, s, rs) PROVE w.html[Check(r)] = v.html[Check(r)]
  BY <1>1, <1>3 DEF RowDone, HtmlIs
<1>4. ASSUME NEW f, NEW s, FormUp(w, v, f, s) PROVE w.html[Check(r)] = v.html[Check(r)]
  BY <1>1, <1>4 DEF FormUp, HtmlIs
<1>5. ASSUME NEW s, QuestionUp(w, v, s) PROVE w.html[Check(r)] = v.html[Check(r)]
  BY <1>5 DEF QuestionUp
<1>6. QED
  BY <1>2, <1>3, <1>4, <1>5 DEF UpdatedAs

LEMMA HeardBoxes ==
  ASSUME NEW u, NEW v, NEW q, HeardAs(u, v, q), q.op # "checkAll", NEW r \in Row, v.html[Check(r)] # "loading"
  PROVE  u.html[Check(r)] # "loading"
<1>1. /\ Check(r) \in Place /\ Check(r) # Buttons /\ Check(r) # CreatingForm
      /\ \A s : Actions(s) # Check(r) /\ Custom(s) # Check(r)
  BY PlacesDiffer DEF PlacesApart
<1>2. ASSUME NEW w, NEW c, UpdatedAs(w, v, q, c) PROVE w.html[Check(r)] # "loading"
  BY <1>2, UpdatedBoxes
<1>3. ASSUME NEW x, NEW w, NEW p, RestoredAs(x, w, {p}), p # Check(r) PROVE x.html[Check(r)] = w.html[Check(r)]
  BY <1>1, <1>3 DEF RestoredAs
<1>4. CASE q.op \in {"add", "edit"}
  <2>1. PICK w \in TableViews : /\ IF q.answer.res = "ok" THEN UpdatedAs(w, v, q, q.answer.change) ELSE w = v
                                /\ RestoredAs(u, w, {Buttons})
    BY <1>4 DEF HeardAs
  <2>2. w.html[Check(r)] # "loading"
    BY <1>2, <2>1
  <2>3. QED
    BY <1>1, <1>3, <2>1, <2>2
<1>5. CASE q.op = "del"
  <2>1. IF q.answer.res = "ok" THEN UpdatedAs(u, v, q, q.answer.change) ELSE RestoredAs(u, v, {Actions(q.row)})
    BY <1>5 DEF HeardAs
  <2>2. QED
    BY <1>1, <1>2, <1>3, <2>1
<1>6. CASE q.op = "changeAdd"
  <2>1. IF q.answer.res = "ok" THEN UpdatedAs(u, v, q, q.answer.change)
        ELSE IF q.answer.res = "refused" THEN RestoredAs(u, v, {CreatingForm}) ELSE u = v
    BY <1>6 DEF HeardAs
  <2>2. QED
    BY <1>1, <1>2, <1>3, <2>1
<1>7. CASE q.op \in {"changeClone", "changeList"}
  <2>1. IF q.answer.res = "ok" THEN UpdatedAs(u, v, q, q.answer.change) ELSE u = v
    BY <1>7 DEF HeardAs
  <2>2. QED
    BY <1>2, <2>1
<1>8. CASE q.op = "changeEdit"
  <2>1. PICK w \in TableViews : /\ IF q.answer.res = "ok" THEN UpdatedAs(w, v, q, q.answer.change)
                                   ELSE IF q.answer.res = "refused" THEN RestoredAs(w, v, {Actions(q.row)}) ELSE w = v
                                /\ RestoredAs(u, w, {Actions(q.row)})
    BY <1>8 DEF HeardAs
  <2>2. w.html[Check(r)] # "loading"
    BY <1>1, <1>2, <1>3, <2>1
  <2>3. QED
    BY <1>1, <1>3, <2>1, <2>2
<1>9. CASE q.op = "custom"
  <2>1. PICK w \in TableViews : /\ IF q.answer.res = "ok" THEN UpdatedAs(w, v, q, q.answer.change)
                                   ELSE RestoredAs(w, v, {Custom(q.row)})
                                /\ u.html = w.html
    BY <1>9 DEF HeardAs
  <2>2. w.html[Check(r)] # "loading"
    BY <1>1, <1>2, <1>3, <2>1
  <2>3. QED
    BY <2>1, <2>2
<1>10. CASE q.op = "setPosition" /\ u = v
  BY <1>10
<1>11. CASE q.op = "editBoolean"
  <2>1. BoxHeard(u, v, q)
    BY <1>11 DEF HeardAs
  <2>2. QED
    BY <1>1, <2>1 DEF BoxHeard
<1>12. QED
  BY <1>4, <1>5, <1>6, <1>7, <1>8, <1>9, <1>10, <1>11 DEF HeardAs

\* The answer of a request and what the callbacks made of the page.
AnsweredWell(q) ==
    /\ q.answer.res # "none" /\ requests' = requests \ {q}
    /\ view' \in TableViews /\ HeardAs(view', view, q) /\ view'.rows = RowsAfter(view.rows, q.answer)
    /\ UNCHANGED <<tableKind, dbRows, dbChecks, issued, lost, sent, overlapped>>

LEMMA AnswersWell ==
  ASSUME TableShape, NEW q \in requests, Answer(q)
  PROVE  TableShape' /\ AnsweredWell(q)
<1>1. /\ q.answer.res # "none" /\ requests' = requests \ {q} /\ view' = Answered(q)
      /\ UNCHANGED <<tableKind, dbRows, dbChecks, issued, lost, sent, overlapped>>
  BY DEF Answer
<1>2. view \in TableViews /\ OtherKind(tableKind, view) /\ RequestFits(tableKind, q, lost)
  BY DEF TableShape
<1>3. PICK u : u = Answered(q)
  OBVIOUS
<1>4. PICK kind : kind = tableKind
  OBVIOUS
<1>5. PICK ls : ls = lost
  OBVIOUS
<1>6. u \in TableViews /\ OtherKind(kind, u) /\ u.rows = RowsAfter(view.rows, q.answer)
  BY <1>1, <1>2, <1>3, <1>4, <1>5, AnsweredIs
<1>7. HeardAs(u, view, q)
  BY <1>1, <1>2, <1>3, <1>4, <1>5, AnswerShows
<1>8. TableShape'
  BY <1>1, <1>3, <1>4, <1>6 DEF TableShape
<1>9. QED
  BY <1>1, <1>3, <1>6, <1>7, <1>8 DEF AnsweredWell

LEMMA RowsAnswer ==
  ASSUME TableShape, RowsInv, NEW q \in requests, AnsweredWell(q)
  PROVE  RowsInv'
<1>1. SUFFICES ASSUME ~overlapped'
               PROVE  /\ \A p, s \in requests' : p = s
                      /\ BoxesRight(view', requests')
                      /\ Ordered(lost') => RowsRight(view', requests', dbRows')
                      /\ (BoxesKept(lost') /\ tableKind' = "checks") => ChecksRight(view', requests', dbRows', dbChecks')
  BY DEF RowsInv
<1>2. /\ q.answer.res # "none" /\ requests' = requests \ {q}
      /\ UNCHANGED <<tableKind, dbRows, dbChecks, issued, lost, sent, overlapped>>
  BY DEF AnsweredWell
<1>3. PICK u : u = view'
  OBVIOUS
<1>4. u \in TableViews /\ HeardAs(u, view, q) /\ u.rows = RowsAfter(view.rows, q.answer)
  BY <1>3 DEF AnsweredWell
<1>5. requests = {q} /\ requests' = {} /\ ~overlapped
  BY <1>1, <1>2 DEF RowsInv
<1>6. RequestFits(tableKind, q, lost) /\ AskedFits(tableKind, q) /\ view \in TableViews
  BY DEF TableShape, RequestFits
<1>7. q.op = "checkAll" => CheckedAll(u, view, q.force, q.extra.rows, q.answer)
  BY <1>4 DEF HeardAs
<1>8. BoxesRight(u, {})
  <2>1. SUFFICES ASSUME NEW r \in Row PROVE u.html[Check(r)] # "loading"
    BY DEF BoxesRight
  <2>2. Check(r) \in Place
    BY PlacesDiffer DEF PlacesApart
  <2>3. CASE q.op # "checkAll"
    <3>1. view.html[Check(r)] # "loading"
      BY <1>5, <2>3 DEF RowsInv, BoxesRight
    <3>2. QED
      BY <1>4, <2>3, <3>1, HeardBoxes
  <2>4. CASE q.op = "checkAll"
    <3>1. /\ view.html[Check(r)] = "loading" => r \in q.extra.rows
          /\ q.extra.rows = ToSet(view.rows)
          /\ r \in q.extra.rows => view.saved[Check(r)] \notin {"loading", "none"}
      BY <1>5, <2>4 DEF RowsInv, BoxesRight
    <3>2. Present(view, Check(r)) <=> r \in ToSet(view.rows)
      BY <1>6, PlacePresent
    <3>3. Check(r) \in ChecksOf(q.extra.rows) <=> r \in q.extra.rows
      BY PlacesDiffer DEF PlacesApart, ChecksOf
    <3>4. u.html[Check(r)] = IF Check(r) \in ChecksOf(q.extra.rows) /\ Present(view, Check(r))
                             THEN BackIn(view, Check(r), FALSE) ELSE view.html[Check(r)]
      BY <1>7, <2>2, <2>4 DEF CheckedAll
    <3>5. QED
      BY <3>1, <3>2, <3>3, <3>4 DEF BackIn
  <2>5. QED
    BY <2>3, <2>4
<1>9. Ordered(lost) => RowsRight(u, {}, dbRows)
  BY <1>2, <1>4, <1>5 DEF RowsInv, RowsRight
<1>10. (BoxesKept(lost) /\ tableKind = "checks") => ChecksRight(u, {}, dbRows, dbChecks)
  <2>1. SUFFICES ASSUME BoxesKept(lost), tableKind = "checks"
                 PROVE  SameBoxes(ToSet(u.rows), u.checked, dbChecks)
    BY DEF ChecksRight
  <2>2. u.rows = dbRows
    BY <1>9, <2>1, OrderedBoxes DEF RowsRight
  <2>3. ChecksPend(view, q, dbRows, dbChecks)
    BY <1>5, <2>1 DEF RowsInv, ChecksRight
  <2>4. q.op \in {"changeList", "editBoolean", "checkAll"} /\ AnswerFits(q, lost)
    BY <1>6, <2>1 DEF AskedFits, OpsOf, RequestFits
  <2>5. CASE q.op = "changeList"
    <3>1. IF q.answer.res = "ok" THEN UpdatedAs(u, view, q, q.answer.change) ELSE u = view
      BY <1>4, <2>5 DEF HeardAs
    <3>2. CASE q.answer.res = "ok"
      <4>1. PICK rs \in Seq(Row), cs \in SUBSET Row :
               q.answer.change = [what |-> "reload", rows |-> rs, checks |-> cs] /\ TableRedrawn(u, view, rs, cs)
        BY <2>5, <3>1, <3>2 DEF UpdatedAs
      <4>2. u.checked = cs /\ q.answer.change.checks = cs
        BY <4>1 DEF TableRedrawn
      <4>3. QED
        BY <2>2, <2>3, <2>5, <3>2, <4>2 DEF ChecksPend
    <3>3. CASE q.answer.res # "ok"
      BY <2>3, <2>5, <3>1, <3>3 DEF ChecksPend
    <3>4. QED
      BY <3>2, <3>3
  <2>6. CASE q.op = "editBoolean"
    <3>1. u.rows = view.rows /\ u.checked = view.checked
      BY <1>4, <2>6 DEF HeardAs, BoxHeard, SameRows
    <3>2. QED
      BY <1>2, <2>3, <2>6, <3>1 DEF ChecksPend
  <2>7. CASE q.op = "checkAll"
    <3>1. PICK t : t = <<q.op, q.force, q.answer.res>>
      OBVIOUS
    <3>2. t[1] = "checkAll" /\ t \notin lost
      BY <2>1, <2>7, <3>1 DEF BoxesKept
    <3>3. q.answer.res = "ok"
      BY <1>2, <2>4, <3>1, <3>2 DEF AnswerFits
    <3>4. q.extra.rows = ToSet(view.rows) /\ u.rows = view.rows
      BY <1>5, <1>7, <2>7 DEF RowsInv, BoxesRight, CheckedAll
    <3>5. dbChecks = IF q.force THEN ToSet(dbRows) ELSE {}
      BY <2>3, <2>7, <3>3 DEF ChecksPend
    <3>6. CASE q.force
      <4>1. q.extra.rows \subseteq u.checked
        BY <1>7, <2>7, <3>3, <3>6 DEF CheckedAll
      <4>2. QED
        BY <2>2, <3>4, <3>5, <3>6, <4>1 DEF SameBoxes
    <3>7. CASE ~q.force
      <4>1. u.checked \intersect q.extra.rows = {}
        BY <1>7, <2>7, <3>3, <3>7 DEF CheckedAll
      <4>2. QED
        BY <3>4, <3>5, <3>7, <4>1 DEF SameBoxes
    <3>8. QED
      BY <3>6, <3>7
  <2>8. QED
    BY <2>4, <2>5, <2>6, <2>7
<1>11. QED
  BY <1>2, <1>3, <1>5, <1>8, <1>9, <1>10

-----------------------------------------------------------------------------
(* Cancel, and the first page.                                             *)

\* The top comes back, and with the question the cell of its row.
Cancelled(r) ==
    /\ view' \in TableViews /\ view'.rows = view.rows /\ view'.checked = view.checked
    /\ view'.top /\ ~view'.formShown
    /\ \A p \in Place : view'.html[p] =
          IF p = CreatingForm THEN "own"
          ELSE IF p = Actions(r) /\ Present(view, p) THEN BackIn(view, p, TRUE) ELSE view.html[p]
    /\ \A p \in Place : view'.saved[p] = IF p = Actions(r) THEN "none" ELSE view.saved[p]
    /\ view'.warning = Table
    /\ view.warning # Table => view'.inUse = view.inUse /\ view'.form = view.form
    /\ view.warning = Table => /\ view'.inUse = Table
                               /\ view'.form = IF view.inUse # Table THEN "none" ELSE view.form

LEMMA CancelQuestion ==
  ASSUME TableShape, NEW r \in Row, CancelInUse(r)
  PROVE  TableShape' /\ Cancelled(r)
<1> DEFINE v == RestoreTop(view)
           w == RestoreHidden(v, {Actions(r)}, TRUE)
           u == RemoveWarnings(w)
<1>1. /\ view' = u /\ view \in TableViews
      /\ UNCHANGED <<tableKind, dbRows, dbChecks, requests, issued, lost, sent, overlapped>>
  BY DEF CancelInUse, TableShape
<1>2. /\ v \in TableViews /\ SameAsked(v, view) /\ SameRows(v, view) /\ v.saved = view.saved
      /\ v.top /\ ~v.formShown /\ v.form = view.form
      /\ HtmlIs(v, view, {CreatingForm}, "own")
  BY <1>1, RestoreTopIs
<1>3. {Actions(r)} \in SUBSET Place /\ Actions(r) \in Place /\ Actions(r) # CreatingForm /\ CreatingForm \in Place
  BY PlacesDiffer DEF PlacesApart
<1> HIDE DEF v
<1>4. /\ w \in TableViews /\ SameWay(w, v) /\ SameAsked(w, v) /\ SameRows(w, v)
      /\ \A p \in Place : w.html[p] = IF p \in {Actions(r)} /\ Present(v, p) THEN BackIn(v, p, TRUE) ELSE v.html[p]
      /\ \A p \in Place : w.saved[p] = IF p \in {Actions(r)} THEN "none" ELSE v.saved[p]
  BY <1>2, <1>3, RestoreHiddenIs, ZenonT(60)
<1> HIDE DEF w
<1>5. /\ u \in TableViews /\ SameRows(u, w) /\ u.html = w.html /\ u.saved = w.saved
      /\ u.top = w.top /\ u.formShown = w.formShown
      /\ u.warning = Table
      /\ w.warning # Table => u.inUse = w.inUse /\ u.form = w.form
      /\ w.warning = Table => u.inUse = Table /\ u.form = IF w.inUse # Table THEN "none" ELSE w.form
  BY <1>4, RemoveWarningsIs
<1> HIDE DEF u
<1>6. \A p \in Place : Present(v, p) <=> Present(view, p)
  BY <1>2 DEF Present, SameRows
<1>7. \A p \in Place : p # CreatingForm => BackIn(v, p, TRUE) = BackIn(view, p, TRUE)
  BY <1>2 DEF BackIn, HtmlIs
<1>8. /\ \A p \in Place : u.html[p] = IF p = CreatingForm THEN "own"
                                      ELSE IF p = Actions(r) /\ Present(view, p) THEN BackIn(view, p, TRUE) ELSE view.html[p]
      /\ \A p \in Place : u.saved[p] = IF p = Actions(r) THEN "none" ELSE view.saved[p]
  <2>1. ASSUME NEW p \in Place
        PROVE  u.html[p] = IF p = CreatingForm THEN "own"
                           ELSE IF p = Actions(r) /\ Present(view, p) THEN BackIn(view, p, TRUE) ELSE view.html[p]
    <3>1. u.html[p] = IF p \in {Actions(r)} /\ Present(v, p) THEN BackIn(v, p, TRUE) ELSE v.html[p]
      BY <1>4, <1>5
    <3>2. v.html[p] = IF p = CreatingForm THEN "own" ELSE view.html[p]
      BY <1>2 DEF HtmlIs
    <3>3. QED
      BY <1>3, <1>6, <1>7, <3>1, <3>2
  <2>2. QED
    BY <1>2, <1>4, <1>5, <2>1
<1>9. Cancelled(r)
  BY <1>1, <1>2, <1>4, <1>5, <1>8 DEF Cancelled, SameWay, SameAsked, SameRows
<1>10. OtherKind(tableKind, u)
  <2>1. \A s \in Row : Actions(s) \in Place
    BY PlacesDiffer DEF PlacesApart
  <2>2. QED
    BY <1>1, <1>2, <1>4, <1>5, <1>8, <2>1 DEF OtherKind, TableShape, SameWay, SameAsked
<1>11. TableShape'
  BY <1>1, <1>5, <1>10 DEF TableShape
<1>12. QED
  BY <1>9, <1>11

\* The form of a row is given up.
FormGone ==
    /\ view' \in TableViews /\ SameAsked(view', view) /\ SameRows(view', view) /\ view'.saved = view.saved
    /\ view'.top /\ ~view'.formShown /\ view'.form = view.form
    /\ HtmlIs(view', view, {CreatingForm}, "own")

LEMMA CancelOfForm ==
  ASSUME TableShape, CancelForm
  PROVE  TableShape' /\ FormGone
<1> DEFINE u == RestoreTop(view)
<1>1. /\ view' = u /\ view \in TableViews
      /\ UNCHANGED <<tableKind, dbRows, dbChecks, requests, issued, lost, sent, overlapped>>
  BY DEF CancelForm, TableShape
<1>2. /\ u \in TableViews /\ SameAsked(u, view) /\ SameRows(u, view) /\ u.saved = view.saved
      /\ u.top /\ ~u.formShown /\ u.form = view.form
      /\ HtmlIs(u, view, {CreatingForm}, "own")
  BY <1>1, RestoreTopIs
<1> HIDE DEF u
<1>3. FormGone
  BY <1>1, <1>2 DEF FormGone
<1>4. OtherKind(tableKind, u)
  BY <1>2 DEF OtherKind, TableShape, SameAsked
<1>5. QED
  BY <1>1, <1>2, <1>3, <1>4 DEF TableShape

LEMMA SomeRows ==
  ASSUME NEW rs, rs = SubSeq(SetToSeq(Row), 1, Cardinality(Row) - 1)
  PROVE  rs \in Unrepeated(Row)
<1>1. Cardinality(Row) \in Nat /\ ExistsBijection(1..Cardinality(Row), Row)
  BY TableAssumption, FS_CardinalityType
<1>2. PICK n \in Nat : n = Cardinality(Row)
  BY <1>1
<1>3. PICK f \in [1..n -> Row] : IsInjective(f)
  <2>1. PICK f \in Bijection(1..n, Row) : TRUE
    BY <1>1, <1>2 DEF ExistsBijection
  <2>2. f \in [1..n -> Row] /\ \A a, b \in 1..n : f[a] = f[b] => a = b
    BY <2>1 DEF Bijection, Injection, IsInjective
  <2>3. QED
    BY <2>2 DEF IsInjective
<1>4. PICK all : all = SetToSeq(Row)
  OBVIOUS
<1>5. all \in [1..n -> Row] /\ IsInjective(all)
  BY <1>2, <1>3, <1>4 DEF SetToSeq
<1>6. all \in Seq(Row) /\ Len(all) = n
  BY <1>2, <1>5
<1>7. n > 0
  BY <1>2, TableAssumption, FS_EmptySet
<1>8. rs = SubSeq(all, 1, n - 1)
  BY <1>2, <1>4
<1>9. rs \in Seq(Row) /\ Len(rs) = n - 1 /\ \A i \in 1..(n - 1) : rs[i] = all[i]
  <2>1. n - 1 \in Int /\ 1 \in Int /\ \A i \in 1..(n - 1) : all[i] \in Row
    BY <1>5, <1>7
  <2>2. PICK m \in Int : m = n - 1
    BY <2>1
  <2>4. /\ SubSeq(all, 1, m) \in Seq(Row) /\ Len(SubSeq(all, 1, m)) = IF 1 <= m THEN m - 1 + 1 ELSE 0
        /\ \A i \in 1..(m - 1 + 1) : SubSeq(all, 1, m)[i] = all[1 + i - 1]
    BY <2>1, <2>2, SubSeqProperties
  <2>3. ASSUME NEW i \in 1..(n - 1) PROVE rs[i] = all[i]
    <3>1. i \in 1..(m - 1 + 1) /\ 1 + i - 1 = i
      BY <1>7, <2>2
    <3>2. QED
      BY <1>8, <2>2, <2>4, <3>1
  <2>5. (IF 1 <= m THEN m - 1 + 1 ELSE 0) = n - 1
    BY <1>7, <2>2
  <2>6. rs = SubSeq(all, 1, m)
    BY <1>8, <2>2
  <2>7. rs \in Seq(Row) /\ Len(rs) = n - 1
    BY <2>4, <2>5, <2>6
  <2>8. QED
    BY <2>3, <2>7
<1>10. DOMAIN all = 1..n
  BY <1>5
<1>11. ASSUME NEW i \in 1..Len(rs), NEW j \in 1..Len(rs), rs[i] = rs[j] PROVE i = j
  <2>1. i \in 1..n /\ j \in 1..n /\ all[i] = all[j]
    BY <1>7, <1>9, <1>11
  <2>2. QED
    BY <1>5, <1>10, <2>1 DEF IsInjective
<1>12. QED
  BY <1>9, <1>11 DEF Unrepeated

LEMMA TableStarts ==
  ASSUME TableInit
  PROVE  /\ TableShape /\ requests = {} /\ lost = {} /\ sent = {} /\ tableKind = "none"
         /\ view.rows = dbRows /\ view.checked = dbChecks /\ \A p \in Place : view.html[p] = "own" /\ view.saved[p] = "none"
         /\ view.top /\ ~view.formShown /\ view.form = "none" /\ view.inUse = Table /\ view.warning = Table
<1>1. /\ tableKind = "none" /\ dbRows = SubSeq(SetToSeq(Row), 1, Cardinality(Row) - 1) /\ dbChecks = {}
      /\ view = Rendered(NewView, dbRows, {})
      /\ requests = {} /\ issued = 0 /\ lost = {} /\ sent = {} /\ overlapped = FALSE
  BY DEF TableInit
<1>2. dbRows \in Unrepeated(Row) /\ dbRows \in Seq(Row)
  BY <1>1, SomeRows DEF Unrepeated
<1>3. PICK v : v = NewView
  OBVIOUS
<1>4. v \in TableViews /\ v.saved = [p \in Place |-> "none"]
  <2>1. NewView.html \in [Place -> Content] /\ NewView.saved \in [Place -> Content \union {"none"}]
        /\ NewView.saved = [p \in Place |-> "none"] /\ NewView.rows \in Seq(Row)
    BY DEF NewView, Content
  <2>2. NewView.top = TRUE /\ NewView.formShown = FALSE /\ NewView.form = "none" /\ NewView.inUse = Table
        /\ NewView.warning = Table /\ NewView.checked = {} /\ NewView.rendered = {} /\ NewView.disabled = {}
    BY DEF NewView
  <2>3. NewView = [html |-> NewView.html, saved |-> NewView.saved, top |-> NewView.top, form |-> NewView.form,
                   formShown |-> NewView.formShown, inUse |-> NewView.inUse, warning |-> NewView.warning,
                   rows |-> NewView.rows, checked |-> NewView.checked, rendered |-> NewView.rendered,
                   disabled |-> NewView.disabled]
    BY DEF NewView
  <2>4. QED
    BY <1>3, <2>1, <2>2, <2>3 DEF TableViews, TableForms, SomeRow
<1> DEFINE u == Rendered(v, dbRows, {})
<1>5. /\ u \in TableViews /\ u.saved = v.saved /\ \A p \in Place : u.html[p] = "own"
      /\ u.top /\ ~u.formShown /\ u.form = "none" /\ u.inUse = Table /\ u.warning = Table
      /\ u.rows = dbRows /\ u.checked = {}
  BY <1>2, <1>4, {} \in SUBSET Row, RenderedIs
<1>6. view = u
  BY <1>1, <1>3
<1> HIDE DEF u
<1>7. \A p \in Place : view.saved[p] = "none"
  BY <1>4, <1>5, <1>6
<1>8. OtherKind(tableKind, view)
  BY <1>5, <1>6, <1>7, PlacesDiffer DEF OtherKind, PlacesApart
<1>9. TableShape
  <2>1. /\ issued \in 0..MaxRequests /\ overlapped \in BOOLEAN /\ tableKind \in TableKinds
        /\ dbChecks \in SUBSET Row
    <3>1. MaxRequests \in Nat
      BY TableAssumption
    <3>2. issued \in 0..MaxRequests
      BY <1>1, <3>1
    <3>3. QED
      BY <1>1, <3>2 DEF TableKinds
  <2>2. (\A q \in requests : RequestFits(tableKind, q, lost)) /\ \A l \in lost : l[1] \in OpsOf(tableKind)
    BY <1>1
  <2>3. QED
    BY <1>2, <1>5, <1>6, <1>8, <2>1, <2>2 DEF TableShape
<1>10. QED
  BY <1>1, <1>5, <1>6, <1>7, <1>9

-----------------------------------------------------------------------------
(* The steps of the page, put in five kinds.                               *)

LEMMA TableSteps ==
  ASSUME [TableNext]_tableVars
  PROVE  \/ UNCHANGED tableVars
         \/ \E kind \in {"rows", "checks", "actions"} : OpenTable(kind)
         \/ Clicks \/ CancelForm \/ \E r \in Row : CancelInUse(r)
         \/ \E q \in requests : Serves(q) \/ Answer(q)
  BY DEF TableNext, Clicks, Serves

LEMMA OpenKeeps ==
  ASSUME TableShape, NEW kind \in {"rows", "checks", "actions"}, OpenTable(kind), requests = {}, lost = {},
         ~view.formShown, view.inUse = Table, \A p \in Place : view.saved[p] = "none"
  PROVE  TableShape'
<1>1. /\ tableKind' = kind
      /\ UNCHANGED <<view, dbRows, dbChecks, requests, issued, lost, sent, overlapped>>
  BY DEF OpenTable
<1>2. OtherKind(kind, view)
  BY PlacesDiffer DEF OtherKind, PlacesApart
<1>3. QED
  BY <1>1, <1>2 DEF TableShape, TableKinds

\* Before the page is opened it is as it was first drawn.
Unopened ==
    tableKind = "none" =>
       /\ requests = {} /\ lost = {} /\ sent = {} /\ ~overlapped
       /\ \A p \in Place : view.html[p] = "own" /\ view.saved[p] = "none"
       /\ view.top /\ ~view.formShown /\ view.form = "none" /\ view.inUse = Table /\ view.warning = Table
       /\ view.rows = dbRows /\ view.checked = dbChecks

TableSafe == TableShape /\ Unopened

\* A page that is not open cannot be used.
LEMMA UnopenedStays ==
  ASSUME TableSafe, tableKind = "none"
  PROVE  ~Clicks /\ ~CancelForm /\ (\A r \in Row : ~CancelInUse(r)) /\ \A q \in requests : ~Serves(q) /\ ~Answer(q)
<1>1. /\ requests = {} /\ ~view.formShown /\ view.inUse = Table /\ view.warning = Table
      /\ \A r \in Row : r # Table
  BY TableAssumption DEF TableSafe, Unopened
<1>2. ~Clicks
  BY <1>1 DEF Clicks, AddNewRow, FormOpen, ChangeView, ChangeRow, DeleteActionClicked, ShowChangeRowForm,
              SendInPlaceBooleanValue, CustomActionClicked, ChangeOrder, CheckAll
<1>3. QED
  BY <1>1, <1>2 DEF CancelForm, CancelInUse

LEMMA SafeStarts ==
  ASSUME TableInit
  PROVE  TableSafe
  BY TableStarts DEF TableSafe, Unopened, TableInit

LEMMA SafeKept ==
  ASSUME TableSafe, [TableNext]_tableVars
  PROVE  TableSafe'
<1>1. CASE UNCHANGED tableVars
  BY <1>1 DEF TableSafe, Unopened, TableShape, tableVars
<1>2. ASSUME NEW kind \in {"rows", "checks", "actions"}, OpenTable(kind) PROVE TableSafe'
  <2>1. tableKind = "none" /\ tableKind' # "none"
    BY <1>2 DEF OpenTable
  <2>2. TableShape'
    BY <1>2, <2>1, OpenKeeps DEF TableSafe, Unopened
  <2>3. QED
    BY <2>1, <2>2 DEF TableSafe, Unopened
<1>3. CASE Clicks \/ CancelForm \/ (\E r \in Row : CancelInUse(r)) \/ \E q \in requests : Serves(q) \/ Answer(q)
  <2>1. tableKind # "none"
    BY <1>3, UnopenedStays
  <2>2. TableShape' /\ tableKind' = tableKind
    <3>1. CASE Clicks
      BY <3>1, ClicksWell DEF ClickSent, TableSafe
    <3>2. CASE CancelForm
      BY <3>2, CancelOfForm DEF CancelForm, TableSafe
    <3>3. CASE \E r \in Row : CancelInUse(r)
      BY <3>3, CancelQuestion DEF CancelInUse, TableSafe
    <3>4. ASSUME NEW q \in requests, Serves(q) PROVE TableShape' /\ tableKind' = tableKind
      BY <3>4, ServesWell DEF ServedWell, TableSafe
    <3>5. ASSUME NEW q \in requests, Answer(q) PROVE TableShape' /\ tableKind' = tableKind
      BY <3>5, AnswersWell DEF AnsweredWell, TableSafe
    <3>6. QED
      BY <1>3, <3>1, <3>2, <3>3, <3>4, <3>5
  <2>3. QED
    BY <2>1, <2>2 DEF TableSafe, Unopened
<1>4. QED
  BY <1>1, <1>2, <1>3, TableSteps

LEMMA RowsCancel ==
  ASSUME TableShape, RowsInv, CancelForm \/ \E r \in Row : CancelInUse(r)
  PROVE  RowsInv'
<1>1. UNCHANGED <<tableKind, dbRows, dbChecks, requests, issued, lost, sent, overlapped>>
  BY DEF CancelForm, CancelInUse
<1>2. PICK u : u = view'
  OBVIOUS
<1>3. /\ u.rows = view.rows /\ u.checked = view.checked
      /\ \A s \in Row : u.html[Check(s)] = view.html[Check(s)] /\ u.saved[Check(s)] = view.saved[Check(s)]
  <2>1. /\ \A s \in Row : Check(s) \in Place /\ Check(s) # CreatingForm
        /\ \A r, s : Check(s) # Actions(r)
    BY PlacesDiffer DEF PlacesApart
  <2>2. CASE CancelForm
    BY <1>2, <2>1, <2>2, CancelOfForm DEF FormGone, SameRows, HtmlIs
  <2>3. ASSUME NEW r \in Row, CancelInUse(r)
        PROVE  /\ u.rows = view.rows /\ u.checked = view.checked
               /\ \A s \in Row : u.html[Check(s)] = view.html[Check(s)] /\ u.saved[Check(s)] = view.saved[Check(s)]
    <3>1. Cancelled(r)
      BY <2>3, CancelQuestion
    <3>2. \A s \in Row : Check(s) \in Place /\ Check(s) # CreatingForm /\ Check(s) # Actions(r)
      BY <2>1
    <3>3. /\ u.rows = view.rows /\ u.checked = view.checked
          /\ \A p \in Place : p # CreatingForm /\ p # Actions(r)
                => u.html[p] = view.html[p] /\ u.saved[p] = view.saved[p]
      BY <1>2, <3>1 DEF Cancelled
    <3>4. QED
      BY <3>2, <3>3
  <2>4. QED
    BY <2>2, <2>3
<1>4. \A q \in requests : q.extra.rows \subseteq Row
  BY DEF TableShape, RequestFits, IsRequest, TableExtras
<1>5. BoxesRight(view, requests) => BoxesRight(u, requests)
  BY <1>3, <1>4 DEF BoxesRight
<1>6. RowsRight(view, requests, dbRows) => RowsRight(u, requests, dbRows)
  BY <1>3 DEF RowsRight
<1>7. ChecksRight(view, requests, dbRows, dbChecks) => ChecksRight(u, requests, dbRows, dbChecks)
  BY <1>3 DEF ChecksRight, ChecksPend
<1>8. QED
  BY <1>1, <1>2, <1>5, <1>6, <1>7 DEF RowsInv

LEMMA RowsStart ==
  ASSUME TableShape, requests = {}, view.rows = dbRows, view.checked = dbChecks, \A p \in Place : view.html[p] = "own"
  PROVE  RowsInv
<1>1. \A r \in Row : Check(r) \in Place
  BY PlacesDiffer DEF PlacesApart
<1>2. BoxesRight(view, {}) /\ RowsRight(view, {}, dbRows) /\ ChecksRight(view, {}, dbRows, dbChecks)
  BY <1>1 DEF BoxesRight, RowsRight, ChecksRight, SameBoxes
<1>3. QED
  BY <1>2 DEF RowsInv

LEMMA TableRowsKept ==
  ASSUME TableSafe, RowsInv, [TableNext]_tableVars
  PROVE  RowsInv'
<1>0. TableShape
  BY DEF TableSafe
<1>1. CASE UNCHANGED tableVars
  BY <1>1 DEF RowsInv, tableVars
<1>2. ASSUME NEW kind \in {"rows", "checks", "actions"}, OpenTable(kind) PROVE RowsInv'
  <2>1. UNCHANGED <<view, dbRows, dbChecks, requests, issued, lost, sent, overlapped>> /\ tableKind = "none"
    BY <1>2 DEF OpenTable
  <2>2. requests = {} /\ view.rows = dbRows /\ view.checked = dbChecks
    BY <2>1 DEF TableSafe, Unopened
  <2>3. ChecksRight(view, {}, dbRows, dbChecks)
    BY <2>2 DEF ChecksRight, SameBoxes
  <2>4. QED
    BY <2>1, <2>2, <2>3 DEF RowsInv
<1>3. CASE Clicks
  BY <1>0, <1>3, ClicksWell, RowsClick
<1>4. CASE CancelForm \/ \E r \in Row : CancelInUse(r)
  BY <1>0, <1>4, RowsCancel
<1>5. ASSUME NEW q \in requests, Serves(q) PROVE RowsInv'
  BY <1>0, <1>5, ServesWell, RowsServe
<1>6. ASSUME NEW q \in requests, Answer(q) PROVE RowsInv'
  BY <1>0, <1>6, AnswersWell, RowsAnswer
<1>7. QED
  BY <1>1, <1>2, <1>3, <1>4, <1>5, <1>6, TableSteps

LEMMA RowsAreShown ==
  ASSUME TableShape, RowsInv
  PROVE  RowsShown
<1>1. SUFFICES ASSUME requests = {}, ~overlapped
               PROVE  /\ (\A l \in lost : l[1] # "setPosition") => view.rows = dbRows
                      /\ (tableKind = "checks" /\ \A l \in lost : l[1] \notin {"editBoolean", "checkAll"})
                             => view.checked \intersect InView = dbChecks \intersect InView
  BY DEF RowsShown, Quiet
<1>2. (\A l \in lost : l[1] # "setPosition") => view.rows = dbRows
  BY <1>1 DEF RowsInv, Ordered, RowsRight
<1>3. ASSUME tableKind = "checks", \A l \in lost : l[1] \notin {"editBoolean", "checkAll"}
      PROVE  view.checked \intersect InView = dbChecks \intersect InView
  <2>1. SameBoxes(ToSet(view.rows), view.checked, dbChecks)
    BY <1>1, <1>3 DEF RowsInv, BoxesKept, ChecksRight
  <2>2. QED
    BY <2>1 DEF SameBoxes, InView
<1>4. QED
  BY <1>2, <1>3

\* A page whose requests did not overlap shows the rows of the server, in their
\* order and with its boxes.
THEOREM RowsShownHolds == TableSpec => []RowsShown
<1>1. TableInit => TableSafe /\ RowsInv
  BY SafeStarts, RowsStart, TableStarts
<1>2. TableSafe /\ RowsInv /\ [TableNext]_tableVars => (TableSafe /\ RowsInv)'
  BY SafeKept, TableRowsKept
<1>3. TableSafe /\ RowsInv => RowsShown
  BY RowsAreShown DEF TableSafe
<1>4. QED
  BY <1>1, <1>2, <1>3, PTL DEF TableSpec

-----------------------------------------------------------------------------
(* The page comes back.                                                    *)

Clean(x) == x \in {"none", "own"}

\* No operation that leaves a part of the page replaced was used, or failed.
Stays == lost \subseteq Forgives /\ "changeClone" \notin sent

\* Rows of requests and questions are in the table.
RowsThere(v, qs) ==
    /\ \A q \in qs : q.op \in {"del", "changeEdit", "custom"} => q.row \in ToSet(v.rows)
    /\ v.inUse # Table => v.inUse \in ToSet(v.rows)

QuestionsRight(v, qs) ==
    /\ v.warning = Table \/ v.inUse = Table
    /\ \A q \in qs : q.op # "checkAll" => v.warning = Table /\ v.inUse = Table

\* A part that is not shown was replaced by a request on its way, or waits for
\* the question about its row.
PartsRight(v, qs) ==
    /\ \A p \in Place \ {CreatingForm} :
          \/ v.html[p] = "own"
          \/ \E q \in qs : IsAway(q, p) \/ (q.op = "editBoolean" /\ p = Check(q.row))
          \/ v.inUse # Table /\ p = Actions(v.inUse)
    /\ v.top => v.html[CreatingForm] = "own" \/ \E q \in qs : q.op = "changeAdd"

\* What a request replaced is saved.
SavedRight(v, q) ==
    /\ q.op # "changeList" /\ ~(q.op = "del" /\ q.force) => \A p \in Place : IsAway(q, p) => v.saved[p] = "own"
    /\ q.op = "editBoolean" => v.html[Check(q.row)] \in {"own", "sending"}
    /\ q.op = "edit" /\ ~q.force => Clean(v.saved[Actions(q.row)])

KeptRight(v) ==
    /\ \A r \in Row : (v.form = r /\ v.formShown) \/ v.warning = r => Clean(v.saved[Actions(r)])
    /\ v.inUse # Table => v.saved[Actions(v.inUse)] = "own"

Way(v) == v.top \/ (v.formShown /\ v.form # "none")
WayRight(v, qs) ==
    Way(v) \/ v.warning # Table \/ \E q \in qs : q.force /\ q.op \in {"edit", "del"}

PlacesRight(v, qs) ==
    /\ RowsThere(v, qs) /\ QuestionsRight(v, qs) /\ PartsRight(v, qs) /\ KeptRight(v)
    /\ \A q \in qs : SavedRight(v, q)

BoxQuestioned == <<"editBoolean", FALSE, "questioned">>

PlaceInv ==
    /\ \A q \in requests : q.op \in sent
    /\ tableKind = "checks" /\ view.warning # Table => BoxQuestioned \in lost
    /\ ~overlapped /\ Stays =>
       /\ PlacesRight(view, requests)
       /\ BoxQuestioned \notin lost => WayRight(view, requests)

LEMMA PlaceClick ==
  ASSUME TableShape, PlaceInv, NEW q, ClickSent(q)
  PROVE  PlaceInv'
<1>1. /\ IsRequest(q) /\ AskedFits(tableKind, q) /\ q.answer.res = "none"
      /\ requests' = requests \union {q} /\ sent' = sent \union {q.op}
      /\ overlapped' = (overlapped \/ requests # {} \/ (Asked /\ ~q.force))
      /\ tableKind' = tableKind /\ dbRows' = dbRows /\ dbChecks' = dbChecks /\ lost' = lost
      /\ Shows(view', view, q) /\ Allowed(view, q)
  BY DEF ClickSent
<1>2. PICK u : u = view'
  OBVIOUS
<1>3. /\ Shows(u, view, q) /\ view \in TableViews /\ q.op \in TableOps /\ OtherKind(tableKind, view)
      /\ q.force \in BOOLEAN
  BY <1>1, <1>2, OpsAre DEF TableShape, IsRequest
<1>4. \A p \in requests' : p.op \in sent'
  BY <1>1 DEF PlaceInv
<1>5. tableKind = "checks" /\ u.warning # Table => BoxQuestioned \in lost
  BY <1>3 DEF Shows, Unasked, SameAsked, PlaceInv
<1>6. ASSUME ~overlapped', Stays'
      PROVE  PlacesRight(u, {q}) /\ requests' = {q} /\ (BoxQuestioned \notin lost => WayRight(u, {q}))
  <2>1. /\ ~overlapped /\ requests = {} /\ requests' = {q} /\ (Asked => q.force) /\ Stays /\ q.op # "changeClone"
    BY <1>1, <1>6 DEF Stays
  <2>2. PlacesRight(view, {}) /\ (BoxQuestioned \notin lost => WayRight(view, {}))
    BY <2>1 DEF PlaceInv
  <2>3. /\ Buttons \in Place /\ CreatingForm \in Place /\ Pager \in Place
        /\ \A r \in Row : Actions(r) \in Place /\ Check(r) \in Place /\ Custom(r) \in Place
    BY PlacesDiffer DEF PlacesApart
  <2>4. q.op \notin {"add", "changeList", "checkAll"} => q.row \in Row
    BY <1>1 DEF AskedFits
  <2>5. q.op = "checkAll" \/ q.op = "editBoolean" => tableKind = "checks" /\ view.inUse = Table
    BY <1>1, <1>3 DEF AskedFits, OpsOf, TableKinds, OtherKind
  <2>6. view.warning = Table \/ view.inUse = Table
    BY <2>2 DEF PlacesRight, QuestionsRight
  <2>7. u.inUse = Table /\ (q.op # "checkAll" => u.warning = Table)
    <3>1. CASE q.op = "checkAll"
      BY <1>3, <2>5, <3>1 DEF Shows, SameAsked
    <3>2. CASE q.op # "checkAll" /\ q.force
      BY <1>3, <2>6, <3>2 DEF Shows, Unasked
    <3>3. CASE ~q.force /\ q.op # "checkAll"
      BY <1>3, <2>1, <3>3 DEF Shows, SameAsked, Asked
    <3>4. QED
      BY <1>3, <3>1, <3>2, <3>3
  \* The question in the form can only be confirmed.
  <2>8. view.inUse # Table => q.op = "del" /\ q.force /\ q.row = view.inUse
    <3>1. SUFFICES ASSUME view.inUse # Table PROVE q.op = "del" /\ q.force /\ q.row = view.inUse
      OBVIOUS
    <3>2. q.force /\ view.warning = Table /\ q.op \notin {"checkAll", "editBoolean"}
      BY <2>1, <2>5, <2>6, <3>1 DEF Asked
    <3>3. q.op # "edit"
      BY <1>1, <2>4, <3>2, TableAssumption DEF Allowed
    <3>4. q.op = "del"
      BY <1>1, <3>2, <3>3 DEF Allowed
    <3>5. QED
      BY <1>1, <3>2, <3>4 DEF Allowed
  \* So what is covered was there.
  <2>9. ASSUME NEW p \in Place, p # CreatingForm, ~(view.inUse # Table /\ p = Actions(view.inUse))
        PROVE  view.html[p] = "own"
    BY <2>2, <2>9 DEF PlacesRight, PartsRight
  <2>10. \A p \in Place : u.saved[p] = IF IsAway(q, p) /\ q.op # "changeList"
                                         THEN IF view.html[p] = "sending" THEN "hidden" ELSE view.html[p]
                                         ELSE view.saved[p]
    BY <1>3 DEF Shows, SpinnersCover, BoxTurned, RowDropped, IsAway, TableOps
  <2>11. ASSUME NEW p \in Place, IsAway(q, p), q.op # "changeList", ~(q.op = "del" /\ q.force)
         PROVE  u.saved[p] = "own"
    <3>1. view.html[p] = "own"
      <4>1. CASE p = CreatingForm
        <5>1. q.op = "changeAdd"
          BY <2>11, <4>1, PlacesDiffer DEF IsAway, PlacesApart, ChecksOf
        <5>2. QED
          BY <1>1, <4>1, <5>1 DEF Allowed
      <4>2. CASE p # CreatingForm
        BY <2>8, <2>9, <2>11, <4>2
      <4>3. QED
        BY <4>1, <4>2
    <3>2. QED
      BY <2>10, <2>11, <3>1
  <2>12. RowsThere(u, {q}) /\ QuestionsRight(u, {q})
    <3>1. q.op \in {"del", "changeEdit", "custom"} => q.row \in ToSet(view.rows) /\ u.rows = view.rows
      BY <1>1, <1>3, <2>2, <2>4, TableAssumption DEF Allowed, Shows, SpinnersCover, PlacesRight, RowsThere
    <3>2. QED
      BY <2>7, <3>1 DEF RowsThere, QuestionsRight
  <2>13. PartsRight(u, {q})
    <3>1. ASSUME NEW p \in Place, p # CreatingForm, u.html[p] # "own"
          PROVE  IsAway(q, p) \/ (q.op = "editBoolean" /\ p = Check(q.row))
      <4>1. CASE q.op = "editBoolean"
        BY <1>3, <2>5, <2>9, <3>1, <4>1 DEF Shows, BoxTurned
      <4>2. CASE q.op = "setPosition"
        BY <1>3, <2>8, <2>9, <3>1, <4>2 DEF Shows, RowDropped
      <4>3. CASE q.op \notin {"editBoolean", "setPosition"} /\ ~IsAway(q, p)
        <5>1. u.html[p] = view.html[p]
          BY <1>3, <4>3 DEF Shows, SpinnersCover
        <5>2. ~(view.inUse # Table /\ p = Actions(view.inUse))
          BY <2>8, <4>3 DEF IsAway
        <5>3. QED
          BY <2>9, <3>1, <5>1, <5>2
      <4>4. QED
        BY <4>1, <4>2, <4>3
    <3>2. ASSUME u.top, u.html[CreatingForm] # "own" PROVE q.op = "changeAdd"
      <4>1. view.top
        BY <1>3, <3>2 DEF Shows, Unasked, SameWay
      <4>2. view.html[CreatingForm] = "own"
        BY <2>2, <4>1 DEF PlacesRight, PartsRight
      <4>3. CreatingForm # Check(q.row)
        BY PlacesDiffer DEF PlacesApart
      <4>4. IsAway(q, CreatingForm)
        BY <1>3, <2>3, <3>2, <4>2, <4>3 DEF Shows, SpinnersCover, BoxTurned, RowDropped
      <4>5. QED
        BY <4>4, PlacesDiffer DEF IsAway, PlacesApart, ChecksOf
    <3>3. QED
      BY <3>1, <3>2 DEF PartsRight
  <2>14. SavedRight(u, q)
    <3>1. ASSUME q.op = "editBoolean" PROVE u.html[Check(q.row)] \in {"own", "sending"}
      <4>1. Check(q.row) \in Place /\ Check(q.row) # CreatingForm
        BY <2>3, <2>4, <3>1, PlacesDiffer DEF PlacesApart
      <4>2. view.html[Check(q.row)] = "own"
        BY <2>5, <2>9, <3>1, <4>1
      <4>3. QED
        BY <1>3, <3>1, <4>1, <4>2 DEF Shows, BoxTurned
    <3>2. ASSUME q.op = "edit", ~q.force PROVE Clean(u.saved[Actions(q.row)])
      <4>1. Clean(view.saved[Actions(q.row)])
        BY <1>1, <2>2, <2>4, <3>2 DEF Allowed, PlacesRight, KeptRight
      <4>2. ~IsAway(q, Actions(q.row))
        BY <3>2, PlacesDiffer DEF IsAway, PlacesApart
      <4>3. QED
        BY <2>3, <2>4, <2>10, <3>2, <4>1, <4>2
    <3>3. QED
      BY <2>11, <3>1, <3>2 DEF SavedRight
  <2>15. KeptRight(u)
    <3>1. SUFFICES ASSUME NEW r \in Row, (u.form = r /\ u.formShown) \/ u.warning = r
                   PROVE  Clean(u.saved[Actions(r)])
      BY <2>7 DEF KeptRight
    <3>2. ~(q.op = "del" /\ q.force)
      <4>1. SUFFICES ASSUME q.op = "del", q.force PROVE FALSE
        OBVIOUS
      <4>2. view.inUse # Table /\ view.warning = Table
        BY <1>1, <2>4, <2>6, <4>1, TableAssumption DEF Allowed
      <4>3. u.form = "none" /\ u.warning = Table
        BY <1>3, <4>1, <4>2 DEF Shows, Unasked
      <4>4. QED
        BY <3>1, <4>3, TableAssumption
    <3>3. (view.form = r /\ view.formShown) \/ view.warning = r
      BY <1>3, <3>1, TableAssumption DEF Shows, Unasked, SameWay, SameAsked
    <3>4. Clean(view.saved[Actions(r)])
      BY <2>2, <3>3 DEF PlacesRight, KeptRight
    <3>5. CASE IsAway(q, Actions(r)) /\ q.op # "changeList"
      BY <2>3, <2>11, <3>2, <3>5 DEF Clean
    <3>6. CASE ~(IsAway(q, Actions(r)) /\ q.op # "changeList")
      BY <2>3, <2>10, <3>4, <3>6
    <3>7. QED
      BY <3>5, <3>6
  <2>16. ASSUME BoxQuestioned \notin lost PROVE WayRight(u, {q})
    <3>1. view.warning # Table \/ Way(view)
      BY <2>2, <2>16 DEF WayRight
    <3>2. CASE q.force /\ q.op \in {"edit", "del"}
      BY <3>2 DEF WayRight
    <3>3. CASE q.force /\ q.op = "editBoolean"
      <4>1. view.warning = q.row
        BY <1>1, <3>3 DEF Allowed
      <4>2. tableKind = "checks" /\ view.warning # Table
        BY <2>4, <2>5, <3>3, <4>1, TableAssumption
      <4>3. QED
        BY <2>16, <4>2 DEF PlaceInv
    <3>4. CASE q.op = "checkAll" \/ ~q.force
      <4>1. SameWay(u, view) /\ SameAsked(u, view)
        BY <1>3, <3>4 DEF Shows
      <4>2. QED
        BY <3>1, <4>1 DEF WayRight, Way, SameWay, SameAsked
    <3>5. QED
      BY <1>1, <3>2, <3>3, <3>4 DEF Allowed
  <2>17. QED
    BY <2>1, <2>12, <2>13, <2>14, <2>15, <2>16 DEF PlacesRight
<1>7. QED
  BY <1>1, <1>2, <1>4, <1>5, <1>6 DEF PlaceInv
\* A request that is served replaces what it replaced before.
LEMMA PlaceServe ==
  ASSUME PlaceInv, NEW q \in requests, NEW a, ServedWell(q, a)
  PROVE  PlaceInv'
<1>1. UNCHANGED <<tableKind, view, issued, sent, overlapped>> /\ lost \subseteq lost'
  BY DEF ServedWell, ServedRight
<1>2. PICK s : Replies(q, a, s)
  BY DEF ServedWell
<1>3. /\ s.op = q.op /\ s.row = q.row /\ s.force = q.force /\ s.extra = q.extra
      /\ requests' = (requests \ {q}) \union {s}
  BY <1>2 DEF Replies
<1>4. \A p : IsAway(s, p) <=> IsAway(q, p)
  BY <1>3 DEF IsAway
<1>5. PlacesRight(view, requests) => PlacesRight(view, requests')
  <2>1. SUFFICES ASSUME PlacesRight(view, requests) PROVE PlacesRight(view, requests')
    OBVIOUS
  <2>2. RowsThere(view, requests')
    BY <1>3, <2>1 DEF PlacesRight, RowsThere
  <2>3. QuestionsRight(view, requests')
    BY <1>3, <2>1 DEF PlacesRight, QuestionsRight
  <2>4. PartsRight(view, requests')
    BY <1>3, <1>4, <2>1 DEF PlacesRight, PartsRight
  <2>5. SavedRight(view, s)
    BY <1>3, <1>4, <2>1 DEF PlacesRight, SavedRight
  <2>6. QED
    BY <1>3, <2>1, <2>2, <2>3, <2>4, <2>5 DEF PlacesRight
<1>6. WayRight(view, requests) => WayRight(view, requests')
  BY <1>3 DEF WayRight
<1>7. Stays' => Stays
  BY <1>1 DEF Stays
<1>8. QED
  BY <1>1, <1>3, <1>5, <1>6, <1>7 DEF PlaceInv

-----------------------------------------------------------------------------
(* The page while one request is on its way, and when it has come back.    *)

\* The request is not for all boxes.
OnePending(v, q) ==
    /\ v \in TableViews /\ v.warning = Table /\ v.inUse = Table
    /\ \A p \in Place \ {CreatingForm} :
          v.html[p] = "own" \/ IsAway(q, p) \/ (q.op = "editBoolean" /\ p = Check(q.row))
    /\ v.top => v.html[CreatingForm] = "own" \/ q.op = "changeAdd"
    /\ \A r \in Row : v.form = r /\ v.formShown => Clean(v.saved[Actions(r)])
    /\ q.op \in {"del", "changeEdit", "custom"} => q.row \in ToSet(v.rows)
    /\ SavedRight(v, q)

TableAtRest(u) ==
    /\ u.inUse # Table => u.inUse \in ToSet(u.rows) /\ u.saved[Actions(u.inUse)] = "own"
    /\ u.warning = Table \/ u.inUse = Table
    /\ \A p \in Place \ {CreatingForm} : u.html[p] = "own" \/ (u.inUse # Table /\ p = Actions(u.inUse))
    /\ u.top => u.html[CreatingForm] = "own"
    /\ \A r \in Row : (u.form = r /\ u.formShown) \/ u.warning = r => Clean(u.saved[Actions(r)])

LEMMA RestIsRight ==
  ASSUME NEW u
  PROVE  PlacesRight(u, {}) <=> TableAtRest(u)
  BY DEF PlacesRight, RowsThere, QuestionsRight, PartsRight, KeptRight, TableAtRest

\* The form or the table that has the page when the answer is heard.
WayBack(u, v, q) ==
    Way(u) \/ u.warning # Table \/ (SameWay(u, v) /\ ~(q.force /\ q.op \in {"edit", "del"}))

LEMMA RedrawnRests ==
  ASSUME NEW u, NEW v, NEW q, NEW rs, NEW cs, TableRedrawn(u, v, rs, cs)
  PROVE  TableAtRest(u) /\ WayBack(u, v, q)
<1>1. CreatingForm \in Place /\ \A r \in Row : r # Table
  BY PlacesDiffer, TableAssumption DEF PlacesApart
<1>2. QED
  BY <1>1 DEF TableRedrawn, TableAtRest, WayBack, Way

LEMMA AddRests ==
  ASSUME NEW u, NEW v, NEW q, OnePending(v, q), HeardAs(u, v, q), q.op \in {"add", "edit"},
         q.answer.res # "ok" => ~q.force, q.op = "edit" => q.row \in Row
  PROVE  TableAtRest(u) /\ WayBack(u, v, q)
<1>1. PICK w \in TableViews : /\ IF q.answer.res = "ok" THEN UpdatedAs(w, v, q, q.answer.change) ELSE w = v
                              /\ RestoredAs(u, w, {Buttons})
  BY DEF HeardAs
<1>2. /\ Buttons \in Place /\ CreatingForm \in Place /\ Buttons # CreatingForm
      /\ \A r \in Row : Actions(r) \in Place /\ Actions(r) # Buttons /\ r # Table
      /\ \A p : IsAway(q, p) <=> p = Buttons
  BY PlacesDiffer, TableAssumption DEF PlacesApart, IsAway
<1>3. v.saved[Buttons] = "own"
  BY <1>2 DEF OnePending, SavedRight
<1>4. Present(w, Buttons)
  BY <1>1, PlacePresent
\* What is left to restore.
<1>5. ASSUME w.saved = v.saved, \A p \in Place \ {CreatingForm, Buttons} : w.html[p] = "own",
             w.inUse = Table, w.top => w.html[CreatingForm] = "own",
             \A r \in Row : (w.form = r /\ w.formShown) \/ w.warning = r => Clean(w.saved[Actions(r)])
      PROVE  TableAtRest(u)
  <2>1. /\ u.inUse = Table /\ u.top = w.top /\ u.form = w.form /\ u.formShown = w.formShown /\ u.warning = w.warning
        /\ \A p \in Place : u.html[p] = IF p \in {Buttons} /\ Present(w, p) THEN BackIn(w, p, FALSE) ELSE w.html[p]
        /\ \A p \in Place : u.saved[p] = IF p \in {Buttons} THEN "none" ELSE w.saved[p]
    BY <1>1, <1>5 DEF RestoredAs, SameWay, SameAsked
  <2>2. u.html[Buttons] = "own"
    BY <1>2, <1>3, <1>4, <1>5, <2>1 DEF BackIn
  <2>3. \A p \in Place \ {CreatingForm} : u.html[p] = "own"
    BY <1>5, <2>1, <2>2
  <2>4. u.top => u.html[CreatingForm] = "own"
    BY <1>2, <1>5, <2>1
  <2>5. \A r \in Row : u.saved[Actions(r)] = w.saved[Actions(r)]
    BY <1>2, <2>1
  <2>6. QED
    BY <1>5, <2>1, <2>3, <2>4, <2>5 DEF TableAtRest
<1>6. u.top = w.top /\ u.form = w.form /\ u.formShown = w.formShown /\ u.warning = w.warning
  BY <1>1 DEF RestoredAs, SameWay, SameAsked
<1>7. \A p \in Place \ {CreatingForm, Buttons} : v.html[p] = "own"
  BY <1>2 DEF OnePending
<1>8. CASE q.answer.res # "ok"
  <2>1. w = v
    BY <1>1, <1>8
  <2>2. TableAtRest(u)
    BY <1>2, <1>5, <1>7, <2>1 DEF OnePending
  <2>3. QED
    BY <1>6, <1>8, <2>1, <2>2 DEF WayBack, Way, SameWay
<1>9. ASSUME NEW rs, NEW cs, TableRedrawn(w, v, rs, cs)
      PROVE  TableAtRest(u) /\ WayBack(u, v, q)
  <2>1. TableAtRest(u)
    BY <1>2, <1>5, <1>9 DEF TableRedrawn
  <2>2. QED
    BY <1>6, <1>9, <2>1 DEF WayBack, Way, TableRedrawn
<1>10. ASSUME NEW r, NEW rs, RowDone(w, v, r, rs), w.saved = v.saved
       PROVE  TableAtRest(u) /\ WayBack(u, v, q)
  <2>1. /\ w.inUse = Table /\ w.warning = Table /\ w.top /\ ~w.formShown
        /\ \A p \in Place : w.html[p] = IF p \in {CreatingForm, Actions(r)} THEN "own" ELSE v.html[p]
    BY <1>10 DEF RowDone, SameAsked, OnePending, HtmlIs
  <2>2. \A p \in Place \ {CreatingForm, Buttons} : w.html[p] = "own"
    BY <1>7, <2>1
  <2>3. w.html[CreatingForm] = "own"
    BY <1>2, <2>1
  <2>4. TableAtRest(u)
    BY <1>2, <1>5, <1>10, <2>1, <2>2, <2>3
  <2>5. QED
    BY <1>6, <2>1, <2>4 DEF WayBack, Way
<1>11. ASSUME q.op = "edit", ~q.force, QuestionUp(w, v, q.row)
       PROVE  TableAtRest(u) /\ WayBack(u, v, q)
  <2>1. /\ w.inUse = Table /\ w.warning = q.row /\ ~w.top /\ ~w.formShown /\ w.html = v.html /\ w.saved = v.saved
    BY <1>11 DEF QuestionUp, OnePending
  <2>2. Clean(w.saved[Actions(q.row)])
    BY <1>11, <2>1 DEF OnePending, SavedRight
  <2>3. TableAtRest(u)
    BY <1>2, <1>5, <1>7, <2>1, <2>2
  <2>4. q.row # Table
    BY <1>2, <1>11
  <2>5. QED
    BY <1>6, <2>1, <2>3, <2>4 DEF WayBack, Way
<1>12. CASE q.answer.res = "ok"
  <2>1. PICK c : c = q.answer.change
    OBVIOUS
  <2>2. UpdatedAs(w, v, q, c)
    BY <1>1, <1>12, <2>1
  <2>3. \/ \E rs, cs : TableRedrawn(w, v, rs, cs)
        \/ w.saved = v.saved /\ \E r, rs : RowDone(w, v, r, rs)
        \/ q.op = "edit" /\ ~q.force /\ QuestionUp(w, v, q.row)
    BY <2>2 DEF UpdatedAs
  <2>4. QED
    BY <1>9, <1>10, <1>11, <2>3
<1>13. QED
  BY <1>8, <1>12

LEMMA DelRests ==
  ASSUME NEW u, NEW v, NEW q, OnePending(v, q), HeardAs(u, v, q), q.op = "del",
         q.answer.res # "ok" => ~q.force, q.row \in Row
  PROVE  TableAtRest(u) /\ WayBack(u, v, q)
<1>1. IF q.answer.res = "ok" THEN UpdatedAs(u, v, q, q.answer.change) ELSE RestoredAs(u, v, {Actions(q.row)})
  BY DEF HeardAs
<1>2. /\ Buttons \in Place /\ CreatingForm \in Place /\ Buttons # CreatingForm /\ q.row # Table
      /\ \A r \in Row : Actions(r) \in Place /\ Actions(r) # Buttons /\ Actions(r) # CreatingForm /\ r # Table
      /\ \A r \in Row : r # q.row => Actions(r) # Actions(q.row)
      /\ \A p : IsAway(q, p) <=> p = Actions(q.row)
  BY PlacesDiffer, TableAssumption DEF PlacesApart, IsAway
<1>3. /\ v.inUse = Table /\ v.warning = Table /\ q.row \in ToSet(v.rows)
      /\ ~q.force => v.saved[Actions(q.row)] = "own"
      /\ \A p \in Place \ {CreatingForm} : p # Actions(q.row) => v.html[p] = "own"
      /\ v.top => v.html[CreatingForm] = "own"
      /\ \A r \in Row : v.form = r /\ v.formShown => Clean(v.saved[Actions(r)])
  BY <1>2 DEF OnePending, SavedRight
<1>4. CASE q.answer.res # "ok"
  <2>1. /\ SameWay(u, v) /\ SameAsked(u, v)
        /\ \A p \in Place : u.html[p] = IF p \in {Actions(q.row)} /\ Present(v, p) THEN BackIn(v, p, FALSE) ELSE v.html[p]
        /\ \A p \in Place : u.saved[p] = IF p \in {Actions(q.row)} THEN "none" ELSE v.saved[p]
    BY <1>1, <1>4 DEF RestoredAs
  <2>2. Present(v, Actions(q.row))
    BY <1>3, PlacePresent DEF OnePending
  <2>3. u.html[Actions(q.row)] = "own"
    BY <1>2, <1>3, <1>4, <2>1, <2>2 DEF BackIn
  <2>4. \A p \in Place \ {CreatingForm} : u.html[p] = "own"
    BY <1>3, <2>1, <2>3
  <2>5. u.top => u.html[CreatingForm] = "own"
    BY <1>2, <1>3, <2>1 DEF SameWay
  <2>6. \A r \in Row : (u.form = r /\ u.formShown) \/ u.warning = r => Clean(u.saved[Actions(r)])
    BY <1>2, <1>3, <2>1 DEF SameWay, SameAsked, Clean
  <2>7. QED
    BY <1>3, <1>4, <2>1, <2>4, <2>5, <2>6 DEF TableAtRest, WayBack, Way, SameAsked
<1>5. ASSUME NEW rs, RowDone(u, v, q.row, rs)
      PROVE  TableAtRest(u) /\ WayBack(u, v, q)
  <2>1. /\ u.inUse = Table /\ u.warning = Table /\ u.top /\ ~u.formShown
        /\ \A p \in Place : u.html[p] = IF p \in {CreatingForm, Actions(q.row)} THEN "own" ELSE v.html[p]
    BY <1>3, <1>5 DEF RowDone, SameAsked, HtmlIs
  <2>2. \A p \in Place : u.html[p] = "own"
    BY <1>3, <2>1
  <2>3. QED
    BY <1>2, <2>1, <2>2 DEF TableAtRest, WayBack, Way
<1>6. ASSUME ~q.force, FormUp(u, v, "inUse", q.row)
      PROVE  TableAtRest(u) /\ WayBack(u, v, q)
  <2>1. /\ u.rows = v.rows /\ u.saved = v.saved /\ u.warning = Table /\ ~u.top /\ u.form = "inUse" /\ u.inUse = q.row
        /\ u.formShown
        /\ \A p \in Place : u.html[p] = IF p \in {Buttons} THEN "own" ELSE v.html[p]
    BY <1>3, <1>6 DEF FormUp, SameRows, HtmlIs
  <2>2. \A p \in Place \ {CreatingForm} : u.html[p] = "own" \/ p = Actions(u.inUse)
    BY <1>3, <2>1
  <2>3. \A r \in Row : r # "inUse"
    BY TableAssumption
  <2>4. QED
    BY <1>2, <1>3, <1>6, <2>1, <2>2, <2>3 DEF TableAtRest, WayBack, Way
<1>7. CASE q.answer.res = "ok"
  <2>1. PICK c : c = q.answer.change
    OBVIOUS
  <2>2. UpdatedAs(u, v, q, c)
    BY <1>1, <1>7, <2>1
  <2>3. \/ \E rs, cs : TableRedrawn(u, v, rs, cs)
        \/ \E rs : RowDone(u, v, q.row, rs)
        \/ ~q.force /\ FormUp(u, v, "inUse", q.row)
    BY <2>2 DEF UpdatedAs
  <2>4. QED
    BY <1>5, <1>6, <2>3, RedrawnRests
<1>8. QED
  BY <1>4, <1>7

LEMMA CreateRests ==
  ASSUME NEW u, NEW v, NEW q, OnePending(v, q), HeardAs(u, v, q), q.op = "changeAdd",
         q.answer.res \in {"ok", "refused"}
  PROVE  TableAtRest(u) /\ WayBack(u, v, q)
<1>1. IF q.answer.res = "ok" THEN UpdatedAs(u, v, q, q.answer.change) ELSE RestoredAs(u, v, {CreatingForm})
  BY DEF HeardAs
<1>2. /\ Buttons \in Place /\ CreatingForm \in Place /\ Buttons # CreatingForm
      /\ \A r \in Row : Actions(r) \in Place /\ Actions(r) # CreatingForm /\ r # Table /\ r # "add"
      /\ \A p : IsAway(q, p) <=> p = CreatingForm
  BY PlacesDiffer, TableAssumption DEF PlacesApart, IsAway
<1>3. /\ v.inUse = Table /\ v.warning = Table /\ v.saved[CreatingForm] = "own"
      /\ \A p \in Place \ {CreatingForm} : v.html[p] = "own"
      /\ \A r \in Row : v.form = r /\ v.formShown => Clean(v.saved[Actions(r)])
  BY <1>2 DEF OnePending, SavedRight
<1>4. CASE q.answer.res = "refused"
  <2>1. /\ SameWay(u, v) /\ SameAsked(u, v)
        /\ \A p \in Place : u.html[p] = IF p \in {CreatingForm} /\ Present(v, p) THEN BackIn(v, p, FALSE) ELSE v.html[p]
        /\ \A p \in Place : u.saved[p] = IF p \in {CreatingForm} THEN "none" ELSE v.saved[p]
    BY <1>1, <1>4 DEF RestoredAs
  <2>2. Present(v, CreatingForm)
    BY PlacePresent DEF OnePending
  <2>3. u.html[CreatingForm] = "own"
    BY <1>2, <1>3, <2>1, <2>2 DEF BackIn
  <2>4. \A p \in Place : u.html[p] = "own"
    BY <1>3, <2>1, <2>3
  <2>5. \A r \in Row : (u.form = r /\ u.formShown) \/ u.warning = r => Clean(u.saved[Actions(r)])
    BY <1>2, <1>3, <2>1 DEF SameWay, SameAsked
  <2>6. QED
    BY <1>2, <1>3, <2>1, <2>4, <2>5 DEF TableAtRest, WayBack, Way, SameAsked
<1>5. CASE q.answer.res = "ok"
  <2>1. PICK c : c = q.answer.change
    OBVIOUS
  <2>2. FormUp(u, v, "add", Table)
    BY <1>1, <1>5, <2>1 DEF UpdatedAs
  <2>3. /\ u.warning = Table /\ ~u.top /\ u.form = "add" /\ u.inUse = Table /\ u.formShown
        /\ \A p \in Place : u.html[p] = IF p \in {Buttons} THEN "own" ELSE v.html[p]
    BY <1>3, <2>2 DEF FormUp, HtmlIs
  <2>4. QED
    BY <1>2, <1>3, <2>3 DEF TableAtRest, WayBack, Way
<1>6. QED
  BY <1>4, <1>5

LEMMA EditRests ==
  ASSUME NEW u, NEW v, NEW q, OnePending(v, q), HeardAs(u, v, q), q.op = "changeEdit",
         q.answer.res # "refused", q.row \in Row
  PROVE  TableAtRest(u) /\ WayBack(u, v, q)
<1>1. PICK w \in TableViews : /\ IF q.answer.res = "ok" THEN UpdatedAs(w, v, q, q.answer.change) ELSE w = v
                              /\ RestoredAs(u, w, {Actions(q.row)})
  BY DEF HeardAs
<1>2. /\ Buttons \in Place /\ CreatingForm \in Place /\ Buttons # CreatingForm /\ q.row # Table /\ q.row # "none"
      /\ \A r \in Row : Actions(r) \in Place /\ Actions(r) # Buttons /\ Actions(r) # CreatingForm /\ r # Table
      /\ \A r \in Row : r # q.row => Actions(r) # Actions(q.row)
      /\ \A p : IsAway(q, p) <=> p = Actions(q.row)
  BY PlacesDiffer, TableAssumption DEF PlacesApart, IsAway
<1>3. /\ v.inUse = Table /\ v.warning = Table /\ q.row \in ToSet(v.rows) /\ v.saved[Actions(q.row)] = "own"
      /\ \A p \in Place \ {CreatingForm} : p # Actions(q.row) => v.html[p] = "own"
      /\ v.top => v.html[CreatingForm] = "own"
      /\ \A r \in Row : v.form = r /\ v.formShown => Clean(v.saved[Actions(r)])
  BY <1>2 DEF OnePending, SavedRight
<1>4. /\ SameWay(u, w) /\ SameAsked(u, w)
      /\ \A p \in Place : u.html[p] = IF p \in {Actions(q.row)} /\ Present(w, p) THEN BackIn(w, p, FALSE) ELSE w.html[p]
      /\ \A p \in Place : u.saved[p] = IF p \in {Actions(q.row)} THEN "none" ELSE w.saved[p]
  BY <1>1 DEF RestoredAs
<1>5. q.answer.res = "ok" => FormUp(w, v, q.row, Table)
  <2>1. PICK c : c = q.answer.change
    OBVIOUS
  <2>2. q.answer.res = "ok" => UpdatedAs(w, v, q, c)
    BY <1>1, <2>1
  <2>3. QED
    BY <2>2 DEF UpdatedAs
<1>6. /\ w.rows = v.rows /\ w.saved = v.saved /\ w.warning = Table /\ w.inUse = Table
      /\ \A p \in Place \ {CreatingForm} : p # Actions(q.row) => w.html[p] = "own"
      /\ w.top => w.html[CreatingForm] = "own"
      /\ \A r \in Row : w.form = r /\ w.formShown => r = q.row \/ Clean(w.saved[Actions(r)])
      /\ SameWay(w, v) \/ (w.formShown /\ w.form = q.row)
  <2>1. CASE q.answer.res = "ok"
    BY <1>2, <1>3, <1>5, <2>1 DEF FormUp, SameRows, HtmlIs
  <2>2. CASE q.answer.res # "ok"
    BY <1>1, <1>3, <2>2 DEF SameWay
  <2>3. QED
    BY <2>1, <2>2
<1>7. Present(w, Actions(q.row))
  BY <1>1, <1>3, <1>6, PlacePresent
<1>8. u.html[Actions(q.row)] = "own"
  BY <1>2, <1>3, <1>4, <1>6, <1>7 DEF BackIn
<1>9. \A p \in Place \ {CreatingForm} : u.html[p] = "own"
  BY <1>4, <1>6, <1>8
<1>10. u.top => u.html[CreatingForm] = "own"
  BY <1>2, <1>4, <1>6 DEF SameWay
<1>11. \A r \in Row : (u.form = r /\ u.formShown) \/ u.warning = r => Clean(u.saved[Actions(r)])
  BY <1>2, <1>4, <1>6 DEF SameWay, SameAsked, Clean
<1>12. TableAtRest(u)
  BY <1>4, <1>6, <1>9, <1>10, <1>11 DEF TableAtRest, SameAsked
<1>13. WayBack(u, v, q)
  BY <1>2, <1>4, <1>6 DEF WayBack, Way, SameWay
<1>14. QED
  BY <1>12, <1>13

LEMMA CustomRests ==
  ASSUME NEW u, NEW v, NEW q, OnePending(v, q), HeardAs(u, v, q), q.op = "custom", q.row \in Row
  PROVE  TableAtRest(u) /\ WayBack(u, v, q)
<1>1. PICK w \in TableViews : /\ IF q.answer.res = "ok" THEN UpdatedAs(w, v, q, q.answer.change)
                                 ELSE RestoredAs(w, v, {Custom(q.row)})
                              /\ u.html = w.html /\ u.saved = w.saved /\ u.rows = w.rows /\ u.checked = w.checked
                              /\ SameWay(u, w) /\ SameAsked(u, w)
  BY DEF HeardAs
<1>2. TableAtRest(w) /\ WayBack(w, v, q)
  <2>1. CASE q.answer.res = "ok"
    <3>1. PICK c : c = q.answer.change
      OBVIOUS
    <3>2. UpdatedAs(w, v, q, c)
      BY <1>1, <2>1, <3>1
    <3>3. \E rs, cs : TableRedrawn(w, v, rs, cs)
      BY <3>2 DEF UpdatedAs
    <3>4. QED
      BY <3>3, RedrawnRests
  <2>2. CASE q.answer.res # "ok"
    <3>1. /\ CreatingForm \in Place /\ Custom(q.row) \in Place /\ Custom(q.row) # CreatingForm
          /\ \A r \in Row : Actions(r) \in Place /\ Actions(r) # Custom(q.row) /\ r # Table
          /\ \A p : IsAway(q, p) <=> p = Custom(q.row)
      BY PlacesDiffer, TableAssumption DEF PlacesApart, IsAway
    <3>2. /\ v.inUse = Table /\ v.warning = Table /\ q.row \in ToSet(v.rows) /\ v.saved[Custom(q.row)] = "own"
          /\ \A p \in Place \ {CreatingForm} : p # Custom(q.row) => v.html[p] = "own"
          /\ v.top => v.html[CreatingForm] = "own"
          /\ \A r \in Row : v.form = r /\ v.formShown => Clean(v.saved[Actions(r)])
      BY <3>1 DEF OnePending, SavedRight
    <3>3. /\ SameWay(w, v) /\ SameAsked(w, v)
          /\ \A p \in Place : w.html[p] = IF p \in {Custom(q.row)} /\ Present(v, p) THEN BackIn(v, p, FALSE) ELSE v.html[p]
          /\ \A p \in Place : w.saved[p] = IF p \in {Custom(q.row)} THEN "none" ELSE v.saved[p]
      BY <1>1, <2>2 DEF RestoredAs
    <3>4. Present(v, Custom(q.row))
      BY <3>2, PlacePresent DEF OnePending
    <3>5. w.html[Custom(q.row)] = "own"
      BY <3>1, <3>2, <3>3, <3>4 DEF BackIn
    <3>6. \A p \in Place \ {CreatingForm} : w.html[p] = "own"
      BY <3>2, <3>3, <3>5
    <3>7. w.top => w.html[CreatingForm] = "own"
      BY <3>1, <3>2, <3>3 DEF SameWay
    <3>8. \A r \in Row : (w.form = r /\ w.formShown) \/ w.warning = r => Clean(w.saved[Actions(r)])
      BY <3>1, <3>2, <3>3 DEF SameWay, SameAsked
    <3>9. QED
      BY <3>2, <3>3, <3>6, <3>7, <3>8 DEF TableAtRest, WayBack, Way, SameAsked
  <2>3. QED
    BY <2>1, <2>2
<1>3. QED
  BY <1>1, <1>2 DEF TableAtRest, WayBack, Way, SameWay, SameAsked

LEMMA BoxRests ==
  ASSUME NEW u, NEW v, NEW q, OnePending(v, q), HeardAs(u, v, q), q.op = "editBoolean", requests = {q}, q.id \in Nat,
         q.row \in Row, ~v.formShown, \A r \in Row : v.saved[Actions(r)] = "none"
  PROVE  TableAtRest(u) /\ WayBack(u, v, q)
<1>1. BoxHeard(u, v, q)
  BY DEF HeardAs
<1>2. /\ CreatingForm \in Place /\ Check(q.row) \in Place /\ Check(q.row) # CreatingForm /\ q.row # Table
      /\ \A p : ~IsAway(q, p)
  BY PlacesDiffer, TableAssumption DEF PlacesApart, IsAway
<1>3. PICK replaced \in BOOLEAN :
         /\ replaced => \E p \in requests : p.id > q.id
         /\ \A p \in Place : u.html[p] = IF p = Check(q.row) /\ v.html[p] = "sending" /\ ~replaced THEN "own"
                                         ELSE v.html[p]
  BY <1>1 DEF BoxHeard
<1>4. ~replaced
  BY <1>3
<1>5. /\ v.inUse = Table /\ v.warning = Table /\ v.html[Check(q.row)] \in {"own", "sending"}
      /\ \A p \in Place \ {CreatingForm} : p # Check(q.row) => v.html[p] = "own"
      /\ v.top => v.html[CreatingForm] = "own"
  BY <1>2 DEF OnePending, SavedRight
<1>6. \A p \in Place \ {CreatingForm} : u.html[p] = "own"
  BY <1>2, <1>3, <1>4, <1>5
<1>7. u.html[CreatingForm] = v.html[CreatingForm] /\ ~u.formShown /\ u.saved = v.saved
  BY <1>1, <1>2, <1>3 DEF BoxHeard
<1>8. u.inUse = Table /\ IF IsQuestion(q.answer) THEN ~u.top /\ u.warning = q.row ELSE SameWay(u, v) /\ SameAsked(u, v)
  BY <1>1, <1>5 DEF BoxHeard, SameAsked, SameWay
<1>9. u.top => u.html[CreatingForm] = "own"
  BY <1>5, <1>7, <1>8 DEF SameWay
<1>10. TableAtRest(u)
  BY <1>6, <1>7, <1>8, <1>9 DEF TableAtRest, Clean
<1>11. WayBack(u, v, q)
  BY <1>2, <1>8 DEF WayBack, Way
<1>12. QED
  BY <1>10, <1>11

LEMMA AllRest ==
  ASSUME NEW u, NEW v \in TableViews, NEW q, PlacesRight(v, {q}), q.op = "checkAll", v.inUse = Table,
         q.extra.rows = ToSet(v.rows), ToSet(v.rows) \subseteq Row,
         CheckedAll(u, v, q.force, q.extra.rows, q.answer)
  PROVE  TableAtRest(u) /\ SameWay(u, v) /\ SameAsked(u, v)
<1> DEFINE rs == ToSet(v.rows)
<1>1. /\ SameWay(u, v) /\ SameAsked(u, v)
      /\ \A p \in Place : u.html[p] = IF p \in ChecksOf(rs) /\ Present(v, p) THEN BackIn(v, p, FALSE) ELSE v.html[p]
      /\ \A p \in Place : u.saved[p] = IF p \in ChecksOf(rs) THEN "none" ELSE v.saved[p]
  BY DEF CheckedAll
<1>2. /\ CreatingForm \in Place /\ CreatingForm \notin ChecksOf(rs)
      /\ \A r \in Row : Check(r) \in Place /\ Actions(r) \in Place /\ Actions(r) \notin ChecksOf(rs) /\ r # Table
      /\ \A p : IsAway(q, p) <=> p \in ChecksOf(rs)
  BY PlacesDiffer, TableAssumption DEF PlacesApart, IsAway, ChecksOf
<1>3. /\ \A p \in Place : p \in ChecksOf(rs) => v.saved[p] = "own"
      /\ \A p \in Place \ {CreatingForm} : p \notin ChecksOf(rs) => v.html[p] = "own"
      /\ v.top => v.html[CreatingForm] = "own"
      /\ \A r \in Row : (v.form = r /\ v.formShown) \/ v.warning = r => Clean(v.saved[Actions(r)])
  BY <1>2 DEF PlacesRight, PartsRight, SavedRight, KeptRight
<1>4. \A p \in Place : p \in ChecksOf(rs) => Present(v, p)
  BY PlacePresent DEF ChecksOf
<1> HIDE DEF rs
<1>5. \A p \in Place \ {CreatingForm} : u.html[p] = "own"
  <2>1. ASSUME NEW p \in Place \ {CreatingForm} PROVE u.html[p] = "own"
    <3>1. CASE p \in ChecksOf(rs)
      BY <1>1, <1>3, <1>4, <3>1 DEF BackIn
    <3>2. CASE p \notin ChecksOf(rs)
      BY <1>1, <1>3, <3>2
    <3>3. QED
      BY <3>1, <3>2
  <2>2. QED
    BY <2>1
<1>6. u.top => u.html[CreatingForm] = "own"
  BY <1>1, <1>2, <1>3 DEF SameWay
<1>7. \A r \in Row : (u.form = r /\ u.formShown) \/ u.warning = r => Clean(u.saved[Actions(r)])
  BY <1>1, <1>2, <1>3 DEF SameWay, SameAsked
<1>8. QED
  BY <1>1, <1>5, <1>6, <1>7 DEF TableAtRest, SameAsked

\* Whatever was answered, what the request replaced is back.
LEMMA PlaceAnswer ==
  ASSUME TableShape, RowsInv, PlaceInv, NEW q \in requests, AnsweredWell(q)
  PROVE  PlaceInv'
<1>1. /\ q.answer.res # "none" /\ requests' = requests \ {q}
      /\ UNCHANGED <<tableKind, dbRows, dbChecks, issued, lost, sent, overlapped>>
  BY DEF AnsweredWell
<1>2. PICK u : u = view'
  OBVIOUS
<1>3. u \in TableViews /\ HeardAs(u, view, q)
  BY <1>2 DEF AnsweredWell
<1>4. /\ IsRequest(q) /\ AskedFits(tableKind, q) /\ AnswerFits(q, lost) /\ view \in TableViews
      /\ OtherKind(tableKind, view)
  BY DEF TableShape, RequestFits
<1>5. \A p \in requests' : p.op \in sent'
  BY <1>1 DEF PlaceInv
<1>6. ASSUME tableKind = "checks", u.warning # Table PROVE BoxQuestioned \in lost
  <2>1. q.op \in {"changeList", "editBoolean", "checkAll"}
    BY <1>4, <1>6 DEF AskedFits, OpsOf
  <2>2. CASE u.warning = view.warning
    BY <1>6, <2>2 DEF PlaceInv
  <2>3. CASE u.warning # view.warning
    <3>1. CASE q.op = "changeList"
      <4>1. PICK c : c = q.answer.change
        OBVIOUS
      <4>2. UpdatedAs(u, view, q, c)
        BY <1>3, <2>3, <3>1, <4>1 DEF HeardAs
      <4>3. u.warning = Table
        BY <3>1, <4>2 DEF UpdatedAs, TableRedrawn
      <4>4. QED
        BY <1>6, <4>3
    <3>2. CASE q.op = "editBoolean"
      <4>1. IsQuestion(q.answer)
        BY <1>3, <2>3, <3>2 DEF HeardAs, BoxHeard, SameAsked
      <4>2. QED
        BY <1>4, <3>2, <4>1 DEF AnswerFits, IsQuestion, BoxQuestioned
    <3>3. CASE q.op = "checkAll"
      BY <1>3, <2>3, <3>3 DEF HeardAs, CheckedAll, SameAsked
    <3>4. QED
      BY <2>1, <3>1, <3>2, <3>3
  <2>4. QED
    BY <2>2, <2>3
<1>7. ASSUME ~overlapped, Stays
      PROVE  requests' = {} /\ PlacesRight(u, {}) /\ (BoxQuestioned \notin lost => WayRight(u, {}))
  <2>1. requests = {q} /\ requests' = {}
    BY <1>1, <1>7 DEF RowsInv
  <2>2. PlacesRight(view, {q}) /\ (BoxQuestioned \notin lost => WayRight(view, {q}))
    BY <1>7, <2>1 DEF PlaceInv
  <2>3. q.op \in TableOps /\ q.op # "changeClone"
    BY <1>4, <1>7, OpsAre DEF PlaceInv, Stays
  <2>4. CASE q.op = "checkAll"
    <3>1. CheckedAll(u, view, q.force, q.extra.rows, q.answer)
      BY <1>3, <2>4 DEF HeardAs
    <3>2. q.extra.rows = ToSet(view.rows)
      BY <1>7, <2>1, <2>4 DEF RowsInv, BoxesRight
    <3>3. view.inUse = Table
      BY <1>4, <2>4 DEF AskedFits, OpsOf, TableKinds, OtherKind
    <3>4. ToSet(view.rows) \subseteq Row
      BY <1>4, InSet DEF TableViews
    <3>5. TableAtRest(u) /\ SameWay(u, view) /\ SameAsked(u, view)
      BY <1>4, <2>2, <2>4, <3>1, <3>2, <3>3, <3>4, AllRest
    <3>6. WayRight(view, {q}) => WayRight(u, {})
      BY <2>4, <3>5 DEF WayRight, Way, SameWay, SameAsked
    <3>7. QED
      BY <2>1, <2>2, <3>5, <3>6, RestIsRight
  <2>5. CASE q.op # "checkAll"
    <3>1. OnePending(view, q)
      <4>1. view.warning = Table /\ view.inUse = Table
        BY <2>2, <2>5 DEF PlacesRight, QuestionsRight
      <4>2. /\ \A p \in Place \ {CreatingForm} :
                  view.html[p] = "own" \/ IsAway(q, p) \/ (q.op = "editBoolean" /\ p = Check(q.row))
            /\ view.top => view.html[CreatingForm] = "own" \/ q.op = "changeAdd"
        BY <2>2, <4>1 DEF PlacesRight, PartsRight
      <4>3. \A r \in Row : view.form = r /\ view.formShown => Clean(view.saved[Actions(r)])
        BY <2>2 DEF PlacesRight, KeptRight
      <4>4. q.op \in {"del", "changeEdit", "custom"} => q.row \in ToSet(view.rows)
        BY <2>2 DEF PlacesRight, RowsThere
      <4>5. SavedRight(view, q)
        BY <2>2 DEF PlacesRight
      <4>6. QED
        BY <1>4, <4>1, <4>2, <4>3, <4>4, <4>5 DEF OnePending
    <3>2. q.op \notin {"add", "changeList"} => q.row \in Row
      BY <1>4, <2>5 DEF AskedFits
    <3>3. PICK t : t = <<q.op, q.force, q.answer.res>>
      OBVIOUS
    <3>4. t[1] = q.op /\ t[2] = q.force /\ t[3] = q.answer.res
      BY <3>3
    <3>5. /\ q.answer.res \in {"ok", "refused", "failed"}
          /\ q.answer.res # "ok" => t \in Forgives
      BY <1>1, <1>4, <1>7, <3>3 DEF AnswerFits, Stays
    <3>6. q.answer.res # "ok" =>
             \/ /\ q.op \in {"add", "edit", "del", "setPosition", "editBoolean", "checkAll", "custom"} /\ q.force = FALSE
             \/ q.op = "changeAdd" /\ q.force = FALSE /\ q.answer.res = "refused"
             \/ q.op = "changeEdit" /\ q.force = FALSE /\ q.answer.res = "failed"
             \/ q.op = "checkAll"
      <4>1. t \in ({"add", "edit", "del", "setPosition", "editBoolean", "checkAll", "custom"} \X {FALSE}
                        \X {"refused", "failed", "questioned"})
               => /\ t[1] \in {"add", "edit", "del", "setPosition", "editBoolean", "checkAll", "custom"}
                  /\ t[2] = FALSE
        OBVIOUS
      <4>2. t = <<"changeAdd", FALSE, "refused">> => t[1] = "changeAdd" /\ t[2] = FALSE /\ t[3] = "refused"
        OBVIOUS
      <4>3. t = <<"changeEdit", FALSE, "failed">> => t[1] = "changeEdit" /\ t[2] = FALSE /\ t[3] = "failed"
        OBVIOUS
      <4>4. t = <<"checkAll", TRUE, "refused">> \/ t = <<"checkAll", TRUE, "failed">> => t[1] = "checkAll"
        <5>1. t = <<"checkAll", TRUE, "refused">> => t[1] = "checkAll"
          OBVIOUS
        <5>2. t = <<"checkAll", TRUE, "failed">> => t[1] = "checkAll"
          OBVIOUS
        <5>3. QED
          BY <5>1, <5>2
      <4>5. q.answer.res # "ok" =>
               \/ t \in ({"add", "edit", "del", "setPosition", "editBoolean", "checkAll", "custom"} \X {FALSE}
                         \X {"refused", "failed", "questioned"})
               \/ t = <<"changeAdd", FALSE, "refused">>
               \/ t = <<"changeEdit", FALSE, "failed">>
               \/ t = <<"checkAll", TRUE, "refused">> \/ t = <<"checkAll", TRUE, "failed">>
        BY <3>5 DEF Forgives
      <4>6. QED
        BY <3>4, <4>1, <4>2, <4>3, <4>4, <4>5
    <3>8. TableAtRest(u) /\ WayBack(u, view, q)
      <4>1. CASE q.op \in {"add", "edit"}
        BY <1>3, <3>1, <3>2, <3>6, <4>1, AddRests
      <4>2. CASE q.op = "del"
        BY <1>3, <3>1, <3>2, <3>6, <4>2, DelRests
      <4>3. CASE q.op = "changeAdd"
        BY <1>3, <3>1, <3>2, <3>5, <3>6, <4>3, CreateRests
      <4>4. CASE q.op = "changeEdit"
        BY <1>3, <3>1, <3>2, <3>5, <3>6, <4>4, EditRests
      <4>5. CASE q.op = "custom"
        BY <1>3, <3>1, <3>2, <4>5, CustomRests
      <4>6. CASE q.op = "changeList"
        <5>1. PICK c : c = q.answer.change
          OBVIOUS
        <5>2. UpdatedAs(u, view, q, c)
          BY <1>3, <3>5, <3>6, <4>6, <5>1 DEF HeardAs
        <5>3. \E rs, cs : TableRedrawn(u, view, rs, cs)
          BY <4>6, <5>2 DEF UpdatedAs
        <5>4. QED
          BY <5>3, RedrawnRests
      <4>7. CASE q.op = "setPosition"
        <5>1. u = view /\ \A p : ~IsAway(q, p)
          BY <1>3, <4>7 DEF HeardAs, IsAway
        <5>2. \A r \in Row : r # Table
          BY TableAssumption
        <5>3. QED
          BY <3>1, <4>7, <5>1, <5>2 DEF OnePending, TableAtRest, WayBack, Way, SameWay
      <4>8. CASE q.op = "editBoolean"
        <5>1. tableKind # "rows" /\ q.id \in Nat
          BY <1>4, <4>8 DEF AskedFits, OpsOf, TableKinds, IsRequest
        <5>2. ~view.formShown /\ \A r \in Row : view.saved[Actions(r)] = "none"
          BY <1>4, <5>1 DEF OtherKind
        <5>3. QED
          BY <1>3, <2>1, <3>1, <3>2, <4>8, <5>1, <5>2, BoxRests
      <4>9. QED
        BY <2>3, <2>5, <4>1, <4>2, <4>3, <4>4, <4>5, <4>6, <4>7, <4>8 DEF TableOps
    <3>9. WayRight(view, {q}) => Way(view) \/ (q.force /\ q.op \in {"edit", "del"})
      BY <3>1 DEF WayRight, OnePending
    <3>10. BoxQuestioned \notin lost => WayRight(u, {})
      BY <2>2, <3>8, <3>9 DEF WayBack, WayRight, Way, SameWay
    <3>11. QED
      BY <2>1, <3>8, <3>10, RestIsRight
  <2>6. QED
    BY <2>4, <2>5
<1>8. QED
  BY <1>1, <1>2, <1>5, <1>6, <1>7 DEF PlaceInv, Stays

LEMMA PlaceCancelForm ==
  ASSUME TableShape, PlaceInv, CancelForm
  PROVE  PlaceInv'
<1>1. UNCHANGED <<tableKind, dbRows, dbChecks, requests, issued, lost, sent, overlapped>>
  BY DEF CancelForm
<1>2. PICK u : u = view'
  OBVIOUS
<1>3. /\ SameAsked(u, view) /\ u.rows = view.rows /\ u.saved = view.saved /\ u.top /\ ~u.formShown
      /\ \A p \in Place : u.html[p] = IF p \in {CreatingForm} THEN "own" ELSE view.html[p]
  BY <1>2, CancelOfForm DEF FormGone, SameRows, HtmlIs
<1>4. CreatingForm \in Place /\ \A r \in Row : Check(r) \in Place /\ Check(r) # CreatingForm
  BY PlacesDiffer DEF PlacesApart
<1>5. ASSUME PlacesRight(view, requests) PROVE PlacesRight(u, requests)
  <2>1. RowsThere(u, requests) /\ QuestionsRight(u, requests)
    BY <1>3, <1>5 DEF PlacesRight, RowsThere, QuestionsRight, SameAsked
  <2>2. PartsRight(u, requests)
    BY <1>3, <1>4, <1>5 DEF PlacesRight, PartsRight, SameAsked
  <2>3. KeptRight(u)
    BY <1>3, <1>5 DEF PlacesRight, KeptRight, SameAsked
  <2>4. ASSUME NEW q \in requests PROVE SavedRight(u, q)
    <3>1. SavedRight(view, q)
      BY <1>5 DEF PlacesRight
    <3>2. q.op = "editBoolean" => q.row \in Row
      BY DEF TableShape, RequestFits, AskedFits
    <3>3. QED
      BY <1>3, <1>4, <3>1, <3>2 DEF SavedRight
  <2>5. QED
    BY <2>1, <2>2, <2>3, <2>4 DEF PlacesRight
<1>6. WayRight(u, requests)
  BY <1>3 DEF WayRight, Way
<1>7. u.warning = view.warning
  BY <1>3 DEF SameAsked
<1>8. QED
  BY <1>1, <1>2, <1>5, <1>6, <1>7 DEF PlaceInv, Stays

\* With the question the cell of its row comes back, saved or not.
LEMMA PlaceCancelInUse ==
  ASSUME TableShape, PlaceInv, NEW r \in Row, CancelInUse(r)
  PROVE  PlaceInv'
<1>1. /\ UNCHANGED <<tableKind, dbRows, dbChecks, requests, issued, lost, sent, overlapped>>
      /\ view.warning = r \/ view.inUse = r
  BY DEF CancelInUse
<1>2. PICK u : u = view'
  OBVIOUS
<1>3. /\ u.rows = view.rows /\ u.top /\ ~u.formShown /\ u.warning = Table
      /\ \A p \in Place : u.html[p] =
            IF p = CreatingForm THEN "own"
            ELSE IF p = Actions(r) /\ Present(view, p) THEN BackIn(view, p, TRUE) ELSE view.html[p]
      /\ \A p \in Place : u.saved[p] = IF p = Actions(r) THEN "none" ELSE view.saved[p]
      /\ view.warning # Table => u.inUse = view.inUse
      /\ view.warning = Table => u.inUse = Table
  BY <1>2, CancelQuestion DEF Cancelled
<1>4. /\ CreatingForm \in Place /\ Actions(r) \in Place /\ Actions(r) # CreatingForm
      /\ \A s \in Row : s # Table
      /\ \A rs : Actions(r) \notin ChecksOf(rs)
  BY PlacesDiffer, TableAssumption DEF PlacesApart, ChecksOf
<1>5. view \in TableViews
  BY DEF TableShape
<1>6. ASSUME PlacesRight(view, requests) PROVE PlacesRight(u, requests)
  <2>1. /\ view.warning = Table \/ view.inUse = Table
        /\ \A q \in requests : q.op = "checkAll"
    BY <1>1, <1>4, <1>6 DEF PlacesRight, QuestionsRight
  <2>2. u.inUse = Table
    BY <1>3, <2>1
  <2>3. \A q \in requests : ~IsAway(q, Actions(r)) /\ q.op # "editBoolean"
    BY <1>4, <2>1 DEF IsAway
  <2>4. u.html[Actions(r)] = "own"
    <3>1. CASE view.warning = r
      <4>1. view.inUse = Table /\ Clean(view.saved[Actions(r)])
        BY <1>4, <1>6, <2>1, <3>1 DEF PlacesRight, KeptRight
      <4>2. view.html[Actions(r)] = "own"
        BY <1>4, <1>6, <2>3, <4>1 DEF PlacesRight, PartsRight
      <4>3. QED
        BY <1>3, <1>4, <4>1, <4>2 DEF BackIn, Clean
    <3>2. CASE view.inUse = r
      <4>1. view.saved[Actions(r)] = "own" /\ r \in ToSet(view.rows)
        BY <1>4, <1>6, <3>2 DEF PlacesRight, KeptRight, RowsThere
      <4>2. Present(view, Actions(r))
        BY <1>5, <4>1, PlacePresent
      <4>3. QED
        BY <1>3, <1>4, <4>1, <4>2 DEF BackIn
    <3>3. QED
      BY <1>1, <3>1, <3>2
  <2>5. ASSUME NEW p \in Place \ {CreatingForm}, u.html[p] # "own" PROVE \E q \in requests : IsAway(q, p)
    <3>1. p # Actions(r) /\ view.html[p] # "own"
      BY <1>3, <2>4, <2>5
    <3>2. ~(view.inUse # Table /\ p = Actions(view.inUse))
      BY <1>1, <1>4, <2>1, <3>1
    <3>3. QED
      BY <1>6, <2>3, <3>1, <3>2 DEF PlacesRight, PartsRight
  <2>6. u.html[CreatingForm] = "own"
    BY <1>3, <1>4
  <2>7. PartsRight(u, requests)
    BY <2>5, <2>6 DEF PartsRight
  <2>8. RowsThere(u, requests) /\ QuestionsRight(u, requests)
    BY <1>3, <2>1, <2>2 DEF RowsThere, QuestionsRight
  <2>9. KeptRight(u)
    BY <1>3, <1>4, <2>2 DEF KeptRight
  <2>10. ASSUME NEW q \in requests PROVE SavedRight(u, q)
    <3>1. SavedRight(view, q) /\ q.op = "checkAll" /\ ~IsAway(q, Actions(r))
      BY <1>6, <2>1, <2>3 DEF PlacesRight
    <3>2. QED
      BY <1>3, <3>1 DEF SavedRight
  <2>11. QED
    BY <2>7, <2>8, <2>9, <2>10 DEF PlacesRight
<1>7. WayRight(u, requests)
  BY <1>3 DEF WayRight, Way
<1>8. QED
  BY <1>1, <1>2, <1>3, <1>6, <1>7 DEF PlaceInv, Stays

LEMMA PlaceStart ==
  ASSUME TableInit
  PROVE  PlaceInv
<1>1. /\ requests = {} /\ tableKind = "none" /\ \A p \in Place : view.html[p] = "own" /\ view.saved[p] = "none"
      /\ view.top /\ ~view.formShown /\ view.form = "none" /\ view.inUse = Table /\ view.warning = Table
  BY TableStarts
<1>2. CreatingForm \in Place /\ \A r \in Row : r # Table
  BY PlacesDiffer, TableAssumption DEF PlacesApart
<1>3. TableAtRest(view)
  BY <1>1, <1>2 DEF TableAtRest
<1>4. PlacesRight(view, {}) /\ WayRight(view, {})
  BY <1>1, <1>3, RestIsRight DEF WayRight, Way
<1>5. QED
  BY <1>1, <1>4 DEF PlaceInv

LEMMA PlaceKept ==
  ASSUME TableSafe, RowsInv, PlaceInv, [TableNext]_tableVars
  PROVE  PlaceInv'
<1>0. TableShape
  BY DEF TableSafe
<1>1. CASE UNCHANGED tableVars
  BY <1>1 DEF PlaceInv, Stays, tableVars
<1>2. ASSUME NEW kind \in {"rows", "checks", "actions"}, OpenTable(kind) PROVE PlaceInv'
  <2>1. UNCHANGED <<view, dbRows, dbChecks, requests, issued, lost, sent, overlapped>> /\ tableKind = "none"
    BY <1>2 DEF OpenTable
  <2>2. view.warning = Table
    BY <2>1 DEF TableSafe, Unopened
  <2>3. QED
    BY <2>1, <2>2 DEF PlaceInv, Stays
<1>3. CASE Clicks
  BY <1>0, <1>3, ClicksWell, PlaceClick
<1>4. CASE CancelForm \/ \E r \in Row : CancelInUse(r)
  BY <1>0, <1>4, PlaceCancelForm, PlaceCancelInUse
<1>5. ASSUME NEW q \in requests, Serves(q) PROVE PlaceInv'
  BY <1>0, <1>5, ServesWell, PlaceServe
<1>6. ASSUME NEW q \in requests, Answer(q) PROVE PlaceInv'
  BY <1>0, <1>6, AnswersWell, PlaceAnswer
<1>7. QED
  BY <1>1, <1>2, <1>3, <1>4, <1>5, <1>6, TableSteps

LEMMA PageIsBack ==
  ASSUME PlaceInv
  PROVE  PageComesBack
<1>1. SUFFICES ASSUME requests = {}, ~overlapped, view.warning = Table, view.inUse = Table, Stays
               PROVE  /\ \A p \in Place \ {CreatingForm} : view.html[p] = "own"
                      /\ view.top => view.html[CreatingForm] = "own"
                      /\ BoxQuestioned \notin lost => view.top \/ (view.formShown /\ view.form # "none")
  BY DEF PageComesBack, Quiet, Asked, Stays, BoxQuestioned
<1>2. TableAtRest(view) /\ (BoxQuestioned \notin lost => WayRight(view, {}))
  BY <1>1, RestIsRight DEF PlaceInv
<1>3. QED
  BY <1>1, <1>2 DEF TableAtRest, WayRight, Way

\* When nothing is pending and no question is open, every part of the page is
\* back and there is a way to go on, after requests that did not overlap.
THEOREM PageComesBackHolds == TableSpec => []PageComesBack
<1>1. TableInit => TableSafe /\ RowsInv /\ PlaceInv
  BY SafeStarts, RowsStart, TableStarts, PlaceStart
<1>2. TableSafe /\ RowsInv /\ PlaceInv /\ [TableNext]_tableVars => (TableSafe /\ RowsInv /\ PlaceInv)'
  BY SafeKept, TableRowsKept, PlaceKept
<1>3. PlaceInv => PageComesBack
  BY PageIsBack
<1>4. QED
  BY <1>1, <1>2, <1>3, PTL DEF TableSpec

-----------------------------------------------------------------------------
(* UISortable: the order a page is told of its lists, for any items.       *)

\* A list without what is at a place.
LEMMA RemovedAt ==
  ASSUME NEW S, NEW list \in Unrepeated(S), NEW a \in 1..Len(list)
  PROVE  LET u == RemoveFirst(list, list[a])
         IN  u \in Unrepeated(S) /\ Len(u) = Len(list) - 1 /\ TakesOut(list, Len(list), a, u)
<1> DEFINE u == RemoveFirst(list, list[a])
<1>1. list \in Seq(S) /\ Contains(list, list[a]) /\ Where(list, list[a]) = a
  BY WhereOnly DEF Unrepeated, Contains
<1>2. u = RemoveAt(list, a)
  BY <1>1, RemovedFirst
<1>3. Len(u) = Len(list) - 1 /\ TakesOut(list, Len(list), a, u)
  BY <1>1, <1>2, RemoveAtTakesOut
<1>4. u \in Unrepeated(S)
  BY FirstRemovedKeeps
<1> HIDE DEF u
<1>5. QED
  BY <1>3, <1>4 DEF u

\* Two elements are taken out in any order.
LEMMA RemovedApart ==
  ASSUME NEW S, NEW list \in Unrepeated(S), NEW a \in 1..Len(list), NEW b \in 1..Len(list), a < b
  PROVE  RemoveFirst(RemoveFirst(list, list[a]), list[b]) = RemoveFirst(RemoveFirst(list, list[b]), list[a])
<1>1. PICK u, w : u = RemoveFirst(list, list[a]) /\ w = RemoveFirst(list, list[b])
  OBVIOUS
<1>2. Len(list) \in Nat /\ list \in Seq(S)
  BY DEF Unrepeated
<1>3. /\ u \in Unrepeated(S) /\ Len(u) = Len(list) - 1
      /\ \A j \in 1..(Len(list) - 1) : u[j] = IF j < a THEN list[j] ELSE list[j + 1]
  BY <1>1, RemovedAt DEF TakesOut
<1>4. /\ w \in Unrepeated(S) /\ Len(w) = Len(list) - 1
      /\ \A j \in 1..(Len(list) - 1) : w[j] = IF j < b THEN list[j] ELSE list[j + 1]
  BY <1>1, RemovedAt DEF TakesOut
<1>5. b - 1 \in 1..Len(u) /\ u[b - 1] = list[b]
  <2>1. b - 1 \in 1..(Len(list) - 1) /\ ~(b - 1 < a) /\ (b - 1) + 1 = b
    BY <1>2
  <2>2. QED
    BY <1>3, <2>1
<1>6. a \in 1..Len(w) /\ w[a] = list[a]
  <2>1. a \in 1..(Len(list) - 1)
    BY <1>2
  <2>2. QED
    BY <1>4, <2>1
<1>7. PICK p, q : p = RemoveFirst(u, list[b]) /\ q = RemoveFirst(w, list[a])
  OBVIOUS
<1>8. /\ p \in Unrepeated(S) /\ Len(p) = Len(u) - 1
      /\ \A j \in 1..(Len(u) - 1) : p[j] = IF j < b - 1 THEN u[j] ELSE u[j + 1]
  <2>1. p = RemoveFirst(u, u[b - 1])
    BY <1>5, <1>7
  <2>2. p \in Unrepeated(S) /\ Len(p) = Len(u) - 1 /\ TakesOut(u, Len(u), b - 1, p)
    BY <1>3, <1>5, <2>1, RemovedAt
  <2>3. QED
    BY <2>2 DEF TakesOut
<1>9. /\ q \in Unrepeated(S) /\ Len(q) = Len(w) - 1
      /\ \A j \in 1..(Len(w) - 1) : q[j] = IF j < a THEN w[j] ELSE w[j + 1]
  <2>1. q = RemoveFirst(w, w[a])
    BY <1>6, <1>7
  <2>2. q \in Unrepeated(S) /\ Len(q) = Len(w) - 1 /\ TakesOut(w, Len(w), a, q)
    BY <1>4, <1>6, <2>1, RemovedAt
  <2>3. QED
    BY <2>2 DEF TakesOut
<1>10. ASSUME NEW j \in 1..Len(p) PROVE p[j] = q[j]
  <2>1. /\ j \in 1..(Len(list) - 2) /\ j \in 1..(Len(list) - 1) /\ j + 1 \in 1..(Len(list) - 1)
        /\ j \in 1..(Len(u) - 1) /\ j \in 1..(Len(w) - 1)
    BY <1>2, <1>3, <1>4, <1>8
  <2>2. CASE j < a
    <3>1. j < b - 1
      BY <2>1, <2>2
    <3>2. p[j] = list[j]
      BY <1>3, <1>8, <2>1, <2>2, <3>1
    <3>3. q[j] = list[j]
      BY <1>4, <1>9, <2>1, <2>2
    <3>4. QED
      BY <3>2, <3>3
  <2>3. CASE ~(j < a) /\ j < b - 1
    <3>1. j + 1 < b
      BY <2>1, <2>3
    <3>2. p[j] = list[j + 1]
      BY <1>3, <1>8, <2>1, <2>3
    <3>3. q[j] = list[j + 1]
      BY <1>4, <1>9, <2>1, <2>3, <3>1
    <3>4. QED
      BY <3>2, <3>3
  <2>4. CASE ~(j < a) /\ ~(j < b - 1)
    <3>1. ~(j + 1 < b) /\ ~(j + 1 < a)
      BY <2>1, <2>4
    <3>2. p[j] = u[j + 1] /\ u[j + 1] = list[(j + 1) + 1]
      BY <1>3, <1>8, <2>1, <2>4, <3>1
    <3>3. q[j] = w[j + 1] /\ w[j + 1] = list[(j + 1) + 1]
      BY <1>4, <1>9, <2>1, <2>4, <3>1
    <3>4. QED
      BY <3>2, <3>3
  <2>5. QED
    BY <2>2, <2>3, <2>4
<1>11. p \in Seq(S) /\ q \in Seq(S) /\ Len(p) = Len(q)
  BY <1>3, <1>4, <1>8, <1>9 DEF Unrepeated
<1>12. p = q
  BY <1>10, <1>11, SameList
<1>13. QED
  BY <1>1, <1>7, <1>12

LEMMA RemovedInAnyOrder ==
  ASSUME NEW S, NEW list \in Unrepeated(S), NEW x, NEW y
  PROVE  RemoveFirst(RemoveFirst(list, x), y) = RemoveFirst(RemoveFirst(list, y), x)
<1>1. list \in Seq(S) /\ Len(list) \in Nat
  BY DEF Unrepeated
<1>2. CASE ~Contains(list, x)
  <2>1. RemoveFirst(list, x) = list
    BY <1>1, <1>2, RemovedFirst
  <2>2. PICK w : w = RemoveFirst(list, y)
    OBVIOUS
  <2>3. w \in Unrepeated(S) /\ w \in Seq(S) /\ ToSet(w) = ToSet(list) \ {y}
    BY <2>2, FirstRemovedKeeps DEF Unrepeated
  <2>4. ~Contains(w, x)
    BY <1>1, <1>2, <2>3, InSet
  <2>5. RemoveFirst(w, x) = w
    BY <2>3, <2>4, RemovedFirst
  <2>6. QED
    BY <2>1, <2>2, <2>5
<1>3. CASE ~Contains(list, y)
  <2>1. RemoveFirst(list, y) = list
    BY <1>1, <1>3, RemovedFirst
  <2>2. PICK w : w = RemoveFirst(list, x)
    OBVIOUS
  <2>3. w \in Unrepeated(S) /\ w \in Seq(S) /\ ToSet(w) = ToSet(list) \ {x}
    BY <2>2, FirstRemovedKeeps DEF Unrepeated
  <2>4. ~Contains(w, y)
    BY <1>1, <1>3, <2>3, InSet
  <2>5. RemoveFirst(w, y) = w
    BY <2>3, <2>4, RemovedFirst
  <2>6. QED
    BY <2>1, <2>2, <2>5
<1>4. CASE Contains(list, x) /\ Contains(list, y)
  <2>1. PICK a \in 1..Len(list) : list[a] = x
    BY <1>4 DEF Contains
  <2>2. PICK b \in 1..Len(list) : list[b] = y
    BY <1>4 DEF Contains
  <2>3. CASE a < b
    BY <2>1, <2>2, <2>3, RemovedApart
  <2>4. CASE b < a
    BY <2>1, <2>2, <2>4, RemovedApart
  <2>5. CASE a = b
    BY <2>1, <2>2, <2>5
  <2>6. a < b \/ b < a \/ a = b
    OBVIOUS
  <2>7. QED
    BY <2>3, <2>4, <2>5, <2>6
<1>5. QED
  BY <1>2, <1>3, <1>4

\* A list is known by what it is without an element and the place of that.
LEMMA SameWithout ==
  ASSUME NEW S, NEW c \in Unrepeated(S), NEW d \in Unrepeated(S), NEW a \in 1..Len(c), a \in 1..Len(d),
         c[a] = d[a], RemoveFirst(c, c[a]) = RemoveFirst(d, d[a])
  PROVE  c = d
<1>1. PICK u : u = RemoveFirst(c, c[a])
  OBVIOUS
<1>2. Len(c) \in Nat /\ Len(d) \in Nat /\ c \in Seq(S) /\ d \in Seq(S)
  BY DEF Unrepeated
<1>3. Len(u) = Len(c) - 1 /\ \A j \in 1..(Len(c) - 1) : u[j] = IF j < a THEN c[j] ELSE c[j + 1]
  BY <1>1, RemovedAt DEF TakesOut
<1>4. Len(u) = Len(d) - 1 /\ \A j \in 1..(Len(d) - 1) : u[j] = IF j < a THEN d[j] ELSE d[j + 1]
  BY <1>1, RemovedAt DEF TakesOut
<1>5. Len(c) = Len(d)
  BY <1>2, <1>3, <1>4
<1>6. ASSUME NEW j \in 1..Len(c) PROVE c[j] = d[j]
  <2>1. CASE j < a
    <3>1. j \in 1..(Len(c) - 1)
      BY <1>2, <2>1
    <3>2. QED
      BY <1>3, <1>4, <1>5, <2>1, <3>1
  <2>2. CASE j > a
    <3>1. j - 1 \in 1..(Len(c) - 1) /\ ~(j - 1 < a) /\ (j - 1) + 1 = j
      BY <1>2, <2>2
    <3>2. u[j - 1] = c[j]
      BY <1>3, <3>1
    <3>3. u[j - 1] = d[j]
      BY <1>4, <1>5, <3>1
    <3>4. QED
      BY <3>2, <3>3
  <2>3. j < a \/ j > a \/ j = a
    OBVIOUS
  <2>4. QED
    BY <2>1, <2>2, <2>3
<1>7. QED
  BY <1>2, <1>5, <1>6, SameList

ItemP == Item \union {Placeholder}

\* A list with the placeholder somewhere.
WithIt(d, t) == \E k \in 1..(Len(t) + 1) : d = InsertAt(t, k, Placeholder)

Swapped(rest, i) == [k \in DOMAIN rest |-> IF rest[k] = Placeholder THEN i ELSE rest[k]]

LEMMA ItemsApart == Placeholder \notin Item /\ "none" \notin Item
  BY SortAssumption DEF Placeholder

LEMMA ListOfItems ==
  ASSUME NEW t \in Unrepeated(Item)
  PROVE  /\ t \in Unrepeated(ItemP) /\ t \in Seq(Item) /\ ToSet(t) \subseteq Item
         /\ ~Contains(t, Placeholder) /\ RemoveFirst(t, Placeholder) = t
<1>1. t \in Seq(Item) /\ t \in Seq(ItemP)
  BY DEF Unrepeated, ItemP
<1>2. t \in Unrepeated(ItemP)
  BY <1>1 DEF Unrepeated
<1>3. ToSet(t) \subseteq Item /\ ~Contains(t, Placeholder)
  BY <1>1, InSet, ItemsApart
<1>4. RemoveFirst(t, Placeholder) = t
  BY <1>1, <1>3, RemovedFirst
<1>5. QED
  BY <1>1, <1>2, <1>3, <1>4

LEMMA WithItIs ==
  ASSUME NEW t \in Unrepeated(Item), NEW d, WithIt(d, t)
  PROVE  /\ d \in Unrepeated(ItemP) /\ ToSet(d) = ToSet(t) \union {Placeholder}
         /\ Contains(d, Placeholder) /\ RemoveFirst(d, Placeholder) = t
<1>1. PICK k \in 1..(Len(t) + 1) : d = InsertAt(t, k, Placeholder)
  BY DEF WithIt
<1>2. t \in Unrepeated(ItemP) /\ ~Contains(t, Placeholder) /\ Placeholder \in ItemP
  BY ListOfItems DEF ItemP
<1>3. d \in Unrepeated(ItemP) /\ ToSet(d) = ToSet(t) \union {Placeholder}
  BY <1>1, <1>2, InsertedKeeps
<1>4. RemoveFirst(d, Placeholder) = t
  BY <1>1, <1>2, RemoveInserted
<1>5. Contains(d, Placeholder)
  BY <1>3, InSet DEF Unrepeated
<1>6. QED
  BY <1>3, <1>4, <1>5

LEMMA NotSwapped ==
  ASSUME NEW t \in Unrepeated(Item), NEW i
  PROVE  /\ Swapped(RemoveFirst(t, i), i) = RemoveFirst(t, i)
         /\ RemoveFirst(t, i) \in Unrepeated(Item)
         /\ ToSet(RemoveFirst(t, i)) = ToSet(t) \ {i}
         /\ i \notin ToSet(t) => RemoveFirst(t, i) = t
<1>1. PICK u : u = RemoveFirst(t, i)
  OBVIOUS
<1>2. u \in Unrepeated(Item) /\ ToSet(u) = ToSet(t) \ {i}
  BY <1>1, FirstRemovedKeeps
<1>3. u \in Seq(Item) /\ DOMAIN u = 1..Len(u) /\ u = [k \in DOMAIN u |-> u[k]]
  BY <1>2 DEF Unrepeated
<1>4. \A k \in DOMAIN u : u[k] # Placeholder
  BY <1>3, ItemsApart
<1>5. Swapped(u, i) = u
  BY <1>3, <1>4 DEF Swapped
<1>6. i \notin ToSet(t) => RemoveFirst(t, i) = t
  <2>1. t \in Seq(Item)
    BY DEF Unrepeated
  <2>2. QED
    BY <2>1, InSet, RemovedFirst
<1>7. QED
  BY <1>1, <1>2, <1>5, <1>6

\* What the item makes of the list that it is let go in.
LEMMA SwappedIs ==
  ASSUME NEW t \in Unrepeated(Item), NEW i \in Item, NEW d, WithIt(d, t)
  PROVE  LET u == Swapped(RemoveFirst(d, i), i)
         IN  /\ u \in Unrepeated(Item) /\ ToSet(u) = ToSet(t) \union {i}
             /\ RemoveFirst(u, i) = RemoveFirst(t, i)
<1>1. PICK r : r = RemoveFirst(d, i)
  OBVIOUS
<1>2. PICK u : u = Swapped(r, i)
  OBVIOUS
<1>3. /\ d \in Unrepeated(ItemP) /\ ToSet(d) = ToSet(t) \union {Placeholder}
      /\ RemoveFirst(d, Placeholder) = t
  BY WithItIs
<1>4. r \in Unrepeated(ItemP) /\ ToSet(r) = ToSet(d) \ {i} /\ ~Contains(r, i)
  BY <1>1, <1>3, FirstRemovedKeeps
<1>5. /\ r \in Seq(ItemP) /\ Len(r) \in Nat /\ DOMAIN r = 1..Len(r)
      /\ \A j, k \in 1..Len(r) : r[j] = r[k] => j = k
  BY <1>4 DEF Unrepeated
<1>6. Placeholder \in ToSet(r) /\ Contains(r, Placeholder)
  <2>1. Placeholder \in ToSet(r)
    BY <1>3, <1>4, ItemsApart
  <2>2. QED
    BY <1>5, <2>1, InSet
<1>7. PICK m \in 1..Len(r) : r[m] = Placeholder
  BY <1>6 DEF Contains
<1>8. \A k \in 1..Len(r) : r[k] \in ItemP /\ r[k] # i /\ (r[k] = Placeholder <=> k = m)
  BY <1>4, <1>5, <1>7 DEF Contains
<1>9. u = [k \in 1..Len(r) |-> IF k = m THEN i ELSE r[k]]
  BY <1>2, <1>5, <1>8 DEF Swapped
<1>10. u \in Seq(Item) /\ Len(u) = Len(r)
  <2>1. \A k \in 1..Len(r) : (IF k = m THEN i ELSE r[k]) \in Item
    BY <1>8 DEF ItemP
  <2>2. u \in [1..Len(r) -> Item]
    BY <1>9, <2>1
  <2>3. u \in Seq(Item)
    BY <1>5, <2>2, SeqDef
  <2>4. QED
    BY <1>5, <2>2, <2>3
<1>11. \A k \in 1..Len(u) : u[k] = IF k = m THEN i ELSE r[k]
  BY <1>9, <1>10
<1>12. u \in Unrepeated(Item)
  <2>1. ASSUME NEW j \in 1..Len(u), NEW k \in 1..Len(u), u[j] = u[k] PROVE j = k
    BY <1>5, <1>8, <1>10, <1>11, <2>1
  <2>2. QED
    BY <1>10, <2>1 DEF Unrepeated
<1>13. ToSet(u) = ToSet(t) \union {i}
  <2>1. \A y : y \in ToSet(u) <=> \E k \in 1..Len(u) : u[k] = y
    BY <1>10, InSet DEF Contains
  <2>2. \A y : y \in ToSet(r) <=> \E k \in 1..Len(r) : r[k] = y
    BY <1>5, InSet DEF Contains
  <2>3. i \in ToSet(u)
    BY <1>7, <1>10, <1>11, <2>1
  <2>4. \A y : y # i => (y \in ToSet(u) <=> y \in ToSet(r) /\ y # Placeholder)
    <3>1. ASSUME NEW y, y # i, y \in ToSet(u) PROVE y \in ToSet(r) /\ y # Placeholder
      BY <1>8, <1>10, <1>11, <2>1, <2>2, <3>1
    <3>2. ASSUME NEW y, y # i, y \in ToSet(r), y # Placeholder PROVE y \in ToSet(u)
      BY <1>7, <1>10, <1>11, <2>1, <2>2, <3>2
    <3>3. QED
      BY <3>1, <3>2
  <2>5. ToSet(t) \subseteq Item
    BY ListOfItems
  <2>6. \A y : y # i => (y \in ToSet(u) <=> y \in ToSet(t))
    BY <1>3, <1>4, <2>4, <2>5, ItemsApart
  <2>7. QED
    BY <2>3, <2>6
<1>14. RemoveFirst(u, i) = RemoveFirst(t, i)
  <2>1. PICK p, q : p = RemoveFirst(u, i) /\ q = RemoveFirst(r, Placeholder)
    OBVIOUS
  <2>2. p = RemoveFirst(u, u[m]) /\ m \in 1..Len(u)
    BY <1>10, <1>11, <2>1
  <2>3. q = RemoveFirst(r, r[m])
    BY <1>7, <2>1
  <2>4. p \in Unrepeated(Item) /\ Len(p) = Len(u) - 1 /\ TakesOut(u, Len(u), m, p)
    BY <1>12, <2>2, RemovedAt
  <2>5. q \in Unrepeated(ItemP) /\ Len(q) = Len(r) - 1 /\ TakesOut(r, Len(r), m, q)
    BY <1>4, <2>3, RemovedAt
  <2>6. ASSUME NEW k \in 1..Len(p) PROVE p[k] = q[k]
    <3>1. k \in 1..(Len(r) - 1) /\ k \in 1..Len(u) /\ k + 1 \in 1..Len(u)
      BY <1>5, <1>10, <2>4
    <3>2. CASE k < m
      <4>1. p[k] = u[k] /\ q[k] = r[k] /\ k # m
        BY <1>10, <2>4, <2>5, <3>1, <3>2 DEF TakesOut
      <4>2. QED
        BY <1>11, <3>1, <4>1
    <3>3. CASE ~(k < m)
      <4>1. p[k] = u[k + 1] /\ q[k] = r[k + 1] /\ k + 1 # m
        BY <1>10, <2>4, <2>5, <3>1, <3>3 DEF TakesOut
      <4>2. QED
        BY <1>11, <3>1, <4>1
    <3>4. QED
      BY <3>2, <3>3
  <2>7. p \in Seq(ItemP) /\ q \in Seq(ItemP) /\ Len(p) = Len(q)
    BY <1>10, <2>4, <2>5 DEF Unrepeated, ItemP
  <2>8. p = q
    BY <2>6, <2>7, SameList
  <2>9. q = RemoveFirst(t, i)
    BY <1>1, <1>3, <2>1, RemovedInAnyOrder
  <2>10. QED
    BY <2>1, <2>8, <2>9
<1>15. QED
  BY <1>1, <1>2, <1>12, <1>13, <1>14

\* An item behind the same one as before is where it was.
LEMMA SamePlace ==
  ASSUME NEW c \in Unrepeated(Item), NEW d \in Unrepeated(Item), NEW i, Contains(c, i), Contains(d, i),
         RemoveFirst(c, i) = RemoveFirst(d, i), PrevOf(c, i) = PrevOf(d, i)
  PROVE  c = d
<1>1. c \in Seq(Item) /\ d \in Seq(Item) /\ Len(c) \in Nat /\ Len(d) \in Nat
  BY DEF Unrepeated
<1>2. PICK a, b : a = Where(c, i) /\ b = Where(d, i)
  OBVIOUS
<1>3. a \in 1..Len(c) /\ b \in 1..Len(d) /\ c[a] = i /\ d[b] = i
  BY <1>1, <1>2, WhereIs
<1>4. /\ PrevOf(c, i) = IF a = 1 THEN "none" ELSE c[a - 1]
      /\ PrevOf(d, i) = IF b = 1 THEN "none" ELSE d[b - 1]
  BY <1>2 DEF PrevOf, Where
<1>5. PICK u : u = RemoveFirst(c, i)
  OBVIOUS
<1>6. u \in Unrepeated(Item) /\ Len(u) = Len(c) - 1 /\ TakesOut(c, Len(c), a, u)
  <2>1. u = RemoveFirst(c, c[a])
    BY <1>3, <1>5
  <2>2. QED
    BY <1>3, <2>1, RemovedAt
<1>7. Len(u) = Len(d) - 1 /\ TakesOut(d, Len(d), b, u)
  <2>1. u = RemoveFirst(d, d[b])
    BY <1>3, <1>5
  <2>2. QED
    BY <1>3, <2>1, RemovedAt
<1>8. a # 1 => c[a - 1] \in Item /\ a - 1 \in 1..Len(u) /\ u[a - 1] = c[a - 1]
  <2>1. SUFFICES ASSUME a # 1 PROVE c[a - 1] \in Item /\ a - 1 \in 1..Len(u) /\ u[a - 1] = c[a - 1]
    OBVIOUS
  <2>2. a - 1 \in 1..Len(c) /\ a - 1 \in 1..(Len(c) - 1) /\ a - 1 < a
    BY <1>1, <1>3, <2>1
  <2>3. QED
    BY <1>1, <1>6, <2>2 DEF TakesOut
<1>9. b # 1 => d[b - 1] \in Item /\ b - 1 \in 1..Len(u) /\ u[b - 1] = d[b - 1]
  <2>1. SUFFICES ASSUME b # 1 PROVE d[b - 1] \in Item /\ b - 1 \in 1..Len(u) /\ u[b - 1] = d[b - 1]
    OBVIOUS
  <2>2. b - 1 \in 1..Len(d) /\ b - 1 \in 1..(Len(d) - 1) /\ b - 1 < b
    BY <1>1, <1>3, <2>1
  <2>3. QED
    BY <1>1, <1>7, <2>2 DEF TakesOut
<1>10. a = b
  <2>1. CASE a = 1
    BY <1>4, <1>9, <2>1, ItemsApart
  <2>2. CASE b = 1
    BY <1>4, <1>8, <2>2, ItemsApart
  <2>3. CASE a # 1 /\ b # 1
    <3>1. u[a - 1] = u[b - 1] /\ a - 1 \in 1..Len(u) /\ b - 1 \in 1..Len(u)
      BY <1>4, <1>8, <1>9, <2>3
    <3>2. a - 1 = b - 1
      BY <1>6, <3>1 DEF Unrepeated
    <3>3. QED
      BY <1>3, <3>2
  <2>4. QED
    BY <2>1, <2>2, <2>3
<1>11. QED
  BY <1>3, <1>10, SameWithout

\* Every item is in one of the lists.
ListsShared(t) ==
    /\ t \in [Containers -> Unrepeated(Item)]
    /\ \A i \in Item : \E c \in Containers : \A d \in Containers : i \in ToSet(t[d]) <=> d = c

\* While an item is dragged the lists are those the page was told, but for one
\* place that is held, and it is known where the item was.
ListsHeld(d, t) ==
    /\ d \in [Containers -> Unrepeated(ItemP)]
    /\ \A c \in Containers : d[c] = t[c] \/ WithIt(d[c], t[c])
    /\ \A b, c \in Containers : Contains(d[b], Placeholder) /\ Contains(d[c], Placeholder) => b = c

Drags == [on : {TRUE}, item : Item, parent : Containers, prev : Item \union {"none"}, reverting : BOOLEAN,
          detached : BOOLEAN, stale : SUBSET Containers]

DragKnown(s, t) == /\ s \in Drags /\ s.item \in ToSet(t[s.parent])
                   /\ s.prev = PrevOf(t[s.parent], s.item)

SortInv == /\ ListsShared(toldOrder)
           /\ IF sorting.on THEN ListsHeld(dom, toldOrder) /\ DragKnown(sorting, toldOrder)
              ELSE sorting = NotSorting /\ dom = toldOrder

LEMMA ItemsInSequence == SetToSeq(Item) \in Unrepeated(Item) /\ ToSet(SetToSeq(Item)) = Item
<1> DEFINE n == Cardinality(Item)
<1>1. n \in Nat /\ ExistsBijection(1..n, Item) /\ IsFiniteSet(Item)
  BY SortAssumption, FS_CardinalityType
<1>2. PICK g \in [1..n -> Item] : IsInjective(g)
  BY <1>1 DEF ExistsBijection, Bijection, Injection
<1>3. PICK f : f = SetToSeq(Item)
  OBVIOUS
<1>4. f \in [1..n -> Item] /\ IsInjective(f)
  BY <1>2, <1>3 DEF SetToSeq
<1>5. f \in Seq(Item) /\ Len(f) = n
  BY <1>1, <1>4, SeqDef
<1>6. f \in Unrepeated(Item)
  BY <1>4, <1>5 DEF Unrepeated, IsInjective
<1>7. \A x \in Item : \E k \in 1..n : f[k] = x
  <2>1. IsFiniteSet(1..n) /\ Cardinality(1..n) = n
    BY <1>1, FS_Interval
  <2>2. f \in Injection(1..n, Item)
    BY <1>4 DEF Injection
  <2>3. f \in Surjection(1..n, Item)
    BY <1>1, <2>1, <2>2, FS_Injection
  <2>4. QED
    BY <2>3 DEF Surjection
<1>8. ToSet(f) = Item
  <2>1. \A y : y \in ToSet(f) <=> Contains(f, y)
    BY <1>5, InSet
  <2>2. ToSet(f) \subseteq Item
    BY <1>5, InSet
  <2>3. QED
    BY <1>5, <1>7, <2>1, <2>2 DEF Contains
<1>9. QED
  BY <1>3, <1>6, <1>8

LEMMA EmptyList == <<>> \in Unrepeated(Item) /\ ToSet(<<>>) = {}
  BY DEF Unrepeated, ToSet

LEMMA SortStarts == SortInit => SortInv
<1> SUFFICES ASSUME SortInit PROVE SortInv
  OBVIOUS
<1>1. PICK f : f = SetToSeq(Item)
  OBVIOUS
<1>2. f \in Unrepeated(Item) /\ ToSet(f) = Item
  BY <1>1, ItemsInSequence
<1>3. toldOrder = [c \in Containers |-> IF c = "dashboard1" THEN f ELSE <<>>]
  BY <1>1 DEF SortInit
<1>4. toldOrder \in [Containers -> Unrepeated(Item)]
  BY <1>2, <1>3, EmptyList
<1>5. ASSUME NEW i \in Item
      PROVE  \E c \in Containers : \A d \in Containers : i \in ToSet(toldOrder[d]) <=> d = c
  <2>1. "dashboard1" \in Containers
    BY DEF Containers
  <2>2. \A d \in Containers : i \in ToSet(toldOrder[d]) <=> d = "dashboard1"
    BY <1>2, <1>3, <2>1, EmptyList
  <2>3. QED
    BY <2>1, <2>2
<1>6. sorting = NotSorting /\ ~sorting.on /\ dom = toldOrder
  BY DEF SortInit, NotSorting
<1>7. QED
  BY <1>4, <1>5, <1>6 DEF SortInv, ListsShared

\* The lists without the place that is held.
LEMMA WithoutHeld ==
  ASSUME ListsShared(toldOrder), ListsHeld(dom, toldOrder)
  PROVE  Without(Placeholder) = toldOrder
<1>1. ASSUME NEW c \in Containers PROVE RemoveFirst(dom[c], Placeholder) = toldOrder[c]
  <2>1. toldOrder[c] \in Unrepeated(Item)
    BY DEF ListsShared
  <2>2. CASE dom[c] = toldOrder[c]
    BY <2>1, <2>2, ListOfItems
  <2>3. CASE WithIt(dom[c], toldOrder[c])
    BY <2>1, <2>3, WithItIs
  <2>4. QED
    BY <2>2, <2>3 DEF ListsHeld
<1>2. toldOrder = [c \in Containers |-> toldOrder[c]]
  BY DEF ListsShared
<1>3. QED
  BY <1>1, <1>2 DEF Without

\* A place is put in one of them.
LEMMA PlacePutIn ==
  ASSUME NEW t, ListsShared(t), NEW c \in Containers, NEW k \in 1..(Len(t[c]) + 1), NEW d,
         d = [t EXCEPT ![c] = InsertAt(@, k, Placeholder)]
  PROVE  ListsHeld(d, t)
<1>1. \A x \in Containers : t[x] \in Unrepeated(Item)
  BY DEF ListsShared
<1>2. \A x \in Containers : t[x] \in Unrepeated(ItemP) /\ ~Contains(t[x], Placeholder)
  BY <1>1, ListOfItems
<1>3. PICK u : u = InsertAt(t[c], k, Placeholder)
  OBVIOUS
<1>4. WithIt(u, t[c])
  BY <1>3 DEF WithIt
<1>5. u \in Unrepeated(ItemP)
  BY <1>1, <1>4, WithItIs
<1>6. d \in [Containers -> Unrepeated(ItemP)] /\ \A x \in Containers : d[x] = IF x = c THEN u ELSE t[x]
  BY <1>2, <1>3, <1>5 DEF ListsShared
<1>7. QED
  BY <1>2, <1>4, <1>6 DEF ListsHeld

\* The item takes the place: nothing else changes.
LEMMA TakenIs ==
  ASSUME ListsShared(toldOrder), ListsHeld(dom, toldOrder), DragKnown(sorting, toldOrder), ~sorting.detached,
         NEW c \in Containers, HasPlaceholder(c)
  PROVE  /\ ListsShared(Taken)
         /\ \A x \in Containers : x # c /\ x # sorting.parent => Taken[x] = toldOrder[x]
         /\ c = sorting.parent /\ PrevOf(Taken[c], sorting.item) = sorting.prev => Taken = toldOrder
<1>1. PICK i, p, t : i = sorting.item /\ p = sorting.parent /\ t = toldOrder
  OBVIOUS
<1>2. PICK u : u = Taken
  OBVIOUS
<1>3. u = [x \in Containers |-> Swapped(RemoveFirst(dom[x], i), i)]
  BY <1>1, <1>2 DEF Taken, Swapped
<1>4. /\ i \in Item /\ p \in Containers /\ i \in ToSet(t[p])
      /\ \A x \in Containers : i \in ToSet(t[x]) => x = p
  <2>1. i \in Item /\ p \in Containers /\ i \in ToSet(t[p])
    BY <1>1 DEF DragKnown, Drags
  <2>2. PICK b \in Containers : \A x \in Containers : i \in ToSet(t[x]) <=> x = b
    BY <1>1, <2>1 DEF ListsShared
  <2>3. QED
    BY <2>1, <2>2
<1>5. \A x \in Containers : t[x] \in Unrepeated(Item)
  BY <1>1 DEF ListsShared
<1>6. WithIt(dom[c], t[c]) /\ \A x \in Containers : x # c => dom[x] = t[x]
  <2>1. \A x \in Containers : ~Contains(t[x], Placeholder)
    BY <1>5, ListOfItems
  <2>2. \A x \in Containers : WithIt(dom[x], t[x]) => Contains(dom[x], Placeholder)
    BY <1>5, WithItIs
  <2>3. QED
    BY <1>1, <2>1, <2>2 DEF ListsHeld, HasPlaceholder
<1>7. /\ u[c] \in Unrepeated(Item) /\ ToSet(u[c]) = ToSet(t[c]) \union {i}
      /\ RemoveFirst(u[c], i) = RemoveFirst(t[c], i)
  BY <1>3, <1>4, <1>5, <1>6, SwappedIs
<1>8. ASSUME NEW x \in Containers, x # c
      PROVE  /\ u[x] \in Unrepeated(Item) /\ ToSet(u[x]) = ToSet(t[x]) \ {i}
             /\ x # p => u[x] = t[x]
  <2>1. u[x] = Swapped(RemoveFirst(t[x], i), i)
    BY <1>3, <1>6, <1>8
  <2>2. QED
    BY <1>4, <1>5, <2>1, NotSwapped
<1>9. ListsShared(u)
  <2>1. u \in [Containers -> Unrepeated(Item)]
    <3>1. \A x \in Containers : u[x] \in Unrepeated(Item)
      BY <1>7, <1>8
    <3>2. QED
      BY <1>3, <3>1
  <2>2. ASSUME NEW j \in Item PROVE \E b \in Containers : \A x \in Containers : j \in ToSet(u[x]) <=> x = b
    <3>1. CASE j = i
      <4>1. \A x \in Containers : j \in ToSet(u[x]) <=> x = c
        BY <1>7, <1>8, <3>1
      <4>2. QED
        BY <4>1
    <3>2. CASE j # i
      <4>1. \A x \in Containers : j \in ToSet(u[x]) <=> j \in ToSet(t[x])
        BY <1>7, <1>8, <3>2
      <4>2. PICK b \in Containers : \A x \in Containers : j \in ToSet(t[x]) <=> x = b
        BY <1>1 DEF ListsShared
      <4>3. QED
        BY <4>1, <4>2
    <3>3. QED
      BY <3>1, <3>2
  <2>3. QED
    BY <2>1, <2>2 DEF ListsShared
<1>10. ASSUME c = p, PrevOf(u[c], i) = sorting.prev PROVE u = t
  <2>1. PrevOf(u[c], i) = PrevOf(t[c], i)
    BY <1>1, <1>10 DEF DragKnown
  <2>2. t[c] \in Seq(Item) /\ u[c] \in Seq(Item)
    BY <1>5, <1>7 DEF Unrepeated
  <2>3. Contains(t[c], i) /\ Contains(u[c], i)
    BY <1>4, <1>7, <1>10, <2>2, InSet
  <2>4. u[c] = t[c]
    BY <1>5, <1>7, <2>1, <2>3, SamePlace
  <2>5. \A x \in Containers : u[x] = t[x]
    BY <1>8, <1>10, <2>4
  <2>6. t = [x \in Containers |-> t[x]] /\ u = [x \in Containers |-> u[x]]
    BY <1>1, <1>9 DEF ListsShared
  <2>7. QED
    BY <2>5, <2>6
<1>11. QED
  BY <1>1, <1>2, <1>8, <1>9, <1>10

\* When the item is let go the page has been told what there is.
LEMMA ClearTells ==
  ASSUME ListsShared(toldOrder), ListsHeld(dom, toldOrder), DragKnown(sorting, toldOrder), Clear
  PROVE  ListsShared(toldOrder') /\ dom' = toldOrder'
<1>1. CASE ~Attached
  <2>1. \A c \in Containers : dom[c] = toldOrder[c]
    <3>1. \A c \in Containers : toldOrder[c] \in Unrepeated(Item)
      BY DEF ListsShared
    <3>2. \A c \in Containers : ~WithIt(dom[c], toldOrder[c])
      BY <1>1, <3>1, WithItIs DEF Attached, HasPlaceholder
    <3>3. QED
      BY <3>2 DEF ListsHeld
  <2>2. dom = [c \in Containers |-> dom[c]] /\ toldOrder = [c \in Containers |-> toldOrder[c]]
    BY DEF ListsHeld, ListsShared
  <2>3. dom = toldOrder
    BY <2>1, <2>2
  <2>4. QED
    BY <1>1, <2>3 DEF Clear
<1>2. CASE Attached
  <2>1. PICK c : c = CHOOSE x \in Containers : HasPlaceholder(x)
    OBVIOUS
  <2>2. c \in Containers /\ HasPlaceholder(c)
    BY <1>2, <2>1 DEF Attached
  <2>3. PICK u : u = Taken
    OBVIOUS
  <2>4. /\ dom' = u
        /\ toldOrder' = IF SortChanged(u, c)
                        THEN [x \in Containers |-> IF x \in Informed(c) THEN u[x] ELSE toldOrder[x]]
                        ELSE toldOrder
    BY <1>2, <2>1, <2>3 DEF Clear
  <2>5. CASE sorting.detached
    <3>1. u = toldOrder
      BY <2>3, <2>5, WithoutHeld DEF Taken
    <3>2. toldOrder = [x \in Containers |-> toldOrder[x]]
      BY DEF ListsShared
    <3>3. [x \in Containers |-> IF x \in Informed(c) THEN u[x] ELSE toldOrder[x]] = toldOrder
      BY <3>1, <3>2
    <3>4. QED
      BY <2>4, <3>1, <3>3
  <2>6. CASE ~sorting.detached
    <3>1. /\ ListsShared(u)
          /\ \A x \in Containers : x # c /\ x # sorting.parent => u[x] = toldOrder[x]
          /\ c = sorting.parent /\ PrevOf(u[c], sorting.item) = sorting.prev => u = toldOrder
      BY <2>2, <2>3, <2>6, TakenIs
    <3>2. CASE SortChanged(u, c)
      <4>1. u = [x \in Containers |-> u[x]]
        BY <3>1 DEF ListsShared
      <4>2. [x \in Containers |-> IF x \in Informed(c) THEN u[x] ELSE toldOrder[x]] = u
        BY <3>1, <4>1 DEF Informed
      <4>3. QED
        BY <2>4, <3>1, <3>2, <4>2
    <3>3. CASE ~SortChanged(u, c)
      <4>1. u = toldOrder
        BY <2>6, <3>1, <3>3 DEF SortChanged
      <4>2. QED
        BY <2>4, <3>3, <4>1
    <3>4. QED
      BY <3>2, <3>3
  <2>7. QED
    BY <2>5, <2>6
<1>3. QED
  BY <1>1, <1>2

LEMMA PrevIs ==
  ASSUME NEW t \in Unrepeated(Item), NEW i, Contains(t, i)
  PROVE  PrevOf(t, i) \in Item \union {"none"} /\ Where(t, i) + 1 \in 1..(Len(t) + 1)
<1>1. t \in Seq(Item) /\ Len(t) \in Nat
  BY DEF Unrepeated
<1>2. PICK k : k = Where(t, i)
  OBVIOUS
<1>3. k \in 1..Len(t)
  BY <1>1, <1>2, WhereIs
<1>4. PrevOf(t, i) = IF k = 1 THEN "none" ELSE t[k - 1]
  BY <1>2 DEF PrevOf, Where
<1>5. k # 1 => k - 1 \in 1..Len(t)
  BY <1>1, <1>3
<1>6. QED
  BY <1>1, <1>2, <1>3, <1>4, <1>5

LEMMA SortStartKept ==
  ASSUME SortInv, NEW c \in Containers, NEW i \in Item, StartSort(c, i)
  PROVE  SortInv'
<1>1. ListsShared(toldOrder) /\ dom = toldOrder /\ toldOrder' = toldOrder
  BY DEF SortInv, StartSort
<1>2. PICK t : t = toldOrder[c]
  OBVIOUS
<1>3. t \in Unrepeated(Item) /\ t \in Seq(Item) /\ Contains(t, i)
  BY <1>1, <1>2 DEF ListsShared, StartSort, Unrepeated
<1>4. PICK k : k = Where(t, i) + 1
  OBVIOUS
<1>5. k \in 1..(Len(t) + 1) /\ PrevOf(t, i) \in Item \union {"none"}
  BY <1>3, <1>4, PrevIs
<1>6. dom' = [toldOrder EXCEPT ![c] = InsertAt(@, k, Placeholder)]
  BY <1>1, <1>2, <1>4 DEF StartSort, Where
<1>7. ListsHeld(dom', toldOrder)
  BY <1>1, <1>2, <1>5, <1>6, PlacePutIn
<1>8. PICK q : q = PrevOf(t, i)
  OBVIOUS
<1>9. sorting' = [on |-> TRUE, item |-> i, parent |-> c, prev |-> q, reverting |-> FALSE,
                  detached |-> FALSE, stale |-> {}]
  BY <1>1, <1>2, <1>8 DEF StartSort
<1>10. PICK s : s = sorting'
  OBVIOUS
<1>11. s \in Drags /\ s.item = i /\ s.parent = c /\ s.prev = q /\ s.on
  BY <1>5, <1>8, <1>9, <1>10 DEF Drags
<1>12. i \in ToSet(t)
  BY <1>3, InSet
<1>13. DragKnown(s, toldOrder)
  BY <1>2, <1>8, <1>11, <1>12 DEF DragKnown
<1>14. QED
  BY <1>1, <1>7, <1>10, <1>11, <1>13 DEF SortInv

LEMMA RearrangeKept ==
  ASSUME SortInv, NEW c \in Containers, NEW k, Rearrange(c, k)
  PROVE  SortInv'
<1>1. /\ ListsShared(toldOrder) /\ ListsHeld(dom, toldOrder) /\ DragKnown(sorting, toldOrder) /\ sorting.on
      /\ toldOrder' = toldOrder /\ sorting' = sorting
  BY DEF SortInv, Rearrange
<1>2. Without(Placeholder) = toldOrder
  BY <1>1, WithoutHeld
<1>3. k \in 1..(Len(toldOrder[c]) + 1) /\ dom' = [toldOrder EXCEPT ![c] = InsertAt(@, k, Placeholder)]
  BY <1>2 DEF Rearrange
<1>4. ListsHeld(dom', toldOrder)
  BY <1>1, <1>3, PlacePutIn
<1>5. QED
  BY <1>1, <1>4 DEF SortInv

LEMMA RevertsKept ==
  ASSUME SortInv, Reverts
  PROVE  SortInv'
<1>1. /\ ListsShared(toldOrder) /\ ListsHeld(dom, toldOrder) /\ DragKnown(sorting, toldOrder) /\ sorting.on
      /\ toldOrder' = toldOrder /\ dom' = dom /\ sorting' = [sorting EXCEPT !.reverting = TRUE]
  BY DEF SortInv, Reverts
<1>2. PICK s : s = sorting'
  OBVIOUS
<1>3. s \in Drags /\ s.on /\ s.item = sorting.item /\ s.parent = sorting.parent /\ s.prev = sorting.prev
  BY <1>1, <1>2 DEF DragKnown, Drags
<1>4. DragKnown(s, toldOrder)
  BY <1>1, <1>3 DEF DragKnown
<1>5. QED
  BY <1>1, <1>2, <1>3, <1>4 DEF SortInv

LEMMA StopKept ==
  ASSUME SortInv, StopSort
  PROVE  SortInv'
<1>1. ListsShared(toldOrder) /\ ListsHeld(dom, toldOrder) /\ DragKnown(sorting, toldOrder) /\ Clear
  BY DEF SortInv, StopSort
<1>2. ListsShared(toldOrder') /\ dom' = toldOrder'
  BY <1>1, ClearTells
<1>3. sorting' = NotSorting /\ ~NotSorting.on
  BY DEF StopSort, NotSorting
<1>4. QED
  BY <1>2, <1>3 DEF SortInv

LEMMA ListRedrawKept ==
  ASSUME SortInv, NEW c \in Containers, Redraw(c)
  PROVE  SortInv'
<1>1. /\ ListsShared(toldOrder) /\ toldOrder' = toldOrder /\ dom' = [dom EXCEPT ![c] = toldOrder[c]]
  BY DEF SortInv, Redraw
<1>2. CASE ~sorting.on
  <2>1. dom = toldOrder /\ sorting' = sorting /\ sorting = NotSorting
    BY <1>2 DEF SortInv, Redraw
  <2>2. dom' = dom
    BY <1>1, <2>1 DEF ListsShared
  <2>3. QED
    BY <1>1, <1>2, <2>1, <2>2 DEF SortInv
<1>3. CASE sorting.on
  <2>1. /\ ListsHeld(dom, toldOrder) /\ DragKnown(sorting, toldOrder)
        /\ sorting' = [sorting EXCEPT !.stale = @ \union {c}, !.detached = @ \/ c = sorting.parent]
    BY <1>3 DEF SortInv, Redraw
  <2>2. toldOrder[c] \in Unrepeated(ItemP) /\ ~Contains(toldOrder[c], Placeholder)
    BY <1>1, ListOfItems DEF ListsShared
  <2>3. PICK d : d = dom'
    OBVIOUS
  <2>4. /\ d \in [Containers -> Unrepeated(ItemP)]
        /\ \A x \in Containers : d[x] = IF x = c THEN toldOrder[c] ELSE dom[x]
    BY <1>1, <2>1, <2>2, <2>3 DEF ListsHeld
  <2>5. ListsHeld(d, toldOrder)
    BY <2>1, <2>2, <2>4 DEF ListsHeld
  <2>6. PICK s : s = sorting'
    OBVIOUS
  <2>7. s \in Drags /\ s.on /\ s.item = sorting.item /\ s.parent = sorting.parent /\ s.prev = sorting.prev
    BY <2>1, <2>6 DEF DragKnown, Drags
  <2>8. DragKnown(s, toldOrder)
    BY <2>1, <2>7 DEF DragKnown
  <2>9. QED
    BY <1>1, <2>3, <2>5, <2>6, <2>7, <2>8 DEF SortInv
<1>4. QED
  BY <1>2, <1>3

\* Each item has one place in the lists that are held.
LEMMA InOnePlace ==
  ASSUME ListsShared(toldOrder), ListsHeld(dom, toldOrder), NEW i \in Item
  PROVE  \E c \in Containers : \E k \in DOMAIN dom[c] :
            \A d \in Containers : \A n \in DOMAIN dom[d] : dom[d][n] = i <=> d = c /\ n = k
<1>1. PICK c \in Containers : \A d \in Containers : i \in ToSet(toldOrder[d]) <=> d = c
  BY DEF ListsShared
<1>2. \A d \in Containers : i \in ToSet(dom[d]) <=> d = c
  <2>1. ASSUME NEW d \in Containers PROVE i \in ToSet(dom[d]) <=> i \in ToSet(toldOrder[d])
    <3>1. toldOrder[d] \in Unrepeated(Item)
      BY DEF ListsShared
    <3>2. CASE dom[d] = toldOrder[d]
      BY <3>2
    <3>3. CASE WithIt(dom[d], toldOrder[d])
      BY <3>1, <3>3, WithItIs, ItemsApart
    <3>4. QED
      BY <3>2, <3>3 DEF ListsHeld
  <2>2. QED
    BY <1>1, <2>1
<1>3. \A d \in Containers : dom[d] \in Seq(ItemP) /\ DOMAIN dom[d] = 1..Len(dom[d])
  BY DEF ListsHeld, Unrepeated
<1>4. \A d \in Containers : \A n \in DOMAIN dom[d] : dom[d][n] \in ToSet(dom[d])
  BY <1>3, InSet
<1>5. PICK k \in DOMAIN dom[c] : dom[c][k] = i
  <2>1. Contains(dom[c], i)
    BY <1>2, <1>3, InSet
  <2>2. QED
    BY <1>3, <2>1 DEF Contains
<1>6. \A n \in DOMAIN dom[c] : dom[c][n] = i => n = k
  BY <1>3, <1>5 DEF ListsHeld, Unrepeated
<1>7. \A d \in Containers : \A n \in DOMAIN dom[d] : dom[d][n] = i <=> d = c /\ n = k
  BY <1>2, <1>4, <1>5, <1>6
<1>8. QED
  BY <1>5, <1>7

LEMMA SharedIsHeld ==
  ASSUME NEW t, ListsShared(t)
  PROVE  ListsHeld(t, t)
<1>1. \A c \in Containers : t[c] \in Unrepeated(ItemP) /\ ~Contains(t[c], Placeholder)
  BY ListOfItems DEF ListsShared
<1>2. QED
  BY <1>1 DEF ListsShared, ListsHeld

\* Every item is in one place of one list, and the page was told the order of
\* the lists when nothing is dragged, whatever is stopped or drawn anew.
THEOREM OrdersTold == SortSpec => []OrderTold
<1>1. SortInit => (cancelled \/ SortInv)
  BY SortStarts
<1>2. (cancelled \/ SortInv) /\ [SortNext]_sortVars => (cancelled \/ SortInv)'
  <2>1. SUFFICES ASSUME cancelled \/ SortInv, [SortNext]_sortVars, ~cancelled, ~cancelled' PROVE SortInv'
    <3>1. ASSUME [SortNext]_sortVars, cancelled PROVE cancelled'
      BY <3>1 DEF SortNext, StartSort, Rearrange, Reverts, StopSort, CancelSort, Redraw, sortVars
    <3>2. QED
      BY <3>1
  <2>2. SortInv
    BY <2>1
  <2>3. ASSUME NEW c \in Containers, NEW i \in Item, StartSort(c, i) PROVE SortInv'
    BY <2>2, <2>3, SortStartKept
  <2>4. ASSUME NEW c \in Containers, NEW k \in 1..Len(SetToSeq(Item)) + 1, Rearrange(c, k) PROVE SortInv'
    BY <2>2, <2>4, RearrangeKept
  <2>5. ASSUME NEW c \in Containers, Redraw(c) PROVE SortInv'
    BY <2>2, <2>5, ListRedrawKept
  <2>6. CASE Reverts
    BY <2>2, <2>6, RevertsKept
  <2>7. CASE StopSort
    BY <2>2, <2>7, StopKept
  <2>8. CASE CancelSort
    BY <2>1, <2>8 DEF CancelSort
  <2>9. CASE UNCHANGED sortVars
    BY <2>2, <2>9 DEF sortVars, SortInv
  <2>10. QED
    BY <2>1, <2>3, <2>4, <2>5, <2>6, <2>7, <2>8, <2>9 DEF SortNext
<1>3. (cancelled \/ SortInv) => OrderTold
  <2>1. SUFFICES ASSUME SortInv PROVE OrderTold
    BY DEF OrderTold
  <2>2. ListsShared(toldOrder) /\ ListsHeld(dom, toldOrder) /\ (~sorting.on => dom = toldOrder)
    BY <2>1, SharedIsHeld DEF SortInv
  <2>3. QED
    BY <2>2, InOnePlace DEF OrderTold
<1>4. QED
  BY <1>1, <1>2, <1>3, PTL DEF SortSpec

-----------------------------------------------------------------------------
(* UIDialog: the elements of the document in their order.                  *)

\* One element is in front of another one.
Precedes(list, x, y) == \E i, j \in 1..Len(list) : i < j /\ list[i] = x /\ list[j] = y

LEMMA AppendedBehind ==
  ASSUME NEW S, NEW list \in Unrepeated(S), NEW x \in S, ~Contains(list, x)
  PROVE  /\ Append(list, x) \in Unrepeated(S)
         /\ \A a : Contains(Append(list, x), a) <=> Contains(list, a) \/ a = x
         /\ \A a, b : Precedes(list, a, b) => Precedes(Append(list, x), a, b)
         /\ \A a : Contains(list, a) => Precedes(Append(list, x), a, x)
<1>1. PICK u : u = Append(list, x)
  OBVIOUS
<1>2. list \in Seq(S) /\ Len(list) \in Nat /\ \A i, j \in 1..Len(list) : list[i] = list[j] => i = j
  BY DEF Unrepeated
<1>3. /\ u \in Seq(S) /\ Len(u) = Len(list) + 1 /\ u[Len(u)] = x /\ Len(u) \in 1..Len(u)
      /\ \A i \in 1..Len(list) : i \in 1..Len(u) /\ i < Len(u) /\ u[i] = list[i]
  BY <1>1, <1>2
<1>4. \A i \in 1..Len(u) : i = Len(u) \/ i \in 1..Len(list)
  BY <1>2, <1>3
<1>5. \A i \in 1..Len(list) : list[i] # x
  BY DEF Contains
<1>6. u \in Unrepeated(S)
  BY <1>2, <1>3, <1>4, <1>5 DEF Unrepeated
<1>7. \A a : Contains(u, a) <=> Contains(list, a) \/ a = x
  BY <1>3, <1>4 DEF Contains
<1>8. \A a, b : Precedes(list, a, b) => Precedes(u, a, b)
  BY <1>3 DEF Precedes
<1>9. \A a : Contains(list, a) => Precedes(u, a, x)
  BY <1>3 DEF Precedes, Contains
<1>10. QED
  BY <1>1, <1>6, <1>7, <1>8, <1>9

LEMMA JoinedKeeps ==
  ASSUME NEW S, NEW p \in Unrepeated(S), NEW q \in Unrepeated(S), \A x : ~(Contains(p, x) /\ Contains(q, x))
  PROVE  /\ p \o q \in Unrepeated(S)
         /\ \A a : Contains(p \o q, a) <=> Contains(p, a) \/ Contains(q, a)
         /\ \A a, b : Precedes(p, a, b) \/ Precedes(q, a, b) => Precedes(p \o q, a, b)
         /\ \A a, b : Contains(p, a) /\ Contains(q, b) => Precedes(p \o q, a, b)
<1>1. PICK u : u = p \o q
  OBVIOUS
<1>2. PICK m, n : m = Len(p) /\ n = Len(q)
  OBVIOUS
<1>3. /\ p \in Seq(S) /\ m \in Nat /\ \A i, j \in 1..m : p[i] = p[j] => i = j
      /\ q \in Seq(S) /\ n \in Nat /\ \A i, j \in 1..n : q[i] = q[j] => i = j
  BY <1>2 DEF Unrepeated
<1>4. /\ u \in Seq(S) /\ Len(u) = m + n
      /\ \A i \in 1..m : u[i] = p[i] /\ i \in 1..(m + n)
      /\ \A i \in 1..n : u[i + m] = q[i] /\ i + m \in 1..(m + n)
  BY <1>1, <1>2, <1>3
<1>5. \A i \in 1..(m + n) : i \in 1..m \/ (i - m \in 1..n /\ i = (i - m) + m)
  BY <1>3
<1>6. \A i \in 1..m, j \in 1..n : p[i] # q[j]
  BY <1>2 DEF Contains
<1>7. u \in Unrepeated(S)
  <2>1. SUFFICES ASSUME NEW i \in 1..(m + n), NEW j \in 1..(m + n), u[i] = u[j] PROVE i = j
    BY <1>4 DEF Unrepeated
  <2>2. CASE i \in 1..m /\ j \in 1..m
    BY <1>3, <1>4, <2>1, <2>2
  <2>3. CASE i \in 1..m /\ j \notin 1..m
    <3>1. u[i] = p[i] /\ u[j] = q[j - m] /\ j - m \in 1..n
      BY <1>4, <1>5, <2>3
    <3>2. QED
      BY <1>6, <2>1, <2>3, <3>1
  <2>4. CASE i \notin 1..m /\ j \in 1..m
    <3>1. u[j] = p[j] /\ u[i] = q[i - m] /\ i - m \in 1..n
      BY <1>4, <1>5, <2>4
    <3>2. QED
      BY <1>6, <2>1, <2>4, <3>1
  <2>5. CASE i \notin 1..m /\ j \notin 1..m
    <3>1. u[i] = q[i - m] /\ u[j] = q[j - m] /\ i - m \in 1..n /\ j - m \in 1..n
      BY <1>4, <1>5, <2>5
    <3>2. i - m = j - m
      BY <1>3, <2>1, <3>1
    <3>3. QED
      BY <1>3, <3>2
  <2>6. QED
    BY <2>2, <2>3, <2>4, <2>5
<1>8. \A a : Contains(u, a) <=> Contains(p, a) \/ Contains(q, a)
  <2>1. SUFFICES ASSUME NEW a PROVE Contains(u, a) <=> Contains(p, a) \/ Contains(q, a)
    OBVIOUS
  <2>2. Contains(p, a) \/ Contains(q, a) => Contains(u, a)
    BY <1>2, <1>4 DEF Contains
  <2>3. ASSUME Contains(u, a) PROVE Contains(p, a) \/ Contains(q, a)
    <3>1. PICK i \in 1..(m + n) : u[i] = a
      BY <1>4, <2>3 DEF Contains
    <3>2. CASE i \in 1..m
      BY <1>2, <1>4, <3>1, <3>2 DEF Contains
    <3>3. CASE i \notin 1..m
      <4>1. i - m \in 1..n /\ q[i - m] = a
        BY <1>4, <1>5, <3>1, <3>3
      <4>2. QED
        BY <1>2, <4>1 DEF Contains
    <3>4. QED
      BY <3>2, <3>3
  <2>4. QED
    BY <2>2, <2>3
<1>9. \A a, b : Precedes(p, a, b) \/ Precedes(q, a, b) => Precedes(u, a, b)
  <2>1. SUFFICES ASSUME NEW a, NEW b, Precedes(p, a, b) \/ Precedes(q, a, b) PROVE Precedes(u, a, b)
    OBVIOUS
  <2>2. CASE Precedes(p, a, b)
    BY <1>2, <1>4, <2>2 DEF Precedes
  <2>3. CASE Precedes(q, a, b)
    <3>1. PICK i, j \in 1..n : i < j /\ q[i] = a /\ q[j] = b
      BY <1>2, <2>3 DEF Precedes
    <3>2. i + m < j + m /\ u[i + m] = a /\ u[j + m] = b /\ i + m \in 1..(m + n) /\ j + m \in 1..(m + n)
      BY <1>3, <1>4, <3>1
    <3>3. QED
      BY <1>4, <3>2 DEF Precedes
  <2>4. QED
    BY <2>1, <2>2, <2>3
<1>10. \A a, b : Contains(p, a) /\ Contains(q, b) => Precedes(u, a, b)
  <2>1. SUFFICES ASSUME NEW a, NEW b, Contains(p, a), Contains(q, b) PROVE Precedes(u, a, b)
    OBVIOUS
  <2>2. PICK i \in 1..m : p[i] = a
    BY <1>2, <2>1 DEF Contains
  <2>3. PICK j \in 1..n : q[j] = b
    BY <1>2, <2>1 DEF Contains
  <2>4. i < j + m /\ u[i] = a /\ u[j + m] = b /\ i \in 1..(m + n) /\ j + m \in 1..(m + n)
    BY <1>3, <1>4, <2>2, <2>3
  <2>5. QED
    BY <1>4, <2>4 DEF Precedes
<1>11. QED
  BY <1>1, <1>7, <1>8, <1>9, <1>10

\* The recursion of Among has a solution.
AmongUpTo(f, list, T, m) ==
    \A n \in 0..m : f[n] = IF n = 0 THEN <<>> ELSE IF list[n] \in T THEN Append(f[n - 1], list[n]) ELSE f[n - 1]

LEMMA AmongRecursion ==
  ASSUME NEW S, NEW list \in Seq(S), NEW T
  PROVE  \E f : f = [n \in 0..Len(list) |-> f[n]] /\ AmongUpTo(f, list, T, Len(list))
<1> DEFINE Known(m) == \E f : f = [n \in 0..m |-> f[n]] /\ AmongUpTo(f, list, T, m)
           Bad == {m \in Nat : m \in 0..Len(list) /\ ~Known(m)}
<1>1. Bad = {}
  <2>1. SUFFICES ASSUME Bad # {} PROVE FALSE
    OBVIOUS
  <2>2. PICK m \in Bad : \A x \in Bad : m <= x
    BY <2>1, LowestPlace
  <2>3. CASE m = 0
    <3>1. PICK f : f = [n \in 0..0 |-> <<>>]
      OBVIOUS
    <3>2. f = [n \in 0..0 |-> f[n]] /\ AmongUpTo(f, list, T, 0)
      BY <3>1 DEF AmongUpTo
    <3>3. QED
      BY <2>2, <2>3, <3>2
  <2>4. CASE m # 0
    <3>1. m \in Nat /\ m \in 0..Len(list) /\ m - 1 \in Nat /\ m - 1 \in 0..Len(list) /\ ~(m <= m - 1)
      BY <2>2, <2>4
    <3>2. m - 1 \notin Bad
      BY <2>2, <3>1
    <3>3. PICK f : f = [n \in 0..(m - 1) |-> f[n]] /\ AmongUpTo(f, list, T, m - 1)
      BY <3>1, <3>2
    <3>4. PICK last : last = IF list[m] \in T THEN Append(f[m - 1], list[m]) ELSE f[m - 1]
      OBVIOUS
    <3>5. PICK g : g = [n \in 0..m |-> IF n = m THEN last ELSE f[n]]
      OBVIOUS
    <3>6. \A n \in 0..(m - 1) : n \in 0..m /\ g[n] = f[n]
      BY <3>1, <3>5
    <3>7. g[m] = last /\ g[m - 1] = f[m - 1]
      BY <3>1, <3>5, <3>6
    <3>8. AmongUpTo(g, list, T, m)
      <4>1. SUFFICES ASSUME NEW n \in 0..m
                     PROVE  g[n] = IF n = 0 THEN <<>>
                                   ELSE IF list[n] \in T THEN Append(g[n - 1], list[n]) ELSE g[n - 1]
        BY DEF AmongUpTo
      <4>2. CASE n = m
        BY <2>4, <3>4, <3>7, <4>2
      <4>3. CASE n # m
        <5>1. n \in 0..(m - 1) /\ (n # 0 => n - 1 \in 0..(m - 1))
          BY <3>1, <4>3
        <5>2. g[n] = f[n] /\ (n # 0 => g[n - 1] = f[n - 1])
          BY <3>6, <5>1
        <5>3. QED
          BY <3>3, <5>1, <5>2 DEF AmongUpTo
      <4>4. QED
        BY <4>2, <4>3
    <3>9. g = [n \in 0..m |-> g[n]]
      BY <3>5
    <3>10. QED
      BY <2>2, <3>8, <3>9
  <2>5. QED
    BY <2>3, <2>4
<1>2. Len(list) \in Nat /\ Len(list) \in 0..Len(list)
  OBVIOUS
<1>3. QED
  BY <1>1, <1>2

\* What is taken from a list keeps its order.
LEMMA AmongKeeps ==
  ASSUME NEW S, NEW list \in Unrepeated(S), NEW T
  PROVE  /\ Among(list, T) \in Unrepeated(S)
         /\ \A x : Contains(Among(list, T), x) <=> Contains(list, x) /\ x \in T
         /\ \A x, y \in T : Precedes(list, x, y) => Precedes(Among(list, T), x, y)
<1> DEFINE len == Len(list)
           Ends(g) == g = [n \in 0..len |-> IF n = 0 THEN <<>>
                                             ELSE IF list[n] \in T THEN Append(g[n - 1], list[n]) ELSE g[n - 1]]
           upTo == CHOOSE g : Ends(g)
<1>1. list \in Seq(S) /\ len \in Nat /\ \A i, j \in 1..len : list[i] = list[j] => i = j
  BY DEF Unrepeated
<1>2. Among(list, T) = upTo[len]
  BY DEF Among
<1>3. PICK h : h = [n \in 0..len |-> h[n]] /\ AmongUpTo(h, list, T, len)
  BY <1>1, AmongRecursion
<1>4. Ends(h)
  <2>1. PICK g : g = [n \in 0..len |-> IF n = 0 THEN <<>>
                                       ELSE IF list[n] \in T THEN Append(h[n - 1], list[n]) ELSE h[n - 1]]
    OBVIOUS
  <2>2. \A n \in 0..len : h[n] = g[n]
    BY <1>3, <2>1 DEF AmongUpTo
  <2>3. h = g
    BY <1>3, <2>1, <2>2
  <2>4. QED
    BY <2>1, <2>3
<1>5. Ends(upTo)
  <2> HIDE DEF Ends
  <2>1. QED
    BY <1>4
<1>6. PICK f : f = upTo
  OBVIOUS
<1>7. \A n \in 0..len : f[n] = IF n = 0 THEN <<>> ELSE IF list[n] \in T THEN Append(f[n - 1], list[n]) ELSE f[n - 1]
  <2>1. Ends(f)
    BY <1>5, <1>6
  <2>2. PICK g : g = [n \in 0..len |-> IF n = 0 THEN <<>>
                                       ELSE IF list[n] \in T THEN Append(f[n - 1], list[n]) ELSE f[n - 1]]
    OBVIOUS
  <2>3. f = g
    BY <2>1, <2>2
  <2>4. QED
    BY <2>2, <2>3
<1> HIDE DEF upTo, Ends
<1> DEFINE Right(n) == /\ f[n] \in Unrepeated(S)
                       /\ \A x : Contains(f[n], x) <=> x \in T /\ \E k \in 1..n : list[k] = x
                       /\ \A i, j \in 1..n : i < j /\ list[i] \in T /\ list[j] \in T => Precedes(f[n], list[i], list[j])
           Bad == {n \in Nat : n \in 0..len /\ ~Right(n)}
<1>8. Bad = {}
  <2>1. SUFFICES ASSUME Bad # {} PROVE FALSE
    OBVIOUS
  <2>2. PICK n \in Bad : \A x \in Bad : n <= x
    BY <2>1, LowestPlace
  <2>3. CASE n = 0
    <3>1. f[n] = <<>>
      BY <1>7, <2>2, <2>3
    <3>2. f[n] \in Unrepeated(S)
      BY <3>1, <2>3, SMT DEF Unrepeated
    <3>3. \A x : ~Contains(f[n], x)
      BY <3>1 DEF Contains
    <3>4. 1..n = {}
      BY <2>3
    <3>5. Right(n)
      BY <3>2, <3>3, <3>4
    <3>6. QED
      BY <2>2, <3>5
  <2>4. CASE n # 0
    <3>1. n \in Nat /\ n \in 0..len /\ n - 1 \in Nat /\ n - 1 \in 0..len /\ ~(n <= n - 1) /\ n \in 1..len /\ n \in 1..n
      BY <1>1, <2>2, <2>4
    <3>2. n - 1 \notin Bad
      BY <2>2, <3>1
    <3>3. Right(n - 1)
      BY <3>1, <3>2
    <3>4. PICK p : p = f[n - 1]
      OBVIOUS
    <3>5. \A i \in 1..n : i = n \/ i \in 1..(n - 1)
      BY <3>1
    <3>6. \A i \in 1..(n - 1) : i \in 1..n /\ i < n /\ i \in 1..len
      BY <1>1, <3>1
    <3>7. CASE list[n] \notin T
      <4>1. f[n] = p
        BY <1>7, <3>1, <3>4, <3>7
      <4>2. p \in Unrepeated(S)
        BY <3>3, <3>4
      <4>3. \A x : Contains(p, x) <=> x \in T /\ \E k \in 1..n : list[k] = x
        BY <3>3, <3>4, <3>5, <3>6, <3>7
      <4>4. \A i, j \in 1..n : i < j /\ list[i] \in T /\ list[j] \in T => Precedes(p, list[i], list[j])
        BY <3>3, <3>4, <3>5, <3>7
      <4>5. Right(n)
        BY <4>1, <4>2, <4>3, <4>4
      <4>6. QED
        BY <2>2, <4>5
    <3>8. CASE list[n] \in T
      <4>1. f[n] = Append(p, list[n])
        BY <1>7, <2>4, <3>1, <3>4, <3>8
      <4>2. p \in Unrepeated(S) /\ list[n] \in S
        BY <1>1, <3>1, <3>3, <3>4
      <4>3. ~Contains(p, list[n])
        BY <1>1, <3>1, <3>3, <3>4, <3>6
      <4>4. PICK u : u = Append(p, list[n])
        OBVIOUS
      <4>5. /\ u \in Unrepeated(S) /\ \A a : Contains(u, a) <=> Contains(p, a) \/ a = list[n]
            /\ \A a, b : Precedes(p, a, b) => Precedes(u, a, b)
            /\ \A a : Contains(p, a) => Precedes(u, a, list[n])
        BY <4>2, <4>3, <4>4, AppendedBehind
      <4>6. \A x : Contains(u, x) <=> x \in T /\ \E k \in 1..n : list[k] = x
        <5>1. SUFFICES ASSUME NEW x PROVE Contains(u, x) <=> x \in T /\ \E k \in 1..n : list[k] = x
          OBVIOUS
        <5>2. Contains(u, x) <=> Contains(p, x) \/ x = list[n]
          BY <4>5
        <5>3. Contains(p, x) <=> x \in T /\ \E k \in 1..(n - 1) : list[k] = x
          BY <3>3, <3>4
        <5>4. (\E k \in 1..n : list[k] = x) <=> (\E k \in 1..(n - 1) : list[k] = x) \/ x = list[n]
          BY <3>1, <3>5, <3>6
        <5>5. QED
          BY <5>2, <5>3, <5>4, <3>8
      <4>7. \A i, j \in 1..n : i < j /\ list[i] \in T /\ list[j] \in T => Precedes(u, list[i], list[j])
        <5>1. SUFFICES ASSUME NEW i \in 1..n, NEW j \in 1..n, i < j, list[i] \in T, list[j] \in T
                       PROVE  Precedes(u, list[i], list[j])
          OBVIOUS
        <5>2. i \in 1..(n - 1)
          BY <3>1, <5>1
        <5>3. CASE j = n
          <6>1. Contains(p, list[i])
            BY <3>3, <3>4, <5>1, <5>2
          <6>2. QED
            BY <4>5, <5>3, <6>1
        <5>4. CASE j # n
          <6>1. j \in 1..(n - 1)
            BY <3>5, <5>4
          <6>2. Precedes(p, list[i], list[j])
            BY <3>3, <3>4, <5>1, <5>2, <6>1
          <6>3. QED
            BY <4>5, <6>2
        <5>5. QED
          BY <5>3, <5>4
      <4>8. Right(n)
        BY <4>1, <4>4, <4>5, <4>6, <4>7
      <4>9. QED
        BY <2>2, <4>8
    <3>9. QED
      BY <3>7, <3>8
  <2>5. QED
    BY <2>3, <2>4
<1>9. len \in Nat /\ len \in 0..len
  BY <1>1
<1>10. Right(len)
  BY <1>8, <1>9
<1>11. Among(list, T) = f[len]
  BY <1>2, <1>6
<1>12. \A x : Contains(f[len], x) <=> Contains(list, x) /\ x \in T
  BY <1>10 DEF Contains
<1>13. ASSUME NEW x \in T, NEW y \in T, Precedes(list, x, y) PROVE Precedes(f[len], x, y)
  <2>1. PICK i, j \in 1..len : i < j /\ list[i] = x /\ list[j] = y
    BY <1>13 DEF Precedes
  <2>2. \A k, m \in 1..len : k < m /\ list[k] \in T /\ list[m] \in T => Precedes(f[len], list[k], list[m])
    BY <1>10
  <2>3. Precedes(f[len], list[i], list[j])
    BY <2>1, <2>2, Zenon
  <2>4. QED
    BY <2>1, <2>3
<1>14. QED
  BY <1>10, <1>11, <1>12, <1>13

\* Taking out another element keeps the order.
LEMMA RemovedBehind ==
  ASSUME NEW S, NEW list \in Unrepeated(S), NEW x, NEW a, NEW b, Precedes(list, a, b), a # x, b # x
  PROVE  Precedes(RemoveFirst(list, x), a, b)
<1>1. CASE ~Contains(list, x)
  <2>1. RemoveFirst(list, x) = list
    BY <1>1, RemovedFirst DEF Unrepeated
  <2>2. QED
    BY <2>1
<1>2. CASE Contains(list, x)
  <2>1. list \in Seq(S) /\ Len(list) \in Nat
    BY DEF Unrepeated
  <2>2. PICK n \in 1..Len(list) : list[n] = x
    BY <1>2 DEF Contains
  <2>3. PICK u : u = RemoveFirst(list, list[n])
    OBVIOUS
  <2>4. u \in Unrepeated(S) /\ Len(u) = Len(list) - 1 /\ TakesOut(list, Len(list), n, u)
    BY <2>3, RemovedAt
  <2>5. PICK i, j \in 1..Len(list) : i < j /\ list[i] = a /\ list[j] = b
    BY DEF Precedes
  <2>6. i # n /\ j # n
    BY <2>2, <2>5
  <2>7. ASSUME NEW k \in 1..Len(list), k # n
        PROVE  (IF k < n THEN k ELSE k - 1) \in 1..(Len(list) - 1) /\ u[IF k < n THEN k ELSE k - 1] = list[k]
    <3>1. CASE k < n
      <4>1. k \in 1..(Len(list) - 1)
        BY <2>1, <2>7, <3>1
      <4>2. u[k] = list[k]
        BY <2>4, <3>1, <4>1 DEF TakesOut
      <4>3. QED
        BY <3>1, <4>1, <4>2
    <3>2. CASE ~(k < n)
      <4>1. k - 1 \in 1..(Len(list) - 1) /\ ~(k - 1 < n) /\ (k - 1) + 1 = k
        BY <2>1, <2>7, <3>2
      <4>2. u[k - 1] = list[k]
        BY <2>4, <4>1 DEF TakesOut
      <4>3. QED
        BY <3>2, <4>1, <4>2
    <3>3. QED
      BY <3>1, <3>2
  <2>8. PICK v, w \in 1..(Len(list) - 1) : v = (IF i < n THEN i ELSE i - 1) /\ w = (IF j < n THEN j ELSE j - 1)
    BY <2>6, <2>7
  <2>9. u[v] = a /\ u[w] = b
    BY <2>5, <2>6, <2>7, <2>8
  <2>10. v < w
    BY <2>1, <2>5, <2>6, <2>8
  <2>11. QED
    BY <2>2, <2>3, <2>4, <2>9, <2>10 DEF Precedes
<1>3. QED
  BY <1>1, <1>2

Elements == {Wrapper(d) : d \in Dialog} \union {Overlay(d) : d \in Dialog}

LEMMA ElementsApart ==
  /\ \A d \in Dialog : Wrapper(d) \in Elements /\ Overlay(d) \in Elements
  /\ \A d \in Dialog : Wrapper(d)[1] = "dialog" /\ Wrapper(d)[2] = d
  /\ \A d \in Dialog : Overlay(d)[1] = "overlay" /\ Overlay(d)[2] = d
  /\ \A e \in Elements : e[2] \in Dialog /\ (e[1] = "dialog" => e = Wrapper(e[2])) /\ (e[1] = "overlay" => e = Overlay(e[2]))
  /\ \A e \in Elements : e[1] \in {"dialog", "overlay"}
  /\ \A c, d \in Dialog : Wrapper(c) # Overlay(d)
  /\ \A c, d \in Dialog : Wrapper(c) = Wrapper(d) \/ Overlay(c) = Overlay(d) => c = d
<1>1. \A d \in Dialog : Wrapper(d)[1] = "dialog" /\ Wrapper(d)[2] = d
  BY DEF Wrapper
<1>2. \A d \in Dialog : Overlay(d)[1] = "overlay" /\ Overlay(d)[2] = d
  BY DEF Overlay
<1>3. \A d \in Dialog : Wrapper(d) \in Elements /\ Overlay(d) \in Elements
  BY DEF Elements
<1>4. \A e \in Elements : \E d \in Dialog : e = Wrapper(d) \/ e = Overlay(d)
  BY DEF Elements
<1>5. "dialog" # "overlay"
  OBVIOUS
<1> HIDE DEF Wrapper, Overlay, Elements
<1>6. ASSUME NEW e \in Elements
      PROVE  /\ e[2] \in Dialog /\ (e[1] = "dialog" => e = Wrapper(e[2])) /\ (e[1] = "overlay" => e = Overlay(e[2]))
             /\ e[1] \in {"dialog", "overlay"}
  <2>1. PICK d \in Dialog : e = Wrapper(d) \/ e = Overlay(d)
    BY <1>4
  <2>2. QED
    BY <1>1, <1>2, <1>5, <2>1
<1>7. \A c, d \in Dialog : Wrapper(c) # Overlay(d)
  BY <1>1, <1>2, <1>5
<1>8. \A c, d \in Dialog : Wrapper(c) = Wrapper(d) \/ Overlay(c) = Overlay(d) => c = d
  BY <1>1, <1>2
<1>9. QED
  BY <1>1, <1>2, <1>3, <1>6, <1>7, <1>8

\* Raising a dialog keeps what is there, the order of what is seen, and puts
\* all of it under the dialog.
Raised(st, ds, w, new) ==
    /\ new \in Unrepeated(Elements)
    /\ \A x : Contains(new, x) <=> Contains(st, x)
    /\ \A x : Contains(st, x) /\ Shown(ds, x) /\ x # w => Precedes(new, x, w)
    /\ \A x, y : Precedes(st, x, y) /\ Shown(ds, x) /\ x # w /\ y # w => Precedes(new, x, y)

LEMMA MovedRaises ==
  ASSUME NEW st \in Unrepeated(Elements), NEW ds, NEW d \in Dialog, Contains(st, Wrapper(d))
  PROVE  Raised(st, ds, Wrapper(d), MovedToTop(st, ds, d))
<1>1. PICK w : w = Wrapper(d)
  OBVIOUS
<1>2. PICK len : len = Len(st)
  OBVIOUS
<1>3. st \in Seq(Elements) /\ len \in Nat /\ \A i, j \in 1..len : st[i] = st[j] => i = j
  BY <1>2 DEF Unrepeated
<1>4. PICK at : at = Where(st, w)
  OBVIOUS
<1>5. at \in 1..len /\ st[at] = w
  BY <1>1, <1>2, <1>3, <1>4, WhereIs
<1>6. PICK h : h = SubSeq(st, 1, at - 1)
  OBVIOUS
<1>7. PICK b : b = SubSeq(st, at + 1, len)
  OBVIOUS
<1>8. h \in Seq(Elements) /\ Len(h) = at - 1 /\ \A j \in 1..(at - 1) : h[j] = st[j]
  BY <1>2, <1>3, <1>5, <1>6
<1>9. b \in Seq(Elements) /\ Len(b) = len - at /\ \A j \in 1..(len - at) : b[j] = st[at + j]
  BY <1>2, <1>3, <1>5, <1>7
<1>10. \A j \in 1..(at - 1) : j \in 1..len /\ j < at
  BY <1>3, <1>5
<1>11. \A j \in 1..(len - at) : at + j \in 1..len /\ at < at + j /\ j \in Int
  BY <1>3, <1>5
<1>12. \A j \in 1..len : j = at \/ j \in 1..(at - 1) \/ (j - at \in 1..(len - at) /\ j = at + (j - at))
  BY <1>3, <1>5
<1>13. h \in Unrepeated(Elements)
  BY <1>3, <1>8, <1>10 DEF Unrepeated
<1>14. b \in Unrepeated(Elements)
  <2>1. SUFFICES ASSUME NEW i \in 1..(len - at), NEW j \in 1..(len - at), b[i] = b[j] PROVE i = j
    BY <1>9 DEF Unrepeated
  <2>2. at + i = at + j
    BY <1>3, <1>9, <1>11, <2>1
  <2>3. QED
    BY <1>5, <1>11, <2>2
<1>15. \A x : Contains(h, x) <=> \E j \in 1..(at - 1) : st[j] = x
  BY <1>8 DEF Contains
<1>16. \A x : Contains(b, x) <=> \E j \in 1..(len - at) : st[at + j] = x
  BY <1>9 DEF Contains
<1>17. \A x : ~(Contains(h, x) /\ Contains(b, x)) /\ ~Contains(h, w) /\ ~Contains(b, w)
  <2>1. \A i \in 1..(at - 1), j \in 1..(len - at) : st[i] # st[at + j]
    BY <1>3, <1>5, <1>10, <1>11
  <2>2. \A i \in 1..(at - 1) : st[i] # w
    BY <1>3, <1>5, <1>10
  <2>3. \A j \in 1..(len - at) : st[at + j] # w
    BY <1>3, <1>5, <1>11
  <2>4. QED
    BY <1>15, <1>16, <2>1, <2>2, <2>3
<1>18. \A x : Contains(st, x) <=> Contains(h, x) \/ Contains(b, x) \/ x = w
  <2>1. SUFFICES ASSUME NEW x PROVE Contains(st, x) <=> Contains(h, x) \/ Contains(b, x) \/ x = w
    OBVIOUS
  <2>2. Contains(h, x) \/ Contains(b, x) \/ x = w => \E j \in 1..len : st[j] = x
    BY <1>5, <1>10, <1>11, <1>15, <1>16
  <2>3. ASSUME NEW j \in 1..len, st[j] = x PROVE Contains(h, x) \/ Contains(b, x) \/ x = w
    BY <1>5, <1>12, <1>15, <1>16, <2>3
  <2>4. QED
    BY <1>2, <2>2, <2>3 DEF Contains
<1>19. \A x, y : Precedes(st, x, y) /\ x # w /\ y # w => Precedes(h, x, y) \/ Precedes(b, x, y) \/ (Contains(h, x) /\ Contains(b, y))
  <2>1. SUFFICES ASSUME NEW x, NEW y, Precedes(st, x, y), x # w, y # w
                 PROVE  Precedes(h, x, y) \/ Precedes(b, x, y) \/ (Contains(h, x) /\ Contains(b, y))
    OBVIOUS
  <2>2. PICK i, j \in 1..len : i < j /\ st[i] = x /\ st[j] = y
    BY <1>2, <2>1 DEF Precedes
  <2>3. i # at /\ j # at
    BY <1>5, <2>1, <2>2
  <2>4. CASE i \in 1..(at - 1) /\ j \in 1..(at - 1)
    <3>1. h[i] = x /\ h[j] = y /\ i \in 1..Len(h) /\ j \in 1..Len(h)
      BY <1>8, <2>2, <2>4
    <3>2. QED
      BY <2>2, <3>1 DEF Precedes
  <2>5. CASE i \in 1..(at - 1) /\ j \notin 1..(at - 1)
    <3>1. j - at \in 1..(len - at) /\ j = at + (j - at)
      BY <1>12, <2>3, <2>5
    <3>2. QED
      BY <1>15, <1>16, <2>2, <2>5, <3>1
  <2>6. CASE i \notin 1..(at - 1)
    <3>1. j \notin 1..(at - 1)
      BY <1>5, <2>2, <2>3, <2>6
    <3>2. /\ i - at \in 1..(len - at) /\ i = at + (i - at)
          /\ j - at \in 1..(len - at) /\ j = at + (j - at)
      BY <1>12, <2>3, <2>6, <3>1
    <3>3. b[i - at] = x /\ b[j - at] = y
      BY <1>9, <2>2, <3>2
    <3>4. i - at < j - at
      BY <1>5, <2>2
    <3>5. QED
      BY <1>9, <3>2, <3>3, <3>4 DEF Precedes
  <2>7. QED
    BY <2>4, <2>5, <2>6
<1>20. PICK T : T = {e \in ToSet(b) : Shown(ds, e)}
  OBVIOUS
<1>21. PICK R : R = ToSet(b) \ T
  OBVIOUS
<1>22. \A x : Contains(b, x) => (x \in T <=> Shown(ds, x)) /\ (x \in R <=> ~Shown(ds, x))
  <2>1. \A x : x \in ToSet(b) <=> Contains(b, x)
    BY <1>9, InSet
  <2>2. QED
    BY <1>20, <1>21, <2>1
<1>23. PICK s : s = Among(b, T)
  OBVIOUS
<1>24. PICK r : r = Among(b, R)
  OBVIOUS
<1>25. /\ s \in Unrepeated(Elements) /\ \A x : Contains(s, x) <=> Contains(b, x) /\ x \in T
       /\ \A x, y \in T : Precedes(b, x, y) => Precedes(s, x, y)
  BY <1>14, <1>23, AmongKeeps
<1>26. /\ r \in Unrepeated(Elements) /\ \A x : Contains(r, x) <=> Contains(b, x) /\ x \in R
  BY <1>14, <1>24, AmongKeeps
<1>27. MovedToTop(st, ds, d) = ((h \o s) \o <<w>>) \o r
  BY <1>1, <1>2, <1>4, <1>6, <1>7, <1>20, <1>21, <1>23, <1>24 DEF MovedToTop, Where
<1>28. PICK one : one = <<w>>
  OBVIOUS
<1>29. w \in Elements
  BY <1>1, ElementsApart
<1>30. one \in Unrepeated(Elements) /\ \A x : Contains(one, x) <=> x = w
  <2>1. one \in Seq(Elements) /\ Len(one) = 1 /\ one[1] = w
    BY <1>28, <1>29
  <2>2. \A i \in 1..1 : i = 1
    OBVIOUS
  <2>3. one \in Unrepeated(Elements)
    BY <2>1, <2>2 DEF Unrepeated
  <2>4. \A x : Contains(one, x) <=> x = w
    BY <2>1, <2>2 DEF Contains
  <2>5. QED
    BY <2>3, <2>4
<1>31. PICK u : u = h \o s
  OBVIOUS
<1>32. \A x : ~(Contains(h, x) /\ Contains(s, x))
  BY <1>17, <1>25
<1>33. /\ u \in Unrepeated(Elements) /\ \A x : Contains(u, x) <=> Contains(h, x) \/ Contains(s, x)
       /\ \A x, y : Precedes(h, x, y) \/ Precedes(s, x, y) => Precedes(u, x, y)
       /\ \A x, y : Contains(h, x) /\ Contains(s, y) => Precedes(u, x, y)
  BY <1>13, <1>25, <1>31, <1>32, JoinedKeeps
<1>34. PICK v : v = u \o one
  OBVIOUS
<1>35. \A x : ~(Contains(u, x) /\ Contains(one, x))
  BY <1>17, <1>25, <1>30, <1>33
<1>36. /\ v \in Unrepeated(Elements) /\ \A x : Contains(v, x) <=> Contains(u, x) \/ Contains(one, x)
       /\ \A x, y : Precedes(u, x, y) \/ Precedes(one, x, y) => Precedes(v, x, y)
       /\ \A x, y : Contains(u, x) /\ Contains(one, y) => Precedes(v, x, y)
  BY <1>30, <1>33, <1>34, <1>35, JoinedKeeps
<1>37. PICK new : new = v \o r
  OBVIOUS
<1>38. \A x : ~(Contains(v, x) /\ Contains(r, x))
  <2>1. \A x : Contains(r, x) => Contains(b, x) /\ x \notin T /\ x # w
    BY <1>17, <1>21, <1>26
  <2>2. QED
    BY <1>17, <1>25, <1>30, <1>33, <1>36, <2>1
<1>39. /\ new \in Unrepeated(Elements) /\ \A x : Contains(new, x) <=> Contains(v, x) \/ Contains(r, x)
       /\ \A x, y : Precedes(v, x, y) \/ Precedes(r, x, y) => Precedes(new, x, y)
       /\ \A x, y : Contains(v, x) /\ Contains(r, y) => Precedes(new, x, y)
  BY <1>26, <1>36, <1>37, <1>38, JoinedKeeps
<1>40. \A x : Contains(new, x) <=> Contains(st, x)
  <2>1. \A x : Contains(s, x) \/ Contains(r, x) <=> Contains(b, x)
    BY <1>22, <1>25, <1>26
  <2>2. QED
    BY <1>18, <1>30, <1>33, <1>36, <1>39, <2>1
<1>41. \A x : Contains(st, x) /\ Shown(ds, x) /\ x # w => Precedes(new, x, w)
  <2>1. SUFFICES ASSUME NEW x, Contains(st, x), Shown(ds, x), x # w PROVE Precedes(new, x, w)
    OBVIOUS
  <2>2. Contains(h, x) \/ Contains(s, x)
    BY <1>18, <1>22, <1>25, <2>1
  <2>3. Contains(u, x) /\ Contains(one, w)
    BY <1>30, <1>33, <2>2
  <2>4. QED
    BY <1>36, <1>39, <2>3
<1>42. \A x, y : Precedes(st, x, y) /\ Shown(ds, x) /\ x # w /\ y # w => Precedes(new, x, y)
  <2>1. SUFFICES ASSUME NEW x, NEW y, Precedes(st, x, y), Shown(ds, x), x # w, y # w PROVE Precedes(new, x, y)
    OBVIOUS
  <2>2. CASE Precedes(h, x, y)
    BY <1>33, <1>36, <1>39, <2>2
  <2>3. CASE Contains(h, x) /\ Contains(b, y)
    <3>1. CASE Shown(ds, y)
      BY <1>22, <1>25, <1>33, <1>36, <1>39, <2>3, <3>1
    <3>2. CASE ~Shown(ds, y)
      BY <1>22, <1>26, <1>33, <1>36, <1>39, <2>3, <3>2
    <3>3. QED
      BY <3>1, <3>2
  <2>4. CASE Precedes(b, x, y)
    <3>0. Contains(b, x) /\ Contains(b, y)
      BY <2>4 DEF Precedes, Contains
    <3>1. CASE Shown(ds, y)
      <4>1. Precedes(s, x, y)
        BY <1>22, <1>25, <2>1, <2>4, <3>0, <3>1
      <4>2. QED
        BY <1>33, <1>36, <1>39, <4>1
    <3>2. CASE ~Shown(ds, y)
      <4>1. Contains(s, x) /\ Contains(r, y)
        BY <1>22, <1>25, <1>26, <2>1, <3>0, <3>2
      <4>2. QED
        BY <1>33, <1>36, <1>39, <4>1
    <3>3. QED
      BY <3>1, <3>2
  <2>5. QED
    BY <1>19, <2>1, <2>2, <2>3, <2>4
<1>43. new = MovedToTop(st, ds, d)
  BY <1>27, <1>28, <1>31, <1>34, <1>37
<1>44. QED
  BY <1>1, <1>39, <1>40, <1>41, <1>42, <1>43 DEF Raised

\* Raising a dialog leaves each overlay under its dialog.
LEMMA OverlaysStayUnder ==
  ASSUME NEW st \in Unrepeated(Elements), NEW ds, NEW d \in Dialog, Contains(st, Wrapper(d)),
         NEW new, new = MovedToTop(st, ds, d)
  PROVE  /\ new \in Unrepeated(Elements) /\ \A x : Contains(new, x) <=> Contains(st, x)
         /\ \A o \in Dialog : Precedes(st, Overlay(o), Wrapper(o)) => Precedes(new, Overlay(o), Wrapper(o))
         /\ Contains(st, Overlay(d)) => Precedes(new, Overlay(d), Wrapper(d))
<1>1. Raised(st, ds, Wrapper(d), new)
  BY MovedRaises
<1>2. \A o \in Dialog : Shown(ds, Overlay(o)) /\ Overlay(o) # Wrapper(d)
  BY ElementsApart DEF Shown
<1>3. ASSUME NEW o \in Dialog, Precedes(st, Overlay(o), Wrapper(o)) PROVE Precedes(new, Overlay(o), Wrapper(o))
  <2>1. CASE o = d
    <3>1. Contains(st, Overlay(o))
      BY <1>3 DEF Precedes, Contains
    <3>2. QED
      BY <1>1, <1>2, <2>1, <3>1 DEF Raised
  <2>2. CASE o # d
    <3>1. Wrapper(o) # Wrapper(d)
      BY <2>2, ElementsApart
    <3>2. QED
      BY <1>1, <1>2, <1>3, <3>1 DEF Raised
  <2>3. QED
    BY <2>1, <2>2
<1>4. QED
  BY <1>1, <1>2, <1>3 DEF Raised

\* What the handler of focusin leaves the focus.
LEMMA FocusedIs ==
  ASSUME NEW st \in Seq(Elements), NEW ds, NEW what \in Dialog \union {"page", "none"}, NEW kept \in BOOLEAN
  PROVE  /\ Focused(what, kept, st, ds) \in Dialog \union {"page", "none"}
         /\ \A d \in Dialog : kept /\ Contains(st, Wrapper(d)) /\ ds[d].visible => Focused(what, kept, st, ds) # "page"
<1> DEFINE I == {i \in 1..Len(st) : st[i][1] = "dialog" /\ ds[st[i][2]].visible}
           k == LastVisible(st, ds)
<1>1. k = IF I # {} THEN Max(I) ELSE 0
  BY DEF LastVisible, SelectLastInSeq
<1>2. I # {} => Max(I) \in I
  <2>1. SUFFICES ASSUME I # {} PROVE Max(I) \in I
    OBVIOUS
  <2>2. Len(st) \in Nat /\ I \subseteq 1..Len(st)
    OBVIOUS
  <2> HIDE DEF I
  <2> DEFINE B == {u \in Nat : \A x \in I : x <= u}
  <2>3. B \in SUBSET Nat /\ Len(st) \in B
    BY <2>2
  <2>4. PICK e \in B : \A x \in B : e <= x
    <3> HIDE DEF B
    <3>1. QED
      BY <2>3, LowestPlace
  <2>5. e \in I
    <3>1. SUFFICES ASSUME e \notin I PROVE FALSE
      OBVIOUS
    <3>2. PICK x \in I : TRUE
      BY <2>1
    <3>3. x <= e /\ x # e /\ x \in 1..Len(st) /\ e \in Nat
      BY <2>2, <2>4, <3>1, <3>2
    <3>4. e - 1 \in Nat /\ ~(e <= e - 1)
      BY <3>3
    <3>5. \A y \in I : y <= e - 1
      BY <2>2, <2>4, <3>1, <3>3
    <3>6. QED
      BY <2>4, <3>4, <3>5
  <2>6. \A x \in I : x <= e
    BY <2>4
  <2>7. QED
    BY <2>5, <2>6 DEF Max
<1>3. k > 0 => k \in I
  <2> HIDE DEF I, k
  <2>1. QED
    BY <1>1, <1>2
<1>4. \A i \in 1..Len(st) : st[i] \in Elements
  OBVIOUS
<1>5. k > 0 => st[k][2] \in Dialog
  BY <1>3, <1>4, ElementsApart
<1>6. \A d \in Dialog : Contains(st, Wrapper(d)) /\ ds[d].visible => k > 0
  <2>1. SUFFICES ASSUME NEW d \in Dialog, Contains(st, Wrapper(d)), ds[d].visible PROVE k > 0
    OBVIOUS
  <2>2. PICK i \in 1..Len(st) : st[i] = Wrapper(d)
    BY <2>1 DEF Contains
  <2>3. st[i][1] = "dialog" /\ st[i][2] = d
    BY <2>2, ElementsApart
  <2>4. i \in I
    BY <2>1, <2>3
  <2>5. k \in I
    BY <1>1, <1>2, <2>4
  <2>6. QED
    BY <2>5
<1>7. "page" \notin Dialog
  BY DialogAssumption
<1>8. Focused(what, kept, st, ds) = IF kept /\ what = "page" /\ k > 0 THEN st[k][2] ELSE what
  BY DEF Focused
<1> HIDE DEF k, I
<1>9. QED
  BY <1>5, <1>6, <1>7, <1>8

\* The effects of a dialog hide and show it in turn, the last one as it is open
\* or closed; it is seen while it is open or has not been hidden yet.
Effects == {"hide", "show"}
InTurn(made, isOpen, visible, queue) ==
    /\ Len(queue) > 0 => queue[1] = "hide" /\ queue[Len(queue)] = IF isOpen THEN "show" ELSE "hide"
    /\ \A k \in 1..(Len(queue) - 1) : queue[k] # queue[k + 1]
    /\ visible <=> isOpen \/ Len(queue) > 0
    /\ isOpen \/ visible => made

LEMMA OpenedInTurn ==
  ASSUME NEW queue \in Seq(Effects), NEW visible \in BOOLEAN, InTurn(TRUE, FALSE, visible, queue)
  PROVE  /\ queue = <<>> => InTurn(TRUE, TRUE, TRUE, queue)
         /\ queue # <<>> => InTurn(TRUE, TRUE, visible, Append(queue, "show"))
<1>1. Len(queue) \in Nat /\ (queue = <<>> <=> Len(queue) = 0)
  OBVIOUS
<1>2. CASE queue = <<>>
  BY <1>1, <1>2 DEF InTurn
<1>3. CASE queue # <<>>
  <2>1. PICK q : q = Append(queue, "show")
    OBVIOUS
  <2>2. /\ Len(q) = Len(queue) + 1 /\ q[Len(q)] = "show"
        /\ \A k \in 1..Len(queue) : q[k] = queue[k]
    BY <2>1
  <2>3. q[1] = "hide"
    BY <1>1, <1>3, <2>2 DEF InTurn
  <2>4. \A k \in 1..(Len(q) - 1) : q[k] # q[k + 1]
    <3>1. SUFFICES ASSUME NEW k \in 1..Len(queue) PROVE q[k] # q[k + 1]
      BY <1>1, <2>2
    <3>2. CASE k = Len(queue)
      BY <1>1, <1>3, <2>2, <3>2 DEF InTurn
    <3>3. CASE k # Len(queue)
      <4>1. k \in 1..(Len(queue) - 1) /\ k + 1 \in 1..Len(queue)
        BY <1>1, <3>3
      <4>2. QED
        BY <2>2, <4>1 DEF InTurn
    <3>4. QED
      BY <3>2, <3>3
  <2>5. Len(q) > 0 /\ visible
    BY <1>1, <1>3, <2>2 DEF InTurn
  <2>6. InTurn(TRUE, TRUE, visible, q)
    BY <2>2, <2>3, <2>4, <2>5 DEF InTurn
  <2>7. QED
    BY <1>3, <2>1, <2>6
<1>4. QED
  BY <1>2, <1>3

LEMMA ClosedInTurn ==
  ASSUME NEW queue \in Seq(Effects), NEW visible \in BOOLEAN, NEW made \in BOOLEAN,
         InTurn(made, TRUE, visible, queue)
  PROVE  /\ queue = <<>> => InTurn(made, FALSE, FALSE, queue)
         /\ InTurn(made, FALSE, visible, Append(queue, "hide"))
<1>1. Len(queue) \in Nat /\ (queue = <<>> <=> Len(queue) = 0)
  OBVIOUS
<1>2. queue = <<>> => InTurn(made, FALSE, FALSE, queue)
  BY <1>1 DEF InTurn
<1>3. InTurn(made, FALSE, visible, Append(queue, "hide"))
  <2>1. PICK q : q = Append(queue, "hide")
    OBVIOUS
  <2>2. /\ Len(q) = Len(queue) + 1 /\ q[Len(q)] = "hide"
        /\ \A k \in 1..Len(queue) : q[k] = queue[k]
    BY <2>1
  <2>3. q[1] = "hide"
    <3>1. CASE Len(queue) = 0
      BY <2>2, <3>1
    <3>2. CASE Len(queue) # 0
      BY <1>1, <2>2, <3>2 DEF InTurn
    <3>3. QED
      BY <3>1, <3>2
  <2>4. \A k \in 1..(Len(q) - 1) : q[k] # q[k + 1]
    <3>1. SUFFICES ASSUME NEW k \in 1..Len(queue) PROVE q[k] # q[k + 1]
      BY <1>1, <2>2
    <3>2. CASE k = Len(queue)
      BY <1>1, <2>2, <3>2 DEF InTurn
    <3>3. CASE k # Len(queue)
      <4>1. k \in 1..(Len(queue) - 1) /\ k + 1 \in 1..Len(queue)
        BY <1>1, <3>3
      <4>2. QED
        BY <2>2, <4>1 DEF InTurn
    <3>4. QED
      BY <3>2, <3>3
  <2>5. Len(q) > 0 /\ visible /\ made
    BY <1>1, <2>2 DEF InTurn
  <2>6. InTurn(made, FALSE, visible, q)
    BY <2>2, <2>3, <2>4, <2>5 DEF InTurn
  <2>7. QED
    BY <2>1, <2>6
<1>4. QED
  BY <1>2, <1>3

LEMMA EffectInTurn ==
  ASSUME NEW queue \in Seq(Effects), NEW visible \in BOOLEAN, NEW made \in BOOLEAN, NEW isOpen \in BOOLEAN,
         InTurn(made, isOpen, visible, queue), queue # <<>>
  PROVE  LET rest == Tail(queue)
             again == rest # <<>> /\ Head(rest) = "show"
         IN  /\ again => Tail(rest) \in Seq(Effects) /\ InTurn(made, isOpen, TRUE, Tail(rest))
             /\ ~again => rest \in Seq(Effects) /\ InTurn(made, isOpen, FALSE, rest)
<1>1. PICK n : n = Len(queue)
  OBVIOUS
<1>2. n \in Nat /\ n > 0 /\ \A k \in 1..n : queue[k] \in Effects
  BY <1>1
<1>3. PICK rest : rest = Tail(queue)
  OBVIOUS
<1>4. rest \in Seq(Effects) /\ Len(rest) = n - 1 /\ \A k \in 1..(n - 1) : rest[k] = queue[k + 1]
  BY <1>1, <1>2, <1>3
<1>5. /\ queue[1] = "hide" /\ queue[n] = (IF isOpen THEN "show" ELSE "hide")
      /\ \A k \in 1..(n - 1) : queue[k] # queue[k + 1]
      /\ visible /\ made
  BY <1>1, <1>2 DEF InTurn
<1>6. CASE n = 1
  <2>1. rest = <<>> /\ ~isOpen
    BY <1>4, <1>5, <1>6
  <2>2. InTurn(made, isOpen, FALSE, rest)
    BY <2>1, <1>6, <1>4 DEF InTurn
  <2>3. QED
    BY <1>3, <1>4, <2>1, <2>2
<1>7. CASE n # 1
  <2>1. 1 \in 1..(n - 1) /\ 2 \in 1..n /\ rest # <<>>
    BY <1>2, <1>4, <1>7
  <2>2. rest[1] = queue[2] /\ queue[1] # queue[2]
    BY <1>4, <1>5, <2>1
  <2>3. Head(rest) = "show"
    BY <1>2, <1>4, <1>5, <2>1, <2>2 DEF Effects
  <2>4. PICK t : t = Tail(rest)
    OBVIOUS
  <2>5. t \in Seq(Effects) /\ Len(t) = n - 2 /\ \A k \in 1..(n - 2) : t[k] = rest[k + 1] /\ k + 1 \in 1..(n - 1)
    BY <1>2, <1>4, <2>1, <2>4
  <2>6. \A k \in 1..(n - 2) : t[k] = queue[k + 2] /\ k + 2 \in 1..n
    BY <1>2, <1>4, <2>5
  <2>7. CASE n = 2
    <3>1. isOpen /\ Len(t) = 0
      BY <1>5, <2>2, <2>7, <2>5
    <3>2. InTurn(made, isOpen, TRUE, t)
      BY <1>5, <3>1 DEF InTurn
    <3>3. QED
      BY <1>3, <2>1, <2>3, <2>4, <2>5, <3>2
  <2>8. CASE n # 2
    <3>1. 1 \in 1..(n - 2) /\ 2 \in 1..(n - 1) /\ n - 2 \in 1..(n - 2)
      BY <1>2, <2>1, <2>8
    <3>2. queue[2] # queue[3] /\ queue[3] \in Effects /\ queue[2] = "show" /\ t[1] = queue[3]
      BY <1>2, <1>4, <1>5, <2>1, <2>2, <2>3, <2>6, <3>1 DEF Effects
    <3>3. t[1] = "hide"
      BY <3>2 DEF Effects
    <3>4. t[n - 2] = queue[n]
      BY <1>2, <2>6, <3>1
    <3>5. \A k \in 1..(n - 3) : t[k] # t[k + 1]
      <4>1. SUFFICES ASSUME NEW k \in 1..(n - 3) PROVE t[k] # t[k + 1]
        OBVIOUS
      <4>2. k \in 1..(n - 2) /\ k + 1 \in 1..(n - 2) /\ k + 2 \in 1..(n - 1) /\ (k + 1) + 2 = (k + 2) + 1
        BY <1>2, <4>1
      <4>3. t[k] = queue[k + 2] /\ t[k + 1] = queue[(k + 2) + 1]
        BY <2>6, <4>2
      <4>4. QED
        BY <1>5, <4>2, <4>3
    <3>6. Len(t) - 1 = n - 3 /\ Len(t) > 0
      BY <1>2, <2>5, <3>1
    <3>7. InTurn(made, isOpen, TRUE, t)
      BY <1>5, <2>5, <3>3, <3>4, <3>5, <3>6 DEF InTurn
    <3>8. QED
      BY <1>3, <2>1, <2>3, <2>4, <2>5, <3>7
  <2>9. QED
    BY <2>7, <2>8
<1>8. QED
  BY <1>6, <1>7

DialogRec == [made : BOOLEAN, modal : BOOLEAN, fades : BOOLEAN, isOpen : BOOLEAN, visible : BOOLEAN,
              queue : Seq(Effects)]
DialogsKnown(ds) ==
    /\ ds \in [Dialog -> DialogRec]
    /\ \A d \in Dialog : InTurn(ds[d].made, ds[d].isOpen, ds[d].visible, ds[d].queue)

\* The wrappers of the dialogs that were made are in the document, and the
\* overlays of those that are modal and open, each under its dialog.
OverlaysUnder(ds, st) ==
    /\ st \in Unrepeated(Elements)
    /\ \A d \in Dialog : Contains(st, Wrapper(d)) <=> ds[d].made
    /\ \A d \in Dialog : Contains(st, Overlay(d)) <=> ds[d].isOpen /\ ds[d].modal
    /\ \A d \in Dialog : Contains(st, Overlay(d)) => Precedes(st, Overlay(d), Wrapper(d))

Focuses == Dialog \union {"page", "none"}

\* The handler is bound only over an overlay and at the latest by the timer;
\* the page has the focus under an overlay only when it was noted.
FocusHeld ==
    /\ focusKept => Overlays # {}
    /\ focusTimers = 0 /\ Overlays # {} => focusKept
    /\ focus = "page" /\ Overlays # {} => focusedEarly

DialogShape ==
    /\ opener \in [Dialog -> Focuses] /\ focus \in Focuses /\ focusKept \in BOOLEAN /\ focusedEarly \in BOOLEAN
    /\ focusTimers \in Nat /\ openingsLeft \in Nat /\ overlayInstances \in Nat /\ iframeBlocks \subseteq Dialog
    /\ overlayInstances + openingsLeft <= MaxOpenings /\ focusTimers + openingsLeft <= MaxOpenings

DialogInv ==
    /\ DialogShape /\ DialogsKnown(dialogs) /\ OverlaysUnder(dialogs, stack)
    /\ overlayInstances = Cardinality(Overlays) /\ FocusHeld

LEMMA DialogPut ==
  ASSUME NEW R, NEW ds \in [Dialog -> R], NEW d \in Dialog, NEW y \in R
  PROVE  /\ [ds EXCEPT ![d] = y] \in [Dialog -> R] /\ [ds EXCEPT ![d] = y][d] = y
         /\ \A e \in Dialog : e # d => [ds EXCEPT ![d] = y][e] = ds[e]
  OBVIOUS

\* A dialog is changed, and the others are left.
Toggled(ds, d, op, vis, q, new) == new = [ds EXCEPT ![d].isOpen = op, ![d].visible = vis, ![d].queue = q]
Requeued(ds, d, vis, q, new) == new = [ds EXCEPT ![d].visible = vis, ![d].queue = q]

LEMMA DialogOpensOrCloses ==
  ASSUME NEW ds \in [Dialog -> DialogRec], NEW d \in Dialog, NEW op \in BOOLEAN, NEW vis \in BOOLEAN,
         NEW q \in Seq(Effects), NEW new, Toggled(ds, d, op, vis, q, new)
  PROVE  /\ new \in [Dialog -> DialogRec] /\ \A e \in Dialog : e # d => new[e] = ds[e]
         /\ new[d].made = ds[d].made /\ new[d].modal = ds[d].modal /\ new[d].isOpen = op /\ new[d].visible = vis
         /\ new[d].queue = q
<1>1. ds[d] \in DialogRec
  OBVIOUS
<1>2. PICK y : y = [ds[d] EXCEPT !.isOpen = op, !.visible = vis, !.queue = q]
  OBVIOUS
<1>3. y \in DialogRec /\ y.made = ds[d].made /\ y.modal = ds[d].modal /\ y.isOpen = op /\ y.visible = vis /\ y.queue = q
  BY <1>1, <1>2 DEF DialogRec
<1>4. PICK z : z = [ds EXCEPT ![d] = y]
  OBVIOUS
<1>5. z \in [Dialog -> DialogRec] /\ z[d] = y /\ \A e \in Dialog : e # d => z[e] = ds[e]
  <2> HIDE DEF DialogRec
  <2>1. QED
    BY <1>3, <1>4, DialogPut
<1>6. new = z
  BY <1>2, <1>4 DEF Toggled
<1> HIDE DEF DialogRec
<1>7. new \in [Dialog -> DialogRec] /\ new[d] = y /\ \A e \in Dialog : e # d => new[e] = ds[e]
  BY <1>5, <1>6, Zenon
<1>8. QED
  BY <1>3, <1>7

LEMMA DialogChangesQueue ==
  ASSUME NEW ds \in [Dialog -> DialogRec], NEW d \in Dialog, NEW vis \in BOOLEAN,
         NEW q \in Seq(Effects), NEW new, Requeued(ds, d, vis, q, new)
  PROVE  /\ new \in [Dialog -> DialogRec] /\ \A e \in Dialog : e # d => new[e] = ds[e]
         /\ new[d].made = ds[d].made /\ new[d].modal = ds[d].modal /\ new[d].isOpen = ds[d].isOpen
         /\ new[d].visible = vis /\ new[d].queue = q
<1>1. ds[d] \in DialogRec
  OBVIOUS
<1>2. PICK y : y = [ds[d] EXCEPT !.visible = vis, !.queue = q]
  OBVIOUS
<1>3. /\ y \in DialogRec /\ y.made = ds[d].made /\ y.modal = ds[d].modal /\ y.isOpen = ds[d].isOpen
      /\ y.visible = vis /\ y.queue = q
  BY <1>1, <1>2 DEF DialogRec
<1>4. PICK z : z = [ds EXCEPT ![d] = y]
  OBVIOUS
<1>5. z \in [Dialog -> DialogRec] /\ z[d] = y /\ \A e \in Dialog : e # d => z[e] = ds[e]
  <2> HIDE DEF DialogRec
  <2>1. QED
    BY <1>3, <1>4, DialogPut
<1>6. new = z
  BY <1>2, <1>4 DEF Requeued
<1> HIDE DEF DialogRec
<1>7. new \in [Dialog -> DialogRec] /\ new[d] = y /\ \A e \in Dialog : e # d => new[e] = ds[e]
  BY <1>5, <1>6, Zenon
<1>8. QED
  BY <1>3, <1>7

\* The number of overlays as one comes or goes.
LEMMA OverlayCount ==
  ASSUME NEW over \in SUBSET Dialog, NEW d \in Dialog
  PROVE  /\ Cardinality(over) \in Nat /\ (Cardinality(over) = 0 <=> over = {})
         /\ d \notin over => Cardinality(over \union {d}) = Cardinality(over) + 1
         /\ d \in over => Cardinality(over \ {d}) = Cardinality(over) - 1
         /\ d \notin over => over \ {d} = over
<1>1. IsFiniteSet(over)
  BY DialogAssumption, FS_Subset
<1>2. Cardinality(over) \in Nat /\ (Cardinality(over) = 0 <=> over = {})
  BY <1>1, FS_CardinalityType, FS_EmptySet
<1>3. d \notin over => Cardinality(over \union {d}) = Cardinality(over) + 1
  BY <1>1, FS_AddElement
<1>4. d \in over => Cardinality(over \ {d}) = Cardinality(over) - 1
  BY <1>1, FS_RemoveElement
<1>5. d \notin over => over \ {d} = over
  OBVIOUS
<1>6. QED
  BY <1>2, <1>3, <1>4, <1>5

LEMMA OverlaysAre ==
  ASSUME NEW ds, NEW st, OverlaysUnder(ds, st)
  PROVE  {d \in Dialog : Contains(st, Overlay(d))} = {d \in Dialog : ds[d].isOpen /\ ds[d].modal}
  BY DEF OverlaysUnder

LEMMA DialogStarts == DialogInit => DialogInv
<1>1. SUFFICES ASSUME DialogInit PROVE DialogInv
  OBVIOUS
<1>2. NotMade \in DialogRec /\ ~NotMade.made /\ ~NotMade.isOpen /\ ~NotMade.visible /\ NotMade.queue = <<>>
  BY DEF NotMade, DialogRec
<1>3. \A d \in Dialog : dialogs[d] = NotMade
  BY <1>1 DEF DialogInit
<1>4. InTurn(NotMade.made, NotMade.isOpen, NotMade.visible, NotMade.queue)
  <2> HIDE DEF NotMade
  <2>1. QED
    BY <1>2 DEF InTurn
<1>5. DialogsKnown(dialogs)
  <2>1. dialogs \in [Dialog -> DialogRec]
    BY <1>1, <1>2 DEF DialogInit
  <2>2. QED
    BY <1>3, <1>4, <2>1 DEF DialogsKnown
<1>6. stack = <<>> /\ \A x : ~Contains(stack, x)
  BY <1>1 DEF DialogInit, Contains
<1>7. OverlaysUnder(dialogs, stack)
  <2>1. stack \in Unrepeated(Elements)
    BY <1>6 DEF Unrepeated
  <2>2. QED
    BY <1>2, <1>3, <1>6, <2>1 DEF OverlaysUnder
<1>8. Overlays = {}
  BY <1>6 DEF Overlays
<1>9. overlayInstances = Cardinality(Overlays)
  BY <1>1, <1>8, FS_EmptySet DEF DialogInit
<1>10. FocusHeld
  BY <1>1, <1>8 DEF DialogInit, FocusHeld
<1>11. DialogShape
  <2>1. /\ opener \in [Dialog -> Focuses] /\ focus \in Focuses /\ focusKept \in BOOLEAN /\ focusedEarly \in BOOLEAN
        /\ iframeBlocks \subseteq Dialog
    BY <1>1 DEF DialogInit, Focuses
  <2>2. focusTimers = 0 /\ overlayInstances = 0 /\ openingsLeft = MaxOpenings /\ MaxOpenings \in Nat
    BY <1>1, DialogAssumption DEF DialogInit
  <2>3. QED
    BY <2>1, <2>2 DEF DialogShape
<1>12. QED
  BY <1>5, <1>7, <1>9, <1>10, <1>11 DEF DialogInv

LEMMA CreateKept ==
  ASSUME DialogInv, NEW d \in Dialog, NEW modal \in BOOLEAN, NEW fades \in BOOLEAN, CreateDialog(d, modal, fades)
  PROVE  DialogInv'
<1>1. PICK ds, st : ds = dialogs /\ st = stack
  OBVIOUS
<1>2. PICK w : w = Wrapper(d)
  OBVIOUS
<1>3. DialogsKnown(ds) /\ OverlaysUnder(ds, st) /\ ~ds[d].made
  BY <1>1 DEF DialogInv, CreateDialog
<1>4. PICK y : y = [NotMade EXCEPT !.made = TRUE, !.modal = modal, !.fades = fades]
  OBVIOUS
<1>5. y \in DialogRec /\ y.made = TRUE /\ y.isOpen = FALSE /\ y.visible = FALSE /\ y.queue = <<>>
  <2>1. NotMade \in DialogRec /\ NotMade.isOpen = FALSE /\ NotMade.visible = FALSE /\ NotMade.queue = <<>>
    BY DEF NotMade, DialogRec
  <2> HIDE DEF NotMade
  <2>2. QED
    BY <1>4, <2>1 DEF DialogRec
<1>6. PICK new : new = [ds EXCEPT ![d] = y]
  OBVIOUS
<1>7. new \in [Dialog -> DialogRec] /\ new[d] = y /\ \A e \in Dialog : e # d => new[e] = ds[e]
  <2> HIDE DEF DialogRec
  <2>1. QED
    BY <1>3, <1>5, <1>6, DialogPut DEF DialogsKnown
<1>8. InTurn(y.made, y.isOpen, y.visible, y.queue)
  BY <1>5 DEF InTurn
<1>9. DialogsKnown(new)
  BY <1>3, <1>7, <1>8, Zenon DEF DialogsKnown
<1>10. ~ds[d].isOpen
  BY <1>3 DEF DialogsKnown, InTurn
<1>11. st \in Unrepeated(Elements) /\ ~Contains(st, w) /\ w \in Elements
  BY <1>2, <1>3, ElementsApart DEF OverlaysUnder
<1>12. PICK u : u = Append(st, w)
  OBVIOUS
<1>13. /\ u \in Unrepeated(Elements) /\ \A a : Contains(u, a) <=> Contains(st, a) \/ a = w
       /\ \A a, b : Precedes(st, a, b) => Precedes(u, a, b)
  BY <1>11, <1>12, AppendedBehind
<1>14. \A e \in Dialog : Overlay(e) # w /\ (Wrapper(e) = w <=> e = d)
  BY <1>2, ElementsApart
<1>15. OverlaysUnder(new, u)
  <2>1. \A e \in Dialog : Contains(u, Wrapper(e)) <=> new[e].made
    BY <1>3, <1>5, <1>7, <1>13, <1>14 DEF OverlaysUnder
  <2>2. \A e \in Dialog : Contains(u, Overlay(e)) <=> new[e].isOpen /\ new[e].modal
    BY <1>3, <1>5, <1>7, <1>10, <1>13, <1>14 DEF OverlaysUnder
  <2>3. \A e \in Dialog : Contains(u, Overlay(e)) => Precedes(u, Overlay(e), Wrapper(e))
    BY <1>3, <1>13, <1>14 DEF OverlaysUnder
  <2>4. QED
    BY <1>13, <2>1, <2>2, <2>3 DEF OverlaysUnder
<1>16. dialogs' = new /\ stack' = u
  BY <1>1, <1>2, <1>4, <1>6, <1>12 DEF CreateDialog
<1>17. Overlays' = Overlays
  BY <1>1, <1>13, <1>14, <1>16 DEF Overlays
<1>18. UNCHANGED <<opener, overlayInstances, focusTimers, focusKept, focus, iframeBlocks, openingsLeft, focusedEarly>>
  BY DEF CreateDialog
<1>19. DialogShape' /\ FocusHeld' /\ (overlayInstances = Cardinality(Overlays))'
  BY <1>17, <1>18 DEF DialogInv, DialogShape, FocusHeld
<1>20. QED
  BY <1>9, <1>15, <1>16, <1>19 DEF DialogInv

\* Raising a dialog that was made, whatever becomes of the focus.
LEMMA RaiseKeeps ==
  ASSUME DialogInv, NEW d \in Dialog, dialogs[d].made, stack' = MovedToTop(stack, dialogs, d), dialogs' = dialogs
  PROVE  OverlaysUnder(dialogs, stack)' /\ Overlays' = Overlays
<1>1. PICK ds, st : ds = dialogs /\ st = stack
  OBVIOUS
<1>2. OverlaysUnder(ds, st) /\ ds[d].made
  BY <1>1 DEF DialogInv
<1>3. PICK u : u = MovedToTop(st, ds, d)
  OBVIOUS
<1>4. st \in Unrepeated(Elements) /\ Contains(st, Wrapper(d))
  BY <1>2 DEF OverlaysUnder
<1>5. /\ u \in Unrepeated(Elements) /\ \A x : Contains(u, x) <=> Contains(st, x)
      /\ \A o \in Dialog : Precedes(st, Overlay(o), Wrapper(o)) => Precedes(u, Overlay(o), Wrapper(o))
  BY <1>3, <1>4, OverlaysStayUnder
<1>6. OverlaysUnder(ds, u)
  BY <1>2, <1>5 DEF OverlaysUnder
<1>7. stack' = u
  BY <1>1, <1>3
<1>8. QED
  BY <1>1, <1>5, <1>6, <1>7 DEF Overlays

LEMMA MouseDownKept ==
  ASSUME DialogInv, NEW d \in Dialog, MouseDown(d)
  PROVE  DialogInv'
<1>1. UNCHANGED <<dialogs, opener, overlayInstances, focusTimers, focusKept, iframeBlocks, openingsLeft, focusedEarly>>
  BY DEF MouseDown
<1>2. dialogs[d].made
  BY DEF MouseDown, DialogInv, DialogsKnown, InTurn
<1>3. OverlaysUnder(dialogs, stack)' /\ Overlays' = Overlays
  <2>1. CASE stack' = stack
    BY <1>1, <2>1 DEF DialogInv, Overlays
  <2>2. CASE stack' = MovedToTop(stack, dialogs, d)
    BY <1>1, <1>2, <2>2, RaiseKeeps
  <2>3. QED
    BY <2>1, <2>2 DEF MouseDown
<1>4. focus' \in Dialog
  BY DEF MouseDown, Overlays
<1>5. focus' # "page" /\ focus' \in Focuses
  BY <1>4, DialogAssumption DEF Focuses
<1>6. DialogShape' /\ FocusHeld' /\ (overlayInstances = Cardinality(Overlays))'
  BY <1>1, <1>3, <1>5 DEF DialogInv, DialogShape, FocusHeld
<1>7. QED
  BY <1>1, <1>3, <1>6 DEF DialogInv

LEMMA EffectKept ==
  ASSUME DialogInv, NEW d \in Dialog, EffectEnds(d)
  PROVE  DialogInv'
<1>1. UNCHANGED <<opener, stack, overlayInstances, focusTimers, focusKept, iframeBlocks, openingsLeft, focusedEarly>>
  BY DEF EffectEnds
<1>2. PICK ds : ds = dialogs
  OBVIOUS
<1>3. DialogsKnown(ds) /\ OverlaysUnder(ds, stack)
  BY <1>2 DEF DialogInv
<1>4. PICK queue : queue = ds[d].queue
  OBVIOUS
<1>5. /\ ds[d] \in DialogRec /\ queue \in Seq(Effects) /\ queue # <<>>
      /\ ds[d].visible \in BOOLEAN /\ ds[d].made \in BOOLEAN /\ ds[d].isOpen \in BOOLEAN
      /\ InTurn(ds[d].made, ds[d].isOpen, ds[d].visible, queue)
  <2>1. ds[d] \in DialogRec /\ InTurn(ds[d].made, ds[d].isOpen, ds[d].visible, queue)
    BY <1>3, <1>4 DEF DialogsKnown
  <2>2. queue # <<>>
    BY <1>2, <1>4 DEF EffectEnds
  <2>3. QED
    BY <1>4, <2>1, <2>2 DEF DialogRec
<1>6. PICK rest : rest = Tail(queue)
  OBVIOUS
<1>7. PICK again \in BOOLEAN : again <=> rest # <<>> /\ Head(rest) = "show"
  OBVIOUS
<1>8. PICK left : left = IF again THEN Tail(rest) ELSE rest
  OBVIOUS
<1>9. left \in Seq(Effects) /\ InTurn(ds[d].made, ds[d].isOpen, again, left)
  <2>1. /\ again => Tail(rest) \in Seq(Effects) /\ InTurn(ds[d].made, ds[d].isOpen, TRUE, Tail(rest))
        /\ ~again => rest \in Seq(Effects) /\ InTurn(ds[d].made, ds[d].isOpen, FALSE, rest)
    BY <1>5, <1>6, <1>7, EffectInTurn
  <2>2. CASE again
    <3>1. again = TRUE
      BY <2>2
    <3>2. QED
      BY <1>8, <2>1, <3>1
  <2>3. CASE ~again
    <3>1. again = FALSE
      BY <2>3
    <3>2. QED
      BY <1>8, <2>1, <3>1
  <2>4. QED
    BY <2>2, <2>3
<1>10. PICK new : Requeued(ds, d, again, left, new)
  BY DEF Requeued
<1>11. /\ new \in [Dialog -> DialogRec] /\ \A e \in Dialog : e # d => new[e] = ds[e]
       /\ new[d].made = ds[d].made /\ new[d].modal = ds[d].modal /\ new[d].isOpen = ds[d].isOpen
       /\ new[d].visible = again /\ new[d].queue = left
  <2>1. ds \in [Dialog -> DialogRec] /\ left \in Seq(Effects)
    BY <1>3, <1>9 DEF DialogsKnown
  <2> HIDE DEF DialogRec, Effects
  <2>2. QED
    BY <1>10, <2>1, DialogChangesQueue
<1>12. DialogsKnown(new)
  BY <1>3, <1>9, <1>11 DEF DialogsKnown
<1>13. OverlaysUnder(new, stack)
  <2>1. \A e \in Dialog : new[e].made = ds[e].made /\ new[e].modal = ds[e].modal /\ new[e].isOpen = ds[e].isOpen
    BY <1>11
  <2>2. QED
    BY <1>3, <2>1, Zenon DEF OverlaysUnder
<1>14. dialogs' = new
  BY <1>2, <1>4, <1>6, <1>7, <1>8, <1>10 DEF EffectEnds, Requeued
<1>15. focus' = d \/ focus' = "none" \/ focus' = focus
  BY DEF EffectEnds
<1>16. Overlays' = Overlays
  BY <1>1 DEF Overlays
<1>17. focus' \in Focuses /\ (focus' = "page" => focus = "page")
  BY <1>15, DialogAssumption DEF Focuses, DialogInv, DialogShape
<1>18. DialogShape' /\ FocusHeld' /\ (overlayInstances = Cardinality(Overlays))'
  BY <1>1, <1>16, <1>17 DEF DialogInv, DialogShape, FocusHeld
<1>19. QED
  BY <1>1, <1>12, <1>13, <1>14, <1>18 DEF DialogInv

\* The handler keeps the focus in the dialogs while one of them is seen.
LEMMA FocusIsKept ==
  ASSUME DialogInv, NEW d \in Dialog, dialogs[d].isOpen, NEW what \in Focuses
  PROVE  /\ Focused(what, TRUE, stack, dialogs) # "page"
         /\ \A kept \in BOOLEAN : Focused(what, kept, stack, dialogs) \in Focuses
<1>1. Contains(stack, Wrapper(d)) /\ dialogs[d].visible /\ stack \in Seq(Elements)
  BY DEF DialogInv, DialogsKnown, InTurn, OverlaysUnder, Unrepeated
<1>2. what \in Dialog \union {"page", "none"}
  BY DEF Focuses
<1>3. /\ Focused(what, TRUE, stack, dialogs) # "page"
      /\ \A kept \in BOOLEAN : Focused(what, kept, stack, dialogs) \in Dialog \union {"page", "none"}
  BY <1>1, <1>2, FocusedIs
<1>4. QED
  BY <1>3 DEF Focuses

LEMMA FocusNoted ==
  ASSUME NoteFocus
  PROVE  /\ focusedEarly' \in BOOLEAN /\ (focusedEarly => focusedEarly')
         /\ focus' = "page" /\ Overlays' # {} /\ ~focusKept' => focusedEarly'
<1>1. PICK b \in BOOLEAN : b <=> (focusedEarly \/ (focus' = "page" /\ Overlays' # {} /\ ~focusKept'))
  OBVIOUS
<1>2. focusedEarly' = b
  BY <1>1 DEF NoteFocus
<1>3. QED
  BY <1>1, <1>2, Zenon

LEMMA PageFocusKept ==
  ASSUME DialogInv, PageFocus
  PROVE  DialogInv'
<1>1. UNCHANGED <<dialogs, opener, stack, overlayInstances, focusTimers, focusKept, iframeBlocks, openingsLeft>>
  BY DEF PageFocus
<1>2. Overlays' = Overlays
  BY <1>1 DEF Overlays
<1>3. focus' = Focused("page", focusKept, stack, dialogs) /\ "page" \in Focuses /\ focusKept \in BOOLEAN
  BY DEF PageFocus, Focuses, DialogInv, DialogShape
<1>4. focus' \in Focuses
  <2>1. stack \in Seq(Elements) /\ "page" \in Dialog \union {"page", "none"}
    BY DEF DialogInv, OverlaysUnder, Unrepeated
  <2>2. Focused("page", focusKept, stack, dialogs) \in Dialog \union {"page", "none"}
    BY <1>3, <2>1, FocusedIs
  <2>3. QED
    BY <1>3, <2>2 DEF Focuses
<1>5. focusedEarly' \in BOOLEAN /\ (focusedEarly => focusedEarly')
  BY FocusNoted DEF PageFocus
<1>6. ASSUME focus' = "page", Overlays # {} PROVE focusedEarly'
  <2>1. CASE focusKept
    <3>1. PICK d \in Dialog : d \in Overlays
      BY <1>6 DEF Overlays
    <3>2. dialogs[d].isOpen
      BY <3>1 DEF DialogInv, OverlaysUnder, Overlays
    <3>3. Focused("page", TRUE, stack, dialogs) # "page"
      BY <1>3, <3>2, FocusIsKept
    <3>4. focusKept = TRUE
      BY <1>3, <2>1
    <3>5. QED
      BY <1>3, <1>6, <3>3, <3>4
  <2>2. CASE ~focusKept
    BY <1>1, <1>2, <1>6, <2>2, FocusNoted DEF PageFocus
  <2>3. QED
    BY <2>1, <2>2
<1>7. FocusHeld'
  BY <1>1, <1>2, <1>6 DEF DialogInv, FocusHeld
<1>8. DialogShape' /\ (overlayInstances = Cardinality(Overlays))'
  BY <1>1, <1>2, <1>4, <1>5 DEF DialogInv, DialogShape
<1>9. QED
  BY <1>1, <1>7, <1>8 DEF DialogInv

LEMMA TimerKept ==
  ASSUME DialogInv, FocusTimer
  PROVE  DialogInv'
<1>1. UNCHANGED <<dialogs, opener, stack, overlayInstances, focus, iframeBlocks, openingsLeft, focusedEarly>>
  BY DEF FocusTimer
<1>2. Overlays' = Overlays
  BY <1>1 DEF Overlays
<1>3. overlayInstances > 0 <=> Overlays # {}
  <2>1. Overlays \in SUBSET Dialog /\ overlayInstances = Cardinality(Overlays) /\ IsFiniteSet(Overlays)
    BY DialogAssumption, FS_Subset DEF Overlays, DialogInv
  <2>2. QED
    BY <2>1, FS_EmptySet, FS_CardinalityType
<1>4. focusKept' <=> focusKept \/ Overlays # {}
  BY <1>3 DEF FocusTimer
<1>5. focusKept' \in BOOLEAN /\ focusTimers' \in Nat /\ focusTimers' <= focusTimers
  BY DEF FocusTimer, DialogInv, DialogShape
<1>6. FocusHeld'
  BY <1>1, <1>2, <1>4 DEF DialogInv, FocusHeld
<1>7. DialogShape' /\ (overlayInstances = Cardinality(Overlays))'
  <2>0. MaxOpenings \in Nat /\ focusTimers \in Nat /\ openingsLeft \in Nat /\ focusTimers + openingsLeft <= MaxOpenings
    BY DialogAssumption DEF DialogInv, DialogShape
  <2>1. focusTimers' + openingsLeft' <= MaxOpenings
    <3>1. openingsLeft' = openingsLeft
      BY <1>1
    <3>2. PICK a, b, c : a = focusTimers' /\ b = focusTimers /\ c = openingsLeft
      OBVIOUS
    <3>3. a \in Nat /\ b \in Nat /\ c \in Nat /\ a <= b /\ b + c <= MaxOpenings
      BY <1>5, <2>0, <3>2
    <3>4. a + c <= MaxOpenings
      BY <2>0, <3>3
    <3>5. QED
      BY <3>1, <3>2, <3>4
  <2>2. QED
    BY <1>1, <1>2, <1>5, <2>1 DEF DialogInv, DialogShape
<1>8. QED
  BY <1>1, <1>6, <1>7 DEF DialogInv

LEMMA DragsKept ==
  ASSUME DialogInv, NEW d \in Dialog, DragDialog(d) \/ DragDialogEnds(d)
  PROVE  DialogInv'
<1>1. UNCHANGED <<dialogs, opener, stack, overlayInstances, focusTimers, focusKept, focus, openingsLeft, focusedEarly>>
  BY DEF DragDialog, DragDialogEnds
<1>2. Overlays' = Overlays
  BY <1>1 DEF Overlays
<1>3. iframeBlocks' \subseteq Dialog
  BY DEF DragDialog, DragDialogEnds, DialogInv, DialogShape
<1>4. DialogShape' /\ (overlayInstances = Cardinality(Overlays))' /\ FocusHeld'
  BY <1>1, <1>2, <1>3 DEF DialogInv, DialogShape, FocusHeld
<1>5. QED
  BY <1>1, <1>4 DEF DialogInv

\* An overlay goes with its dialog; without one the handler is unbound.
LEMMA OverlayGoes ==
  ASSUME DialogInv, NEW d \in Dialog, Overlays' = Overlays \ {d},
         overlayInstances' = OverlayDestroyed(d), focusKept' = KeptAfter(d)
  PROVE  /\ overlayInstances' = Cardinality(Overlays') /\ overlayInstances' \in Nat
         /\ overlayInstances' <= overlayInstances
         /\ focusKept' \in BOOLEAN /\ (focusKept' <=> focusKept /\ Overlays' # {})
<1>1. Overlays \in SUBSET Dialog
  BY DEF Overlays
<1>2. /\ Cardinality(Overlays) \in Nat /\ (Cardinality(Overlays) = 0 <=> Overlays = {})
      /\ d \in Overlays => Cardinality(Overlays \ {d}) = Cardinality(Overlays) - 1
      /\ d \notin Overlays => Overlays \ {d} = Overlays
  BY <1>1, OverlayCount
<1>3. PICK over : over = Overlays \ {d}
  OBVIOUS
<1>4. over \in SUBSET Dialog
  BY <1>1, <1>3
<1>5. Cardinality(over) \in Nat /\ (Cardinality(over) = 0 <=> over = {})
  BY <1>4, OverlayCount
<1>6. overlayInstances = Cardinality(Overlays) /\ focusKept \in BOOLEAN
  BY DEF DialogInv, DialogShape
<1>7. OverlayDestroyed(d) = Cardinality(over)
  BY <1>2, <1>3, <1>6 DEF OverlayDestroyed
<1>8. Cardinality(over) <= Cardinality(Overlays)
  BY <1>2, <1>3, <1>5
<1>9. KeptAfter(d) \in BOOLEAN /\ (KeptAfter(d) <=> focusKept /\ over # {})
  BY <1>5, <1>6, <1>7 DEF KeptAfter
<1>10. QED
  BY <1>3, <1>5, <1>6, <1>7, <1>8, <1>9

LEMMA DestroyKept ==
  ASSUME DialogInv, NEW d \in Dialog, DestroyDialog(d)
  PROVE  DialogInv'
<1>1. UNCHANGED <<opener, focusTimers, iframeBlocks, openingsLeft, focusedEarly>>
  BY DEF DestroyDialog
<1>2. PICK ds, st : ds = dialogs /\ st = stack
  OBVIOUS
<1>3. DialogsKnown(ds) /\ OverlaysUnder(ds, st)
  BY <1>2 DEF DialogInv
<1>4. NotMade \in DialogRec /\ NotMade.made = FALSE /\ NotMade.isOpen = FALSE /\ NotMade.visible = FALSE /\ NotMade.queue = <<>>
  BY DEF NotMade, DialogRec
<1>5. PICK y : y = NotMade
  OBVIOUS
<1>6. PICK new : new = [ds EXCEPT ![d] = y]
  OBVIOUS
<1>7. new \in [Dialog -> DialogRec] /\ new[d] = y /\ \A e \in Dialog : e # d => new[e] = ds[e]
  <2> HIDE DEF DialogRec, NotMade
  <2>1. QED
    BY <1>3, <1>4, <1>5, <1>6, DialogPut DEF DialogsKnown
<1>8. InTurn(y.made, y.isOpen, y.visible, y.queue)
  <2> HIDE DEF DialogRec, NotMade
  <2>1. QED
    BY <1>4, <1>5 DEF InTurn
<1>9. DialogsKnown(new)
  BY <1>3, <1>7, <1>8, Zenon DEF DialogsKnown
<1>10. PICK t : t = RemoveFirst(st, Overlay(d))
  OBVIOUS
<1>11. PICK u : u = RemoveFirst(t, Wrapper(d))
  OBVIOUS
<1>12. st \in Unrepeated(Elements)
  BY <1>3 DEF OverlaysUnder
<1>13. /\ t \in Unrepeated(Elements) /\ ToSet(t) = ToSet(st) \ {Overlay(d)}
  BY <1>10, <1>12, FirstRemovedKeeps
<1>14. /\ u \in Unrepeated(Elements) /\ ToSet(u) = ToSet(t) \ {Wrapper(d)}
  BY <1>11, <1>13, FirstRemovedKeeps
<1>15. \A x : Contains(u, x) <=> Contains(st, x) /\ x # Overlay(d) /\ x # Wrapper(d)
  <2>1. st \in Seq(Elements) /\ u \in Seq(Elements)
    BY <1>12, <1>14 DEF Unrepeated
  <2>2. (\A x : x \in ToSet(st) <=> Contains(st, x)) /\ (\A x : x \in ToSet(u) <=> Contains(u, x))
    BY <2>1, InSet
  <2>3. QED
    BY <1>13, <1>14, <2>2
<1>16. \A e \in Dialog : Overlay(e) # Wrapper(d) /\ Wrapper(e) # Overlay(d) /\ (Overlay(e) = Overlay(d) <=> e = d) /\ (Wrapper(e) = Wrapper(d) <=> e = d)
  BY ElementsApart
<1>17. \A e \in Dialog : e # d /\ Precedes(st, Overlay(e), Wrapper(e)) => Precedes(u, Overlay(e), Wrapper(e))
  <2>1. SUFFICES ASSUME NEW e \in Dialog, e # d, Precedes(st, Overlay(e), Wrapper(e)) PROVE Precedes(u, Overlay(e), Wrapper(e))
    OBVIOUS
  <2>2. Precedes(t, Overlay(e), Wrapper(e))
    BY <1>10, <1>12, <1>16, <2>1, RemovedBehind
  <2>3. QED
    BY <1>11, <1>13, <1>16, <2>1, <2>2, RemovedBehind
<1>18. OverlaysUnder(new, u)
  <2>1. \A e \in Dialog : Contains(u, Wrapper(e)) <=> new[e].made
    BY <1>3, <1>4, <1>5, <1>7, <1>15, <1>16 DEF OverlaysUnder
  <2>2. \A e \in Dialog : Contains(u, Overlay(e)) <=> new[e].isOpen /\ new[e].modal
    BY <1>3, <1>4, <1>5, <1>7, <1>15, <1>16 DEF OverlaysUnder
  <2>3. \A e \in Dialog : Contains(u, Overlay(e)) => Precedes(u, Overlay(e), Wrapper(e))
    BY <1>3, <1>15, <1>16, <1>17 DEF OverlaysUnder
  <2>4. QED
    BY <1>14, <2>1, <2>2, <2>3 DEF OverlaysUnder
<1>19. dialogs' = new /\ stack' = u
  BY <1>2, <1>5, <1>6, <1>10, <1>11 DEF DestroyDialog
<1>20. Overlays' = Overlays \ {d}
  BY <1>2, <1>15, <1>16, <1>19 DEF Overlays
<1>21. overlayInstances' = OverlayDestroyed(d) /\ focusKept' = KeptAfter(d)
  BY DEF DestroyDialog
<1>22. /\ overlayInstances' = Cardinality(Overlays') /\ overlayInstances' \in Nat /\ overlayInstances' <= overlayInstances
       /\ focusKept' \in BOOLEAN /\ (focusKept' <=> focusKept /\ Overlays' # {})
  BY <1>20, <1>21, OverlayGoes
<1>23. focus' \in Focuses /\ (focus' = "page" => focus = "page")
  BY DEF DestroyDialog, Focuses, DialogInv, DialogShape
<1>24. FocusHeld'
  BY <1>1, <1>20, <1>22, <1>23 DEF DialogInv, FocusHeld
<1>25. DialogShape'
  <2>1. overlayInstances' + openingsLeft' <= MaxOpenings
    BY <1>1, <1>22, DialogAssumption DEF DialogInv, DialogShape
  <2>2. QED
    BY <1>1, <1>22, <1>23, <2>1 DEF DialogInv, DialogShape
<1>26. QED
  BY <1>9, <1>18, <1>19, <1>22, <1>24, <1>25 DEF DialogInv

LEMMA CloseKept ==
  ASSUME DialogInv, NEW d \in Dialog, CloseDialog(d)
  PROVE  DialogInv'
<1>1. UNCHANGED <<opener, focusTimers, iframeBlocks, openingsLeft>>
  BY DEF CloseDialog
<1>2. PICK ds, st : ds = dialogs /\ st = stack
  OBVIOUS
<1>3. DialogsKnown(ds) /\ OverlaysUnder(ds, st) /\ ds[d].isOpen
  BY <1>2 DEF DialogInv, CloseDialog
<1>4. PICK queue : queue = ds[d].queue
  OBVIOUS
<1>5. /\ ds[d] \in DialogRec /\ queue \in Seq(Effects)
      /\ ds[d].visible \in BOOLEAN /\ ds[d].made \in BOOLEAN /\ ds[d].isOpen = TRUE
      /\ InTurn(ds[d].made, TRUE, ds[d].visible, queue)
  <2>1. ds[d] \in DialogRec /\ InTurn(ds[d].made, ds[d].isOpen, ds[d].visible, queue)
    BY <1>3, <1>4 DEF DialogsKnown
  <2>2. ds[d].isOpen = TRUE
    BY <1>3, <2>1 DEF DialogRec
  <2>3. QED
    BY <1>4, <2>1, <2>2 DEF DialogRec
<1>6. PICK now \in BOOLEAN : now <=> queue = <<>> /\ ~ds[d].fades
  OBVIOUS
<1>7. PICK q : q = IF now THEN queue ELSE Append(queue, "hide")
  OBVIOUS
<1>8. PICK vis \in BOOLEAN : vis <=> ds[d].visible /\ ~now
  OBVIOUS
<1>9. q \in Seq(Effects) /\ InTurn(ds[d].made, FALSE, vis, q)
  <2>1. /\ queue = <<>> => InTurn(ds[d].made, FALSE, FALSE, queue)
        /\ InTurn(ds[d].made, FALSE, ds[d].visible, Append(queue, "hide"))
    BY <1>5, ClosedInTurn
  <2>2. CASE now
    <3>1. vis = FALSE /\ queue = <<>> /\ q = queue
      BY <1>6, <1>7, <1>8, <2>2
    <3>2. QED
      BY <1>5, <2>1, <3>1
  <2>3. CASE ~now
    <3>1. vis = ds[d].visible /\ q = Append(queue, "hide")
      BY <1>5, <1>7, <1>8, <2>3
    <3>2. q \in Seq(Effects)
      BY <1>5, <3>1 DEF Effects
    <3>3. QED
      BY <2>1, <3>1, <3>2
  <2>4. QED
    BY <2>2, <2>3
<1>0. PICK op \in BOOLEAN : op = FALSE
  OBVIOUS
<1>10. PICK new : Toggled(ds, d, op, vis, q, new)
  BY DEF Toggled
<1>11. /\ new \in [Dialog -> DialogRec] /\ \A e \in Dialog : e # d => new[e] = ds[e]
       /\ new[d].made = ds[d].made /\ new[d].modal = ds[d].modal /\ new[d].isOpen = FALSE
       /\ new[d].visible = vis /\ new[d].queue = q
  <2>1. ds \in [Dialog -> DialogRec] /\ q \in Seq(Effects)
    BY <1>3, <1>9 DEF DialogsKnown
  <2> HIDE DEF DialogRec, Effects
  <2>2. /\ new \in [Dialog -> DialogRec] /\ \A e \in Dialog : e # d => new[e] = ds[e]
        /\ new[d].made = ds[d].made /\ new[d].modal = ds[d].modal /\ new[d].isOpen = op
        /\ new[d].visible = vis /\ new[d].queue = q
    BY <1>10, <2>1, DialogOpensOrCloses
  <2>3. QED
    BY <1>0, <2>2
<1>12. DialogsKnown(new)
  BY <1>3, <1>9, <1>11 DEF DialogsKnown
<1>13. PICK u : u = RemoveFirst(st, Overlay(d))
  OBVIOUS
<1>14. st \in Unrepeated(Elements)
  BY <1>3 DEF OverlaysUnder
<1>15. u \in Unrepeated(Elements) /\ ToSet(u) = ToSet(st) \ {Overlay(d)}
  BY <1>13, <1>14, FirstRemovedKeeps
<1>16. \A x : Contains(u, x) <=> Contains(st, x) /\ x # Overlay(d)
  <2>1. st \in Seq(Elements) /\ u \in Seq(Elements)
    BY <1>14, <1>15 DEF Unrepeated
  <2>2. (\A x : x \in ToSet(st) <=> Contains(st, x)) /\ (\A x : x \in ToSet(u) <=> Contains(u, x))
    BY <2>1, InSet
  <2>3. QED
    BY <1>15, <2>2
<1>17. \A e \in Dialog : Wrapper(e) # Overlay(d) /\ (Overlay(e) = Overlay(d) <=> e = d)
  BY ElementsApart
<1>18. \A e \in Dialog : e # d /\ Precedes(st, Overlay(e), Wrapper(e)) => Precedes(u, Overlay(e), Wrapper(e))
  BY <1>13, <1>14, <1>17, RemovedBehind
<1>19. OverlaysUnder(new, u)
  <2>1. \A e \in Dialog : Contains(u, Wrapper(e)) <=> new[e].made
    BY <1>3, <1>11, <1>16, <1>17 DEF OverlaysUnder
  <2>2. \A e \in Dialog : Contains(u, Overlay(e)) <=> new[e].isOpen /\ new[e].modal
    BY <1>3, <1>11, <1>16, <1>17 DEF OverlaysUnder
  <2>3. \A e \in Dialog : Contains(u, Overlay(e)) => Precedes(u, Overlay(e), Wrapper(e))
    BY <1>3, <1>16, <1>17, <1>18 DEF OverlaysUnder
  <2>4. QED
    BY <1>15, <2>1, <2>2, <2>3 DEF OverlaysUnder
<1>20. dialogs' = new /\ stack' = u
  <2>1. stack' = u
    BY <1>2, <1>13 DEF CloseDialog
  <2>2. dialogs' = new
    BY <1>0, <1>2, <1>4, <1>6, <1>7, <1>8, <1>10 DEF CloseDialog, Toggled
  <2>3. QED
    BY <2>1, <2>2
<1>21. Overlays' = Overlays \ {d}
  BY <1>2, <1>16, <1>17, <1>20 DEF Overlays
<1>22. overlayInstances' = OverlayDestroyed(d) /\ focusKept' = KeptAfter(d)
  BY DEF CloseDialog
<1>23. /\ overlayInstances' = Cardinality(Overlays') /\ overlayInstances' \in Nat /\ overlayInstances' <= overlayInstances
       /\ focusKept' \in BOOLEAN /\ (focusKept' <=> focusKept /\ Overlays' # {})
  BY <1>21, <1>22, OverlayGoes
<1>24. PICK back : back = Focused(opener[d], KeptAfter(d), stack, dialogs)
  OBVIOUS
<1>25. opener[d] \in Focuses /\ KeptAfter(d) \in BOOLEAN /\ dialogs[d].isOpen
  BY <1>22, <1>23 DEF DialogInv, DialogShape, CloseDialog
<1>26. back \in Focuses /\ (back = "page" => ~KeptAfter(d))
  <2>1. /\ Focused(opener[d], TRUE, stack, dialogs) # "page"
        /\ \A kept \in BOOLEAN : Focused(opener[d], kept, stack, dialogs) \in Focuses
    BY <1>25, FocusIsKept
  <2>2. KeptAfter(d) => KeptAfter(d) = TRUE
    BY <1>25
  <2>3. QED
    BY <1>24, <1>25, <2>1, <2>2
<1>27. focus' \in {"none", back}
  BY <1>24 DEF CloseDialog
<1>28. focus' \in Focuses /\ (focus' = "page" => ~focusKept')
  BY <1>22, <1>26, <1>27 DEF Focuses
<1>29. /\ focusedEarly' \in BOOLEAN /\ (focusedEarly => focusedEarly')
       /\ focus' = "page" /\ Overlays' # {} /\ ~focusKept' => focusedEarly'
  BY FocusNoted DEF CloseDialog
<1>30. FocusHeld'
  BY <1>1, <1>21, <1>23, <1>28, <1>29 DEF DialogInv, FocusHeld
<1>31. DialogShape'
  <2>1. overlayInstances' + openingsLeft' <= MaxOpenings
    BY <1>1, <1>23, DialogAssumption DEF DialogInv, DialogShape
  <2>2. QED
    BY <1>1, <1>23, <1>28, <1>29, <2>1 DEF DialogInv, DialogShape
<1>32. QED
  BY <1>12, <1>19, <1>20, <1>23, <1>30, <1>31 DEF DialogInv

\* Opening again a dialog that is open raises it.
LEMMA RaiseKept ==
  ASSUME DialogInv, NEW d \in Dialog, OpenDialog(d), dialogs[d].isOpen
  PROVE  DialogInv'
<1>1. UNCHANGED <<dialogs, opener, overlayInstances, focusTimers, focusKept, iframeBlocks>>
  BY DEF OpenDialog
<1>2. dialogs[d].made /\ stack' = MovedToTop(stack, dialogs, d)
  BY DEF OpenDialog
<1>3. OverlaysUnder(dialogs, stack)' /\ Overlays' = Overlays
  BY <1>1, <1>2, RaiseKeeps
<1>4. focus' \in {d, focus}
  BY DEF OpenDialog
<1>5. focus' \in Focuses /\ (focus' = "page" => focus = "page")
  BY <1>4, DialogAssumption DEF Focuses, DialogInv, DialogShape
<1>6. focusedEarly' \in BOOLEAN /\ (focusedEarly => focusedEarly')
  BY FocusNoted DEF OpenDialog
<1>7. openingsLeft \in Nat /\ openingsLeft > 0 /\ openingsLeft' = openingsLeft - 1
  BY DEF OpenDialog, DialogInv, DialogShape
<1>8. FocusHeld' /\ (overlayInstances = Cardinality(Overlays))'
  BY <1>1, <1>3, <1>5, <1>6 DEF DialogInv, FocusHeld
<1>9. DialogShape'
  <2>1. overlayInstances + openingsLeft' <= MaxOpenings /\ focusTimers + openingsLeft' <= MaxOpenings /\ openingsLeft' \in Nat
    BY <1>7, DialogAssumption DEF DialogInv, DialogShape
  <2>2. QED
    BY <1>1, <1>5, <1>6, <2>1 DEF DialogInv, DialogShape
<1>10. QED
  BY <1>1, <1>3, <1>8, <1>9 DEF DialogInv

LEMMA OpenKept ==
  ASSUME DialogInv, NEW d \in Dialog, OpenDialog(d), ~dialogs[d].isOpen
  PROVE  DialogInv'
<1>1. UNCHANGED <<focusKept, iframeBlocks>>
  BY DEF OpenDialog
<1>2. PICK ds, st : ds = dialogs /\ st = stack
  OBVIOUS
<1>3. DialogsKnown(ds) /\ OverlaysUnder(ds, st) /\ ~ds[d].isOpen /\ ds[d].made
  BY <1>2 DEF DialogInv, OpenDialog
<1>4. PICK queue : queue = ds[d].queue
  OBVIOUS
<1>5. /\ ds[d] \in DialogRec /\ queue \in Seq(Effects)
      /\ ds[d].visible \in BOOLEAN /\ ds[d].made = TRUE /\ ds[d].modal \in BOOLEAN
      /\ InTurn(TRUE, FALSE, ds[d].visible, queue)
  <2>1. ds[d] \in DialogRec /\ InTurn(ds[d].made, ds[d].isOpen, ds[d].visible, queue)
    BY <1>3, <1>4 DEF DialogsKnown
  <2>2. ds[d].isOpen = FALSE /\ ds[d].made = TRUE
    BY <1>3, <2>1 DEF DialogRec
  <2>3. QED
    BY <1>4, <2>1, <2>2 DEF DialogRec
<1>6. PICK now \in BOOLEAN : now <=> queue = <<>>
  OBVIOUS
<1>7. PICK q : q = IF now THEN queue ELSE Append(queue, "show")
  OBVIOUS
<1>8. PICK vis \in BOOLEAN : vis <=> ds[d].visible \/ now
  OBVIOUS
<1>9. q \in Seq(Effects) /\ InTurn(TRUE, TRUE, vis, q)
  <2>1. /\ queue = <<>> => InTurn(TRUE, TRUE, TRUE, queue)
        /\ queue # <<>> => InTurn(TRUE, TRUE, ds[d].visible, Append(queue, "show"))
    BY <1>5, OpenedInTurn
  <2>2. CASE now
    <3>1. vis = TRUE /\ queue = <<>> /\ q = queue
      BY <1>6, <1>7, <1>8, <2>2
    <3>2. QED
      BY <1>5, <2>1, <3>1
  <2>3. CASE ~now
    <3>1. vis = ds[d].visible /\ q = Append(queue, "show") /\ queue # <<>>
      BY <1>5, <1>6, <1>7, <1>8, <2>3
    <3>2. q \in Seq(Effects)
      BY <1>5, <3>1 DEF Effects
    <3>3. QED
      BY <2>1, <3>1, <3>2
  <2>4. QED
    BY <2>2, <2>3
<1>10. PICK op \in BOOLEAN : op = TRUE
  OBVIOUS
<1>11. PICK new : Toggled(ds, d, op, vis, q, new)
  BY DEF Toggled
<1>12. /\ new \in [Dialog -> DialogRec] /\ \A e \in Dialog : e # d => new[e] = ds[e]
       /\ new[d].made = TRUE /\ new[d].modal = ds[d].modal /\ new[d].isOpen = TRUE
       /\ new[d].visible = vis /\ new[d].queue = q
  <2>1. ds \in [Dialog -> DialogRec] /\ q \in Seq(Effects)
    BY <1>3, <1>9 DEF DialogsKnown
  <2> HIDE DEF DialogRec, Effects
  <2>2. /\ new \in [Dialog -> DialogRec] /\ \A e \in Dialog : e # d => new[e] = ds[e]
        /\ new[d].made = ds[d].made /\ new[d].modal = ds[d].modal /\ new[d].isOpen = op
        /\ new[d].visible = vis /\ new[d].queue = q
    BY <1>11, <2>1, DialogOpensOrCloses
  <2>3. QED
    BY <1>5, <1>10, <2>2
<1>13. DialogsKnown(new)
  BY <1>3, <1>9, <1>12 DEF DialogsKnown
<1>14. PICK with : with = IF ds[d].modal THEN Append(st, Overlay(d)) ELSE st
  OBVIOUS
<1>15. PICK u : u = MovedToTop(with, ds, d)
  OBVIOUS
<1>16. st \in Unrepeated(Elements) /\ Contains(st, Wrapper(d)) /\ ~Contains(st, Overlay(d)) /\ Overlay(d) \in Elements
  BY <1>3, ElementsApart DEF OverlaysUnder
<1>17. /\ with \in Unrepeated(Elements) /\ Contains(with, Wrapper(d))
       /\ \A x : Contains(with, x) <=> Contains(st, x) \/ (ds[d].modal /\ x = Overlay(d))
       /\ \A a, b : Precedes(st, a, b) => Precedes(with, a, b)
  <2>1. CASE ds[d].modal
    <3>1. PICK t : t = Append(st, Overlay(d))
      OBVIOUS
    <3>2. /\ t \in Unrepeated(Elements) /\ \A a : Contains(t, a) <=> Contains(st, a) \/ a = Overlay(d)
          /\ \A a, b : Precedes(st, a, b) => Precedes(t, a, b)
      BY <1>16, <3>1, AppendedBehind
    <3>3. with = t
      BY <1>14, <2>1, <3>1
    <3>4. QED
      BY <1>16, <2>1, <3>2, <3>3
  <2>2. CASE ~ds[d].modal
    BY <1>14, <1>16, <2>2
  <2>3. QED
    BY <2>1, <2>2
<1>18. /\ u \in Unrepeated(Elements) /\ \A x : Contains(u, x) <=> Contains(with, x)
       /\ \A o \in Dialog : Precedes(with, Overlay(o), Wrapper(o)) => Precedes(u, Overlay(o), Wrapper(o))
       /\ Contains(with, Overlay(d)) => Precedes(u, Overlay(d), Wrapper(d))
  BY <1>15, <1>17, OverlaysStayUnder
<1>19. \A e \in Dialog : Wrapper(e) # Overlay(d) /\ (Overlay(e) = Overlay(d) <=> e = d)
  BY ElementsApart
<1>20. OverlaysUnder(new, u)
  <2>1. \A e \in Dialog : Contains(u, Wrapper(e)) <=> new[e].made
    BY <1>3, <1>12, <1>17, <1>18, <1>19 DEF OverlaysUnder
  <2>2. \A e \in Dialog : Contains(u, Overlay(e)) <=> new[e].isOpen /\ new[e].modal
    BY <1>3, <1>12, <1>17, <1>18, <1>19 DEF OverlaysUnder
  <2>3. \A e \in Dialog : Contains(u, Overlay(e)) => Precedes(u, Overlay(e), Wrapper(e))
    BY <1>3, <1>17, <1>18, <1>19 DEF OverlaysUnder
  <2>4. QED
    BY <1>18, <2>1, <2>2, <2>3 DEF OverlaysUnder
<1>21. dialogs' = new /\ stack' = u
  <2>1. stack' = u
    BY <1>2, <1>3, <1>14, <1>15 DEF OpenDialog
  <2>2. dialogs' = new
    BY <1>2, <1>3, <1>4, <1>6, <1>7, <1>8, <1>10, <1>11 DEF OpenDialog, Toggled
  <2>3. QED
    BY <2>1, <2>2
<1>22. Overlays \in SUBSET Dialog /\ d \notin Overlays
  BY <1>2, <1>16 DEF Overlays
<1>23. Overlays' = IF ds[d].modal THEN Overlays \union {d} ELSE Overlays
  BY <1>2, <1>17, <1>18, <1>19, <1>21 DEF Overlays
<1>24. focus' \in {d, focus}
  BY <1>3, <1>2 DEF OpenDialog
<1>25. focus' \in Focuses /\ (focus' = "page" => focus = "page")
  BY <1>24, DialogAssumption DEF Focuses, DialogInv, DialogShape
<1>26. /\ focusedEarly' \in BOOLEAN /\ (focusedEarly => focusedEarly')
       /\ focus' = "page" /\ Overlays' # {} /\ ~focusKept' => focusedEarly'
  BY FocusNoted DEF OpenDialog
<1>27. opener' \in [Dialog -> Focuses]
  <2>1. opener' = [opener EXCEPT ![d] = focus]
    BY <1>2, <1>3 DEF OpenDialog
  <2>2. QED
    BY <2>1 DEF DialogInv, DialogShape
<1>28. OverlayCreated(d)
  BY <1>2, <1>3 DEF OpenDialog
<1>29. openingsLeft \in Nat /\ openingsLeft > 0 /\ openingsLeft' = openingsLeft - 1 /\ openingsLeft' \in Nat
  BY DEF OpenDialog, DialogInv, DialogShape
<1>30. overlayInstances \in Nat /\ focusTimers \in Nat /\ overlayInstances = Cardinality(Overlays) /\ focusKept \in BOOLEAN
  BY DEF DialogInv, DialogShape
<1>31. overlayInstances = 0 <=> Overlays = {}
  BY <1>22, <1>30, OverlayCount
<1>32. CASE ds[d].modal
  <2>1. /\ overlayInstances' = overlayInstances + 1
        /\ focusTimers' = focusTimers + IF overlayInstances = 0 THEN 1 ELSE 0
    BY <1>2, <1>28, <1>32 DEF OverlayCreated
  <2>2. overlayInstances' = Cardinality(Overlays')
    <3>1. Cardinality(Overlays \union {d}) = Cardinality(Overlays) + 1
      BY <1>22, OverlayCount
    <3>2. QED
      BY <1>23, <1>30, <1>32, <2>1, <3>1
  <2>3. FocusHeld'
    <3>1. focusTimers' = 0 => focusTimers = 0 /\ Overlays # {}
      BY <1>30, <1>31, <2>1
    <3>2. QED
      BY <1>1, <1>23, <1>25, <1>26, <3>1 DEF DialogInv, FocusHeld
  <2>4. DialogShape'
    <3>1. /\ overlayInstances' \in Nat /\ focusTimers' \in Nat /\ overlayInstances' + openingsLeft' <= MaxOpenings
          /\ focusTimers' + openingsLeft' <= MaxOpenings
      BY <1>29, <1>30, <2>1, DialogAssumption DEF DialogInv, DialogShape
    <3>2. QED
      BY <1>1, <1>25, <1>26, <1>27, <1>29, <3>1 DEF DialogInv, DialogShape
  <2>5. QED
    BY <1>13, <1>20, <1>21, <2>2, <2>3, <2>4 DEF DialogInv
<1>33. CASE ~ds[d].modal
  <2>1. overlayInstances' = overlayInstances /\ focusTimers' = focusTimers
    BY <1>2, <1>28, <1>33 DEF OverlayCreated
  <2>2. overlayInstances' = Cardinality(Overlays')
    BY <1>23, <1>30, <1>33, <2>1
  <2>3. FocusHeld'
    BY <1>1, <1>23, <1>25, <1>26, <1>33, <2>1 DEF DialogInv, FocusHeld
  <2>4. DialogShape'
    <3>1. /\ overlayInstances' \in Nat /\ focusTimers' \in Nat /\ overlayInstances' + openingsLeft' <= MaxOpenings
          /\ focusTimers' + openingsLeft' <= MaxOpenings
      BY <1>29, <1>30, <2>1, DialogAssumption DEF DialogInv, DialogShape
    <3>2. QED
      BY <1>1, <1>25, <1>26, <1>27, <1>29, <3>1 DEF DialogInv, DialogShape
  <2>5. QED
    BY <1>13, <1>20, <1>21, <2>2, <2>3, <2>4 DEF DialogInv
<1>34. QED
  BY <1>32, <1>33

LEMMA DialogInvHolds == DialogSpec => []DialogInv
<1>1. DialogInv /\ [DialogNext]_dialogVars => DialogInv'
  <2>1. SUFFICES ASSUME DialogInv, [DialogNext]_dialogVars PROVE DialogInv'
    OBVIOUS
  <2>2. CASE UNCHANGED dialogVars
    BY <2>1, <2>2 DEF dialogVars, DialogInv, DialogShape, FocusHeld, Overlays
  <2>3. ASSUME NEW d \in Dialog, NEW modal \in BOOLEAN, NEW fades \in BOOLEAN, CreateDialog(d, modal, fades)
        PROVE  DialogInv'
    BY <2>1, <2>3, CreateKept
  <2>4. ASSUME NEW d \in Dialog, OpenDialog(d) PROVE DialogInv'
    BY <2>1, <2>4, OpenKept, RaiseKept
  <2>5. ASSUME NEW d \in Dialog, CloseDialog(d) PROVE DialogInv'
    BY <2>1, <2>5, CloseKept
  <2>6. ASSUME NEW d \in Dialog, DestroyDialog(d) PROVE DialogInv'
    BY <2>1, <2>6, DestroyKept
  <2>7. ASSUME NEW d \in Dialog, EffectEnds(d) PROVE DialogInv'
    BY <2>1, <2>7, EffectKept
  <2>8. ASSUME NEW d \in Dialog, MouseDown(d) PROVE DialogInv'
    BY <2>1, <2>8, MouseDownKept
  <2>9. ASSUME NEW d \in Dialog, DragDialog(d) \/ DragDialogEnds(d) PROVE DialogInv'
    BY <2>1, <2>9, DragsKept
  <2>10. FocusTimer \/ PageFocus => DialogInv'
    BY <2>1, TimerKept, PageFocusKept
  <2>11. QED
    BY <2>1, <2>2, <2>3, <2>4, <2>5, <2>6, <2>7, <2>8, <2>9, <2>10 DEF DialogNext
<1>2. QED
  BY <1>1, DialogStarts, PTL DEF DialogSpec

\* The places of an overlay and of its dialog, as the property names them.
LEMMA PlacesPrecede ==
  ASSUME NEW st \in Unrepeated(Elements), NEW x, NEW y, Precedes(st, x, y)
  PROVE  Where(st, x) < Where(st, y)
<1>1. PICK i, j \in 1..Len(st) : i < j /\ st[i] = x /\ st[j] = y
  BY DEF Precedes
<1>2. Where(st, st[i]) = i /\ Where(st, st[j]) = j
  BY WhereOnly
<1>3. QED
  BY <1>1, <1>2

\* Overlays are in the document for the open modal dialogs, counted and each
\* under its dialog, and the focus is kept in the dialogs while there is one
\* (OverlaysHold), for any dialogs, openings and effects in their queues.
THEOREM OverlaysKept == DialogSpec => []OverlaysHold
<1>1. DialogInv => OverlaysHold
  <2>1. SUFFICES ASSUME DialogInv PROVE OverlaysHold
    OBVIOUS
  <2>2. stack \in Unrepeated(Elements) /\ OverlaysUnder(dialogs, stack)
    BY <2>1 DEF DialogInv, OverlaysUnder
  <2>3. Overlays = {d \in Dialog : dialogs[d].isOpen /\ dialogs[d].modal}
    BY <2>2, OverlaysAre DEF Overlays
  <2>4. \A d \in Overlays : SelectInSeq(stack, LAMBDA e : e = Overlay(d)) < SelectInSeq(stack, LAMBDA e : e = Wrapper(d))
    <3>1. SUFFICES ASSUME NEW d \in Dialog, Contains(stack, Overlay(d))
                   PROVE  Where(stack, Overlay(d)) < Where(stack, Wrapper(d))
      BY DEF Overlays, Where
    <3>2. Precedes(stack, Overlay(d), Wrapper(d))
      BY <2>2, <3>1 DEF OverlaysUnder
    <3>3. QED
      BY <2>2, <3>2, PlacesPrecede
  <2>5. overlayInstances = Cardinality(Overlays)
    BY <2>1 DEF DialogInv
  <2>6. /\ focusTimers = 0 => (focusKept <=> Overlays # {})
        /\ focusTimers = 0 /\ ~focusedEarly /\ Overlays # {} => focus # "page"
    BY <2>1 DEF DialogInv, FocusHeld
  <2>7. QED
    BY <2>3, <2>4, <2>5, <2>6 DEF OverlaysHold
<1>2. QED
  BY <1>1, DialogInvHolds, PTL

-----------------------------------------------------------------------------
(* The types of the tables, the dialogs and the lists that are sorted.      *)

LEMMA TableTyped == TableShape => TableTypeOK
<1>1. SUFFICES ASSUME TableShape PROVE TableTypeOK
  OBVIOUS
<1>2. /\ view.html \in [Place -> Content] /\ view.saved \in [Place -> Content \union {"none"}]
      /\ view.checked \subseteq Row /\ view.disabled \subseteq Row
  BY <1>1 DEF TableShape, TableViews
<1>3. ToSet(dbRows) \subseteq Row
  <2>1. dbRows \in Seq(Row)
    BY <1>1 DEF TableShape, Unrepeated
  <2>. QED
    BY <2>1, InSet
<1>. QED
  BY <1>1, <1>2, <1>3 DEF TableShape, TableTypeOK

LEMMA TableTypes == TableSpec => []TableTypeOK
<1>1. TableInit => TableSafe
  BY SafeStarts, TableStarts
<1>2. TableSafe /\ [TableNext]_tableVars => TableSafe'
  BY SafeKept
<1>3. TableSafe => TableTypeOK
  BY TableTyped DEF TableSafe
<1>. QED
  BY <1>1, <1>2, <1>3, PTL DEF TableSpec

LEMMA DialogTyped == DialogInv => DialogTypeOK
<1>1. SUFFICES ASSUME DialogInv PROVE DialogTypeOK
  OBVIOUS
<1>2. \A d \in Dialog : dialogs[d].isOpen \in BOOLEAN /\ dialogs[d].visible \in BOOLEAN
  <2>1. \A d \in Dialog : dialogs[d] \in DialogRec
    BY <1>1 DEF DialogInv, DialogsKnown
  <2>. QED
    BY <2>1 DEF DialogRec
<1>3. focusTimers \in 0..MaxOpenings /\ overlayInstances \in 0..MaxOpenings
  <2>1. /\ focusTimers \in Nat /\ openingsLeft \in Nat /\ overlayInstances \in Nat /\ MaxOpenings \in Nat
        /\ overlayInstances + openingsLeft <= MaxOpenings /\ focusTimers + openingsLeft <= MaxOpenings
    BY <1>1, DialogAssumption DEF DialogInv, DialogShape
  <2>. QED
    BY <2>1
<1>. QED
  BY <1>1, <1>2, <1>3 DEF DialogInv, DialogShape, Focuses, DialogTypeOK

LEMMA DialogTypes == DialogSpec => []DialogTypeOK
BY DialogInvHolds, DialogTyped, PTL

\* Lists with one placeholder at most: what they hold when cancel() was called, too.
Placing == {d \in Seq(ItemP) : \A j, k \in 1..Len(d) : d[j] = Placeholder /\ d[k] = Placeholder => j = k}

LEMMA OnlyItems ==
  ASSUME NEW d \in Seq(ItemP), \A k \in 1..Len(d) : d[k] # Placeholder
  PROVE  d \in Seq(Item)
<1>1. \A k \in 1..Len(d) : d[k] \in Item
  BY DEF ItemP
<1>2. d \in [1..Len(d) -> Item] /\ Len(d) \in Nat
  BY <1>1
<1>. QED
  BY <1>2, SeqDef

LEMMA PlaceGone ==
  ASSUME NEW d \in Placing
  PROVE  RemoveFirst(d, Placeholder) \in Seq(Item)
<1>1. d \in Seq(ItemP) /\ Len(d) \in Nat
  BY DEF Placing
<1>2. PICK u : u = RemoveFirst(d, Placeholder)
  OBVIOUS
<1>3. CASE Contains(d, Placeholder)
  <2>1. PICK n \in 1..Len(d) : n = Where(d, Placeholder) /\ d[n] = Placeholder
    BY <1>1, <1>3, WhereIs
  <2>2. u = RemoveAt(d, n)
    BY <1>1, <1>2, <1>3, <2>1, RemovedFirst
  <2>3. u \in Seq(ItemP) /\ Len(u) = Len(d) - 1
        /\ \A j \in 1..(Len(d) - 1) : u[j] = IF j < n THEN d[j] ELSE d[j + 1]
    BY <1>1, <2>2, RemoveAtTakesOut DEF TakesOut
  <2>4. \A k \in 1..Len(d) : d[k] = Placeholder => k = n
    BY <2>1 DEF Placing
  <2>5. ASSUME NEW j \in 1..Len(u) PROVE u[j] # Placeholder
    <3>1. CASE j < n
      <4>1. j \in 1..Len(d) /\ u[j] = d[j] /\ j # n
        BY <1>1, <2>1, <2>3, <3>1
      <4>. QED
        BY <2>4, <4>1
    <3>2. CASE ~(j < n)
      <4>1. j + 1 \in 1..Len(d) /\ u[j] = d[j + 1] /\ j + 1 # n
        BY <1>1, <2>1, <2>3, <3>2
      <4>. QED
        BY <2>4, <4>1
    <3>. QED
      BY <3>1, <3>2
  <2>. QED
    BY <1>2, <2>3, <2>5, OnlyItems
<1>4. CASE ~Contains(d, Placeholder)
  <2>1. u = d
    BY <1>1, <1>2, <1>4, RemovedFirst
  <2>2. \A k \in 1..Len(d) : d[k] # Placeholder
    BY <1>1, <1>4 DEF Contains
  <2>. QED
    BY <1>1, <1>2, <2>1, <2>2, OnlyItems
<1>. QED
  BY <1>3, <1>4

LEMMA ItemsPlacing ==
  ASSUME NEW t \in Seq(Item)
  PROVE  t \in Placing
<1>1. \A k \in 1..Len(t) : t[k] \in Item
  OBVIOUS
<1>2. t \in Seq(ItemP)
  BY DEF ItemP
<1>. QED
  BY <1>1, <1>2, ItemsApart DEF Placing

LEMMA PlaceAdded ==
  ASSUME NEW t \in Seq(Item), NEW n \in 1..(Len(t) + 1)
  PROVE  InsertAt(t, n, Placeholder) \in Placing
<1>1. t \in Seq(ItemP) /\ Placeholder \in ItemP /\ Len(t) \in Nat
  BY DEF ItemP
<1>2. PICK u : u = InsertAt(t, n, Placeholder)
  OBVIOUS
<1>3. u \in Seq(ItemP) /\ Len(u) = Len(t) + 1
      /\ \A j \in 1..(Len(t) + 1) : u[j] = IF j < n THEN t[j] ELSE IF j = n THEN Placeholder ELSE t[j - 1]
  <2>1. InsertAt(t, n, Placeholder) \in Seq(ItemP) /\ Len(InsertAt(t, n, Placeholder)) = Len(t) + 1
        /\ PutsIn(t, Len(t), n, Placeholder, InsertAt(t, n, Placeholder))
    BY <1>1, InsertAtPutsIn
  <2>2. u \in Seq(ItemP) /\ Len(u) = Len(t) + 1 /\ PutsIn(t, Len(t), n, Placeholder, u)
    BY <1>2, <2>1
  <2>. QED
    BY <2>2 DEF PutsIn
<1>4. ASSUME NEW j \in 1..Len(u), u[j] = Placeholder PROVE j = n
  <2>1. \A k \in 1..Len(t) : t[k] # Placeholder
    BY ItemsApart
  <2>2. CASE j < n
    <3>1. j \in 1..Len(t) /\ u[j] = t[j]
      BY <1>1, <1>3, <2>2
    <3>. QED
      BY <1>4, <2>1, <3>1
  <2>3. CASE j > n
    <3>1. j - 1 \in 1..Len(t) /\ u[j] = t[j - 1]
      BY <1>1, <1>3, <2>3
    <3>. QED
      BY <1>4, <2>1, <3>1
  <2>. QED
    BY <1>1, <1>3, <2>2, <2>3
<1>. QED
  BY <1>2, <1>3, <1>4 DEF Placing

SortTypes ==
    /\ dom \in [Containers -> Placing] /\ toldOrder \in [Containers -> Seq(Item)]
    /\ redrawsLeft \in 0..MaxRedraws
    /\ IF sorting.on THEN sorting \in Drags ELSE sorting = NotSorting /\ dom \in [Containers -> Seq(Item)]

\* What is let go are items.
LEMMA TakenItems ==
  ASSUME SortTypes, sorting.on
  PROVE  Taken \in [Containers -> Seq(Item)] /\ Without(Placeholder) \in [Containers -> Seq(Item)]
<1>1. dom \in [Containers -> Placing] /\ sorting.item \in Item
  BY DEF SortTypes, Drags
<1>2. Without(Placeholder) \in [Containers -> Seq(Item)]
  BY <1>1, PlaceGone DEF Without
<1>3. PICK i \in Item : i = sorting.item
  BY <1>1
<1> DEFINE kept(c) == RemoveFirst(dom[c], i)
           filled(c) == [k \in DOMAIN kept(c) |-> IF kept(c)[k] = Placeholder THEN i ELSE kept(c)[k]]
<1>4. ASSUME NEW c \in Containers PROVE filled(c) \in Seq(Item)
  <2>1. PICK r \in Seq(ItemP) : r = kept(c)
    BY <1>1, RemovedFirst DEF Placing
  <2>2. DOMAIN r = 1..Len(r) /\ Len(r) \in Nat
    BY <2>1
  <2>3. \A k \in 1..Len(r) : (IF r[k] = Placeholder THEN i ELSE r[k]) \in Item
    BY <2>1 DEF ItemP
  <2>4. [k \in 1..Len(r) |-> IF r[k] = Placeholder THEN i ELSE r[k]] \in [1..Len(r) -> Item]
    BY <2>3
  <2>. QED
    BY <2>1, <2>2, <2>4, SeqDef
<1>5. ~sorting.detached => Taken = [c \in Containers |-> filled(c)]
  BY <1>3 DEF Taken
<1> HIDE DEF filled
<1>6. CASE sorting.detached
  BY <1>2, <1>6 DEF Taken
<1>7. CASE ~sorting.detached
  BY <1>2, <1>4, <1>5, <1>7
<1>. QED
  BY <1>2, <1>6, <1>7

LEMMA ToldTyped ==
  ASSUME SortTypes, sorting.on, NEW b \in BOOLEAN, NEW S, NEW t,
         t = IF b THEN [x \in Containers |-> IF x \in S THEN Taken[x] ELSE toldOrder[x]] ELSE toldOrder
  PROVE  t \in [Containers -> Seq(Item)]
<1>1. Taken \in [Containers -> Seq(Item)] /\ toldOrder \in [Containers -> Seq(Item)]
  BY TakenItems DEF SortTypes
<1>. QED
  BY <1>1

LEMMA SortTypesStep ==
  ASSUME SortTypes, [SortNext]_sortVars
  PROVE  SortTypes'
<1>1. /\ dom \in [Containers -> Placing] /\ toldOrder \in [Containers -> Seq(Item)]
      /\ redrawsLeft \in 0..MaxRedraws /\ MaxRedraws \in Nat
  BY SortAssumption DEF SortTypes
<1>2. CASE UNCHANGED sortVars
  BY <1>2 DEF sortVars, SortTypes
<1>3. ASSUME NEW c \in Containers, NEW i \in Item, StartSort(c, i) PROVE SortTypes'
  <2>1. PICK t \in Seq(Item) : t = dom[c]
    BY <1>3 DEF SortTypes, StartSort
  <2>2. Contains(t, i) /\ UNCHANGED <<toldOrder, redrawsLeft>>
        /\ dom' = [dom EXCEPT ![c] = InsertAt(t, Where(t, i) + 1, Placeholder)]
    BY <1>1, <1>3, <2>1 DEF StartSort, Where
  <2>3. Where(t, i) \in 1..Len(t)
    BY <2>1, <2>2, WhereIs
  <2>4. InsertAt(t, Where(t, i) + 1, Placeholder) \in Placing
    <3>1. Where(t, i) + 1 \in 1..(Len(t) + 1)
      BY <2>1, <2>3
    <3>. QED
      BY <2>1, <3>1, PlaceAdded
  <2>5. PICK p : p = PrevOf(t, i)
    OBVIOUS
  <2>6. p \in Item \union {"none"}
    <3>1. Where(t, i) # 1 => Where(t, i) - 1 \in 1..Len(t)
      BY <2>1, <2>3
    <3>2. p = IF Where(t, i) = 1 THEN "none" ELSE t[Where(t, i) - 1]
      BY <2>5 DEF PrevOf, Where
    <3>. QED
      BY <2>1, <3>1, <3>2
  <2>7. sorting' = [on |-> TRUE, item |-> i, parent |-> c, prev |-> p, reverting |-> FALSE,
                    detached |-> FALSE, stale |-> {}]
    BY <1>3, <2>1, <2>5 DEF StartSort
  <2>8. sorting' \in Drags
    BY <2>6, <2>7 DEF Drags
  <2>9. sorting'.on
    BY <2>8 DEF Drags
  <2>10. dom' \in [Containers -> Placing]
    BY <1>1, <2>2, <2>4
  <2>. QED
    BY <1>1, <2>2, <2>8, <2>9, <2>10 DEF SortTypes
<1>4. ASSUME NEW c \in Containers, NEW k, Rearrange(c, k) PROVE SortTypes'
  <2>1. sorting.on /\ UNCHANGED <<sorting, toldOrder, redrawsLeft>>
        /\ k \in 1..(Len(Without(Placeholder)[c]) + 1)
        /\ dom' = [Without(Placeholder) EXCEPT ![c] = InsertAt(@, k, Placeholder)]
    BY <1>4 DEF Rearrange
  <2>2. PICK w \in [Containers -> Seq(Item)] : w = Without(Placeholder)
    BY <2>1, TakenItems
  <2>3. InsertAt(w[c], k, Placeholder) \in Placing /\ \A x \in Containers : w[x] \in Placing
    BY <2>1, <2>2, PlaceAdded, ItemsPlacing
  <2>4. dom' \in [Containers -> Placing]
    BY <2>1, <2>2, <2>3
  <2>. QED
    BY <1>1, <2>1, <2>4 DEF SortTypes
<1>5. CASE Reverts
  <2>1. sorting \in Drags /\ sorting' = [sorting EXCEPT !.reverting = TRUE] /\ UNCHANGED <<dom, toldOrder, redrawsLeft>>
    BY <1>5 DEF Reverts, SortTypes
  <2>2. sorting' \in Drags
    BY <2>1 DEF Drags
  <2>3. sorting'.on
    BY <2>2 DEF Drags
  <2>. QED
    BY <1>1, <2>1, <2>2, <2>3 DEF SortTypes
<1>6. CASE StopSort
  <2>1. sorting.on /\ Clear /\ sorting' = NotSorting /\ redrawsLeft' = redrawsLeft
    BY <1>6 DEF StopSort
  <2>2. dom' \in [Containers -> Seq(Item)] /\ toldOrder' \in [Containers -> Seq(Item)]
    <3>1. CASE ~Attached
      <4>1. dom' = dom /\ toldOrder' = toldOrder
        BY <2>1, <3>1 DEF Clear
      <4>2. \A c \in Containers : ~Contains(dom[c], Placeholder)
        BY <3>1 DEF Attached, HasPlaceholder
      <4>3. ASSUME NEW c \in Containers PROVE dom[c] \in Seq(Item)
        <5>1. dom[c] \in Seq(ItemP) /\ dom[c] \in Placing
          BY <1>1 DEF Placing
        <5>2. RemoveFirst(dom[c], Placeholder) = dom[c]
          BY <4>2, <5>1, RemovedFirst
        <5>3. RemoveFirst(dom[c], Placeholder) \in Seq(Item)
          BY <5>1, PlaceGone
        <5>. QED
          BY <5>2, <5>3
      <4>. QED
        BY <1>1, <4>1, <4>3
    <3>2. CASE Attached
      <4>1. dom' = Taken /\ \E b \in BOOLEAN : \E S :
                toldOrder' = IF b THEN [x \in Containers |-> IF x \in S THEN Taken[x] ELSE toldOrder[x]] ELSE toldOrder
        <5>1. PICK c : c = CHOOSE x \in Containers : HasPlaceholder(x)
          OBVIOUS
        <5>2. /\ dom' = Taken
              /\ toldOrder' = IF SortChanged(Taken, c)
                              THEN [x \in Containers |-> IF x \in Informed(c) THEN Taken[x] ELSE toldOrder[x]]
                              ELSE toldOrder
          BY <2>1, <3>2, <5>1 DEF Clear
        <5>3. PICK b \in BOOLEAN : b <=> SortChanged(Taken, c)
          OBVIOUS
        <5>. QED
          BY <5>2, <5>3
      <4>. QED
        BY <2>1, <4>1, ToldTyped, TakenItems
    <3>. QED
      BY <3>1, <3>2
  <2>3. dom' \in [Containers -> Placing]
    BY <2>2, ItemsPlacing
  <2>4. ~sorting'.on
    BY <2>1 DEF NotSorting
  <2>. QED
    BY <1>1, <2>1, <2>2, <2>3, <2>4 DEF SortTypes
<1>7. CASE CancelSort
  <2>1. sorting.on /\ sorting' = NotSorting /\ redrawsLeft' = redrawsLeft
    BY <1>7 DEF CancelSort
  <2>2. PICK i : i = sorting.item
    OBVIOUS
  <2>3. PICK p : p = sorting.parent
    OBVIOUS
  <2>4. i \in Item /\ p \in Containers
    BY <2>1, <2>2, <2>3 DEF SortTypes, Drags
  <2>5. PICK c : c = CHOOSE x \in Containers : HasPlaceholder(x)
    OBVIOUS
  <2>6. PICK rest : rest = [x \in Containers |-> RemoveFirst(Taken[x], i)]
    OBVIOUS
  <2>7. PICK at : at = IF sorting.prev = "none" THEN 1 ELSE Where(rest[p], sorting.prev) + 1
    OBVIOUS
  <2>8. /\ toldOrder' = IF SortChanged(Taken, c)
                        THEN [x \in Containers |-> IF x \in Informed(c) THEN Taken[x] ELSE toldOrder[x]]
                        ELSE toldOrder
        /\ dom' = [rest EXCEPT ![p] = InsertAt(@, at, i)]
    BY <1>7, <2>2, <2>3, <2>5, <2>6, <2>7 DEF CancelSort, Where
  <2>9. toldOrder' \in [Containers -> Seq(Item)]
    <3>1. PICK b \in BOOLEAN : b <=> SortChanged(Taken, c)
      OBVIOUS
    <3>. QED
      BY <2>1, <2>8, <3>1, ToldTyped
  <2>10. rest \in [Containers -> Seq(Item)]
    BY <2>1, <2>6, TakenItems, RemovedFirst
  <2>11. at \in 1..(Len(rest[p]) + 1)
    <3>1. rest[p] \in Seq(Item) /\ Len(rest[p]) \in Nat
      BY <2>4, <2>10
    <3>2. Where(rest[p], sorting.prev) \in 0..Len(rest[p])
      BY <3>1, WhereIs
    <3>. QED
      BY <2>7, <3>1, <3>2
  <2>12. InsertAt(rest[p], at, i) \in Seq(Item)
    BY <2>4, <2>10, <2>11, InsertAtPutsIn
  <2>13. dom' \in [Containers -> Seq(Item)]
    BY <2>4, <2>8, <2>10, <2>12
  <2>14. dom' \in [Containers -> Placing]
    BY <2>13, ItemsPlacing
  <2>15. ~sorting'.on
    BY <2>1 DEF NotSorting
  <2>. QED
    BY <1>1, <2>1, <2>9, <2>13, <2>14, <2>15 DEF SortTypes
<1>8. ASSUME NEW c \in Containers, Redraw(c) PROVE SortTypes'
  <2>1. /\ redrawsLeft > 0 /\ redrawsLeft' = redrawsLeft - 1 /\ toldOrder' = toldOrder
        /\ dom' = [dom EXCEPT ![c] = toldOrder[c]]
        /\ sorting' = IF sorting.on
                      THEN [sorting EXCEPT !.stale = @ \union {c}, !.detached = @ \/ c = sorting.parent]
                      ELSE sorting
    BY <1>8 DEF Redraw
  <2>2. toldOrder[c] \in Placing /\ toldOrder[c] \in Seq(Item)
    BY <1>1, ItemsPlacing
  <2>3. dom' \in [Containers -> Placing] /\ redrawsLeft' \in 0..MaxRedraws
    BY <1>1, <2>1, <2>2
  <2>4. CASE sorting.on
    <3>1. sorting \in Drags
      BY <2>4 DEF SortTypes
    <3>2. sorting' \in Drags
      BY <2>1, <2>4, <3>1 DEF Drags
    <3>3. sorting'.on
      BY <3>2 DEF Drags
    <3>. QED
      BY <1>1, <2>1, <2>3, <3>2, <3>3 DEF SortTypes
  <2>5. CASE ~sorting.on
    <3>1. sorting = NotSorting /\ dom \in [Containers -> Seq(Item)]
      BY <1>1, <2>5 DEF SortTypes
    <3>4. sorting' = sorting
      BY <2>1, <2>5
    <3>5. dom' \in [Containers -> Seq(Item)]
      BY <2>1, <2>2, <3>1
    <3>2. ~sorting'.on /\ dom' \in [Containers -> Seq(Item)]
      BY <2>5, <3>4, <3>5
    <3>. QED
      BY <1>1, <2>1, <2>3, <3>1, <3>2, <3>4 DEF SortTypes
  <2>. QED
    BY <2>4, <2>5
<1>. QED
  BY <1>2, <1>3, <1>4, <1>5, <1>6, <1>7, <1>8 DEF SortNext

LEMMA SortTyped == SortSpec => []SortTypeOK
<1>1. SortInit => SortTypes
  <2>1. SUFFICES ASSUME SortInit PROVE SortTypes
    OBVIOUS
  <2>2. PICK f \in Seq(Item) : f = SetToSeq(Item)
    BY ItemsInSequence DEF Unrepeated
  <2>3. dom = [c \in Containers |-> IF c = "dashboard1" THEN f ELSE <<>>] /\ toldOrder = dom
    BY <2>1, <2>2 DEF SortInit
  <2>4. dom \in [Containers -> Seq(Item)]
    BY <2>2, <2>3
  <2>5. dom \in [Containers -> Placing]
    BY <2>4, ItemsPlacing
  <2>6. sorting = NotSorting /\ ~sorting.on /\ redrawsLeft = MaxRedraws
    BY <2>1 DEF SortInit, NotSorting
  <2>. QED
    BY <2>3, <2>4, <2>5, <2>6, SortAssumption DEF SortTypes
<1>2. SortTypes => SortTypeOK
  BY DEF SortTypes, SortTypeOK, Placing, ItemP
<1>. QED
  BY <1>1, <1>2, SortTypesStep, PTL DEF SortSpec
=============================================================================
