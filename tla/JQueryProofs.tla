---------------------------- MODULE JQueryProofs ----------------------------
(***************************************************************************)
(* Proofs about jQuery: requests, deferreds, effects, events and data; and *)
(* about the graphs drawn with Flot.                                       *)
(***************************************************************************)
EXTENDS JQueryAjax, JQueryDeferred, JQueryEffects, JQueryEvents, JQueryData, FlotGraph, Integers, TLAPS,
        FiniteSetTheorems, SequenceTheorems, WellFoundedInduction

-----------------------------------------------------------------------------
(* Stacks: sequences that grow and shrink at their end.                    *)

LEMMA Pushed ==
  ASSUME NEW S, NEW s \in Seq(S), NEW e \in S
  PROVE  /\ Append(s, e) \in Seq(S) /\ Len(Append(s, e)) = Len(s) + 1 /\ Len(s) \in Nat
         /\ \A i \in 1..Len(s) : Append(s, e)[i] = s[i]
         /\ Append(s, e)[Len(s) + 1] = e
BY AppendProperties, LenProperties

LEMMA PoppedOff ==
  ASSUME NEW S, NEW s \in Seq(S), s # <<>>
  PROVE  /\ Len(s) \in Nat \ {0} /\ s[Len(s)] \in S
         /\ SubSeq(s, 1, Len(s) - 1) \in Seq(S) /\ Len(SubSeq(s, 1, Len(s) - 1)) = Len(s) - 1
         /\ \A i \in 1..(Len(s) - 1) : SubSeq(s, 1, Len(s) - 1)[i] = s[i]
<1>1. Len(s) \in Nat \ {0}
  BY LenProperties, EmptySeq
<1>2. s[Len(s)] \in S
  BY <1>1, ElementOfSeq
<1>3. QED
  BY <1>1, <1>2, SubSeqProperties

LEMMA OneByOne ==
  ASSUME NEW a, NEW b
  PROVE  Append(<<>>, a) = <<a>> /\ Append(<<a>>, b) = <<a, b>>
<1> DEFINE s == Append(<<>>, a)
           t == <<a>>
           u == Append(t, b)
           v == <<a, b>>
<1>1. /\ s \in Seq({a, b}) /\ Len(s) = 1 /\ s[1] = a
      /\ t \in Seq({a, b}) /\ Len(t) = 1 /\ t[1] = a
      /\ v \in Seq({a, b}) /\ Len(v) = 2 /\ v[1] = a /\ v[2] = b
  <2>1. <<>> \in Seq({a, b}) /\ Len(<<>>) = 0
    OBVIOUS
  <2>2. s \in Seq({a, b}) /\ Len(s) = 1 /\ s[1] = a
    BY <2>1, AppendProperties
  <2>3. QED
    BY <2>2
<1> HIDE DEF s, t, v
<1>2. u \in Seq({a, b}) /\ Len(u) = 2 /\ u[1] = a /\ u[2] = b
  <2>1. /\ Append(t, b) \in Seq({a, b}) /\ Len(Append(t, b)) = Len(t) + 1
        /\ \A i \in 1..Len(t) : Append(t, b)[i] = t[i]
        /\ Append(t, b)[Len(t) + 1] = b
    <3> DEFINE S == {a, b}
    <3>1. t \in Seq(S) /\ b \in S
      BY <1>1
    <3> HIDE DEF S
    <3>2. QED
      BY <3>1, AppendProperties DEF S
  <2>2. QED
    BY <1>1, <2>1
<1> HIDE DEF u
<1>3. s = t /\ u = v
  BY <1>1, <1>2, SeqEqual
<1>4. QED
  BY <1>3 DEF s, t, u, v

-----------------------------------------------------------------------------
(* Requests, for any finite set of them.                                   *)

AjaxRecord == [state : {1, 2, Unmade}, counted : BOOLEAN, transport : BOOLEAN, timer : BOOLEAN,
               installed : BOOLEAN]
DoneCall == [request : Ajax, at : {"settle", "complete"}]
ToldFirst == {<<"success">>, <<"error">>}
ToldAll == {<<"success", "complete">>, <<"error", "complete">>}

AjaxShape ==
    /\ jqXHR \in [Ajax -> AjaxRecord] /\ active \in Int /\ doneStack \in Seq(DoneCall)
    /\ ajaxTold \in [Ajax -> {<<>>} \union ToldFirst \union ToldAll] /\ ajaxThrown \in BOOLEAN

\* A request calls done() at most once at a time.
DonesApart ==
    \A i, j \in 1..Len(doneStack) : doneStack[i].request = doneStack[j].request => i = j

InDone(r) == \E i \in 1..Len(doneStack) : doneStack[i].request = r

\* How far a request is, by its state and its call of done().
RequestKept(r) ==
    /\ jqXHR[r].state = Unmade => /\ ~jqXHR[r].installed /\ ~jqXHR[r].counted
    /\ jqXHR[r].transport \/ jqXHR[r].timer => jqXHR[r].state = 1
    /\ jqXHR[r].state = 1 => jqXHR[r].installed /\ jqXHR[r].counted
    /\ jqXHR[r].state # 2 \/ ~jqXHR[r].installed => ajaxTold[r] = <<>>
    /\ jqXHR[r].state # 2 => ~InDone(r)
    /\ jqXHR[r].state = 2 /\ jqXHR[r].installed /\ ~ajaxThrown /\ ~InDone(r) => ajaxTold[r] \in ToldAll

DoneKept(i) ==
    jqXHR[doneStack[i].request].installed =>
        ajaxTold[doneStack[i].request] \in IF doneStack[i].at = "settle" THEN ToldFirst ELSE ToldAll

Live == Counted \ Ended

\* A callback that throws may leave active too large, never too small.
ActiveFits == Cardinality(Live) <= active /\ active <= Cardinality(Counted)

AjaxInv ==
    /\ AjaxShape /\ DonesApart /\ ActiveFits
    /\ \A r \in Ajax : RequestKept(r)
    /\ \A i \in 1..Len(doneStack) : DoneKept(i)
    /\ ~ajaxThrown => active = Cardinality(Live)

LEMMA EndedIs == ASSUME AjaxShape PROVE Ended = {r \in Ajax : jqXHR[r].state = 2 /\ ~InDone(r)}
<1>1. DOMAIN doneStack = 1..Len(doneStack)
  BY LenProperties DEF AjaxShape
<1>2. QED
  BY <1>1 DEF Ended, InDone

LEMMA InDoneIs == ASSUME AjaxShape, NEW i \in 1..Len(doneStack)
  PROVE doneStack[i] \in DoneCall /\ doneStack[i].request \in Ajax /\ InDone(doneStack[i].request)
<1>1. doneStack[i] \in DoneCall
  BY ElementOfSeq DEF AjaxShape
<1>2. QED
  BY <1>1 DEF DoneCall, InDone

\* done() of a request that was sent: its transport or its timer calls, or the
\* page aborts it.
LEMMA DoneKeeps ==
  ASSUME AjaxInv, NEW r \in Ajax, NEW success \in BOOLEAN, jqXHR[r].state # Unmade, Done(r, success)
  PROVE  AjaxInv'
<1> DEFINE call == [request |-> r, at |-> "settle"]
           word == IF success THEN "success" ELSE "error"
           now == [jqXHR[r] EXCEPT !.state = 2, !.transport = FALSE, !.timer = FALSE]
<1>1. CASE jqXHR[r].state = 2
  <2>1. UNCHANGED ajaxVars
    BY <1>1 DEF Done, NotDone
  <2>2. QED
    BY <2>1 DEF ajaxVars, AjaxInv, AjaxShape, DonesApart, ActiveFits, RequestKept, InDone, DoneKept, Live, Counted, Ended
<1>2. CASE jqXHR[r].state = 1
  <2>1. /\ jqXHR \in [Ajax -> AjaxRecord] /\ doneStack \in Seq(DoneCall) /\ DonesApart
        /\ ajaxTold \in [Ajax -> {<<>>} \union ToldFirst \union ToldAll]
        /\ jqXHR[r].installed /\ jqXHR[r].counted /\ ajaxTold[r] = <<>> /\ ~InDone(r)
    BY <1>2 DEF AjaxInv, AjaxShape, RequestKept, Unmade
  <2>2. /\ jqXHR' = [jqXHR EXCEPT ![r] = now] /\ doneStack' = Append(doneStack, call)
        /\ ajaxTold' = [ajaxTold EXCEPT ![r] = Append(<<>>, word)]
        /\ UNCHANGED <<active, ajaxThrown>>
    <3>1. /\ jqXHR' = [jqXHR EXCEPT ![r].state = 2, ![r].transport = FALSE, ![r].timer = FALSE]
          /\ ajaxTold' = [ajaxTold EXCEPT ![r] = Append(@, word)]
          /\ doneStack' = Append(doneStack, call) /\ UNCHANGED <<active, ajaxThrown>>
      <4>1. NotDone(r)
        BY <1>2 DEF NotDone
      <4>2. Told(r, word, ajaxTold) = [ajaxTold EXCEPT ![r] = Append(@, word)]
        BY <2>1 DEF Told
      <4>3. QED
        BY <4>1, <4>2 DEF Done
    <3>2. jqXHR' = [jqXHR EXCEPT ![r] = now]
      BY <2>1, <3>1
    <3>3. QED
      BY <2>1, <3>1, <3>2
  <2>3. now \in AjaxRecord /\ now.state = 2 /\ now.installed /\ now.counted /\ ~now.transport /\ ~now.timer
    BY <2>1 DEF AjaxRecord
  <2>4. Append(<<>>, word) \in ToldFirst
    BY OneByOne DEF ToldFirst
  <2>5. /\ doneStack' \in Seq(DoneCall) /\ Len(doneStack') = Len(doneStack) + 1 /\ Len(doneStack) \in Nat
        /\ \A i \in 1..Len(doneStack) : doneStack'[i] = doneStack[i]
        /\ doneStack'[Len(doneStack) + 1] = call
    BY <2>1, <2>2, Pushed DEF DoneCall
  <2> HIDE DEF now, call
  <2>6. call.request = r /\ call.at = "settle"
    BY DEF call
  <2>7. AjaxShape'
    BY <2>1, <2>2, <2>3, <2>4, <2>5 DEF AjaxInv, AjaxShape
  <2>8. DonesApart'
    <3>1. ASSUME NEW i \in 1..Len(doneStack'), NEW j \in 1..Len(doneStack'),
                 doneStack'[i].request = doneStack'[j].request PROVE i = j
      <4>1. PICK len \in Nat : len = Len(doneStack) /\ len + 1 = Len(doneStack')
        BY <2>5
      <4>2. i \in 1..len \/ i = len + 1
        BY <4>1
      <4>3. j \in 1..len \/ j = len + 1
        BY <4>1
      <4>4. CASE i \in 1..len /\ j \in 1..len
        BY <2>1, <2>5, <3>1, <4>1, <4>4 DEF DonesApart
      <4>5. CASE i = len + 1 /\ j \in 1..len
        BY <2>1, <2>5, <2>6, <3>1, <4>1, <4>5 DEF InDone
      <4>6. CASE i \in 1..len /\ j = len + 1
        BY <2>1, <2>5, <2>6, <3>1, <4>1, <4>6 DEF InDone
      <4>7. QED
        BY <4>2, <4>3, <4>4, <4>5, <4>6
    <3>2. QED
      BY <3>1 DEF DonesApart
  <2>9. \A x \in Ajax : InDone(x)' <=> InDone(x) \/ x = r
    BY <2>5, <2>6 DEF InDone
  <2>10. ASSUME NEW x \in Ajax PROVE RequestKept(x)'
    <3>1. CASE x = r
      BY <2>1, <2>2, <2>3, <2>9, <3>1 DEF RequestKept, Unmade
    <3>2. CASE x # r
      BY <2>1, <2>2, <2>9, <3>2 DEF AjaxInv, RequestKept
    <3>3. QED
      BY <3>1, <3>2
  <2>11. ASSUME NEW i \in 1..Len(doneStack') PROVE DoneKept(i)'
    <3>1. CASE i = Len(doneStack) + 1
      BY <2>1, <2>2, <2>4, <2>5, <2>6, <3>1 DEF DoneKept
    <3>2. CASE i \in 1..Len(doneStack)
      <4>1. doneStack[i].request # r /\ doneStack[i].request \in Ajax
        BY <2>1, <3>2, InDoneIs DEF AjaxInv
      <4>2. QED
        BY <2>1, <2>2, <2>5, <3>2, <4>1 DEF AjaxInv, DoneKept
    <3>3. QED
      BY <2>5, <3>1, <3>2
  <2>12. Live' = Live /\ Counted' = Counted
    <3>1. Counted' = Counted
      BY <2>1, <2>2, <2>3 DEF Counted
    <3>2. Ended' = Ended
      <4>1. Ended' = {x \in Ajax : jqXHR'[x].state = 2 /\ ~InDone(x)'}
        BY <2>5 DEF Ended, InDone
      <4>2. \A x \in Ajax : x # r => jqXHR'[x].state = jqXHR[x].state
        BY <2>1, <2>2
      <4>3. QED
        BY <1>2, <2>9, <4>1, <4>2, EndedIs DEF AjaxInv
    <3>3. QED
      BY <3>1, <3>2 DEF Live
  <2>13. QED
    BY <2>2, <2>7, <2>8, <2>10, <2>11, <2>12 DEF AjaxInv, ActiveFits
<1>3. QED
  BY <1>1, <1>2 DEF AjaxInv, AjaxShape, AjaxRecord

LEMMA MadeKeeps ==
  ASSUME AjaxInv, IsFiniteSet(Ajax), NEW r \in Ajax, AjaxPrefiltered(r) \/ BeforeSendCancels(r) \/ Sends(r)
  PROVE  AjaxInv'
<1> DEFINE call == [request |-> r, at |-> "settle"]
<1>1. /\ jqXHR \in [Ajax -> AjaxRecord] /\ doneStack \in Seq(DoneCall) /\ DonesApart /\ AjaxShape
      /\ jqXHR[r].state = Unmade /\ ~jqXHR[r].installed /\ ~jqXHR[r].counted
      /\ ~jqXHR[r].transport /\ ~jqXHR[r].timer /\ ~InDone(r) /\ ajaxTold[r] = <<>>
  BY DEF AjaxInv, AjaxShape, RequestKept, AjaxPrefiltered, BeforeSendCancels, Sends, Unmade
<1>2. UNCHANGED <<ajaxTold, ajaxThrown>>
  BY DEF AjaxPrefiltered, BeforeSendCancels, Sends
<1>3. /\ IsFiniteSet(Live) /\ r \notin Live /\ Cardinality(Live) \in Nat
      /\ IsFiniteSet(Counted) /\ r \notin Counted /\ Cardinality(Counted) \in Nat /\ active \in Int
  <2>1. Live \subseteq Ajax /\ r \notin Live /\ Counted \subseteq Ajax /\ r \notin Counted
    BY <1>1 DEF Live, Counted
  <2>2. QED
    BY <1>1, <2>1, FS_Subset, FS_CardinalityType DEF AjaxShape
<1>4. CASE AjaxPrefiltered(r)
  <2> DEFINE now == [jqXHR[r] EXCEPT !.state = 2]
  <2>1. now \in AjaxRecord /\ now.state = 2 /\ ~now.installed /\ ~now.counted /\ ~now.transport /\ ~now.timer
    BY <1>1 DEF AjaxRecord
  <2>2. jqXHR' = [jqXHR EXCEPT ![r] = now] /\ UNCHANGED <<active, doneStack>>
    BY <1>1, <1>4 DEF AjaxPrefiltered
  <2> HIDE DEF now
  <2>3. AjaxShape' /\ DonesApart'
    BY <1>1, <1>2, <2>1, <2>2 DEF AjaxInv, AjaxShape, DonesApart
  <2>4. \A x \in Ajax : InDone(x)' <=> InDone(x)
    BY <2>2 DEF InDone
  <2>5. ASSUME NEW x \in Ajax PROVE RequestKept(x)'
    BY <1>1, <1>2, <2>1, <2>2, <2>4 DEF AjaxInv, RequestKept, Unmade
  <2>6. \A i \in 1..Len(doneStack') : DoneKept(i)'
    BY <1>1, <1>2, <2>1, <2>2, InDoneIs DEF AjaxInv, DoneKept
  <2>7. Live' = Live /\ Counted' = Counted
    <3>1. Counted' = Counted
      BY <1>1, <2>1, <2>2 DEF Counted
    <3>2. \A x \in Ajax : jqXHR[x].counted => (x \in Ended' <=> x \in Ended)
      BY <1>1, <2>2 DEF Ended
    <3>3. QED
      BY <3>1, <3>2 DEF Live, Counted
  <2>8. QED
    BY <1>2, <2>2, <2>3, <2>5, <2>6, <2>7 DEF AjaxInv, ActiveFits
<1>5. CASE BeforeSendCancels(r)
  <2> DEFINE now == [jqXHR[r] EXCEPT !.state = 2, !.counted = TRUE]
  <2>1. now \in AjaxRecord /\ now.state = 2 /\ ~now.installed /\ now.counted /\ ~now.transport /\ ~now.timer
    BY <1>1 DEF AjaxRecord
  <2>2. jqXHR' = [jqXHR EXCEPT ![r] = now] /\ active' = active + 1 /\ doneStack' = Append(doneStack, call)
    <3>1. jqXHR' = [jqXHR EXCEPT ![r].state = 2, ![r].counted = TRUE]
      BY <1>5 DEF BeforeSendCancels
    <3>2. QED
      BY <1>1, <1>5, <3>1 DEF BeforeSendCancels
  <2>3. /\ doneStack' \in Seq(DoneCall) /\ Len(doneStack') = Len(doneStack) + 1 /\ Len(doneStack) \in Nat
        /\ \A i \in 1..Len(doneStack) : doneStack'[i] = doneStack[i]
        /\ doneStack'[Len(doneStack) + 1] = call
    BY <1>1, <2>2, Pushed DEF DoneCall
  <2> HIDE DEF now, call
  <2>4. call.request = r /\ call.at = "settle"
    BY DEF call
  <2>5. AjaxShape'
    BY <1>1, <1>2, <2>1, <2>2, <2>3 DEF AjaxShape
  <2>6. DonesApart'
    BY <1>1, <2>3, <2>4 DEF DonesApart, InDone
  <2>7. \A x \in Ajax : InDone(x)' <=> InDone(x) \/ x = r
    BY <2>3, <2>4 DEF InDone
  <2>8. ASSUME NEW x \in Ajax PROVE RequestKept(x)'
    <3>1. CASE x = r
      BY <1>1, <1>2, <2>1, <2>2, <2>7, <3>1 DEF RequestKept, Unmade
    <3>2. CASE x # r
      BY <1>1, <1>2, <2>2, <2>7, <3>2 DEF AjaxInv, RequestKept
    <3>3. QED
      BY <3>1, <3>2
  <2>9. ASSUME NEW i \in 1..Len(doneStack') PROVE DoneKept(i)'
    <3>1. CASE i = Len(doneStack) + 1
      BY <1>1, <2>1, <2>2, <2>3, <2>4, <3>1 DEF DoneKept
    <3>2. CASE i \in 1..Len(doneStack)
      <4>1. doneStack[i].request # r /\ doneStack[i].request \in Ajax
        BY <1>1, <3>2, InDoneIs
      <4>2. QED
        BY <1>1, <1>2, <2>2, <2>3, <3>2, <4>1 DEF AjaxInv, DoneKept
    <3>3. QED
      BY <2>3, <3>1, <3>2
  <2>10. Live' = Live \union {r} /\ Counted' = Counted \union {r}
    <3>1. Ended' = {x \in Ajax : jqXHR'[x].state = 2 /\ ~InDone(x)'}
      BY <2>3 DEF Ended, InDone
    <3>2. \A x \in Ajax : x # r => jqXHR'[x] = jqXHR[x]
      BY <1>1, <2>2
    <3>3. jqXHR'[r].counted
      BY <1>1, <2>1, <2>2
    <3>4. QED
      BY <1>1, <2>7, <3>1, <3>2, <3>3, EndedIs DEF Live, Counted
  <2>11. Cardinality(Live') = Cardinality(Live) + 1 /\ Cardinality(Counted') = Cardinality(Counted) + 1
    BY <1>3, <2>10, FS_AddElement
  <2>12. QED
    BY <1>2, <1>3, <2>2, <2>5, <2>6, <2>8, <2>9, <2>11 DEF AjaxInv, ActiveFits
<1>6. CASE Sends(r)
  <2>1. PICK timeout \in BOOLEAN :
           jqXHR' = [jqXHR EXCEPT ![r] = [state |-> 1, counted |-> TRUE, transport |-> TRUE,
                                          timer |-> timeout, installed |-> TRUE]]
    BY <1>6 DEF Sends
  <2> DEFINE now == [state |-> 1, counted |-> TRUE, transport |-> TRUE, timer |-> timeout, installed |-> TRUE]
  <2>2. now \in AjaxRecord /\ now.state = 1 /\ now.installed /\ now.counted
    BY DEF AjaxRecord
  <2>3. jqXHR' = [jqXHR EXCEPT ![r] = now] /\ active' = active + 1 /\ UNCHANGED doneStack
    BY <1>6, <2>1 DEF Sends
  <2> HIDE DEF now
  <2>4. AjaxShape' /\ DonesApart'
    BY <1>1, <1>2, <2>2, <2>3 DEF AjaxShape, DonesApart
  <2>5. \A x \in Ajax : InDone(x)' <=> InDone(x)
    BY <2>3 DEF InDone
  <2>6. ASSUME NEW x \in Ajax PROVE RequestKept(x)'
    <3>1. CASE x = r
      BY <1>1, <1>2, <2>2, <2>3, <2>5, <3>1 DEF RequestKept, Unmade
    <3>2. CASE x # r
      BY <1>1, <1>2, <2>3, <2>5, <3>2 DEF AjaxInv, RequestKept
    <3>3. QED
      BY <3>1, <3>2
  <2>7. ASSUME NEW i \in 1..Len(doneStack') PROVE DoneKept(i)'
    <3>1. doneStack[i].request # r /\ doneStack[i].request \in Ajax
      BY <1>1, <2>3, InDoneIs
    <3>2. QED
      BY <1>1, <1>2, <2>3, <3>1 DEF AjaxInv, DoneKept
  <2>8. Live' = Live \union {r} /\ Counted' = Counted \union {r}
    <3>1. \A x \in Ajax : x # r => jqXHR'[x] = jqXHR[x]
      BY <1>1, <2>3
    <3>2. jqXHR'[r].counted /\ jqXHR'[r].state = 1
      BY <1>1, <2>2, <2>3
    <3>3. QED
      BY <2>3, <3>1, <3>2 DEF Live, Counted, Ended
  <2>9. Cardinality(Live') = Cardinality(Live) + 1 /\ Cardinality(Counted') = Cardinality(Counted) + 1
    BY <1>3, <2>8, FS_AddElement
  <2>10. QED
    BY <1>2, <1>3, <2>3, <2>4, <2>6, <2>7, <2>9 DEF AjaxInv, ActiveFits
<1>7. QED
  BY <1>4, <1>5, <1>6

LEMMA SettleKeeps == ASSUME AjaxInv, SettleReturns PROVE AjaxInv'
<1> DEFINE last == Len(doneStack)
           r == doneStack[last].request
           call == [doneStack[last] EXCEPT !.at = "complete"]
<1>1. /\ doneStack \in Seq(DoneCall) /\ doneStack # <<>> /\ jqXHR \in [Ajax -> AjaxRecord] /\ AjaxShape
      /\ doneStack[last].at = "settle" /\ doneStack' = Append(SubSeq(doneStack, 1, last - 1), call)
      /\ ajaxTold' = Told(r, "complete", ajaxTold) /\ UNCHANGED <<jqXHR, active, ajaxThrown>>
  BY DEF AjaxInv, AjaxShape, SettleReturns, InnerDone, OuterDones
<1>2. last \in Nat \ {0} /\ doneStack[last] \in DoneCall
  BY <1>1, PoppedOff
<1>3. call \in DoneCall /\ call.request = r /\ call.at = "complete" /\ r \in Ajax /\ InDone(r)
  BY <1>2 DEF DoneCall, InDone
<1>4. /\ doneStack' \in Seq(DoneCall) /\ Len(doneStack') = last /\ doneStack'[last] = call
      /\ \A i \in 1..(last - 1) : doneStack'[i] = doneStack[i]
  <2> DEFINE outer == SubSeq(doneStack, 1, last - 1)
  <2>1. outer \in Seq(DoneCall) /\ Len(outer) = last - 1 /\ \A i \in 1..(last - 1) : outer[i] = doneStack[i]
    BY <1>1, PoppedOff
  <2> HIDE DEF outer, call
  <2>2. /\ Append(outer, call) \in Seq(DoneCall) /\ Len(Append(outer, call)) = Len(outer) + 1
        /\ \A i \in 1..Len(outer) : Append(outer, call)[i] = outer[i]
        /\ Append(outer, call)[Len(outer) + 1] = call
    BY <1>3, <2>1, Pushed
  <2>3. doneStack' = Append(outer, call)
    BY <1>1 DEF outer
  <2>4. QED
    BY <1>2, <2>1, <2>2, <2>3
<1> HIDE DEF call, r
<1>5. \A i \in 1..last : doneStack'[i].request = doneStack[i].request
  BY <1>2, <1>3, <1>4 DEF r
<1>6. DonesApart' /\ \A x \in Ajax : InDone(x)' <=> InDone(x)
  BY <1>2, <1>4, <1>5 DEF AjaxInv, DonesApart, InDone
<1>7. /\ ajaxTold' \in [Ajax -> {<<>>} \union ToldFirst \union ToldAll]
      /\ \A x \in Ajax : x # r => ajaxTold'[x] = ajaxTold[x]
      /\ ~jqXHR[r].installed => ajaxTold'[r] = ajaxTold[r]
      /\ jqXHR[r].installed => ajaxTold'[r] \in ToldAll
  <2>1. CASE ~jqXHR[r].installed
    BY <1>1, <2>1 DEF Told, AjaxShape
  <2>2. CASE jqXHR[r].installed
    <3>1. ajaxTold[r] \in ToldFirst
      BY <1>1, <1>2, <2>2 DEF AjaxInv, DoneKept, r
    <3>2. Append(ajaxTold[r], "complete") \in ToldAll
      BY <3>1, OneByOne DEF ToldFirst, ToldAll
    <3>3. QED
      BY <1>1, <1>3, <2>2, <3>2 DEF Told, AjaxShape
  <2>3. QED
    BY <2>1, <2>2
<1>8. AjaxShape'
  BY <1>1, <1>4, <1>7 DEF AjaxShape
<1>9. ASSUME NEW x \in Ajax PROVE RequestKept(x)'
  <2>1. CASE x = r
    BY <1>1, <1>3, <1>6, <1>7, <2>1 DEF AjaxInv, RequestKept
  <2>2. CASE x # r
    BY <1>1, <1>6, <1>7, <2>2 DEF AjaxInv, RequestKept
  <2>3. QED
    BY <2>1, <2>2
<1>10. ASSUME NEW i \in 1..Len(doneStack') PROVE DoneKept(i)'
  <2>1. CASE i = last
    BY <1>1, <1>3, <1>4, <1>7, <2>1 DEF DoneKept
  <2>2. CASE i # last
    <3>1. i \in 1..(last - 1) /\ doneStack[i].request # r /\ doneStack[i].request \in Ajax
      BY <1>1, <1>2, <1>4, <2>2, InDoneIs DEF AjaxInv, DonesApart, r
    <3>2. doneStack'[i] = doneStack[i] /\ ajaxTold'[doneStack[i].request] = ajaxTold[doneStack[i].request]
      BY <1>4, <1>7, <3>1
    <3>3. DoneKept(i)
      BY <1>2, <3>1 DEF AjaxInv
    <3>4. QED
      BY <1>1, <3>2, <3>3 DEF DoneKept
  <2>3. QED
    BY <2>1, <2>2
<1>11. Live' = Live /\ Counted' = Counted
  <2>1. Ended' = {x \in Ajax : jqXHR'[x].state = 2 /\ ~InDone(x)'}
    BY <1>4 DEF Ended, InDone
  <2>2. QED
    BY <1>1, <1>6, <2>1, EndedIs DEF Live, Counted
<1>12. QED
  BY <1>1, <1>6, <1>8, <1>9, <1>10, <1>11 DEF AjaxInv, ActiveFits

LEMMA CompleteKeeps == ASSUME AjaxInv, IsFiniteSet(Ajax), CompleteReturns PROVE AjaxInv'
<1> DEFINE last == Len(doneStack)
           r == doneStack[last].request
<1>1. /\ doneStack \in Seq(DoneCall) /\ doneStack # <<>> /\ jqXHR \in [Ajax -> AjaxRecord] /\ AjaxShape
      /\ doneStack[last].at = "complete" /\ doneStack' = SubSeq(doneStack, 1, last - 1)
      /\ active' = (IF jqXHR[r].counted THEN active - 1 ELSE active)
      /\ UNCHANGED <<jqXHR, ajaxTold, ajaxThrown>>
  BY DEF AjaxInv, AjaxShape, CompleteReturns, InnerDone, OuterDones
<1>2. last \in Nat \ {0} /\ doneStack[last] \in DoneCall /\ r \in Ajax
  <2>1. last \in Nat \ {0} /\ doneStack[last] \in DoneCall
    BY <1>1, PoppedOff
  <2>2. QED
    BY <2>1 DEF DoneCall
<1>3. /\ doneStack' \in Seq(DoneCall) /\ Len(doneStack') = last - 1
      /\ \A i \in 1..(last - 1) : doneStack'[i] = doneStack[i]
  BY <1>1, PoppedOff
<1>4. AjaxShape'
  BY <1>1, <1>3 DEF AjaxShape
<1>5. DonesApart'
  BY <1>2, <1>3, SMTT(60) DEF AjaxInv, DonesApart
<1>6. InDone(r) /\ \A x \in Ajax : InDone(x)' <=> InDone(x) /\ x # r
  BY <1>2, <1>3 DEF AjaxInv, DonesApart, InDone
<1>7. jqXHR[r].state = 2 /\ (jqXHR[r].installed => ajaxTold[r] \in ToldAll)
  BY <1>1, <1>2, <1>6 DEF AjaxInv, RequestKept, DoneKept
<1> HIDE DEF r
<1>8. ASSUME NEW x \in Ajax PROVE RequestKept(x)'
  <2>1. CASE x = r
    BY <1>1, <1>6, <1>7, <2>1 DEF AjaxInv, RequestKept
  <2>2. CASE x # r
    BY <1>1, <1>6, <2>2 DEF AjaxInv, RequestKept
  <2>3. QED
    BY <2>1, <2>2
<1>9. \A i \in 1..Len(doneStack') : DoneKept(i)'
  BY <1>1, <1>2, <1>3 DEF AjaxInv, DoneKept
<1>10. Ended' = Ended \union {r}
  <2>1. Ended' = {x \in Ajax : jqXHR'[x].state = 2 /\ ~InDone(x)'}
    BY <1>3 DEF Ended, InDone
  <2>2. QED
    BY <1>1, <1>2, <1>6, <1>7, <2>1, EndedIs DEF r
<1>11. IsFiniteSet(Live) /\ (jqXHR[r].counted => r \in Live)
  <2>1. Live \subseteq Ajax
    BY DEF Live, Counted
  <2>2. jqXHR[r].counted => r \in Live
    BY <1>1, <1>2, <1>6, EndedIs DEF Live, Counted, r
  <2>3. QED
    BY <2>1, <2>2, FS_Subset
<1>12. (~ajaxThrown => active' = Cardinality(Live')) /\ ActiveFits'
  <2>0. active \in Int /\ Counted' = Counted /\ Cardinality(Live) \in Nat /\ Cardinality(Counted) \in Nat
    <3>1. Counted \subseteq Ajax
      BY DEF Counted
    <3>2. QED
      BY <1>1, <1>11, <3>1, FS_Subset, FS_CardinalityType DEF AjaxShape, Counted
  <2>1. CASE jqXHR[r].counted
    <3>1. Live' = Live \ {r}
      BY <1>1, <1>10 DEF Live, Counted
    <3>2. Cardinality(Live') = Cardinality(Live) - 1
      BY <1>11, <2>1, <3>1, FS_RemoveElement
    <3>3. QED
      BY <1>1, <2>0, <2>1, <3>2 DEF AjaxInv, ActiveFits, r
  <2>2. CASE ~jqXHR[r].counted
    <3>1. Live' = Live
      BY <1>1, <1>10, <2>2 DEF Live, Counted
    <3>2. QED
      BY <1>1, <2>0, <2>2, <3>1 DEF AjaxInv, ActiveFits, r
  <2>3. QED
    BY <2>1, <2>2
<1>13. QED
  BY <1>1, <1>4, <1>5, <1>8, <1>9, <1>12 DEF AjaxInv

LEMMA ThrowKeeps == ASSUME AjaxInv, AjaxCallbackThrows PROVE AjaxInv'
<1>1. doneStack' = <<>> /\ Len(doneStack') = 0 /\ ajaxThrown' /\ UNCHANGED <<jqXHR, active, ajaxTold>>
  BY DEF AjaxCallbackThrows
<1>2. AjaxShape'
  BY <1>1 DEF AjaxInv, AjaxShape
<1>3. \A x \in Ajax : ~InDone(x)'
  BY <1>1 DEF InDone
<1>4. \A x \in Ajax : RequestKept(x)'
  BY <1>1, <1>3 DEF AjaxInv, RequestKept
<1>5. ActiveFits'
  <2>1. Live' \subseteq Live /\ Live \subseteq Ajax /\ Counted' = Counted
    BY <1>1 DEF Live, Counted, Ended
  <2>2. IsFiniteSet(Live) /\ Cardinality(Live') <= Cardinality(Live)
    BY <2>1, AjaxAssumption, FS_Subset
  <2>3. Cardinality(Live') \in Nat /\ Cardinality(Live) \in Nat /\ active \in Int
    BY <2>1, <2>2, FS_Subset, FS_CardinalityType DEF AjaxInv, AjaxShape
  <2>. QED
    BY <1>1, <2>1, <2>2, <2>3 DEF AjaxInv, ActiveFits
<1>6. QED
  BY <1>1, <1>2, <1>4, <1>5 DEF AjaxInv, DonesApart

LEMMA AjaxInvariant == AjaxSpec => []AjaxInv
<1>1. AjaxInit => AjaxInv
  <2> SUFFICES ASSUME AjaxInit PROVE AjaxInv
    OBVIOUS
  <2>1. AjaxShape /\ Len(doneStack) = 0
    <3>1. [state |-> Unmade, counted |-> FALSE, transport |-> FALSE, timer |-> FALSE,
           installed |-> FALSE] \in AjaxRecord
      BY DEF AjaxRecord
    <3>2. jqXHR \in [Ajax -> AjaxRecord]
      BY <3>1 DEF AjaxInit
    <3>3. ajaxTold \in [Ajax -> {<<>>} \union ToldFirst \union ToldAll]
      BY DEF AjaxInit
    <3>4. doneStack \in Seq(DoneCall) /\ Len(doneStack) = 0
      BY EmptySeq DEF AjaxInit
    <3>5. active = 0 /\ ajaxThrown \in BOOLEAN
      BY DEF AjaxInit
    <3>6. QED
      BY <3>2, <3>3, <3>4, <3>5 DEF AjaxShape
  <2>2. Live = {} /\ Counted = {}
    BY DEF AjaxInit, Live, Counted
  <2>3. QED
    BY <2>1, <2>2, FS_EmptySet DEF AjaxInit, AjaxInv, DonesApart, ActiveFits, RequestKept, DoneKept, InDone, Unmade
<1>2. AjaxInv /\ [AjaxNext]_ajaxVars => AjaxInv'
  <2> SUFFICES ASSUME AjaxInv, [AjaxNext]_ajaxVars PROVE AjaxInv'
    OBVIOUS
  <2>1. CASE UNCHANGED ajaxVars
    BY <2>1 DEF ajaxVars, AjaxInv, AjaxShape, DonesApart, ActiveFits, RequestKept, InDone, DoneKept, Live, Counted, Ended
  <2>2. ASSUME NEW r \in Ajax, AjaxAnswers(r) \/ TimesOut(r) \/ Abort(r)
        PROVE  AjaxInv'
    <3>1. jqXHR[r].state # Unmade
      BY <2>2, ZenonT(60) DEF AjaxInv, RequestKept, AjaxAnswers, TimesOut, Abort, Unmade
    <3>2. \E success \in BOOLEAN : Done(r, success)
      <4>1. CASE AjaxAnswers(r)
        <5>1. PICK status \in {0, 200, 204, 304, 500}, ct \in {"text", "html"},
                   expected \in {"*", "json", "html"}, ok \in BOOLEAN :
                   Done(r, IsSuccess(status, ct, expected, ok))
          BY <4>1 DEF AjaxAnswers
        <5>2. IsSuccess(status, ct, expected, ok) \in BOOLEAN
          BY DEF IsSuccess
        <5>3. QED
          BY <5>1, <5>2
      <4>2. CASE TimesOut(r) \/ Abort(r)
        BY <4>2 DEF TimesOut, Abort
      <4>3. QED
        BY <2>2, <4>1, <4>2
    <3>3. QED
      BY <3>1, <3>2, DoneKeeps
  <2>3. QED
    BY <2>1, <2>2, MadeKeeps, SettleKeeps, CompleteKeeps, ThrowKeeps, AjaxAssumption DEF AjaxNext
<1>3. QED
  BY <1>1, <1>2, PTL DEF AjaxSpec

\* A request tells success() or error() once and then complete(), and counts as
\* active until then, whatever answer, timeout and abort come while callbacks
\* run, if none throws (ToldOnce).
THEOREM RequestsToldOnce == AjaxSpec => []ToldOnce
<1>1. AjaxInv => ToldOnce
  <2> SUFFICES ASSUME AjaxInv PROVE ToldOnce
    OBVIOUS
  <2>1. \A r \in Ajax : ajaxTold[r] \in {<<>>} \union ToldFirst \union ToldAll
    BY DEF AjaxInv, AjaxShape
  <2>2. ASSUME ~ajaxThrown, NEW r \in Ended, jqXHR[r].installed PROVE Len(ajaxTold[r]) = 2
    <3>1. ajaxTold[r] \in ToldAll
      BY <2>2, EndedIs DEF AjaxInv, RequestKept
    <3>2. QED
      BY <3>1 DEF ToldAll
  <2>3. QED
    BY <2>1, <2>2 DEF ToldOnce, AjaxInv, Live, ToldFirst, ToldAll
<1>2. QED
  BY <1>1, AjaxInvariant, PTL

-----------------------------------------------------------------------------
(* Deferreds, for any number of callbacks and values.                      *)

ListRecord ==
    [usable : BOOLEAN, list : Seq(Nat), firing : BOOLEAN, fired : BOOLEAN, memory : Nat, start : {0},
     index : Nat, length : Nat, repeats : BOOLEAN, stack : Seq(Nat)]
ListFrom ==
    [usable : BOOLEAN, list : Seq(Nat), firing : BOOLEAN, fired : BOOLEAN, memory : Nat, start : Nat,
     index : Nat, length : Nat, repeats : BOOLEAN, stack : Seq(Nat)]
FiringRecord == [list : Lists, value : Nat \ {Nothing}, called : BOOLEAN]

DeferredShape ==
    /\ lists \in [Lists -> ListRecord] /\ firings \in Seq(FiringRecord)
    /\ addedTo \in [Lists -> Nat] /\ heard \in [Lists -> Seq(Nat \X Nat)]
    /\ notified \in Nat /\ thrown \in BOOLEAN /\ deferredState \in {"pending", "resolved", "rejected"}

InFirings(l) == \E i \in 1..Len(firings) : firings[i].list = l
WasCalled(l) == \E i \in 1..Len(firings) : firings[i].list = l /\ firings[i].called

\* A list is fired at most once at a time, with the value it remembers.
OneFiring == \A i, j \in 1..Len(firings) : firings[i].list = firings[j].list => i = j
FiringHolds(i) ==
    /\ lists[firings[i].list].firing /\ lists[firings[i].list].memory = firings[i].value
    /\ firings[i].called => lists[firings[i].list].index < lists[firings[i].list].length
FiringsKept == OneFiring /\ \A i \in 1..Len(firings) : FiringHolds(i)

\* How many callbacks of a list are behind it, and which of them was called last.
Dropped(l) == addedTo[l] - Len(lists[l].list)
Reached(l) == Dropped(l) + lists[l].index + IF WasCalled(l) THEN 1 ELSE 0

\* What was heard, the callback and the value of each call: in the order of the
\* callbacks; and later values later, up to the one that is being heard.
InOrder(h) == \A i \in 1..Len(h) : h[i][1] = i
HeardFits(h, added, value) == \A i \in 1..Len(h) : h[i][1] <= added /\ h[i][2] <= value
HeardNow(h, value, reached) == \A i \in 1..Len(h) : h[i][2] = value => h[i][1] <= reached
Increasing(h) == \A i, j \in 1..Len(h) : i < j /\ h[i][1] = h[j][1] => h[i][2] < h[j][2]

Numbered(list, base) == \A i \in 1..Len(list) : list[i] = base + i
WaitsFit(stack, value, last) ==
    /\ \A i \in 1..Len(stack) : value < stack[i] /\ stack[i] <= last
    /\ \A i, j \in 1..Len(stack) : i < j => stack[i] < stack[j]

\* A list has the callbacks that were added last; while it is fired none of them
\* is forgotten.
ListHolds(l) ==
    LET c == lists[l]
    IN  /\ Dropped(l) \in Nat /\ Numbered(c.list, Dropped(l))
        /\ c.firing => c.usable /\ c.fired /\ c.length = Len(c.list) /\ c.index <= c.length
        /\ c.firing /\ ~thrown => InFirings(l)
        /\ ~c.firing => c.stack = <<>>
        /\ c.usable /\ c.fired <=> c.memory # Nothing
        /\ ~c.usable => ~c.fired /\ c.list = <<>>
        /\ ~c.fired => heard[l] = <<>> /\ ~c.firing

\* A list that settles calls in order, has all before it is fired and has called
\* all when it was.
SettledKept(l) ==
    LET c == lists[l]
    IN  /\ ~c.repeats /\ c.stack = <<>>
        /\ c.fired <=> deferredState = Final(l)
        /\ c.fired => ~lists[OtherList(l)].usable
        /\ InOrder(heard[l])
        /\ InFirings(l) => Len(heard[l]) = Reached(l)
        /\ c.usable /\ c.fired /\ ~c.firing => c.list = <<>> /\ Len(heard[l]) = addedTo[l]
        /\ c.usable /\ ~c.fired => Len(c.list) = addedTo[l]

\* The progress remembers the last value heard; those that wait are later ones.
ProgressKept ==
    LET c == lists["progress"]
        h == heard["progress"]
    IN  /\ c.memory <= notified /\ WaitsFit(c.stack, c.memory, notified)
        /\ Increasing(h) /\ HeardFits(h, addedTo["progress"], c.memory)
        /\ InFirings("progress") => HeardNow(h, c.memory, Reached("progress"))

DeferredInv ==
    /\ DeferredShape /\ FiringsKept /\ ProgressKept
    /\ \A l \in Lists : ListHolds(l)
    /\ \A l \in Settling : SettledKept(l)

\* One more call.
LEMMA HeardMore ==
  ASSUME NEW h \in Seq(Nat \X Nat), NEW n \in Nat, NEW v \in Nat
  PROVE  LET h1 == Append(h, <<n + 1, v>>)
         IN  /\ h1 \in Seq(Nat \X Nat) /\ Len(h1) = Len(h) + 1 /\ Len(h) \in Nat
             /\ InOrder(h) /\ Len(h) = n => InOrder(h1)
             /\ \A added \in Nat : HeardFits(h, added, v) /\ n + 1 <= added => HeardFits(h1, added, v)
             /\ HeardNow(h, v, n) => HeardNow(h1, v, n + 1)
             /\ \A added \in Nat : HeardFits(h, added, v) /\ HeardNow(h, v, n) /\ Increasing(h) => Increasing(h1)
<1> DEFINE call == <<n + 1, v>>
           h1 == Append(h, call)
<1>1. call \in Nat \X Nat /\ call[1] = n + 1 /\ call[2] = v
  OBVIOUS
<1> HIDE DEF call
<1>2. /\ h1 \in Seq(Nat \X Nat) /\ Len(h1) = Len(h) + 1 /\ Len(h) \in Nat /\ h1[Len(h) + 1] = call
      /\ \A i \in 1..Len(h) : h1[i] = h[i]
  BY <1>1, Pushed
<1> DEFINE len == Len(h)
<1>3. \A i \in 1..len : h[i][1] \in Nat /\ h[i][2] \in Nat
  <2>1. \A i \in 1..len : h[i] \in Nat \X Nat
    BY ElementOfSeq
  <2>2. QED
    BY <2>1
<1> HIDE DEF h1
<1>4. /\ Len(h1) = len + 1 /\ len \in Nat /\ h1[len + 1][1] = n + 1 /\ h1[len + 1][2] = v
      /\ \A i \in 1..len : h1[i][1] = h[i][1] /\ h1[i][2] = h[i][2]
  BY <1>1, <1>2
<1>0. len = Len(h)
  OBVIOUS
<1> HIDE DEF len
<1>5. InOrder(h) /\ len = n => InOrder(h1)
  BY <1>0, <1>4, SMTT(60) DEF InOrder
<1>6. \A added \in Nat : HeardFits(h, added, v) /\ n + 1 <= added => HeardFits(h1, added, v)
  <2> SUFFICES ASSUME NEW added \in Nat, HeardFits(h, added, v), n + 1 <= added PROVE HeardFits(h1, added, v)
    OBVIOUS
  <2>1. ASSUME NEW i \in 1..(len + 1) PROVE h1[i][1] <= added /\ h1[i][2] <= v
    <3>1. CASE i = len + 1
      BY <1>4, <3>1
    <3>2. CASE i # len + 1
      <4>1. i \in 1..len
        BY <1>4, <3>2
      <4>2. h[i][1] <= added /\ h[i][2] <= v
        BY <1>0, <4>1 DEF HeardFits
      <4>3. QED
        BY <1>4, <4>1, <4>2
    <3>3. QED
      BY <3>1, <3>2
  <2>2. QED
    BY <1>4, <2>1 DEF HeardFits
<1>7. HeardNow(h, v, n) => HeardNow(h1, v, n + 1)
  BY <1>0, <1>3, <1>4, SMTT(60) DEF HeardNow
<1>8. ASSUME NEW added \in Nat, HeardFits(h, added, v), HeardNow(h, v, n), Increasing(h)
      PROVE  Increasing(h1)
  <2> SUFFICES ASSUME NEW i \in 1..(len + 1), NEW j \in 1..(len + 1), i < j, h1[i][1] = h1[j][1]
               PROVE  h1[i][2] < h1[j][2]
    BY <1>4 DEF Increasing
  <2>1. i \in 1..len /\ h1[i][1] = h[i][1] /\ h1[i][2] = h[i][2]
    BY <1>4, SMTT(60)
  <2>2. CASE j = len + 1
    <3>1. h[i][1] = n + 1 /\ h1[j][2] = v /\ h[i][2] <= v
      BY <1>0, <1>4, <1>8, <2>1, <2>2 DEF HeardFits
    <3>2. h[i][2] # v
      BY <1>0, <1>8, <2>1, <3>1 DEF HeardNow
    <3>3. QED
      BY <1>3, <2>1, <3>1, <3>2
  <2>3. CASE j # len + 1
    <3>0. len \in Nat
      BY <1>0
    <3>1. j \in 1..len
      BY <2>3, <3>0
    <3>11. h1[j][1] = h[j][1] /\ h1[j][2] = h[j][2]
      BY <1>4, <3>1
    <3>2. QED
      BY <1>0, <1>8, <2>1, <3>1, <3>11 DEF Increasing
  <2>4. QED
    BY <2>2, <2>3
<1>9. QED
  BY <1>0, <1>2, <1>5, <1>6, <1>7, <1>8 DEF h1, call

\* A list that is not fired begins to fire, one that is fired ends, and the
\* innermost one calls.
LEMMA FiringPushed ==
  ASSUME DeferredInv, NEW l \in Lists, ~lists[l].firing, NEW v \in Nat \ {Nothing},
         firings' = Append(firings, FiringOf(l, v))
  PROVE  /\ firings' \in Seq(FiringRecord) /\ OneFiring' /\ Len(firings') = Len(firings) + 1
         /\ \A x \in Lists : (InFirings(x)' <=> InFirings(x) \/ x = l) /\ (WasCalled(x)' <=> WasCalled(x))
         /\ ~InFirings(l) /\ firings'[Len(firings) + 1] = FiringOf(l, v) /\ Len(firings) \in Nat
         /\ \A i \in 1..Len(firings) : firings'[i] = firings[i] /\ firings[i].list # l
<1> DEFINE f == FiringOf(l, v)
<1>1. f \in FiringRecord /\ f.list = l /\ ~f.called
  BY DEF FiringOf, FiringRecord
<1>2. firings \in Seq(FiringRecord) /\ firings' = Append(firings, f)
  BY DEF DeferredInv, DeferredShape
<1> HIDE DEF f
<1>3. /\ firings' \in Seq(FiringRecord) /\ Len(firings') = Len(firings) + 1 /\ Len(firings) \in Nat
      /\ \A i \in 1..Len(firings) : firings'[i] = firings[i]
      /\ firings'[Len(firings) + 1] = f
  BY <1>1, <1>2, Pushed
<1>4. \A i \in 1..Len(firings) : firings[i].list # l
  BY DEF DeferredInv, FiringsKept, OneFiring, FiringHolds
<1>5. OneFiring'
  BY <1>1, <1>3, <1>4 DEF OneFiring, DeferredInv, FiringsKept
<1>6. ~InFirings(l) /\ \A x \in Lists : InFirings(x)' <=> InFirings(x) \/ x = l
  BY <1>1, <1>3, <1>4 DEF InFirings
<1>7. \A x \in Lists : WasCalled(x)' <=> WasCalled(x)
  BY <1>1, <1>3, <1>4 DEF WasCalled
<1>8. QED
  BY <1>3, <1>4, <1>5, <1>6, <1>7 DEF f

LEMMA TopFiring ==
  ASSUME DeferredInv, firings # <<>>
  PROVE  /\ Len(firings) \in Nat \ {0} /\ Innermost \in FiringRecord /\ Innermost = firings[Len(firings)]
         /\ Innermost.list \in Lists /\ InFirings(Innermost.list)
         /\ (WasCalled(Innermost.list) <=> Innermost.called)
         /\ FiringHolds(Len(firings))
<1>1. /\ firings \in Seq(FiringRecord) /\ Len(firings) \in Nat \ {0} /\ Innermost \in FiringRecord
      /\ Innermost = firings[Len(firings)]
  <2>1. firings \in Seq(FiringRecord)
    BY DEF DeferredInv, DeferredShape
  <2>2. QED
    BY <2>1, PoppedOff DEF Innermost
<1>2. Innermost.list \in Lists
  BY <1>1 DEF FiringRecord
<1>3. InFirings(Innermost.list) /\ (WasCalled(Innermost.list) <=> Innermost.called)
  <2>1. Len(firings) \in 1..Len(firings)
    BY <1>1
  <2>2. \A i \in 1..Len(firings) : firings[i].list = Innermost.list => i = Len(firings)
    BY <1>1, <2>1 DEF DeferredInv, FiringsKept, OneFiring
  <2>3. QED
    BY <1>1, <2>1, <2>2 DEF InFirings, WasCalled
<1>4. FiringHolds(Len(firings))
  BY <1>1 DEF DeferredInv, FiringsKept, OneFiring, FiringHolds
<1>5. QED
  BY <1>1, <1>2, <1>3, <1>4

LEMMA FiringPopped ==
  ASSUME DeferredInv, firings # <<>>
  PROVE  /\ Popped \in Seq(FiringRecord) /\ Len(Popped) = Len(firings) - 1
         /\ \A i \in 1..(Len(firings) - 1) : Popped[i] = firings[i] /\ firings[i].list # Innermost.list
<1>1. firings \in Seq(FiringRecord)
  BY DEF DeferredInv, DeferredShape
<1>2. /\ Popped \in Seq(FiringRecord) /\ Len(Popped) = Len(firings) - 1
      /\ \A i \in 1..(Len(firings) - 1) : Popped[i] = firings[i]
  BY <1>1, PoppedOff DEF Popped
<1>3. \A i \in 1..(Len(firings) - 1) : firings[i].list # Innermost.list
  BY TopFiring DEF DeferredInv, FiringsKept, OneFiring, FiringHolds
<1>4. QED
  BY <1>2, <1>3

LEMMA FiringTopped ==
  ASSUME DeferredInv, firings # <<>>, NEW f \in FiringRecord, f.list = Innermost.list,
         \/ firings' = Append(Popped, f)
         \/ firings' = [firings EXCEPT ![Len(firings)] = f]
  PROVE  /\ firings' \in Seq(FiringRecord) /\ OneFiring' /\ Len(firings') = Len(firings)
         /\ \A x \in Lists : (InFirings(x)' <=> InFirings(x))
                              /\ (x # f.list => (WasCalled(x)' <=> WasCalled(x)))
         /\ WasCalled(f.list)' <=> f.called
         /\ firings'[Len(firings)] = f
         /\ \A i \in 1..(Len(firings) - 1) : firings'[i] = firings[i] /\ firings[i].list # f.list
<1>1. Len(firings) \in Nat \ {0} /\ firings \in Seq(FiringRecord) /\ f.list = firings[Len(firings)].list
      /\ \A i \in 1..(Len(firings) - 1) : firings[i].list # f.list
  BY TopFiring, FiringPopped DEF DeferredInv, DeferredShape
<1>2. /\ firings' \in Seq(FiringRecord) /\ Len(firings') = Len(firings) /\ firings'[Len(firings)] = f
      /\ \A i \in 1..(Len(firings) - 1) : firings'[i] = firings[i]
  <2>1. CASE firings' = Append(Popped, f)
    <3>1. Popped \in Seq(FiringRecord) /\ Len(Popped) = Len(firings) - 1
          /\ \A i \in 1..(Len(firings) - 1) : Popped[i] = firings[i]
      BY FiringPopped
    <3>2. /\ Append(Popped, f) \in Seq(FiringRecord) /\ Len(Append(Popped, f)) = Len(Popped) + 1
          /\ \A i \in 1..Len(Popped) : Append(Popped, f)[i] = Popped[i]
          /\ Append(Popped, f)[Len(Popped) + 1] = f
      BY <3>1, Pushed
    <3>3. QED
      BY <1>1, <2>1, <3>1, <3>2
  <2>2. CASE firings' = [firings EXCEPT ![Len(firings)] = f]
    BY <1>1, <2>2
  <2>3. QED
    BY <2>1, <2>2
<1>3. \A i \in 1..Len(firings) : firings'[i].list = firings[i].list
  BY <1>1, <1>2
<1>4. OneFiring' /\ \A x \in Lists : InFirings(x)' <=> InFirings(x)
  BY <1>1, <1>2, <1>3 DEF OneFiring, InFirings, DeferredInv, FiringsKept
<1>5. \A x \in Lists : x # f.list => (WasCalled(x)' <=> WasCalled(x))
  BY <1>1, <1>2, SMTT(60) DEF WasCalled
<1>6. WasCalled(f.list)' <=> f.called
  BY <1>1, <1>2 DEF WasCalled
<1>7. QED
  BY <1>1, <1>2, <1>4, <1>5, <1>6

\* The lists that an action leaves alone.
LEMMA OtherKeeps ==
  ASSUME NEW x \in Lists, ListHolds(x), lists'[x] = lists[x], addedTo'[x] = addedTo[x], heard'[x] = heard[x],
         InFirings(x)' <=> InFirings(x), thrown' = thrown
  PROVE  ListHolds(x)'
BY DEF ListHolds, Dropped

LEMMA OtherSettledKeeps ==
  ASSUME NEW x \in Settling, SettledKept(x), lists'[x] = lists[x], addedTo'[x] = addedTo[x],
         heard'[x] = heard[x], InFirings(x)' <=> InFirings(x), WasCalled(x)' <=> WasCalled(x),
         deferredState' = deferredState, lists'[OtherList(x)].usable = lists[OtherList(x)].usable
  PROVE  SettledKept(x)'
BY DEF SettledKept, Reached, Dropped

LEMMA OtherProgressKeeps ==
  ASSUME ProgressKept, LET x == "progress"
                       IN  /\ lists'[x] = lists[x] /\ addedTo'[x] = addedTo[x] /\ heard'[x] = heard[x]
                           /\ InFirings(x)' <=> InFirings(x)
                           /\ WasCalled(x)' <=> WasCalled(x)
                           /\ notified' = notified
  PROVE  ProgressKept'
BY DEF ProgressKept, Reached, Dropped

LEMMA CallKeeps == ASSUME DeferredInv, CallNext PROVE DeferredInv'
<1> SUFFICES ASSUME NEW l \in Lists, l = Innermost.list PROVE DeferredInv'
  BY TopFiring DEF CallNext, PageCode
<1> DEFINE c == lists[l]
           k == c.index
           v == c.memory
           n == Dropped(l) + k
           h == heard[l]
           h1 == Append(h, <<n + 1, v>>)
<1>1. /\ firings # <<>> /\ ~Innermost.called /\ c.usable /\ k < c.length
      /\ heard' = [heard EXCEPT ![l] = Append(@, <<c.list[k + 1], Innermost.value>>)]
      /\ firings' = [firings EXCEPT ![Len(firings)].called = TRUE]
      /\ UNCHANGED <<deferredState, lists, addedTo, notified, thrown>>
  BY DEF CallNext, PageCode, More
<1>2. /\ Len(firings) \in Nat \ {0} /\ Innermost \in FiringRecord /\ Innermost = firings[Len(firings)]
      /\ l \in Lists /\ InFirings(l) /\ ~WasCalled(l) /\ c.firing /\ v = Innermost.value
  BY <1>1, TopFiring DEF FiringHolds
<1>3. /\ DeferredShape /\ FiringsKept /\ ProgressKept /\ ListHolds(l)
      /\ l \in Settling => SettledKept(l)
  BY <1>2 DEF DeferredInv
<1>4. c \in ListRecord
  BY <1>2, <1>3 DEF DeferredShape
<1>5. k \in Nat /\ c.length = Len(c.list) /\ v \in Nat /\ c.fired /\ c.list \in Seq(Nat)
  BY <1>2, <1>3, <1>4 DEF ListRecord, ListHolds
<1>6. Dropped(l) \in Nat /\ n \in Nat /\ c.list[k + 1] = n + 1 /\ n + 1 <= addedTo[l] /\ addedTo[l] \in Nat
  <2>1. Dropped(l) \in Nat /\ Numbered(c.list, Dropped(l)) /\ addedTo[l] \in Nat
    BY <1>2, <1>3 DEF ListHolds, DeferredShape
  <2>2. Len(c.list) \in Nat /\ k + 1 \in 1..Len(c.list)
    BY <1>1, <1>5, LenProperties
  <2>3. c.list[k + 1] = Dropped(l) + (k + 1)
    BY <2>1, <2>2 DEF Numbered
  <2>4. Dropped(l) = addedTo[l] - Len(c.list)
    BY DEF Dropped
  <2> DEFINE len == Len(c.list)
             base == Dropped(l)
  <2>5. len \in Nat /\ base \in Nat /\ base = addedTo[l] - len /\ c.list[k + 1] = base + (k + 1)
        /\ k + 1 <= len /\ n = base + k
    BY <2>1, <2>2, <2>3, <2>4
  <2> DEFINE e == c.list[k + 1]
             added == addedTo[l]
  <2>a. k \in Nat /\ added \in Nat /\ base = added - len /\ e = base + (k + 1)
    BY <1>5, <2>1, <2>5
  <2> HIDE DEF c, k, n, len, base, e, added
  <2>b. n \in Nat /\ e = n + 1 /\ n + 1 <= added
    BY <2>5, <2>a
  <2>6. n \in Nat /\ c.list[k + 1] = n + 1 /\ n + 1 <= addedTo[l]
    BY <2>b DEF e, added
  <2>7. QED
    BY <2>1, <2>6
<1>7. PICK f \in FiringRecord : f = [Innermost EXCEPT !.called = TRUE]
  BY <1>2 DEF FiringRecord
<1>8. /\ firings' = [firings EXCEPT ![Len(firings)] = f]
      /\ f.list = l /\ f.called /\ f.value = v
  BY <1>1, <1>2, <1>7 DEF DeferredShape, FiringRecord
<1>9. heard' = [heard EXCEPT ![l] = h1]
  BY <1>1, <1>2, <1>3, <1>6 DEF DeferredShape
<1>10. /\ firings' \in Seq(FiringRecord) /\ OneFiring' /\ Len(firings') = Len(firings)
       /\ \A x \in Lists : (InFirings(x)' <=> InFirings(x)) /\ (x # l => (WasCalled(x)' <=> WasCalled(x)))
       /\ WasCalled(f.list)' <=> f.called
       /\ firings'[Len(firings)] = f
       /\ \A i \in 1..(Len(firings) - 1) : firings'[i] = firings[i]
  BY <1>1, <1>8, FiringTopped
<1>11. WasCalled(l)'
  BY <1>8, <1>10
<1>12. Reached(l) = n /\ Reached(l)' = n + 1
  <2>1. Reached(l) = Dropped(l) + lists[l].index
    BY <1>2, <1>5, <1>6 DEF Reached
  <2>2. Reached(l)' = Dropped(l) + lists[l].index + 1
    BY <1>1, <1>11 DEF Reached, Dropped
  <2>3. QED
    BY <2>1, <2>2
<1>13. h \in Seq(Nat \X Nat)
  BY <1>2, <1>3 DEF DeferredShape
<1> HIDE DEF n, h, k, v
<1>14. /\ h1 \in Seq(Nat \X Nat) /\ Len(h1) = Len(h) + 1
       /\ InOrder(h) /\ Len(h) = n => InOrder(h1)
       /\ HeardFits(h, addedTo[l], v) => HeardFits(h1, addedTo[l], v)
       /\ HeardNow(h, v, n) => HeardNow(h1, v, n + 1)
       /\ HeardFits(h, addedTo[l], v) /\ HeardNow(h, v, n) /\ Increasing(h) => Increasing(h1)
  <2>1. h \in Seq(Nat \X Nat) /\ n \in Nat /\ v \in Nat /\ addedTo[l] \in Nat /\ n + 1 <= addedTo[l]
    BY <1>5, <1>6, <1>13
  <2>2. QED
    BY <2>1, HeardMore
<1> HIDE DEF h1
<1>15. heard'[l] = h1 /\ \A x \in Lists : x # l => heard'[x] = heard[x]
  BY <1>2, <1>3, <1>9 DEF DeferredShape
<1>16. DeferredShape'
  <2>1. heard' \in [Lists -> Seq(Nat \X Nat)]
    BY <1>3, <1>9, <1>14 DEF DeferredShape
  <2>2. QED
    BY <1>1, <1>3, <1>10, <2>1 DEF DeferredShape
<1>17. FiringsKept'
  <2>1. ASSUME NEW i \in 1..Len(firings') PROVE FiringHolds(i)'
    <3>1. CASE i = Len(firings)
      BY <1>1, <1>2, <1>8, <1>10, <3>1 DEF FiringHolds, v, k
    <3>2. CASE i # Len(firings)
      BY <1>1, <1>2, <1>3, <1>10, <3>2 DEF FiringsKept, FiringHolds
    <3>3. QED
      BY <3>1, <3>2
  <2>2. QED
    BY <1>10, <2>1 DEF FiringsKept
<1>18. ASSUME NEW x \in Lists PROVE ListHolds(x)'
  <2>1. CASE x # l
    BY <1>1, <1>10, <1>15, <2>1, OtherKeeps DEF DeferredInv
  <2>2. CASE x = l
    BY <1>1, <1>3, <1>5, <1>10, <2>2 DEF ListHolds, Dropped
  <2>3. QED
    BY <2>1, <2>2
<1>19. ASSUME NEW x \in Settling PROVE SettledKept(x)'
  <2>0. x \in Lists
    BY DEF Settling, Lists
  <2>1. CASE x # l
    BY <1>1, <1>10, <1>15, <2>0, <2>1, OtherSettledKeeps DEF DeferredInv
  <2>2. CASE x = l
    <3>1. InOrder(h) /\ Len(h) = n
      BY <1>2, <1>3, <1>12, <2>2 DEF SettledKept, h
    <3>2. Len(heard'[l]) = Reached(l)' /\ InOrder(heard'[l])
      BY <1>12, <1>14, <1>15, <3>1
    <3>3. QED
      BY <1>1, <1>2, <1>3, <2>2, <3>2 DEF SettledKept
  <2>3. QED
    BY <2>1, <2>2
<1>20. ProgressKept'
  <2>1. CASE l # "progress"
    BY <1>1, <1>3, <1>10, <1>15, <2>1, OtherProgressKeeps DEF Lists
  <2>2. CASE l = "progress"
    <3>1. HeardFits(h, addedTo[l], v) /\ HeardNow(h, v, n) /\ Increasing(h)
      BY <1>2, <1>3, <1>12, <2>2 DEF ProgressKept, h, v
    <3>2. HeardFits(heard'[l], addedTo[l], v) /\ HeardNow(heard'[l], v, Reached(l)') /\ Increasing(heard'[l])
      BY <1>12, <1>14, <1>15, <3>1
    <3>3. v = lists["progress"].memory
      BY <2>2 DEF v
    <3>4. QED
      BY <1>1, <1>3, <2>2, <3>2, <3>3 DEF ProgressKept
  <2>3. QED
    BY <2>1, <2>2
<1>21. QED
  BY <1>16, <1>17, <1>18, <1>19, <1>20 DEF DeferredInv

\* The innermost firing is at a list that is fired, which is usable and remembers.
LEMMA AtTop ==
  ASSUME DeferredInv, firings # <<>>, NEW l \in Lists, l = Innermost.list
  PROVE  /\ lists[l] \in ListRecord /\ lists[l].firing /\ lists[l].usable /\ lists[l].fired
         /\ lists[l].memory \in Nat \ {Nothing} /\ lists[l].memory = Innermost.value
         /\ lists[l].index \in Nat /\ lists[l].list \in Seq(Nat) /\ Len(lists[l].list) \in Nat
         /\ lists[l].length = Len(lists[l].list) /\ lists[l].index <= lists[l].length
         /\ lists[l].stack \in Seq(Nat) /\ lists[l].start = 0
         /\ Dropped(l) \in Nat /\ addedTo[l] \in Nat /\ Dropped(l) = addedTo[l] - Len(lists[l].list)
         /\ Numbered(lists[l].list, Dropped(l))
         /\ Innermost.called => lists[l].index < lists[l].length
         /\ InFirings(l) /\ (WasCalled(l) <=> Innermost.called)
<1>1. lists[l] \in ListRecord /\ addedTo[l] \in Nat
  BY DEF DeferredInv, DeferredShape
<1>2. /\ Innermost \in FiringRecord /\ InFirings(l) /\ (WasCalled(l) <=> Innermost.called)
      /\ lists[l].firing /\ lists[l].memory = Innermost.value
      /\ Innermost.called => lists[l].index < lists[l].length
  BY TopFiring DEF FiringHolds
<1>3. lists[l].memory \in Nat \ {Nothing}
  BY <1>2 DEF FiringRecord
<1>4. ListHolds(l)
  BY DEF DeferredInv
<1>5. /\ lists[l].index \in Nat /\ lists[l].list \in Seq(Nat) /\ lists[l].stack \in Seq(Nat)
      /\ lists[l].start = 0
  BY <1>1 DEF ListRecord
<1>6. QED
  BY <1>1, <1>2, <1>3, <1>4, <1>5, LenProperties DEF ListHolds, Dropped

LEMMA ReturnsKeeps == ASSUME DeferredInv, CallbackReturns PROVE DeferredInv'
<1> SUFFICES ASSUME NEW l \in Lists, l = Innermost.list PROVE DeferredInv'
  BY TopFiring DEF CallbackReturns
<1>1. /\ firings # <<>> /\ Innermost.called
      /\ lists' = [lists EXCEPT ![l].index = @ + 1]
      /\ firings' = [firings EXCEPT ![Len(firings)].called = FALSE]
      /\ UNCHANGED <<deferredState, addedTo, heard, notified, thrown>>
  BY DEF CallbackReturns
<1>2. /\ DeferredShape /\ FiringsKept /\ ProgressKept /\ ListHolds(l)
      /\ l \in Settling => SettledKept(l)
  BY DEF DeferredInv
<1>3. PICK f \in FiringRecord : f = [Innermost EXCEPT !.called = FALSE]
  BY <1>1, TopFiring DEF FiringRecord
<1>4. /\ firings' = [firings EXCEPT ![Len(firings)] = f]
      /\ f.list = l /\ ~f.called /\ f.value = lists[l].memory
  BY <1>1, <1>2, <1>3, TopFiring, AtTop DEF DeferredShape, FiringRecord
<1>5. /\ firings' \in Seq(FiringRecord) /\ OneFiring' /\ Len(firings') = Len(firings)
      /\ \A x \in Lists : (InFirings(x)' <=> InFirings(x)) /\ (x # l => (WasCalled(x)' <=> WasCalled(x)))
      /\ ~WasCalled(l)'
      /\ firings'[Len(firings)] = f
      /\ \A i \in 1..(Len(firings) - 1) : firings'[i] = firings[i] /\ firings[i].list # l
  BY <1>1, <1>4, FiringTopped, ZenonT(60)
<1>6. PICK d \in ListRecord : d = [lists[l] EXCEPT !.index = @ + 1]
  <2>1. lists[l] \in ListRecord /\ lists[l].index + 1 \in Nat
    BY <1>1, AtTop, SMTT(60)
  <2> DEFINE next == lists[l].index + 1
  <2>2. next \in Nat
    BY <2>1
  <2> HIDE DEF next
  <2>3. [lists[l] EXCEPT !.index = next] \in ListRecord
    BY <2>1, <2>2 DEF ListRecord
  <2>4. QED
    BY <2>3 DEF next
<1>7. /\ d.usable = lists[l].usable /\ d.list = lists[l].list /\ d.firing = lists[l].firing
      /\ d.fired = lists[l].fired /\ d.memory = lists[l].memory /\ d.index = lists[l].index + 1
      /\ d.length = lists[l].length /\ d.repeats = lists[l].repeats /\ d.stack = lists[l].stack
      /\ d.index <= d.length
  <2>1. lists[l] \in ListRecord
    BY <1>1, AtTop
  <2>2. /\ d.usable = lists[l].usable /\ d.list = lists[l].list /\ d.firing = lists[l].firing
        /\ d.fired = lists[l].fired /\ d.memory = lists[l].memory /\ d.index = lists[l].index + 1
        /\ d.length = lists[l].length /\ d.repeats = lists[l].repeats /\ d.stack = lists[l].stack
    BY <1>6, <2>1 DEF ListRecord
  <2>3. lists[l].index \in Nat /\ lists[l].length \in Nat /\ lists[l].index < lists[l].length
    BY <1>1, AtTop
  <2>4. QED
    BY <2>2, <2>3
<1>8. lists' = [lists EXCEPT ![l] = d]
  BY <1>1, <1>2, <1>6 DEF DeferredShape
<1>9. lists'[l] = d /\ \A x \in Lists : x # l => lists'[x] = lists[x]
  BY <1>2, <1>8 DEF DeferredShape
<1>10. DeferredShape'
  <2>1. lists' \in [Lists -> ListRecord]
    BY <1>2, <1>8 DEF DeferredShape
  <2>2. QED
    BY <1>1, <1>2, <1>5, <2>1 DEF DeferredShape
<1>11. FiringsKept'
  <2>1. ASSUME NEW i \in 1..Len(firings') PROVE FiringHolds(i)'
    <3>0. Len(firings) \in Nat
      BY <1>1, TopFiring
    <3>1. CASE i = Len(firings)
      BY <1>1, <1>4, <1>5, <1>7, <1>9, <3>1, AtTop DEF FiringHolds
    <3>2. CASE i # Len(firings)
      <4>1. i \in 1..(Len(firings) - 1) /\ i \in 1..Len(firings)
        BY <1>5, <3>0, <3>2
      <4>2. firings'[i] = firings[i] /\ firings[i].list # l /\ FiringHolds(i) /\ firings[i] \in FiringRecord
        BY <1>2, <1>5, <4>1 DEF FiringsKept, DeferredShape
      <4>3. lists'[firings[i].list] = lists[firings[i].list]
        BY <1>9, <4>2 DEF FiringRecord
      <4>4. QED
        BY <4>2, <4>3 DEF FiringHolds
    <3>3. QED
      BY <3>1, <3>2
  <2>2. QED
    BY <1>5, <2>1 DEF FiringsKept
<1>12. ASSUME NEW x \in Lists PROVE ListHolds(x)'
  <2>1. CASE x # l
    BY <1>1, <1>5, <1>9, <2>1, OtherKeeps DEF DeferredInv
  <2>2. CASE x = l
    BY <1>1, <1>2, <1>5, <1>7, <1>9, <2>2 DEF ListHolds, Dropped
  <2>3. QED
    BY <2>1, <2>2
<1>13. Reached(l)' = Reached(l)
  <2>1. Reached(l) = Dropped(l) + lists[l].index + 1
    BY <1>1, AtTop DEF Reached
  <2>2. Reached(l)' = Dropped(l) + (lists[l].index + 1) + 0
    BY <1>1, <1>5, <1>7, <1>9 DEF Reached, Dropped
  <2>3. Dropped(l) \in Nat /\ lists[l].index \in Nat
    BY <1>1, AtTop
  <2>4. Reached(l)' = Dropped(l) + lists[l].index + 1
    BY <2>2, <2>3
  <2>5. QED
    BY <2>1, <2>4
<1>14. ASSUME NEW x \in Settling PROVE SettledKept(x)'
  <2>0. x \in Lists /\ OtherList(x) \in Lists
    BY DEF Settling, Lists, OtherList
  <2>1. CASE x # l
    BY <1>1, <1>5, <1>7, <1>9, <2>0, <2>1, OtherSettledKeeps DEF DeferredInv
  <2>2. CASE x = l
    <3>1. OtherList(x) # l
      BY <2>2 DEF OtherList, Settling
    <3>2. QED
      BY <1>1, <1>2, <1>5, <1>7, <1>9, <1>13, <2>0, <2>2, <3>1, AtTop DEF SettledKept
  <2>3. QED
    BY <2>1, <2>2
<1>15. ProgressKept'
  <2>1. CASE l # "progress"
    BY <1>1, <1>2, <1>5, <1>9, <2>1, OtherProgressKeeps DEF Lists
  <2>2. CASE l = "progress"
    BY <1>1, <1>2, <1>5, <1>7, <1>9, <1>13, <2>2 DEF ProgressKept
  <2>3. QED
    BY <2>1, <2>2
<1>16. QED
  BY <1>10, <1>11, <1>12, <1>14, <1>15 DEF DeferredInv

LEMMA CallbackThrowKeeps == ASSUME DeferredInv, CallbackThrows PROVE DeferredInv'
<1>1. /\ firings' = <<>> /\ thrown' = TRUE
      /\ UNCHANGED <<deferredState, lists, addedTo, heard, notified>>
  BY DEF CallbackThrows
<1>2. Len(firings') = 0 /\ \A x \in Lists : ~InFirings(x)'
  BY <1>1 DEF InFirings
<1>3. FiringsKept'
  BY <1>2 DEF FiringsKept, OneFiring
<1>4. DeferredShape'
  BY <1>1 DEF DeferredInv, DeferredShape
<1>5. ASSUME NEW x \in Lists PROVE ListHolds(x)'
  BY <1>1 DEF DeferredInv, ListHolds, Dropped
<1>6. ASSUME NEW x \in Settling PROVE SettledKept(x)'
  <2>1. x \in Lists
    BY DEF Settling, Lists
  <2>2. QED
    BY <1>1, <1>2, <2>1 DEF DeferredInv, SettledKept
<1>7. ProgressKept'
  BY <1>1, <1>2 DEF DeferredInv, ProgressKept, Lists
<1>8. QED
  BY <1>3, <1>4, <1>5, <1>6, <1>7 DEF DeferredInv

\* A step that changes one list, l, and the firings of no other.
LEMMA OneListChanges ==
  ASSUME DeferredInv, NEW l \in Lists, NEW d \in ListRecord, lists' = [lists EXCEPT ![l] = d],
         d.usable = lists[l].usable, addedTo' \in [Lists -> Nat], notified' \in Nat,
         \A x \in Lists : x # l => addedTo'[x] = addedTo[x], l # "progress" => notified' = notified,
         UNCHANGED <<heard, thrown, deferredState>>,
         firings' \in Seq(FiringRecord), OneFiring',
         \A x \in Lists : x # l => (InFirings(x)' <=> InFirings(x)) /\ (WasCalled(x)' <=> WasCalled(x)),
         \A i \in 1..Len(firings') :
             IF firings'[i].list = l THEN FiringHolds(i)'
             ELSE i \in 1..Len(firings) /\ firings'[i] = firings[i],
         ListHolds(l)', l \in Settling => SettledKept(l)', l = "progress" => ProgressKept'
  PROVE  DeferredInv'
<1>1. lists'[l] = d /\ lists' \in [Lists -> ListRecord] /\ \A x \in Lists : x # l => lists'[x] = lists[x]
  BY DEF DeferredInv, DeferredShape
<1>2. DeferredShape'
  BY <1>1 DEF DeferredInv, DeferredShape
<1>3. FiringsKept'
  <2>1. ASSUME NEW i \in 1..Len(firings') PROVE FiringHolds(i)'
    <3>1. CASE firings'[i].list = l
      BY <3>1
    <3>2. CASE firings'[i].list # l
      <4>1. i \in 1..Len(firings) /\ firings'[i] = firings[i]
        BY <3>2
      <4>2. FiringHolds(i) /\ firings[i] \in FiringRecord
        BY <4>1 DEF DeferredInv, FiringsKept, DeferredShape
      <4>3. lists'[firings[i].list] = lists[firings[i].list]
        BY <1>1, <3>2, <4>1, <4>2 DEF FiringRecord
      <4>4. QED
        BY <4>1, <4>2, <4>3 DEF FiringHolds
    <3>3. QED
      BY <3>1, <3>2
  <2>2. QED
    BY <2>1 DEF FiringsKept
<1>4. ASSUME NEW x \in Lists PROVE ListHolds(x)'
  <2>1. CASE x # l
    BY <1>1, <2>1, OtherKeeps DEF DeferredInv
  <2>2. CASE x = l
    BY <2>2
  <2>3. QED
    BY <2>1, <2>2
<1>5. ASSUME NEW x \in Settling PROVE SettledKept(x)'
  <2>0. x \in Lists /\ OtherList(x) \in Lists
    BY DEF Settling, Lists, OtherList
  <2>1. CASE x # l
    <3>1. lists'[OtherList(x)].usable = lists[OtherList(x)].usable
      BY <1>1, <2>0
    <3>2. QED
      BY <1>1, <2>0, <2>1, <3>1, OtherSettledKeeps DEF DeferredInv
  <2>2. CASE x = l
    BY <2>2
  <2>3. QED
    BY <2>1, <2>2
<1>6. ProgressKept'
  <2>1. CASE l # "progress"
    BY <1>1, <2>1, OtherProgressKeeps DEF DeferredInv, Lists
  <2>2. QED
    BY <2>1
<1>7. QED
  BY <1>2, <1>3, <1>4, <1>5, <1>6 DEF DeferredInv

\* A list that is not fired begins to fire: fire() leaves the others alone.
LEMMA ListFires ==
  ASSUME DeferredInv, NEW l \in Lists, ~lists[l].firing, NEW v \in Nat \ {Nothing},
         firings' = Append(firings, FiringOf(l, v)),
         lists'[l].firing, lists'[l].memory = v
  PROVE  /\ firings' \in Seq(FiringRecord) /\ OneFiring'
         /\ \A x \in Lists : x # l => (InFirings(x)' <=> InFirings(x)) /\ (WasCalled(x)' <=> WasCalled(x))
         /\ InFirings(l)' /\ ~WasCalled(l)'
         /\ \A i \in 1..Len(firings') :
                IF firings'[i].list = l THEN FiringHolds(i)'
                ELSE i \in 1..Len(firings) /\ firings'[i] = firings[i]
<1>1. /\ firings' \in Seq(FiringRecord) /\ OneFiring' /\ Len(firings') = Len(firings) + 1
      /\ \A x \in Lists : (InFirings(x)' <=> InFirings(x) \/ x = l) /\ (WasCalled(x)' <=> WasCalled(x))
      /\ ~InFirings(l) /\ firings'[Len(firings) + 1] = FiringOf(l, v) /\ Len(firings) \in Nat
      /\ \A i \in 1..Len(firings) : firings'[i] = firings[i] /\ firings[i].list # l
  BY FiringPushed
<1>2. ~WasCalled(l)'
  BY <1>1 DEF WasCalled, InFirings
<1>3. ASSUME NEW i \in 1..Len(firings')
      PROVE  IF firings'[i].list = l THEN FiringHolds(i)'
             ELSE i \in 1..Len(firings) /\ firings'[i] = firings[i]
  <2>1. CASE i = Len(firings) + 1
    <3>1. firings'[i].list = l /\ ~firings'[i].called /\ firings'[i].value = v
      BY <1>1, <2>1 DEF FiringOf
    <3>2. QED
      BY <3>1 DEF FiringHolds
  <2>2. CASE i # Len(firings) + 1
    BY <1>1, <2>2
  <2>3. QED
    BY <2>1, <2>2
<1>4. QED
  BY <1>1, <1>2, <1>3

\* The values that wait behind the first.
LEMMA WaitsMoveUp ==
  ASSUME NEW stack \in Seq(Nat), stack # <<>>, NEW v \in Nat, NEW last \in Nat, WaitsFit(stack, v, last)
  PROVE  /\ Head(stack) \in Nat /\ v < Head(stack) /\ Head(stack) <= last
         /\ Tail(stack) \in Seq(Nat) /\ WaitsFit(Tail(stack), Head(stack), last)
<1>1. /\ Len(stack) \in Nat \ {0} /\ Head(stack) = stack[1] /\ Tail(stack) \in Seq(Nat)
      /\ Len(Tail(stack)) = Len(stack) - 1
      /\ \A i \in 1..(Len(stack) - 1) : Tail(stack)[i] = stack[i + 1]
  BY HeadTailProperties, EmptySeq, LenProperties
<1> DEFINE len == Len(stack)
           tail == Tail(stack)
           lenT == Len(tail)
<1>2. \A i \in 1..len : stack[i] \in Nat /\ v < stack[i] /\ stack[i] <= last
  BY ElementOfSeq DEF WaitsFit
<1>3. \A i, j \in 1..len : i < j => stack[i] < stack[j]
  BY DEF WaitsFit
<1>4. len \in Nat \ {0} /\ lenT = len - 1 /\ \A i \in 1..(len - 1) : tail[i] = stack[i + 1]
  BY <1>1
<1>5. 1 \in 1..len
  BY <1>4
<1> HIDE DEF len, tail, lenT
<1>6. ASSUME NEW i \in 1..lenT PROVE stack[1] < tail[i] /\ tail[i] <= last
  <2>1. i + 1 \in 1..len /\ i \in 1..(len - 1) /\ 1 < i + 1
    BY <1>4
  <2>2. QED
    BY <1>2, <1>3, <1>4, <1>5, <2>1
<1>7. ASSUME NEW i \in 1..lenT, NEW j \in 1..lenT, i < j PROVE tail[i] < tail[j]
  <2>1. /\ i + 1 \in 1..len /\ j + 1 \in 1..len /\ i + 1 < j + 1
        /\ tail[i] = stack[i + 1] /\ tail[j] = stack[j + 1]
    BY <1>4, <1>7
  <2>2. QED
    BY <1>3, <2>1
<1>8. WaitsFit(tail, stack[1], last)
  BY <1>6, <1>7 DEF WaitsFit, lenT
<1>9. QED
  BY <1>1, <1>2, <1>5, <1>8 DEF tail

\* One more value waits.
LEMMA WaitsOneMore ==
  ASSUME NEW stack \in Seq(Nat), NEW v \in Nat, NEW last \in Nat, WaitsFit(stack, v, last), v <= last
  PROVE  Append(stack, last + 1) \in Seq(Nat) /\ WaitsFit(Append(stack, last + 1), v, last + 1)
<1> DEFINE more == Append(stack, last + 1)
           len == Len(stack)
           len1 == Len(more)
<1>1. /\ more \in Seq(Nat) /\ len1 = len + 1 /\ len \in Nat
      /\ \A i \in 1..len : more[i] = stack[i]
      /\ more[len + 1] = last + 1
  BY Pushed
<1>2. \A i \in 1..len : stack[i] \in Nat /\ v < stack[i] /\ stack[i] <= last
  BY ElementOfSeq DEF WaitsFit
<1>3. \A i, j \in 1..len : i < j => stack[i] < stack[j]
  BY DEF WaitsFit
<1> HIDE DEF more, len, len1
<1>4. ASSUME NEW i \in 1..len1 PROVE v < more[i] /\ more[i] <= last + 1
  <2>1. CASE i = len + 1
    BY <1>1, <2>1
  <2>2. CASE i # len + 1
    <3>1. i \in 1..len
      BY <1>1, <2>2
    <3>2. more[i] = stack[i] /\ stack[i] \in Nat /\ v < stack[i] /\ stack[i] <= last
      BY <1>1, <1>2, <3>1
    <3>3. QED
      BY <3>2
  <2>3. QED
    BY <2>1, <2>2
<1>5. ASSUME NEW i \in 1..len1, NEW j \in 1..len1, i < j PROVE more[i] < more[j]
  <2>1. i \in 1..len
    BY <1>1, <1>5
  <2>2. CASE j = len + 1
    BY <1>1, <1>2, <2>1, <2>2, SMTT(60)
  <2>3. CASE j # len + 1
    <3>1. j \in 1..len
      BY <1>1, <2>3
    <3>2. QED
      BY <1>1, <1>3, <1>5, <2>1, <3>1
  <2>4. QED
    BY <2>2, <2>3
<1>6. WaitsFit(more, v, last + 1)
  BY <1>4, <1>5 DEF WaitsFit, len1
<1>7. QED
  BY <1>1, <1>6 DEF more

LEMMA WaitsLonger ==
  ASSUME NEW stack \in Seq(Nat), NEW v \in Nat, NEW last \in Nat, WaitsFit(stack, v, last)
  PROVE  WaitsFit(stack, v, last + 1)
<1>1. \A i \in 1..Len(stack) : stack[i] \in Nat
  BY ElementOfSeq
<1>2. ASSUME NEW i \in 1..Len(stack) PROVE v < stack[i] /\ stack[i] <= last + 1
  BY <1>1 DEF WaitsFit
<1>3. QED
  BY <1>2 DEF WaitsFit

\* A later value: nothing heard of the progress is as late.
LEMMA LaterHeard ==
  ASSUME NEW h \in Seq(Nat \X Nat), NEW added \in Nat, NEW v \in Nat, NEW w \in Nat, v < w,
         HeardFits(h, added, v), NEW reached
  PROVE  HeardFits(h, added, w) /\ HeardNow(h, w, reached)
<1>1. \A i \in 1..Len(h) : h[i] \in Nat \X Nat
  BY ElementOfSeq
<1>2. \A i \in 1..Len(h) : h[i][2] \in Nat
  BY <1>1
<1>3. ASSUME NEW i \in 1..Len(h) PROVE h[i][1] <= added /\ h[i][2] <= w /\ h[i][2] # w
  BY <1>2 DEF HeardFits
<1>4. QED
  BY <1>3 DEF HeardFits, HeardNow

LEMMA FromRecord == ASSUME NEW c \in ListRecord PROVE c \in ListFrom
<1>1. c = [usable |-> c.usable, list |-> c.list, firing |-> c.firing, fired |-> c.fired,
           memory |-> c.memory, start |-> c.start, index |-> c.index, length |-> c.length,
           repeats |-> c.repeats, stack |-> c.stack]
  BY DEF ListRecord
<1>2. c.start = 0 /\ c.usable \in BOOLEAN /\ c.firing \in BOOLEAN /\ c.fired \in BOOLEAN
      /\ c.repeats \in BOOLEAN
  BY DEF ListRecord
<1>3. c.list \in Seq(Nat) /\ c.memory \in Nat /\ c.index \in Nat /\ c.length \in Nat
      /\ c.stack \in Seq(Nat)
  BY DEF ListRecord
<1>4. QED
  BY <1>1, <1>2, <1>3 DEF ListFrom

LEMMA FireIs ==
  ASSUME NEW c \in ListFrom, NEW v \in Nat
  PROVE  LET d == StartFire(c, v)
         IN  /\ d \in ListRecord
             /\ d.usable = c.usable /\ d.list = c.list /\ d.firing /\ d.fired /\ d.memory = v
             /\ d.index = c.start /\ d.start = 0 /\ d.length = Len(c.list)
             /\ d.repeats = c.repeats /\ d.stack = c.stack
<1> DEFINE d == StartFire(c, v)
<1>1. Len(c.list) \in Nat /\ c.start \in Nat
  BY LenProperties DEF ListFrom
<1>2. PICK len \in Nat : len = Len(c.list)
  BY <1>1
<1>3. d = [c EXCEPT !.memory = v, !.fired = TRUE, !.index = c.start, !.start = 0,
                    !.length = len, !.firing = TRUE]
  BY <1>2 DEF StartFire
<1> HIDE DEF d
<1>4. /\ d.usable = c.usable /\ d.list = c.list /\ d.firing /\ d.fired /\ d.memory = v
      /\ d.index = c.start /\ d.start = 0 /\ d.length = len
      /\ d.repeats = c.repeats /\ d.stack = c.stack
  BY <1>3 DEF ListFrom
<1>5. d \in ListRecord
  BY <1>1, <1>3 DEF ListFrom, ListRecord
<1>6. QED
  BY <1>2, <1>4, <1>5 DEF d

LEMMA FiringOfIs ==
  ASSUME NEW l \in Lists, NEW v \in Nat \ {Nothing}
  PROVE  LET f == FiringOf(l, v)
         IN  f \in FiringRecord /\ f.list = l /\ f.value = v /\ ~f.called
BY DEF FiringOf, FiringRecord

LEMMA LoopEndsKeeps == ASSUME DeferredInv, LoopEnds PROVE DeferredInv'
<1> SUFFICES ASSUME NEW l \in Lists, l = Innermost.list PROVE DeferredInv'
  BY TopFiring DEF LoopEnds, PageCode
<1>1. /\ firings # <<>> /\ ~Innermost.called /\ ~More(lists[l])
      /\ UNCHANGED <<deferredState, addedTo, heard, notified, thrown>>
  BY DEF LoopEnds, PageCode
<1>2. /\ DeferredShape /\ ProgressKept /\ ListHolds(l)
      /\ l \in Settling => SettledKept(l)
  BY DEF DeferredInv
<1>3. /\ lists[l] \in ListRecord /\ lists[l].firing /\ lists[l].usable /\ lists[l].fired
      /\ lists[l].memory \in Nat \ {Nothing} /\ lists[l].memory = Innermost.value
      /\ lists[l].index \in Nat /\ lists[l].list \in Seq(Nat) /\ Len(lists[l].list) \in Nat
      /\ lists[l].length = Len(lists[l].list) /\ lists[l].index <= lists[l].length
      /\ lists[l].stack \in Seq(Nat) /\ lists[l].start = 0
      /\ Dropped(l) \in Nat /\ addedTo[l] \in Nat /\ Dropped(l) = addedTo[l] - Len(lists[l].list)
      /\ Numbered(lists[l].list, Dropped(l))
      /\ InFirings(l) /\ ~WasCalled(l)
  BY <1>1, AtTop
<1>4. lists[l].index = Len(lists[l].list) /\ Reached(l) = addedTo[l]
  <2> DEFINE len == Len(lists[l].list)
             index == lists[l].index
             base == Dropped(l)
             added == addedTo[l]
  <2>1. len \in Nat /\ index \in Nat /\ index <= len /\ ~(index < len) /\ base \in Nat /\ added \in Nat
        /\ base = added - len
    BY <1>1, <1>3 DEF More
  <2>2. Reached(l) = base + index + 0
    BY <1>3 DEF Reached
  <2> HIDE DEF len, index, base, added
  <2>3. index = len /\ base + index + 0 = added
    BY <2>1
  <2>4. QED
    BY <2>2, <2>3 DEF len, index, added
<1>5. addedTo' \in [Lists -> Nat] /\ notified' \in Nat
  BY <1>1, <1>2 DEF DeferredShape
<1>6. CASE lists[l].stack = <<>>
  <2>1. lists' = [lists EXCEPT ![l] = AfterLoop([lists[l] EXCEPT !.firing = FALSE])] /\ firings' = Popped
    BY <1>6 DEF LoopEnds
  <2>2. PICK c \in ListRecord : c = [lists[l] EXCEPT !.firing = FALSE]
    BY <1>3 DEF ListRecord
  <2>3. /\ c.usable /\ c.list = lists[l].list /\ ~c.firing /\ c.fired
        /\ c.memory = lists[l].memory /\ c.index = lists[l].index
        /\ c.length = lists[l].length /\ c.repeats = lists[l].repeats /\ c.stack = <<>>
    BY <1>3, <1>6, <2>2 DEF ListRecord
  <2>4. PICK d \in ListRecord : d = AfterLoop(c)
    <3>1. c.memory # Nothing
      BY <1>3, <2>3
    <3>2. [c EXCEPT !.list = <<>>] \in ListRecord
      BY EmptySeq DEF ListRecord
    <3>3. QED
      BY <2>3, <3>1, <3>2 DEF AfterLoop
  <2>5. /\ d.usable /\ d.list = IF c.repeats THEN c.list ELSE <<>>
        /\ ~d.firing /\ d.fired
        /\ d.memory = c.memory /\ d.repeats = c.repeats /\ d.stack = <<>>
    <3>1. CASE c.repeats
      BY <2>3, <2>4, <3>1 DEF AfterLoop
    <3>2. CASE ~c.repeats
      <4>1. c.memory # Nothing
        BY <1>3, <2>3
      <4>2. d = [c EXCEPT !.list = <<>>]
        BY <2>3, <2>4, <3>2, <4>1 DEF AfterLoop
      <4>3. QED
        BY <2>3, <3>2, <4>2 DEF ListRecord
    <3>3. QED
      BY <3>1, <3>2
  <2>6. lists' = [lists EXCEPT ![l] = d] /\ lists'[l] = d
    BY <1>2, <2>1, <2>2, <2>4 DEF DeferredShape
  <2>7. /\ firings' \in Seq(FiringRecord) /\ Len(firings') = Len(firings) - 1 /\ Len(firings) \in Nat \ {0}
        /\ \A i \in 1..(Len(firings) - 1) : firings'[i] = firings[i] /\ firings[i].list # l
        /\ firings[Len(firings)].list = l
    BY <1>1, <2>1, FiringPopped, TopFiring
  <2>8. OneFiring'
    BY <2>7 DEF DeferredInv, FiringsKept, OneFiring
  <2>9. /\ \A x \in Lists : x # l => (InFirings(x)' <=> InFirings(x)) /\ (WasCalled(x)' <=> WasCalled(x))
        /\ ~InFirings(l)'
    BY <2>7, SMTT(90) DEF InFirings, WasCalled
  <2>10. \A i \in 1..Len(firings') :
             IF firings'[i].list = l THEN FiringHolds(i)'
             ELSE i \in 1..Len(firings) /\ firings'[i] = firings[i]
    BY <2>7
  <2>11. ListHolds(l)'
    <3>1. d.list = lists[l].list \/ d.list = <<>>
      BY <2>3, <2>5
    <3>2. Dropped(l)' = addedTo[l] - Len(d.list)
      BY <1>1, <2>6 DEF Dropped
    <3>3. Dropped(l)' \in Nat /\ Numbered(d.list, Dropped(l)')
      BY <1>3, <3>1, <3>2, SMTT(60) DEF Numbered
    <3>4. d.memory # Nothing
      BY <1>3, <2>3, <2>5
    <3>5. QED
      BY <2>5, <2>6, <3>3, <3>4 DEF ListHolds
  <2>12. ASSUME l \in Settling PROVE SettledKept(l)'
    <3>0. OtherList(l) # l /\ OtherList(l) \in Lists
      BY <2>12 DEF OtherList, Settling, Lists
    <3>1. lists'[OtherList(l)] = lists[OtherList(l)]
      BY <1>2, <2>6, <3>0 DEF DeferredShape
    <3>2. SettledKept(l) /\ Len(heard[l]) = addedTo[l]
      BY <1>2, <1>3, <1>4, <2>12 DEF SettledKept
    <3>3. ~d.repeats /\ d.list = <<>>
      BY <2>3, <2>5, <3>2 DEF SettledKept
    <3>4. QED
      BY <1>1, <1>3, <2>5, <2>6, <2>9, <3>1, <3>2, <3>3 DEF SettledKept
  <2>13. ASSUME l = "progress" PROVE ProgressKept'
    <3>1. d.memory = lists[l].memory /\ d.stack = lists[l].stack
      BY <1>6, <2>3, <2>5
    <3>2. QED
      BY <1>1, <1>2, <2>6, <2>9, <2>13, <3>1 DEF ProgressKept
  <2>14. d.usable = lists[l].usable
    BY <1>3, <2>5
  <2>15. QED
    BY <1>1, <1>5, <2>6, <2>7, <2>8, <2>9, <2>10, <2>11, <2>12, <2>13, <2>14, OneListChanges
<1>7. CASE lists[l].stack # <<>>
  <2>0. l = "progress"
    BY <1>2, <1>7 DEF SettledKept, Settling, Lists
  <2>1. PICK v \in Nat : v = Head(lists[l].stack)
    BY <1>2, <1>3, <1>7, <2>0, WaitsMoveUp, HeadTailProperties
  <2>2. /\ lists[l].memory < v /\ v <= notified /\ Tail(lists[l].stack) \in Seq(Nat)
        /\ WaitsFit(Tail(lists[l].stack), v, notified)
    <3>1. WaitsFit(lists[l].stack, lists[l].memory, notified) /\ notified \in Nat
      BY <1>2, <2>0 DEF ProgressKept, DeferredShape
    <3>2. QED
      BY <1>3, <1>7, <2>1, <3>1, WaitsMoveUp
  <2>3. v # Nothing
    BY <1>3, <2>2 DEF Nothing
  <2>4. /\ lists' = [lists EXCEPT ![l] = StartFire([lists[l] EXCEPT !.stack = Tail(@)], v)]
        /\ firings' = Append(Popped, FiringOf(l, v))
    BY <1>7, <2>1 DEF LoopEnds
  <2>5. PICK c \in ListRecord : c = [lists[l] EXCEPT !.stack = Tail(@)]
    BY <1>3, <2>2 DEF ListRecord
  <2>6. /\ c.usable /\ c.list = lists[l].list /\ c.start = 0
        /\ c.repeats = lists[l].repeats /\ c.stack = Tail(lists[l].stack)
    BY <1>3, <2>5 DEF ListRecord
  <2>7. PICK d \in ListRecord : d = StartFire(c, v)
    <3>1. c \in ListFrom
      BY FromRecord
    <3>2. StartFire(c, v) \in ListRecord
      BY <3>1, FireIs
    <3>3. QED
      BY <3>2
  <2>8. /\ d.usable /\ d.list = lists[l].list /\ d.firing /\ d.fired /\ d.memory = v
        /\ d.index = 0 /\ d.length = Len(lists[l].list)
        /\ d.repeats = lists[l].repeats /\ d.stack = Tail(lists[l].stack)
    <3>1. c \in ListFrom
      BY FromRecord
    <3>2. QED
      BY <2>6, <2>7, <3>1, FireIs
  <2>9. lists' = [lists EXCEPT ![l] = d] /\ lists'[l] = d
    BY <1>2, <2>4, <2>5, <2>7 DEF DeferredShape
  <2>10. PICK f \in FiringRecord : f = FiringOf(l, v) /\ f.list = l /\ f.value = v /\ ~f.called
    <3>1. v \in Nat \ {Nothing}
      BY <2>3
    <3>2. QED
      BY <3>1, FiringOfIs
  <2>11. /\ firings' \in Seq(FiringRecord) /\ OneFiring' /\ Len(firings') = Len(firings)
         /\ \A x \in Lists : (InFirings(x)' <=> InFirings(x))
                              /\ (x # l => (WasCalled(x)' <=> WasCalled(x)))
         /\ ~WasCalled(l)'
         /\ firings'[Len(firings)] = f
         /\ \A i \in 1..(Len(firings) - 1) : firings'[i] = firings[i]
    BY <1>1, <2>4, <2>10, FiringTopped
  <2>12. ASSUME NEW i \in 1..Len(firings')
         PROVE  IF firings'[i].list = l THEN FiringHolds(i)'
                ELSE i \in 1..Len(firings) /\ firings'[i] = firings[i]
    <3>1. CASE i = Len(firings)
      BY <2>8, <2>9, <2>10, <2>11, <3>1 DEF FiringHolds
    <3>2. CASE i # Len(firings)
      <4>1. Len(firings) \in Nat \ {0} /\ firings[Len(firings)].list = l /\ i \in 1..Len(firings)
            /\ i \in 1..(Len(firings) - 1)
        BY <1>1, <2>11, <3>2, TopFiring
      <4>2. firings[i].list # l
        BY <1>1, <4>1, FiringPopped
      <4>3. QED
        BY <2>11, <4>1, <4>2
    <3>3. QED
      BY <3>1, <3>2
  <2>13. Dropped(l)' = Dropped(l)
    BY <1>1, <2>8, <2>9 DEF Dropped
  <2>14. ListHolds(l)'
    BY <1>1, <1>2, <1>3, <2>3, <2>8, <2>9, <2>11, <2>13 DEF ListHolds
  <2>15. ProgressKept'
    <3>1. HeardFits(heard[l], addedTo[l], v) /\ HeardNow(heard[l], v, Reached(l)')
      <4>1. HeardFits(heard[l], addedTo[l], lists[l].memory) /\ heard[l] \in Seq(Nat \X Nat)
        BY <1>2, <2>0 DEF ProgressKept, DeferredShape
      <4>2. QED
        BY <1>3, <2>2, <4>1, LaterHeard
    <3>2. QED
      BY <1>1, <1>2, <2>0, <2>2, <2>8, <2>9, <3>1 DEF ProgressKept
  <2>16. d.usable = lists[l].usable
    BY <1>3, <2>8
  <2>17. l \notin Settling
    BY <2>0 DEF Settling
  <2>18. QED
    BY <1>1, <1>5, <2>9, <2>11, <2>12, <2>14, <2>15, <2>16, <2>17, OneListChanges
<1>8. QED
  BY <1>6, <1>7

\* A step that leaves the calls of fire() as they are.
LEMMA FiringsStay ==
  ASSUME DeferredInv, NEW l \in Lists, firings' = firings, lists'[l].firing = lists[l].firing,
         lists'[l].memory = lists[l].memory, lists'[l].index = lists[l].index,
         lists[l].index < lists[l].length => lists'[l].index < lists'[l].length
  PROVE  /\ firings' \in Seq(FiringRecord) /\ OneFiring'
         /\ \A x \in Lists : (InFirings(x)' <=> InFirings(x)) /\ (WasCalled(x)' <=> WasCalled(x))
         /\ \A i \in 1..Len(firings') :
                IF firings'[i].list = l THEN FiringHolds(i)'
                ELSE i \in 1..Len(firings) /\ firings'[i] = firings[i]
<1>1. firings' \in Seq(FiringRecord) /\ OneFiring'
  BY DEF DeferredInv, DeferredShape, FiringsKept, OneFiring
<1>2. \A x \in Lists : (InFirings(x)' <=> InFirings(x)) /\ (WasCalled(x)' <=> WasCalled(x))
  BY DEF InFirings, WasCalled
<1>3. ASSUME NEW i \in 1..Len(firings'), firings'[i].list = l PROVE FiringHolds(i)'
  BY <1>3 DEF DeferredInv, FiringsKept, FiringHolds
<1>4. QED
  BY <1>1, <1>2, <1>3

LEMMA AddKeeps == ASSUME DeferredInv, NEW l \in Lists, Add(l) PROVE DeferredInv'
<1>1. /\ addedTo' = [addedTo EXCEPT ![l] = @ + 1]
      /\ UNCHANGED <<deferredState, heard, notified, thrown>>
  BY DEF Add
<1>2. /\ DeferredShape /\ FiringsKept /\ ProgressKept /\ ListHolds(l)
      /\ l \in Settling => SettledKept(l)
  BY DEF DeferredInv
<1>3. PICK c \in ListRecord : c = lists[l]
  BY <1>2 DEF DeferredShape
<1>4. PICK added \in Nat : added = addedTo[l]
  BY <1>2 DEF DeferredShape
<1>5. /\ addedTo' \in [Lists -> Nat] /\ notified' \in Nat /\ addedTo'[l] = added + 1
      /\ \A x \in Lists : x # l => addedTo'[x] = addedTo[x]
  BY <1>1, <1>2, <1>4 DEF DeferredShape
<1>6. PICK base \in Nat : base = Dropped(l) /\ base = added - Len(c.list)
  BY <1>2, <1>3, <1>4 DEF ListHolds, Dropped
<1>7. /\ c.list \in Seq(Nat) /\ Len(c.list) \in Nat /\ c.index \in Nat /\ c.memory \in Nat /\ c.start = 0
      /\ heard[l] \in Seq(Nat \X Nat) /\ Numbered(c.list, base)
  BY <1>2, <1>3, <1>6, LenProperties DEF ListRecord, DeferredShape, ListHolds
<1>8. PICK list1 \in Seq(Nat) : list1 = Append(c.list, added + 1)
  <2>1. added + 1 \in Nat
    OBVIOUS
  <2>2. Append(c.list, added + 1) \in Seq(Nat)
    BY <1>7, <2>1, Pushed
  <2>3. QED
    BY <2>2
<1>9. /\ Len(list1) = Len(c.list) + 1
      /\ Numbered(list1, base)
  <2> DEFINE len == Len(c.list)
             len1 == Len(list1)
             list == c.list
  <2>1. len1 = len + 1 /\ \A i \in 1..len : list1[i] = list[i] /\ list[i] = base + i
    BY <1>7, <1>8, Pushed DEF Numbered
  <2>2. list1[len + 1] = added + 1 /\ base = added - len /\ len \in Nat
    BY <1>6, <1>7, <1>8, Pushed
  <2> HIDE DEF len, len1, list
  <2>3. ASSUME NEW i \in 1..len1 PROVE list1[i] = base + i
    <3>1. CASE i = len + 1
      BY <2>2, <3>1
    <3>2. CASE i # len + 1
      BY <2>1, <2>2, <3>2
    <3>3. QED
      BY <3>1, <3>2
  <2>4. QED
    BY <2>1, <2>3 DEF Numbered, len1, len
<1>10. PICK more \in ListRecord : more = [c EXCEPT !.list = list1]
  BY DEF ListRecord
<1>11. /\ more.list = list1 /\ more.usable = c.usable /\ more.firing = c.firing /\ more.fired = c.fired
       /\ more.memory = c.memory /\ more.index = c.index /\ more.length = c.length
       /\ more.repeats = c.repeats /\ more.stack = c.stack
  BY <1>10 DEF ListRecord
<1>12. \/ ~c.usable /\ UNCHANGED <<lists, firings>>
       \/ /\ c.usable /\ c.firing
          /\ lists' = [lists EXCEPT ![l] = [more EXCEPT !.length = Len(more.list)]]
          /\ UNCHANGED firings
       \/ /\ c.usable /\ ~c.firing /\ c.memory = Nothing
          /\ lists' = [lists EXCEPT ![l] = more]
          /\ UNCHANGED firings
       \/ /\ c.usable /\ ~c.firing /\ c.memory # Nothing
          /\ lists' = [lists EXCEPT ![l] = StartFire([more EXCEPT !.start = Len(c.list)], c.memory)]
          /\ firings' = Append(firings, FiringOf(l, c.memory))
  BY <1>3, <1>4, <1>8, <1>10 DEF Add
<1>13. /\ OtherList(l) # l
       /\ l \in Settling => OtherList(l) \in Lists
  BY DEF OtherList, Settling, Lists
\* What was heard stays within the callbacks that were added.
<1>14. ASSUME l = "progress", NEW v \in Nat, HeardFits(heard[l], added, v)
       PROVE  HeardFits(heard[l], added + 1, v)
  <2>1. \A i \in 1..Len(heard[l]) : heard[l][i] \in Nat \X Nat
    BY <1>7, ElementOfSeq
  <2>2. \A i \in 1..Len(heard[l]) : heard[l][i][1] \in Nat
    BY <2>1
  <2>3. ASSUME NEW i \in 1..Len(heard[l]) PROVE heard[l][i][1] <= added + 1 /\ heard[l][i][2] <= v
    BY <1>14, <2>2 DEF HeardFits
  <2>4. QED
    BY <2>3 DEF HeardFits
<1>15. CASE ~c.usable /\ UNCHANGED <<lists, firings>>
  <2>1. c.list = <<>> /\ ~c.fired /\ ~c.firing
    BY <1>2, <1>3, <1>15 DEF ListHolds
  <2>2. lists' = [lists EXCEPT ![l] = c] /\ lists'[l] = c
    BY <1>2, <1>3, <1>15 DEF DeferredShape
  <2>3. /\ firings' \in Seq(FiringRecord) /\ OneFiring'
        /\ \A x \in Lists : (InFirings(x)' <=> InFirings(x)) /\ (WasCalled(x)' <=> WasCalled(x))
        /\ \A i \in 1..Len(firings') :
               IF firings'[i].list = l THEN FiringHolds(i)'
               ELSE i \in 1..Len(firings) /\ firings'[i] = firings[i]
    BY <1>3, <1>15, <2>2, FiringsStay
  <2>4. ~InFirings(l)'
    BY <1>2, <1>3, <2>1, <2>3 DEF InFirings, FiringsKept, FiringHolds
  <2>5. Dropped(l)' \in Nat /\ Numbered(c.list, Dropped(l)')
    <3>1. Dropped(l)' = (added + 1) - Len(c.list)
      BY <1>5, <2>2 DEF Dropped
    <3>2. Len(c.list) = 0
      BY <2>1
    <3>3. QED
      BY <3>1, <3>2 DEF Numbered
  <2>6. ListHolds(l)'
    BY <1>1, <1>2, <1>3, <2>1, <2>2, <2>5 DEF ListHolds
  <2>7. ASSUME l \in Settling PROVE SettledKept(l)'
    BY <1>1, <1>2, <1>3, <1>15, <2>2, <2>4, <2>7 DEF SettledKept
  <2>8. ASSUME l = "progress" PROVE ProgressKept'
    BY <1>1, <1>2, <1>3, <1>4, <1>5, <1>7, <1>14, <2>2, <2>4, <2>8 DEF ProgressKept
  <2>9. QED
    BY <1>1, <1>3, <1>5, <2>2, <2>3, <2>6, <2>7, <2>8, OneListChanges
<1>16. CASE /\ c.usable /\ c.firing
            /\ lists' = [lists EXCEPT ![l] = [more EXCEPT !.length = Len(more.list)]]
            /\ UNCHANGED firings
  <2>1. PICK len1 \in Nat : len1 = Len(list1)
    BY LenProperties
  <2>2. PICK d \in ListRecord : d = [more EXCEPT !.length = len1]
    BY DEF ListRecord
  <2>3. /\ d.list = list1 /\ d.usable /\ d.firing /\ d.fired = c.fired
        /\ d.memory = c.memory /\ d.index = c.index /\ d.length = len1
        /\ d.repeats = c.repeats /\ d.stack = c.stack
    BY <1>11, <1>16, <2>2 DEF ListRecord
  <2>4. lists' = [lists EXCEPT ![l] = d] /\ lists'[l] = d
    BY <1>2, <1>11, <1>16, <2>1, <2>2 DEF DeferredShape
  <2>5. c.length = Len(c.list) /\ c.index <= c.length /\ c.fired /\ c.memory # Nothing
    BY <1>2, <1>3, <1>16 DEF ListHolds
  <2>6. d.index <= d.length /\ (c.index < c.length => d.index < d.length)
    BY <1>7, <1>9, <2>1, <2>3, <2>5
  <2>7. /\ firings' \in Seq(FiringRecord) /\ OneFiring'
        /\ \A x \in Lists : (InFirings(x)' <=> InFirings(x)) /\ (WasCalled(x)' <=> WasCalled(x))
        /\ \A i \in 1..Len(firings') :
               IF firings'[i].list = l THEN FiringHolds(i)'
               ELSE i \in 1..Len(firings) /\ firings'[i] = firings[i]
    BY <1>3, <1>16, <2>3, <2>4, <2>6, FiringsStay
  <2>8. Dropped(l)' = base
    <3>1. Dropped(l)' = (added + 1) - Len(list1)
      BY <1>5, <2>3, <2>4 DEF Dropped
    <3>2. QED
      BY <1>6, <1>7, <1>9, <3>1
  <2>9. Reached(l)' = Reached(l)
    BY <1>3, <1>6, <2>3, <2>4, <2>7, <2>8 DEF Reached
  <2>10. ListHolds(l)'
    <3>1. ~thrown => InFirings(l)'
      BY <1>2, <1>3, <1>16, <2>7 DEF ListHolds
    <3>2. d.fired /\ d.memory # Nothing /\ d.length = Len(d.list)
      BY <2>1, <2>3, <2>5
    <3>3. Numbered(d.list, Dropped(l)') /\ Dropped(l)' \in Nat
      BY <1>9, <2>3, <2>8
    <3>4. QED
      BY <1>1, <2>3, <2>4, <2>6, <3>1, <3>2, <3>3 DEF ListHolds
  <2>11. ASSUME l \in Settling PROVE SettledKept(l)'
    <3>1. lists'[OtherList(l)] = lists[OtherList(l)]
      BY <1>2, <1>13, <2>4, <2>11 DEF DeferredShape
    <3>2. QED
      BY <1>1, <1>2, <1>3, <2>3, <2>4, <2>5, <2>7, <2>9, <2>11, <3>1 DEF SettledKept
  <2>12. ASSUME l = "progress" PROVE ProgressKept'
    BY <1>1, <1>2, <1>3, <1>4, <1>5, <1>7, <1>14, <2>3, <2>4, <2>7, <2>9, <2>12, SMTT(60) DEF ProgressKept
  <2>13. d.usable = lists[l].usable
    BY <1>3, <1>16, <2>3
  <2>14. QED
    BY <1>1, <1>5, <2>4, <2>7, <2>10, <2>11, <2>12, <2>13, OneListChanges
<1>17. CASE /\ c.usable /\ ~c.firing /\ c.memory = Nothing
            /\ lists' = [lists EXCEPT ![l] = more]
            /\ UNCHANGED firings
  <2>1. lists'[l] = more
    BY <1>2, <1>17 DEF DeferredShape
  <2>2. ~c.fired /\ heard[l] = <<>> /\ ~c.firing /\ c.stack = <<>>
    BY <1>2, <1>3, <1>17 DEF ListHolds
  <2>3. /\ firings' \in Seq(FiringRecord) /\ OneFiring'
        /\ \A x \in Lists : (InFirings(x)' <=> InFirings(x)) /\ (WasCalled(x)' <=> WasCalled(x))
        /\ \A i \in 1..Len(firings') :
               IF firings'[i].list = l THEN FiringHolds(i)'
               ELSE i \in 1..Len(firings) /\ firings'[i] = firings[i]
    BY <1>3, <1>11, <1>17, <2>1, FiringsStay
  <2>4. ~InFirings(l)'
    BY <1>2, <1>3, <2>2, <2>3 DEF InFirings, FiringsKept, FiringHolds
  <2>5. Dropped(l)' = base
    <3>1. Dropped(l)' = (added + 1) - Len(list1)
      BY <1>5, <1>11, <2>1 DEF Dropped
    <3>2. QED
      BY <1>6, <1>7, <1>9, <3>1
  <2>6. ListHolds(l)'
    BY <1>1, <1>9, <1>11, <1>17, <2>1, <2>2, <2>5 DEF ListHolds
  <2>7. ASSUME l \in Settling PROVE SettledKept(l)'
    <3>1. lists'[OtherList(l)] = lists[OtherList(l)]
      BY <1>2, <1>13, <1>17, <2>7 DEF DeferredShape
    <3>2. SettledKept(l) /\ Len(list1) = added + 1
      BY <1>2, <1>3, <1>4, <1>9, <1>17, <2>2, <2>7 DEF SettledKept
    <3>3. QED
      BY <1>1, <1>2, <1>3, <1>5, <1>11, <2>1, <2>2, <2>4, <2>7, <3>1, <3>2 DEF SettledKept
  <2>8. ASSUME l = "progress" PROVE ProgressKept'
    BY <1>1, <1>2, <1>3, <1>4, <1>5, <1>7, <1>11, <1>14, <2>1, <2>4, <2>8 DEF ProgressKept
  <2>9. more.usable = lists[l].usable
    BY <1>3, <1>11
  <2>10. QED
    BY <1>1, <1>5, <1>17, <2>3, <2>6, <2>7, <2>8, <2>9, OneListChanges
<1>18. CASE /\ c.usable /\ ~c.firing /\ c.memory # Nothing
            /\ lists' = [lists EXCEPT ![l] = StartFire([more EXCEPT !.start = Len(c.list)], c.memory)]
            /\ firings' = Append(firings, FiringOf(l, c.memory))
  <2>1. PICK len \in Nat : len = Len(c.list)
    BY <1>7
  <2>2. PICK from \in ListFrom : from = [more EXCEPT !.start = len]
    BY DEF ListRecord, ListFrom
  <2>3. /\ from.list = list1 /\ from.usable /\ from.start = len /\ from.fired = c.fired
        /\ from.repeats = c.repeats /\ from.stack = c.stack
    BY <1>11, <1>18, <2>2 DEF ListRecord
  <2>4. PICK d \in ListRecord : d = StartFire(from, c.memory)
    <3>1. StartFire(from, c.memory) \in ListRecord
      BY <1>7, FireIs
    <3>2. QED
      BY <3>1
  <2>5. /\ d.list = list1 /\ d.usable /\ d.firing /\ d.fired
        /\ d.memory = c.memory /\ d.index = len /\ d.length = Len(list1)
        /\ d.repeats = c.repeats /\ d.stack = c.stack
    BY <1>7, <2>3, <2>4, FireIs
  <2>6. lists' = [lists EXCEPT ![l] = d] /\ lists'[l] = d
    BY <1>2, <1>18, <2>1, <2>2, <2>4 DEF DeferredShape
  <2>7. c.fired /\ c.stack = <<>>
    BY <1>2, <1>3, <1>18 DEF ListHolds
  <2>8. /\ firings' \in Seq(FiringRecord) /\ OneFiring'
        /\ \A x \in Lists : x # l => (InFirings(x)' <=> InFirings(x)) /\ (WasCalled(x)' <=> WasCalled(x))
        /\ InFirings(l)' /\ ~WasCalled(l)'
        /\ \A i \in 1..Len(firings') :
               IF firings'[i].list = l THEN FiringHolds(i)'
               ELSE i \in 1..Len(firings) /\ firings'[i] = firings[i]
    <3>1. ~lists[l].firing /\ c.memory \in Nat \ {Nothing}
      BY <1>3, <1>7, <1>18
    <3>2. QED
      BY <1>18, <2>5, <2>6, <3>1, ListFires
  <2>9. Dropped(l)' = base
    <3>1. Dropped(l)' = (added + 1) - Len(list1)
      BY <1>5, <2>5, <2>6 DEF Dropped
    <3>2. QED
      BY <1>6, <1>7, <1>9, <3>1
  <2>10. Reached(l)' = added
    <3>1. Reached(l)' = base + len + 0
      BY <2>5, <2>6, <2>8, <2>9 DEF Reached
    <3>2. QED
      BY <1>6, <2>1, <3>1
  <2>11. d.index <= d.length
    BY <1>9, <2>1, <2>5
  <2>12. ListHolds(l)'
    BY <1>1, <1>9, <1>18, <2>5, <2>6, <2>8, <2>9, <2>11 DEF ListHolds
  <2>13. ASSUME l \in Settling PROVE SettledKept(l)'
    <3>1. lists'[OtherList(l)] = lists[OtherList(l)]
      BY <1>2, <1>13, <2>6, <2>13 DEF DeferredShape
    <3>2. Len(heard[l]) = added
      BY <1>2, <1>3, <1>4, <1>18, <2>7, <2>13 DEF SettledKept
    <3>3. QED
      BY <1>1, <1>2, <1>3, <2>5, <2>6, <2>7, <2>10, <2>13, <3>1, <3>2 DEF SettledKept
  <2>14. ASSUME l = "progress" PROVE ProgressKept'
    <3>1. HeardFits(heard[l], added, c.memory)
      BY <1>2, <1>3, <1>4, <2>14 DEF ProgressKept
    <3>2. HeardNow(heard[l], c.memory, added)
      BY <3>1 DEF HeardFits, HeardNow
    <3>3. QED
      BY <1>1, <1>2, <1>3, <1>5, <1>7, <1>14, <2>5, <2>6, <2>10, <2>14, <3>1, <3>2, ZenonT(60) DEF ProgressKept
  <2>15. d.usable = lists[l].usable
    BY <1>3, <1>18, <2>5
  <2>16. QED
    BY <1>1, <1>5, <2>6, <2>8, <2>12, <2>13, <2>14, <2>15, OneListChanges
<1>19. QED
  BY <1>12, <1>15, <1>16, <1>17, <1>18

LEMMA NotifyKeeps == ASSUME DeferredInv, Notify PROVE DeferredInv'
<1> DEFINE l == "progress"
<1>1. l \in Lists /\ l \notin Settling
  BY DEF Lists, Settling
<1>2. notified' = notified + 1 /\ UNCHANGED <<deferredState, addedTo, heard, thrown>>
  BY DEF Notify
<1>3. DeferredShape /\ FiringsKept /\ ProgressKept /\ ListHolds(l)
  BY <1>1 DEF DeferredInv
<1>4. PICK c \in ListRecord : c = lists[l]
  BY <1>1, <1>3 DEF DeferredShape
<1>5. PICK last \in Nat : last = notified
  BY <1>3 DEF DeferredShape
<1>6. /\ notified' = last + 1 /\ notified' \in Nat /\ addedTo' \in [Lists -> Nat]
      /\ c.memory \in Nat /\ c.memory <= last /\ c.stack \in Seq(Nat) /\ c.list \in Seq(Nat)
      /\ Len(c.list) \in Nat /\ c.start = 0
      /\ addedTo[l] \in Nat /\ heard[l] \in Seq(Nat \X Nat)
      /\ WaitsFit(c.stack, c.memory, last) /\ HeardFits(heard[l], addedTo[l], c.memory)
  BY <1>1, <1>2, <1>3, <1>4, <1>5, LenProperties DEF DeferredShape, ListRecord, ProgressKept
<1>7. \/ ~MayFire(c) /\ UNCHANGED <<lists, firings>>
      \/ /\ MayFire(c) /\ c.firing
         /\ lists' = [lists EXCEPT ![l].stack = Append(@, last + 1)]
         /\ UNCHANGED firings
      \/ /\ MayFire(c) /\ ~c.firing
         /\ lists' = [lists EXCEPT ![l] = StartFire(@, last + 1)]
         /\ firings' = Append(firings, FiringOf(l, last + 1))
  BY <1>4, <1>5 DEF Notify
<1> HIDE DEF l
<1>8. CASE ~MayFire(c) /\ UNCHANGED <<lists, firings>>
  <2>1. lists' = [lists EXCEPT ![l] = c] /\ lists'[l] = c
    BY <1>1, <1>3, <1>4, <1>8 DEF DeferredShape
  <2>2. /\ firings' \in Seq(FiringRecord) /\ OneFiring'
        /\ \A x \in Lists : (InFirings(x)' <=> InFirings(x)) /\ (WasCalled(x)' <=> WasCalled(x))
        /\ \A i \in 1..Len(firings') :
               IF firings'[i].list = l THEN FiringHolds(i)'
               ELSE i \in 1..Len(firings) /\ firings'[i] = firings[i]
    BY <1>1, <1>4, <1>8, <2>1, FiringsStay
  <2>3. ListHolds(l)'
    BY <1>1, <1>2, <1>3, <1>4, <2>1, <2>2, OtherKeeps
  <2>4. WaitsFit(c.stack, c.memory, last + 1)
    BY <1>6, WaitsLonger
  <2>5. Reached(l)' = Reached(l)
    BY <1>1, <1>2, <1>4, <2>1, <2>2 DEF Reached, Dropped
  <2>6. ProgressKept'
    BY <1>1, <1>2, <1>3, <1>4, <1>6, <2>1, <2>2, <2>4, <2>5 DEF ProgressKept, l
  <2>7. QED
    BY <1>1, <1>2, <1>4, <1>6, <2>1, <2>2, <2>3, <2>6, OneListChanges DEF l
<1>9. CASE /\ MayFire(c) /\ c.firing
           /\ lists' = [lists EXCEPT ![l].stack = Append(@, last + 1)]
           /\ UNCHANGED firings
  <2>1. PICK stack1 \in Seq(Nat) : stack1 = Append(c.stack, last + 1) /\ WaitsFit(stack1, c.memory, last + 1)
    <3>1. Append(c.stack, last + 1) \in Seq(Nat) /\ WaitsFit(Append(c.stack, last + 1), c.memory, last + 1)
      BY <1>6, WaitsOneMore
    <3>2. QED
      BY <3>1
  <2>2. PICK d \in ListRecord : d = [c EXCEPT !.stack = stack1]
    BY DEF ListRecord
  <2>3. /\ d.list = c.list /\ d.usable = c.usable /\ d.firing /\ d.fired = c.fired
        /\ d.memory = c.memory /\ d.index = c.index /\ d.length = c.length
        /\ d.repeats = c.repeats /\ d.stack = stack1
    BY <1>9, <2>2 DEF ListRecord
  <2>4. lists' = [lists EXCEPT ![l] = d] /\ lists'[l] = d
    BY <1>1, <1>3, <1>4, <1>9, <2>1, <2>2 DEF DeferredShape
  <2>5. /\ firings' \in Seq(FiringRecord) /\ OneFiring'
        /\ \A x \in Lists : (InFirings(x)' <=> InFirings(x)) /\ (WasCalled(x)' <=> WasCalled(x))
        /\ \A i \in 1..Len(firings') :
               IF firings'[i].list = l THEN FiringHolds(i)'
               ELSE i \in 1..Len(firings) /\ firings'[i] = firings[i]
    BY <1>1, <1>4, <1>9, <2>3, <2>4, FiringsStay
  <2>6. Dropped(l)' = Dropped(l) /\ Reached(l)' = Reached(l)
    BY <1>1, <1>2, <1>4, <2>3, <2>4, <2>5 DEF Reached, Dropped
  <2>7. ListHolds(l)'
    BY <1>2, <1>3, <1>4, <1>9, <2>3, <2>4, <2>5, <2>6, <1>1 DEF ListHolds
  <2>8. ProgressKept'
    <3>1. c.memory <= last + 1
      BY <1>6
    <3>2. QED
      BY <1>1, <1>2, <1>3, <1>4, <1>6, <2>1, <2>3, <2>4, <2>5, <2>6, <3>1 DEF ProgressKept, l
  <2>9. d.usable = lists[l].usable
    BY <1>4, <2>3
  <2>10. QED
    BY <1>1, <1>2, <1>6, <2>4, <2>5, <2>7, <2>8, <2>9, OneListChanges DEF l
<1>10. CASE /\ MayFire(c) /\ ~c.firing
            /\ lists' = [lists EXCEPT ![l] = StartFire(@, last + 1)]
            /\ firings' = Append(firings, FiringOf(l, last + 1))
  <2>1. PICK v \in Nat \ {Nothing} : v = last + 1
    BY DEF Nothing
  <2>2. c \in ListFrom /\ c.usable /\ c.stack = <<>>
    BY <1>3, <1>4, <1>10, FromRecord DEF MayFire, ListHolds
  <2>3. PICK d \in ListRecord : d = StartFire(c, v)
    <3>1. StartFire(c, v) \in ListRecord
      BY <2>2, FireIs
    <3>2. QED
      BY <3>1
  <2>4. /\ d.list = c.list /\ d.usable /\ d.firing /\ d.fired
        /\ d.memory = v /\ d.index = 0 /\ d.length = Len(c.list)
        /\ d.repeats = c.repeats /\ d.stack = <<>>
    BY <1>6, <2>2, <2>3, FireIs
  <2>5. lists' = [lists EXCEPT ![l] = d] /\ lists'[l] = d
    BY <1>1, <1>3, <1>4, <1>10, <2>1, <2>3 DEF DeferredShape
  <2>6. /\ firings' \in Seq(FiringRecord) /\ OneFiring'
        /\ \A x \in Lists : x # l => (InFirings(x)' <=> InFirings(x)) /\ (WasCalled(x)' <=> WasCalled(x))
        /\ InFirings(l)' /\ ~WasCalled(l)'
        /\ \A i \in 1..Len(firings') :
               IF firings'[i].list = l THEN FiringHolds(i)'
               ELSE i \in 1..Len(firings) /\ firings'[i] = firings[i]
    <3>1. ~lists[l].firing /\ firings' = Append(firings, FiringOf(l, v)) /\ lists'[l].firing /\ lists'[l].memory = v
      BY <1>4, <1>10, <2>1, <2>4, <2>5
    <3>2. QED
      BY <1>1, <3>1, ListFires
  <2>7. Dropped(l)' = Dropped(l)
    BY <1>2, <1>4, <2>4, <2>5 DEF Dropped
  <2>8. ListHolds(l)'
    <3>1. Dropped(l)' \in Nat /\ Numbered(d.list, Dropped(l)')
      BY <1>3, <1>4, <2>4, <2>7 DEF ListHolds
    <3>2. 0 <= d.length /\ d.memory # Nothing
      BY <1>6, <2>1, <2>4
    <3>3. QED
      BY <1>2, <2>4, <2>5, <2>6, <3>1, <3>2 DEF ListHolds
  <2>9. ProgressKept'
    <3>1. HeardFits(heard[l], addedTo[l], v) /\ HeardNow(heard[l], v, Reached(l)')
      <4>1. c.memory < v /\ v \in Nat
        BY <1>6, <2>1
      <4>2. QED
        BY <1>6, <4>1, LaterHeard
    <3>2. WaitsFit(d.stack, v, last + 1) /\ v <= last + 1
      BY <2>1, <2>4 DEF WaitsFit
    <3>3. QED
      BY <1>1, <1>2, <1>3, <1>4, <1>6, <2>4, <2>5, <3>1, <3>2 DEF ProgressKept, l
  <2>10. d.usable = lists[l].usable
    BY <1>4, <2>2, <2>4
  <2>11. QED
    BY <1>1, <1>2, <1>6, <2>5, <2>6, <2>8, <2>9, <2>10, OneListChanges DEF l
<1>11. QED
  BY <1>7, <1>8, <1>9, <1>10

LEMMA DeferredStays == ASSUME DeferredInv, UNCHANGED deferredVars PROVE DeferredInv'
<1>1. UNCHANGED <<deferredState, lists, firings, addedTo, heard, notified, thrown>>
  BY DEF deferredVars
<1>2. \A x \in Lists : (InFirings(x)' <=> InFirings(x)) /\ (WasCalled(x)' <=> WasCalled(x))
  BY <1>1 DEF InFirings, WasCalled
<1>3. DeferredShape'
  BY <1>1 DEF DeferredInv, DeferredShape
<1>4. FiringsKept'
  BY <1>1 DEF DeferredInv, FiringsKept, OneFiring, FiringHolds
<1>5. ASSUME NEW x \in Lists PROVE ListHolds(x)'
  BY <1>1, <1>2, OtherKeeps DEF DeferredInv
<1>6. ASSUME NEW x \in Settling PROVE SettledKept(x)'
  <2>1. x \in Lists
    BY DEF Settling, Lists
  <2>2. QED
    BY <1>1, <1>2, <2>1, OtherSettledKeeps DEF DeferredInv
<1>7. ProgressKept'
  BY <1>1, <1>2, OtherProgressKeeps DEF DeferredInv, Lists
<1>8. QED
  BY <1>3, <1>4, <1>5, <1>6, <1>7 DEF DeferredInv

LEMMA SettlingKeeps == ASSUME DeferredInv, NEW l \in Settling, Settle(l) PROVE DeferredInv'
<1>1. UNCHANGED <<addedTo, heard, notified, thrown>>
  BY DEF Settle
<1>2. /\ DeferredShape /\ FiringsKept /\ ProgressKept
      /\ \A x \in Lists : ListHolds(x)
      /\ \A x \in Settling : SettledKept(x)
  BY DEF DeferredInv
<1>3. PICK other \in Settling : other = OtherList(l)
  BY DEF OtherList, Settling
<1>4. /\ l \in Lists /\ other \in Lists /\ "progress" \in Lists
      /\ l # other /\ l # "progress" /\ other # "progress" /\ OtherList(other) = l
      /\ Lists = {l, other, "progress"} /\ Settling = {l, other} /\ Final(l) # Final(other)
  BY <1>3 DEF OtherList, Settling, Lists, Final
<1>5. PICK c \in ListRecord : c = lists[l]
  BY <1>2, <1>4 DEF DeferredShape
<1>6. PICK o \in ListRecord : o = lists[other]
  BY <1>2, <1>4 DEF DeferredShape
<1>7. PICK p \in ListRecord : p = lists["progress"]
  BY <1>2, <1>4 DEF DeferredShape
<1>8. CASE ~MayFire(c)
  <2>1. UNCHANGED deferredVars
    BY <1>1, <1>5, <1>8 DEF Settle, deferredVars
  <2>2. QED
    BY <2>1, DeferredStays
<1>9. CASE MayFire(c)
  <2>1. /\ deferredState' = Final(l)
        /\ lists' = [lists EXCEPT ![l] = StartFire(@, 1), ![other] = Disabled(@), !["progress"] = Locked(@)]
        /\ firings' = Append(firings, FiringOf(l, 1))
    BY <1>3, <1>5, <1>9 DEF Settle
  <2>2. c.usable /\ ~c.fired /\ ~c.firing /\ ~c.repeats /\ heard[l] = <<>> /\ c.stack = <<>>
    BY <1>2, <1>4, <1>5, <1>9 DEF SettledKept, ListHolds, MayFire
  <2>3. ~o.fired /\ ~o.firing /\ heard[other] = <<>> /\ ~o.repeats /\ o.stack = <<>>
    BY <1>2, <1>4, <1>5, <1>6, <2>2 DEF SettledKept, ListHolds
  <2>4. PICK d \in ListRecord : d = StartFire(c, 1)
    <3>1. c \in ListFrom /\ 1 \in Nat
      BY FromRecord
    <3>2. StartFire(c, 1) \in ListRecord
      BY <3>1, FireIs
    <3>3. QED
      BY <3>2
  <2>5. /\ d.list = c.list /\ d.usable /\ d.firing /\ d.fired
        /\ d.memory = 1 /\ d.index = 0 /\ d.length = Len(c.list)
        /\ ~d.repeats /\ d.stack = <<>>
    <3>1. c \in ListFrom
      BY FromRecord
    <3>2. c.start = 0
      BY DEF ListRecord
    <3>3. 1 \in Nat
      OBVIOUS
    <3>4. QED
      BY <2>2, <2>4, <3>1, <3>2, <3>3, FireIs
  <2>6. PICK e \in ListRecord : e = Disabled(o)
    BY EmptySeq DEF Disabled, ListRecord, Nothing
  <2>7. /\ e.list = <<>> /\ ~e.usable /\ ~e.firing /\ ~e.fired /\ e.memory = Nothing
        /\ ~e.repeats /\ e.stack = <<>>
    BY <2>3, <2>6 DEF Disabled, ListRecord
  <2>8. PICK q \in ListRecord : q = Locked(p)
    <3>1. Disabled(p) \in ListRecord /\ [p EXCEPT !.repeats = FALSE, !.stack = <<>>] \in ListRecord
      BY EmptySeq DEF Disabled, ListRecord, Nothing
    <3>2. QED
      BY <3>1 DEF Locked
  <2>9. /\ q.firing = p.firing /\ q.fired = p.fired /\ q.memory = p.memory /\ q.index = p.index
        /\ q.length = p.length /\ q.stack = <<>>
        /\ \/ p.memory = Nothing /\ ~q.usable /\ q.list = <<>>
           \/ p.memory # Nothing /\ q.usable = p.usable /\ q.list = p.list
    <3>1. CASE p.memory = Nothing
      <4>1. q = [p EXCEPT !.usable = FALSE, !.list = <<>>, !.repeats = FALSE, !.stack = <<>>, !.memory = Nothing]
        BY <2>8, <3>1 DEF Locked, Disabled
      <4>2. QED
        BY <3>1, <4>1 DEF ListRecord
    <3>2. CASE p.memory # Nothing
      <4>1. q = [p EXCEPT !.repeats = FALSE, !.stack = <<>>]
        BY <2>8, <3>2 DEF Locked
      <4>2. QED
        BY <3>2, <4>1 DEF ListRecord
    <3>3. QED
      BY <3>1, <3>2
  <2>10. lists' = [lists EXCEPT ![l] = d, ![other] = e, !["progress"] = q]
    BY <1>2, <1>4, <1>5, <1>6, <1>7, <2>1, <2>4, <2>6, <2>8 DEF DeferredShape
  <2>11. lists' \in [Lists -> ListRecord] /\ lists'[l] = d /\ lists'[other] = e /\ lists'["progress"] = q
    BY <1>2, <1>4, <2>10 DEF DeferredShape
  <2>12. /\ firings' \in Seq(FiringRecord) /\ OneFiring' /\ Len(firings') = Len(firings) + 1
         /\ \A x \in Lists : (InFirings(x)' <=> InFirings(x) \/ x = l) /\ (WasCalled(x)' <=> WasCalled(x))
         /\ ~InFirings(l) /\ firings'[Len(firings) + 1] = FiringOf(l, 1) /\ Len(firings) \in Nat
         /\ \A i \in 1..Len(firings) : firings'[i] = firings[i] /\ firings[i].list # l
    <3>1. 1 \in Nat \ {Nothing} /\ ~lists[l].firing
      BY <1>5, <2>2 DEF Nothing
    <3>2. QED
      BY <1>4, <2>1, <3>1, FiringPushed
  <2>13. ~InFirings(other) /\ ~WasCalled(l)
    BY <1>2, <1>6, <2>3, <2>12 DEF InFirings, WasCalled, FiringsKept, FiringHolds
  <2>14. DeferredShape'
    BY <1>1, <1>2, <1>4, <2>1, <2>11, <2>12 DEF DeferredShape, Final
  <2>15. FiringsKept'
    <3>1. ASSUME NEW i \in 1..Len(firings') PROVE FiringHolds(i)'
      <4>1. CASE i = Len(firings) + 1
        <5>1. firings'[i].list = l /\ ~firings'[i].called /\ firings'[i].value = 1
          BY <2>12, <4>1 DEF FiringOf
        <5>2. QED
          BY <2>5, <2>11, <5>1 DEF FiringHolds
      <4>2. CASE i # Len(firings) + 1
        <5>1. i \in 1..Len(firings)
          BY <2>12, <4>2
        <5>2. firings'[i] = firings[i] /\ firings[i] \in FiringRecord /\ FiringHolds(i) /\ firings[i].list # l
              /\ InFirings(firings[i].list)
          BY <1>2, <2>12, <5>1 DEF FiringsKept, DeferredShape, InFirings
        <5>3. firings[i].list = "progress"
          BY <1>4, <2>13, <5>2 DEF FiringRecord
        <5>4. QED
          BY <1>7, <2>9, <2>11, <5>2, <5>3 DEF FiringHolds
      <4>3. QED
        BY <4>1, <4>2
    <3>2. QED
      BY <2>12, <3>1 DEF FiringsKept
  <2>16. ListHolds(l)'
    <3>1. Dropped(l)' = Dropped(l)
      BY <1>1, <1>5, <2>5, <2>11 DEF Dropped
    <3>2. Dropped(l)' \in Nat /\ Numbered(d.list, Dropped(l)')
      BY <1>2, <1>4, <1>5, <2>5, <3>1 DEF ListHolds
    <3>3. Len(d.list) \in Nat /\ d.memory # Nothing
      BY <2>5, LenProperties DEF ListRecord, Nothing
    <3>4. 0 <= d.length /\ d.length = Len(d.list)
      BY <2>5, <3>3
    <3>5. QED
      BY <1>4, <2>5, <2>11, <2>12, <3>2, <3>3, <3>4 DEF ListHolds
  <2>17. ListHolds(other)'
    <3>1. Dropped(other)' = addedTo[other] - 0
      BY <1>1, <2>7, <2>11 DEF Dropped
    <3>2. Dropped(other)' \in Nat /\ Numbered(e.list, Dropped(other)')
      BY <1>2, <1>4, <2>7, <3>1 DEF DeferredShape, Numbered
    <3>3. QED
      BY <1>1, <2>3, <2>7, <2>11, <3>2 DEF ListHolds
  <2>18. ListHolds("progress")'
    <3>1. CASE p.memory = Nothing
      <4>1. ~p.fired /\ ~p.firing /\ heard["progress"] = <<>>
        BY <1>2, <1>4, <1>7, <3>1 DEF ListHolds
      <4>2. Dropped("progress")' = addedTo["progress"] - 0
        BY <1>1, <2>9, <2>11, <3>1 DEF Dropped
      <4>3. Dropped("progress")' \in Nat /\ Numbered(q.list, Dropped("progress")')
        BY <1>2, <1>4, <2>9, <3>1, <4>2 DEF DeferredShape, Numbered
      <4>4. QED
        BY <1>1, <2>9, <2>11, <3>1, <4>1, <4>3 DEF ListHolds
    <3>2. CASE p.memory # Nothing
      <4>1. Dropped("progress")' = Dropped("progress")
        BY <1>1, <1>7, <2>9, <2>11, <3>2 DEF Dropped
      <4>2. QED
        BY <1>1, <1>2, <1>4, <1>7, <2>9, <2>11, <2>12, <3>2, <4>1 DEF ListHolds
    <3>3. QED
      BY <3>1, <3>2
  <2>19. SettledKept(l)'
    <3>1. Len(heard[l]) = 0 /\ InOrder(heard[l])
      BY <2>2 DEF InOrder
    <3>2. Dropped(l) = 0
      <4>1. SettledKept(l) /\ Dropped(l) \in Nat
        BY <1>2, <1>4 DEF ListHolds
      <4>2. QED
        BY <1>2, <1>4, <1>5, <2>2, <4>1 DEF SettledKept, DeferredShape, Dropped
    <3>3. Reached(l)' = 0
      BY <1>1, <1>4, <1>5, <2>5, <2>11, <2>12, <2>13, <3>2 DEF Reached, Dropped
    <3>4. QED
      BY <1>1, <1>3, <2>1, <2>5, <2>7, <2>11, <3>1, <3>3 DEF SettledKept
  <2>20. SettledKept(other)'
    <3>1. ~InFirings(other)'
      BY <1>4, <2>12, <2>13
    <3>2. InOrder(heard[other])
      BY <2>3 DEF InOrder
    <3>3. QED
      BY <1>1, <1>4, <2>1, <2>7, <2>11, <3>1, <3>2 DEF SettledKept
  <2>21. ProgressKept'
    <3>1. WaitsFit(q.stack, q.memory, notified)
      BY <2>9 DEF WaitsFit
    <3>2. ASSUME InFirings("progress") PROVE HeardNow(heard["progress"], q.memory, Reached("progress")')
      <4>1. p.memory # Nothing
        <5>1. PICK i \in 1..Len(firings) : firings[i].list = "progress"
          BY <3>2 DEF InFirings
        <5>2. firings[i] \in FiringRecord /\ FiringHolds(i)
          BY <1>2, <5>1 DEF FiringsKept, DeferredShape
        <5>3. QED
          BY <1>7, <5>1, <5>2 DEF FiringHolds, FiringRecord
      <4>2. Reached("progress")' = Reached("progress")
        BY <1>1, <1>4, <1>7, <2>9, <2>11, <2>12, <4>1 DEF Reached, Dropped
      <4>3. QED
        BY <1>2, <1>7, <2>9, <3>2, <4>2 DEF ProgressKept
    <3>3. QED
      BY <1>1, <1>2, <1>4, <1>7, <2>9, <2>11, <2>12, <3>1, <3>2 DEF ProgressKept
  <2>22. QED
    BY <1>4, <2>14, <2>15, <2>16, <2>17, <2>18, <2>19, <2>20, <2>21 DEF DeferredInv
<1>10. QED
  BY <1>8, <1>9

LEMMA DeferredStarts == DeferredInit => DeferredInv
<1> SUFFICES ASSUME DeferredInit PROVE DeferredInv
  OBVIOUS
<1>1. ASSUME NEW l \in Lists
      PROVE  LET c == lists[l]
             IN  /\ c \in ListRecord /\ c.list = <<>> /\ ~c.firing /\ ~c.fired /\ c.memory = Nothing /\ c.stack = <<>>
                 /\ c.repeats = (l \notin Settling)
                 /\ addedTo[l] = 0 /\ heard[l] = <<>>
  <2> DEFINE once == l \in Settling
             c == NewList(once)
  <2>1. c \in ListRecord
    BY EmptySeq DEF NewList, ListRecord, Nothing
  <2>2. lists[l] = c /\ addedTo[l] = 0 /\ heard[l] = <<>>
    BY DEF DeferredInit
  <2>3. QED
    BY <2>1, <2>2 DEF NewList
<1>2. Len(firings) = 0 /\ firings = <<>> /\ notified = 0 /\ thrown = FALSE /\ deferredState = "pending"
  BY DEF DeferredInit
<1>3. DeferredShape
  <2>1. lists = [l \in Lists |-> lists[l]] /\ addedTo = [l \in Lists |-> addedTo[l]]
        /\ heard = [l \in Lists |-> heard[l]]
    BY DEF DeferredInit
  <2>2. lists \in [Lists -> ListRecord]
    BY <1>1, <2>1
  <2>3. addedTo \in [Lists -> Nat]
    BY <1>1, <2>1
  <2>4. heard \in [Lists -> Seq(Nat \X Nat)]
    <3>1. <<>> \in Seq(Nat \X Nat)
      BY EmptySeq
    <3>2. QED
      BY <3>1 DEF DeferredInit
  <2>5. firings \in Seq(FiringRecord)
    BY <1>2
  <2>6. QED
    BY <1>2, <2>2, <2>3, <2>4, <2>5 DEF DeferredShape
<1>4. FiringsKept /\ \A l \in Lists : ~InFirings(l)
  BY <1>2 DEF FiringsKept, OneFiring, InFirings
<1>5. ASSUME NEW l \in Lists PROVE ListHolds(l)
  <2>1. Dropped(l) = 0 /\ Numbered(lists[l].list, 0)
    BY <1>1 DEF Dropped, Numbered
  <2>2. QED
    BY <1>1, <2>1 DEF ListHolds
<1>6. ASSUME NEW l \in Settling PROVE SettledKept(l)
  <2>1. l \in Lists /\ deferredState # Final(l) /\ InOrder(<<>>)
    BY <1>2 DEF Settling, Lists, Final, InOrder
  <2>2. QED
    BY <1>1, <1>4, <2>1 DEF SettledKept
<1>7. ProgressKept
  <2>1. "progress" \in Lists /\ Increasing(<<>>) /\ WaitsFit(<<>>, Nothing, 0) /\ HeardFits(<<>>, 0, Nothing)
    BY DEF Lists, Increasing, WaitsFit, HeardFits
  <2>2. QED
    BY <1>1, <1>2, <1>4, <2>1 DEF ProgressKept, Nothing
<1>8. QED
  BY <1>3, <1>4, <1>5, <1>6, <1>7 DEF DeferredInv

LEMMA DeferredInvariant == DeferredSpec => []DeferredInv
<1>1. ASSUME DeferredInv, [DeferredNext]_deferredVars PROVE DeferredInv'
  <2>1. CASE \E l \in Lists : Add(l)
    BY <1>1, <2>1, AddKeeps
  <2>2. CASE \E l \in Settling : Settle(l)
    BY <1>1, <2>2, SettlingKeeps
  <2>3. CASE Notify
    BY <1>1, <2>3, NotifyKeeps
  <2>4. CASE CallNext
    BY <1>1, <2>4, CallKeeps
  <2>5. CASE CallbackReturns
    BY <1>1, <2>5, ReturnsKeeps
  <2>6. CASE CallbackThrows
    BY <1>1, <2>6, CallbackThrowKeeps
  <2>7. CASE LoopEnds
    BY <1>1, <2>7, LoopEndsKeeps
  <2>8. CASE UNCHANGED deferredVars
    BY <1>1, <2>8, DeferredStays
  <2>9. QED
    BY <1>1, <2>1, <2>2, <2>3, <2>4, <2>5, <2>6, <2>7, <2>8 DEF DeferredNext
<1>2. QED
  BY <1>1, DeferredStarts, PTL DEF DeferredSpec

\* Whatever the code of the page does, with any number of callbacks and values: a
\* deferred that settles calls the callbacks of its side, all of them, once and in
\* order, and those of the other side never (jQuery.Callbacks, jQuery.Deferred).
THEOREM DeferredsHeard == DeferredSpec => []HeardInOrder
<1>1. ASSUME DeferredInv PROVE HeardInOrder
  <2>1. ASSUME NEW l \in Settling
        PROVE  LET ids == [i \in 1..Len(heard[l]) |-> heard[l][i][1]]
               IN  /\ ids = [i \in 1..Len(heard[l]) |-> i]
                   /\ heard[l] # <<>> => deferredState = Final(l)
                   /\ deferredState = Final(l) /\ firings = <<>> /\ ~thrown => Len(heard[l]) = addedTo[l]
    <3>0. l \in Lists
      BY DEF Settling, Lists
    <3>1. SettledKept(l) /\ ListHolds(l)
      BY <1>1, <3>0 DEF DeferredInv
    <3>2. \A i \in 1..Len(heard[l]) : heard[l][i][1] = i
      BY <3>1 DEF SettledKept, InOrder
    <3>3. heard[l] # <<>> => deferredState = Final(l)
      BY <3>1 DEF SettledKept, ListHolds
    <3>4. ASSUME deferredState = Final(l), firings = <<>>, ~thrown PROVE Len(heard[l]) = addedTo[l]
      <4>1. lists[l].fired /\ lists[l].usable
        BY <3>1, <3>4 DEF SettledKept, ListHolds
      <4>2. ~InFirings(l)
        BY <3>4 DEF InFirings
      <4>3. QED
        BY <3>1, <3>4, <4>1, <4>2 DEF SettledKept, ListHolds
    <3>5. QED
      BY <3>2, <3>3, <3>4
  <2>2. SettledInOrder
    BY <2>1 DEF SettledInOrder
  <2>3. ProgressInOrder
    <3>1. Increasing(heard["progress"]) /\ heard["progress"] \in Seq(Nat \X Nat)
      BY <1>1 DEF DeferredInv, DeferredShape, ProgressKept, Lists
    <3>2. DOMAIN heard["progress"] = 1..Len(heard["progress"])
      BY <3>1
    <3>3. QED
      BY <3>1, <3>2 DEF ProgressInOrder, Increasing
  <2>4. QED
    BY <2>2, <2>3 DEF HeardInOrder
<1>2. QED
  BY <1>1, DeferredInvariant, PTL

(* Effects *)

EffectNumbers == 1..Len(effects)
Heights == {"auto", "part", "full"}
FxHooksTypes == [there : BOOLEAN, cur : Nat, stop : Nat]
FxEffects == [kind : {"show", "hide", "delay"}, handled : BOOLEAN, orig : Heights]
FxBoxes == [visible : BOOLEAN, height : Heights, fxshow : Heights \union {"none"}]

FxShape ==
    /\ effects \in Seq(FxEffects) /\ fxTimers \subseteq EffectNumbers /\ delays \subseteq EffectNumbers
    /\ fxQueue \in Seq(Nat) /\ dequeues \in Nat
    /\ \A i \in DOMAIN fxQueue : fxQueue[i] \in EffectNumbers \/ (i = 1 /\ fxQueue[i] = Sentinel)
    /\ fxHooks \in FxHooksTypes /\ box \in FxBoxes
    /\ promised \in {"none", "waiting", "resolved"} /\ interrupted \in BOOLEAN /\ overlooked \in BOOLEAN

PlayMarked(q) == q # <<>> /\ Head(q) = Sentinel
Settled(b) == b.height = "auto" /\ b.fxshow = "none"

\* One effect plays, marked at the head of the queue, or a script dequeues;
\* a delay that plays is the one stop() would clear.
AtMostOne ==
    ~overlooked =>
        /\ \A e, f \in Playing : e = f
        /\ fxTimers \intersect delays = {}
        /\ dequeues = 0 \/ (dequeues = 1 /\ Playing = {})
        /\ dequeues = 0 /\ Playing # {} => PlayMarked(fxQueue)
        /\ delays \subseteq {fxHooks.stop}
        /\ dequeues = 0 /\ Playing = {} => fxQueue = <<>> /\ ~fxHooks.there /\ promised # "waiting"

\* And until one is stopped half way, each effect gives the height back.
HeightGivenBack ==
    ~overlooked /\ ~interrupted =>
        /\ fxTimers = {} => Settled(box)
        /\ \A e \in fxTimers : effects[e].handled /\ effects[e].orig = "auto"

FxInv == FxShape /\ AtMostOne /\ HeightGivenBack

LEMMA WaitingEffects ==
  ASSUME FxShape
  PROVE  /\ Waiting \in Seq(Nat) /\ Len(Waiting) \in Nat /\ DOMAIN Waiting = 1..Len(Waiting)
         /\ \A i \in 1..Len(Waiting) : Waiting[i] \in EffectNumbers
         /\ Len(effects) \in Nat /\ IsFiniteSet(fxTimers)
<1>. USE DEF FxShape, EffectNumbers, Sentinel
<1>1. CASE PlayMarked(fxQueue)
  <2>1. Waiting = Tail(fxQueue)
    BY <1>1 DEF Waiting, PlayMarked
  <2>2. Tail(fxQueue) \in Seq(Nat) /\ Len(Tail(fxQueue)) = Len(fxQueue) - 1 /\ Len(fxQueue) \in Nat \ {0}
        /\ \A i \in 1..(Len(fxQueue) - 1) : Tail(fxQueue)[i] = fxQueue[i + 1]
    BY <1>1 DEF PlayMarked
  <2>3. \A i \in 1..(Len(fxQueue) - 1) : fxQueue[i + 1] \in EffectNumbers
    <3>1. SUFFICES ASSUME NEW i \in 1..(Len(fxQueue) - 1) PROVE fxQueue[i + 1] \in EffectNumbers
      OBVIOUS
    <3>2. i + 1 \in DOMAIN fxQueue /\ i + 1 # 1
      BY <2>2
    <3>3. QED
      BY <3>2
  <2>4. IsFiniteSet(fxTimers)
    <3>1. Len(effects) \in Nat
      OBVIOUS
    <3>2. IsFiniteSet(1..Len(effects))
      BY <3>1, FS_Interval
    <3>3. fxTimers \subseteq 1..Len(effects)
      OBVIOUS
    <3>4. QED
      BY <3>2, <3>3, FS_Subset
  <2>5. QED
    BY <2>1, <2>2, <2>3, <2>4
<1>2. CASE ~PlayMarked(fxQueue)
  <2>1. Waiting = fxQueue
    BY <1>2 DEF Waiting, PlayMarked
  <2>2. \A i \in 1..Len(fxQueue) : fxQueue[i] \in EffectNumbers
    <3>1. SUFFICES ASSUME NEW i \in 1..Len(fxQueue) PROVE fxQueue[i] \in EffectNumbers
      OBVIOUS
    <3>2. fxQueue # <<>> => Head(fxQueue) = fxQueue[1]
      OBVIOUS
    <3>3. QED
      BY <3>1, <3>2, <1>2 DEF PlayMarked
  <2>4. IsFiniteSet(fxTimers)
    <3>1. Len(effects) \in Nat
      OBVIOUS
    <3>2. IsFiniteSet(1..Len(effects))
      BY <3>1, FS_Interval
    <3>3. fxTimers \subseteq 1..Len(effects)
      OBVIOUS
    <3>4. QED
      BY <3>2, <3>3, FS_Subset
  <2>5. QED
    BY <2>1, <2>2, <2>4
<1>3. QED
  BY <1>1, <1>2

LEMMA EffectsGiveBack ==
  ASSUME NEW b \in FxBoxes, NEW kind
  PROVE  /\ AtOnce(b, kind) \in FxBoxes /\ (Settled(b) => Settled(AtOnce(b, kind)))
         /\ Midway(b) \in FxBoxes
BY DEF FxBoxes, Heights, AtOnce, Settled, Midway

LEMMA EndedGivesBack ==
  ASSUME FxShape, NEW b \in FxBoxes, NEW e \in EffectNumbers
  PROVE  /\ FxEnded(b, e) \in FxBoxes
         /\ effects[e].handled /\ effects[e].orig = "auto" => Settled(FxEnded(b, e))
<1>1. effects[e] \in FxEffects
  BY DEF FxShape, EffectNumbers
<1>2. QED
  BY <1>1 DEF FxEnded, FxBoxes, FxEffects, Settled

LessNumber == {ss \in Nat \X Nat : ss[1] < ss[2]}

LEMMA LeastNumber ==
  ASSUME NEW T \in SUBSET Nat, T # {}
  PROVE  \E e \in T : \A x \in T : e <= x
<1>1. IsWellFoundedOn(LessNumber, Nat)
  BY NatLessThanWellFounded, Zenon DEF OpToRel, LessNumber
<1>2. PICK e \in T : \A x \in T : <<x, e>> \notin LessNumber
  BY <1>1, WFMin
<1>3. ASSUME NEW x \in T PROVE e <= x
  <2>1. x \in Nat /\ e \in Nat
    OBVIOUS
  <2>2. ~(x < e)
    <3>1. SUFFICES ASSUME x < e PROVE FALSE
      OBVIOUS
    <3>2. <<x, e>> \in LessNumber
      BY <2>1, <3>1 DEF LessNumber
    <3>3. QED
      BY <1>2, <3>2
  <2>3. QED
    BY <2>1, <2>2
<1>4. QED
  BY <1>3

LEMMA AllGiveBack ==
  ASSUME FxShape
  PROVE  /\ AllEnded \in FxBoxes
         /\ (fxTimers = {} => Settled(box)) /\ (\A e \in fxTimers : effects[e].handled /\ effects[e].orig = "auto")
              => Settled(AllEnded)
<1>1. CASE fxTimers = {}
  BY <1>1 DEF AllEnded, FxShape
<1>2. CASE fxTimers # {}
  <2>1. fxTimers \in SUBSET Nat /\ fxTimers \subseteq EffectNumbers /\ box \in FxBoxes
    BY DEF FxShape, EffectNumbers
  <2>2. \E e \in fxTimers : \A x \in fxTimers : e <= x
    BY <1>2, <2>1, LeastNumber
  <2> DEFINE first == CHOOSE e \in fxTimers : \A x \in fxTimers : e <= x
  <2>3. first \in fxTimers /\ first \in EffectNumbers
    BY <2>1, <2>2
  <2>4. AllEnded = FxEnded(box, first)
    BY <1>2 DEF AllEnded
  <2> HIDE DEF first
  <2>5. QED
    BY <1>2, <2>1, <2>3, <2>4, EndedGivesBack
<1>3. QED
  BY <1>1, <1>2

\* finish() computes, from the box where the playing animations end, the one
\* where those that wait have ended.
LEMMA FinishGivesBack ==
  ASSUME FxShape
  PROVE  /\ FinishedBox \in FxBoxes
         /\ Settled(AllEnded) => Settled(FinishedBox)
<1> DEFINE n == Len(Waiting)
           next(i, b) == IF IsDelay(Waiting[i]) THEN b ELSE AtOnce(b, effects[Waiting[i]].kind)
           Ends(f, m) == f = [i \in 0..m |-> IF i = 0 THEN AllEnded ELSE next(i, f[i - 1])]
           Known(m) == \E f : Ends(f, m)
           Good(b) == b \in FxBoxes /\ (Settled(AllEnded) => Settled(b))
           Bad == {m \in Nat : ~Known(m)}
<1>0. n \in Nat
  BY WaitingEffects
<1>1. Bad = {}
  <2>1. SUFFICES ASSUME Bad # {} PROVE FALSE
    OBVIOUS
  <2>2. PICK m \in Bad : \A x \in Bad : m <= x
    BY <2>1, LeastNumber
  <2>3. CASE m = 0
    <3>1. Ends([i \in 0..0 |-> AllEnded], 0)
      OBVIOUS
    <3>2. QED
      BY <2>2, <2>3, <3>1
  <2>4. CASE m # 0
    <3>1. m - 1 \in Nat /\ m - 1 \notin Bad
      <4> HIDE DEF Known
      <4>1. m \in Nat /\ m - 1 \in Nat /\ ~(m <= m - 1)
        BY <2>2, <2>4
      <4>2. QED
        BY <2>2, <4>1
    <3>2. PICK f : Ends(f, m - 1)
      BY <3>1
    <3> DEFINE g == [i \in 0..m |-> IF i = m THEN next(m, f[m - 1]) ELSE f[i]]
    <3>3. \A i \in 0..m : g[i] = IF i = 0 THEN AllEnded ELSE next(i, g[i - 1])
      <4>1. SUFFICES ASSUME NEW i \in 0..m PROVE g[i] = IF i = 0 THEN AllEnded ELSE next(i, g[i - 1])
        OBVIOUS
      <4> HIDE DEF next
      <4>2. CASE i = m
        BY <4>2, <2>4, <2>2
      <4>3. CASE i # m
        <5>1. i \in 0..(m - 1) /\ g[i] = f[i]
          BY <4>3, <2>2
        <5>2. f[i] = IF i = 0 THEN AllEnded ELSE next(i, f[i - 1])
          BY <3>2, <5>1
        <5>3. i # 0 => g[i - 1] = f[i - 1]
          BY <5>1, <2>2
        <5>4. QED
          BY <5>1, <5>2, <5>3
      <4>4. QED
        BY <4>2, <4>3
    <3>4. Ends(g, m)
      <4> HIDE DEF next
      <4> DEFINE h == [i \in 0..m |-> IF i = 0 THEN AllEnded ELSE next(i, g[i - 1])]
      <4>1. \A i \in 0..m : g[i] = h[i]
        BY <3>3
      <4>2. g = h
        BY <4>1
      <4>3. QED
        BY <4>2
    <3>5. QED
      BY <2>2, <3>4
  <2>5. QED
    BY <2>3, <2>4
<1> DEFINE after == CHOOSE f : Ends(f, n)
<1>2. Ends(after, n)
  <2>1. Known(n)
    BY <1>0, <1>1
  <2> HIDE DEF Ends
  <2>2. QED
    BY <2>1
<1>3. FinishedBox = after[n]
  BY Zenon DEF FinishedBox
<1>4. Good(AllEnded)
  BY AllGiveBack
<1> HIDE DEF after
<1>5. \A m \in 0..n : Good(after[m])
  <2> DEFINE Wrong == {m \in Nat : m \in 0..n /\ ~Good(after[m])}
  <2>1. SUFFICES ASSUME Wrong # {} PROVE FALSE
    OBVIOUS
  <2>2. PICK m \in Wrong : \A x \in Wrong : m <= x
    BY <2>1, LeastNumber
  <2> HIDE DEF Good
  <2>3. after[m] = IF m = 0 THEN AllEnded ELSE next(m, after[m - 1])
    BY <1>2, <2>2
  <2>4. m # 0
    BY <1>4, <2>2, <2>3
  <2>5. m - 1 \in Nat /\ m - 1 \in 0..n /\ m - 1 \notin Wrong
    BY <1>0, <2>2, <2>4
  <2>6. Good(after[m - 1])
    BY <2>5
  <2> DEFINE b == after[m - 1]
             kind == effects[Waiting[m]].kind
  <2>7. AtOnce(b, kind) \in FxBoxes /\ (Settled(b) => Settled(AtOnce(b, kind)))
    <3>1. b \in FxBoxes
      BY <2>6 DEF Good
    <3> HIDE DEF b, kind
    <3>2. QED
      BY <3>1, EffectsGiveBack
  <2>8. after[m] \in {b, AtOnce(b, kind)}
    BY <2>3, <2>4
  <2>9. Good(after[m])
    BY <2>6, <2>7, <2>8 DEF Good
  <2>10. QED
    BY <2>2, <2>9
<1>6. QED
  BY <1>0, <1>3, <1>5
LEMMA RestMarked ==
  ASSUME FxShape, Waiting # <<>>
  PROVE  /\ Rest \in Seq(Nat) /\ PlayMarked(Rest) /\ Head(Waiting) \in EffectNumbers
         /\ \A i \in DOMAIN Rest : Rest[i] \in EffectNumbers \/ (i = 1 /\ Rest[i] = Sentinel)
<1> DEFINE w == Waiting
           t == Tail(w)
<1>1. w \in Seq(Nat) /\ w # <<>> /\ \A i \in 1..Len(w) : w[i] \in EffectNumbers
  BY WaitingEffects
<1> HIDE DEF w
<1>2. /\ t \in Seq(Nat) /\ Len(t) = Len(w) - 1 /\ Len(w) \in Nat \ {0} /\ Head(w) = w[1]
      /\ \A i \in 1..Len(t) : t[i] = w[i + 1]
  BY <1>1
<1>3. \A i \in 1..Len(t) : t[i] \in EffectNumbers
  <2>1. SUFFICES ASSUME NEW i \in 1..Len(t) PROVE t[i] \in EffectNumbers
    OBVIOUS
  <2>2. i + 1 \in 1..Len(w)
    BY <1>2
  <2>3. QED
    BY <1>1, <1>2, <2>2
<1> DEFINE r == <<Sentinel>> \o t
<1> HIDE DEF t
<1>4. /\ r \in Seq(Nat) /\ Len(r) = Len(t) + 1 /\ r[1] = Sentinel /\ r # <<>> /\ Head(r) = Sentinel
      /\ \A i \in 2..Len(r) : r[i] = t[i - 1]
  BY <1>2 DEF Sentinel
<1>5. \A i \in DOMAIN r : r[i] \in EffectNumbers \/ (i = 1 /\ r[i] = Sentinel)
  <2>1. SUFFICES ASSUME NEW i \in DOMAIN r, i # 1 PROVE r[i] \in EffectNumbers
    BY <1>4
  <2>2. i - 1 \in 1..Len(t) /\ i \in 2..Len(r)
    BY <1>2, <1>4, <2>1
  <2>3. QED
    BY <1>3, <1>4, <2>2
<1>6. Rest = r
  BY DEF Rest, w, t
<1> HIDE DEF r
<1>7. QED
  BY <1>1, <1>2, <1>4, <1>5, <1>6 DEF PlayMarked, w

LEMMA QueueKeeps ==
  ASSUME FxInv, NEW kind \in {"show", "hide", "delay"}, Queue(kind)
  PROVE  FxInv'
<1>. USE DEF FxInv, Queue, FxIdle, Playing
<1> DEFINE n == Len(effects) + 1
           new == [kind |-> kind, handled |-> FALSE, orig |-> "auto"]
<1>1. /\ effects' = Append(effects, new) /\ effects \in Seq(FxEffects) /\ new \in FxEffects
      /\ n \in Nat \ {0} /\ Len(effects) \in Nat
  BY DEF FxShape, FxEffects, Heights
<1>2. effects' \in Seq(FxEffects) /\ Len(effects') = n /\ \A e \in EffectNumbers : effects'[e] = effects[e]
  <2> HIDE DEF new
  <2>1. QED
    BY <1>1 DEF EffectNumbers
<1>3. EffectNumbers \subseteq EffectNumbers' /\ n \in EffectNumbers'
  BY <1>1, <1>2 DEF EffectNumbers
<1>4. FxShape'
  <2>1. fxQueue' \in Seq(Nat) /\ Len(fxQueue') = Len(fxQueue) + 1 /\ fxQueue'[Len(fxQueue) + 1] = n
        /\ Len(fxQueue) \in Nat /\ \A i \in 1..Len(fxQueue) : fxQueue'[i] = fxQueue[i]
    BY <1>1 DEF FxShape
  <2>2. \A i \in DOMAIN fxQueue' : fxQueue'[i] \in EffectNumbers' \/ (i = 1 /\ fxQueue'[i] = Sentinel)
    <3>1. SUFFICES ASSUME NEW i \in DOMAIN fxQueue'
                   PROVE fxQueue'[i] \in EffectNumbers' \/ (i = 1 /\ fxQueue'[i] = Sentinel)
      OBVIOUS
    <3>2. i \in 1..Len(fxQueue) \/ i = Len(fxQueue) + 1
      BY <2>1
    <3>3. \A j \in 1..Len(fxQueue) : fxQueue[j] \in EffectNumbers \/ (j = 1 /\ fxQueue[j] = Sentinel)
      BY <2>1 DEF FxShape
    <3>4. QED
      BY <1>3, <2>1, <3>2, <3>3
  <2>3. fxHooks' \in FxHooksTypes
    BY DEF FxShape, Ensured, FxHooksTypes
  <2>4. dequeues' \in Nat
    OBVIOUS
  <2>5. QED
    BY <1>2, <1>3, <2>1, <2>2, <2>3, <2>4 DEF FxShape
<1>5. AtMostOne'
  <2>1. fxHooks'.stop = fxHooks.stop
    BY DEF FxShape, Ensured, FxHooksTypes
  <2>2. fxQueue \in Seq(Nat) /\ fxQueue' = Append(fxQueue, n)
    BY DEF FxShape
  <2>3. PlayMarked(fxQueue) => PlayMarked(fxQueue')
    BY <1>1, <2>2 DEF PlayMarked
  <2>4. dequeues' = IF PlayMarked(fxQueue) THEN 0 ELSE 1
    BY DEF PlayMarked
  <2>5. ~overlooked /\ Playing = {} => fxQueue = <<>>
    BY DEF AtMostOne
  <2>6. QED
    BY <2>1, <2>3, <2>4, <2>5 DEF AtMostOne, PlayMarked
<1>6. HeightGivenBack'
  <2>1. \A e \in fxTimers : effects'[e] = effects[e]
    BY <1>2 DEF FxShape
  <2>2. QED
    BY <2>1 DEF HeightGivenBack
<1>7. QED
  BY <1>4, <1>5, <1>6

LEMMA PrefilteredKeeps ==
  ASSUME FxShape, NEW e \in EffectNumbers
  PROVE  /\ FxPrefiltered(e).effect \in FxEffects /\ FxPrefiltered(e).box \in FxBoxes
         /\ Settled(box) => FxPrefiltered(e).effect.orig = "auto"
         /\ ~FxPrefiltered(e).effect.handled => FxPrefiltered(e).box = box
<1> DEFINE handled == (effects[e].kind = "show") # box.visible
           orig == IF box.fxshow = "none" THEN box.height ELSE box.fxshow
           new == [effects[e] EXCEPT !.handled = handled, !.orig = orig]
           nbox == IF handled
                   THEN [box EXCEPT !.visible = TRUE, !.fxshow = IF @ = "none" THEN "full" ELSE @]
                   ELSE box
<1>1. effects[e] \in FxEffects /\ box \in FxBoxes
  BY DEF FxShape, EffectNumbers
<1>2. handled \in BOOLEAN /\ orig \in Heights /\ (Settled(box) => orig = "auto")
  BY <1>1 DEF FxBoxes, Settled
<1>3. nbox \in FxBoxes
  BY <1>1 DEF FxBoxes, Heights
<1>4. FxPrefiltered(e).effect = new /\ FxPrefiltered(e).box = nbox
  BY Zenon DEF FxPrefiltered
<1>5. ~handled => nbox = box
  OBVIOUS
<1> HIDE DEF handled, orig, nbox
<1>6. new \in FxEffects /\ new.orig = orig /\ (new.handled <=> handled)
  BY <1>1, <1>2 DEF FxEffects
<1> HIDE DEF new
<1>7. QED
  BY <1>2, <1>3, <1>4, <1>5, <1>6
LEMMA NothingQueued == <<>> \in Seq(Nat) /\ \A i \in DOMAIN <<>> : FALSE
  OBVIOUS

LEMMA EmptyKeeps == FxShape /\ EmptyFires => fxHooks' \in FxHooksTypes /\ fxHooks' = NoHooks /\ fxQueue' = <<>>
                      /\ promised' \in {"none", "waiting", "resolved"} /\ promised' # "waiting"
  BY DEF FxShape, EmptyFires, NoHooks, NoEffect, FxHooksTypes

LEMMA DequeueKeeps ==
  ASSUME FxInv, Dequeue
  PROVE  FxInv'
<1>. USE DEF FxInv, Dequeue, FxIdle, Playing
<1> DEFINE e == Head(Waiting)
           p == FxPrefiltered(e)
<1>0. dequeues \in Nat \ {0} /\ dequeues - 1 \in Nat /\ (dequeues = 1 => dequeues - 1 = 0)
  BY DEF FxShape
<1>1. CASE Waiting = <<>>
  <2>1. EmptyFires /\ dequeues' = dequeues - 1 /\ UNCHANGED <<fxTimers, delays, effects, box>>
    BY <1>1
  <2>2. FxShape'
    BY <1>0, <2>1, EmptyKeeps, NothingQueued DEF FxShape, EffectNumbers
  <2>3. AtMostOne'
    BY <1>0, <2>1, EmptyKeeps DEF AtMostOne, NoHooks, NoEffect
  <2>4. HeightGivenBack'
    BY <2>1 DEF HeightGivenBack
  <2>5. QED
    BY <2>2, <2>3, <2>4
<1>2. CASE Waiting # <<>> /\ IsDelay(e)
  <2>1. /\ fxQueue' = Rest /\ fxHooks' = [there |-> TRUE, cur |-> e, stop |-> e] /\ delays' = delays \union {e}
        /\ dequeues' = dequeues - 1 /\ UNCHANGED <<fxTimers, effects, box, promised>>
    BY <1>2
  <2>2. e \in EffectNumbers /\ e \in Nat
    BY <1>2, RestMarked DEF EffectNumbers
  <2>3. EffectNumbers' = EffectNumbers
    BY <2>1 DEF EffectNumbers
  <2> HIDE DEF e
  <2>4. FxShape'
    <3>1. fxHooks' \in FxHooksTypes
      BY <2>1, <2>2 DEF FxHooksTypes
    <3>2. QED
      BY <1>0, <1>2, <2>1, <2>2, <2>3, <3>1, RestMarked DEF FxShape
  <2>5. AtMostOne'
    <3>1. PlayMarked(fxQueue')
      BY <1>2, <2>1, RestMarked
    <3>2. fxHooks'.stop = e
      BY <2>1
    <3>3. ~overlooked => dequeues = 1 /\ fxTimers = {} /\ delays = {}
      BY <1>0 DEF AtMostOne
    <3>4. QED
      BY <1>0, <2>1, <3>1, <3>2, <3>3 DEF AtMostOne
  <2>6. HeightGivenBack'
    BY <2>1 DEF HeightGivenBack
  <2>7. QED
    BY <2>4, <2>5, <2>6
<1>3. CASE Waiting # <<>> /\ ~IsDelay(e)
  <2>1. /\ fxQueue' = Rest /\ fxHooks' = [there |-> TRUE, cur |-> e, stop |-> NoEffect]
        /\ effects' = [effects EXCEPT ![e] = p.effect] /\ box' = p.box
        /\ fxTimers' = (IF p.effect.handled THEN fxTimers \union {e} ELSE fxTimers)
        /\ dequeues' = (IF p.effect.handled THEN dequeues - 1 ELSE dequeues)
        /\ UNCHANGED <<delays, promised>>
    BY <1>3
  <2>2. e \in EffectNumbers /\ e \in Nat
    BY <1>3, RestMarked DEF EffectNumbers
  <2> HIDE DEF e
  <2>3. /\ p.effect \in FxEffects /\ p.box \in FxBoxes /\ (Settled(box) => p.effect.orig = "auto")
        /\ (~p.effect.handled => p.box = box)
    BY <2>2, PrefilteredKeeps
  <2> HIDE DEF p
  <2>4. effects' \in Seq(FxEffects) /\ Len(effects') = Len(effects) /\ effects'[e] = p.effect
        /\ \A f \in EffectNumbers \ {e} : effects'[f] = effects[f]
    BY <2>1, <2>2, <2>3 DEF FxShape, EffectNumbers
  <2>5. EffectNumbers' = EffectNumbers
    BY <2>4 DEF EffectNumbers
  <2>6. FxShape'
    <3>1. fxHooks' \in FxHooksTypes
      BY <2>1, <2>2 DEF FxHooksTypes, NoEffect
    <3>2. QED
      BY <1>0, <1>3, <2>1, <2>2, <2>3, <2>4, <2>5, <3>1, RestMarked DEF FxShape
  <2>7. AtMostOne'
    <3>1. PlayMarked(fxQueue')
      BY <1>3, <2>1, RestMarked
    <3>3. ~overlooked => dequeues = 1 /\ fxTimers = {} /\ delays = {}
      BY <1>0 DEF AtMostOne
    <3>4. QED
      BY <1>0, <2>1, <3>1, <3>3 DEF AtMostOne
  <2>8. HeightGivenBack'
    <3>1. SUFFICES ASSUME ~overlooked, ~interrupted PROVE HeightGivenBack'
      BY DEF HeightGivenBack
    <3>2. fxTimers = {} /\ Settled(box)
      BY <1>0, <3>1 DEF AtMostOne, HeightGivenBack
    <3>3. CASE p.effect.handled
      BY <2>1, <2>3, <2>4, <3>2, <3>3 DEF HeightGivenBack
    <3>4. CASE ~p.effect.handled
      BY <2>1, <2>3, <3>2, <3>4 DEF HeightGivenBack
    <3>5. QED
      BY <3>3, <3>4
  <2>9. QED
    BY <2>6, <2>7, <2>8
<1>4. QED
  BY <1>1, <1>2, <1>3

LEMMA PlayingKeeps ==
  ASSUME FxInv, \/ \E e \in fxTimers : Tick(e)
                \/ \E e \in delays : DelayEnds(e)
  PROVE  FxInv'
<1>. USE DEF FxInv, Playing
<1>1. ASSUME NEW e \in fxTimers, Tick(e) PROVE FxInv'
  <2>. USE DEF Tick, FxIdle
  <2>0. dequeues = 0 /\ e \in EffectNumbers /\ EffectNumbers' = EffectNumbers /\ box \in FxBoxes
        /\ UNCHANGED <<fxQueue, fxHooks, delays, effects, fxCallsLeft, promised, interrupted, overlooked>>
    BY <1>1 DEF FxShape, EffectNumbers
  <2>1. CASE box' = Midway(box) /\ UNCHANGED <<fxTimers, dequeues>>
    <3>1. box' \in FxBoxes
      BY <2>0, <2>1 DEF Midway, FxBoxes, Heights
    <3>2. QED
      BY <1>1, <2>0, <2>1, <3>1 DEF FxShape, AtMostOne, HeightGivenBack
  <2>2. CASE box' = FxEnded(box, e) /\ fxTimers' = fxTimers \ {e} /\ dequeues' = 1
    <3>1. box' \in FxBoxes /\ (effects[e].handled /\ effects[e].orig = "auto" => Settled(box'))
      BY <2>0, <2>2, EndedGivesBack
    <3>2. FxShape'
      BY <2>0, <2>2, <3>1 DEF FxShape
    <3>3. ~overlooked => fxTimers = {e} /\ delays = {}
      BY <1>1 DEF AtMostOne
    <3>4. AtMostOne'
      BY <2>0, <2>2, <3>3 DEF AtMostOne
    <3>5. HeightGivenBack'
      BY <1>1, <2>0, <2>2, <3>1, <3>3 DEF HeightGivenBack
    <3>6. QED
      BY <3>2, <3>4, <3>5
  <2>3. QED
    BY <1>1, <2>1, <2>2
<1>2. ASSUME NEW e \in delays, DelayEnds(e) PROVE FxInv'
  <2>. USE DEF DelayEnds, FxIdle
  <2>1. FxShape'
    BY <1>2 DEF FxShape, EffectNumbers
  <2>2. ~overlooked => fxTimers = {} /\ delays = {e}
    BY <1>2 DEF AtMostOne
  <2>3. AtMostOne'
    BY <1>2, <2>2 DEF AtMostOne
  <2>4. HeightGivenBack'
    BY <1>2 DEF HeightGivenBack
  <2>5. QED
    BY <2>1, <2>3, <2>4
<1>3. QED
  BY <1>1, <1>2

LEMMA StopKeeps ==
  ASSUME FxInv, NEW clearQueue \in BOOLEAN, NEW gotoEnd \in BOOLEAN, Stop(clearQueue, gotoEnd)
  PROVE  FxInv'
<1>. USE DEF FxInv, Playing
<1>0. /\ dequeues = 0 /\ fxTimers' = {} /\ box' = (IF gotoEnd THEN AllEnded ELSE box)
      /\ delays' = (IF clearQueue THEN delays ELSE delays \ {fxHooks.stop})
      /\ overlooked' = (overlooked \/ (clearQueue /\ delays # {}))
      /\ interrupted' = (interrupted \/ (~gotoEnd /\ fxTimers # {}))
      /\ dequeues' = (IF gotoEnd /\ fxTimers # {} THEN Cardinality(fxTimers) ELSE 1)
      /\ effects' = effects
  BY DEF Stop, FxCall, FxIdle
<1>1. /\ fxHooks' \in FxHooksTypes /\ promised' \in {"none", "waiting", "resolved"} /\ fxQueue' \in Seq(Nat)
      /\ fxQueue' = <<>> \/ fxQueue' = fxQueue
  <2>1. CASE clearQueue
    BY <2>1, EmptyKeeps, NothingQueued DEF Stop
  <2>2. CASE ~clearQueue
    <3>1. UNCHANGED <<fxQueue, promised>> /\ fxHooks' = [fxHooks EXCEPT !.stop = NoEffect]
      BY <2>2 DEF Stop
    <3>2. fxHooks \in FxHooksTypes /\ fxQueue \in Seq(Nat) /\ promised \in {"none", "waiting", "resolved"}
      BY DEF FxShape
    <3>3. QED
      BY <3>1, <3>2 DEF FxHooksTypes, NoEffect
  <2>3. QED
    BY <2>1, <2>2
<1>2. dequeues' \in Nat /\ (~overlooked => dequeues' = 1)
  <2>1. IsFiniteSet(fxTimers)
    BY WaitingEffects
  <2>2. ASSUME ~overlooked, fxTimers # {} PROVE Cardinality(fxTimers) = 1
    <3>1. PICK e \in fxTimers : fxTimers = {e}
      BY <2>2 DEF AtMostOne
    <3>2. QED
      BY <3>1, FS_Singleton
  <2>3. QED
    BY <1>0, <2>1, <2>2, FS_CardinalityType
<1>3. box' \in FxBoxes
  BY <1>0, AllGiveBack DEF FxShape
<1>4. overlooked' \in BOOLEAN /\ interrupted' \in BOOLEAN
  BY <1>0 DEF FxShape
<1>5. FxShape'
  <2>1. \A i \in DOMAIN fxQueue' : fxQueue'[i] \in EffectNumbers \/ (i = 1 /\ fxQueue'[i] = Sentinel)
    BY <1>1, NothingQueued DEF FxShape
  <2>2. EffectNumbers' = EffectNumbers /\ delays' \subseteq EffectNumbers /\ effects' \in Seq(FxEffects)
    BY <1>0 DEF FxShape, EffectNumbers
  <2>3. QED
    BY <1>0, <1>1, <1>2, <1>3, <1>4, <2>1, <2>2 DEF FxShape
<1>6. AtMostOne'
  <2>1. SUFFICES ASSUME ~overlooked' PROVE AtMostOne'
    BY DEF AtMostOne
  <2>2. ~overlooked /\ (clearQueue => delays = {}) /\ delays \subseteq {fxHooks.stop}
    BY <1>0, <2>1 DEF AtMostOne, FxShape
  <2>3. delays' = {} /\ fxTimers' = {} /\ dequeues' = 1
    BY <1>0, <1>2, <2>2
  <2>4. QED
    BY <2>3 DEF AtMostOne
<1>7. HeightGivenBack'
  BY <1>0, AllGiveBack DEF HeightGivenBack
<1>8. QED
  BY <1>5, <1>6, <1>7

LEMMA CallsKeep ==
  ASSUME FxInv, ClearQueue \/ Finish \/ Promise
  PROVE  FxInv'
<1>. USE DEF FxInv, Playing, FxCall, FxIdle
<1>1. CASE ClearQueue
  <2>1. FxShape'
    <3>1. EmptyFires /\ UNCHANGED <<fxTimers, delays, effects, dequeues, box, interrupted>>
          /\ overlooked' \in BOOLEAN
      BY <1>1 DEF ClearQueue, FxShape
    <3>2. QED
      BY <3>1, EmptyKeeps, NothingQueued DEF FxShape, EffectNumbers
  <2>2. ~overlooked' => fxTimers = {} /\ delays = {}
    BY <1>1 DEF ClearQueue
  <2>3. AtMostOne'
    BY <1>1, <2>2, EmptyKeeps DEF ClearQueue, AtMostOne, NoHooks
  <2>4. HeightGivenBack'
    BY <1>1, <2>2 DEF ClearQueue, HeightGivenBack
  <2>5. QED
    BY <2>1, <2>3, <2>4
<1>2. CASE Finish
  <2>1. /\ dequeues = 0 /\ box' = FinishedBox /\ fxQueue' = <<>> /\ fxTimers' = {}
        /\ dequeues' \in {0, 1} /\ overlooked' = (overlooked \/ delays # {})
        /\ UNCHANGED <<fxHooks, delays, effects, promised, interrupted>>
    BY <1>2 DEF Finish
  <2>2. FxShape'
    BY <2>1, FinishGivesBack DEF FxShape, EffectNumbers
  <2>3. AtMostOne'
    <3>1. ASSUME ~overlooked, delays = {}, dequeues' = 0 PROVE fxTimers = {}
      BY <1>2, <3>1 DEF Finish
    <3>2. QED
      BY <2>1, <3>1 DEF AtMostOne
  <2>4. HeightGivenBack'
    BY <2>1, FinishGivesBack, AllGiveBack DEF HeightGivenBack
  <2>5. QED
    BY <2>2, <2>3, <2>4
<1>3. CASE Promise
  BY <1>3 DEF Promise, FxShape, EffectNumbers, AtMostOne, HeightGivenBack, FxHooksTypes
<1>4. QED
  BY <1>1, <1>2, <1>3

LEMMA EffectsKept == FxSpec => []FxInv
<1>1. FxInit => FxInv
  <2>1. ASSUME FxInit PROVE FxInv
    <3>1. effects = <<>> /\ fxQueue = <<>> /\ NoHooks \in FxHooksTypes /\ box \in FxBoxes
      BY <2>1 DEF FxInit, NoHooks, NoEffect, FxHooksTypes, FxBoxes, Heights
    <3>4. effects \in Seq(FxEffects)
      BY <3>1
    <3>2. FxShape
      BY <2>1, <3>1, <3>4, NothingQueued DEF FxInit, FxShape
    <3>3. QED
      BY <2>1, <3>1, <3>2 DEF FxInit, FxInv, AtMostOne, HeightGivenBack, Playing, Settled, NoHooks
  <2>2. QED
    BY <2>1
<1>2. FxInv /\ [FxNext]_fxVars => FxInv'
  <2>1. ASSUME FxInv, UNCHANGED fxVars PROVE FxInv'
    BY <2>1 DEF fxVars, FxInv, FxShape, AtMostOne, HeightGivenBack, EffectNumbers, Playing, Settled, PlayMarked
  <2>2. QED
    BY <2>1, QueueKeeps, DequeueKeeps, PlayingKeeps, StopKeeps, CallsKeep DEF FxNext
<1>. QED
  BY <1>1, <1>2, PTL DEF FxSpec

\* One effect of a queue plays at a time, the sentinel stands as long as it
\* does, and when none is left the element and the promise are in order.
THEOREM EffectsInTurn == FxSpec => []OneEffectAtATime
<1>1. FxInv => OneEffectAtATime
  <2>1. SUFFICES ASSUME FxInv, ~overlooked PROVE OneEffectAtATime
    BY DEF OneEffectAtATime
  <2>2. Cardinality(Playing) <= 1
    <3>1. CASE Playing = {}
      BY <3>1, FS_EmptySet
    <3>2. CASE Playing # {}
      <4>1. PICK e \in Playing : Playing = {e}
        BY <2>1, <3>2 DEF FxInv, AtMostOne
      <4>2. QED
        BY <4>1, FS_Singleton
    <3>3. QED
      BY <3>1, <3>2
  <2>3. QED
    BY <2>1, <2>2 DEF FxInv, AtMostOne, HeightGivenBack, OneEffectAtATime, FxIdle, Playing, PlayMarked, Settled
<1>. QED
  BY <1>1, EffectsKept, PTL

RecursionFrom(f, n, base, step) == \A i \in 0..n : f[i] = IF i = 0 THEN base ELSE step[<<i, f[i - 1]>>]

\* A recursion over the numbers up to n, whose values stay in a set, has a
\* solution.
LEMMA PrefixRecursion ==
  ASSUME NEW n \in Nat, NEW S, NEW base \in S, NEW step \in [(1..n) \X S -> S]
  PROVE  \E f \in [0..n -> S] : RecursionFrom(f, n, base, step)
<1> DEFINE Solves(f, m) == \A i \in 0..m : f[i] = IF i = 0 THEN base ELSE step[<<i, f[i - 1]>>]
           Known(m) == \E f \in [0..m -> S] : Solves(f, m)
           Bad == {m \in Nat : m \in 0..n /\ ~Known(m)}
<1>1. Bad = {}
  <2>1. SUFFICES ASSUME Bad # {} PROVE FALSE
    OBVIOUS
  <2>2. PICK m \in Bad : \A x \in Bad : m <= x
    BY <2>1, LeastNumber
  <2>3. CASE m = 0
    <3>1. [i \in 0..0 |-> base] \in [0..0 -> S] /\ Solves([i \in 0..0 |-> base], 0)
      OBVIOUS
    <3>2. QED
      BY <2>2, <2>3, <3>1
  <2>4. CASE m # 0
    <3>1. m - 1 \in Nat /\ m - 1 \in 0..n /\ m - 1 \notin Bad /\ m \in 1..n
      <4> HIDE DEF Known
      <4>1. m \in Nat /\ m \in 0..n
        BY <2>2
      <4>2. m - 1 \in Nat /\ ~(m <= m - 1) /\ m - 1 \in 0..n /\ m \in 1..n
        BY <2>4, <4>1
      <4>3. QED
        BY <2>2, <4>2
    <3>2. PICK f \in [0..(m - 1) -> S] : Solves(f, m - 1)
      BY <3>1
    <3> DEFINE g == [i \in 0..m |-> IF i = m THEN step[<<m, f[m - 1]>>] ELSE f[i]]
    <3>3. f[m - 1] \in S /\ step[<<m, f[m - 1]>>] \in S
      BY <3>1
    <3>4. g \in [0..m -> S]
      <4>1. \A i \in 0..m : i # m => i \in 0..(m - 1)
        BY <3>1
      <4>2. QED
        BY <3>3, <4>1
    <3>5. Solves(g, m)
      <4>1. SUFFICES ASSUME NEW i \in 0..m PROVE g[i] = IF i = 0 THEN base ELSE step[<<i, g[i - 1]>>]
        OBVIOUS
      <4>2. CASE i = m
        <5>1. g[i] = step[<<m, f[m - 1]>>] /\ i # 0
          BY <4>2, <3>1
        <5>2. g[i - 1] = f[m - 1]
          BY <4>2, <3>1
        <5>3. QED
          BY <5>1, <5>2, <4>2
      <4>3. CASE i # m
        <5>1. i \in 0..(m - 1) /\ g[i] = f[i]
          BY <4>3, <3>1
        <5>2. f[i] = IF i = 0 THEN base ELSE step[<<i, f[i - 1]>>]
          BY <3>2, <5>1
        <5>3. i # 0 => g[i - 1] = f[i - 1]
          BY <5>1, <3>1
        <5>4. QED
          BY <5>1, <5>2, <5>3
      <4>4. QED
        BY <4>2, <4>3
    <3>6. QED
      BY <2>2, <3>4, <3>5
  <2>5. QED
    BY <2>3, <2>4
<1>2. n \in 0..n
  OBVIOUS
<1>3. QED
  BY <1>1, <1>2 DEF RecursionFrom

(* Events *)

Bound == [id : Nat, selector : {"direct", "cell"}, ns : Namespaces, once : BOOLEAN]
Calls == [elem : Nodes, handler : Bound]
Dispatched == [path : Seq(Nodes), target : Nodes, at : Nodes, queue : Seq(Calls), elem : Nodes,
               stopped : BOOLEAN, stoppedNow : BOOLEAN, running : BOOLEAN]

EventShape ==
    /\ handlers \in [Nodes -> Seq(Bound)] /\ delegateCount \in [Nodes -> Nat] /\ boundCount \in Nat
    /\ eventStack \in Seq(Dispatched) /\ nested \in BOOLEAN

InFrontAt(hs, k) == k \in 0..Len(hs) /\ \A i \in 1..Len(hs) : hs[i].selector # Direct <=> i <= k

DelegatesInFront == \A n \in Nodes : InFrontAt(handlers[n], delegateCount[n])

IdsApart(hs) == \A i, j \in 1..Len(hs) : hs[i].id = hs[j].id => i = j
IdsOf(hs) == {hs[i].id : i \in 1..Len(hs)}

\* Each handler has a number of its own.
NumbersApart ==
    /\ \A n \in Nodes : IdsApart(handlers[n]) /\ IdsOf(handlers[n]) \subseteq 1..boundCount
    /\ IdsOf(handlers["cell"]) \intersect IdsOf(handlers["table"]) = {}

\* As long as no event is triggered inside another one the copies that its
\* queue holds are of handlers that are bound at its element, or nowhere, and
\* none of a handler that was to be called once and has been.
CopyFresh(c, n) ==
    /\ c.id \in 1..boundCount
    /\ c.id \notin onceCalled
    /\ \A m \in Nodes \ {n} : c.id \notin IdsOf(handlers[m])

QueueFresh(e) ==
    /\ \A i, j \in 1..Len(e.queue) : e.queue[i].handler.id = e.queue[j].handler.id => i = j
    /\ \A i \in 1..Len(e.queue) : CopyFresh(e.queue[i].handler, e.at)

CopiesFresh ==
    ~nested =>
        /\ Len(eventStack) <= 1 /\ calledAgain = {} /\ onceCalled \subseteq 1..boundCount
        /\ \A n \in Nodes : \A i \in 1..Len(handlers[n]) : handlers[n][i].id \notin onceCalled
        /\ \A k \in 1..Len(eventStack) : QueueFresh(eventStack[k])

EventInv == EventShape /\ DelegatesInFront /\ NumbersApart /\ CopiesFresh

LeftFrom(left, n, ids) ==
    /\ LeftBound(n, ids) = left[Len(handlers[n])]
    /\ left[0] = [bound |-> <<>>, delegates |-> delegateCount[n]]
    /\ \A i \in 1..Len(handlers[n]) :
           left[i] = IF handlers[n][i].id \notin ids
                     THEN [bound |-> Append(left[i - 1].bound, handlers[n][i]),
                           delegates |-> left[i - 1].delegates]
                     ELSE [bound |-> left[i - 1].bound,
                           delegates |-> left[i - 1].delegates
                                         - (IF handlers[n][i].selector = Direct THEN 0 ELSE 1)]

LEMMA LeftSolution ==
  ASSUME NEW n \in Nodes, handlers[n] \in Seq(Bound), delegateCount[n] \in Nat, NEW ids
  PROVE  \E left : LeftFrom(left, n, ids)
<1> DEFINE hs == handlers[n]
           len == Len(hs)
           base == [bound |-> <<>>, delegates |-> delegateCount[n]]
           next(i, r) == IF hs[i].id \notin ids
                         THEN [bound |-> Append(r.bound, hs[i]), delegates |-> r.delegates]
                         ELSE [bound |-> r.bound,
                               delegates |-> r.delegates - (IF hs[i].selector = Direct THEN 0 ELSE 1)]
           S == [bound : Seq(Bound), delegates : Int]
           step == [p \in (1..len) \X S |-> next(p[1], p[2])]
<1>1. len \in Nat /\ \A i \in 1..len : hs[i] \in Bound
  OBVIOUS
<1>2. base \in S
  <2>1. <<>> \in Seq(Bound) /\ delegateCount[n] \in Int
    OBVIOUS
  <2>2. QED
    BY <2>1
<1>3. ASSUME NEW i \in 1..len, NEW r \in S PROVE next(i, r) \in S
  <2>1. r.bound \in Seq(Bound) /\ r.delegates \in Int /\ hs[i] \in Bound
    BY <1>1, <1>3
  <2>2. Append(r.bound, hs[i]) \in Seq(Bound)
    BY <2>1
  <2>3. r.delegates - (IF hs[i].selector = Direct THEN 0 ELSE 1) \in Int
    BY <2>1
  <2>4. QED
    BY <2>1, <2>2, <2>3
<1>4. step \in [(1..len) \X S -> S]
  <2> HIDE DEF next, S
  <2>1. QED
    BY <1>3
<1> HIDE DEF base
<1>5. PICK f \in [0..len -> S] : \A i \in 0..len : f[i] = IF i = 0 THEN base ELSE step[<<i, f[i - 1]>>]
  <2>0. len \in Nat
    BY <1>1
  <2> HIDE DEF step, S, len, next, hs
  <2>1. \E f \in [0..len -> S] : RecursionFrom(f, len, base, step)
    BY <2>0, <1>2, <1>4, PrefixRecursion
  <2>2. QED
    BY <2>1 DEF RecursionFrom
<1> DEFINE Ends(g) == g = [i \in 0..len |-> IF i = 0 THEN base ELSE next(i, g[i - 1])]
<1>6. Ends(f)
  <2>1. ASSUME NEW i \in 0..len PROVE f[i] = IF i = 0 THEN base ELSE next(i, f[i - 1])
    <3>1. CASE i = 0
      BY <1>5, <3>1
    <3>2. CASE i # 0
      <4>1. i \in 1..len /\ i - 1 \in 0..len
        BY <1>1, <3>2
      <4>2. f[i - 1] \in S
        BY <4>1
      <4> HIDE DEF next, S
      <4>3. step[<<i, f[i - 1]>>] = next(i, f[i - 1])
        BY <4>1, <4>2
      <4>4. QED
        BY <1>5, <3>2, <4>3
    <3>3. QED
      BY <3>1, <3>2
  <2> HIDE DEF next, S, len
  <2> DEFINE h == [i \in 0..len |-> IF i = 0 THEN base ELSE next(i, f[i - 1])]
  <2>2. \A i \in 0..len : f[i] = h[i]
    BY <2>1
  <2>3. f = h
    BY <2>2
  <2>4. QED
    BY <2>3
<1> DEFINE left == CHOOSE g : Ends(g)
<1>7. Ends(left)
  <2> HIDE DEF Ends
  <2>1. QED
    BY <1>6
<1>8. LeftBound(n, ids) = left[len]
  BY Zenon DEF LeftBound, base
<1> HIDE DEF left
<1>9. left[0] = base /\ \A i \in 1..len : left[i] = next(i, left[i - 1])
  <2> HIDE DEF next
  <2>1. \A i \in 0..len : left[i] = IF i = 0 THEN base ELSE next(i, left[i - 1])
    BY <1>7
  <2> HIDE DEF Ends, len
  <2>2. 0 \in 0..len /\ \A i \in 1..len : i \in 0..len /\ i # 0
    BY <1>1
  <2>3. QED
    BY <2>1, <2>2
<1>10. QED
  BY <1>8, <1>9 DEF base, LeftFrom

\* What is left are handlers that were bound, in their order, the delegates in
\* front and counted.
LEMMA LeftKeeps ==
  ASSUME NEW n \in Nodes, handlers[n] \in Seq(Bound), delegateCount[n] \in Nat,
         InFrontAt(handlers[n], delegateCount[n]), IdsApart(handlers[n]), NEW ids
  PROVE  LET l == LeftBound(n, ids) IN
         /\ l.bound \in Seq(Bound) /\ l.delegates \in Nat /\ InFrontAt(l.bound, l.delegates) /\ IdsApart(l.bound)
         /\ \A j \in 1..Len(l.bound) : l.bound[j].id \notin ids
                                       /\ \E i \in 1..Len(handlers[n]) : l.bound[j] = handlers[n][i]
<1>0. PICK left : LeftFrom(left, n, ids)
  BY LeftSolution
<1>1. /\ LeftBound(n, ids) = left[Len(handlers[n])]
      /\ left[0] = [bound |-> <<>>, delegates |-> delegateCount[n]]
      /\ \A i \in 1..Len(handlers[n]) :
             left[i] = IF handlers[n][i].id \notin ids
                       THEN [bound |-> Append(left[i - 1].bound, handlers[n][i]),
                             delegates |-> left[i - 1].delegates]
                       ELSE [bound |-> left[i - 1].bound,
                             delegates |-> left[i - 1].delegates
                                           - (IF handlers[n][i].selector = Direct THEN 0 ELSE 1)]
  BY <1>0 DEF LeftFrom
<1> DEFINE hs == handlers[n]
           len == Len(hs)
           k == delegateCount[n]
<1> DEFINE Size(i) == Len(left[i].bound)
           Typed(i) == left[i].bound \in Seq(Bound) /\ left[i].delegates \in Int
           Below(i) == i <= k => /\ Size(i) = left[i].delegates - (k - i)
                                 /\ \A j \in 1..Size(i) : left[i].bound[j].selector # Direct
           Behind(i) == i >= k => InFrontAt(left[i].bound, left[i].delegates)
           Taken(i) == \A j \in 1..Size(i) : left[i].bound[j].id \notin ids
                                             /\ \E a \in 1..i : left[i].bound[j] = hs[a]
           Fits(i) == Typed(i) /\ Below(i) /\ Behind(i) /\ Taken(i) /\ IdsApart(left[i].bound)
           Wrong == {i \in Nat : i \in 0..len /\ ~Fits(i)}
<1>2. hs \in Seq(Bound) /\ len \in Nat /\ (\A i \in 1..len : hs[i] \in Bound) /\ k \in 0..len /\ k \in Nat
  BY DEF InFrontAt
<1>3. Fits(0)
  <2>1. left[0].bound = <<>> /\ left[0].delegates = k
    BY <1>1
  <2>2. <<>> \in Seq(Bound) /\ Len(<<>>) = 0
    OBVIOUS
  <2>3. 1..0 = {}
    OBVIOUS
  <2>4. Typed(0) /\ Size(0) = 0
    BY <1>2, <2>1, <2>2
  <2>5. Below(0) /\ Behind(0) /\ Taken(0) /\ IdsApart(left[0].bound)
    BY <1>2, <2>1, <2>3, <2>4 DEF InFrontAt, IdsApart
  <2>6. QED
    BY <2>4, <2>5
<1>4. ASSUME NEW i \in 1..len, Fits(i - 1) PROVE Fits(i)
  <2> DEFINE b == left[i - 1].bound
             d == left[i - 1].delegates
             h == hs[i]
  <2>1. b \in Seq(Bound) /\ d \in Int /\ h \in Bound /\ Len(b) \in Nat /\ i - 1 \in 0..len /\ i \in Nat
    BY <1>2, <1>4
  <2>2. h.selector # Direct <=> i <= k
    BY <1>2 DEF InFrontAt
  <2> DEFINE less == d - (IF h.selector = Direct THEN 0 ELSE 1)
  <2>0. left[i] = IF h.id \notin ids THEN [bound |-> Append(b, h), delegates |-> d]
                  ELSE [bound |-> b, delegates |-> less]
    <3> HIDE DEF Fits
    <3>1. QED
      BY <1>1
  <2>3. CASE h.id \in ids
    <3>1. left[i].bound = b /\ left[i].delegates = d - (IF h.selector = Direct THEN 0 ELSE 1)
      <4> HIDE DEF b, d, h
      <4>1. left[i] = [bound |-> b, delegates |-> less]
        BY <2>0, <2>3
      <4>2. QED
        BY <4>1
    <3> HIDE DEF b, d, h
    <3>2. Typed(i) /\ IdsApart(left[i].bound)
      BY <1>4, <2>1, <3>1 DEF b
    <3>3. Taken(i)
      <4>1. \A a \in 1..(i - 1) : a \in 1..i
        BY <2>1
      <4>2. QED
        BY <1>4, <2>1, <3>1, <4>1 DEF b
    <3>4. CASE i <= k
      <4>1. i - 1 <= k /\ left[i].delegates = d - 1
        BY <1>2, <2>1, <2>2, <3>1, <3>4
      <4>2. Len(b) = d - (k - (i - 1)) /\ \A j \in 1..Len(b) : b[j].selector # Direct
        BY <1>4, <4>1 DEF b, d
      <4>3. Below(i)
        BY <1>2, <2>1, <3>1, <4>1, <4>2
      <4>4. Behind(i)
        <5>1. SUFFICES ASSUME i >= k PROVE Behind(i)
          OBVIOUS
        <5>2. i = k /\ Len(b) = d - 1
          BY <1>2, <2>1, <3>4, <4>2, <5>1
        <5>3. QED
          BY <2>1, <3>1, <4>1, <4>2, <5>2, SMTT(60) DEF InFrontAt
      <4>5. QED
        BY <3>2, <3>3, <4>3, <4>4
    <3>5. CASE i > k
      <4>1. i - 1 >= k /\ left[i].delegates = d /\ ~(i <= k)
        BY <1>2, <2>1, <2>2, <3>1, <3>5
      <4>2. InFrontAt(b, d)
        BY <1>4, <4>1 DEF b, d
      <4>3. QED
        BY <3>1, <3>2, <3>3, <4>1, <4>2
    <3>6. QED
      BY <1>2, <2>1, <3>4, <3>5
  <2>4. CASE h.id \notin ids
    <3>1. left[i].bound = Append(b, h) /\ left[i].delegates = d
      <4> HIDE DEF b, d, h
      <4>1. left[i] = [bound |-> Append(b, h), delegates |-> d]
        BY <2>0, <2>4
      <4>2. QED
        BY <4>1
    <3> DEFINE c == Append(b, h)
    <3>2. /\ c \in Seq(Bound) /\ Len(c) = Len(b) + 1 /\ c[Len(b) + 1] = h
          /\ \A j \in 1..Len(b) : c[j] = b[j]
      BY <2>1, SMTT(60)
    <3>3. \A j \in 1..Len(c) : j \in 1..Len(b) \/ j = Len(b) + 1
      BY <2>1, <3>2, SMTT(60)
    <3> HIDE DEF c
    <3>4. left[i].bound = c
      BY <3>1 DEF c
    <3>5. Taken(i - 1) /\ Below(i - 1) /\ Behind(i - 1) /\ IdsApart(b)
      BY <1>4
    <3>6. Taken(i)
      <4>1. \A a \in 1..(i - 1) : a \in 1..i
        BY <2>1
      <4>2. SUFFICES ASSUME NEW j \in 1..Len(c) PROVE c[j].id \notin ids /\ \E a \in 1..i : c[j] = hs[a]
        BY <3>4
      <4>3. CASE j \in 1..Len(b)
        BY <3>2, <3>5, <4>1, <4>3
      <4>4. CASE j = Len(b) + 1
        <5>1. c[j] = h /\ i \in 1..i
          BY <2>1, <3>2, <4>4
        <5>2. QED
          BY <2>4, <5>1
      <4>5. QED
        BY <3>3, <4>3, <4>4
    <3>7. IdsApart(c)
      <4>1. \A j \in 1..Len(b) : b[j].id # h.id
        <5>1. SUFFICES ASSUME NEW j \in 1..Len(b) PROVE b[j].id # h.id
          OBVIOUS
        <5>2. PICK a \in 1..(i - 1) : b[j] = hs[a]
          BY <3>5
        <5>3. a \in 1..len /\ a # i
          BY <1>2, <2>1
        <5>4. QED
          BY <5>2, <5>3 DEF IdsApart
      <4>2. QED
        BY <2>1, <3>2, <3>3, <3>5, <4>1 DEF IdsApart
    <3> HIDE DEF b, d, h
    <3>8. CASE i <= k
      <4>1. i - 1 <= k
        BY <1>2, <2>1, <3>8
      <4>2. Len(b) = d - (k - (i - 1)) /\ \A j \in 1..Len(b) : b[j].selector # Direct
        BY <3>5, <4>1 DEF b, d
      <4>3. \A j \in 1..Len(c) : c[j].selector # Direct
        BY <2>2, <3>2, <3>3, <3>8, <4>2
      <4>4. Len(c) = d - (k - i)
        BY <1>2, <2>1, <3>2, <4>2
      <4>5. Behind(i)
        <5>1. SUFFICES ASSUME i >= k PROVE Behind(i)
          OBVIOUS
        <5>2. i = k /\ Len(c) = d
          BY <1>2, <2>1, <3>8, <4>4, <5>1
        <5>3. QED
          BY <2>1, <3>1, <3>4, <4>3, <5>2 DEF InFrontAt
      <4>6. QED
        BY <2>1, <3>1, <3>2, <3>4, <3>6, <3>7, <4>3, <4>4, <4>5
    <3>9. CASE i > k
      <4>1. i - 1 >= k /\ ~(i <= k)
        BY <1>2, <2>1, <3>9
      <4>2. d \in 0..Len(b) /\ \A j \in 1..Len(b) : b[j].selector # Direct <=> j <= d
        BY <3>5, <4>1 DEF b, d, InFrontAt
      <4>3. h.selector = Direct /\ ~(Len(b) + 1 <= d)
        BY <2>1, <2>2, <4>1, <4>2
      <4>4. \A j \in 1..Len(c) : c[j].selector # Direct <=> j <= d
        BY <3>2, <3>3, <4>2, <4>3
      <4>5. InFrontAt(c, d)
        BY <2>1, <3>2, <4>2, <4>4 DEF InFrontAt
      <4>6. QED
        BY <2>1, <3>1, <3>2, <3>4, <3>6, <3>7, <4>1, <4>5
    <3>10. QED
      BY <1>2, <2>1, <3>8, <3>9
  <2>5. QED
    BY <2>3, <2>4
<1>5. Wrong = {}
  <2>1. SUFFICES ASSUME Wrong # {} PROVE FALSE
    OBVIOUS
  <2>2. PICK i \in Wrong : \A x \in Wrong : i <= x
    BY <2>1, LeastNumber
  <2> HIDE DEF Fits
  <2>3. i \in Nat /\ i \in 0..len /\ ~Fits(i) /\ i # 0
    BY <1>3, <2>2
  <2>4. i \in 1..len /\ i - 1 \in Nat /\ i - 1 \in 0..len /\ ~(i <= i - 1)
    BY <1>2, <2>3
  <2>5. i - 1 \notin Wrong
    BY <2>2, <2>4
  <2>6. Fits(i - 1)
    BY <2>4, <2>5
  <2>7. QED
    BY <1>4, <2>3, <2>4, <2>6
<1>6. Fits(len)
  <2> HIDE DEF Fits
  <2>1. len \in 0..len
    BY <1>2
  <2>2. QED
    BY <1>2, <1>5, <2>1
<1>7. InFrontAt(left[len].bound, left[len].delegates)
  BY <1>2, <1>6
<1>8. left[len].delegates \in Nat
  BY <1>6, <1>7 DEF InFrontAt
<1>9. QED
  BY <1>1, <1>6, <1>7, <1>8

LEMMA DelegatesSolution ==
  ASSUME NEW n \in Nodes, NEW target \in Nodes, handlers[n] \in Seq(Bound), delegateCount[n] \in 0..Len(handlers[n])
  PROVE  \E matching : /\ Delegates(n, target) = matching[delegateCount[n]]
                       /\ matching[0] = <<>>
                       /\ \A i \in 1..delegateCount[n] :
                             matching[i] = IF target # n /\ handlers[n][i].selector = target
                                           THEN Append(matching[i - 1], handlers[n][i]) ELSE matching[i - 1]
<1> DEFINE hs == handlers[n]
           k == delegateCount[n]
           base == <<>>
           next(i, r) == IF target # n /\ hs[i].selector = target THEN Append(r, hs[i]) ELSE r
           S == Seq(Bound)
           step == [p \in (1..k) \X S |-> next(p[1], p[2])]
<1>1. k \in Nat /\ \A i \in 1..k : hs[i] \in Bound
  OBVIOUS
<1>2. base \in S
  OBVIOUS
<1>3. ASSUME NEW i \in 1..k, NEW r \in S PROVE next(i, r) \in S
  BY <1>1
<1>4. step \in [(1..k) \X S -> S]
  <2> HIDE DEF next, S
  <2>1. QED
    BY <1>3
<1> HIDE DEF base
<1>5. PICK f \in [0..k -> S] : \A i \in 0..k : f[i] = IF i = 0 THEN base ELSE step[<<i, f[i - 1]>>]
  <2> HIDE DEF step, S, next, hs
  <2>0. k \in Nat
    BY <1>1
  <2>1. \E f \in [0..k -> S] : RecursionFrom(f, k, base, step)
    BY <2>0, <1>2, <1>4, PrefixRecursion
  <2>2. QED
    BY <2>1 DEF RecursionFrom
<1> DEFINE Ends(g) == g = [i \in 0..k |-> IF i = 0 THEN base ELSE next(i, g[i - 1])]
<1>6. Ends(f)
  <2>1. ASSUME NEW i \in 0..k PROVE f[i] = IF i = 0 THEN base ELSE next(i, f[i - 1])
    <3>1. CASE i = 0
      BY <1>5, <3>1
    <3>2. CASE i # 0
      <4>1. i \in 1..k /\ i - 1 \in 0..k
        BY <1>1, <3>2
      <4>2. f[i - 1] \in S
        BY <4>1
      <4> HIDE DEF next, S
      <4>3. step[<<i, f[i - 1]>>] = next(i, f[i - 1])
        BY <4>1, <4>2
      <4>4. QED
        BY <1>5, <3>2, <4>3
    <3>3. QED
      BY <3>1, <3>2
  <2> HIDE DEF next, S
  <2> DEFINE h == [i \in 0..k |-> IF i = 0 THEN base ELSE next(i, f[i - 1])]
  <2>2. \A i \in 0..k : f[i] = h[i]
    BY <2>1
  <2>3. f = h
    BY <2>2
  <2>4. QED
    BY <2>3
<1> DEFINE matching == CHOOSE g : Ends(g)
<1>7. Ends(matching)
  <2> HIDE DEF Ends
  <2>1. QED
    BY <1>6
<1>8. Delegates(n, target) = matching[k]
  BY Zenon DEF Delegates, base
<1> HIDE DEF matching
<1>9. matching[0] = base /\ \A i \in 1..k : matching[i] = next(i, matching[i - 1])
  <2> HIDE DEF next
  <2>1. \A i \in 0..k : matching[i] = IF i = 0 THEN base ELSE next(i, matching[i - 1])
    BY <1>7
  <2> HIDE DEF Ends
  <2>2. 0 \in 0..k /\ \A i \in 1..k : i \in 0..k /\ i # 0
    BY <1>1
  <2>3. QED
    BY <2>1, <2>2
<1>10. QED
  BY <1>8, <1>9 DEF base

\* The delegates that match are some of those in front, each once.
LEMMA DelegatesMatch ==
  ASSUME NEW n \in Nodes, NEW target \in Nodes, handlers[n] \in Seq(Bound),
         delegateCount[n] \in 0..Len(handlers[n]), IdsApart(handlers[n])
  PROVE  LET m == Delegates(n, target) IN
         /\ m \in Seq(Bound) /\ IdsApart(m)
         /\ \A j \in 1..Len(m) : \E i \in 1..delegateCount[n] : m[j] = handlers[n][i]
<1> DEFINE hs == handlers[n]
           k == delegateCount[n]
<1>1. PICK matching : /\ Delegates(n, target) = matching[k]
                      /\ matching[0] = <<>>
                      /\ \A i \in 1..k :
                             matching[i] = IF target # n /\ hs[i].selector = target
                                           THEN Append(matching[i - 1], hs[i]) ELSE matching[i - 1]
  BY DelegatesSolution
<1> DEFINE Taken(i) == \A j \in 1..Len(matching[i]) : \E a \in 1..i : matching[i][j] = hs[a]
           Fits(i) == matching[i] \in Seq(Bound) /\ Taken(i) /\ IdsApart(matching[i])
           Wrong == {i \in Nat : i \in 0..k /\ ~Fits(i)}
<1>2. hs \in Seq(Bound) /\ Len(hs) \in Nat /\ (\A i \in 1..Len(hs) : hs[i] \in Bound) /\ k \in 0..Len(hs) /\ k \in Nat
  OBVIOUS
<1>3. Fits(0)
  BY <1>1 DEF IdsApart
<1>4. ASSUME NEW i \in 1..k, Fits(i - 1) PROVE Fits(i)
  <2> DEFINE b == matching[i - 1]
             h == hs[i]
             c == Append(b, h)
  <2>1. b \in Seq(Bound) /\ h \in Bound /\ Len(b) \in Nat /\ i \in Nat
        /\ \A a \in 1..(i - 1) : a \in 1..i
    BY <1>2, <1>4
  <2>2. matching[i] = b \/ matching[i] = c
    <3> HIDE DEF Fits
    <3>1. QED
      BY <1>1
  <2>3. Taken(i - 1) /\ IdsApart(b)
    BY <1>4
  <2>4. CASE matching[i] = b
    BY <2>1, <2>3, <2>4
  <2>5. CASE matching[i] = c
    <3>2. /\ c \in Seq(Bound) /\ Len(c) = Len(b) + 1 /\ c[Len(b) + 1] = h
          /\ \A j \in 1..Len(b) : c[j] = b[j]
      BY <2>1
    <3>3. \A j \in 1..Len(c) : j \in 1..Len(b) \/ j = Len(b) + 1
      BY <2>1, <3>2
    <3> HIDE DEF c
    <3>6. Taken(i)
      <4>2. SUFFICES ASSUME NEW j \in 1..Len(c) PROVE \E a \in 1..i : c[j] = hs[a]
        BY <2>5
      <4>3. CASE j \in 1..Len(b)
        BY <2>1, <2>3, <3>2, <4>3
      <4>4. CASE j = Len(b) + 1
        <5>1. c[j] = h /\ i \in 1..i
          BY <2>1, <3>2, <4>4
        <5>2. QED
          BY <5>1
      <4>5. QED
        BY <3>3, <4>3, <4>4
    <3>7. IdsApart(c)
      <4>1. \A j \in 1..Len(b) : b[j].id # h.id
        <5>1. SUFFICES ASSUME NEW j \in 1..Len(b) PROVE b[j].id # h.id
          OBVIOUS
        <5>2. PICK a \in 1..(i - 1) : b[j] = hs[a]
          BY <2>3
        <5>3. a \in 1..Len(hs) /\ a # i /\ i \in 1..Len(hs)
          BY <1>2, <2>1
        <5>4. QED
          BY <5>2, <5>3 DEF IdsApart
      <4>2. QED
        BY <2>1, <2>3, <3>2, <3>3, <4>1 DEF IdsApart
    <3>8. QED
      BY <2>5, <3>2, <3>6, <3>7
  <2>6. QED
    BY <2>2, <2>4, <2>5
<1>5. Wrong = {}
  <2>1. SUFFICES ASSUME Wrong # {} PROVE FALSE
    OBVIOUS
  <2>2. PICK i \in Wrong : \A x \in Wrong : i <= x
    BY <2>1, LeastNumber
  <2> HIDE DEF Fits
  <2>3. i \in Nat /\ i \in 0..k /\ ~Fits(i) /\ i # 0
    BY <1>3, <2>2
  <2>4. i \in 1..k /\ i - 1 \in Nat /\ i - 1 \in 0..k /\ ~(i <= i - 1)
    BY <1>2, <2>3
  <2>5. i - 1 \notin Wrong
    BY <2>2, <2>4
  <2>6. Fits(i - 1)
    BY <2>4, <2>5
  <2>7. QED
    BY <1>4, <2>3, <2>4, <2>6
<1>6. Fits(k)
  <2> HIDE DEF Fits
  <2>1. k \in 0..k
    BY <1>2
  <2>2. QED
    BY <1>2, <1>5, <2>1
<1>9. QED
  BY <1>1, <1>6

\* What an event is to call at an element are copies of handlers bound there.
LEMMA QueueOfCopies ==
  ASSUME EventShape, DelegatesInFront, NumbersApart, NEW n \in Nodes, NEW target \in Nodes
  PROVE  LET q == HandlerQueue(n, target) IN
         /\ q \in Seq(Calls)
         /\ \A i \in 1..Len(q) : \E a \in 1..Len(handlers[n]) : q[i].handler = handlers[n][a]
         /\ \A i, j \in 1..Len(q) : q[i].handler.id = q[j].handler.id => i = j
<1> DEFINE hs == handlers[n]
           k == delegateCount[n]
           d == Delegates(n, target)
           b == SubSeq(hs, k + 1, Len(hs))
           at(e, s) == [i \in 1..Len(s) |-> [elem |-> e, handler |-> s[i]]]
           x == at(target, d)
           y == at(n, b)
           q == x \o y
<1>1. hs \in Seq(Bound) /\ Len(hs) \in Nat /\ k \in 0..Len(hs) /\ IdsApart(hs) /\ \A a \in 1..Len(hs) : hs[a] \in Bound
  BY DEF EventShape, DelegatesInFront, InFrontAt, NumbersApart
<1>2. d \in Seq(Bound) /\ IdsApart(d) /\ \A j \in 1..Len(d) : \E i \in 1..k : d[j] = hs[i]
  BY <1>1, DelegatesMatch
<1> HIDE DEF d
<1>3. /\ b \in Seq(Bound) /\ Len(b) = Len(hs) - k
      /\ \A j \in 1..Len(b) : b[j] = hs[k + j]
  <2> HIDE DEF hs, k
  <2>1. k + 1 \in 1..(Len(hs) + 1) /\ Len(hs) \in (k + 1 - 1)..Len(hs) /\ k \in Nat
    BY <1>1
  <2>2. /\ b \in Seq(Bound)
        /\ Len(b) = IF k + 1 <= Len(hs) THEN Len(hs) - (k + 1) + 1 ELSE 0
        /\ \A i \in 1..(Len(hs) - (k + 1) + 1) : b[i] = hs[k + 1 + i - 1]
    BY <1>1, <2>1, SubSeqProperties
  <2>3. QED
    BY <1>1, <2>1, <2>2
<1> HIDE DEF b
<1>4. ASSUME NEW e \in Nodes, NEW s \in Seq(Bound)
      PROVE  at(e, s) \in Seq(Calls) /\ Len(at(e, s)) = Len(s) /\ \A i \in 1..Len(s) : at(e, s)[i].handler = s[i]
  <2>1. \A i \in 1..Len(s) : s[i] \in Bound
    OBVIOUS
  <2>2. \A i \in 1..Len(s) : [elem |-> e, handler |-> s[i]] \in Calls
    BY <2>1 DEF Calls
  <2>3. QED
    BY <2>2
<1>5. x \in Seq(Calls) /\ Len(x) = Len(d) /\ \A i \in 1..Len(d) : x[i].handler = d[i]
  BY <1>2, <1>4
<1>6. y \in Seq(Calls) /\ Len(y) = Len(b) /\ \A i \in 1..Len(b) : y[i].handler = b[i]
  BY <1>3, <1>4
<1> HIDE DEF x, y
<1>7. /\ q \in Seq(Calls) /\ Len(q) = Len(d) + Len(b) /\ Len(d) \in Nat /\ Len(b) \in Nat
      /\ \A i \in 1..Len(d) : q[i] = x[i]
      /\ \A i \in (Len(d) + 1)..Len(q) : q[i] = y[i - Len(d)]
  <2>1. Len(d) \in Nat /\ Len(b) \in Nat /\ Len(x) = Len(d) /\ Len(y) = Len(b)
    BY <1>2, <1>3, <1>5, <1>6
  <2>2. x \in Seq(Calls) /\ y \in Seq(Calls)
    BY <1>5, <1>6
  <2>3. /\ x \o y \in Seq(Calls) /\ Len(x \o y) = Len(x) + Len(y)
        /\ \A i \in 1..(Len(x) + Len(y)) : (x \o y)[i] = IF i <= Len(x) THEN x[i] ELSE y[i - Len(x)]
    BY <2>2, ConcatProperties
  <2>4. QED
    BY <2>1, <2>3
<1> HIDE DEF q
<1> DEFINE Fore(i) == i \in 1..Len(d) /\ \E a \in 1..k : q[i].handler = hs[a]
           Rear(i) == i - Len(d) \in 1..Len(b) /\ q[i].handler = hs[k + (i - Len(d))]
<1>8. \A i \in 1..Len(q) : Fore(i) \/ Rear(i)
  <2>1. SUFFICES ASSUME NEW i \in 1..Len(q) PROVE Fore(i) \/ Rear(i)
    OBVIOUS
  <2>2. CASE i <= Len(d)
    <3>1. i \in 1..Len(d) /\ q[i].handler = d[i]
      BY <1>5, <1>7, <2>2
    <3>2. QED
      BY <1>2, <3>1
  <2>3. CASE i > Len(d)
    <3>1. i - Len(d) \in 1..Len(b) /\ i \in (Len(d) + 1)..Len(q)
      BY <1>7, <2>3
    <3>2. q[i].handler = b[i - Len(d)]
      BY <1>6, <1>7, <3>1
    <3>3. QED
      BY <1>3, <3>1, <3>2
  <2>4. QED
    BY <1>7, <2>2, <2>3
<1>9. \A i \in 1..Len(q) : \E a \in 1..Len(hs) : q[i].handler = hs[a]
  <2>1. SUFFICES ASSUME NEW i \in 1..Len(q) PROVE \E a \in 1..Len(hs) : q[i].handler = hs[a]
    OBVIOUS
  <2>2. CASE Fore(i)
    <3>1. \A a \in 1..k : a \in 1..Len(hs)
      BY <1>1
    <3>2. QED
      BY <2>2, <3>1
  <2>3. CASE Rear(i)
    <3>1. k + (i - Len(d)) \in 1..Len(hs)
      BY <1>1, <1>3, <2>3, SMTT(60)
    <3>2. QED
      BY <2>3, <3>1
  <2>4. QED
    BY <1>8, <2>2, <2>3
<1>10. ASSUME NEW i \in 1..Len(q), NEW j \in 1..Len(q), q[i].handler.id = q[j].handler.id PROVE i = j
  <2>0. \A u \in 1..Len(b) : k + u \in 1..Len(hs) /\ (k + u) > k
    <3> HIDE DEF hs, k
    <3>1. QED
      BY <1>1, <1>3
  <2>1. CASE Fore(i) /\ Fore(j)
    <3>1. q[i].handler = d[i] /\ q[j].handler = d[j]
      BY <1>5, <1>7, <2>1
    <3>2. QED
      BY <1>2, <1>10, <2>1, <3>1 DEF IdsApart
  <2>2. CASE Rear(i) /\ Rear(j)
    <3>1. k + (i - Len(d)) \in 1..Len(hs) /\ k + (j - Len(d)) \in 1..Len(hs)
      BY <2>0, <2>2
    <3>2. k + (i - Len(d)) = k + (j - Len(d))
      BY <1>1, <1>10, <2>2, <3>1 DEF IdsApart
    <3>3. QED
      BY <1>1, <1>7, <3>2
  <2>3. ASSUME NEW u \in 1..Len(q), NEW v \in 1..Len(q), Fore(u), Rear(v) PROVE q[u].handler.id # q[v].handler.id
    <3>1. PICK a \in 1..k : q[u].handler = hs[a]
      BY <2>3
    <3>0. k + (v - Len(d)) \in 1..Len(hs) /\ (k + (v - Len(d))) > k
      BY <2>0, <2>3
    <3>2. k + (v - Len(d)) \in 1..Len(hs) /\ a \in 1..Len(hs) /\ a # k + (v - Len(d))
      <4> DEFINE w == k + (v - Len(d))
      <4>1. w \in 1..Len(hs) /\ w > k
        BY <3>0
      <4> HIDE DEF w, k, hs
      <4>2. a \in 1..Len(hs) /\ a # w
        BY <1>1, <4>1
      <4>3. QED
        BY <4>1, <4>2 DEF w
    <3>3. QED
      BY <1>1, <2>3, <3>1, <3>2 DEF IdsApart
  <2>4. QED
    BY <1>8, <1>10, <2>1, <2>2, <2>3
<1>11. HandlerQueue(n, target) = q
  BY DEF HandlerQueue, q, x, y, d, b
<1>12. QED
  BY <1>7, <1>9, <1>10, <1>11

LEMMA Replaced ==
  ASSUME NEW S, NEW s \in Seq(S), s # <<>>, NEW e \in S
  PROVE  LET t == Append(SubSeq(s, 1, Len(s) - 1), e) IN
         /\ t \in Seq(S) /\ Len(t) = Len(s) /\ t[Len(s)] = e /\ Len(s) \in Nat \ {0}
         /\ \A i \in 1..(Len(s) - 1) : t[i] = s[i]
<1> DEFINE r == SubSeq(s, 1, Len(s) - 1)
<1>1. Len(s) \in Nat \ {0} /\ r \in Seq(S) /\ Len(r) = Len(s) - 1 /\ \A i \in 1..(Len(s) - 1) : r[i] = s[i]
  BY PoppedOff
<1> HIDE DEF r
<1>2. /\ Append(r, e) \in Seq(S) /\ Len(Append(r, e)) = Len(r) + 1
      /\ \A i \in 1..Len(r) : Append(r, e)[i] = r[i]
      /\ Append(r, e)[Len(r) + 1] = e
  BY <1>1, Pushed
<1>3. QED
  BY <1>1, <1>2 DEF r

\* A handler that is bound behind the delegates, or behind all.
LEMMA InFrontKeeps ==
  ASSUME NEW hs \in Seq(Bound), NEW k, InFrontAt(hs, k), IdsApart(hs), NEW h \in Bound, h.id \notin IdsOf(hs),
         NEW direct \in BOOLEAN, direct <=> h.selector = Direct
  PROVE  LET c == IF direct THEN Append(hs, h) ELSE InFront(hs, k, h)
             l == IF direct THEN k ELSE k + 1
         IN  /\ c \in Seq(Bound) /\ l \in Nat /\ InFrontAt(c, l) /\ IdsApart(c)
             /\ \A j \in 1..Len(c) : c[j] = h \/ \E i \in 1..Len(hs) : c[j] = hs[i]
<1>1. /\ Len(hs) \in Nat /\ k \in 0..Len(hs) /\ (\A i \in 1..Len(hs) : hs[i] \in Bound /\ hs[i].id # h.id)
      /\ \A i \in 1..Len(hs) : hs[i].selector # Direct <=> i <= k
  BY DEF InFrontAt, IdsOf
<1>2. CASE direct
  <2> DEFINE c == Append(hs, h)
  <2>1. /\ c \in Seq(Bound) /\ Len(c) = Len(hs) + 1 /\ (\A i \in 1..Len(hs) : c[i] = hs[i])
        /\ c[Len(hs) + 1] = h
    BY Pushed
  <2> HIDE DEF c
  <2>2. \A j \in 1..Len(c) : j \in 1..Len(hs) \/ j = Len(hs) + 1
    BY <1>1, <2>1
  <2>3. InFrontAt(c, k)
    <3>1. \A j \in 1..Len(c) : c[j].selector # Direct <=> j <= k
      BY <1>1, <1>2, <2>1, <2>2
    <3>2. QED
      BY <1>1, <2>1, <3>1 DEF InFrontAt
  <2>4. IdsApart(c)
    BY <1>1, <2>1, <2>2 DEF IdsApart
  <2>5. \A j \in 1..Len(c) : c[j] = h \/ \E i \in 1..Len(hs) : c[j] = hs[i]
    BY <2>1, <2>2
  <2>6. QED
    BY <1>1, <1>2, <2>1, <2>3, <2>4, <2>5 DEF c
<1>3. CASE ~direct
  <2> DEFINE a == SubSeq(hs, 1, k)
             b == SubSeq(hs, k + 1, Len(hs))
             one == <<h>>
             c == a \o one \o b
             len == Len(hs)
  <2>1. a \in Seq(Bound) /\ Len(a) = k /\ \A i \in 1..k : a[i] = hs[i]
    <3>1. /\ a \in Seq(Bound) /\ Len(a) = IF 1 <= k THEN k - 1 + 1 ELSE 0
          /\ \A i \in 1..(k - 1 + 1) : a[i] = hs[1 + i - 1]
      BY <1>1, SubSeqProperties
    <3>2. QED
      BY <1>1, <3>1
  <2>2. b \in Seq(Bound) /\ Len(b) = len - k /\ \A i \in 1..(len - k) : b[i] = hs[k + i]
    <3>0. k + 1 \in Int /\ len \in Int /\ \A i \in (k + 1)..len : hs[i] \in Bound
      BY <1>1
    <3>1. /\ b \in Seq(Bound) /\ Len(b) = IF k + 1 <= len THEN len - (k + 1) + 1 ELSE 0
          /\ \A i \in 1..(len - (k + 1) + 1) : b[i] = hs[k + 1 + i - 1]
      BY <3>0, SubSeqProperties
    <3>2. QED
      BY <1>1, <3>1
  <2>3. one \in Seq(Bound) /\ Len(one) = 1 /\ one[1] = h
    OBVIOUS
  <2> HIDE DEF a, b, one
  <2>4. /\ a \o one \in Seq(Bound) /\ Len(a \o one) = k + 1
        /\ \A i \in 1..(k + 1) : (a \o one)[i] = IF i <= k THEN a[i] ELSE one[i - k]
    <3>1. /\ a \o one \in Seq(Bound) /\ Len(a \o one) = Len(a) + Len(one)
          /\ \A i \in 1..(Len(a) + Len(one)) : (a \o one)[i] = IF i <= Len(a) THEN a[i] ELSE one[i - Len(a)]
      BY <2>1, <2>3, ConcatProperties
    <3>2. Len(a) = k /\ Len(a) + Len(one) = k + 1
      BY <1>1, <2>1, <2>3
    <3>3. QED
      BY <3>1, <3>2
  <2> DEFINE ao == a \o one
  <2> HIDE DEF ao
  <2>5. /\ ao \o b \in Seq(Bound) /\ Len(ao \o b) = len + 1
        /\ \A i \in 1..(len + 1) : (ao \o b)[i] = IF i <= k + 1 THEN ao[i] ELSE b[i - (k + 1)]
    <3>1. ao \in Seq(Bound) /\ Len(ao) = k + 1
      BY <2>4 DEF ao
    <3>2. /\ ao \o b \in Seq(Bound) /\ Len(ao \o b) = Len(ao) + Len(b)
          /\ \A i \in 1..(Len(ao) + Len(b)) : (ao \o b)[i] = IF i <= Len(ao) THEN ao[i] ELSE b[i - Len(ao)]
      BY <2>2, <3>1, ConcatProperties
    <3>3. Len(ao) + Len(b) = len + 1
      BY <1>1, <2>2, <3>1
    <3>4. QED
      BY <3>1, <3>2, <3>3
  <2>6. c = ao \o b
    BY DEF ao
  <2> HIDE DEF c
  <2>7. /\ c \in Seq(Bound) /\ Len(c) = len + 1 /\ c[k + 1] = h
        /\ \A i \in 1..k : c[i] = hs[i]
        /\ \A i \in (k + 2)..(len + 1) : c[i] = hs[i - 1]
    <3>1. c[k + 1] = h
      BY <1>1, <2>3, <2>4, <2>5, <2>6 DEF ao
    <3>2. ASSUME NEW i \in 1..k PROVE c[i] = hs[i]
      <4>1. i \in 1..(len + 1) /\ i <= k + 1 /\ i <= k /\ i \in 1..(k + 1)
        BY <1>1
      <4>2. QED
        BY <2>1, <2>4, <2>5, <2>6, <4>1 DEF ao
    <3>3. ASSUME NEW i \in (k + 2)..(len + 1) PROVE c[i] = hs[i - 1]
      <4>1. i \in 1..(len + 1) /\ ~(i <= k + 1) /\ i - (k + 1) \in 1..(len - k) /\ k + (i - (k + 1)) = i - 1
        BY <1>1
      <4>2. c[i] = b[i - (k + 1)]
        BY <2>5, <2>6, <4>1
      <4>3. QED
        BY <2>2, <4>1, <4>2
    <3>4. QED
      BY <2>5, <2>6, <3>1, <3>2, <3>3
  <2>8. \A j \in 1..Len(c) : \/ j \in 1..k /\ j \in 1..len /\ c[j] = hs[j]
                             \/ j = k + 1 /\ c[j] = h
                             \/ j \in (k + 2)..(len + 1) /\ j - 1 \in 1..len /\ j - 1 > k /\ c[j] = hs[j - 1]
    BY <1>1, <2>7
  <2>9. InFrontAt(c, k + 1)
    <3>1. ASSUME NEW j \in 1..Len(c) PROVE c[j].selector # Direct <=> j <= k + 1
      <4>1. j \in Int /\ k \in Int
        BY <1>1, <2>7
      <4>2. CASE j \in 1..k /\ j \in 1..len /\ c[j] = hs[j]
        BY <1>1, <1>3, <4>1, <4>2
      <4>3. CASE j = k + 1 /\ c[j] = h
        BY <1>1, <1>3, <4>1, <4>3
      <4>4. CASE j \in (k + 2)..(len + 1) /\ j - 1 \in 1..len /\ j - 1 > k /\ c[j] = hs[j - 1]
        BY <1>1, <1>3, <4>1, <4>4
      <4>5. QED
        BY <2>8, <4>2, <4>3, <4>4
    <3>2. QED
      BY <1>1, <2>7, <3>1 DEF InFrontAt
  <2>10. IdsApart(c)
    <3>1. SUFFICES ASSUME NEW i \in 1..Len(c), NEW j \in 1..Len(c), c[i].id = c[j].id PROVE i = j
      BY DEF IdsApart
    <3>2. i \in Int /\ j \in Int /\ k \in Int
      BY <1>1, <2>7
    <3> DEFINE from(x) == IF x <= k THEN x ELSE x - 1
               Old(x) == x # k + 1 /\ from(x) \in 1..len /\ c[x] = hs[from(x)]
    <3>3. \A x \in 1..Len(c) : (x = k + 1 /\ c[x] = h) \/ Old(x)
      <4>1. SUFFICES ASSUME NEW x \in 1..Len(c) PROVE (x = k + 1 /\ c[x] = h) \/ Old(x)
        OBVIOUS
      <4>2. x \in Int /\ k \in Int
        BY <1>1, <2>7
      <4>3. QED
        BY <2>8, <4>2
    <3>4. CASE Old(i) /\ Old(j)
      <4>1. from(i) = from(j)
        <5> HIDE DEF from, len
        <5>1. QED
          BY <3>1, <3>4 DEF IdsApart, len
      <4>2. QED
        BY <3>2, <3>4, <4>1
    <3>5. \A x \in 1..Len(c) : Old(x) => c[x].id # h.id
      <4> HIDE DEF from
      <4>1. QED
        BY <1>1
    <3> HIDE DEF Old
    <3>6. QED
      BY <3>1, <3>3, <3>4, <3>5
  <2>11. \A j \in 1..Len(c) : c[j] = h \/ \E i \in 1..Len(hs) : c[j] = hs[i]
    BY <2>8
  <2>12. InFront(hs, k, h) = c
    BY DEF InFront, c, a, b, one
  <2>13. QED
    BY <1>1, <1>3, <2>7, <2>9, <2>10, <2>11, <2>12
<1>4. QED
  BY <1>2, <1>3

LEMMA HandlersChange ==
  ASSUME EventInv, NEW n \in Nodes, NEW c \in Seq(Bound), NEW k \in Nat, InFrontAt(c, k), IdsApart(c),
         handlers' = [handlers EXCEPT ![n] = c], delegateCount' = [delegateCount EXCEPT ![n] = k]
  PROVE  /\ handlers' \in [Nodes -> Seq(Bound)] /\ delegateCount' \in [Nodes -> Nat]
         /\ handlers'[n] = c /\ \A m \in Nodes \ {n} : handlers'[m] = handlers[m]
         /\ DelegatesInFront' /\ \A m \in Nodes : IdsApart(handlers'[m])
<1>1. /\ handlers' \in [Nodes -> Seq(Bound)] /\ delegateCount' \in [Nodes -> Nat]
      /\ handlers'[n] = c /\ delegateCount'[n] = k
      /\ \A m \in Nodes \ {n} : handlers'[m] = handlers[m] /\ delegateCount'[m] = delegateCount[m]
  BY DEF EventInv, EventShape
<1>2. ASSUME NEW m \in Nodes PROVE InFrontAt(handlers'[m], delegateCount'[m]) /\ IdsApart(handlers'[m])
  <2>1. CASE m = n
    BY <1>1, <2>1
  <2>2. CASE m # n
    BY <1>1, <2>2 DEF EventInv, DelegatesInFront, NumbersApart
  <2>3. QED
    BY <2>1, <2>2
<1>3. QED
  BY <1>1, <1>2 DEF DelegatesInFront

LEMMA OnKeeps ==
  ASSUME EventInv, NEW n \in Nodes, NEW selector \in {"direct", "cell"}, NEW ns \in Namespaces,
         NEW once \in BOOLEAN, On(n, selector, ns, once)
  PROVE  EventInv'
<1> DEFINE h == [id |-> boundCount + 1, selector |-> selector, ns |-> ns, once |-> once]
           direct == selector = Direct
           hs == handlers[n]
           c == IF direct THEN Append(hs, h) ELSE InFront(hs, delegateCount[n], h)
           k == IF direct THEN delegateCount[n] ELSE delegateCount[n] + 1
<1>0. /\ handlers \in [Nodes -> Seq(Bound)] /\ delegateCount \in [Nodes -> Nat] /\ boundCount \in Nat
      /\ hs \in Seq(Bound) /\ InFrontAt(hs, delegateCount[n]) /\ IdsApart(hs)
      /\ \A m \in Nodes : IdsOf(handlers[m]) \subseteq 1..boundCount
  BY DEF EventInv, EventShape, DelegatesInFront, NumbersApart
<1>1. h \in Bound /\ h.id = boundCount + 1 /\ h.once = once /\ (direct <=> h.selector = Direct) /\ direct \in BOOLEAN
  BY <1>0 DEF Bound
<1>2. h.id \notin IdsOf(hs) /\ h.id \notin 1..boundCount
  BY <1>0, <1>1
<1>3. /\ UNCHANGED <<eventStack, onceCalled, calledAgain, nested>> /\ boundCount' = boundCount + 1
      /\ handlers' = [handlers EXCEPT ![n] = c] /\ delegateCount' = [delegateCount EXCEPT ![n] = k]
  <2>1. CASE direct
    <3>1. handlers' = [handlers EXCEPT ![n] = Append(handlers[n], h)] /\ delegateCount' = delegateCount
      BY <2>1 DEF On
    <3>2. delegateCount = [delegateCount EXCEPT ![n] = delegateCount[n]]
      BY <1>0
    <3>3. QED
      BY <2>1, <3>1, <3>2 DEF On, EventUnchanged
  <2>2. CASE ~direct
    BY <2>2 DEF On, EventUnchanged
  <2>3. QED
    BY <2>1, <2>2
<1> HIDE DEF h, direct
<1>4. /\ c \in Seq(Bound) /\ k \in Nat /\ InFrontAt(c, k) /\ IdsApart(c)
      /\ \A j \in 1..Len(c) : c[j] = h \/ \E i \in 1..Len(hs) : c[j] = hs[i]
  BY <1>0, <1>1, <1>2, InFrontKeeps
<1> HIDE DEF c, k
<1>5. /\ handlers' \in [Nodes -> Seq(Bound)] /\ delegateCount' \in [Nodes -> Nat]
      /\ handlers'[n] = c /\ \A m \in Nodes \ {n} : handlers'[m] = handlers[m]
      /\ DelegatesInFront' /\ \A m \in Nodes : IdsApart(handlers'[m])
  BY <1>3, <1>4, HandlersChange
<1>6. EventShape'
  <2>1. 1..boundCount \subseteq 1..boundCount'
    BY <1>0, <1>3
  <2>2. QED
    BY <1>0, <1>3, <1>5, <2>1 DEF EventInv, EventShape
<1>7. IdsOf(c) \subseteq IdsOf(hs) \union {h.id}
  BY <1>4 DEF IdsOf
<1>8. NumbersApart'
  <2>1. \A m \in Nodes : IdsOf(handlers'[m]) \subseteq IdsOf(handlers[m]) \union (IF m = n THEN {h.id} ELSE {})
    BY <1>5, <1>7
  <2>2. \A m \in Nodes : IdsOf(handlers'[m]) \subseteq 1..boundCount'
    <3>1. h.id \in 1..boundCount' /\ 1..boundCount \subseteq 1..boundCount'
      BY <1>0, <1>1, <1>3
    <3>2. QED
      BY <1>0, <2>1, <3>1
  <2>3. IdsOf(handlers'["cell"]) \intersect IdsOf(handlers'["table"]) = {}
    <3>1. IdsOf(handlers["cell"]) \intersect IdsOf(handlers["table"]) = {}
      BY DEF EventInv, NumbersApart
    <3>2. \A m \in Nodes : h.id \notin IdsOf(handlers[m])
      BY <1>0, <1>2
    <3>3. "cell" \in Nodes /\ "table" \in Nodes
      BY DEF Nodes
    <3>4. QED
      BY <2>1, <3>1, <3>2, <3>3
  <2>4. QED
    BY <1>5, <2>2, <2>3 DEF NumbersApart
<1>9. CopiesFresh'
  <2>1. SUFFICES ASSUME ~nested PROVE CopiesFresh'
    BY <1>3 DEF CopiesFresh
  <2>2. /\ Len(eventStack) <= 1 /\ calledAgain = {} /\ onceCalled \subseteq 1..boundCount
        /\ \A m \in Nodes : \A i \in 1..Len(handlers[m]) : handlers[m][i].id \notin onceCalled
        /\ \A e \in 1..Len(eventStack) : QueueFresh(eventStack[e])
    BY <2>1 DEF EventInv, EventShape, CopiesFresh
  <2>3. ASSUME NEW m \in Nodes, NEW i \in 1..Len(handlers'[m])
        PROVE  handlers'[m][i].id \notin onceCalled
    <3>1. CASE m # n
      BY <1>5, <2>2, <2>3, <3>1
    <3>2. CASE m = n
      <4>1. c[i] = h \/ \E a \in 1..Len(hs) : c[i] = hs[a]
        BY <1>4, <1>5, <2>3, <3>2
      <4>2. QED
        BY <1>2, <1>5, <2>2, <2>3, <3>2, <4>1
    <3>3. QED
      BY <3>1, <3>2
  <2>4. ASSUME NEW e \in 1..Len(eventStack) PROVE QueueFresh(eventStack[e])'
    <3>1. QueueFresh(eventStack[e])
      BY <2>2
    <3> DEFINE ev == eventStack[e]
    <3>2. ASSUME NEW i \in 1..Len(ev.queue) PROVE CopyFresh(ev.queue[i].handler, ev.at)'
      <4> DEFINE x == ev.queue[i].handler
      <4>1. CopyFresh(x, ev.at)
        BY <3>1 DEF QueueFresh
      <4>2. x.id \in 1..boundCount' /\ x.id # h.id
        BY <1>0, <1>2, <1>3, <4>1 DEF CopyFresh
      <4>3. \A m \in Nodes \ {ev.at} : x.id \notin IdsOf(handlers'[m])
        <5>1. SUFFICES ASSUME NEW m \in Nodes \ {ev.at} PROVE x.id \notin IdsOf(handlers'[m])
          OBVIOUS
        <5>2. x.id \notin IdsOf(handlers[m])
          BY <4>1 DEF CopyFresh
        <5>3. QED
          BY <1>5, <1>7, <4>2, <5>2
      <4>4. QED
        BY <1>3, <4>1, <4>2, <4>3 DEF CopyFresh
    <3>3. QED
      BY <1>3, <3>1, <3>2 DEF QueueFresh
  <2>5. onceCalled' \subseteq 1..boundCount'
    BY <1>0, <1>3, <2>2
  <2>6. QED
    BY <1>3, <2>2, <2>3, <2>4, <2>5 DEF CopiesFresh
<1>10. QED
  BY <1>5, <1>6, <1>8, <1>9 DEF EventInv

\* remove() takes the handlers with some ids from one element.
LEMMA RemovedKeeps ==
  ASSUME EventInv, NEW n \in Nodes, NEW ids, RemoveHandlers(n, ids)
  PROVE  /\ handlers' \in [Nodes -> Seq(Bound)] /\ delegateCount' \in [Nodes -> Nat]
         /\ DelegatesInFront' /\ \A m \in Nodes : IdsApart(handlers'[m])
         /\ \A m \in Nodes : IdsOf(handlers'[m]) \subseteq IdsOf(handlers[m])
         /\ \A m \in Nodes : \A j \in 1..Len(handlers'[m]) : \E i \in 1..Len(handlers[m]) : handlers'[m][j] = handlers[m][i]
         /\ \A j \in 1..Len(handlers'[n]) : handlers'[n][j].id \notin ids
<1> DEFINE l == LeftBound(n, ids)
<1>0. handlers[n] \in Seq(Bound) /\ delegateCount[n] \in Nat /\ InFrontAt(handlers[n], delegateCount[n]) /\ IdsApart(handlers[n])
  BY DEF EventInv, EventShape, DelegatesInFront, NumbersApart
<1>1. /\ l.bound \in Seq(Bound) /\ l.delegates \in Nat /\ InFrontAt(l.bound, l.delegates) /\ IdsApart(l.bound)
      /\ \A j \in 1..Len(l.bound) : l.bound[j].id \notin ids
                                    /\ \E i \in 1..Len(handlers[n]) : l.bound[j] = handlers[n][i]
  BY <1>0, LeftKeeps
<1>2. handlers' = [handlers EXCEPT ![n] = l.bound] /\ delegateCount' = [delegateCount EXCEPT ![n] = l.delegates]
  BY DEF RemoveHandlers
<1> HIDE DEF l
<1>3. /\ handlers' \in [Nodes -> Seq(Bound)] /\ delegateCount' \in [Nodes -> Nat]
      /\ handlers'[n] = l.bound /\ \A m \in Nodes \ {n} : handlers'[m] = handlers[m]
      /\ DelegatesInFront' /\ \A m \in Nodes : IdsApart(handlers'[m])
  BY <1>1, <1>2, HandlersChange
<1>4. \A m \in Nodes : \A j \in 1..Len(handlers'[m]) : \E i \in 1..Len(handlers[m]) : handlers'[m][j] = handlers[m][i]
  <2>1. SUFFICES ASSUME NEW m \in Nodes, NEW j \in 1..Len(handlers'[m])
                 PROVE  \E i \in 1..Len(handlers[m]) : handlers'[m][j] = handlers[m][i]
    OBVIOUS
  <2>2. CASE m = n
    BY <1>1, <1>3, <2>2
  <2>3. CASE m # n
    <3>1. handlers'[m] = handlers[m]
      BY <1>3, <2>3
    <3>2. j \in 1..Len(handlers[m]) /\ handlers'[m][j] = handlers[m][j]
      BY <2>1, <3>1
    <3>3. QED
      BY <3>2
  <2>4. QED
    BY <2>2, <2>3
<1>5. \A m \in Nodes : IdsOf(handlers'[m]) \subseteq IdsOf(handlers[m])
  BY <1>4, SMTT(60) DEF IdsOf
<1>6. QED
  BY <1>1, <1>3, <1>4, <1>5

LEMMA OffKeeps ==
  ASSUME EventInv, NEW n \in Nodes, NEW ns, Off(n, ns)
  PROVE  EventInv'
<1> DEFINE ids == {handlers[n][i].id : i \in {j \in DOMAIN handlers[n] : handlers[n][j].ns = ns}}
<1>1. RemoveHandlers(n, ids) /\ UNCHANGED <<eventStack, onceCalled, calledAgain, nested, boundCount>>
  BY DEF Off, EventUnchanged
<1> HIDE DEF ids
<1>2. /\ handlers' \in [Nodes -> Seq(Bound)] /\ delegateCount' \in [Nodes -> Nat]
      /\ DelegatesInFront' /\ \A m \in Nodes : IdsApart(handlers'[m])
      /\ \A m \in Nodes : IdsOf(handlers'[m]) \subseteq IdsOf(handlers[m])
      /\ \A m \in Nodes : \A j \in 1..Len(handlers'[m]) : \E i \in 1..Len(handlers[m]) : handlers'[m][j] = handlers[m][i]
  BY <1>1, RemovedKeeps
<1>3. EventShape'
  BY <1>1, <1>2 DEF EventInv, EventShape
<1>4. NumbersApart'
  <2>1. "cell" \in Nodes /\ "table" \in Nodes
    BY DEF Nodes
  <2>2. QED
    BY <1>1, <1>2, <2>1 DEF EventInv, NumbersApart
<1>5. CopiesFresh'
  <2>1. SUFFICES ASSUME ~nested PROVE CopiesFresh'
    BY <1>1 DEF CopiesFresh
  <2>2. /\ Len(eventStack) <= 1 /\ calledAgain = {} /\ onceCalled \subseteq 1..boundCount
        /\ \A m \in Nodes : \A i \in 1..Len(handlers[m]) : handlers[m][i].id \notin onceCalled
        /\ \A e \in 1..Len(eventStack) : QueueFresh(eventStack[e])
    BY <2>1 DEF EventInv, CopiesFresh
  <2>3. ASSUME NEW e \in 1..Len(eventStack) PROVE QueueFresh(eventStack[e])'
    <3>1. QueueFresh(eventStack[e])
      BY <2>2
    <3>2. QED
      BY <1>1, <1>2, <3>1 DEF QueueFresh, CopyFresh
  <2>4. ASSUME NEW m \in Nodes, NEW j \in 1..Len(handlers'[m])
        PROVE  handlers'[m][j].id \notin onceCalled
    <3>1. PICK i \in 1..Len(handlers[m]) : handlers'[m][j] = handlers[m][i]
      BY <1>2
    <3>2. QED
      BY <2>2, <3>1
  <2>5. QED
    BY <1>1, <2>2, <2>3, <2>4 DEF CopiesFresh
<1>6. QED
  BY <1>2, <1>3, <1>4, <1>5 DEF EventInv

LEMMA TriggerKeeps ==
  ASSUME EventInv, NEW n \in Nodes, Trigger(n)
  PROVE  EventInv'
<1> DEFINE e == [path |-> Above[n], target |-> n, at |-> n, queue |-> <<>>, elem |-> n,
                 stopped |-> FALSE, stoppedNow |-> FALSE, running |-> FALSE]
<1>1. /\ eventStack' = Append(eventStack, e) /\ nested' = (nested \/ eventStack # <<>>)
      /\ UNCHANGED <<handlers, delegateCount, boundCount, onceCalled, calledAgain>>
  BY DEF Trigger
<1>2. e \in Dispatched /\ e.queue = <<>>
  <2>1. Above[n] \in Seq(Nodes)
    <3>1. <<"cell", "table">> \in Seq(Nodes) /\ <<"table">> \in Seq(Nodes)
      BY DEF Nodes
    <3>2. Above["cell"] = <<"cell", "table">> /\ Above["table"] = <<"table">>
      BY DEF Above
    <3>3. n = "cell" \/ n = "table"
      BY DEF Nodes
    <3>4. QED
      BY <3>1, <3>2, <3>3
  <2>2. <<>> \in Seq(Calls)
    OBVIOUS
  <2>3. QED
    BY <2>1, <2>2 DEF Dispatched
<1> HIDE DEF e
<1>3. /\ eventStack' \in Seq(Dispatched) /\ Len(eventStack') = Len(eventStack) + 1 /\ Len(eventStack) \in Nat
      /\ eventStack'[Len(eventStack) + 1] = e
  BY <1>1, <1>2, Pushed DEF EventInv, EventShape
<1>4. EventShape'
  BY <1>1, <1>3 DEF EventInv, EventShape
<1>5. CopiesFresh'
  <2>1. SUFFICES ASSUME ~nested' PROVE CopiesFresh'
    BY DEF CopiesFresh
  <2>2. ~nested /\ eventStack = <<>> /\ Len(eventStack) = 0
    BY <1>1, <2>1
  <2>3. \A k \in 1..Len(eventStack') : eventStack'[k] = e
    BY <1>3, <2>2
  <2>4. QueueFresh(e)'
    <3>1. e.queue' = <<>>
      BY <1>1, <1>2 DEF e
    <3>2. QED
      BY <3>1 DEF QueueFresh
  <2>5. QED
    BY <1>1, <1>3, <2>2, <2>3, <2>4 DEF CopiesFresh, EventInv
<1>6. QED
  BY <1>1, <1>4, <1>5 DEF EventInv, DelegatesInFront, NumbersApart

\* The event on top of the stack goes on.
LEMMA GoesOn ==
  ASSUME EventInv, eventStack # <<>>, NEW e \in Dispatched, Updated(e)
  PROVE  /\ eventStack' \in Seq(Dispatched) /\ Len(eventStack') = Len(eventStack) /\ Len(eventStack) \in Nat \ {0}
         /\ eventStack'[Len(eventStack)] = e /\ Current \in Dispatched
         /\ \A k \in 1..(Len(eventStack) - 1) : eventStack'[k] = eventStack[k]
<1>1. eventStack \in Seq(Dispatched)
  BY DEF EventInv, EventShape
<1>2. eventStack' = Append(SubSeq(eventStack, 1, Len(eventStack) - 1), e)
  BY DEF Updated, Outer
<1>3. QED
  BY <1>1, <1>2, Replaced, PoppedOff DEF Current

LEMMA GoesOnAlone ==
  ASSUME EventInv, eventStack # <<>>, NEW e \in Dispatched, Updated(e),
         UNCHANGED <<handlers, delegateCount, boundCount, onceCalled, calledAgain, nested>>,
         ~nested => QueueFresh(e)
  PROVE  EventInv'
<1>1. /\ eventStack' \in Seq(Dispatched) /\ Len(eventStack') = Len(eventStack) /\ Len(eventStack) \in Nat \ {0}
      /\ eventStack'[Len(eventStack)] = e
  BY GoesOn
<1>2. EventShape'
  BY <1>1 DEF EventInv, EventShape
<1>3. CopiesFresh'
  <2>1. SUFFICES ASSUME ~nested PROVE CopiesFresh'
    BY DEF CopiesFresh
  <2>2. Len(eventStack) = 1
    BY <1>1, <2>1 DEF EventInv, CopiesFresh
  <2>3. \A k \in 1..Len(eventStack') : eventStack'[k] = e
    BY <1>1, <2>2
  <2>4. \A k \in 1..Len(eventStack') : QueueFresh(eventStack[k])'
    <3>1. QueueFresh(e)
      BY <2>1
    <3>2. SUFFICES ASSUME NEW k \in 1..Len(eventStack') PROVE QueueFresh(eventStack[k])'
      OBVIOUS
    <3>3. eventStack'[k] = e
      BY <2>3
    <3>4. QED
      BY <3>1, <3>3 DEF QueueFresh, CopyFresh
  <2>5. QED
    BY <1>1, <2>1, <2>4 DEF EventInv, CopiesFresh
<1>4. QED
  BY <1>2, <1>3 DEF EventInv, DelegatesInFront, NumbersApart

LEMMA CurrentFresh ==
  ASSUME EventInv, eventStack # <<>>
  PROVE  Current \in Dispatched /\ (~nested => QueueFresh(Current))
<1>1. eventStack \in Seq(Dispatched) /\ Len(eventStack) \in Nat \ {0} /\ Current \in Dispatched
  BY PoppedOff DEF EventInv, EventShape, Current
<1>2. QED
  BY <1>1 DEF EventInv, CopiesFresh, Current

LEMMA ReachKeeps ==
  ASSUME EventInv, ReachElement
  PROVE  EventInv'
<1> DEFINE n == Head(Current.path)
           q == HandlerQueue(n, Current.target)
           e == [Current EXCEPT !.path = Tail(@), !.at = n, !.queue = q, !.elem = Current.target]
<1>1. eventStack # <<>> /\ Updated(e) /\ Current.path # <<>>
      /\ UNCHANGED <<handlers, delegateCount, boundCount, onceCalled, calledAgain, nested>>
  BY DEF ReachElement, EventContinues
<1>2. Current \in Dispatched
  BY <1>1, CurrentFresh
<1>3. n \in Nodes /\ Tail(Current.path) \in Seq(Nodes) /\ Current.target \in Nodes
  <2>1. Current.path \in Seq(Nodes) /\ Current.target \in Nodes
    BY <1>2 DEF Dispatched
  <2>2. QED
    BY <1>1, <2>1
<1> HIDE DEF n
<1>4. /\ q \in Seq(Calls)
      /\ \A i \in 1..Len(q) : \E a \in 1..Len(handlers[n]) : q[i].handler = handlers[n][a]
      /\ \A i, j \in 1..Len(q) : q[i].handler.id = q[j].handler.id => i = j
  BY <1>3, QueueOfCopies DEF EventInv
<1> HIDE DEF q
<1>5. e \in Dispatched /\ e.queue = q /\ e.at = n
  BY <1>2, <1>3, <1>4 DEF Dispatched
<1>6. ~nested => QueueFresh(e)
  <2>1. SUFFICES ASSUME ~nested PROVE QueueFresh(e)
    OBVIOUS
  <2> HIDE DEF e
  <2>2. ASSUME NEW i \in 1..Len(q) PROVE CopyFresh(q[i].handler, n)
    <3>1. PICK a \in 1..Len(handlers[n]) : q[i].handler = handlers[n][a]
      BY <1>4
    <3>2. handlers[n][a].id \in IdsOf(handlers[n])
      BY DEF IdsOf
    <3>3. handlers[n][a].id \notin onceCalled
      BY <1>3, <2>1 DEF EventInv, CopiesFresh
    <3>4. \A m \in Nodes \ {n} : IdsOf(handlers[m]) \intersect IdsOf(handlers[n]) = {}
      BY <1>3 DEF EventInv, NumbersApart, Nodes
    <3>5. IdsOf(handlers[n]) \subseteq 1..boundCount
      BY <1>3 DEF EventInv, NumbersApart
    <3>6. QED
      BY <3>1, <3>2, <3>3, <3>4, <3>5 DEF CopyFresh
  <2>3. QED
    BY <1>4, <1>5, <2>2 DEF QueueFresh
<1> HIDE DEF e
<1>7. QED
  BY <1>1, <1>5, <1>6, GoesOnAlone

LEMMA HandlerReturnKeeps ==
  ASSUME EventInv, HandlerReturns
  PROVE  EventInv'
<1>1. eventStack # <<>> /\ UNCHANGED <<handlers, delegateCount, boundCount, onceCalled, calledAgain, nested>>
      /\ \E s, t \in BOOLEAN : Updated([Current EXCEPT !.running = FALSE, !.stopped = s, !.stoppedNow = t])
  <2>1. eventStack # <<>> /\ UNCHANGED <<handlers, delegateCount, boundCount, onceCalled, calledAgain, nested>>
    BY DEF HandlerReturns
  <2>2. Current \in Dispatched
    BY <2>1, CurrentFresh
  <2>3. [Current EXCEPT !.running = FALSE]
          = [Current EXCEPT !.running = FALSE, !.stopped = Current.stopped, !.stoppedNow = Current.stoppedNow]
    BY <2>2 DEF Dispatched
  <2>4. [Current EXCEPT !.running = FALSE, !.stopped = TRUE]
          = [Current EXCEPT !.running = FALSE, !.stopped = TRUE, !.stoppedNow = Current.stoppedNow]
    BY <2>2 DEF Dispatched
  <2>5. Current.stopped \in BOOLEAN /\ Current.stoppedNow \in BOOLEAN
    BY <2>2 DEF Dispatched
  <2>6. \/ Updated([Current EXCEPT !.running = FALSE])
        \/ Updated([Current EXCEPT !.running = FALSE, !.stopped = TRUE])
        \/ Updated([Current EXCEPT !.running = FALSE, !.stopped = TRUE, !.stoppedNow = TRUE])
    BY DEF HandlerReturns
  <2>7. QED
    BY <2>1, <2>3, <2>4, <2>5, <2>6
<1>2. PICK s \in BOOLEAN, t \in BOOLEAN : Updated([Current EXCEPT !.running = FALSE, !.stopped = s, !.stoppedNow = t])
  BY <1>1
<1> DEFINE e == [Current EXCEPT !.running = FALSE, !.stopped = s, !.stoppedNow = t]
<1>3. Current \in Dispatched /\ (~nested => QueueFresh(Current))
  BY <1>1, CurrentFresh
<1>4. e \in Dispatched /\ e.queue = Current.queue /\ e.at = Current.at
  BY <1>3 DEF Dispatched
<1>5. Updated(e)
  BY <1>2
<1> HIDE DEF e
<1>6. ~nested => QueueFresh(e)
  BY <1>3, <1>4 DEF QueueFresh
<1>7. QED
  BY <1>1, <1>4, <1>5, <1>6, GoesOnAlone

LEMMA EndsKeeps ==
  ASSUME EventInv, EventEnds
  PROVE  EventInv'
<1>1. eventStack # <<>> /\ eventStack' = SubSeq(eventStack, 1, Len(eventStack) - 1)
      /\ UNCHANGED <<handlers, delegateCount, boundCount, onceCalled, calledAgain, nested>>
  BY DEF EventEnds, EventContinues, Outer
<1>2. /\ eventStack' \in Seq(Dispatched) /\ Len(eventStack') = Len(eventStack) - 1 /\ Len(eventStack) \in Nat \ {0}
  BY <1>1, PoppedOff DEF EventInv, EventShape
<1>3. EventShape'
  BY <1>1, <1>2 DEF EventInv, EventShape
<1>4. CopiesFresh'
  <2>1. SUFFICES ASSUME ~nested PROVE CopiesFresh'
    BY <1>1 DEF CopiesFresh
  <2>2. Len(eventStack') = 0
    BY <1>2, <2>1 DEF EventInv, CopiesFresh
  <2>3. QED
    BY <1>1, <2>1, <2>2 DEF EventInv, CopiesFresh
<1>5. QED
  BY <1>1, <1>3, <1>4 DEF EventInv, DelegatesInFront, NumbersApart

LEMMA HandlerCallKeeps ==
  ASSUME EventInv, CallHandler
  PROVE  EventInv'
<1> DEFINE c == Head(Current.queue)
           h == c.handler
           e == [Current EXCEPT !.queue = Tail(@), !.elem = c.elem, !.running = TRUE]
<1>1. /\ eventStack # <<>> /\ Current.queue # <<>> /\ Updated(e) /\ UNCHANGED <<boundCount, nested>>
      /\ onceCalled' = (IF h.once THEN onceCalled \union {h.id} ELSE onceCalled)
      /\ calledAgain' = calledAgain \union ({h.id} \intersect onceCalled)
      /\ IF h.once THEN RemoveHandlers(Current.at, {h.id}) ELSE UNCHANGED <<handlers, delegateCount>>
  BY DEF CallHandler, EventContinues, MayCall
<1>2. Current \in Dispatched /\ (~nested => QueueFresh(Current))
  BY <1>1, CurrentFresh
<1> DEFINE q == Current.queue
           n == Current.at
<1>3. /\ q \in Seq(Calls) /\ n \in Nodes /\ c = q[1] /\ c \in Calls /\ h \in Bound /\ Len(q) \in Nat \ {0}
      /\ Tail(q) \in Seq(Calls) /\ Len(Tail(q)) = Len(q) - 1 /\ \A i \in 1..(Len(q) - 1) : Tail(q)[i] = q[i + 1]
  <2>1. q \in Seq(Calls) /\ n \in Nodes
    BY <1>2 DEF Dispatched
  <2> HIDE DEF q, n
  <2>2. c = q[1] /\ q[1] \in Calls /\ Len(q) \in Nat \ {0}
    BY <1>1, <2>1 DEF q
  <2>3. /\ Tail(q) \in Seq(Calls) /\ Len(Tail(q)) = Len(q) - 1 /\ \A i \in 1..(Len(q) - 1) : Tail(q)[i] = q[i + 1]
    BY <1>1, <2>1 DEF q
  <2>4. h \in Bound
    BY <2>2 DEF Calls
  <2>5. QED
    BY <2>1, <2>2, <2>3, <2>4
<1>4. e \in Dispatched /\ e.queue = Tail(q) /\ e.at = n
  <2>1. c.elem \in Nodes
    BY <1>3 DEF Calls
  <2>2. QED
    BY <1>2, <1>3, <2>1 DEF Dispatched
<1> HIDE DEF e, q, n, c
<1>5. /\ eventStack' \in Seq(Dispatched) /\ Len(eventStack') = Len(eventStack) /\ Len(eventStack) \in Nat \ {0}
      /\ eventStack'[Len(eventStack)] = e
  BY <1>1, <1>4, GoesOn
<1>6. /\ handlers' \in [Nodes -> Seq(Bound)] /\ delegateCount' \in [Nodes -> Nat]
      /\ DelegatesInFront' /\ \A m \in Nodes : IdsApart(handlers'[m])
      /\ \A m \in Nodes : IdsOf(handlers'[m]) \subseteq IdsOf(handlers[m])
      /\ \A m \in Nodes : \A j \in 1..Len(handlers'[m]) : \E i \in 1..Len(handlers[m]) : handlers'[m][j] = handlers[m][i]
      /\ h.once => \A j \in 1..Len(handlers'[n]) : handlers'[n][j].id # h.id
  <2>1. CASE h.once
    <3> DEFINE ids == {h.id}
    <3>1. RemoveHandlers(n, ids)
      BY <1>1, <2>1 DEF n
    <3>2. h.id \in ids
      OBVIOUS
    <3> HIDE DEF ids
    <3>3. /\ handlers' \in [Nodes -> Seq(Bound)] /\ delegateCount' \in [Nodes -> Nat]
          /\ DelegatesInFront' /\ \A m \in Nodes : IdsApart(handlers'[m])
          /\ \A m \in Nodes : IdsOf(handlers'[m]) \subseteq IdsOf(handlers[m])
          /\ \A m \in Nodes : \A j \in 1..Len(handlers'[m]) : \E i \in 1..Len(handlers[m]) : handlers'[m][j] = handlers[m][i]
          /\ \A j \in 1..Len(handlers'[n]) : handlers'[n][j].id \notin ids
      BY <1>3, <3>1, RemovedKeeps
    <3>4. QED
      BY <3>2, <3>3
  <2>2. CASE ~h.once
    BY <1>1, <2>2 DEF EventInv, EventShape, DelegatesInFront, NumbersApart
  <2>3. QED
    BY <2>1, <2>2
<1>7. EventShape'
  BY <1>1, <1>5, <1>6 DEF EventInv, EventShape
<1>8. NumbersApart'
  <2>1. "cell" \in Nodes /\ "table" \in Nodes
    BY DEF Nodes
  <2>2. QED
    BY <1>1, <1>6, <2>1 DEF EventInv, NumbersApart
<1>9. CopiesFresh'
  <2>1. SUFFICES ASSUME ~nested PROVE CopiesFresh'
    BY <1>1 DEF CopiesFresh
  <2>2. /\ Len(eventStack) = 1 /\ calledAgain = {} /\ onceCalled \subseteq 1..boundCount
        /\ \A m \in Nodes : \A i \in 1..Len(handlers[m]) : handlers[m][i].id \notin onceCalled
    BY <1>5, <2>1 DEF EventInv, CopiesFresh
  <2>3. /\ CopyFresh(h, n)
        /\ \A i \in 2..Len(q) : CopyFresh(q[i].handler, n) /\ q[i].handler.id # h.id
    <3>1. QueueFresh(Current)
      BY <1>2, <2>1
    <3>2. \A i \in 2..Len(q) : i \in 1..Len(q) /\ 1 \in 1..Len(q) /\ i # 1
      BY <1>3
    <3>3. 1 \in 1..Len(q)
      BY <1>3
    <3>4. QED
      BY <1>3, <3>1, <3>2, <3>3 DEF QueueFresh, q, n
  <2>4. calledAgain' = {}
    BY <1>1, <2>2, <2>3 DEF CopyFresh
  <2>5. onceCalled' \subseteq onceCalled \union {h.id} /\ (~h.once => onceCalled' = onceCalled)
        /\ onceCalled' \subseteq 1..boundCount
    BY <1>1, <2>2, <2>3 DEF CopyFresh
  <2>6. ASSUME NEW m \in Nodes, NEW j \in 1..Len(handlers'[m]) PROVE handlers'[m][j].id \notin onceCalled'
    <3>1. PICK i \in 1..Len(handlers[m]) : handlers'[m][j] = handlers[m][i]
      BY <1>6
    <3>2. handlers[m][i].id \notin onceCalled /\ handlers[m][i].id \in IdsOf(handlers[m])
      BY <2>2 DEF IdsOf
    <3>3. h.once => handlers'[m][j].id # h.id
      <4>1. CASE m = n
        BY <1>6, <4>1
      <4>2. CASE m # n
        BY <2>3, <3>1, <3>2, <4>2 DEF CopyFresh
      <4>3. QED
        BY <4>1, <4>2
    <3>4. QED
      BY <2>5, <3>1, <3>2, <3>3
  <2>7. ASSUME NEW k \in 1..Len(eventStack') PROVE QueueFresh(eventStack[k])'
    <3>0. PICK ev : ev = e
      OBVIOUS
    <3>1. eventStack'[k] = ev /\ ev.at = n /\ Len(ev.queue) = Len(q) - 1 /\ \A i \in 1..(Len(q) - 1) : ev.queue[i] = q[i + 1]
      <4>1. eventStack'[k] = e
        BY <1>5, <2>2
      <4>2. ev.queue = Tail(q) /\ ev.at = n
        BY <1>4, <3>0
      <4>3. QED
        BY <1>3, <3>0, <4>1, <4>2
    <3>2. \A i \in 1..(Len(q) - 1) : i + 1 \in 2..Len(q) /\ i + 1 \in 1..Len(q)
      BY <1>3
    <3>3. \A i, j \in 1..Len(ev.queue) : ev.queue[i].handler.id = ev.queue[j].handler.id => i = j
      <4>1. SUFFICES ASSUME NEW i \in 1..Len(ev.queue), NEW j \in 1..Len(ev.queue),
                            ev.queue[i].handler.id = ev.queue[j].handler.id
                     PROVE  i = j
        OBVIOUS
      <4>2. i + 1 \in 1..Len(q) /\ j + 1 \in 1..Len(q) /\ q[i + 1].handler.id = q[j + 1].handler.id
        BY <3>1, <3>2, <4>1
      <4>3. i + 1 = j + 1
        BY <1>2, <2>1, <4>2 DEF QueueFresh, q
      <4>4. i \in Int /\ j \in Int
        BY <4>1
      <4>5. QED
        BY <4>3, <4>4
    <3>4. ASSUME NEW i \in 1..Len(ev.queue) PROVE CopyFresh(ev.queue[i].handler, ev.at)'
      <4> DEFINE x == q[i + 1].handler
      <4>1. CopyFresh(x, n) /\ x.id # h.id /\ ev.queue[i].handler = x
        BY <2>3, <3>1, <3>2
      <4>2. x.id \notin onceCalled'
        BY <2>5, <4>1 DEF CopyFresh
      <4>3. \A m \in Nodes \ {n} : x.id \notin IdsOf(handlers'[m])
        BY <1>6, <4>1 DEF CopyFresh
      <4> HIDE DEF x
      <4>4. x.id \in 1..boundCount'
        BY <1>1, <4>1 DEF CopyFresh
      <4>6. QED
        BY <3>1, <4>1, <4>2, <4>3, <4>4 DEF CopyFresh
    <3>5. QED
      BY <3>1, <3>3, <3>4 DEF QueueFresh
  <2>8. QED
    BY <1>1, <1>5, <2>1, <2>2, <2>4, <2>5, <2>6, <2>7 DEF CopiesFresh
<1>10. QED
  BY <1>6, <1>7, <1>8, <1>9 DEF EventInv

LEMMA HandlersKept == EventSpec => []EventInv
<1>1. EventInit => EventInv
  <2>1. ASSUME EventInit PROVE EventInv
    <3>1. /\ \A n \in Nodes : handlers[n] = <<>> /\ delegateCount[n] = 0
          /\ handlers \in [Nodes -> Seq(Bound)] /\ delegateCount \in [Nodes -> Nat]
          /\ eventStack = <<>> /\ boundCount = 0 /\ nested = FALSE /\ onceCalled = {} /\ calledAgain = {}
      <4>1. <<>> \in Seq(Bound)
        OBVIOUS
      <4>2. QED
        BY <2>1, <4>1 DEF EventInit
    <3>2. 1..Len(<<>>) = {} /\ Len(<<>>) = 0 /\ <<>> \in Seq(Dispatched)
      OBVIOUS
    <3>3. EventShape
      BY <3>1, <3>2 DEF EventShape
    <3>4. DelegatesInFront
      BY <3>1, <3>2 DEF DelegatesInFront, InFrontAt
    <3>5. NumbersApart
      BY <3>1, <3>2 DEF NumbersApart, IdsApart, IdsOf, Nodes
    <3>6. CopiesFresh
      BY <3>1, <3>2 DEF CopiesFresh
    <3>7. QED
      BY <3>3, <3>4, <3>5, <3>6 DEF EventInv
  <2>2. QED
    BY <2>1
<1>2. EventInv /\ [EventNext]_eventVars => EventInv'
  <2>1. ASSUME EventInv, UNCHANGED eventVars PROVE EventInv'
    BY <2>1 DEF eventVars, EventInv, EventShape, DelegatesInFront, NumbersApart, CopiesFresh, QueueFresh, CopyFresh
  <2>2. ASSUME EventInv, NEW n \in Nodes, NEW ns \in Namespaces, NEW once \in BOOLEAN,
               \/ On(n, Direct, ns, once) \/ On("table", "cell", ns, once)
        PROVE  EventInv'
    <3>1. Direct \in {"direct", "cell"} /\ "cell" \in {"direct", "cell"} /\ "table" \in Nodes
      BY DEF Direct, Nodes
    <3>2. QED
      BY <2>2, <3>1, OnKeeps
  <2>3. QED
    BY <2>1, <2>2, OffKeeps, TriggerKeeps, ReachKeeps, HandlerCallKeeps, HandlerReturnKeeps, EndsKeeps DEF EventNext, Nodes
<1>. QED
  BY <1>1, <1>2, PTL DEF EventSpec

\* Delegates stand in front of the other handlers, as many as are counted, and
\* a handler of one() is called once unless an event is triggered in another.
THEOREM HandlersRunInOrder == EventSpec => []HandlersInOrder
<1>1. EventInv => HandlersInOrder
  <2>1. SUFFICES ASSUME EventInv PROVE HandlersInOrder
    OBVIOUS
  <2>2. \A n \in Nodes : DOMAIN handlers[n] = 1..Len(handlers[n])
    BY <2>1 DEF EventInv, EventShape
  <2>3. QED
    BY <2>1, <2>2 DEF EventInv, DelegatesInFront, InFrontAt, CopiesFresh, HandlersInOrder
<1>. QED
  BY <1>1, HandlersKept, PTL

-----------------------------------------------------------------------------
(* Data and scripts of elements that are moved, copied and removed.         *)

LEMMA FourIds == PageElements = {"box1", "box2", "script", "copy"} /\ Ids = 1..4 /\ 0 \notin Ids
<1>1. PageElements = {"box1", "box2", "script", "copy"}
  BY DEF PageElements, Boxes, Scripts
<1>2. Cardinality({"box1"}) = 1 /\ IsFiniteSet({"box1"})
  BY FS_Singleton
<1>3. Cardinality({"box1"} \union {"box2"}) = 2 /\ IsFiniteSet({"box1"} \union {"box2"})
  BY <1>2, FS_AddElement
<1>4. Cardinality({"box1"} \union {"box2"} \union {"script"}) = 3 /\ IsFiniteSet({"box1"} \union {"box2"} \union {"script"})
  <2>1. "script" \notin {"box1"} \union {"box2"}
    OBVIOUS
  <2>2. QED
    BY <1>3, <2>1, FS_AddElement
<1>5. Cardinality({"box1"} \union {"box2"} \union {"script"} \union {"copy"}) = 4
  <2>1. "copy" \notin {"box1"} \union {"box2"} \union {"script"}
    OBVIOUS
  <2>2. QED
    BY <1>4, <2>1, FS_AddElement
<1>6. PageElements = {"box1"} \union {"box2"} \union {"script"} \union {"copy"}
  BY <1>1
<1>7. QED
  BY <1>1, <1>5, <1>6 DEF Ids

DataTypes == {"special", "plain"}
Entry == [live : BOOLEAN, events : SUBSET DataTypes, data : BOOLEAN, globalEval : BOOLEAN]
Stores == [expando : [PageElements -> Ids \union {0}], cache : [Ids -> Entry], deletedIds : Seq(Ids)]

\* Ids have one owner, wait once to be used again, and then have none, and what
\* is kept has an owner.
OwnIds(st) == \A n, m \in PageElements : st.expando[n] # 0 /\ st.expando[n] = st.expando[m] => n = m
NoneTwice(st) == \A i, j \in 1..Len(st.deletedIds) : st.deletedIds[i] = st.deletedIds[j] => i = j
GivenApart(st) == \A i \in 1..Len(st.deletedIds) : \A n \in PageElements : st.expando[n] # st.deletedIds[i]
LiveOwned(st) == \A i \in Ids : st.cache[i].live <=> \E n \in PageElements : st.expando[n] = i

GoodStore(st) == st \in Stores /\ OwnIds(st) /\ NoneTwice(st) /\ GivenApart(st) /\ LiveOwned(st)

Evaluated(st, n) == EntryOf(st, n).globalEval

\* st2 differs from st in what it says of n at most.
OthersSame(st, st2, n) == \A m \in PageElements \ {n} : EntryOf(st2, m) = EntryOf(st, m)

LEMMA EntryKnown ==
  ASSUME NEW st, GoodStore(st), NEW n \in PageElements
  PROVE  EntryOf(st, n) \in Entry /\ (EntryOf(st, n).live <=> st.expando[n] # 0) /\ NoEntry \in Entry
<1>1. NoEntry \in Entry /\ ~NoEntry.live
  BY DEF NoEntry, Entry
<1>2. st.expando[n] \in Ids \union {0} /\ st.cache \in [Ids -> Entry]
  BY DEF GoodStore, Stores
<1>3. st.expando[n] # 0 => st.cache[st.expando[n]].live
  BY <1>2 DEF GoodStore, LiveOwned
<1>4. QED
  BY <1>1, <1>2, <1>3 DEF EntryOf

LEMMA FreeId ==
  ASSUME NEW st, GoodStore(st), NEW n \in PageElements, st.expando[n] = 0
  PROVE  LET free == Ids \ {st.expando[m] : m \in PageElements}
         IN  (CHOOSE i \in free : \A j \in free : i <= j) \in free
<1> DEFINE free == Ids \ {st.expando[m] : m \in PageElements}
<1>1. st.expando \in [PageElements -> Ids \union {0}]
  BY DEF GoodStore, Stores
<1>2. free # {}
  <2>1. PICK a, b, c \in Ids \union {0} : {st.expando[m] : m \in PageElements} = {0, a, b, c}
    <3>1. {st.expando[m] : m \in PageElements} =
          {st.expando["box1"], st.expando["box2"], st.expando["script"], st.expando["copy"]}
      BY FourIds
    <3>2. QED
      BY <1>1, <3>1, FourIds
  <2>2. \E i \in 1..4 : i # a /\ i # b /\ i # c /\ i # 0
    BY <2>1, FourIds
  <2>3. QED
    BY <2>1, <2>2, FourIds
<1>3. \E i \in free : \A j \in free : i <= j
  <2>1. free \subseteq Nat
    BY FourIds
  <2> HIDE DEF free
  <2>2. QED
    BY <1>2, <2>1, LeastNumber
<1>4. QED
  BY <1>3

\* The id is nobody's, and those left to be used again are others.
IdFree(st, id, left) ==
    /\ \A i, j \in 1..Len(left) : left[i] = left[j] => i = j
    /\ \A i \in 1..Len(left) : left[i] # id /\ \A m \in PageElements : st.expando[m] # left[i]
    /\ \A m \in PageElements : st.expando[m] # id

IdTaken(st, n, id, left, a) ==
    a = [st EXCEPT !.expando[n] = id, !.cache[id] = [NoEntry EXCEPT !.live = TRUE], !.deletedIds = left]

\* An id that nobody has or waits for, given to an element that has none.
LEMMA IdGiven ==
  ASSUME NEW st, GoodStore(st), NEW n \in PageElements, st.expando[n] = 0, NEW id \in Ids,
         NEW left, left \in Seq(Ids), IdFree(st, id, left), NEW a, IdTaken(st, n, id, left, a)
  PROVE  /\ GoodStore(a) /\ a.expando[n] = id /\ id # 0
         /\ EntryOf(a, n) = [NoEntry EXCEPT !.live = TRUE] /\ OthersSame(st, a, n)
<1> DEFINE new == [NoEntry EXCEPT !.live = TRUE]
<1>1. new \in Entry /\ new.live
  BY DEF NoEntry, Entry
<1>2. /\ st.expando \in [PageElements -> Ids \union {0}] /\ st.cache \in [Ids -> Entry]
      /\ st = [expando |-> st.expando, cache |-> st.cache, deletedIds |-> st.deletedIds]
  BY DEF GoodStore, Stores
<1>3. /\ a.expando = [st.expando EXCEPT ![n] = id] /\ a.cache = [st.cache EXCEPT ![id] = new]
      /\ a.deletedIds = left /\ a = [expando |-> a.expando, cache |-> a.cache, deletedIds |-> a.deletedIds]
  BY <1>2 DEF IdTaken
<1> HIDE DEF new
<1>4. a \in Stores
  BY <1>1, <1>2, <1>3 DEF Stores
<1>5. \A m \in PageElements : a.expando[m] = IF m = n THEN id ELSE st.expando[m]
  BY <1>2, <1>3
<1>6. id # 0
  BY FourIds
<1>7. OwnIds(a)
  BY <1>5, <1>6 DEF GoodStore, OwnIds, IdFree
<1>8. NoneTwice(a)
  BY <1>3 DEF NoneTwice, IdFree
<1>9. GivenApart(a)
  BY <1>3, <1>5 DEF GivenApart, IdFree
<1>10. LiveOwned(a)
  <2>1. SUFFICES ASSUME NEW i \in Ids PROVE a.cache[i].live <=> \E m \in PageElements : a.expando[m] = i
    BY DEF LiveOwned
  <2>2. CASE i = id
    <3>1. a.cache[i] = new
      BY <1>2, <1>3, <2>2
    <3>2. a.expando[n] = i
      BY <1>5, <2>2
    <3>3. QED
      BY <1>1, <3>1, <3>2
  <2>3. CASE i # id
    <3>1. a.cache[i] = st.cache[i]
      BY <1>2, <1>3, <2>3
    <3>2. st.cache[i].live <=> \E m \in PageElements : st.expando[m] = i
      BY DEF GoodStore, LiveOwned
    <3>3. i # 0
      BY FourIds
    <3>4. \A m \in PageElements : a.expando[m] = i <=> st.expando[m] = i
      BY <1>5, <2>3, <3>3
    <3>5. QED
      BY <3>1, <3>2, <3>4
  <2>4. QED
    BY <2>2, <2>3
<1>11. EntryOf(a, n) = new
  <2>1. a.expando[n] = id /\ a.cache[id] = new
    BY <1>2, <1>3
  <2>2. QED
    BY <1>6, <2>1 DEF EntryOf
<1>12. OthersSame(st, a, n)
  <2>1. SUFFICES ASSUME NEW m \in PageElements \ {n} PROVE EntryOf(a, m) = EntryOf(st, m)
    BY DEF OthersSame
  <2>2. a.expando[m] = st.expando[m]
    BY <1>5
  <2>3. st.expando[m] # 0 => a.cache[st.expando[m]] = st.cache[st.expando[m]]
    BY <1>2, <1>3 DEF IdFree
  <2>4. QED
    BY <2>2, <2>3 DEF EntryOf
<1>13. QED
  BY <1>4, <1>5, <1>6, <1>7, <1>8, <1>9, <1>10, <1>11, <1>12 DEF GoodStore, new

LEMMA AllocatedKnown ==
  ASSUME NEW st, GoodStore(st), NEW n \in PageElements
  PROVE  /\ GoodStore(Allocated(st, n)) /\ Allocated(st, n).expando[n] # 0
         /\ NewEntry(st, n) \in Entry /\ NewEntry(st, n).live /\ (NewEntry(st, n).globalEval <=> Evaluated(st, n))
         /\ OthersSame(st, Allocated(st, n), n)
<1>1. CASE st.expando[n] # 0
  <2>1. Allocated(st, n) = st
    BY <1>1 DEF Allocated
  <2>2. OthersSame(st, st, n)
    BY DEF OthersSame
  <2>3. NewEntry(st, n) = EntryOf(st, n)
    BY <2>1 DEF NewEntry
  <2>4. QED
    BY <1>1, <2>1, <2>2, <2>3, EntryKnown DEF Evaluated
<1>2. CASE st.expando[n] = 0
  <2> DEFINE a == Allocated(st, n)
  <2>1. st.deletedIds \in Seq(Ids) /\ Len(st.deletedIds) \in Nat
    BY DEF GoodStore, Stores
  <2>2. /\ GoodStore(a) /\ a.expando[n] # 0 /\ OthersSame(st, a, n)
        /\ EntryOf(a, n) = [NoEntry EXCEPT !.live = TRUE]
    <3>1. CASE Len(st.deletedIds) > 0
      <4> DEFINE k == Len(st.deletedIds)
                 id == st.deletedIds[k]
                 left == Front(st.deletedIds)
      <4>1. id \in Ids /\ k \in 1..Len(st.deletedIds)
        BY <2>1, <3>1
      <4>2. left \in Seq(Ids) /\ Len(left) = k - 1 /\ \A i \in 1..(k - 1) : left[i] = st.deletedIds[i]
        BY <2>1, <3>1 DEF Front
      <4>3. IdTaken(st, n, id, left, a)
        BY <1>2, <3>1 DEF Allocated, IdTaken
      <4>4. \A i, j \in 1..Len(left) : left[i] = left[j] => i = j
        <5>1. \A i \in 1..(k - 1) : i \in 1..k
          BY <2>1
        <5>2. QED
          BY <4>2, <5>1 DEF NoneTwice, GoodStore
      <4>5. \A i \in 1..Len(left) : left[i] # id /\ \A m \in PageElements : st.expando[m] # left[i]
        <5>1. SUFFICES ASSUME NEW i \in 1..Len(left) PROVE left[i] # id /\ \A m \in PageElements : st.expando[m] # left[i]
          OBVIOUS
        <5>2. i \in 1..k /\ i # k /\ left[i] = st.deletedIds[i]
          BY <2>1, <4>2
        <5>3. st.deletedIds[i] # st.deletedIds[k]
          BY <4>1, <5>2 DEF GoodStore, NoneTwice
        <5>4. \A m \in PageElements : st.expando[m] # st.deletedIds[i]
          BY <5>2 DEF GoodStore, GivenApart
        <5>5. QED
          BY <5>2, <5>3, <5>4
      <4>6. \A m \in PageElements : st.expando[m] # id
        BY <4>1 DEF GoodStore, GivenApart
      <4> HIDE DEF a, left, id, k
      <4>7. IdFree(st, id, left)
        BY <4>4, <4>5, <4>6 DEF IdFree
      <4>8. QED
        BY <1>2, <4>1, <4>2, <4>3, <4>7, IdGiven
    <3>2. CASE ~(Len(st.deletedIds) > 0)
      <4> DEFINE free == Ids \ {st.expando[m] : m \in PageElements}
                 id == CHOOSE i \in free : \A j \in free : i <= j
      <4>1. st.deletedIds = <<>>
        BY <2>1, <3>2
      <4>2. id \in free
        BY <1>2, FreeId
      <4>3. IdTaken(st, n, id, st.deletedIds, a)
        <5> DEFINE used == {st.expando[m] : m \in PageElements} \union ToSet(st.deletedIds)
        <5>1. ToSet(st.deletedIds) = {}
          BY <4>1 DEF ToSet
        <5>2. Ids \ used = free
          BY <5>1
        <5>3. a = [st EXCEPT !.expando[n] = CHOOSE i \in Ids \ used : \A j \in Ids \ used : i <= j,
                   !.cache[CHOOSE i \in Ids \ used : \A j \in Ids \ used : i <= j] = [NoEntry EXCEPT !.live = TRUE],
                   !.deletedIds = st.deletedIds]
          BY <1>2, <3>2 DEF Allocated
        <5>4. QED
          BY <5>2, <5>3 DEF IdTaken
      <4>4. id \in Ids /\ \A m \in PageElements : st.expando[m] # id
        BY <4>2
      <4> HIDE DEF a, id, free
      <4>5. IdFree(st, id, st.deletedIds)
        BY <4>1, <4>4 DEF IdFree
      <4>6. QED
        BY <1>2, <2>1, <4>3, <4>4, <4>5, IdGiven
    <3>3. QED
      BY <3>1, <3>2
  <2>3. NewEntry(st, n) = [NoEntry EXCEPT !.live = TRUE]
    BY <2>2 DEF NewEntry
  <2>4. ~Evaluated(st, n)
    BY <1>2 DEF Evaluated, EntryOf, NoEntry
  <2> HIDE DEF a
  <2>5. NewEntry(st, n) \in Entry /\ NewEntry(st, n).live /\ ~NewEntry(st, n).globalEval
    BY <2>3 DEF NoEntry, Entry
  <2>6. QED
    BY <2>2, <2>4, <2>5 DEF a
<1>3. QED
  BY <1>1, <1>2

LEMMA KeptKnown ==
  ASSUME NEW st, GoodStore(st), NEW n \in PageElements, NEW e \in Entry, e.live
  PROVE  /\ GoodStore(Kept(st, n, e)) /\ EntryOf(Kept(st, n, e), n) = e
         /\ OthersSame(st, Kept(st, n, e), n)
<1>1. PICK a : a = Allocated(st, n)
  OBVIOUS
<1>2. GoodStore(a) /\ a.expando[n] # 0 /\ OthersSame(st, a, n)
  BY <1>1, AllocatedKnown
<1>3. PICK id : id = a.expando[n]
  OBVIOUS
<1>4. PICK k : k = [a EXCEPT !.cache[id] = e]
  OBVIOUS
<1>5. Kept(st, n, e) = k
  BY <1>1, <1>3, <1>4 DEF Kept
<1>6. /\ a.expando \in [PageElements -> Ids \union {0}] /\ a.cache \in [Ids -> Entry] /\ id \in Ids
      /\ k.expando = a.expando /\ k.deletedIds = a.deletedIds /\ k.cache = [a.cache EXCEPT ![id] = e]
  BY <1>2, <1>3, <1>4 DEF GoodStore, Stores
<1>7. k \in Stores
  BY <1>2, <1>4, <1>6 DEF GoodStore, Stores
<1>8. OwnIds(k) /\ NoneTwice(k) /\ GivenApart(k)
  BY <1>2, <1>6 DEF GoodStore, OwnIds, NoneTwice, GivenApart
<1>9. LiveOwned(k)
  <2>1. \A i \in Ids : k.cache[i].live <=> a.cache[i].live
    <3>1. a.cache[id].live
      BY <1>2, <1>3, <1>6 DEF GoodStore, LiveOwned
    <3>2. QED
      BY <1>6, <3>1
  <2>2. QED
    BY <1>2, <1>6, <2>1 DEF GoodStore, LiveOwned
<1>10. EntryOf(k, n) = e
  BY <1>2, <1>3, <1>6 DEF EntryOf
<1>11. OthersSame(a, k, n)
  <2>1. \A m \in PageElements \ {n} : a.expando[m] # 0 => a.expando[m] # id
    BY <1>2, <1>3 DEF GoodStore, OwnIds
  <2>2. QED
    BY <1>6, <2>1 DEF OthersSame, EntryOf
<1>12. QED
  BY <1>2, <1>5, <1>7, <1>8, <1>9, <1>10, <1>11 DEF GoodStore, OthersSame

LEMMA GivenBackKnown ==
  ASSUME NEW st, GoodStore(st), NEW n \in PageElements, st.expando[n] # 0
  PROVE  /\ GoodStore(GivenBack(st, n)) /\ OthersSame(st, GivenBack(st, n), n)
         /\ EntryOf(GivenBack(st, n), n) = NoEntry
<1>1. PICK id : id = st.expando[n]
  OBVIOUS
<1>2. PICK b : b = GivenBack(st, n)
  OBVIOUS
<1>3. /\ st.expando \in [PageElements -> Ids \union {0}] /\ st.cache \in [Ids -> Entry] /\ id \in Ids
      /\ st.deletedIds \in Seq(Ids) /\ Len(st.deletedIds) \in Nat
      /\ NoEntry \in Entry /\ ~NoEntry.live
  BY <1>1 DEF GoodStore, Stores, NoEntry, Entry
<1>4. /\ b = [expando |-> [st.expando EXCEPT ![n] = 0], cache |-> [st.cache EXCEPT ![id] = NoEntry],
              deletedIds |-> Append(st.deletedIds, id)]
  BY <1>1, <1>2 DEF GivenBack, GoodStore, Stores
<1>5. /\ Append(st.deletedIds, id) \in Seq(Ids) /\ Len(Append(st.deletedIds, id)) = Len(st.deletedIds) + 1
      /\ \A i \in 1..Len(st.deletedIds) : Append(st.deletedIds, id)[i] = st.deletedIds[i]
      /\ Append(st.deletedIds, id)[Len(st.deletedIds) + 1] = id
  BY <1>3, Pushed
<1>6. b \in Stores
  BY <1>3, <1>4, <1>5 DEF Stores
<1>7. \A m \in PageElements : b.expando[m] = IF m = n THEN 0 ELSE st.expando[m]
  BY <1>3, <1>4
<1>8. OwnIds(b)
  BY <1>7 DEF GoodStore, OwnIds
<1>9. \A i \in 1..Len(b.deletedIds) :
          \/ i \in 1..Len(st.deletedIds) /\ b.deletedIds[i] = st.deletedIds[i] /\ st.deletedIds[i] # id
          \/ i = Len(st.deletedIds) + 1 /\ b.deletedIds[i] = id
  <2>1. \A i \in 1..Len(st.deletedIds) : st.deletedIds[i] # id
    BY <1>1 DEF GoodStore, GivenApart
  <2>2. \A i \in 1..Len(b.deletedIds) : i \in 1..Len(st.deletedIds) \/ i = Len(st.deletedIds) + 1
    BY <1>3, <1>4, <1>5
  <2>3. QED
    BY <1>4, <1>5, <2>1, <2>2
<1>10. NoneTwice(b)
  BY <1>9 DEF GoodStore, NoneTwice
<1>11. GivenApart(b)
  <2>1. SUFFICES ASSUME NEW i \in 1..Len(b.deletedIds), NEW m \in PageElements PROVE b.expando[m] # b.deletedIds[i]
    BY DEF GivenApart
  <2>2. CASE i \in 1..Len(st.deletedIds) /\ b.deletedIds[i] = st.deletedIds[i]
    <3>1. st.expando[m] # st.deletedIds[i] /\ st.deletedIds[i] # 0
      BY <1>3, <2>2, FourIds DEF GoodStore, GivenApart
    <3>2. QED
      BY <1>7, <2>2, <3>1
  <2>3. CASE b.deletedIds[i] = id
    <3>1. id # 0 /\ (m # n => st.expando[m] # id)
      BY <1>1 DEF GoodStore, OwnIds
    <3>2. QED
      BY <1>7, <2>3, <3>1
  <2>4. QED
    BY <1>9, <2>2, <2>3
<1>12. LiveOwned(b)
  <2>1. SUFFICES ASSUME NEW i \in Ids PROVE b.cache[i].live <=> \E m \in PageElements : b.expando[m] = i
    BY DEF LiveOwned
  <2>2. i # 0
    BY FourIds
  <2>3. CASE i = id
    <3>1. b.cache[i] = NoEntry
      BY <1>3, <1>4, <2>3
    <3>2. \A m \in PageElements : m # n => st.expando[m] # id
      BY <1>1 DEF GoodStore, OwnIds
    <3>3. QED
      BY <1>3, <1>7, <2>2, <2>3, <3>1, <3>2
  <2>4. CASE i # id
    <3>1. b.cache[i] = st.cache[i]
      BY <1>3, <1>4, <2>4
    <3>2. st.cache[i].live <=> \E m \in PageElements : st.expando[m] = i
      BY DEF GoodStore, LiveOwned
    <3>3. \A m \in PageElements : b.expando[m] = i <=> st.expando[m] = i
      BY <1>1, <1>7, <2>2, <2>4
    <3>4. QED
      BY <3>1, <3>2, <3>3
  <2>5. QED
    BY <2>3, <2>4
<1>13. OthersSame(st, b, n)
  <2>1. \A m \in PageElements \ {n} : st.expando[m] # 0 => st.expando[m] # id
    BY <1>1 DEF GoodStore, OwnIds
  <2>2. QED
    BY <1>3, <1>4, <1>7, <2>1 DEF OthersSame, EntryOf
<1>14. EntryOf(b, n) = NoEntry
  BY <1>7 DEF EntryOf
<1>15. QED
  BY <1>2, <1>6, <1>8, <1>10, <1>11, <1>12, <1>13, <1>14 DEF GoodStore

\* A store whose entry of n was changed, and is there still or empty.
LEMMA EmptiedKnown ==
  ASSUME NEW st, GoodStore(st), NEW n \in PageElements
  PROVE  /\ GoodStore(Emptied(st, n)) /\ OthersSame(st, Emptied(st, n), n)
         /\ (Evaluated(Emptied(st, n), n) <=> Evaluated(st, n))
<1> DEFINE e == EntryOf(st, n)
           empty == e.live /\ e.events = {} /\ ~e.data /\ ~e.globalEval
<1>1. CASE empty
  <2>1. Emptied(st, n) = GivenBack(st, n)
    BY <1>1 DEF Emptied
  <2>2. st.expando[n] # 0
    BY <1>1, EntryKnown
  <2>3. ~NoEntry.globalEval
    BY DEF NoEntry
  <2>4. QED
    BY <1>1, <2>1, <2>2, <2>3, GivenBackKnown DEF Evaluated
<1>2. CASE ~empty
  <2>1. Emptied(st, n) = st
    BY <1>2 DEF Emptied
  <2>2. QED
    BY <2>1 DEF OthersSame
<1>3. QED
  BY <1>1, <1>2

\* Something is put into the entry of an element, or taken out.
EntryReplaced(st, n, e, st2) == st2 = [st EXCEPT !.cache[st.expando[n]] = e]

LEMMA ReplacedKnown ==
  ASSUME NEW st, GoodStore(st), NEW n \in PageElements, st.expando[n] # 0, NEW e \in Entry, e.live,
         NEW st2, EntryReplaced(st, n, e, st2)
  PROVE  GoodStore(st2) /\ OthersSame(st, st2, n) /\ EntryOf(st2, n) = e /\ st2.expando = st.expando
<1>1. Allocated(st, n) = st
  BY DEF Allocated
<1>2. Kept(st, n, e) = st2
  BY <1>1 DEF Kept, EntryReplaced
<1>3. st2.expando = st.expando
  BY DEF GoodStore, Stores, EntryReplaced
<1>4. QED
  BY <1>2, <1>3, KeptKnown

LEMMA UnboundKnown ==
  ASSUME NEW st, GoodStore(st), NEW n \in PageElements, NEW type
  PROVE  /\ GoodStore(Unbound(st, n, type)) /\ OthersSame(st, Unbound(st, n, type), n)
         /\ (Evaluated(Unbound(st, n, type), n) <=> Evaluated(st, n))
         /\ Unbound(st, n, type).expando[n] \in {st.expando[n], 0}
         /\ \A m \in PageElements \ {n} : Unbound(st, n, type).expando[m] = st.expando[m]
<1>1. EntryOf(st, n) \in Entry /\ (EntryOf(st, n).live <=> st.expando[n] # 0)
  BY EntryKnown
<1>2. CASE type \notin EntryOf(st, n).events
  <2>1. Unbound(st, n, type) = st
    BY <1>2 DEF Unbound
  <2>2. QED
    BY <2>1 DEF OthersSame
<1>3. CASE type \in EntryOf(st, n).events
  <2>1. st.expando[n] # 0
    BY <1>3 DEF EntryOf, NoEntry
  <2>2. PICK id : id = st.expando[n]
    OBVIOUS
  <2>3. id \in Ids /\ st.cache \in [Ids -> Entry] /\ st.cache[id] = EntryOf(st, n) /\ st.expando \in [PageElements -> Ids \union {0}]
    BY <2>1, <2>2 DEF GoodStore, Stores, EntryOf
  <2>4. PICK e : e = [st.cache[id] EXCEPT !.events = @ \ {type}]
    OBVIOUS
  <2>5. e \in Entry /\ e.live /\ (e.globalEval <=> Evaluated(st, n))
    BY <1>1, <2>1, <2>3, <2>4 DEF Entry, Evaluated
  <2>6. PICK s : s = [st EXCEPT !.cache[st.expando[n]].events = @ \ {type}]
    OBVIOUS
  <2>7. EntryReplaced(st, n, e, s)
    BY <2>2, <2>3, <2>4, <2>6 DEF EntryReplaced, GoodStore, Stores
  <2>8. GoodStore(s) /\ OthersSame(st, s, n) /\ EntryOf(s, n) = e /\ s.expando = st.expando
    BY <2>1, <2>5, <2>7, ReplacedKnown
  <2>9. Unbound(st, n, type) = Emptied(s, n)
    BY <1>3, <2>6 DEF Unbound
  <2>10. GoodStore(Emptied(s, n)) /\ OthersSame(s, Emptied(s, n), n) /\ (Evaluated(Emptied(s, n), n) <=> Evaluated(s, n))
    BY <2>8, EmptiedKnown
  <2>11. /\ Emptied(s, n).expando[n] \in {s.expando[n], 0}
         /\ \A m \in PageElements \ {n} : Emptied(s, n).expando[m] = s.expando[m]
    BY <2>8 DEF Emptied, GivenBack, GoodStore, Stores
  <2>12. QED
    BY <2>5, <2>8, <2>9, <2>10, <2>11 DEF OthersSame, Evaluated
<1>4. QED
  BY <1>2, <1>3

LEMMA CleanedOne ==
  ASSUME NEW st, GoodStore(st), NEW n \in PageElements
  PROVE  GoodStore(Cleaned1(st, n)) /\ OthersSame(st, Cleaned1(st, n), n)
<1>1. CASE st.expando[n] = 0
  <2>1. Cleaned1(st, n) = st
    BY <1>1 DEF Cleaned1
  <2>2. QED
    BY <2>1 DEF OthersSame
<1>2. CASE st.expando[n] # 0
  <2>1. PICK s : s = Unbound(st, n, "special")
    OBVIOUS
  <2>2. /\ GoodStore(s) /\ OthersSame(st, s, n) /\ s.expando[n] \in {st.expando[n], 0}
        /\ \A m \in PageElements \ {n} : s.expando[m] = st.expando[m]
    BY <2>1, UnboundKnown
  <2>3. CASE StillThere(s, st.expando[n])
    <3>1. st.expando[n] \in Ids
      BY <1>2 DEF GoodStore, Stores
    <3>2. s.cache[st.expando[n]].live
      BY <2>3 DEF StillThere
    <3>3. PICK m \in PageElements : s.expando[m] = st.expando[n]
      BY <2>2, <3>1, <3>2 DEF GoodStore, LiveOwned
    <3>4. m = n
      BY <1>2, <2>2, <3>3 DEF GoodStore, OwnIds
    <3>5. Cleaned1(st, n) = GivenBack(s, n)
      BY <1>2, <2>1, <2>3, <3>3, <3>4 DEF Cleaned1, GivenBack
    <3>6. QED
      BY <1>2, <2>2, <3>3, <3>4, <3>5, GivenBackKnown DEF OthersSame
  <2>4. CASE ~StillThere(s, st.expando[n])
    <3>1. Cleaned1(st, n) = s
      BY <1>2, <2>1, <2>4 DEF Cleaned1
    <3>2. QED
      BY <2>2, <3>1
  <2>5. QED
    BY <2>3, <2>4
<1>3. QED
  BY <1>1, <1>2

GoodStores == {st \in Stores : GoodStore(st)}

\* A recursion over a list of elements whose steps keep stores good.
Solved(f, st, ns, next) ==
    /\ f \in [0..Len(ns) -> GoodStores] /\ f[0] = st
    /\ \A i \in 1..Len(ns) : f[i] = next[<<f[i - 1], ns[i]>>]

LEMMA StoreRecursion ==
  ASSUME NEW st, GoodStore(st), NEW ns \in Seq(PageElements), NEW next \in [GoodStores \X PageElements -> GoodStores]
  PROVE  \E f : Solved(f, st, ns, next)
<1> DEFINE len == Len(ns)
           step == [p \in (1..len) \X GoodStores |-> next[<<p[2], ns[p[1]]>>]]
<1>1. len \in Nat /\ \A i \in 1..len : ns[i] \in PageElements
  OBVIOUS
<1>2. st \in GoodStores
  BY DEF GoodStores, GoodStore
<1>3. step \in [(1..len) \X GoodStores -> GoodStores]
  BY <1>1
<1> HIDE DEF step, len
<1>4. PICK f \in [0..len -> GoodStores] : RecursionFrom(f, len, st, step)
  BY <1>1, <1>2, <1>3, PrefixRecursion
<1>5. \A i \in 0..len : f[i] = IF i = 0 THEN st ELSE step[<<i, f[i - 1]>>]
  BY <1>4 DEF RecursionFrom
<1>6. f[0] = st
  <2>1. 0 \in 0..len
    BY <1>1
  <2>2. QED
    BY <1>5, <2>1
<1>7. ASSUME NEW i \in 1..len PROVE f[i] = next[<<f[i - 1], ns[i]>>]
  <2>1. i \in 0..len /\ i # 0 /\ i - 1 \in 0..len
    BY <1>1
  <2>2. f[i] = step[<<i, f[i - 1]>>] /\ f[i - 1] \in GoodStores
    BY <1>4, <1>5, <2>1
  <2>3. step[<<i, f[i - 1]>>] = next[<<f[i - 1], ns[i]>>]
    BY <2>2 DEF step
  <2>4. QED
    BY <2>2, <2>3
<1>8. QED
  BY <1>4, <1>6, <1>7 DEF len, Solved

\* What cleanData() does one element after another.
CleanedBy(f, st, ns) ==
    /\ f \in [0..Len(ns) -> GoodStores] /\ f[0] = st
    /\ \A i \in 1..Len(ns) : f[i] = Cleaned1(f[i - 1], ns[i])

LEMMA CleanedIs ==
  ASSUME NEW st, GoodStore(st), NEW ns \in Seq(PageElements)
  PROVE  \E f : CleanedBy(f, st, ns) /\ Cleaned(st, ns) = f[Len(ns)]
<1> DEFINE next == [p \in GoodStores \X PageElements |-> Cleaned1(p[1], p[2])]
           len == Len(ns)
<1>1. len \in Nat /\ \A i \in 1..len : ns[i] \in PageElements
  OBVIOUS
<1>2. ASSUME NEW s \in GoodStores, NEW n \in PageElements PROVE Cleaned1(s, n) \in GoodStores
  BY CleanedOne DEF GoodStores, GoodStore
<1>3. next \in [GoodStores \X PageElements -> GoodStores]
  BY <1>2
<1>4. PICK f : /\ f \in [0..len -> GoodStores] /\ f[0] = st
               /\ \A i \in 1..len : f[i] = next[<<f[i - 1], ns[i]>>]
  <2> HIDE DEF next
  <2>1. \E f : Solved(f, st, ns, next)
    BY <1>3, StoreRecursion
  <2>2. QED
    BY <2>1 DEF Solved
<1>5. ASSUME NEW i \in 1..len PROVE f[i] = Cleaned1(f[i - 1], ns[i])
  <2>1. f[i - 1] \in GoodStores /\ ns[i] \in PageElements
    BY <1>1, <1>4
  <2>2. QED
    BY <1>4, <2>1
<1>6. CleanedBy(f, st, ns)
  BY <1>4, <1>5 DEF CleanedBy
<1> DEFINE Ends(g) == g = [i \in 0..len |-> IF i = 0 THEN st ELSE Cleaned1(g[i - 1], ns[i])]
<1>7. Ends(f)
  <2>1. ASSUME NEW i \in 0..len PROVE f[i] = IF i = 0 THEN st ELSE Cleaned1(f[i - 1], ns[i])
    BY <1>1, <1>4, <1>5
  <2> DEFINE h == [i \in 0..len |-> IF i = 0 THEN st ELSE Cleaned1(f[i - 1], ns[i])]
  <2>2. \A i \in 0..len : f[i] = h[i]
    BY <2>1
  <2>3. f = h
    BY <1>4, <2>2
  <2>4. QED
    BY <2>3
<1> DEFINE g == CHOOSE x : Ends(x)
<1>8. Ends(g)
  <2> HIDE DEF Ends
  <2>1. QED
    BY <1>7
<1>9. Cleaned(st, ns) = g[len]
  BY Zenon DEF Cleaned
<1> HIDE DEF g
<1>10. g \in [0..len -> GoodStores] /\ g[0] = st /\ \A i \in 1..len : g[i] = Cleaned1(g[i - 1], ns[i])
  <2>1. /\ \A i \in 0..len : g[i] = IF i = 0 THEN st ELSE Cleaned1(g[i - 1], ns[i])
        /\ g = [i \in 0..len |-> g[i]]
    BY <1>8
  <2>2. g[0] = st /\ \A i \in 1..len : g[i] = Cleaned1(g[i - 1], ns[i])
    BY <1>1, <2>1
  <2>3. g = f
    <3> DEFINE Apart == {i \in Nat : i \in 0..len /\ g[i] # f[i]}
    <3>1. Apart = {}
      <4>1. SUFFICES ASSUME Apart # {} PROVE FALSE
        OBVIOUS
      <4>2. PICK m \in Apart : \A x \in Apart : m <= x
        BY <4>1, LeastNumber
      <4>3. m # 0
        BY <1>4, <2>2, <4>2
      <4>4. m \in 1..len /\ m - 1 \in Nat /\ m - 1 \in 0..len /\ ~(m <= m - 1)
        BY <1>1, <4>2, <4>3
      <4>5. g[m - 1] = f[m - 1]
        BY <4>2, <4>4
      <4>6. g[m] = f[m]
        BY <1>5, <2>2, <4>4, <4>5
      <4>7. QED
        BY <4>2, <4>6
    <3>2. \A i \in 0..len : g[i] = f[i]
      BY <1>1, <3>1
    <3>3. QED
      BY <1>4, <2>1, <3>2
  <2>4. QED
    BY <1>4, <2>2, <2>3
<1>11. QED
  BY <1>9, <1>10 DEF CleanedBy

\* Only the elements of the list are touched.
LEMMA CleanedKnown ==
  ASSUME NEW st, GoodStore(st), NEW ns \in Seq(PageElements)
  PROVE  /\ GoodStore(Cleaned(st, ns))
         /\ \A m \in PageElements \ ToSet(ns) : EntryOf(Cleaned(st, ns), m) = EntryOf(st, m)
<1> DEFINE len == Len(ns)
<1>1. len \in Nat /\ \A i \in 1..len : ns[i] \in PageElements
  OBVIOUS
<1>2. PICK f : CleanedBy(f, st, ns) /\ Cleaned(st, ns) = f[len]
  BY CleanedIs
<1>3. f \in [0..len -> GoodStores] /\ f[0] = st /\ \A i \in 1..len : f[i] = Cleaned1(f[i - 1], ns[i])
  BY <1>2 DEF CleanedBy
<1> HIDE DEF len
<1>4. ASSUME NEW m \in PageElements, \A i \in 1..len : ns[i] # m
      PROVE  EntryOf(f[len], m) = EntryOf(st, m)
  <2> DEFINE Bad == {i \in Nat : i \in 0..len /\ EntryOf(f[i], m) # EntryOf(st, m)}
  <2>1. Bad = {}
    <3>1. SUFFICES ASSUME Bad # {} PROVE FALSE
      OBVIOUS
    <3>2. PICK k \in Bad : \A x \in Bad : k <= x
      BY <3>1, LeastNumber
    <3>3. k # 0
      BY <1>3, <3>2
    <3>4. k \in 1..len /\ k - 1 \in Nat /\ k - 1 \in 0..len /\ ~(k <= k - 1)
      BY <1>1, <3>2, <3>3
    <3>5. EntryOf(f[k - 1], m) = EntryOf(st, m)
      BY <3>2, <3>4
    <3>6. f[k] = Cleaned1(f[k - 1], ns[k]) /\ GoodStore(f[k - 1]) /\ ns[k] \in PageElements /\ m # ns[k]
      BY <1>1, <1>3, <1>4, <3>4 DEF GoodStores
    <3>7. EntryOf(f[k], m) = EntryOf(f[k - 1], m)
      BY <3>6, CleanedOne DEF OthersSame
    <3>8. QED
      BY <3>2, <3>5, <3>7
  <2>2. len \in 0..len
    BY <1>1
  <2>3. QED
    BY <1>1, <2>1, <2>2
<1>5. GoodStore(f[len])
  BY <1>1, <1>3 DEF GoodStores
<1>6. ASSUME NEW m \in PageElements \ ToSet(ns) PROVE \A i \in 1..len : ns[i] # m
  BY DEF ToSet, len
<1>7. QED
  BY <1>2, <1>4, <1>5, <1>6

LEMMA MarkedOne ==
  ASSUME NEW st, GoodStore(st), NEW n \in PageElements
  PROVE  /\ GoodStore(Marked1(st, n)) /\ OthersSame(st, Marked1(st, n), n)
         /\ (Evaluated(Marked1(st, n), n) <=> Evaluated(st, n) \/ n \in Scripts)
<1>1. CASE n \notin Scripts
  <2>1. Marked1(st, n) = st
    BY <1>1 DEF Marked1
  <2>2. QED
    BY <1>1, <2>1 DEF OthersSame
<1>2. CASE n \in Scripts
  <2>1. PICK x : x = NewEntry(st, n)
    OBVIOUS
  <2>0. PICK e : e = [x EXCEPT !.globalEval = TRUE]
    OBVIOUS
  <2>2. e \in Entry /\ e.live /\ e.globalEval
    <3>1. x \in Entry /\ x.live
      BY <2>1, AllocatedKnown
    <3>2. QED
      BY <2>0, <3>1 DEF Entry
  <2>3. Marked1(st, n) = Kept(st, n, e)
    BY <1>2, <2>0, <2>1 DEF Marked1
  <2>4. QED
    BY <1>2, <2>2, <2>3, KeptKnown DEF Evaluated
<1>3. QED
  BY <1>1, <1>2

\* What setGlobalEval() does one script after another.
MarkedBy(f, st, ns) ==
    /\ f \in [0..Len(ns) -> GoodStores] /\ f[0] = st
    /\ \A i \in 1..Len(ns) : f[i] = Marked1(f[i - 1], ns[i])

LEMMA MarkedIs ==
  ASSUME NEW st, GoodStore(st), NEW ns \in Seq(PageElements)
  PROVE  \E f : MarkedBy(f, st, ns) /\ Marked(st, ns) = f[Len(ns)]
<1> DEFINE next == [p \in GoodStores \X PageElements |-> Marked1(p[1], p[2])]
           len == Len(ns)
<1>1. len \in Nat /\ \A i \in 1..len : ns[i] \in PageElements
  OBVIOUS
<1>2. ASSUME NEW s \in GoodStores, NEW n \in PageElements PROVE Marked1(s, n) \in GoodStores
  BY MarkedOne DEF GoodStores, GoodStore
<1>3. next \in [GoodStores \X PageElements -> GoodStores]
  BY <1>2
<1>4. PICK f : /\ f \in [0..len -> GoodStores] /\ f[0] = st
               /\ \A i \in 1..len : f[i] = next[<<f[i - 1], ns[i]>>]
  <2> HIDE DEF next
  <2>1. \E f : Solved(f, st, ns, next)
    BY <1>3, StoreRecursion
  <2>2. QED
    BY <2>1 DEF Solved
<1>5. ASSUME NEW i \in 1..len PROVE f[i] = Marked1(f[i - 1], ns[i])
  <2>1. f[i - 1] \in GoodStores /\ ns[i] \in PageElements
    BY <1>1, <1>4
  <2>2. QED
    BY <1>4, <2>1
<1>6. MarkedBy(f, st, ns)
  BY <1>4, <1>5 DEF MarkedBy
<1> DEFINE Ends(g) == g = [i \in 0..len |-> IF i = 0 THEN st ELSE Marked1(g[i - 1], ns[i])]
<1>7. Ends(f)
  <2>1. ASSUME NEW i \in 0..len PROVE f[i] = IF i = 0 THEN st ELSE Marked1(f[i - 1], ns[i])
    BY <1>1, <1>4, <1>5
  <2> DEFINE h == [i \in 0..len |-> IF i = 0 THEN st ELSE Marked1(f[i - 1], ns[i])]
  <2>2. \A i \in 0..len : f[i] = h[i]
    BY <2>1
  <2>3. f = h
    BY <1>4, <2>2
  <2>4. QED
    BY <2>3
<1> DEFINE g == CHOOSE x : Ends(x)
<1>8. Ends(g)
  <2> HIDE DEF Ends
  <2>1. QED
    BY <1>7
<1>9. Marked(st, ns) = g[len]
  BY Zenon DEF Marked
<1> HIDE DEF g
<1>10. g \in [0..len -> GoodStores] /\ g[0] = st /\ \A i \in 1..len : g[i] = Marked1(g[i - 1], ns[i])
  <2>1. /\ \A i \in 0..len : g[i] = IF i = 0 THEN st ELSE Marked1(g[i - 1], ns[i])
        /\ g = [i \in 0..len |-> g[i]]
    BY <1>8
  <2>2. g[0] = st /\ \A i \in 1..len : g[i] = Marked1(g[i - 1], ns[i])
    BY <1>1, <2>1
  <2>3. g = f
    <3> DEFINE Apart == {i \in Nat : i \in 0..len /\ g[i] # f[i]}
    <3>1. Apart = {}
      <4>1. SUFFICES ASSUME Apart # {} PROVE FALSE
        OBVIOUS
      <4>2. PICK m \in Apart : \A x \in Apart : m <= x
        BY <4>1, LeastNumber
      <4>3. m # 0
        BY <1>4, <2>2, <4>2
      <4>4. m \in 1..len /\ m - 1 \in Nat /\ m - 1 \in 0..len /\ ~(m <= m - 1)
        BY <1>1, <4>2, <4>3
      <4>5. g[m - 1] = f[m - 1]
        BY <4>2, <4>4
      <4>6. g[m] = f[m]
        BY <1>5, <2>2, <4>4, <4>5
      <4>7. QED
        BY <4>2, <4>6
    <3>2. \A i \in 0..len : g[i] = f[i]
      BY <1>1, <3>1
    <3>3. QED
      BY <1>4, <2>1, <3>2
  <2>4. QED
    BY <1>4, <2>2, <2>3
<1>11. QED
  BY <1>9, <1>10 DEF MarkedBy

\* The scripts of the list are marked, and no others.
LEMMA MarkedKnown ==
  ASSUME NEW st, GoodStore(st), NEW ns \in Seq(PageElements)
  PROVE  /\ GoodStore(Marked(st, ns))
         /\ \A m \in PageElements : m \notin ToSet(ns) \intersect Scripts => EntryOf(Marked(st, ns), m) = EntryOf(st, m)
         /\ \A m \in ToSet(ns) \intersect Scripts : Evaluated(Marked(st, ns), m)
<1> DEFINE len == Len(ns)
<1>1. len \in Nat /\ \A i \in 1..len : ns[i] \in PageElements
  OBVIOUS
<1>2. PICK f : MarkedBy(f, st, ns) /\ Marked(st, ns) = f[len]
  BY MarkedIs
<1>3. f \in [0..len -> GoodStores] /\ f[0] = st /\ \A i \in 1..len : f[i] = Marked1(f[i - 1], ns[i])
  BY <1>2 DEF MarkedBy
<1>4. \A m : m \in ToSet(ns) <=> \E i \in 1..len : ns[i] = m
  BY DEF ToSet
<1> HIDE DEF len
<1>5. ASSUME NEW m \in PageElements
      PROVE  /\ (m \notin Scripts \/ \A i \in 1..len : ns[i] # m) => EntryOf(f[len], m) = EntryOf(st, m)
             /\ m \in Scripts /\ (\E i \in 1..len : ns[i] = m) => Evaluated(f[len], m)
  <2> DEFINE Right(k) == /\ (m \notin Scripts \/ \A i \in 1..k : ns[i] # m) => EntryOf(f[k], m) = EntryOf(st, m)
                         /\ m \in Scripts /\ (\E i \in 1..k : ns[i] = m) => Evaluated(f[k], m)
             Bad == {i \in Nat : i \in 0..len /\ ~Right(i)}
  <2>1. Bad = {}
    <3>1. SUFFICES ASSUME Bad # {} PROVE FALSE
      OBVIOUS
    <3>2. PICK k \in Bad : \A x \in Bad : k <= x
      BY <3>1, LeastNumber
    <3>3. k # 0
      BY <1>3, <3>2
    <3>4. k \in 1..len /\ k - 1 \in Nat /\ k - 1 \in 0..len /\ ~(k <= k - 1)
      BY <1>1, <3>2, <3>3
    <3>5. Right(k - 1)
      <4> HIDE DEF Right
      <4>1. QED
        BY <3>2, <3>4
    <3>6. f[k] = Marked1(f[k - 1], ns[k]) /\ GoodStore(f[k - 1]) /\ ns[k] \in PageElements
      BY <1>1, <1>3, <3>4 DEF GoodStores
    <3>7. /\ OthersSame(f[k - 1], f[k], ns[k])
          /\ (Evaluated(f[k], ns[k]) <=> Evaluated(f[k - 1], ns[k]) \/ ns[k] \in Scripts)
          /\ (ns[k] \notin Scripts => f[k] = f[k - 1])
      BY <3>6, MarkedOne DEF Marked1
    <3>8. \A i \in 1..k : i \in 1..(k - 1) \/ i = k
      BY <3>4
    <3>9. \A i \in 1..(k - 1) : i \in 1..k
      BY <3>4
    <3>10. Right(k)
      <4>1. CASE ns[k] = m
        <5>1. CASE m \in Scripts
          BY <3>4, <3>7, <4>1, <5>1
        <5>2. CASE m \notin Scripts
          BY <3>5, <3>7, <4>1, <5>2
        <5>3. QED
          BY <5>1, <5>2
      <4>2. CASE ns[k] # m
        <5>1. EntryOf(f[k], m) = EntryOf(f[k - 1], m)
          BY <3>7, <4>2 DEF OthersSame
        <5>2. QED
          BY <3>5, <3>8, <3>9, <4>2, <5>1 DEF Evaluated
      <4>3. QED
        BY <4>1, <4>2
    <3>11. QED
      BY <3>2, <3>10
  <2>2. len \in Nat /\ len \in 0..len
    BY <1>1
  <2>3. Right(len)
    <3> HIDE DEF Right
    <3>1. QED
      BY <2>1, <2>2
  <2>4. QED
    BY <2>3
<1>6. GoodStore(f[len])
  BY <1>1, <1>3 DEF GoodStores
<1>7. ASSUME NEW m \in PageElements, m \notin ToSet(ns) \intersect Scripts
      PROVE EntryOf(Marked(st, ns), m) = EntryOf(st, m)
  BY <1>2, <1>4, <1>5, <1>7
<1>8. ASSUME NEW m \in ToSet(ns) \intersect Scripts PROVE Evaluated(Marked(st, ns), m)
  <2>1. m \in PageElements /\ m \in Scripts
    BY DEF PageElements
  <2>2. QED
    BY <1>2, <1>4, <1>5, <2>1
<1>9. QED
  BY <1>2, <1>6, <1>7, <1>8

\* The elements of a set, each at one place of the list.
LEMMA ListedAll ==
  ASSUME NEW S, IsFiniteSet(S)
  PROVE  SetToSeq(S) \in Seq(S) /\ ToSet(SetToSeq(S)) = S
<1> DEFINE n == Cardinality(S)
<1>1. n \in Nat /\ ExistsBijection(1..n, S)
  BY FS_CardinalityType
<1>2. PICK g \in [1..n -> S] : IsInjective(g)
  BY <1>1 DEF ExistsBijection, Bijection, Injection
<1>3. PICK f : f = SetToSeq(S)
  OBVIOUS
<1>4. f \in [1..n -> S] /\ IsInjective(f)
  BY <1>2, <1>3 DEF SetToSeq
<1>5. f \in Seq(S) /\ Len(f) = n
  BY <1>1, <1>4, SeqDef
<1>6. \A x \in S : \E k \in 1..n : f[k] = x
  <2>1. IsFiniteSet(1..n) /\ Cardinality(1..n) = n
    BY <1>1, FS_Interval
  <2>2. f \in Injection(1..n, S)
    BY <1>4 DEF Injection
  <2>3. f \in Surjection(1..n, S)
    BY <1>1, <2>1, <2>2, FS_Injection
  <2>4. QED
    BY <2>3 DEF Surjection
<1>7. ToSet(f) = S
  BY <1>4, <1>5, <1>6 DEF ToSet
<1>8. QED
  BY <1>3, <1>5, <1>7

LEMMA AllKnown ==
  ASSUME NEW n \in PageElements
  PROVE  LET inside == {m \in PageElements : parentOf[m] = n}
         IN  /\ All(n) \in Seq(PageElements) /\ ToSet(All(n)) = {n} \union inside
             /\ Tail(All(n)) \in Seq(PageElements) /\ ToSet(Tail(All(n))) = inside
<1> DEFINE inside == {m \in PageElements : parentOf[m] = n}
<1>1. IsFiniteSet(inside)
  <2>1. IsFiniteSet(PageElements)
    <3>1. PageElements = {"box1"} \union {"box2"} \union {"script"} \union {"copy"}
      BY FourIds
    <3>2. QED
      BY <3>1, FS_Singleton, FS_Union
  <2>2. QED
    BY <2>1, FS_Subset
<1>2. PICK f : f = SetToSeq(inside)
  OBVIOUS
<1>3. f \in Seq(inside) /\ ToSet(f) = inside
  BY <1>1, <1>2, ListedAll
<1>4. f \in Seq(PageElements) /\ Len(f) \in Nat
  BY <1>3
<1>5. All(n) = <<n>> \o f
  BY <1>2 DEF All
<1>6. <<n>> \in Seq(PageElements) /\ Len(<<n>>) = 1 /\ <<n>>[1] = n
  OBVIOUS
<1>7. PICK a : a = <<n>> \o f
  OBVIOUS
<1>8. /\ a \in Seq(PageElements) /\ Len(a) = 1 + Len(f) /\ a[1] = n
      /\ \A i \in 1..Len(f) : a[i + 1] = f[i]
  <2>1. /\ a \in Seq(PageElements) /\ Len(a) = Len(<<n>>) + Len(f)
        /\ \A i \in 1..Len(a) : a[i] = IF i <= Len(<<n>>) THEN <<n>>[i] ELSE f[i - Len(<<n>>)]
    BY <1>4, <1>6, <1>7, ConcatProperties
  <2>2. a[1] = n
    BY <1>4, <1>6, <2>1
  <2>3. ASSUME NEW i \in 1..Len(f) PROVE a[i + 1] = f[i]
    <3>1. i + 1 \in 1..Len(a) /\ ~(i + 1 <= 1) /\ i + 1 - 1 = i
      BY <1>4, <1>6, <2>1
    <3>2. QED
      BY <1>6, <2>1, <3>1
  <2>4. QED
    BY <1>6, <2>1, <2>2, <2>3
<1>9. Tail(a) = f
  <2>1. Tail(a) \in Seq(PageElements) /\ Len(Tail(a)) = Len(f) /\ \A i \in 1..Len(f) : Tail(a)[i] = a[i + 1]
    BY <1>4, <1>8
  <2>2. QED
    BY <1>4, <1>8, <2>1, SeqEqual
<1>10. ToSet(a) = {n} \union ToSet(f)
  <2>1. \A m : m \in ToSet(a) <=> \E i \in 1..Len(a) : a[i] = m
    BY <1>8 DEF ToSet
  <2>2. \A m : m \in ToSet(f) <=> \E i \in 1..Len(f) : f[i] = m
    BY <1>4 DEF ToSet
  <2>3. 1 \in 1..Len(a) /\ \A i \in 1..Len(a) : i = 1 \/ (i - 1 \in 1..Len(f) /\ i = (i - 1) + 1)
    BY <1>4, <1>8
  <2>4. \A i \in 1..Len(f) : i + 1 \in 1..Len(a)
    BY <1>4, <1>8
  <2>5. ASSUME NEW m \in ToSet(a) PROVE m = n \/ m \in ToSet(f)
    <3>1. PICK i \in 1..Len(a) : a[i] = m
      BY <2>1
    <3>2. CASE i = 1
      BY <1>8, <3>1, <3>2
    <3>3. CASE i # 1
      <4>1. i - 1 \in 1..Len(f) /\ i = (i - 1) + 1
        BY <2>3, <3>3
      <4>2. f[i - 1] = m
        BY <1>8, <3>1, <4>1
      <4>3. QED
        BY <2>2, <4>1, <4>2
    <3>4. QED
      BY <3>2, <3>3
  <2>6. n \in ToSet(a)
    BY <1>8, <2>1, <2>3
  <2>7. ASSUME NEW m \in ToSet(f) PROVE m \in ToSet(a)
    <3>1. PICK i \in 1..Len(f) : f[i] = m
      BY <2>2
    <3>2. a[i + 1] = m /\ i + 1 \in 1..Len(a)
      BY <1>8, <2>4, <3>1
    <3>3. QED
      BY <2>1, <3>2
  <2>8. QED
    BY <2>5, <2>6, <2>7
<1>11. QED
  BY <1>3, <1>4, <1>5, <1>7, <1>8, <1>9, <1>10

\* A script was evaluated once at most, has been in the document, and what is
\* known of it says so where it is out of the document.
EvaluatedIn(st, p, count, s) ==
    /\ count \in {0, 1}
    /\ InPage(p, s) => count = 1
    /\ Evaluated(st, s) => count = 1
    /\ ~InPage(p, s) /\ count = 1 => Evaluated(st, s)

Parents(p) ==
    /\ p = [n \in PageElements |-> p[n]]
    /\ p["box1"] \in {"body", "none"} /\ p["box2"] \in {"body", "none"}
    /\ p["script"] \in Boxes \union {"none"} /\ p["copy"] \in Boxes \union {"none", "unmade"}

CopyUnmade(st, p, evals) == p["copy"] = "unmade" => st.expando["copy"] = 0 /\ evals["copy"] = 0

DataOf(st, p, evals, f) ==
    /\ GoodStore(st) /\ Parents(p) /\ evals \in [Scripts -> Nat] /\ f \subseteq Scripts
    /\ CopyUnmade(st, p, evals)
    /\ \A s \in Scripts \ f : p[s] # "unmade" => EvaluatedIn(st, p, evals[s], s)

DataInv == DataOf(Store, parentOf, evaluations, forgotten) /\ movesLeft \in 0..MaxMoves

LEMMA StoreAfter ==
  ASSUME NEW st, GoodStore(st), StoreIs(st)
  PROVE  Store' = st
BY DEF GoodStore, Stores, StoreIs, Store

LEMMA DataKept ==
  ASSUME NEW st, StoreIs(st), DataOf(st, parentOf', evaluations', forgotten'), movesLeft' \in 0..MaxMoves
  PROVE  DataInv'
<1>1. Store' = st
  BY StoreAfter DEF DataOf
<1>2. DataOf(Store', parentOf', evaluations', forgotten')
  BY <1>1
<1>3. QED
  BY <1>2 DEF DataInv

LEMMA DataStarts == DataInit => DataInv
<1> SUFFICES ASSUME DataInit PROVE DataInv
  OBVIOUS
<1>1. /\ Store.expando = [n \in PageElements |-> 0] /\ Store.cache = [i \in Ids |-> NoEntry] /\ Store.deletedIds = <<>>
      /\ Store = [expando |-> Store.expando, cache |-> Store.cache, deletedIds |-> Store.deletedIds]
  BY DEF DataInit, Store
<1>2. NoEntry \in Entry /\ ~NoEntry.live /\ ~NoEntry.globalEval
  BY DEF NoEntry, Entry
<1>3. GoodStore(Store)
  <2>1. Store \in Stores
    <3>1. <<>> \in Seq(Ids)
      OBVIOUS
    <3>2. Store.expando \in [PageElements -> Ids \union {0}] /\ Store.cache \in [Ids -> Entry]
      BY <1>1, <1>2
    <3>3. QED
      BY <1>1, <3>1, <3>2 DEF Stores
  <2>2. LiveOwned(Store)
    BY <1>1, <1>2, FourIds DEF LiveOwned
  <2>3. OwnIds(Store) /\ NoneTwice(Store) /\ GivenApart(Store)
    BY <1>1 DEF OwnIds, NoneTwice, GivenApart
  <2>4. QED
    BY <2>1, <2>2, <2>3 DEF GoodStore
<1>4. parentOf = [box1 |-> "body", box2 |-> "none", script |-> "none", copy |-> "unmade"]
  BY DEF DataInit
<1>5. Parents(parentOf)
  BY <1>4, FourIds DEF Parents, Boxes
<1>6. \A s \in Scripts : evaluations[s] = 0
  BY DEF DataInit
<1>7. CopyUnmade(Store, parentOf, evaluations)
  BY <1>1, <1>6, FourIds DEF CopyUnmade, Scripts
<1>8. \A s \in Scripts : parentOf[s] \in {"none", "unmade"} /\ EntryOf(Store, s) = NoEntry
  BY <1>1, <1>4, FourIds DEF Scripts, EntryOf
<1>9. \A s \in Scripts : ~InPage(parentOf, s) /\ ~Evaluated(Store, s)
  BY <1>2, <1>8 DEF InPage, Evaluated, Boxes
<1>10. movesLeft \in 0..MaxMoves
  BY DataAssumption DEF DataInit
<1>11. evaluations \in [Scripts -> Nat] /\ forgotten \subseteq Scripts
  BY DEF DataInit
<1>12. \A s \in Scripts : EvaluatedIn(Store, parentOf, evaluations[s], s)
  BY <1>6, <1>9 DEF EvaluatedIn
<1>13. QED
  BY <1>3, <1>5, <1>7, <1>10, <1>11, <1>12 DEF DataInv, DataOf

\* An operation on the data of an element that does not touch globalEval.
LEMMA OnlyData ==
  ASSUME DataInv, NEW n \in PageElements, Made(n), NEW st, StoreIs(st), GoodStore(st), OthersSame(Store, st, n),
         Evaluated(st, n) <=> Evaluated(Store, n), UNCHANGED <<parentOf, evaluations, forgotten, movesLeft>>
  PROVE  DataInv'
<1>1. \A m \in PageElements : Evaluated(st, m) <=> Evaluated(Store, m)
  BY DEF OthersSame, Evaluated
<1>2. GoodStore(Store)
  BY DEF DataInv, DataOf
<1>3. CopyUnmade(st, parentOf, evaluations)
  <2>1. SUFFICES ASSUME parentOf["copy"] = "unmade" PROVE st.expando["copy"] = 0 /\ evaluations["copy"] = 0
    BY DEF CopyUnmade
  <2>2. Store.expando["copy"] = 0 /\ evaluations["copy"] = 0 /\ "copy" # n /\ "copy" \in PageElements
    BY <2>1, FourIds DEF DataInv, DataOf, CopyUnmade, Made
  <2>3. EntryOf(st, "copy") = EntryOf(Store, "copy") /\ ~EntryOf(Store, "copy").live
    BY <1>2, <2>2, EntryKnown DEF OthersSame
  <2>4. QED
    BY <2>2, <2>3, EntryKnown
<1>4. \A s \in Scripts : s \in PageElements
  BY DEF PageElements
<1>5. \A s \in Scripts \ forgotten : parentOf[s] # "unmade" => EvaluatedIn(st, parentOf, evaluations[s], s)
  BY <1>1, <1>4 DEF DataInv, DataOf, EvaluatedIn
<1>6. DataOf(st, parentOf, evaluations, forgotten)
  BY <1>3, <1>5 DEF DataInv, DataOf
<1>7. QED
  BY <1>6, DataKept DEF DataInv

LEMMA SetDataKeeps == ASSUME DataInv, NEW n \in PageElements, SetData(n) PROVE DataInv'
<1>1. GoodStore(Store)
  BY DEF DataInv, DataOf
<1>2. PICK x : x = NewEntry(Store, n)
  OBVIOUS
<1>3. x \in Entry /\ x.live /\ (x.globalEval <=> Evaluated(Store, n))
  BY <1>1, <1>2, AllocatedKnown
<1>4. PICK e : e = [x EXCEPT !.data = TRUE]
  OBVIOUS
<1>5. e \in Entry /\ e.live /\ (e.globalEval <=> Evaluated(Store, n))
  BY <1>3, <1>4 DEF Entry
<1>6. PICK st : st = Kept(Store, n, e)
  OBVIOUS
<1>7. GoodStore(st) /\ EntryOf(st, n) = e /\ OthersSame(Store, st, n)
  BY <1>1, <1>5, <1>6, KeptKnown
<1>8. StoreIs(st) /\ Made(n) /\ UNCHANGED <<parentOf, evaluations, forgotten, movesLeft>>
  BY <1>2, <1>4, <1>6 DEF SetData
<1>9. Evaluated(st, n) <=> Evaluated(Store, n)
  BY <1>5, <1>7 DEF Evaluated
<1>10. QED
  BY <1>7, <1>8, <1>9, OnlyData

LEMMA BindTypeKeeps ==
  ASSUME DataInv, NEW n \in PageElements, NEW type \in {"special", "plain"}, BindType(n, type) PROVE DataInv'
<1>1. GoodStore(Store)
  BY DEF DataInv, DataOf
<1>2. PICK x : x = NewEntry(Store, n)
  OBVIOUS
<1>3. x \in Entry /\ x.live /\ (x.globalEval <=> Evaluated(Store, n))
  BY <1>1, <1>2, AllocatedKnown
<1>4. PICK e : e = [x EXCEPT !.events = @ \union {type}]
  OBVIOUS
<1>5. e \in Entry /\ e.live /\ (e.globalEval <=> Evaluated(Store, n))
  BY <1>3, <1>4 DEF Entry, DataTypes
<1>6. PICK st : st = Kept(Store, n, e)
  OBVIOUS
<1>7. GoodStore(st) /\ EntryOf(st, n) = e /\ OthersSame(Store, st, n)
  BY <1>1, <1>5, <1>6, KeptKnown
<1>8. StoreIs(st) /\ Made(n) /\ UNCHANGED <<parentOf, evaluations, forgotten, movesLeft>>
  BY <1>2, <1>4, <1>6 DEF BindType
<1>9. Evaluated(st, n) <=> Evaluated(Store, n)
  BY <1>5, <1>7 DEF Evaluated
<1>10. QED
  BY <1>7, <1>8, <1>9, OnlyData

\* What has data was made.
LEMMA OwnersMade ==
  ASSUME DataInv, NEW n \in PageElements, Store.expando[n] # 0
  PROVE  Made(n)
BY FourIds DEF DataInv, DataOf, CopyUnmade, Made, Parents, Boxes

LEMMA RemoveDataKeeps == ASSUME DataInv, NEW n \in PageElements, RemoveData(n) PROVE DataInv'
<1>1. GoodStore(Store)
  BY DEF DataInv, DataOf
<1>2. PICK x : x = EntryOf(Store, n)
  OBVIOUS
<1>3. x \in Entry /\ (x.live <=> Store.expando[n] # 0) /\ x.data
  BY <1>1, <1>2, EntryKnown DEF RemoveData
<1>4. Store.expando[n] # 0
  BY <1>2, <1>3 DEF EntryOf, NoEntry
<1>5. x = Store.cache[Store.expando[n]] /\ Store.expando[n] \in Ids /\ Store.cache \in [Ids -> Entry]
  BY <1>1, <1>2, <1>4 DEF EntryOf, GoodStore, Stores
<1>6. PICK e : e = [x EXCEPT !.data = FALSE]
  OBVIOUS
<1>7. e \in Entry /\ e.live /\ (e.globalEval <=> Evaluated(Store, n))
  BY <1>2, <1>3, <1>4, <1>6 DEF Entry, Evaluated
<1>8. PICK s : s = [Store EXCEPT !.cache[expando[n]].data = FALSE]
  OBVIOUS
<1>9. EntryReplaced(Store, n, e, s)
  <2>1. expando[n] = Store.expando[n]
    BY DEF Store
  <2>2. QED
    BY <1>1, <1>5, <1>6, <1>8, <2>1 DEF EntryReplaced, GoodStore, Stores
<1>10. GoodStore(s) /\ OthersSame(Store, s, n) /\ EntryOf(s, n) = e
  BY <1>1, <1>4, <1>7, <1>9, ReplacedKnown
<1>11. PICK st : st = Emptied(s, n)
  OBVIOUS
<1>12. GoodStore(st) /\ OthersSame(s, st, n) /\ (Evaluated(st, n) <=> Evaluated(s, n))
  BY <1>10, <1>11, EmptiedKnown
<1>13. StoreIs(st) /\ UNCHANGED <<parentOf, evaluations, forgotten, movesLeft>>
  BY <1>8, <1>11 DEF RemoveData
<1>14. Made(n)
  BY <1>4, OwnersMade
<1>15. (Evaluated(st, n) <=> Evaluated(Store, n)) /\ OthersSame(Store, st, n)
  BY <1>7, <1>10, <1>12 DEF Evaluated, OthersSame
<1>16. QED
  BY <1>12, <1>13, <1>14, <1>15, OnlyData

LEMMA UnbindTypeKeeps ==
  ASSUME DataInv, NEW n \in PageElements, NEW type \in {"special", "plain"}, UnbindType(n, type) PROVE DataInv'
<1>1. GoodStore(Store)
  BY DEF DataInv, DataOf
<1>2. PICK st : st = Unbound(Store, n, type)
  OBVIOUS
<1>3. GoodStore(st) /\ OthersSame(Store, st, n) /\ (Evaluated(st, n) <=> Evaluated(Store, n))
  BY <1>1, <1>2, UnboundKnown
<1>4. StoreIs(st) /\ UNCHANGED <<parentOf, evaluations, forgotten, movesLeft>>
  BY <1>2 DEF UnbindType
<1>5. Store.expando[n] # 0
  BY DEF UnbindType, EntryOf, NoEntry
<1>6. Made(n)
  BY <1>5, OwnersMade
<1>7. QED
  BY <1>3, <1>4, <1>6, OnlyData

\* Where a script is: in a box or in none, and in the page when its box is.
LEMMA ScriptPlace ==
  ASSUME NEW p, Parents(p), NEW s \in Scripts
  PROVE  /\ s \in PageElements /\ s \notin Boxes /\ p[s] \in Boxes \union {"none", "unmade"}
         /\ (InPage(p, s) <=> p[s] \in Boxes /\ p[p[s]] = "body")
BY FourIds DEF Parents, InPage, Boxes, Scripts

LEMMA BoxPlace ==
  ASSUME NEW p, Parents(p), NEW b \in Boxes
  PROVE  b \in PageElements /\ b \notin Scripts /\ (InPage(p, b) <=> p[b] = "body") /\ p[b] \in {"body", "none"}
BY FourIds DEF Parents, InPage, Boxes, Scripts

MovedTo(n, target, p) == p = [parentOf EXCEPT ![n] = target]

\* The elements that move with n, and where they are.
LEMMA MovedTogether ==
  ASSUME Parents(parentOf), NEW n \in PageElements, Made(n), NEW target,
         IF n \in Boxes THEN target \in {"body", "none"} ELSE target \in Boxes \union {"none"},
         NEW p, MovedTo(n, target, p)
  PROVE  /\ Parents(p) /\ (p["copy"] = "unmade" <=> parentOf["copy"] = "unmade")
         /\ \A s \in Scripts : s \in ToSet(All(n)) => (InPage(parentOf, s) <=> InPage(parentOf, n))
         /\ \A s \in Scripts : s \in ToSet(All(n)) /\ target = "none" => ~InPage(p, s)
         /\ \A s \in Scripts : s \notin ToSet(All(n)) => ((InPage(p, s) <=> InPage(parentOf, s)) /\ p[s] = parentOf[s])
         /\ \A s \in Scripts : s \in ToSet(All(n)) => parentOf[s] # "unmade" /\ p[s] # "unmade"
<1>1. \A m \in PageElements : p[m] = IF m = n THEN target ELSE parentOf[m]
  BY DEF Parents, MovedTo
<1>2. \A m : m \in ToSet(All(n)) <=> m = n \/ (m \in PageElements /\ parentOf[m] = n)
  BY AllKnown
<1>3. p = [m \in PageElements |-> p[m]]
  BY DEF Parents, MovedTo
<1>4. Parents(p) /\ (p["copy"] = "unmade" <=> parentOf["copy"] = "unmade")
  <2>1. CASE n \in Boxes
    BY <1>1, <1>3, <2>1, FourIds DEF Parents, Boxes
  <2>2. CASE n \notin Boxes
    BY <1>1, <1>3, <2>2, FourIds DEF Parents, Boxes, Made
  <2>3. QED
    BY <2>1, <2>2
<1>5. ASSUME NEW s \in Scripts, s \in ToSet(All(n))
      PROVE  /\ (InPage(parentOf, s) <=> InPage(parentOf, n)) /\ (target = "none" => ~InPage(p, s))
             /\ parentOf[s] # "unmade" /\ p[s] # "unmade"
  <2>1. CASE s = n
    <3>1. p[s] = target /\ target \in Boxes \union {"none"} /\ parentOf[s] # "unmade"
      BY <1>1, <2>1, ScriptPlace DEF Made
    <3>2. target = "none" => ~InPage(p, s)
      BY <1>4, <3>1, ScriptPlace DEF Boxes
    <3>3. QED
      BY <2>1, <3>1, <3>2 DEF Boxes
  <2>2. CASE s # n
    <3>1. parentOf[s] = n /\ n \in Boxes /\ p[s] = n /\ p[n] = target
      <4>1. parentOf[s] = n
        BY <1>2, <1>5, <2>2
      <4>2. n \in Boxes
        BY <4>1, ScriptPlace, FourIds DEF Boxes
      <4>3. QED
        BY <1>1, <2>2, <4>1, <4>2, ScriptPlace
    <3>2. InPage(parentOf, s) <=> InPage(parentOf, n)
      BY <3>1, ScriptPlace, BoxPlace
    <3>3. target = "none" => ~InPage(p, s)
      <4>1. InPage(p, s) <=> p[s] \in Boxes /\ p[p[s]] = "body"
        BY <1>4, ScriptPlace
      <4>2. QED
        BY <3>1, <4>1
    <3>4. QED
      BY <3>1, <3>2, <3>3 DEF Boxes
  <2>3. QED
    BY <2>1, <2>2
<1>6. ASSUME NEW s \in Scripts, s \notin ToSet(All(n))
      PROVE  (InPage(p, s) <=> InPage(parentOf, s)) /\ p[s] = parentOf[s]
  <2>1. s # n /\ parentOf[s] # n /\ s \in PageElements
    BY <1>2, <1>6, ScriptPlace
  <2>2. p[s] = parentOf[s] /\ (p[s] \in Boxes => p[p[s]] = parentOf[parentOf[s]])
    BY <1>1, <2>1, BoxPlace
  <2>3. /\ InPage(p, s) <=> p[s] \in Boxes /\ p[p[s]] = "body"
        /\ InPage(parentOf, s) <=> parentOf[s] \in Boxes /\ parentOf[parentOf[s]] = "body"
    BY <1>4, ScriptPlace
  <2>4. QED
    BY <2>2, <2>3
<1>7. QED
  BY <1>4, <1>5, <1>6

\* domManip() puts n, and what is in it, at the target, or takes it out.
LEMMA InsertKeepsData ==
  ASSUME DataInv, NEW n \in PageElements, Made(n), NEW target,
         IF n \in Boxes THEN target \in {"body", "none"} ELSE target \in Boxes \union {"none"},
         Inserted(Store, n, target), UNCHANGED forgotten, movesLeft' \in 0..MaxMoves
  PROVE  DataInv'
<1>1. PICK from : from = IF InPage(parentOf, n) THEN Marked(Store, All(n)) ELSE Store
  OBVIOUS
<1>2. PICK p : p = parentOf'
  OBVIOUS
<1>3. /\ StoreIs(from) /\ p = [parentOf EXCEPT ![n] = target]
      /\ evaluations' = [s \in Scripts |->
            IF s \in ToSet(All(n)) /\ InPage(p, s) /\ ~EntryOf(from, s).globalEval
            THEN evaluations[s] + 1 ELSE evaluations[s]]
  BY <1>1, <1>2 DEF Inserted
<1>4. GoodStore(Store) /\ Parents(parentOf) /\ evaluations \in [Scripts -> Nat] /\ forgotten \subseteq Scripts
  BY DEF DataInv, DataOf
<1>5. All(n) \in Seq(PageElements)
  BY AllKnown
<1>6. /\ GoodStore(from)
      /\ \A m \in PageElements : m \notin ToSet(All(n)) \intersect Scripts => EntryOf(from, m) = EntryOf(Store, m)
      /\ InPage(parentOf, n) => \A m \in ToSet(All(n)) \intersect Scripts : Evaluated(from, m)
      /\ ~InPage(parentOf, n) => from = Store
  BY <1>1, <1>4, <1>5, MarkedKnown
<1>7. /\ Parents(p) /\ (p["copy"] = "unmade" <=> parentOf["copy"] = "unmade")
      /\ \A s \in Scripts : s \in ToSet(All(n)) => (InPage(parentOf, s) <=> InPage(parentOf, n))
      /\ \A s \in Scripts : s \notin ToSet(All(n)) => ((InPage(p, s) <=> InPage(parentOf, s)) /\ p[s] = parentOf[s])
      /\ \A s \in Scripts : s \in ToSet(All(n)) => parentOf[s] # "unmade" /\ p[s] # "unmade"
  <2>1. MovedTo(n, target, p)
    BY <1>3 DEF MovedTo
  <2>2. QED
    BY <1>4, <2>1, MovedTogether
<1>8. \A s \in Scripts : evaluations'[s] =
          IF s \in ToSet(All(n)) /\ InPage(p, s) /\ ~Evaluated(from, s) THEN evaluations[s] + 1 ELSE evaluations[s]
  BY <1>3 DEF Evaluated
<1>9. evaluations' \in [Scripts -> Nat]
  BY <1>3, <1>4
<1>10. CopyUnmade(from, p, evaluations')
  <2>1. SUFFICES ASSUME p["copy"] = "unmade" PROVE from.expando["copy"] = 0 /\ evaluations'["copy"] = 0
    BY DEF CopyUnmade
  <2>2. parentOf["copy"] = "unmade" /\ "copy" \in Scripts /\ "copy" \in PageElements
    BY <1>7, <2>1, FourIds DEF Scripts
  <2>3. "copy" \notin ToSet(All(n))
    BY <1>7, <2>2
  <2>4. Store.expando["copy"] = 0 /\ evaluations["copy"] = 0
    BY <2>2 DEF DataInv, DataOf, CopyUnmade
  <2>5. EntryOf(from, "copy") = EntryOf(Store, "copy") /\ ~EntryOf(Store, "copy").live
    BY <1>4, <1>6, <2>2, <2>3, <2>4, EntryKnown
  <2>6. QED
    BY <1>6, <1>8, <2>2, <2>3, <2>4, <2>5, EntryKnown
<1>11. ASSUME NEW s \in Scripts \ forgotten, p[s] # "unmade" PROVE EvaluatedIn(from, p, evaluations'[s], s)
  <2>0. s \in PageElements
    BY <1>4, ScriptPlace
  <2>1. CASE s \notin ToSet(All(n))
    <3>1. parentOf[s] # "unmade" /\ evaluations'[s] = evaluations[s] /\ (InPage(p, s) <=> InPage(parentOf, s))
      BY <1>7, <1>8, <1>11, <2>1
    <3>2. Evaluated(from, s) <=> Evaluated(Store, s)
      BY <1>6, <2>0, <2>1 DEF Evaluated
    <3>3. EvaluatedIn(Store, parentOf, evaluations[s], s)
      BY <3>1 DEF DataInv, DataOf
    <3>4. QED
      BY <3>1, <3>2, <3>3 DEF EvaluatedIn
  <2>2. CASE s \in ToSet(All(n))
    <3>1. EvaluatedIn(Store, parentOf, evaluations[s], s)
      BY <1>7, <2>2 DEF DataInv, DataOf
    <3>2. CASE InPage(parentOf, n)
      <4>1. evaluations[s] = 1 /\ Evaluated(from, s) /\ evaluations'[s] = 1
        BY <1>6, <1>7, <1>8, <2>2, <3>1, <3>2 DEF EvaluatedIn
      <4>2. QED
        BY <4>1 DEF EvaluatedIn
    <3>3. CASE ~InPage(parentOf, n)
      <4>1. from = Store /\ ~InPage(parentOf, s)
        BY <1>6, <1>7, <2>2, <3>3
      <4>2. evaluations[s] = (IF Evaluated(from, s) THEN 1 ELSE 0)
        BY <3>1, <4>1 DEF EvaluatedIn
      <4>3. evaluations'[s] = IF InPage(p, s) \/ Evaluated(from, s) THEN 1 ELSE 0
        BY <1>8, <2>2, <4>2
      <4>4. QED
        BY <4>3 DEF EvaluatedIn
    <3>4. QED
      BY <3>2, <3>3
  <2>3. QED
    BY <2>1, <2>2
<1>12. DataOf(from, parentOf', evaluations', forgotten')
  BY <1>2, <1>4, <1>6, <1>7, <1>9, <1>10, <1>11 DEF DataOf
<1>13. QED
  BY <1>3, <1>12, DataKept

LEMMA MovesCounted == ASSUME DataInv, Moves PROVE movesLeft' \in 0..MaxMoves
<1>1. movesLeft \in 0..MaxMoves /\ movesLeft > 0 /\ movesLeft' = movesLeft - 1
  BY DEF DataInv, Moves
<1>2. QED
  BY <1>1, DataAssumption

LEMMA InsertKeeps ==
  ASSUME DataInv, NEW n \in PageElements, NEW target \in Boxes \union {"body"}, Insert(n, target)
  PROVE  DataInv'
<1>1. Moves /\ Made(n) /\ Inserted(Store, n, target) /\ UNCHANGED forgotten
  BY DEF Insert
<1>2. IF n \in Boxes THEN target \in {"body", "none"} ELSE target \in Boxes \union {"none"}
  BY DEF Insert
<1>3. QED
  BY <1>1, <1>2, MovesCounted, InsertKeepsData

LEMMA DetachKeeps ==
  ASSUME DataInv, NEW n \in PageElements, DetachElement(n)
  PROVE  DataInv'
<1>1. Moves /\ Made(n) /\ UNCHANGED <<evaluations, forgotten>> /\ parentOf' = [parentOf EXCEPT ![n] = "none"]
  BY DEF DetachElement
<1>2. PICK from : from = IF InPage(parentOf, n) THEN Marked(Store, All(n)) ELSE Store
  OBVIOUS
<1>3. StoreIs(from)
  BY <1>2 DEF DetachElement
<1>4. PICK p : p = parentOf'
  OBVIOUS
<1>5. Parents(parentOf) /\ evaluations \in [Scripts -> Nat]
  BY DEF DataInv, DataOf
<1>6. \A s \in Scripts : s \in ToSet(All(n)) => ~InPage(p, s)
  <2>1. MovedTo(n, "none", p)
    BY <1>1, <1>4 DEF MovedTo
  <2>2. QED
    BY <1>1, <1>5, <2>1, MovedTogether
<1>7. evaluations' = [s \in Scripts |->
            IF s \in ToSet(All(n)) /\ InPage(p, s) /\ ~EntryOf(from, s).globalEval
            THEN evaluations[s] + 1 ELSE evaluations[s]]
  BY <1>1, <1>5, <1>6
<1>8. Inserted(Store, n, "none")
  BY <1>1, <1>2, <1>3, <1>4, <1>7 DEF Inserted
<1>9. QED
  BY <1>1, <1>8, MovesCounted, InsertKeepsData

\* remove(), empty(): what is cleaned is forgotten, the rest stays where it is.
LEMMA CleanedKeeps ==
  ASSUME DataInv, NEW ns \in Seq(PageElements), StoreIs(Cleaned(Store, ns)), Parents(parentOf'),
         \A s \in Scripts \ ToSet(ns) : InPage(parentOf', s) <=> InPage(parentOf, s),
         \A s \in Scripts : parentOf'[s] = "unmade" <=> parentOf[s] = "unmade",
         \A s \in ToSet(ns) : parentOf[s] # "unmade",
         ToSet(ns) \intersect Scripts \subseteq forgotten', forgotten \subseteq forgotten', forgotten' \subseteq Scripts,
         UNCHANGED evaluations, movesLeft' \in 0..MaxMoves
  PROVE  DataInv'
<1>1. PICK st : st = Cleaned(Store, ns)
  OBVIOUS
<1>2. PICK p : p = parentOf'
  OBVIOUS
<1>3. GoodStore(Store) /\ evaluations \in [Scripts -> Nat]
  BY DEF DataInv, DataOf
<1>4. GoodStore(st) /\ \A m \in PageElements \ ToSet(ns) : EntryOf(st, m) = EntryOf(Store, m)
  BY <1>1, <1>3, CleanedKnown
<1>5. CopyUnmade(st, p, evaluations)
  <2>1. SUFFICES ASSUME p["copy"] = "unmade" PROVE st.expando["copy"] = 0 /\ evaluations["copy"] = 0
    BY DEF CopyUnmade
  <2>2. "copy" \in Scripts /\ "copy" \in PageElements
    BY FourIds DEF Scripts
  <2>3. parentOf["copy"] = "unmade" /\ "copy" \notin ToSet(ns)
    BY <1>2, <2>1, <2>2
  <2>4. Store.expando["copy"] = 0 /\ evaluations["copy"] = 0
    BY <2>3 DEF DataInv, DataOf, CopyUnmade
  <2>5. EntryOf(st, "copy") = EntryOf(Store, "copy") /\ ~EntryOf(Store, "copy").live
    BY <1>3, <1>4, <2>2, <2>3, <2>4, EntryKnown
  <2>6. QED
    BY <1>4, <2>2, <2>4, <2>5, EntryKnown
<1>6. ASSUME NEW s \in Scripts \ forgotten', p[s] # "unmade" PROVE EvaluatedIn(st, p, evaluations[s], s)
  <2>1. s \in PageElements /\ s \notin ToSet(ns) /\ s \notin forgotten /\ parentOf[s] # "unmade"
    BY <1>2, <1>6 DEF PageElements
  <2>2. EvaluatedIn(Store, parentOf, evaluations[s], s)
    BY <2>1 DEF DataInv, DataOf
  <2>3. (Evaluated(st, s) <=> Evaluated(Store, s)) /\ (InPage(p, s) <=> InPage(parentOf, s))
    BY <1>2, <1>4, <2>1 DEF Evaluated
  <2>4. QED
    BY <2>2, <2>3 DEF EvaluatedIn
<1>7. DataOf(st, parentOf', evaluations', forgotten')
  BY <1>2, <1>3, <1>4, <1>5, <1>6 DEF DataOf
<1>8. QED
  BY <1>1, <1>7, DataKept

LEMMA RemoveElementKeeps == ASSUME DataInv, NEW n \in PageElements, RemoveElement(n) PROVE DataInv'
<1>1. /\ Moves /\ Made(n) /\ StoreIs(Cleaned(Store, All(n))) /\ parentOf' = [parentOf EXCEPT ![n] = "none"]
      /\ forgotten' = forgotten \union (ToSet(All(n)) \intersect Scripts) /\ UNCHANGED evaluations
  BY DEF RemoveElement
<1>2. PICK p : p = parentOf'
  OBVIOUS
<1>3. Parents(parentOf) /\ forgotten \subseteq Scripts /\ All(n) \in Seq(PageElements)
  BY AllKnown DEF DataInv, DataOf
<1>4. MovedTo(n, "none", p)
  BY <1>1, <1>2 DEF MovedTo
<1>5. /\ Parents(p) /\ (p["copy"] = "unmade" <=> parentOf["copy"] = "unmade")
      /\ \A s \in Scripts : s \notin ToSet(All(n)) => (InPage(p, s) <=> InPage(parentOf, s)) /\ p[s] = parentOf[s]
      /\ \A s \in Scripts : s \in ToSet(All(n)) => parentOf[s] # "unmade" /\ p[s] # "unmade"
  BY <1>1, <1>3, <1>4, MovedTogether
<1>6. \A s \in Scripts : p[s] = "unmade" <=> parentOf[s] = "unmade"
  BY <1>5
<1>7. \A s \in ToSet(All(n)) : parentOf[s] # "unmade"
  <2>1. \A m : m \in ToSet(All(n)) <=> m = n \/ (m \in PageElements /\ parentOf[m] = n)
    BY AllKnown
  <2>2. n # "unmade"
    BY FourIds
  <2>3. QED
    BY <1>1, <2>1, <2>2 DEF Made
<1>8. movesLeft' \in 0..MaxMoves
  BY <1>1, MovesCounted
<1>9. QED
  BY <1>1, <1>2, <1>3, <1>5, <1>6, <1>7, <1>8, CleanedKeeps

LEMMA EmptyBoxKeeps == ASSUME DataInv, NEW b \in Boxes, EmptyBox(b) PROVE DataInv'
<1>1. PICK inside : inside = Tail(All(b))
  OBVIOUS
<1>2. /\ Moves /\ StoreIs(Cleaned(Store, inside)) /\ forgotten' = forgotten \union ToSet(inside) /\ UNCHANGED evaluations
      /\ parentOf' = [n \in PageElements |-> IF n \in ToSet(inside) THEN "none" ELSE parentOf[n]]
  BY <1>1 DEF EmptyBox
<1>3. Parents(parentOf) /\ forgotten \subseteq Scripts
  BY DEF DataInv, DataOf
<1>4. inside \in Seq(PageElements) /\ ToSet(inside) = {m \in PageElements : parentOf[m] = b}
  <2>1. b \in PageElements
    BY <1>3, BoxPlace
  <2>2. QED
    BY <1>1, <2>1, AllKnown
<1>5. ASSUME NEW m \in ToSet(inside) PROVE m \in Scripts /\ parentOf[m] = b
  <2>1. m \in PageElements /\ parentOf[m] = b
    BY <1>4
  <2>2. m \notin Boxes
    BY <1>3, <2>1, BoxPlace DEF Boxes
  <2>3. QED
    BY <2>1, <2>2 DEF PageElements
<1>6. PICK p : p = parentOf'
  OBVIOUS
<1>7. p = [n \in PageElements |-> p[n]] /\ \A n \in PageElements : p[n] = IF n \in ToSet(inside) THEN "none" ELSE parentOf[n]
  BY <1>2, <1>6
<1>8. Parents(p)
  <2>1. "box1" \notin ToSet(inside) /\ "box2" \notin ToSet(inside)
    BY <1>5 DEF Scripts
  <2>2. QED
    BY <1>3, <1>7, <2>1, FourIds DEF Parents
<1>9. ASSUME NEW s \in Scripts PROVE p[s] = "unmade" <=> parentOf[s] = "unmade"
  BY <1>3, <1>5, <1>7, ScriptPlace DEF Boxes
<1>10. ASSUME NEW s \in Scripts \ ToSet(inside) PROVE InPage(p, s) <=> InPage(parentOf, s)
  <2>1. s \in PageElements /\ p[s] = parentOf[s]
    BY <1>3, <1>7, ScriptPlace
  <2>2. p[s] \in Boxes => p[p[s]] = parentOf[p[s]]
    <3>1. SUFFICES ASSUME p[s] \in Boxes PROVE p[p[s]] = parentOf[p[s]]
      OBVIOUS
    <3>2. p[s] \in PageElements /\ p[s] \notin ToSet(inside)
      BY <1>3, <1>5, <3>1, BoxPlace
    <3>3. QED
      BY <1>7, <3>2
  <2>3. /\ InPage(p, s) <=> p[s] \in Boxes /\ p[p[s]] = "body"
        /\ InPage(parentOf, s) <=> parentOf[s] \in Boxes /\ parentOf[parentOf[s]] = "body"
    BY <1>3, <1>8, ScriptPlace
  <2>4. QED
    BY <2>1, <2>2, <2>3
<1>11. \A s \in ToSet(inside) : parentOf[s] # "unmade"
  BY <1>5 DEF Boxes
<1>12. movesLeft' \in 0..MaxMoves
  BY <1>2, MovesCounted
<1>13. QED
  BY <1>2, <1>3, <1>4, <1>5, <1>6, <1>8, <1>9, <1>10, <1>11, <1>12, CleanedKeeps

LEMMA OneElement == ASSUME NEW n \in PageElements PROVE <<n>> \in Seq(PageElements) /\ ToSet(<<n>>) = {n}
<1>1. <<n>> \in Seq(PageElements) /\ Len(<<n>>) = 1 /\ <<n>>[1] = n
  OBVIOUS
<1>2. QED
  BY <1>1 DEF ToSet

LEMMA CloneScriptKeeps == ASSUME DataInv, NEW withData \in BOOLEAN, CloneScript(withData) PROVE DataInv'
<1>1. /\ Moves /\ parentOf["copy"] = "unmade" /\ StoreIs(Copied(Store, withData)) /\ parentOf' = [parentOf EXCEPT !["copy"] = "none"]
      /\ evaluations' = [evaluations EXCEPT !["copy"] = evaluations["script"]]
      /\ forgotten' = IF "script" \in forgotten THEN forgotten \union {"copy"} ELSE forgotten
  BY DEF CloneScript, Made
<1>2. /\ GoodStore(Store) /\ Parents(parentOf) /\ evaluations \in [Scripts -> Nat] /\ forgotten \subseteq Scripts
      /\ Store.expando["copy"] = 0
  BY <1>1 DEF DataInv, DataOf, CopyUnmade
<1>3. "copy" \in PageElements /\ "script" \in PageElements /\ Scripts = {"script", "copy"} /\ "script" # "copy"
  BY FourIds DEF Scripts
<1>4. PICK source : source = EntryOf(Store, "script")
  OBVIOUS
<1>5. source \in Entry /\ (source.globalEval <=> Evaluated(Store, "script"))
  BY <1>2, <1>3, <1>4, EntryKnown DEF Evaluated
<1>6. PICK bound : bound = IF withData /\ source.live THEN Kept(Store, "copy", source) ELSE Store
  OBVIOUS
<1>7. GoodStore(bound) /\ OthersSame(Store, bound, "copy") /\ (Evaluated(bound, "copy") => source.globalEval)
  <2>1. CASE withData /\ source.live
    BY <1>2, <1>3, <1>5, <1>6, <2>1, KeptKnown DEF Evaluated
  <2>2. CASE ~(withData /\ source.live)
    <3>1. ~Evaluated(Store, "copy")
      BY <1>2 DEF Evaluated, EntryOf, NoEntry
    <3>2. QED
      BY <1>2, <1>6, <2>2, <3>1 DEF OthersSame
  <2>3. QED
    BY <2>1, <2>2
<1>8. PICK st : st = Copied(Store, withData)
  OBVIOUS
<1>9. st = IF InPage(parentOf, "script") \/ source.globalEval THEN Marked(bound, <<"copy">>) ELSE bound
  BY <1>4, <1>6, <1>8 DEF Copied
<1>10. /\ GoodStore(st) /\ EntryOf(st, "script") = EntryOf(Store, "script")
       /\ Evaluated(st, "copy") <=> InPage(parentOf, "script") \/ source.globalEval
  <2>1. CASE InPage(parentOf, "script") \/ source.globalEval
    <3>1. <<"copy">> \in Seq(PageElements) /\ ToSet(<<"copy">>) = {"copy"}
      BY <1>3, OneElement
    <3>2. PICK l : l = <<"copy">>
      OBVIOUS
    <3>3. st = Marked(bound, l) /\ l \in Seq(PageElements) /\ ToSet(l) = {"copy"}
      BY <1>9, <2>1, <3>1, <3>2
    <3>4. GoodStore(st) /\ EntryOf(st, "script") = EntryOf(bound, "script") /\ Evaluated(st, "copy")
      BY <1>3, <1>7, <3>3, MarkedKnown
    <3>5. QED
      BY <1>3, <1>7, <2>1, <3>4 DEF OthersSame
  <2>2. CASE ~(InPage(parentOf, "script") \/ source.globalEval)
    BY <1>3, <1>7, <1>9, <2>2 DEF OthersSame
  <2>3. QED
    BY <2>1, <2>2
<1>11. PICK p : p = parentOf'
  OBVIOUS
<1>12. /\ Parents(p) /\ p["copy"] = "none" /\ p["script"] = parentOf["script"]
       /\ p["box1"] = parentOf["box1"] /\ p["box2"] = parentOf["box2"]
  BY <1>1, <1>2, <1>3, <1>11, FourIds DEF Parents
<1>13. (InPage(p, "script") <=> InPage(parentOf, "script")) /\ ~InPage(p, "copy") /\ parentOf["script"] # "unmade"
  BY <1>2, <1>12 DEF InPage, Parents, Boxes
<1>14. ASSUME NEW s \in Scripts \ forgotten' PROVE EvaluatedIn(st, p, evaluations'[s], s)
  <2>1. "script" \notin forgotten
    BY <1>1, <1>3, <1>14
  <2>2. EvaluatedIn(Store, parentOf, evaluations["script"], "script")
    BY <1>3, <1>13, <2>1 DEF DataInv, DataOf
  <2>3. evaluations'["script"] = evaluations["script"] /\ evaluations'["copy"] = evaluations["script"]
    BY <1>1, <1>2, <1>3
  <2>4. CASE s = "script"
    BY <1>10, <1>13, <2>2, <2>3, <2>4 DEF EvaluatedIn, Evaluated
  <2>5. CASE s = "copy"
    BY <1>5, <1>10, <1>13, <2>2, <2>3, <2>5 DEF EvaluatedIn
  <2>6. QED
    BY <1>3, <2>4, <2>5
<1>15. evaluations' \in [Scripts -> Nat] /\ forgotten' \subseteq Scripts
  BY <1>1, <1>2, <1>3
<1>16. CopyUnmade(st, p, evaluations')
  BY <1>12 DEF CopyUnmade
<1>17. DataOf(st, parentOf', evaluations', forgotten')
  BY <1>10, <1>11, <1>12, <1>14, <1>15, <1>16 DEF DataOf
<1>18. QED
  BY <1>1, <1>8, <1>17, MovesCounted, DataKept

LEMMA InsertInBothKeeps == ASSUME DataInv, InsertInBoth PROVE DataInv'
<1>1. PICK from : from = IF InPage(parentOf, "script") THEN Marked(Store, <<"script">>) ELSE Store
  OBVIOUS
<1>2. PICK st : st = IF EntryOf(from, "script").live THEN Kept(from, "copy", EntryOf(from, "script")) ELSE from
  OBVIOUS
<1>3. PICK p : p = parentOf'
  OBVIOUS
<1>4. /\ Moves /\ parentOf["copy"] = "unmade" /\ StoreIs(st)
      /\ p = [[parentOf EXCEPT !["script"] = "none"] EXCEPT !["script"] = "box2", !["copy"] = "box1"]
      /\ evaluations' = [script |-> IF InPage(p, "script") /\ ~EntryOf(from, "script").globalEval
                                    THEN evaluations["script"] + 1 ELSE evaluations["script"],
                         copy |-> evaluations["script"]]
      /\ forgotten' = forgotten \union {"copy"}
  BY <1>1, <1>2, <1>3 DEF InsertInBoth, Made
<1>5. GoodStore(Store) /\ Parents(parentOf) /\ evaluations \in [Scripts -> Nat] /\ forgotten \subseteq Scripts
  BY DEF DataInv, DataOf
<1>6. "copy" \in PageElements /\ "script" \in PageElements /\ Scripts = {"script", "copy"} /\ "script" # "copy"
  BY FourIds DEF Scripts
<1>7. /\ GoodStore(from) /\ (InPage(parentOf, "script") => Evaluated(from, "script"))
      /\ (~InPage(parentOf, "script") => from = Store)
  <2>1. <<"script">> \in Seq(PageElements) /\ ToSet(<<"script">>) = {"script"}
    BY <1>6, OneElement
  <2>2. PICK l : l = <<"script">>
    OBVIOUS
  <2>3. l \in Seq(PageElements) /\ ToSet(l) = {"script"}
    BY <2>1, <2>2
  <2>4. GoodStore(Marked(Store, l)) /\ Evaluated(Marked(Store, l), "script")
    BY <1>5, <1>6, <2>3, MarkedKnown
  <2>5. QED
    BY <1>1, <1>5, <2>2, <2>4
<1>8. GoodStore(st) /\ EntryOf(st, "script") = EntryOf(from, "script")
  <2>1. CASE EntryOf(from, "script").live
    <3>1. EntryOf(from, "script") \in Entry
      BY <1>6, <1>7, EntryKnown
    <3>2. QED
      BY <1>2, <1>6, <1>7, <2>1, <3>1, KeptKnown DEF OthersSame
  <2>2. CASE ~EntryOf(from, "script").live
    BY <1>2, <1>7, <2>2
  <2>3. QED
    BY <2>1, <2>2
<1>9. Parents(p) /\ p["copy"] = "box1" /\ p["script"] = "box2"
  BY <1>4, <1>5, <1>6, FourIds DEF Parents, Boxes
<1>10. evaluations' \in [Scripts -> Nat] /\ forgotten' \subseteq Scripts
  BY <1>4, <1>5, <1>6
<1>11. ASSUME NEW s \in Scripts \ forgotten' PROVE EvaluatedIn(st, p, evaluations'[s], s)
  <2>1. s = "script" /\ "script" \notin forgotten
    BY <1>4, <1>6, <1>11
  <2>2. EvaluatedIn(Store, parentOf, evaluations["script"], "script")
    BY <1>5, <1>6, <2>1, ScriptPlace DEF DataInv, DataOf, Parents, Boxes
  <2>3. evaluations'["script"] =
        IF InPage(p, "script") /\ ~Evaluated(from, "script") THEN evaluations["script"] + 1 ELSE evaluations["script"]
    BY <1>4 DEF Evaluated
  <2>4. evaluations["script"] = IF Evaluated(from, "script") THEN 1 ELSE 0
    BY <1>7, <2>2 DEF EvaluatedIn
  <2>5. evaluations'["script"] = IF InPage(p, "script") \/ Evaluated(from, "script") THEN 1 ELSE 0
    BY <2>3, <2>4
  <2>6. Evaluated(st, "script") <=> Evaluated(from, "script")
    BY <1>8 DEF Evaluated
  <2>7. QED
    BY <2>1, <2>5, <2>6 DEF EvaluatedIn
<1>12. CopyUnmade(st, p, evaluations')
  BY <1>9 DEF CopyUnmade
<1>13. DataOf(st, parentOf', evaluations', forgotten')
  BY <1>3, <1>8, <1>9, <1>10, <1>11, <1>12 DEF DataOf
<1>14. QED
  BY <1>4, <1>13, MovesCounted, DataKept

LEMMA DataStep == DataInv /\ [DataNext]_dataVars => DataInv'
<1> SUFFICES ASSUME DataInv, [DataNext]_dataVars PROVE DataInv'
  OBVIOUS
<1>1. ASSUME NEW n \in PageElements, SetData(n) \/ RemoveData(n) \/ RemoveElement(n) \/ DetachElement(n) PROVE DataInv'
  BY <1>1, SetDataKeeps, RemoveDataKeeps, RemoveElementKeeps, DetachKeeps
<1>2. ASSUME NEW n \in PageElements, NEW type \in {"special", "plain"}, BindType(n, type) \/ UnbindType(n, type) PROVE DataInv'
  BY <1>2, BindTypeKeeps, UnbindTypeKeeps
<1>3. ASSUME NEW n \in PageElements, NEW target \in Boxes \union {"body"}, Insert(n, target) PROVE DataInv'
  BY <1>3, InsertKeeps
<1>4. CASE InsertInBoth
  BY <1>4, InsertInBothKeeps
<1>5. ASSUME NEW withData \in BOOLEAN, CloneScript(withData) PROVE DataInv'
  BY <1>5, CloneScriptKeeps
<1>6. ASSUME NEW b \in Boxes, EmptyBox(b) PROVE DataInv'
  BY <1>6, EmptyBoxKeeps
<1>7. CASE UNCHANGED dataVars
  BY <1>7, SMTT(60) DEF dataVars, DataInv, DataOf, Store, EvaluatedIn, CopyUnmade, Evaluated, EntryOf, InPage, Parents,
              GoodStore, OwnIds, NoneTwice, GivenApart, LiveOwned
<1>8. QED
  BY <1>1, <1>2, <1>3, <1>4, <1>5, <1>6, <1>7 DEF DataNext

LEMMA DataFollows == DataInv => DataHolds
<1> SUFFICES ASSUME DataInv PROVE DataHolds
  OBVIOUS
<1>1. GoodStore(Store) /\ Store.expando = expando /\ Store.cache = cache /\ Store.deletedIds = deletedIds
  BY DEF DataInv, DataOf, Store
<1>2. \A n, m \in PageElements : n # m /\ expando[n] # 0 => expando[n] # expando[m]
  BY <1>1 DEF GoodStore, OwnIds
<1>3. deletedIds \in Seq(Ids) /\ DOMAIN deletedIds = 1..Len(deletedIds)
  BY <1>1 DEF GoodStore, Stores
<1>4. IsInjective(deletedIds)
  BY <1>1, <1>3 DEF GoodStore, NoneTwice, IsInjective
<1>5. \A n \in PageElements : ~Contains(deletedIds, expando[n])
  BY <1>1 DEF GoodStore, GivenApart, Contains
<1>6. \A i \in Ids : cache[i].live <=> \E n \in PageElements : expando[n] = i
  BY <1>1 DEF GoodStore, LiveOwned
<1>7. ASSUME NEW s \in Scripts \ forgotten
      PROVE  evaluations[s] <= 1 /\ (Made(s) /\ InPage(parentOf, s) => evaluations[s] = 1)
  <2>1. CASE Made(s)
    <3>1. EvaluatedIn(Store, parentOf, evaluations[s], s)
      BY <2>1 DEF DataInv, DataOf, Made
    <3>2. QED
      BY <3>1 DEF EvaluatedIn
  <2>2. CASE ~Made(s)
    <3>1. s = "copy"
      BY <2>2 DEF Made, Scripts, DataInv, DataOf, Parents, Boxes
    <3>2. evaluations[s] = 0
      BY <2>2, <3>1 DEF Made, DataInv, DataOf, CopyUnmade
    <3>3. QED
      BY <2>2, <3>2
  <2>3. QED
    BY <2>1, <2>2
<1>8. QED
  BY <1>2, <1>4, <1>5, <1>6, <1>7 DEF DataHolds

\* What is kept of an element is under an id of its own, that is given back once
\* and found at no other, and a script that comes into the document was evaluated
\* once: wherever it and its box are put, taken out, cloned and put back.
THEOREM DataFollowsElements == DataSpec => []DataHolds
<1>1. DataInit => DataInv
  BY DataStarts
<1>2. DataInv /\ [DataNext]_dataVars => DataInv'
  BY DataStep
<1>3. DataInv => DataHolds
  BY DataFollows
<1>4. QED
  BY <1>1, <1>2, <1>3, PTL DEF DataSpec

-----------------------------------------------------------------------------
(* Graphs: the range of an axis, its ticks, the texts and the overlay.      *)

Least(S, a) == a \in S /\ \A x \in S : a <= x
Greatest(S, a) == a \in S /\ \A x \in S : a >= x

LEMMA MinIs == ASSUME NEW S, S \subseteq Int, \E a : Least(S, a) PROVE Least(S, Min(S))
<1>1. \E a \in S : \A x \in S : a <= x
  BY DEF Least
<1>2. QED
  BY <1>1 DEF Least, Min

LEMMA MaxIs == ASSUME NEW S, S \subseteq Int, \E a : Greatest(S, a) PROVE Greatest(S, Max(S))
<1>1. \E a \in S : \A x \in S : a >= x
  BY DEF Greatest
<1>2. QED
  BY <1>1 DEF Greatest, Max

LEMMA TwoNumbers ==
  ASSUME NEW a \in Int, NEW b \in Int
  PROVE  Least({a, b}, Min({a, b})) /\ Greatest({a, b}, Max({a, b}))
<1>1. {a, b} \subseteq Int /\ (Least({a, b}, a) \/ Least({a, b}, b)) /\ (Greatest({a, b}, a) \/ Greatest({a, b}, b))
  BY DEF Least, Greatest
<1>2. QED
  BY <1>1, MinIs, MaxIs

LEMMA AboveZero ==
  ASSUME NEW u \in Int, NEW m, m = Max({0, u})
  PROVE  m \in Nat /\ m >= u /\ (m = 0 \/ m = u)
<1>1. PICK zero \in Int : zero = 0
  OBVIOUS
<1>2. m = Max({zero, u})
  BY <1>1
<1>3. Greatest({zero, u}, m)
  BY <1>2, TwoNumbers
<1>4. QED
  BY <1>1, <1>3 DEF Greatest

\* The values of a graph are between two of them.
LEMMA ValuesRange ==
  ASSUME NEW f \in [1..Samples -> Nat], NEW top \in Nat, \A i \in 1..Samples : f[i] <= top,
         NEW vs, vs = {f[i] : i \in 1..Samples}
  PROVE  Least(vs, Min(vs)) /\ Greatest(vs, Max(vs))
<1>1. 1 \in 1..Samples
  BY PlotAssumption
<1>2. vs \in SUBSET Nat /\ vs # {} /\ vs \subseteq Int
  BY <1>1
<1>3. PICK a \in vs : \A x \in vs : a <= x
  BY <1>2, LeastNumber
<1>4. Least(vs, Min(vs))
  BY <1>2, <1>3, MinIs DEF Least
<1> DEFINE below == {top - x : x \in vs}
<1>5. below \in SUBSET Nat /\ below # {}
  BY <1>2
<1>6. PICK b \in below : \A x \in below : b <= x
  BY <1>5, LeastNumber
<1>7. PICK c \in vs : b = top - c
  BY <1>6
<1>8. ASSUME NEW x \in vs PROVE c >= x
  <2>1. top - x \in below
    OBVIOUS
  <2>2. b <= top - x /\ x \in Nat /\ c \in Nat
    BY <1>2, <1>6, <1>7, <2>1
  <2>3. QED
    BY <1>7, <2>2
<1>9. Greatest(vs, Max(vs))
  BY <1>2, <1>7, <1>8, MaxIs DEF Greatest
<1>10. QED
  BY <1>4, <1>9

ValueRange(g) == SetRange(DataRange(Points(g), "y"), TRUE)

\* The axis shows the values, and more than one.
RangeFits(r, g) ==
    /\ r.min \in Int /\ r.max \in Int
    /\ \A i \in 1..Samples : r.min <= g[i] * Scale /\ g[i] * Scale <= r.max
    /\ r.min < 0 => \A i \in 1..Samples : g[i] = 0

\* A fiftieth of what lies between two values.
LEMMA Margin ==
  ASSUME NEW a \in Nat, NEW b \in Nat, NEW lo, NEW hi, lo = a * 10000, hi = b * 10000, lo <= hi, hi - lo # 0
  PROVE  /\ (hi - lo) \div 50 = (b - a) * 200 /\ (b - a) * 200 \in Nat
         /\ hi - lo >= 10000 /\ hi > 0 /\ hi + (b - a) * 200 <= b * 10000 + b * 200
<1>1. b - a \in Nat /\ b - a >= 1 /\ hi - lo = (b - a) * 10000 /\ b > 0
  OBVIOUS
<1>2. PICK d \in Nat : d = b - a
  BY <1>1
<1>3. hi - lo = d * 10000 /\ d >= 1 /\ d <= b
  BY <1>1, <1>2
<1>4. (d * 10000) \div 50 = d * 200
  OBVIOUS
<1>5. QED
  BY <1>2, <1>3, <1>4

LEMMA RangeIs ==
  ASSUME NEW g \in Seq(0..MaxSample), Len(g) = Samples, NEW r, r = ValueRange(g)
  PROVE  RangeFits(r, g) /\ r.max - r.min >= 100 /\ r.max - r.min <= MaxSample * Scale + MaxSample * 200 + Scale
<1> DEFINE f == [i \in 1..Samples |-> g[i] * Scale]
           vs == {f[i] : i \in 1..Samples}
<1>0. PICK lo, hi : lo = Min(vs) /\ hi = Max(vs)
  OBVIOUS
<1>1. Scale = 10000
  BY DEF Scale
<1>2. /\ MaxSample \in Nat /\ MaxSample * Scale \in Nat
      /\ \A i \in 1..Samples : g[i] \in Nat /\ g[i] <= MaxSample
  BY <1>1, PlotAssumption
<1>3. f \in [1..Samples -> Nat] /\ \A i \in 1..Samples : f[i] <= MaxSample * Scale
  BY <1>1, <1>2
<1>4. DataRange(Points(g), "y") = [min |-> lo, max |-> hi]
  <2>1. \A i \in 1..Samples : Points(g)[i]["y"] = f[i]
    BY DEF Points
  <2>2. {Points(g)[i]["y"] : i \in 1..Samples} = vs
    BY <2>1
  <2>3. QED
    BY <1>0, <2>2 DEF DataRange
<1>5. Least(vs, lo) /\ Greatest(vs, hi)
  <2>1. PICK S : S = vs
    OBVIOUS
  <2> HIDE DEF f
  <2>2. Least(S, Min(S)) /\ Greatest(S, Max(S))
    BY <1>2, <1>3, <2>1, ValuesRange
  <2>3. QED
    BY <1>0, <2>1, <2>2
<1>6. /\ \A i \in 1..Samples : lo <= f[i] /\ f[i] <= hi
      /\ lo \in vs /\ hi \in vs
  BY <1>5 DEF Least, Greatest
<1>7. PICK i \in 1..Samples, j \in 1..Samples : lo = g[i] * Scale /\ hi = g[j] * Scale
  BY <1>6
<1>8. PICK a \in Nat, b \in Nat : a = g[i] /\ b = g[j] /\ lo = a * 10000 /\ hi = b * 10000 /\ b <= MaxSample
  BY <1>1, <1>2, <1>7
<1>9. \A k \in 1..Samples : g[k] \in Nat /\ lo <= g[k] * 10000 /\ g[k] * 10000 <= hi
  BY <1>1, <1>2, <1>6
<1> HIDE DEF vs, f
<1>10. a <= b /\ lo \in Nat /\ hi \in Nat /\ 1 \in 1..Samples /\ lo <= hi
  <2>1. lo \in Nat /\ hi \in Nat
    BY <1>8
  <2>2. 1 \in 1..Samples
    BY PlotAssumption
  <2>3. lo <= g[1] * 10000 /\ g[1] * 10000 <= hi /\ g[1] * 10000 \in Nat
    BY <1>9, <2>2
  <2>4. lo <= hi
    BY <2>1, <2>3
  <2>5. a <= b
    BY <1>8, <2>4
  <2>6. QED
    BY <2>1, <2>2, <2>4, <2>5
<1>11. CASE hi - lo = 0
  <2>1. a = b
    <3>1. b * 10000 - a * 10000 = 0 /\ a \in Nat /\ b \in Nat
      BY <1>8, <1>11
    <3>2. QED
      BY <3>1
  <2>2. CASE hi = 0
    <3>1. r = [min |-> lo - Scale, max |-> hi]
      BY <1>4, <1>11, <2>2 DEF SetRange, ValueRange
    <3>11. lo = 0
      BY <1>10, <1>11, <2>2
    <3>2. r.min = -10000 /\ r.max = 0
      BY <1>1, <2>2, <3>1, <3>11
    <3>3. \A k \in 1..Samples : g[k] = 0
      BY <1>9, <2>2
    <3>4. RangeFits(r, g)
      BY <1>1, <3>2, <3>3 DEF RangeFits
    <3>5. QED
      BY <1>1, <1>2, <3>2, <3>4
  <2>3. CASE hi # 0
    <3>1. r = [min |-> lo - (Scale \div 100), max |-> hi]
      BY <1>4, <1>11, <2>3 DEF SetRange, ValueRange
    <3>2. Scale \div 100 = 100
      BY <1>1
    <3>3. r.min = lo - 100 /\ r.max = hi /\ lo >= 10000
      <4>1. a >= 1
        BY <1>8, <2>1, <2>3
      <4>2. QED
        BY <1>8, <3>1, <3>2, <4>1
    <3>31. \A k \in 1..Samples : lo - 100 <= g[k] * 10000 /\ g[k] * 10000 <= hi
      <4>1. TAKE k \in 1..Samples
      <4>2. PICK y \in Int : y = g[k] * 10000 /\ lo <= y /\ y <= hi
        BY <1>9, <1>10
      <4>3. QED
        BY <1>10, <4>2
    <3>32. lo - 100 \in Int /\ hi \in Int /\ ~(lo - 100 < 0)
      BY <1>10, <3>3
    <3>4. RangeFits(r, g)
      BY <1>1, <3>3, <3>31, <3>32 DEF RangeFits
    <3>5. QED
      BY <1>1, <1>2, <1>11, <1>10, <3>3, <3>4
  <2>4. QED
    BY <2>2, <2>3
<1>12. CASE hi - lo # 0
  <2>1. /\ (hi - lo) \div 50 = (b - a) * 200 /\ (b - a) * 200 \in Nat
        /\ hi - lo >= 10000 /\ hi > 0 /\ hi + (b - a) * 200 <= b * 10000 + b * 200
    <3>1. /\ a \in Nat /\ b \in Nat /\ lo = a * 10000 /\ hi = b * 10000 /\ lo <= hi /\ hi - lo # 0
      BY <1>8, <1>10, <1>12
    <3>2. QED
      BY <3>1, Margin
  <2>2. PICK margin \in Nat : margin = (b - a) * 200
    BY <2>1
  <2>21. margin = (hi - lo) \div 50 /\ hi - lo >= 10000 /\ hi > 0 /\ hi + margin <= b * 10000 + b * 200
    BY <2>1, <2>2
  <2>3. PICK low : low = Max({0, lo - margin})
    OBVIOUS
  <2>4. r = [min |-> low, max |-> hi + margin]
    <3>1. PICK d : d = [min |-> lo, max |-> hi]
      OBVIOUS
    <3>2. d.min = lo /\ d.max = hi
      BY <3>1
    <3>3. PICK t \in BOOLEAN : t
      OBVIOUS
    <3>4. r = SetRange(d, t)
      BY <1>4, <3>1, <3>3 DEF ValueRange
    <3>5. SetRange(d, t) = [min |-> Max({0, lo - margin}), max |-> hi + margin]
      <4>1. /\ ~(d.max - d.min = 0) /\ d.min >= 0 /\ ~(d.max <= 0)
            /\ (d.max - d.min) \div 50 = margin
        BY <1>10, <1>12, <2>21, <3>2
      <4>2. SetRange(d, t) = [min |-> Max({0, d.min - margin}), max |-> d.max + margin]
        BY <3>3, <4>1, Zenon DEF SetRange
      <4>3. QED
        BY <3>2, <4>2
    <3>6. QED
      BY <2>3, <3>4, <3>5
  <2>5. low \in Nat /\ low <= lo /\ low >= lo - margin
    <3>1. PICK under \in Int : under = lo - margin
      BY <1>10
    <3>2. low = Max({0, under})
      BY <2>3, <3>1
    <3>3. low \in Nat /\ low >= under /\ (low = 0 \/ low = under)
      BY <3>2, AboveZero
    <3>4. QED
      BY <1>10, <3>1, <3>3
  <2>6. r.min = low /\ r.max = hi + margin
    BY <2>4
  <2>7. RangeFits(r, g)
    <3>1. \A k \in 1..Samples : low <= g[k] * 10000 /\ g[k] * 10000 <= hi + margin
      BY <1>9, <1>10, <2>5, SMTT(60)
    <3>2. low \in Int /\ hi + margin \in Int /\ ~(low < 0)
      BY <1>10, <2>5
    <3>3. QED
      BY <1>1, <2>6, <3>1, <3>2 DEF RangeFits
  <2>8. r.max - r.min >= 100 /\ r.max - r.min <= hi + margin
    BY <1>10, <2>21, <2>5, <2>6
  <2>9. b * 10000 + b * 200 <= MaxSample * 10000 + MaxSample * 200
    <3>1. PICK m \in Nat : m = MaxSample /\ b <= m
      BY <1>2, <1>8
    <3>2. b * 10000 + b * 200 <= m * 10000 + m * 200
      BY <3>1
    <3>3. QED
      BY <3>1, <3>2
  <2>10. QED
    BY <1>1, <1>2, <1>10, <2>21, <2>5, <2>6, <2>7, <2>8, <2>9
<1>13. QED
  BY <1>11, <1>12

\* What Powers reaches.
Reach == 10000000

\* The power of ten under what an axis spans, for each of its ticks.
LEMMA PowerUnder ==
  ASSUME NEW n \in 1..10, NEW span \in Int, 100 <= span, span < Reach * n,
         NEW magn, magn = Max({p \in Powers : p * n <= span})
  PROVE  magn \in Powers /\ magn * n <= span /\ span < 10 * (magn * n)
<1>1. PICK S : S = {p \in Powers : p * n <= span}
  OBVIOUS
<1>2. S \subseteq Int /\ \A p : p \in S <=> p \in Powers /\ p * n <= span
  BY <1>1 DEF Powers
<1>3. PICK top \in Powers : Greatest(S, top) /\ span < 10 * (top * n)
  <2>1. CASE 1000000 * n <= span
    BY <1>2, <2>1, SMT DEF Powers, Greatest, Reach
  <2>2. CASE ~(1000000 * n <= span) /\ 100000 * n <= span
    BY <1>2, <2>2, SMT DEF Powers, Greatest
  <2>3. CASE ~(100000 * n <= span) /\ 10000 * n <= span
    BY <1>2, <2>3, SMT DEF Powers, Greatest
  <2>4. CASE ~(10000 * n <= span) /\ 1000 * n <= span
    BY <1>2, <2>4, SMT DEF Powers, Greatest
  <2>5. CASE ~(1000 * n <= span) /\ 100 * n <= span
    BY <1>2, <2>5, SMT DEF Powers, Greatest
  <2>6. CASE ~(100 * n <= span)
    BY <1>2, <2>6, SMT DEF Powers, Greatest
  <2>7. QED
    BY <2>1, <2>2, <2>3, <2>4, <2>5, <2>6
<1>4. Greatest(S, magn) /\ magn = Max(S)
  BY <1>1, <1>2, <1>3, MaxIs
<1>5. magn = top /\ magn \in S
  <2>1. magn \in S /\ top \in S /\ magn >= top /\ top >= magn
    BY <1>3, <1>4 DEF Greatest
  <2>2. QED
    BY <1>2, <2>1
<1>6. QED
  BY <1>2, <1>3, <1>5

\* Twice the ticks that were asked for are enough.
LEMMA TicksReach ==
  ASSUME NEW r, NEW span \in Int, span = r.max - r.min, r.min \in Int, r.max \in Int,
         100 <= span, span < Reach * NoTicks, NEW size, size = TickGeneration(r, NoTicks).size
  PROVE  size \in Nat \ {0} /\ span <= 2 * NoTicks * size
<1>1. PICK n \in 1..10 : n = NoTicks
  BY PlotAssumption
<1>2. PICK magn \in Powers : magn = Max({p \in Powers : p * n <= span}) /\ magn * n <= span /\ span < 10 * (magn * n)
  <2>1. PICK top : top = Max({p \in Powers : p * n <= span})
    OBVIOUS
  <2>2. top \in Powers /\ top * n <= span /\ span < 10 * (top * n)
    BY <1>1, <2>1, PowerUnder
  <2>3. QED
    BY <2>1, <2>2
<1>3. PICK one \in Nat : one = n * magn /\ one = magn * n
  BY DEF Powers
<1>4. PICK d : d = Max({1, Scale \div magn})
  OBVIOUS
<1>5. PICK e : e = Max({1, (10 * Scale) \div magn})
  OBVIOUS
<1>6. TickGeneration(r, NoTicks) =
         CASE 2 * span < 3 * one -> [size |-> magn, decimals |-> d]
           [] 2 * span >= 3 * one /\ span < 3 * one /\ 4 * span <= 9 * one -> [size |-> 2 * magn, decimals |-> d]
           [] span < 3 * one /\ 4 * span > 9 * one -> [size |-> (5 * magn) \div 2, decimals |-> e]
           [] span >= 3 * one /\ 2 * span < 15 * one -> [size |-> 5 * magn, decimals |-> d]
           [] 2 * span >= 15 * one -> [size |-> 10 * magn, decimals |-> d]
  BY <1>1, <1>2, <1>3, <1>4, <1>5, SMT DEF TickGeneration
<1>7. magn \in Nat \ {0} /\ magn \in Int /\ 2 * ((5 * magn) \div 2) = 5 * magn /\ (5 * magn) \div 2 \in Nat \ {0}
  BY DEF Powers
<1>8. \/ size = magn /\ 2 * span < 3 * one
      \/ size = 2 * magn /\ 4 * span <= 9 * one
      \/ size = (5 * magn) \div 2 /\ span < 3 * one
      \/ size = 5 * magn /\ 2 * span < 15 * one
      \/ size = 10 * magn
  <2>1. CASE 2 * span < 3 * one
    BY <1>6, <2>1, SMT
  <2>2. CASE 2 * span >= 3 * one /\ span < 3 * one /\ 4 * span <= 9 * one
    BY <1>6, <2>2, SMT
  <2>3. CASE span < 3 * one /\ 4 * span > 9 * one
    BY <1>6, <2>3, SMT
  <2>4. CASE span >= 3 * one /\ 2 * span < 15 * one
    BY <1>6, <2>4, SMT
  <2>5. CASE 2 * span >= 15 * one
    BY <1>6, <2>5, SMT
  <2>6. QED
    BY <2>1, <2>2, <2>3, <2>4, <2>5
<1>9. \/ 2 * (n * size) = 2 * one /\ size = magn /\ 2 * span < 3 * one
      \/ 2 * (n * size) = 4 * one /\ size = 2 * magn /\ 4 * span <= 9 * one
      \/ 2 * (n * size) = 5 * one /\ 2 * size = 5 * magn /\ span < 3 * one
      \/ 2 * (n * size) = 10 * one /\ size = 5 * magn /\ 2 * span < 15 * one
      \/ 2 * (n * size) = 20 * one /\ size = 10 * magn
  BY <1>3, <1>7, <1>8
<1>10. size \in Nat \ {0}
  BY <1>7, <1>8
<1>11. span <= 2 * (n * size) /\ 2 * (n * size) = 2 * n * size
  BY <1>2, <1>3, <1>9, <1>10
<1>12. QED
  BY <1>1, <1>10, <1>11

LEMMA LeastIs ==
  ASSUME NEW S, S \subseteq Int, NEW a, Least(S, a) PROVE Min(S) = a
<1>1. PICK m : m = Min(S) /\ Least(S, m)
  BY MinIs
<1>2. a \in Int /\ m \in Int /\ m <= a /\ a <= m
  BY <1>1 DEF Least
<1>3. QED
  BY <1>1, <1>2

LEMMA GreatestIs ==
  ASSUME NEW S, S \subseteq Int, NEW a, Greatest(S, a) PROVE Max(S) = a
<1>1. PICK m : m = Max(S) /\ Greatest(S, m)
  BY MaxIs
<1>2. a \in Int /\ m \in Int /\ m <= a /\ a <= m
  BY <1>1 DEF Greatest
<1>3. QED
  BY <1>1, <1>2

LEMMA MultipleUnder ==
  ASSUME NEW n \in Nat \ {0}, NEW x \in Int, NEW start, start = n * (x \div n)
  PROVE  start \in Int /\ start <= x /\ x < start + n /\ (x >= 0 => start >= 0)
<1>1. PICK q \in Int, m \in 0..(n - 1) : q = x \div n /\ x = n * q + m
  OBVIOUS
<1>2. start = n * q /\ start \in Int
  BY <1>1
<1>3. x >= 0 => q >= 0
  BY <1>1
<1>4. q >= 0 => n * q >= 0
  BY <1>1
<1>5. QED
  BY <1>1, <1>2, <1>3, <1>4

\* The ticks begin at the range or before it and end at it or after it.
Spanned(ts, r, first, last) ==
    /\ Least(ts, first) /\ Greatest(ts, last) /\ first \in Int /\ last \in Int
    /\ first <= r.min /\ r.max <= last /\ (r.min >= 0 => first >= 0)

LEMMA TicksSpan ==
  ASSUME NEW r, r.min \in Int, r.max \in Int, r.min <= r.max, NEW g, g.size \in Nat \ {0},
         r.max - r.min <= 2 * NoTicks * g.size, NEW ts, ts = SetTicks(r, g)
  PROVE  ts \subseteq Int /\ \E first \in ts, last \in ts : Spanned(ts, r, first, last)
<1>1. PICK n \in 1..10 : n = NoTicks
  BY PlotAssumption
<1>2. PICK size \in Nat \ {0}, low \in Int, high \in Int : size = g.size /\ low = r.min /\ high = r.max
  OBVIOUS
<1>3. PICK start \in Int : /\ start = size * (low \div size) /\ start <= low /\ low < start + size
                           /\ (low >= 0 => start >= 0)
  <2>1. PICK st : st = size * (low \div size)
    OBVIOUS
  <2>2. QED
    BY <2>1, MultipleUnder
<1>4. PICK S : S = {i \in 0..30 : start + i * size >= high}
  OBVIOUS
<1>5. 2 * n + 1 \in S
  <2>1. start + (2 * n + 1) * size = (start + size) + 2 * n * size
    OBVIOUS
  <2>2. PICK reach \in Nat : reach = 2 * n * size
    OBVIOUS
  <2>3. high - low <= reach
    BY <1>1, <1>2, <2>2
  <2>4. (start + size) + reach >= high
    BY <1>3, <2>3
  <2>5. start + (2 * n + 1) * size >= high
    BY <2>1, <2>2, <2>4
  <2>6. QED
    BY <1>4, <2>5
<1>6. PICK steps \in S : \A i \in S : steps <= i
  <2>1. S \subseteq 0..30 /\ S # {}
    BY <1>4, <1>5
  <2>3. S \in SUBSET Nat
    BY <2>1
  <2>4. QED
    BY <2>1, <2>3, LeastNumber
<1>7. steps \in 0..30 /\ start + steps * size >= high
  BY <1>4, <1>6
<1>8. steps = Min(S)
  <2>1. S \subseteq Int /\ Least(S, steps)
    BY <1>4, <1>6 DEF Least
  <2>2. QED
    BY <2>1, LeastIs
<1>9. ts = {start + i * size : i \in 0..steps}
  BY <1>2, <1>3, <1>4, <1>8, Zenon DEF SetTicks
<1>10. PICK end \in Int : end = start + steps * size
  BY <1>7
<1>11. \A i \in 0..steps : i * size >= 0 /\ i * size <= steps * size /\ i * size \in Int
  <2>1. TAKE i \in 0..steps
  <2>2. i \in Nat /\ steps - i \in Nat /\ steps \in Nat
    BY <1>7
  <2>3. (steps - i) * size \in Nat /\ i * size \in Nat /\ steps * size = i * size + (steps - i) * size
    BY <2>2
  <2>4. QED
    BY <2>3
<1>12. ts \subseteq Int /\ \A t \in ts : start <= t /\ t <= end
  <2>1. ASSUME NEW t \in ts PROVE t \in Int /\ start <= t /\ t <= end
    <3>1. PICK i \in 0..steps : t = start + i * size
      BY <1>9
    <3>2. PICK k \in Int : k = i * size /\ k >= 0 /\ k <= steps * size
      BY <1>11
    <3>3. QED
      BY <1>7, <1>10, <3>1, <3>2
  <2>2. QED
    BY <2>1
<1>13. start \in ts /\ end \in ts
  <2>1. 0 \in 0..steps /\ steps \in 0..steps /\ start + 0 * size = start
    BY <1>7
  <2>2. QED
    BY <1>9, <1>10, <2>1
<1>14. Spanned(ts, r, start, end)
  BY <1>2, <1>3, <1>7, <1>10, <1>12, <1>13 DEF Spanned, Least, Greatest
<1>15. QED
  BY <1>12, <1>13, <1>14

LEMMA SnappedIs ==
  ASSUME NEW r, r.min \in Int, r.max \in Int, NEW ts, ts \subseteq Int,
         NEW first \in ts, NEW last \in ts, Spanned(ts, r, first, last)
  PROVE  SnapRangeToTicks(r, ts).min = first /\ SnapRangeToTicks(r, ts).max = last
<1>1. PICK low : low = {r.min} \union ts
  OBVIOUS
<1>2. PICK high : high = {r.max} \union ts
  OBVIOUS
<1>3. low \subseteq Int /\ Least(low, first)
  BY <1>1 DEF Spanned, Least
<1>4. high \subseteq Int /\ Greatest(high, last)
  BY <1>2 DEF Spanned, Greatest
<1>6. Min(low) = first
  BY <1>3, LeastIs
<1>7. Max(high) = last
  BY <1>4, GreatestIs
<1>8. QED
  BY <1>1, <1>2, <1>6, <1>7 DEF SnapRangeToTicks

\* The value axis of a graph, once its range has been snapped to the ticks.
AxisFits(a, g) ==
    /\ \A i \in 1..Samples : a.min <= g[i] * Scale /\ g[i] * Scale <= a.max
    /\ a.min \in a.ticks /\ a.max \in a.ticks /\ a.ticks \subseteq Int
    /\ a.min < 0 => \A i \in 1..Samples : g[i] = 0

LEMMA AxisIs ==
  ASSUME NEW g \in Seq(0..MaxSample), Len(g) = Samples, NEW a, a = SetupAxis(Points(g), "y")
  PROVE  AxisFits(a, g)
<1>1. PICK r : r = ValueRange(g)
  OBVIOUS
<1>2. /\ RangeFits(r, g) /\ r.max - r.min >= 100
      /\ r.max - r.min <= MaxSample * Scale + MaxSample * 200 + Scale
  BY <1>1, RangeIs
<1>3. r.min \in Int /\ r.max \in Int
  BY <1>2 DEF RangeFits
<1>4. PICK span \in Int : span = r.max - r.min
  BY <1>3
<1>5. 100 <= span /\ span < Reach * NoTicks
  <2>1. PICK n \in 1..10, m \in Nat : n = NoTicks /\ m = MaxSample /\ m <= 500 * n
    BY PlotAssumption
  <2>2. span <= m * 10000 + m * 200 + 10000 /\ 100 <= span
    BY <1>2, <1>4, <2>1 DEF Scale
  <2>3. span < 10000000 * n
    BY <2>1, <2>2, SMT
  <2>4. QED
    BY <2>1, <2>2, <2>3, SMT DEF Reach
<1>6. PICK tg : tg = TickGeneration(r, NoTicks)
  OBVIOUS
<1>7. tg.size \in Nat \ {0} /\ span <= 2 * NoTicks * tg.size
  BY <1>3, <1>4, <1>5, <1>6, TicksReach
<1>8. PICK ts : ts = SetTicks(r, tg)
  OBVIOUS
<1>9. r.min <= r.max /\ r.max - r.min <= 2 * NoTicks * tg.size
  BY <1>3, <1>4, <1>5, <1>7
<1>10. ts \subseteq Int /\ \E first \in ts, last \in ts : Spanned(ts, r, first, last)
  BY <1>3, <1>7, <1>8, <1>9, TicksSpan
<1>11. PICK first \in ts, last \in ts : Spanned(ts, r, first, last)
  BY <1>10
<1>12. a = [min |-> SnapRangeToTicks(r, ts).min, max |-> SnapRangeToTicks(r, ts).max, ticks |-> ts,
            decimals |-> tg.decimals]
  <2>1. ParseOptions["y"].ticks = NoTicks /\ ParseOptions["y"].autoscale
    BY DEF ParseOptions
  <2>2. PICK o : o = ParseOptions["y"]
    OBVIOUS
  <2>3. o.ticks = NoTicks /\ o.autoscale = TRUE
    BY <2>2 DEF ParseOptions
  <2>4. QED
    BY <1>1, <1>6, <1>8, <2>2, <2>3, Zenon DEF SetupAxis, ValueRange
<1>13. a.min = first /\ a.max = last /\ a.ticks = ts
  <2>1. SnapRangeToTicks(r, ts).min = first /\ SnapRangeToTicks(r, ts).max = last
    BY <1>3, <1>10, <1>11, SnappedIs
  <2>2. QED
    BY <1>12, <2>1
<1>14. /\ first \in Int /\ last \in Int /\ first <= r.min /\ r.max <= last /\ (r.min >= 0 => first >= 0)
       /\ \A i \in 1..Samples : r.min <= g[i] * Scale /\ g[i] * Scale <= r.max /\ g[i] * Scale \in Int
       /\ r.min < 0 => \A i \in 1..Samples : g[i] = 0
  <2>1. /\ first \in Int /\ last \in Int /\ first <= r.min /\ r.max <= last /\ (r.min >= 0 => first >= 0)
    BY <1>11 DEF Spanned
  <2>2. \A i \in 1..Samples : g[i] * Scale \in Int
    BY PlotAssumption DEF Scale
  <2>3. QED
    BY <1>2, <2>1, <2>2 DEF RangeFits
<1>15. QED
  <2>1. \A i \in 1..Samples : a.min <= g[i] * Scale /\ g[i] * Scale <= a.max
    <3>1. TAKE i \in 1..Samples
    <3>2. PICK p \in Int : p = g[i] * Scale /\ r.min <= p /\ p <= r.max
      BY <1>14
    <3>3. QED
      BY <1>3, <1>13, <1>14, <3>2
  <2>2. a.min < 0 => \A i \in 1..Samples : g[i] = 0
    BY <1>3, <1>13, <1>14
  <2>3. QED
    BY <1>10, <1>13, <2>1, <2>2 DEF AxisFits

\* A text is shown at one place: its layer has one element for it, and the texts
\* of sizes are not those of times.
LEMMA TextsOnce ==
  ASSUME NEW y, NEW x, NEW s \in Draw(y, x), NEW t \in Draw(y, x), s[1] = t[1]
  PROVE  s = t
<1>2. ASSUME NEW u \in Render(y, "y") PROVE u = <<u[1], Max(Placed(y, "y", u[1]))>> /\ u[1][1] \in {"K", ""}
  <2>1. PICK text \in TextCache(y, "y") : u = <<text, Max(Placed(y, "y", text))>>
    BY <1>2 DEF Render
  <2>2. text[1] \in {"K", ""}
    <3>1. PICK v \in y.ticks : text = TickLabel(y, "y", v)
      BY <2>1 DEF TextCache
    <3>2. text = BytesLabel(v, y.decimals)
      BY <3>1 DEF TickLabel
    <3>3. PICK a, b : text = IF v > Base * Scale THEN <<"K", a>> ELSE <<"", b>>
      BY <3>2, Zenon DEF BytesLabel
    <3>4. QED
      BY <3>3
  <2>3. QED
    BY <2>1, <2>2
<1>3. ASSUME NEW u \in Render(x, "x") PROVE u = <<u[1], Max(Placed(x, "x", u[1]))>> /\ u[1][1] = "at"
  <2>1. PICK text \in TextCache(x, "x") : u = <<text, Max(Placed(x, "x", text))>>
    BY <1>3 DEF Render
  <2>2. text[1] = "at"
    BY <2>1 DEF TextCache, TickLabel
  <2>3. QED
    BY <2>1, <2>2
<1>4. /\ s \in Render(y, "y") \/ s \in Render(x, "x")
      /\ t \in Render(y, "y") \/ t \in Render(x, "x")
  BY DEF Draw
<1>5. CASE s \in Render(y, "y") /\ t \in Render(y, "y")
  BY <1>2, <1>5
<1>6. CASE s \in Render(x, "x") /\ t \in Render(x, "x")
  BY <1>3, <1>6
<1>7. CASE s \in Render(y, "y") /\ t \in Render(x, "x")
  BY <1>2, <1>3, <1>7
<1>8. CASE s \in Render(x, "x") /\ t \in Render(y, "y")
  BY <1>2, <1>3, <1>8
<1>9. QED
  BY <1>4, <1>5, <1>6, <1>7, <1>8

\* The axes and the texts are those of the values that the plot has.
PlotShown ==
    /\ graphInfo \in Seq(0..MaxSample) /\ Len(graphInfo) = Samples
    /\ yaxis = SetupAxis(Points(graphInfo), "y") /\ textShown = Draw(yaxis, xaxis)

\* The overlay shows what is highlighted or will be drawn, for the plot that is there.
OverlayKept ==
    /\ plotNo \in 1..MaxPlots /\ highlighted \in 0..Samples /\ overlayShows \in 0..Samples /\ hoverTip = highlighted
    /\ overlayShows = highlighted \/ plotNo \in redrawTimeouts
    /\ redrawTimeouts \subseteq {plotNo}

GraphInv == PlotShown /\ OverlayKept

LEMMA GraphStarts == PlotInit => GraphInv
<1> SUFFICES ASSUME PlotInit PROVE GraphInv
  OBVIOUS
<1>1. FirstGraph \in [1..Samples -> 0..MaxSample] /\ Samples \in Nat
  BY PlotAssumption DEF FirstGraph
<1>2. FirstGraph \in Seq(0..MaxSample) /\ Len(FirstGraph) = Samples
  <2>1. PICK f \in [1..Samples -> 0..MaxSample] : f = FirstGraph
    BY <1>1
  <2>2. f \in Seq(0..MaxSample)
    BY <1>1, SeqDef
  <2>3. Len(f) = Samples
    BY <1>1, <2>2, LenProperties
  <2>4. QED
    BY <2>1, <2>2, <2>3
<1>3. PlotShown
  BY <1>2, Zenon DEF PlotInit, PlotShown
<1>4. OverlayKept
  BY PlotAssumption DEF PlotInit, OverlayKept
<1>5. QED
  BY <1>3, <1>4 DEF GraphInv

LEMMA GraphUpdated == ASSUME GraphInv, NEW value \in 0..MaxSample, UpdateGraph(value) PROVE GraphInv'
<1>1. graphInfo' \in Seq(0..MaxSample) /\ Len(graphInfo') = Samples
  <2>1. graphInfo \in Seq(0..MaxSample) /\ graphInfo # <<>> /\ Len(graphInfo) = Samples
    BY PlotAssumption DEF GraphInv, PlotShown
  <2>2. PICK rest \in Seq(0..MaxSample) : rest = Tail(graphInfo) /\ Len(rest) = Samples - 1
    BY <2>1, HeadTailProperties
  <2>3. graphInfo' = Append(rest, value)
    BY <2>2 DEF UpdateGraph
  <2>4. QED
    BY <2>2, <2>3, PlotAssumption, Pushed
<1>2. PlotShown'
  BY <1>1 DEF UpdateGraph, PlotShown
<1>3. OverlayKept'
  BY PlotAssumption DEF GraphInv, OverlayKept, UpdateGraph, SetupCanvases, Shutdown
<1>4. QED
  BY <1>2, <1>3 DEF GraphInv

LEMMA GraphPointed == ASSUME GraphInv, NEW item \in 0..Samples, PointerNear(item) PROVE GraphInv'
<1>1. PlotShown'
  BY DEF GraphInv, PlotShown, PointerNear
<1>2. highlighted' = item /\ hoverTip' = item
  BY DEF PointerNear, Highlight, Unhighlight
<1>3. OverlayKept'
  BY <1>2 DEF GraphInv, OverlayKept, PointerNear, TriggerRedrawOverlay
<1>4. QED
  BY <1>1, <1>3 DEF GraphInv

LEMMA PointsShown ==
  ASSUME GraphInv
  PROVE  AxisFits(yaxis, graphInfo) /\ Drawn(highlighted) = highlighted
<1>1. AxisFits(yaxis, graphInfo)
  BY AxisIs DEF GraphInv, PlotShown
<1>2. highlighted \in 0..Samples /\ Samples \in Nat /\ graphInfo \in Seq(0..MaxSample) /\ Len(graphInfo) = Samples
  BY PlotAssumption DEF GraphInv, OverlayKept, PlotShown
<1>3. CASE highlighted = 0
  BY <1>1, <1>3 DEF Drawn
<1>4. CASE highlighted # 0
  <2>1. PICK p \in Int : p = graphInfo[highlighted] * Scale
    BY <1>2, <1>4, PlotAssumption DEF Scale
  <2>2. yaxis.min <= p /\ p <= yaxis.max /\ yaxis.min \in Int /\ yaxis.max \in Int
    BY <1>1, <1>2, <1>4, <2>1 DEF AxisFits
  <2>3. ~(p < yaxis.min) /\ ~(p > yaxis.max)
    BY <2>2
  <2>4. QED
    BY <1>1, <1>4, <2>1, <2>3 DEF Drawn
<1>5. QED
  BY <1>1, <1>3, <1>4

LEMMA GraphRedrawn == ASSUME GraphInv, NEW p \in redrawTimeouts, DrawOverlay(p) PROVE GraphInv'
<1>1. PlotShown'
  BY DEF GraphInv, PlotShown, DrawOverlay
<1>2. p = plotNo /\ overlayShows' = highlighted
  BY PointsShown DEF DrawOverlay, GraphInv, OverlayKept
<1>3. OverlayKept'
  BY <1>2 DEF GraphInv, OverlayKept, DrawOverlay
<1>4. QED
  BY <1>1, <1>3 DEF GraphInv

LEMMA GraphStays == GraphInv /\ [PlotNext]_plotVars => GraphInv'
<1> SUFFICES ASSUME GraphInv, [PlotNext]_plotVars PROVE GraphInv'
  OBVIOUS
<1>1. CASE UNCHANGED plotVars
  BY <1>1 DEF plotVars, GraphInv, PlotShown, OverlayKept
<1>2. ASSUME NEW value \in 0..MaxSample, UpdateGraph(value) PROVE GraphInv'
  BY <1>2, GraphUpdated
<1>3. ASSUME NEW item \in 0..Samples, PointerNear(item) PROVE GraphInv'
  BY <1>3, GraphPointed
<1>4. ASSUME NEW p \in redrawTimeouts, DrawOverlay(p) PROVE GraphInv'
  BY <1>4, GraphRedrawn
<1>5. QED
  BY <1>1, <1>2, <1>3, <1>4 DEF PlotNext

LEMMA GraphInvHolds == GraphInv => GraphHolds
<1> SUFFICES ASSUME GraphInv PROVE GraphHolds
  OBVIOUS
<1>1. AxisFits(yaxis, graphInfo)
  BY PointsShown
<1>2. \A s, t \in textShown : s[1] = t[1] => s = t
  <2>1. textShown = Draw(yaxis, xaxis)
    BY DEF GraphInv, PlotShown
  <2>2. QED
    BY <2>1, TextsOnce
<1>3. {yaxis.min, yaxis.max} \subseteq yaxis.ticks
  BY <1>1 DEF AxisFits
<1>4. /\ \A i \in 1..Samples : yaxis.min <= graphInfo[i] * Scale /\ graphInfo[i] * Scale <= yaxis.max
      /\ yaxis.min < 0 => \A i \in 1..Samples : graphInfo[i] = 0
  BY <1>1 DEF AxisFits
<1>5. /\ overlayShows = highlighted \/ plotNo \in redrawTimeouts
      /\ redrawTimeouts \subseteq {plotNo} /\ hoverTip = highlighted
  BY DEF GraphInv, OverlayKept
<1>6. QED
  BY <1>2, <1>3, <1>4, <1>5 DEF GraphHolds

\* Whatever the values, the graph shows all of them between two ticks, and below
\* zero only when all are zero; and the overlay shows the point under the pointer or
\* is about to, whatever plots replace each other and timers come late.
THEOREM GraphShowsValues == PlotSpec => []GraphHolds
<1>1. PlotInit => GraphInv
  BY GraphStarts
<1>2. GraphInv /\ [PlotNext]_plotVars => GraphInv'
  BY GraphStays
<1>3. GraphInv => GraphHolds
  BY GraphInvHolds
<1>. QED
  BY <1>1, <1>2, <1>3, PTL DEF PlotSpec

-----------------------------------------------------------------------------
(* The types of jQuery and of the graphs, with the bounds.                  *)

LEMMA AjaxTypes == AjaxSpec => []AjaxTypeOK
<1>1. AjaxInv => AjaxTypeOK
  <2> SUFFICES ASSUME AjaxInv PROVE AjaxTypeOK
    OBVIOUS
  <2>1. Live \subseteq Counted /\ Counted \subseteq Ajax
    BY DEF Live, Counted
  <2>2. IsFiniteSet(Counted) /\ IsFiniteSet(Live) /\ Cardinality(Counted) <= Cardinality(Ajax)
    BY <2>1, AjaxAssumption, FS_Subset
  <2>3. Cardinality(Live) \in Nat /\ Cardinality(Counted) \in Nat /\ Cardinality(Ajax) \in Nat
    BY <2>2, AjaxAssumption, FS_CardinalityType
  <2>4. active \in 0..Cardinality(Ajax)
    BY <2>2, <2>3 DEF AjaxInv, AjaxShape, ActiveFits
  <2>5. \A r \in Ajax : jqXHR[r].state \in {1, 2, Unmade}
    BY DEF AjaxInv, AjaxShape, AjaxRecord
  <2>6. \A i \in DOMAIN doneStack : doneStack[i] \in DoneCall
    BY DEF AjaxInv, AjaxShape
  <2>. QED
    BY <2>4, <2>5, <2>6 DEF AjaxTypeOK, AjaxInv, AjaxShape, DoneCall
<1>. QED
  BY <1>1, AjaxInvariant, PTL

\* What is added and notified is within the bounds; what a list holds was added.
AddedFits == (\A l \in Lists : addedTo[l] <= MaxAdded) /\ notified <= MaxNotified

LEMMA AddedBounded == DeferredSpec => [](DeferredInv /\ AddedFits)
<1>1. DeferredInit => AddedFits
  BY DeferredAssumption DEF DeferredInit, AddedFits
<1>2. DeferredInv /\ AddedFits /\ [DeferredNext]_deferredVars => AddedFits'
  <2> SUFFICES ASSUME DeferredInv, AddedFits, [DeferredNext]_deferredVars PROVE AddedFits'
    OBVIOUS
  <2>1. addedTo \in [Lists -> Nat] /\ notified \in Nat
    BY DEF DeferredInv, DeferredShape
  <2>2. ASSUME NEW l \in Lists, Add(l) PROVE AddedFits'
    <3>1. addedTo[l] < MaxAdded /\ addedTo' = [addedTo EXCEPT ![l] = @ + 1] /\ notified' = notified
      BY <2>2 DEF Add
    <3>. QED
      BY <2>1, <3>1, DeferredAssumption DEF AddedFits
  <2>3. CASE Notify
    <3>1. notified < MaxNotified /\ notified' = notified + 1 /\ addedTo' = addedTo
      BY <2>3 DEF Notify
    <3>. QED
      BY <2>1, <3>1, DeferredAssumption DEF AddedFits
  <2>4. CASE (\E l \in Settling : Settle(l)) \/ CallNext \/ CallbackReturns \/ CallbackThrows \/ LoopEnds
    BY <2>4 DEF Settle, CallNext, CallbackReturns, CallbackThrows, LoopEnds, AddedFits
  <2>5. CASE UNCHANGED deferredVars
    BY <2>5 DEF deferredVars, AddedFits
  <2>. QED
    BY <2>2, <2>3, <2>4, <2>5 DEF DeferredNext
<1>. QED
  BY <1>1, <1>2, DeferredInvariant, PTL DEF DeferredSpec

\* The loop of a list that is fired is within it; that of one that is not keeps
\* the numbers it had.
SizeKept(c, d) == d.firing \/ (d.index = c.index /\ d.length = c.length)

LEMMA OnlySizes ==
  ASSUME NEW c \in ListRecord
  PROVE  /\ SizeKept(c, c) /\ SizeKept(c, Disabled(c)) /\ SizeKept(c, Locked(c))
         /\ SizeKept(c, AfterLoop([c EXCEPT !.firing = FALSE]))
<1>1. SizeKept(c, Disabled(c))
  BY DEF SizeKept, Disabled, ListRecord
<1>2. SizeKept(c, Locked(c))
  <2>1. SizeKept(c, [c EXCEPT !.repeats = FALSE, !.stack = <<>>])
    BY DEF SizeKept, ListRecord
  <2>. QED
    BY <1>1, <2>1 DEF Locked
<1>3. PICK d \in ListRecord : d = [c EXCEPT !.firing = FALSE]
  BY DEF ListRecord
<1>4. d.index = c.index /\ d.length = c.length
  BY <1>3 DEF ListRecord
<1>5. AfterLoop(d) = d \/ AfterLoop(d) = [d EXCEPT !.list = <<>>] \/ AfterLoop(d) = Disabled(d)
  BY DEF AfterLoop, ListRecord
<1>6. SizeKept(d, d) /\ SizeKept(d, [d EXCEPT !.list = <<>>])
  BY DEF SizeKept, ListRecord
<1>7. SizeKept(d, Disabled(d))
  BY DEF SizeKept, Disabled, ListRecord
<1>8. SizeKept(d, AfterLoop(d))
  BY <1>5, <1>6, <1>7
<1>9. SizeKept(c, AfterLoop(d))
  BY <1>4, <1>8 DEF SizeKept
<1>. QED
  BY <1>1, <1>2, <1>3, <1>9 DEF SizeKept

LEMMA FiresKeepsSize == ASSUME NEW c \in ListRecord, NEW v \in Nat PROVE SizeKept(c, StartFire(c, v))
  BY FromRecord, FireIs DEF SizeKept

LEMMA SizesKept ==
  ASSUME DeferredInv, [DeferredNext]_deferredVars, NEW x \in Lists
  PROVE  SizeKept(lists[x], lists'[x])
<1>1. /\ lists \in [Lists -> ListRecord] /\ addedTo \in [Lists -> Nat] /\ notified \in Nat
      /\ lists[x] \in ListRecord /\ SizeKept(lists[x], lists[x])
  BY OnlySizes DEF DeferredInv, DeferredShape
<1>2. ASSUME NEW l \in Lists, NEW d, lists' = [lists EXCEPT ![l] = d], SizeKept(lists[l], d)
      PROVE  SizeKept(lists[x], lists'[x])
  BY <1>1, <1>2
<1>3. ASSUME NEW l \in Lists, Add(l) PROVE SizeKept(lists[x], lists'[x])
  <2>1. PICK c \in ListRecord : c = lists[l]
    BY <1>1
  <2>2. PICK list1 \in Seq(Nat) : list1 = Append(c.list, addedTo[l] + 1)
    <3>1. addedTo[l] + 1 \in Nat /\ c.list \in Seq(Nat)
      BY <1>1 DEF ListRecord
    <3>. QED
      BY <3>1, Pushed
  <2>3. PICK more \in ListRecord : more = [c EXCEPT !.list = list1]
    BY DEF ListRecord
  <2>4. more.firing = c.firing /\ more.index = c.index /\ more.length = c.length /\ c.memory \in Nat
    BY <2>3 DEF ListRecord
  <2>5. PICK len \in Nat : len = Len(more.list)
    BY <2>3, LenProperties DEF ListRecord
  <2>6. PICK start \in Nat : start = Len(c.list)
    BY LenProperties DEF ListRecord
  <2>7. PICK from \in ListFrom : from = [more EXCEPT !.start = start]
    BY FromRecord DEF ListFrom
  <2>8. \/ UNCHANGED lists
        \/ c.firing /\ lists' = [lists EXCEPT ![l] = [more EXCEPT !.length = len]]
        \/ lists' = [lists EXCEPT ![l] = more]
        \/ lists' = [lists EXCEPT ![l] = StartFire(from, c.memory)]
    BY <1>3, <2>1, <2>2, <2>3, <2>5, <2>6, <2>7 DEF Add
  <2>9. c.firing => SizeKept(c, [more EXCEPT !.length = len])
    <3>1. [more EXCEPT !.length = len].firing = more.firing
      BY DEF ListRecord
    <3>. QED
      BY <2>4, <3>1 DEF SizeKept
  <2>10. SizeKept(c, more)
    BY <2>4 DEF SizeKept
  <2>11. SizeKept(c, StartFire(from, c.memory))
    BY <2>4, FireIs DEF SizeKept
  <2>. QED
    BY <1>1, <1>2, <2>1, <2>8, <2>9, <2>10, <2>11
<1>4. ASSUME NEW l \in Settling, Settle(l) PROVE SizeKept(lists[x], lists'[x])
  <2>1. CASE UNCHANGED lists
    BY <1>1, <2>1
  <2>2. CASE lists' = [lists EXCEPT ![l] = StartFire(@, 1), ![OtherList(l)] = Disabled(@), !["progress"] = Locked(@)]
    <3>1. /\ l \in Lists /\ OtherList(l) \in Lists /\ "progress" \in Lists
          /\ l # OtherList(l) /\ l # "progress" /\ OtherList(l) # "progress"
      BY DEF OtherList, Settling, Lists
    <3>2. /\ lists'[l] = StartFire(lists[l], 1) /\ lists'[OtherList(l)] = Disabled(lists[OtherList(l)])
          /\ lists'["progress"] = Locked(lists["progress"])
      BY <1>1, <2>2, <3>1
    <3>3. x = l \/ x = OtherList(l) \/ x = "progress"
      BY DEF OtherList, Settling, Lists
    <3>4. 1 \in Nat
      OBVIOUS
    <3>. QED
      BY <1>1, <3>2, <3>3, <3>4, OnlySizes, FiresKeepsSize
  <2>. QED
    BY <1>4, <2>1, <2>2 DEF Settle
<1>5. CASE Notify
  <2>1. PICK c \in ListRecord : c = lists["progress"] /\ "progress" \in Lists
    BY <1>1 DEF Lists
  <2>2. PICK last \in Nat : last = notified + 1
    BY <1>1
  <2>3. CASE UNCHANGED lists
    BY <1>1, <2>3
  <2>4. CASE lists' = [lists EXCEPT !["progress"].stack = Append(@, last)]
    <3>1. PICK stack1 : stack1 = Append(c.stack, last)
      OBVIOUS
    <3>2. lists' = [lists EXCEPT !["progress"] = [c EXCEPT !.stack = stack1]]
      BY <1>1, <2>1, <2>4, <3>1
    <3>3. SizeKept(c, [c EXCEPT !.stack = stack1])
      BY DEF SizeKept, ListRecord
    <3>. QED
      BY <1>2, <2>1, <3>2, <3>3
  <2>5. CASE lists' = [lists EXCEPT !["progress"] = StartFire(@, last)]
    <3>1. lists' = [lists EXCEPT !["progress"] = StartFire(c, last)]
      BY <1>1, <2>1, <2>5
    <3>. QED
      BY <1>2, <2>1, <3>1, FiresKeepsSize
  <2>. QED
    BY <1>5, <2>2, <2>3, <2>4, <2>5 DEF Notify
<1>6. CASE CallbackReturns
  <2>1. firings # <<>> /\ Innermost.called /\ lists' = [lists EXCEPT ![Innermost.list].index = @ + 1]
    BY <1>6 DEF CallbackReturns
  <2>2. PICK l \in Lists : l = Innermost.list
    BY <2>1, TopFiring
  <2>3. lists[l].firing
    BY <2>1, <2>2, AtTop
  <2>4. PICK c \in ListRecord : c = lists[l]
    BY <1>1
  <2>5. PICK n : n = c.index + 1
    OBVIOUS
  <2>6. lists' = [lists EXCEPT ![l] = [c EXCEPT !.index = n]]
    BY <1>1, <2>1, <2>2, <2>4, <2>5
  <2>7. SizeKept(c, [c EXCEPT !.index = n])
    BY <2>3, <2>4 DEF SizeKept, ListRecord
  <2>. QED
    BY <1>2, <2>4, <2>6, <2>7
<1>7. CASE LoopEnds
  <2>1. firings # <<>>
    BY <1>7 DEF LoopEnds, PageCode
  <2>2. PICK l \in Lists : l = Innermost.list
    BY <2>1, TopFiring
  <2>3. PICK c \in ListRecord : c = lists[l]
    BY <1>1
  <2>4. CASE c.stack = <<>>
    <3>1. lists' = [lists EXCEPT ![l] = AfterLoop([c EXCEPT !.firing = FALSE])]
      BY <1>7, <2>2, <2>3, <2>4 DEF LoopEnds
    <3>. QED
      BY <1>2, <2>3, <3>1, OnlySizes
  <2>5. CASE c.stack # <<>>
    <3>1. Head(c.stack) \in Nat /\ Tail(c.stack) \in Seq(Nat)
      BY <2>5 DEF ListRecord
    <3>2. PICK rest \in Seq(Nat) : rest = Tail(c.stack)
      BY <3>1
    <3>3. PICK d \in ListRecord : d = [c EXCEPT !.stack = rest]
      BY DEF ListRecord
    <3>4. lists' = [lists EXCEPT ![l] = StartFire(d, Head(c.stack))]
      BY <1>7, <2>2, <2>3, <2>5, <3>2, <3>3 DEF LoopEnds
    <3>5. StartFire(d, Head(c.stack)).firing
      BY <3>1, FromRecord, FireIs
    <3>. QED
      BY <1>2, <2>3, <3>4, <3>5 DEF SizeKept
  <2>. QED
    BY <2>4, <2>5
<1>8. CASE CallNext \/ CallbackThrows \/ UNCHANGED deferredVars
  BY <1>1, <1>8 DEF CallNext, CallbackThrows, deferredVars
<1>. QED
  BY <1>3, <1>4, <1>5, <1>6, <1>7, <1>8 DEF DeferredNext

SizesFit == \A l \in Lists : lists[l].index <= MaxAdded /\ lists[l].length <= MaxAdded

LEMMA DeferredTypes == DeferredSpec => []DeferredTypeOK
<1>1. DeferredInit => SizesFit
  <2> SUFFICES ASSUME DeferredInit, NEW l \in Lists PROVE lists[l].index <= MaxAdded /\ lists[l].length <= MaxAdded
    BY DEF SizesFit
  <2>1. lists[l] = NewList(l \in Settling)
    BY DEF DeferredInit
  <2>2. lists[l].index = 0 /\ lists[l].length = 0
    BY <2>1 DEF NewList
  <2>. QED
    BY <2>2, DeferredAssumption
<1>2. DeferredInv /\ SizesFit /\ (DeferredInv /\ AddedFits)' /\ [DeferredNext]_deferredVars => SizesFit'
  <2> SUFFICES ASSUME DeferredInv, SizesFit, DeferredInv', AddedFits', [DeferredNext]_deferredVars, NEW l \in Lists
               PROVE  lists'[l].index <= MaxAdded /\ lists'[l].length <= MaxAdded
    BY DEF SizesFit
  <2>1. SizeKept(lists[l], lists'[l])
    BY SizesKept
  <2>2. CASE lists'[l].firing
    <3>1. /\ lists'[l].length = Len(lists'[l].list) /\ lists'[l].index <= lists'[l].length
          /\ addedTo'[l] - Len(lists'[l].list) \in Nat /\ addedTo'[l] <= MaxAdded
      BY <2>2 DEF DeferredInv, ListHolds, Dropped, AddedFits
    <3>2. addedTo'[l] \in Nat /\ lists'[l] \in ListRecord
      BY DEF DeferredInv, DeferredShape
    <3>3. lists'[l].index \in Nat /\ lists'[l].length \in Nat
      BY <3>2 DEF ListRecord
    <3>. QED
      BY <3>1, <3>2, <3>3, DeferredAssumption
  <2>3. CASE ~lists'[l].firing
    BY <2>1, <2>3 DEF SizeKept, SizesFit
  <2>. QED
    BY <2>2, <2>3
<1>3. DeferredInv /\ AddedFits /\ SizesFit => DeferredTypeOK
  <2> SUFFICES ASSUME DeferredInv, AddedFits, SizesFit PROVE DeferredTypeOK
    OBVIOUS
  <2>1. DeferredShape
    BY DEF DeferredInv
  <2>2. addedTo \in [Lists -> 0..MaxAdded] /\ notified \in 0..MaxNotified
    BY <2>1, DeferredAssumption DEF DeferredShape, AddedFits
  <2>3. ASSUME NEW l \in Lists PROVE lists[l].index \in 0..MaxAdded /\ lists[l].length \in 0..MaxAdded
    <3>1. lists[l].index \in Nat /\ lists[l].length \in Nat
      BY <2>1 DEF DeferredShape, ListRecord
    <3>. QED
      BY <3>1, DeferredAssumption DEF SizesFit
  <2>4. \A i \in DOMAIN firings : firings[i] \in FiringRecord
    BY <2>1 DEF DeferredShape
  <2>. QED
    BY <2>1, <2>2, <2>3, <2>4 DEF DeferredTypeOK, DeferredShape, FiringRecord
<1>. QED
  BY <1>1, <1>2, <1>3, AddedBounded, PTL DEF DeferredSpec

\* The records of effects are as many as may be queued, and so what refers to them.
EffectsFit == Len(effects) <= MaxEffects /\ dequeues <= MaxEffects

LEMMA EffectsBounded == FxSpec => [](FxInv /\ EffectsFit)
<1>1. FxInit => EffectsFit
  <2>1. Len(<<>>) = 0
    OBVIOUS
  <2>. QED
    BY <2>1, FxAssumption DEF FxInit, EffectsFit
<1>2. FxInv /\ FxInv' /\ EffectsFit /\ [FxNext]_fxVars => EffectsFit'
  <2> SUFFICES ASSUME FxInv, FxInv', EffectsFit, [FxNext]_fxVars PROVE EffectsFit'
    OBVIOUS
  <2>1. effects \in Seq(FxEffects) /\ Len(effects) \in Nat /\ dequeues \in Nat /\ 1 <= MaxEffects /\ MaxEffects \in Nat
    BY FxAssumption DEF FxInv, FxShape
  <2>2. ASSUME NEW kind \in {"show", "hide", "delay"}, Queue(kind) PROVE EffectsFit'
    <3>1. /\ Len(effects) < MaxEffects /\ (dequeues' = 0 \/ dequeues' = 1)
          /\ effects' = Append(effects, [kind |-> kind, handled |-> FALSE, orig |-> "auto"])
      BY <2>2 DEF Queue
    <3>2. [kind |-> kind, handled |-> FALSE, orig |-> "auto"] \in FxEffects
      BY DEF FxEffects, Heights
    <3>3. Len(effects') = Len(effects) + 1
      BY <2>1, <3>1, <3>2, Pushed
    <3>. QED
      BY <2>1, <3>1, <3>3 DEF EffectsFit
  <2>3. CASE Dequeue
    <3>1. dequeues > 0 /\ (dequeues' = dequeues - 1 \/ dequeues' = dequeues)
      BY <2>3 DEF Dequeue
    <3>2. Len(effects') = Len(effects)
      <4>1. \/ effects' = effects
            \/ effects' = [effects EXCEPT ![Head(Waiting)] = FxPrefiltered(Head(Waiting)).effect]
        BY <2>3 DEF Dequeue
      <4>2. PICK e, p : e = Head(Waiting) /\ p = FxPrefiltered(e).effect
        OBVIOUS
      <4>3. CASE effects' = [effects EXCEPT ![e] = p]
        <5>1. DOMAIN effects' = 1..Len(effects)
          BY <2>1, <4>3
        <5>2. effects' \in Seq(FxEffects)
          BY DEF FxInv, FxShape
        <5>. QED
          BY <2>1, <5>1, <5>2, LenProperties
      <4>. QED
        BY <4>1, <4>2, <4>3
    <3>. QED
      BY <2>1, <3>1, <3>2 DEF EffectsFit
  <2>4. ASSUME effects' = effects, dequeues' = dequeues \/ dequeues' = 0 \/ dequeues' = 1 PROVE EffectsFit'
    BY <2>1, <2>4 DEF EffectsFit
  <2>5. ASSUME NEW e \in fxTimers, Tick(e) PROVE EffectsFit'
    <3>1. effects' = effects /\ (dequeues' = dequeues \/ dequeues' = 1)
      BY <2>5 DEF Tick
    <3>. QED
      BY <2>4, <3>1
  <2>6. ASSUME NEW e \in delays, DelayEnds(e) PROVE EffectsFit'
    BY <2>4, <2>6 DEF DelayEnds
  <2>7. ASSUME NEW clearQueue \in BOOLEAN, NEW gotoEnd \in BOOLEAN, Stop(clearQueue, gotoEnd) PROVE EffectsFit'
    <3>1. effects' = effects /\ (dequeues' = Cardinality(fxTimers) \/ dequeues' = 1)
      BY <2>7 DEF Stop
    <3>2. Cardinality(fxTimers) <= Len(effects) /\ Cardinality(fxTimers) \in Nat
      <4>1. fxTimers \subseteq 1..Len(effects)
        BY DEF FxInv, FxShape, EffectNumbers
      <4>2. IsFiniteSet(1..Len(effects)) /\ Cardinality(1..Len(effects)) = Len(effects)
        <5>1. 1 \in Int /\ Len(effects) \in Int
          BY <2>1
        <5>2. /\ IsFiniteSet(1..Len(effects))
              /\ Cardinality(1..Len(effects)) = IF 1 > Len(effects) THEN 0 ELSE Len(effects) - 1 + 1
          BY <5>1, FS_Interval
        <5>. QED
          BY <2>1, <5>2
      <4>. QED
        BY <4>1, <4>2, FS_Subset, FS_CardinalityType
    <3>. QED
      BY <2>1, <3>1, <3>2 DEF EffectsFit
  <2>8. CASE ClearQueue \/ Promise
    BY <2>4, <2>8 DEF ClearQueue, Promise
  <2>9. CASE Finish
    BY <2>4, <2>9 DEF Finish
  <2>10. CASE UNCHANGED fxVars
    BY <2>4, <2>10 DEF fxVars
  <2>. QED
    BY <2>2, <2>3, <2>5, <2>6, <2>7, <2>8, <2>9, <2>10 DEF FxNext
<1>. QED
  BY <1>1, <1>2, EffectsKept, PTL DEF FxSpec

LEMMA FxTypes == FxSpec => []FxTypeOK
<1>1. FxInv /\ EffectsFit => FxTypeOK
  <2> SUFFICES ASSUME FxInv, EffectsFit PROVE FxTypeOK
    OBVIOUS
  <2>1. Len(effects) \in Nat /\ dequeues \in Nat /\ MaxEffects \in Nat
    BY FxAssumption DEF FxInv, FxShape
  <2>2. EffectNumbers \subseteq 1..MaxEffects /\ EffectNumbers \subseteq 0..MaxEffects /\ 0 \in 0..MaxEffects
        /\ dequeues \in 0..MaxEffects
    BY <2>1 DEF EffectsFit, EffectNumbers
  <2>3. \A i \in DOMAIN fxQueue : fxQueue[i] \in 0..MaxEffects
    BY <2>2 DEF FxInv, FxShape, Sentinel
  <2>4. box.height \in Heights
    BY DEF FxInv, FxShape, FxBoxes
  <2>. QED
    BY <2>2, <2>3, <2>4 DEF FxTypeOK, FxInv, FxShape, Heights
<1>. QED
  BY <1>1, EffectsBounded, PTL

LEMMA EventTypes == EventSpec => []EventTypeOK
<1>1. EventInit => boundCount <= MaxBound
  BY EventAssumption DEF EventInit
<1>2. EventInv /\ boundCount <= MaxBound /\ [EventNext]_eventVars => (boundCount <= MaxBound)'
  <2> SUFFICES ASSUME EventInv, boundCount <= MaxBound, [EventNext]_eventVars PROVE boundCount' <= MaxBound
    OBVIOUS
  <2>1. boundCount \in Nat /\ MaxBound \in Nat
    BY EventAssumption DEF EventInv, EventShape
  <2>2. \/ boundCount' = boundCount
        \/ boundCount < MaxBound /\ boundCount' = boundCount + 1
    BY DEF EventNext, eventVars, Off, On, Trigger, ReachElement, CallHandler, HandlerReturns, EventEnds
  <2>. QED
    BY <2>1, <2>2
<1>3. EventInv /\ boundCount <= MaxBound => EventTypeOK
  <2> SUFFICES ASSUME EventInv, boundCount <= MaxBound PROVE EventTypeOK
    OBVIOUS
  <2>1. boundCount \in 0..MaxBound
    BY EventAssumption DEF EventInv, EventShape
  <2>2. \A i \in DOMAIN eventStack : eventStack[i] \in Dispatched
    BY DEF EventInv, EventShape
  <2>. QED
    BY <2>1, <2>2 DEF EventTypeOK, EventInv, DelegatesInFront, InFrontAt, Dispatched
<1>. QED
  BY <1>1, <1>2, <1>3, HandlersKept, PTL DEF EventSpec

LEMMA DataTypesKept == DataSpec => []DataTypeOK
<1>1. DataInv => DataTypeOK
  <2> SUFFICES ASSUME DataInv PROVE DataTypeOK
    OBVIOUS
  <2>1. Store \in Stores /\ Store.expando = expando /\ Store.cache = cache
    BY DEF DataInv, DataOf, Store, GoodStore
  <2>2. expando \in [PageElements -> Ids \union {0}] /\ cache \in [Ids -> Entry]
    BY <2>1 DEF Stores
  <2>. QED
    BY <2>2 DEF DataTypeOK, DataInv, Entry, DataTypes
<1>. QED
  BY <1>1, DataStarts, DataStep, PTL DEF DataSpec

LEMMA PlotTypes == PlotSpec => []PlotTypeOK
<1>1. GraphInv => PlotTypeOK
  BY DEF GraphInv, PlotShown, OverlayKept, PlotTypeOK
<1>. QED
  BY <1>1, GraphStarts, GraphStays, PTL DEF PlotSpec
=============================================================================
