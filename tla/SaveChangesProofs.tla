-------------------------- MODULE SaveChangesProofs --------------------------
(***************************************************************************)
(* Proofs about saving and revoking, for any modules, dependencies and     *)
(* post-saves, any number of global-action processes, edits and faults: no *)
(* mark is lost but in the gaps that FlagLost names, and a save that ends  *)
(* well has regenerated what it was asked for.                             *)
(***************************************************************************)
EXTENDS SaveChanges, TLAPS, FiniteSetTheorems, SequenceTheorems

-----------------------------------------------------------------------------
(* The post-save list.                                                     *)

\* A finite set of modules can be put in a sequence.
LEMMA SetToSeqIsSeq ==
  ASSUME NEW S \in SUBSET Module
  PROVE  SetToSeq(S) \in Seq(Module)
<1>1. IsFiniteSet(S)
  BY FewModules, FS_Subset
<1>2. Cardinality(S) \in Nat /\ ExistsBijection(1..Cardinality(S), S)
  BY <1>1, FS_CardinalityType
<1>3. PICK f \in [1..Cardinality(S) -> S] : IsInjective(f)
  BY <1>2 DEF ExistsBijection, Bijection, Injection
<1>4. SetToSeq(S) \in [1..Cardinality(S) -> S]
  BY <1>3 DEF SetToSeq
<1>5. SetToSeq(S) \in [1..Cardinality(S) -> Module]
  BY <1>4
<1>6. QED
  BY <1>2, <1>5, SeqDef

LEMMA AppendedIsSeq ==
  ASSUME NEW s \in Seq(Module), NEW ms \in SUBSET Module
  PROVE  Appended(s, ms) \in Seq(Module)
  BY SetToSeqIsSeq, ConcatProperties DEF Appended

LEMMA ModifiedAreModules ==
  ASSUME changed \subseteq Module
  PROVE  Modified \subseteq Module
  BY ModulesNamed DEF Modified, RevDepends

-----------------------------------------------------------------------------
(* Types.  A process that works on a module has one in hand.               *)

InHand(p) == p.at \in {"locked", "copied", "regenerated", "revoked"} => p.cur \in Module
AllInHand == \A a \in Action : InHand(act[a])

\* Any step changes at most one process.
LEMMA ProcessStep ==
  ASSUME TypeOK, AllInHand, NEW a \in Action, NEW p \in Process, InHand(p), Go(a, p)
  PROVE  act' \in [Action -> Process] /\ AllInHand'
<1>1. act' \in [Action -> Process] /\ \A b \in Action : act'[b] = IF b = a THEN p ELSE act[b]
  BY DEF TypeOK, Go
<1>2. QED
  BY <1>1 DEF AllInHand, InHand

LEMMA RestedIsProcess ==
  ASSUME NEW where \in Places
  PROVE  Rested(where) \in Process /\ (where \in Resting => InHand(Rested(where)))
  BY DEF Rested, Process, InHand, Resting

LEMMA TryLockTypes ==
  ASSUME TypeOK, AllInHand, NEW a \in Action, NEW m \in Module, NEW loop \in {"main", "post"},
         NEW work \in SUBSET Module, TryLock(a, m, loop, work), post' \in Seq(Module)
  PROVE  (TypeOK /\ AllInHand)'
<1>1. act[a] \in Process
  BY DEF TypeOK
<1>2. act' \in [Action -> Process] /\ AllInHand'
  <2>1. CASE LockedBySomeone(m)
    <3> DEFINE p == [act[a] EXCEPT !.at = loop, !.in = loop, !.work = work, !.failed = TRUE]
    <3>1. p \in Process /\ InHand(p)
      BY <1>1 DEF Process, Places, InHand
    <3>2. QED
      BY <2>1, <3>1, ProcessStep DEF TryLock
  <2>2. CASE ~LockedBySomeone(m)
    <3> DEFINE p == [act[a] EXCEPT !.at = "locked", !.in = loop, !.work = work, !.cur = m]
    <3>1. p \in Process /\ InHand(p)
      BY <1>1 DEF Process, Places, InHand
    <3>2. QED
      BY <2>2, <3>1, ProcessStep DEF TryLock
  <2>3. QED
    BY <2>1, <2>2
<1>3. QED
  BY <1>2 DEF TypeOK, TryLock

LEMMA EditTypes ==
  ASSUME TypeOK, AllInHand, Edit
  PROVE  (TypeOK /\ AllInHand)'
<1>1. ASSUME NEW m \in Module, Written(m)
      PROVE  /\ conf' \in [Module -> 0..MaxEdits] /\ edits' \in 0..MaxEdits
             /\ unflagged' \subseteq Module /\ AllInHand'
             /\ UNCHANGED <<ro, post, act, faults>>
  BY <1>1, Bounds DEF Written, TypeOK, AllInHand
<1>2. CASE \E m \in Module : WebEdit(m)
  BY <1>1, <1>2 DEF WebEdit, TypeOK
<1>3. CASE \E m \in Module : DaemonSet(m)
  BY <1>1, <1>3 DEF DaemonSet, TypeOK
<1>4. CASE DaemonChange
  BY <1>4 DEF DaemonChange, TypeOK, AllInHand
<1>5. CASE DaemonDies
  BY <1>5, Bounds DEF DaemonDies, TypeOK, AllInHand
<1>6. QED
  BY <1>2, <1>3, <1>4, <1>5 DEF Edit

LEMMA SaveTypes ==
  ASSUME TypeOK, AllInHand, NEW a \in Action, SaveAll(a) \/ SaveStep(a)
  PROVE  (TypeOK /\ AllInHand)'
<1>1. act[a] \in Process /\ InHand(act[a])
  BY DEF TypeOK, AllInHand
<1>2. CASE SaveAll(a)
  <2> DEFINE toSave == {m \in Module : ({m} \union Depends[m]) \intersect changed # {}}
             p == [Rested("others") EXCEPT !.work = Modified, !.others = Module \ Modified,
                                           !.goal = toSave \ (Unconfigured \ {WebAdmin})]
  <2>1. p \in Process /\ InHand(p)
    BY ModifiedAreModules DEF TypeOK, Rested, Process, Places, InHand
  <2>2. Go(a, p) /\ UNCHANGED <<conf, ro, changed, post, daemon, edits, faults, unflagged>>
    BY <1>2 DEF SaveAll
  <2> HIDE DEF p
  <2>3. QED
    BY <2>1, <2>2, ProcessStep DEF TypeOK
<1>3. CASE StartLoop(a)
  <2>1. [act[a] EXCEPT !.at = "main"] \in Process /\ InHand([act[a] EXCEPT !.at = "main"])
    BY <1>1 DEF Process, Places, InHand
  <2>2. QED
    BY <1>3, <2>1, ProcessStep DEF StartLoop, TypeOK
<1>4. CASE Copy(a)
  <2>1. [act[a] EXCEPT !.at = "copied"] \in Process /\ InHand([act[a] EXCEPT !.at = "copied"])
    BY <1>1, <1>4 DEF Process, Places, InHand, Copy, At
  <2>2. act[a].cur \in Module
    BY <1>1, <1>4 DEF Copy, At, InHand
  <2>3. QED
    BY <1>4, <2>1, <2>2, ProcessStep DEF Copy, TypeOK
<1>5. CASE Regenerate(a)
  <2> DEFINE p == [act[a] EXCEPT !.at = "regenerated", !.goal = act[a].goal \ {act[a].cur}]
  <2>1. p \in Process /\ InHand(p)
    BY <1>1, <1>5 DEF Process, Places, InHand, Regenerate, At
  <2>2. post' \in Seq(Module)
    BY <1>1, <1>5, Relations, AppendedIsSeq DEF Regenerate, At, InHand, TypeOK
  <2>3. QED
    BY <1>5, <2>1, <2>2, ProcessStep DEF Regenerate, TypeOK
<1>6. CASE Restarted(a)
  <2> DEFINE p == [act[a] EXCEPT !.at = act[a].in, !.cur = None]
  <2>1. p \in Process /\ InHand(p)
    BY <1>1 DEF Process, Places, InHand
  <2>2. changed' \subseteq Module
    BY <1>6 DEF Restarted, TypeOK
  <2>3. Modified' \subseteq Module
    BY <2>2, ModulesNamed DEF Modified, RevDepends
  <2>4. post' \in Seq(Module)
    BY <1>6, <2>3, AppendedIsSeq DEF Restarted, TypeOK
  <2>5. QED
    BY <1>6, <2>1, <2>2, <2>4, ProcessStep DEF Restarted, TypeOK
<1>7. CASE RegenerateFails(a)
  <2> DEFINE p == [act[a] EXCEPT !.at = act[a].in, !.cur = None, !.failed = TRUE]
  <2>1. p \in Process /\ InHand(p)
    BY <1>1 DEF Process, Places, InHand
  <2>2. Rested("failed") \in Process /\ InHand(Rested("failed"))
    BY RestedIsProcess DEF Places, Resting
  <2>3. act' \in [Action -> Process] /\ AllInHand'
    BY <1>7, <2>1, <2>2, ProcessStep DEF RegenerateFails
  <2>4. QED
    BY <1>7, <2>3, Bounds DEF RegenerateFails, TypeOK
<1>8. CASE StartPost(a)
  <2> DEFINE p == [act[a] EXCEPT !.at = "post", !.in = "post"]
  <2>1. p \in Process /\ InHand(p)
    BY <1>1 DEF Process, Places, InHand
  <2>2. QED
    BY <1>8, <2>1, ProcessStep DEF StartPost, TypeOK
<1>9. CASE PostSave(a)
  <2>1. Head(post) \in Module /\ post' \in Seq(Module)
    BY <1>9, HeadTailProperties DEF PostSave, TypeOK
  <2>2. QED
    BY <1>9, <2>1, TryLockTypes DEF PostSave
<1>10. CASE PostLoopEnds(a)
  <2>1. [act[a] EXCEPT !.at = "unsetting"] \in Process /\ InHand([act[a] EXCEPT !.at = "unsetting"])
    BY <1>1 DEF Process, Places, InHand
  <2>2. QED
    BY <1>10, <2>1, ProcessStep DEF PostLoopEnds, TypeOK
<1>11. CASE Report(a)
  <2>1. [act[a] EXCEPT !.at = "asserting"] \in Process /\ InHand([act[a] EXCEPT !.at = "asserting"])
    BY <1>1 DEF Process, Places, InHand
  <2>2. Rested("failed") \in Process /\ InHand(Rested("failed"))
    BY RestedIsProcess DEF Places, Resting
  <2>3. act' \in [Action -> Process] /\ AllInHand'
    BY <1>11, <2>1, <2>2, ProcessStep DEF Report
  <2>4. post' \in Seq(Module)
    BY <1>11, EmptySeq DEF Report
  <2>5. QED
    BY <1>11, <2>3, <2>4 DEF Report, TypeOK
<1>12. CASE AssertNotChanges(a)
  <2> DEFINE to == IF Modified = {} THEN "ok" ELSE "unsaved"
             p == [Rested(to) EXCEPT !.goal = act[a].goal]
  <2>1. p \in Process /\ InHand(p)
    BY <1>1 DEF Rested, Process, Places, Resting, InHand
  <2>2. Go(a, p) /\ UNCHANGED <<conf, ro, changed, post, daemon, edits, faults, unflagged>>
    BY <1>12 DEF AssertNotChanges
  <2> HIDE DEF p
  <2>3. QED
    BY <2>1, <2>2, ProcessStep DEF TypeOK
<1>13. ASSUME NEW m \in Module, SaveOther(a, m)
       PROVE  (TypeOK /\ AllInHand)'
  <2> DEFINE p == [act[a] EXCEPT !.others = act[a].others \ {m}]
  <2>1. p \in Process /\ InHand(p)
    BY <1>1 DEF Process, InHand
  <2>2. QED
    BY <1>13, <2>1, ProcessStep DEF SaveOther, TypeOK
<1>14. ASSUME NEW m \in Module, SkipUnconfigured(a, m)
       PROVE  (TypeOK /\ AllInHand)'
  <2> DEFINE p == [act[a] EXCEPT !.work = act[a].work \ {m}]
  <2>1. p \in Process /\ InHand(p)
    BY <1>1 DEF Process, InHand
  <2>2. QED
    BY <1>14, <2>1, ProcessStep DEF SkipUnconfigured, TypeOK
<1>15. ASSUME NEW m \in Module, SaveNext(a, m)
       PROVE  (TypeOK /\ AllInHand)'
  <2>1. act[a].work \ {m} \in SUBSET Module /\ post' \in Seq(Module)
    BY <1>1, <1>15 DEF SaveNext, Process, TypeOK
  <2>2. QED
    BY <1>15, <2>1, TryLockTypes DEF SaveNext
<1>16. QED
  BY <1>2, <1>3, <1>4, <1>5, <1>6, <1>7, <1>8, <1>9, <1>10, <1>11, <1>12, <1>13, <1>14, <1>15
  DEF SaveStep

LEMMA RevokeTypes ==
  ASSUME TypeOK, AllInHand, NEW a \in Action, RevokeAll(a) \/ RevokeStep(a) \/ Dies(a)
  PROVE  (TypeOK /\ AllInHand)'
<1>1. act[a] \in Process /\ InHand(act[a])
  BY DEF TypeOK, AllInHand
<1>2. CASE RevokeAll(a)
  <2> DEFINE p == [Rested("revoking") EXCEPT !.work = Module]
  <2>1. p \in Process /\ InHand(p)
    BY DEF Rested, Process, Places, InHand
  <2>2. QED
    BY <1>2, <2>1, ProcessStep DEF RevokeAll, TypeOK
<1>3. ASSUME NEW m \in Module, Unmark(a, m)
      PROVE  (TypeOK /\ AllInHand)'
  <2> DEFINE p == [act[a] EXCEPT !.at = "revoked", !.cur = m, !.work = act[a].work \ {m}]
             q == [act[a] EXCEPT !.work = act[a].work \ {m}]
  <2>1. p \in Process /\ InHand(p) /\ q \in Process /\ InHand(q)
    BY <1>1 DEF Process, Places, InHand
  <2>2. Go(a, p) \/ Go(a, q)
    BY <1>3 DEF Unmark
  <2>3. act' \in [Action -> Process] /\ AllInHand'
    BY <2>1, <2>2, ProcessStep
  <2>4. QED
    BY <1>3, <2>3 DEF Unmark, TypeOK
<1>4. CASE CopyBack(a)
  <2> DEFINE p == [act[a] EXCEPT !.at = "revoking", !.cur = None]
  <2>1. p \in Process /\ InHand(p) /\ act[a].cur \in Module
    BY <1>1, <1>4 DEF Process, Places, InHand, CopyBack, At
  <2>2. QED
    BY <1>4, <2>1, ProcessStep DEF CopyBack, TypeOK
<1>5. CASE RevokeEnds(a)
  <2> DEFINE to == IF Modified = {} THEN "ok" ELSE "unsaved"
  <2>1. Rested(to) \in Process /\ InHand(Rested(to))
    BY RestedIsProcess DEF Places, Resting
  <2>2. QED
    BY <1>5, <2>1, ProcessStep DEF RevokeEnds, TypeOK
<1>6. CASE Dies(a)
  <2>1. Rested("failed") \in Process /\ InHand(Rested("failed"))
    BY RestedIsProcess DEF Places, Resting
  <2>2. act' \in [Action -> Process] /\ AllInHand'
    BY <1>6, <2>1, ProcessStep DEF Dies
  <2>3. unflagged' \subseteq Module
    BY <1>1, <1>6 DEF Dies, At, InHand, TypeOK
  <2>4. QED
    BY <1>6, <2>2, <2>3, Bounds DEF Dies, TypeOK
<1>7. QED
  BY <1>2, <1>3, <1>4, <1>5, <1>6 DEF RevokeStep

LEMMA TypeStep == TypeOK /\ AllInHand /\ [Next]_vars => (TypeOK /\ AllInHand)'
<1>1. CASE UNCHANGED vars
  BY <1>1 DEF vars, TypeOK, AllInHand
<1>2. QED
  BY <1>1, EditTypes, SaveTypes, RevokeTypes DEF Next

LEMMA TypesHold == Spec => [](TypeOK /\ AllInHand)
<1>1. Init => TypeOK /\ AllInHand
  <2>1. Rested("idle") \in Process /\ InHand(Rested("idle"))
    BY RestedIsProcess DEF Places, Resting
  <2>2. QED
    BY <2>1, Bounds, EmptySeq DEF Init, TypeOK, AllInHand
<1>2. QED
  BY <1>1, TypeStep, PTL DEF Spec

\* The type invariant (TypeOK).
THEOREM SaveTypeCorrect == Spec => []TypeOK
  BY TypesHold, PTL

-----------------------------------------------------------------------------
(* Marks.  What makes FlagLost inductive: an edit made between the copy of *)
(* a module and its modRestarted() is noted while the process is still     *)
(* there, and a daemon that believes the mark is set need not write it.    *)

CopiedEdits == \A m \in Module : Saving(m) /\ conf[m] # ro[m] => m \in unflagged

MarkKept == \A m \in Module : (conf[m] # ro[m] /\ m \notin changed) =>
                m \in unflagged \/ (Unmarked(m) /\ ~daemon.cached) \/ Revoking(m)

MarkInv == TypeOK /\ AllInHand /\ CopiedEdits /\ MarkKept

\* A process moves on without a copy or an edit: whatever it was saving or
\* revoking stays so, or is accounted for.
LEMMA MovesOn ==
  ASSUME TypeOK, NEW a \in Action, NEW p \in Process, Go(a, p), CopiedEdits, MarkKept,
         UNCHANGED <<conf, ro, daemon, unflagged>>,
         p.at \in {"copied", "regenerated"} => p.cur = act[a].cur /\ At(a, {"copied", "regenerated"}),
         act[a].at = "revoked" => p.at = "revoked" /\ p.cur = act[a].cur,
         \A m \in changed \ changed' : conf[m] # ro[m] =>
             m \in unflagged \/ (p.at = "revoked" /\ p.cur = m)
  PROVE  (CopiedEdits /\ MarkKept)'
<1>1. \A b \in Action : act'[b] = IF b = a THEN p ELSE act[b]
  BY DEF TypeOK, Go
<1>2. \A m \in Module : Saving(m)' => Saving(m)
  BY <1>1 DEF Saving, At
<1>3. CopiedEdits'
  BY <1>2 DEF CopiedEdits
<1>4. \A m \in Module : Revoking(m) => Revoking(m)'
  BY <1>1 DEF Revoking, At
<1>5. \A m \in Module : p.at = "revoked" /\ p.cur = m => Revoking(m)'
  BY <1>1 DEF Revoking, At
<1>6. QED
  BY <1>3, <1>4, <1>5 DEF MarkKept, Unmarked

\* A copy of one module, in either direction, sets it right.
LEMMA CopyKeepsMarks ==
  ASSUME TypeOK, NEW a \in Action, NEW p \in Process, Go(a, p), CopiedEdits, MarkKept,
         NEW m \in Module, conf'[m] = ro'[m], unflagged' = unflagged \ {m},
         \A n \in Module \ {m} : conf'[n] = conf[n] /\ ro'[n] = ro[n],
         UNCHANGED <<changed, daemon>>,
         p.at \in {"copied", "regenerated"} => p.cur = m,
         act[a].at = "revoked" => act[a].cur = m
  PROVE  (CopiedEdits /\ MarkKept)'
<1>1. \A b \in Action : act'[b] = IF b = a THEN p ELSE act[b]
  BY DEF TypeOK, Go
<1>2. \A n \in Module \ {m} : Saving(n)' => Saving(n)
  BY <1>1 DEF Saving, At
<1>3. CopiedEdits'
  BY <1>2 DEF CopiedEdits
<1>4. \A n \in Module \ {m} : Revoking(n) => Revoking(n)'
  BY <1>1 DEF Revoking, At
<1>5. QED
  BY <1>3, <1>4 DEF MarkKept, Unmarked

LEMMA WrittenMarks ==
  ASSUME MarkInv, NEW m \in Module, Written(m)
  PROVE  /\ CopiedEdits'
         /\ \A n \in Module \ {m} : conf'[n] = conf[n] /\ (n \in unflagged' <=> n \in unflagged)
         /\ UNCHANGED <<ro, act>>
<1>1. \A n \in Module \ {m} : conf'[n] = conf[n] /\ (n \in unflagged' <=> n \in unflagged)
  BY DEF Written, MarkInv, TypeOK
<1>2. UNCHANGED <<ro, act>> /\ (Saving(m) => m \in unflagged')
  BY DEF Written
<1>3. \A n \in Module : Saving(n)' <=> Saving(n)
  BY <1>2 DEF Saving, At
<1>4. QED
  BY <1>1, <1>2, <1>3 DEF CopiedEdits, MarkInv

LEMMA EditMarks == ASSUME MarkInv, Edit PROVE (CopiedEdits /\ MarkKept)'
<1>1. ASSUME NEW m \in Module, WebEdit(m) PROVE (CopiedEdits /\ MarkKept)'
  <2>1. Written(m) /\ changed' = changed \union {m} /\ UNCHANGED daemon
    BY <1>1 DEF WebEdit
  <2>2. \A n \in Module : (Revoking(n)' <=> Revoking(n)) /\ (Unmarked(n)' <=> Unmarked(n))
    BY <2>1, WrittenMarks DEF Revoking, At, Unmarked
  <2>3. QED
    BY <2>1, <2>2, WrittenMarks DEF MarkInv, MarkKept
<1>2. ASSUME NEW m \in Module, DaemonSet(m) PROVE (CopiedEdits /\ MarkKept)'
  <2>1. daemon = None /\ Written(m) /\ UNCHANGED changed
    BY <1>2 DEF DaemonSet
  <2>2. PICK cached \in BOOLEAN : /\ cached => m \in changed
                                  /\ daemon' = [module |-> m, cached |-> cached]
    BY <1>2 DEF DaemonSet
  <2>3. \A n \in Module : (Revoking(n)' <=> Revoking(n)) /\ ~Unmarked(n)
    BY <2>1, WrittenMarks DEF Revoking, At, Unmarked
  <2>4. daemon' # None
    BY <2>2, ModulesNamed
  <2>5. m \notin changed => Unmarked(m)' /\ ~daemon'.cached
    BY <2>2, <2>4 DEF Unmarked
  <2>6. QED
    BY <2>1, <2>3, <2>5, WrittenMarks DEF MarkInv, MarkKept
<1>3. CASE DaemonChange
  <2>1. UNCHANGED <<conf, ro, act, unflagged>> /\ changed \subseteq changed'
    BY <1>3 DEF DaemonChange
  <2>2. ~daemon.cached => daemon.module \in changed'
    BY <1>3 DEF DaemonChange
  <2>3. \A n \in Module : (Revoking(n)' <=> Revoking(n)) /\ (Saving(n)' <=> Saving(n))
    BY <2>1 DEF Revoking, Saving, At
  <2>4. QED
    BY <2>1, <2>2, <2>3 DEF MarkInv, MarkKept, CopiedEdits, Unmarked
<1>4. CASE DaemonDies
  <2>1. UNCHANGED <<conf, ro, act, changed>> /\ unflagged' = unflagged \union {daemon.module}
    BY <1>4 DEF DaemonDies
  <2>2. \A n \in Module : (Revoking(n)' <=> Revoking(n)) /\ (Saving(n)' <=> Saving(n))
    BY <2>1 DEF Revoking, Saving, At
  <2>3. QED
    BY <2>1, <2>2 DEF MarkInv, MarkKept, CopiedEdits, Unmarked
<1>5. QED
  BY <1>1, <1>2, <1>3, <1>4 DEF Edit

LEMMA TryLockMarks ==
  ASSUME MarkInv, NEW a \in Action, NEW m \in Module, NEW loop \in {"main", "post"},
         NEW work \in SUBSET Module, At(a, {"main", "post"}), TryLock(a, m, loop, work)
  PROVE  (CopiedEdits /\ MarkKept)'
<1>1. act[a] \in Process /\ act[a].at \in {"main", "post"} /\ UNCHANGED <<conf, ro, changed, daemon, unflagged>>
  BY DEF MarkInv, TypeOK, TryLock, At
<1>2. CASE LockedBySomeone(m)
  <2> DEFINE p == [act[a] EXCEPT !.at = loop, !.in = loop, !.work = work, !.failed = TRUE]
  <2>1. p \in Process /\ p.at = loop
    BY <1>1 DEF Process, Places
  <2>2. Go(a, p)
    BY <1>2 DEF TryLock
  <2> HIDE DEF p
  <2>3. QED
    BY <1>1, <2>1, <2>2, MovesOn DEF MarkInv
<1>3. CASE ~LockedBySomeone(m)
  <2> DEFINE p == [act[a] EXCEPT !.at = "locked", !.in = loop, !.work = work, !.cur = m]
  <2>1. p \in Process /\ p.at = "locked"
    BY <1>1 DEF Process, Places
  <2>2. Go(a, p)
    BY <1>3 DEF TryLock
  <2> HIDE DEF p
  <2>3. QED
    BY <1>1, <2>1, <2>2, MovesOn DEF MarkInv
<1>4. QED
  BY <1>2, <1>3

LEMMA SaveMarks ==
  ASSUME MarkInv, NEW a \in Action, SaveAll(a) \/ SaveStep(a)
  PROVE  (CopiedEdits /\ MarkKept)'
<1>1. TypeOK /\ CopiedEdits /\ MarkKept /\ act[a] \in Process /\ InHand(act[a])
  BY DEF MarkInv, TypeOK, AllInHand
<1>2. CASE SaveAll(a)
  <2> DEFINE toSave == {m \in Module : ({m} \union Depends[m]) \intersect changed # {}}
             p == [Rested("others") EXCEPT !.work = Modified, !.others = Module \ Modified,
                                           !.goal = toSave \ (Unconfigured \ {WebAdmin})]
  <2>1. p \in Process /\ p.at = "others"
    BY <1>1, ModifiedAreModules DEF TypeOK, Rested, Process, Places
  <2>2. Go(a, p) /\ UNCHANGED <<conf, ro, changed, daemon, unflagged>> /\ At(a, Resting)
    BY <1>2 DEF SaveAll
  <2> HIDE DEF p
  <2>3. QED
    BY <1>1, <2>1, <2>2, MovesOn DEF At, Resting
<1>3. CASE StartLoop(a)
  <2>1. [act[a] EXCEPT !.at = "main"] \in Process /\ [act[a] EXCEPT !.at = "main"].at = "main"
    BY <1>1 DEF Process, Places
  <2>2. QED
    BY <1>1, <1>3, <2>1, MovesOn DEF StartLoop, At
<1>4. CASE Copy(a)
  <2> DEFINE p == [act[a] EXCEPT !.at = "copied"]
             m == act[a].cur
  <2>1. p \in Process /\ p.cur = m /\ m \in Module /\ act[a].at = "locked"
    BY <1>1, <1>4 DEF Process, Places, InHand, Copy, At
  <2>2. conf'[m] = ro'[m] /\ unflagged' = unflagged \ {m}
    BY <1>4, <2>1 DEF Copy, MarkInv, TypeOK
  <2>3. \A n \in Module \ {m} : conf'[n] = conf[n] /\ ro'[n] = ro[n]
    BY <1>4, <2>1 DEF Copy, MarkInv, TypeOK
  <2>4. Go(a, p) /\ UNCHANGED <<changed, daemon>>
    BY <1>4 DEF Copy
  <2>5. p.at = "copied"
    BY <1>1 DEF Process
  <2> HIDE DEF p
  <2>6. QED
    BY <1>1, <2>1, <2>2, <2>3, <2>4, <2>5, CopyKeepsMarks
<1>5. CASE Regenerate(a)
  <2> DEFINE p == [act[a] EXCEPT !.at = "regenerated", !.goal = act[a].goal \ {act[a].cur}]
  <2>1. p \in Process /\ p.at = "regenerated" /\ p.cur = act[a].cur /\ act[a].at = "copied"
    BY <1>1, <1>5 DEF Process, Places, Regenerate, At
  <2>2. Go(a, p) /\ UNCHANGED <<conf, ro, changed, daemon, unflagged>>
    BY <1>5 DEF Regenerate
  <2> HIDE DEF p
  <2>3. QED
    BY <1>1, <2>1, <2>2, MovesOn DEF At
<1>6. ASSUME act[a].at \in {"copied", "regenerated"}, changed' = changed \ {act[a].cur},
             UNCHANGED <<conf, ro, daemon, unflagged>>,
             NEW p \in Process, Go(a, p), p.at \in {"main", "post", "failed"}
      PROVE  (CopiedEdits /\ MarkKept)'
  <2>1. act[a].cur \in Module /\ Saving(act[a].cur)
    BY <1>1, <1>6 DEF InHand, Saving, At
  <2>2. \A m \in changed \ changed' : conf[m] # ro[m] => m \in unflagged
    BY <1>1, <1>6, <2>1 DEF CopiedEdits
  <2>3. QED
    BY <1>1, <1>6, <2>2, MovesOn
<1>7. CASE Restarted(a)
  <2> DEFINE p == [act[a] EXCEPT !.at = act[a].in, !.cur = None]
  <2>1. p \in Process /\ p.at \in {"main", "post", "failed"}
    BY <1>1 DEF Process, Places
  <2>2. QED
    BY <1>6, <1>7, <2>1 DEF Restarted, At
<1>8. CASE RegenerateFails(a)
  <2> DEFINE p == [act[a] EXCEPT !.at = act[a].in, !.cur = None, !.failed = TRUE]
  <2>1. p \in Process /\ p.at \in {"main", "post", "failed"}
    BY <1>1 DEF Process, Places
  <2>2. Rested("failed") \in Process /\ Rested("failed").at = "failed"
    BY RestedIsProcess DEF Places, Resting, Rested
  <2>3. QED
    BY <1>6, <1>8, <2>1, <2>2 DEF RegenerateFails, At
<1>9. CASE StartPost(a)
  <2> DEFINE p == [act[a] EXCEPT !.at = "post", !.in = "post"]
  <2>1. p \in Process /\ p.at = "post"
    BY <1>1 DEF Process, Places
  <2>2. Go(a, p) /\ UNCHANGED <<conf, ro, changed, daemon, unflagged>> /\ act[a].at = "main"
    BY <1>9 DEF StartPost, At
  <2> HIDE DEF p
  <2>3. QED
    BY <1>1, <2>1, <2>2, MovesOn
<1>10. CASE PostSave(a)
  <2>1. Head(post) \in Module
    BY <1>1, <1>10, HeadTailProperties DEF PostSave, TypeOK
  <2>2. QED
    BY <1>10, <2>1, TryLockMarks DEF PostSave, At
<1>11. CASE PostLoopEnds(a)
  <2>1. [act[a] EXCEPT !.at = "unsetting"] \in Process /\ [act[a] EXCEPT !.at = "unsetting"].at = "unsetting"
    BY <1>1 DEF Process, Places
  <2>2. QED
    BY <1>1, <1>11, <2>1, MovesOn DEF PostLoopEnds, At
<1>12. CASE Report(a)
  <2>1. [act[a] EXCEPT !.at = "asserting"] \in Process /\ [act[a] EXCEPT !.at = "asserting"].at = "asserting"
    BY <1>1 DEF Process, Places
  <2>2. Rested("failed") \in Process /\ Rested("failed").at = "failed"
    BY RestedIsProcess DEF Places, Resting, Rested
  <2>3. QED
    BY <1>1, <1>12, <2>1, <2>2, MovesOn DEF Report, At
<1>13. CASE AssertNotChanges(a)
  <2> DEFINE to == IF Modified = {} THEN "ok" ELSE "unsaved"
             p == [Rested(to) EXCEPT !.goal = act[a].goal]
  <2>1. p \in Process /\ p.at \in {"ok", "unsaved"}
    BY <1>1 DEF Rested, Process, Places, Resting
  <2>2. Go(a, p) /\ UNCHANGED <<conf, ro, changed, daemon, unflagged>> /\ act[a].at = "asserting"
    BY <1>13 DEF AssertNotChanges, At
  <2> HIDE DEF p
  <2>3. QED
    BY <1>1, <2>1, <2>2, MovesOn
<1>14. ASSUME NEW m \in Module, SaveOther(a, m)
       PROVE  (CopiedEdits /\ MarkKept)'
  <2> DEFINE p == [act[a] EXCEPT !.others = act[a].others \ {m}]
  <2>1. p \in Process /\ p.at = "others" /\ act[a].at = "others"
    BY <1>1, <1>14 DEF Process, Places, SaveOther, At
  <2>2. conf'[m] = ro'[m] /\ unflagged' = unflagged \ {m}
    BY <1>14 DEF SaveOther, MarkInv, TypeOK
  <2>3. \A n \in Module \ {m} : conf'[n] = conf[n] /\ ro'[n] = ro[n]
    BY <1>14 DEF SaveOther, MarkInv, TypeOK
  <2>4. Go(a, p) /\ UNCHANGED <<changed, daemon>>
    BY <1>14 DEF SaveOther
  <2> HIDE DEF p
  <2>5. QED
    BY <1>1, <2>1, <2>2, <2>3, <2>4, CopyKeepsMarks
<1>15. ASSUME NEW m \in Module, SkipUnconfigured(a, m)
       PROVE  (CopiedEdits /\ MarkKept)'
  <2> DEFINE p == [act[a] EXCEPT !.work = act[a].work \ {m}]
  <2>1. \A b \in Action : act'[b].at = act[b].at /\ act'[b].cur = act[b].cur
    BY <1>1, <1>15 DEF SkipUnconfigured, Go, MarkInv, TypeOK, Process
  <2>2. \A n \in Module : (Saving(n)' <=> Saving(n)) /\ (Revoking(n)' <=> Revoking(n))
    BY <2>1 DEF Saving, Revoking, At
  <2>3. UNCHANGED <<conf, ro, daemon>> /\ changed' = changed \ {m} /\ unflagged \subseteq unflagged'
    BY <1>15 DEF SkipUnconfigured
  <2>4. conf[m] # ro[m] => m \in unflagged'
    BY <1>15 DEF SkipUnconfigured
  <2>5. QED
    BY <1>1, <2>2, <2>3, <2>4 DEF CopiedEdits, MarkKept, Unmarked
<1>16. ASSUME NEW m \in Module, SaveNext(a, m)
       PROVE  (CopiedEdits /\ MarkKept)'
  <2>1. act[a].work \ {m} \in SUBSET Module
    BY <1>1 DEF Process
  <2>2. QED
    BY <1>16, <2>1, TryLockMarks DEF SaveNext, At
<1>17. QED
  BY <1>2, <1>3, <1>4, <1>5, <1>7, <1>8, <1>9, <1>10, <1>11, <1>12, <1>13, <1>14, <1>15, <1>16
  DEF SaveStep

LEMMA RevokeMarks ==
  ASSUME MarkInv, NEW a \in Action, RevokeAll(a) \/ RevokeStep(a) \/ Dies(a)
  PROVE  (CopiedEdits /\ MarkKept)'
<1>1. TypeOK /\ CopiedEdits /\ MarkKept /\ act[a] \in Process /\ InHand(act[a])
  BY DEF MarkInv, TypeOK, AllInHand
<1>2. CASE RevokeAll(a)
  <2> DEFINE p == [Rested("revoking") EXCEPT !.work = Module]
  <2>1. p \in Process /\ p.at = "revoking"
    BY DEF Rested, Process, Places
  <2>2. Go(a, p) /\ UNCHANGED <<conf, ro, changed, daemon, unflagged>> /\ At(a, Resting)
    BY <1>2 DEF RevokeAll
  <2> HIDE DEF p
  <2>3. QED
    BY <1>1, <2>1, <2>2, MovesOn DEF At, Resting
<1>3. ASSUME NEW m \in Module, Unmark(a, m)
      PROVE  (CopiedEdits /\ MarkKept)'
  <2> DEFINE p == [act[a] EXCEPT !.at = "revoked", !.cur = m, !.work = act[a].work \ {m}]
             q == [act[a] EXCEPT !.work = act[a].work \ {m}]
  <2>1. /\ p \in Process /\ p.at = "revoked" /\ p.cur = m
        /\ q \in Process /\ q.at = "revoking" /\ act[a].at = "revoking"
    BY <1>1, <1>3 DEF Process, Places, Unmark, At
  <2>2. /\ UNCHANGED <<conf, ro, daemon, unflagged>> /\ changed' = changed \ {m}
        /\ IF m \in changed THEN Go(a, p) ELSE Go(a, q)
    BY <1>3 DEF Unmark
  <2> HIDE DEF p, q
  <2>3. CASE m \in changed
    BY <1>1, <2>1, <2>2, <2>3, MovesOn
  <2>4. CASE m \notin changed
    BY <1>1, <2>1, <2>2, <2>4, MovesOn
  <2>5. QED
    BY <2>3, <2>4
<1>4. CASE CopyBack(a)
  <2> DEFINE p == [act[a] EXCEPT !.at = "revoking", !.cur = None]
             m == act[a].cur
  <2>1. p \in Process /\ p.at = "revoking" /\ m \in Module
    BY <1>1, <1>4 DEF Process, Places, InHand, CopyBack, At
  <2>2. conf'[m] = ro'[m] /\ unflagged' = unflagged \ {m}
    BY <1>4, <2>1 DEF CopyBack, MarkInv, TypeOK
  <2>3. \A n \in Module \ {m} : conf'[n] = conf[n] /\ ro'[n] = ro[n]
    BY <1>4, <2>1 DEF CopyBack, MarkInv, TypeOK
  <2>4. Go(a, p) /\ UNCHANGED <<changed, daemon>>
    BY <1>4 DEF CopyBack
  <2> HIDE DEF p
  <2>5. QED
    BY <1>1, <2>1, <2>2, <2>3, <2>4, CopyKeepsMarks
<1>5. CASE RevokeEnds(a)
  <2> DEFINE to == IF Modified = {} THEN "ok" ELSE "unsaved"
  <2>1. Rested(to) \in Process /\ Rested(to).at \in {"ok", "unsaved"}
    BY RestedIsProcess DEF Places, Resting, Rested
  <2>2. Go(a, Rested(to)) /\ UNCHANGED <<conf, ro, changed, daemon, unflagged>> /\ act[a].at = "revoking"
    BY <1>5 DEF RevokeEnds, At
  <2>3. QED
    BY <1>1, <2>1, <2>2, MovesOn
<1>6. CASE Dies(a)
  <2>1. \A b \in Action : b # a => act'[b] = act[b]
    BY <1>6 DEF Dies, Go, MarkInv, TypeOK
  <2>2. act'[a].at = "failed"
    BY <1>6 DEF Dies, Go, MarkInv, TypeOK, Rested
  <2>3. \A n \in Module : Saving(n)' => Saving(n)
    BY <2>1, <2>2 DEF Saving, At
  <2>4. UNCHANGED <<conf, ro, daemon, changed>> /\ unflagged \subseteq unflagged'
    BY <1>6 DEF Dies
  <2>5. \A n \in Module \ changed : Revoking(n) => Revoking(n)' \/ n \in unflagged'
    <3>1. TAKE n \in Module \ changed
    <3>2. HAVE Revoking(n)
    <3>3. PICK b \in Action : At(b, {"revoked"}) /\ act[b].cur = n
      BY <3>2 DEF Revoking
    <3>4. CASE b = a
      BY <1>6, <3>3, <3>4 DEF Dies
    <3>5. CASE b # a
      BY <2>1, <3>3, <3>5 DEF Revoking, At
    <3>6. QED
      BY <3>4, <3>5
  <2>6. QED
    BY <1>1, <2>3, <2>4, <2>5 DEF CopiedEdits, MarkKept, Unmarked
<1>7. QED
  BY <1>2, <1>3, <1>4, <1>5, <1>6 DEF RevokeStep

LEMMA MarkInvariant == Spec => []MarkInv
<1>1. Init => MarkInv
  <2>1. Rested("idle") \in Process /\ InHand(Rested("idle")) /\ Rested("idle").at = "idle"
    BY RestedIsProcess DEF Places, Resting, Rested
  <2>2. Init => TypeOK /\ AllInHand
    BY <2>1, Bounds, EmptySeq DEF Init, TypeOK, AllInHand
  <2>3. Init => \A m \in Module : conf[m] = ro[m]
    BY DEF Init
  <2>4. QED
    BY <2>2, <2>3 DEF MarkInv, CopiedEdits, MarkKept
<1>2. MarkInv /\ [Next]_vars => MarkInv'
  <2>1. CASE UNCHANGED vars
    BY <2>1, TypeStep DEF vars, MarkInv, CopiedEdits, MarkKept, Saving, Revoking, Unmarked, At
  <2>2. QED
    BY <2>1, TypeStep, EditMarks, SaveMarks, RevokeMarks DEF MarkInv, Next
<1>3. QED
  BY <1>1, <1>2, PTL DEF Spec

\* A module whose edited configuration is not the saved one is marked as changed
\* but in the gaps that FlagLost names, whatever saves, revocations, edits and
\* deaths interleave.
THEOREM MarksKept == Spec => []FlagLost
<1>1. MarkInv => FlagLost
  BY DEF MarkInv, MarkKept, FlagLost
<1>2. QED
  BY <1>1, MarkInvariant, PTL

-----------------------------------------------------------------------------
(* Success.  What is still to be saved is in the list of the loop or in    *)
(* hand, for as long as nothing has failed; the post-save loop starts with *)
(* an empty list, and the outcome is reported only if nothing has failed.  *)

SavePlaces == Places \ (Resting \union {"revoking", "revoked"})

StillToSave(p) == p.work \union (IF p.at \in {"locked", "copied"} THEN {p.cur} ELSE {})

GoalKept(p) ==
    /\ p.at \in SavePlaces /\ ~p.failed => p.goal \subseteq StillToSave(p)
    /\ p.at \in SavePlaces => p.goal \subseteq Module \ (Unconfigured \ {WebAdmin})
    /\ /\ p.at \in SavePlaces
       /\ p.in = "post" \/ p.at \in {"post", "unsetting", "asserting"}
       => p.work = {}
    /\ p.at = "asserting" => ~p.failed
    /\ p.at \in {"ok", "revoking", "revoked"} => p.goal = {}

GoalsKept == \A a \in Action : GoalKept(act[a])

GoalInv == TypeOK /\ AllInHand /\ GoalsKept

LEMMA GoalStep ==
  ASSUME GoalInv, NEW a \in Action, NEW p, GoalKept(p), Go(a, p)
  PROVE  GoalsKept'
  BY DEF GoalInv, TypeOK, Go, GoalsKept, GoalKept, StillToSave

LEMMA RestedGoal ==
  ASSUME NEW where \in Resting \union {"revoking"}
  PROVE  GoalKept(Rested(where))
  BY DEF Resting, Rested, GoalKept, SavePlaces, Places

LEMMA TryLockGoal ==
  ASSUME GoalInv, NEW a \in Action, NEW m \in Module, NEW loop \in {"main", "post"},
         TryLock(a, m, loop, act[a].work \ {m}), act[a].at = loop
  PROVE  GoalsKept'
<1>1. act[a] \in Process /\ GoalKept(act[a]) /\ act[a].at \in SavePlaces
  BY DEF GoalInv, TypeOK, GoalsKept, SavePlaces, Places, Resting
<1>2. CASE LockedBySomeone(m)
  <2> DEFINE p == [act[a] EXCEPT !.at = loop, !.in = loop, !.work = act[a].work \ {m}, !.failed = TRUE]
  <2>1. GoalKept(p)
    BY <1>1 DEF GoalKept, SavePlaces, StillToSave, Places, Resting, Process
  <2>2. QED
    BY <1>2, <2>1, GoalStep DEF TryLock
<1>3. CASE ~LockedBySomeone(m)
  <2> DEFINE p == [act[a] EXCEPT !.at = "locked", !.in = loop, !.work = act[a].work \ {m}, !.cur = m]
  <2>1. GoalKept(p)
    BY <1>1 DEF GoalKept, SavePlaces, StillToSave, Places, Resting, Process
  <2>2. QED
    BY <1>3, <2>1, GoalStep DEF TryLock
<1>4. QED
  BY <1>2, <1>3

\* What must be saved is in the list that saveAllModules draws up.
LEMMA SaveAllGoal == ASSUME GoalInv, NEW a \in Action, SaveAll(a) PROVE GoalsKept'
<1> DEFINE toSave == {m \in Module : ({m} \union Depends[m]) \intersect changed # {}}
           p == [Rested("others") EXCEPT !.work = Modified, !.others = Module \ Modified,
                                         !.goal = toSave \ (Unconfigured \ {WebAdmin})]
<1>1. toSave \subseteq Modified
  <2>1. SUFFICES ASSUME NEW m \in toSave PROVE m \in Modified
    OBVIOUS
  <2>2. PICK n \in {m} \union Depends[m] : n \in changed
    BY <2>1
  <2>3. n = m \/ m \in RevDepends(n)
    BY <2>1, <2>2 DEF RevDepends
  <2>4. QED
    BY <2>2, <2>3 DEF Modified
<1>2. /\ p.at = "others" /\ p.in = "main" /\ p.work = Modified
      /\ p.goal = toSave \ (Unconfigured \ {WebAdmin})
  BY DEF Rested
<1>3. GoalKept(p)
  <2> HIDE DEF p
  <2>1. QED
    BY <1>1, <1>2 DEF GoalKept, StillToSave
<1>4. QED
  BY <1>3, GoalStep DEF SaveAll

LEMMA SaveStepGoal == ASSUME GoalInv, NEW a \in Action, SaveStep(a) PROVE GoalsKept'
<1>1. act[a] \in Process /\ GoalKept(act[a]) /\ InHand(act[a])
  BY DEF GoalInv, TypeOK, GoalsKept, AllInHand
<1>0. Rested("failed") \in Process /\ GoalKept(Rested("failed"))
  BY RestedIsProcess, RestedGoal DEF Resting, Places
<1>2. CASE StartLoop(a)
  <2>1. GoalKept([act[a] EXCEPT !.at = "main"])
    BY <1>1, <1>2 DEF GoalKept, SavePlaces, StillToSave, Places, Resting, Process, StartLoop, At
  <2>2. QED
    BY <1>2, <2>1, GoalStep DEF StartLoop
<1>3. CASE Copy(a)
  <2>1. GoalKept([act[a] EXCEPT !.at = "copied"])
    BY <1>1, <1>3 DEF GoalKept, SavePlaces, StillToSave, Places, Resting, Process, Copy, At
  <2>2. QED
    BY <1>3, <2>1, GoalStep DEF Copy
<1>4. CASE Regenerate(a)
  <2>1. GoalKept([act[a] EXCEPT !.at = "regenerated", !.goal = act[a].goal \ {act[a].cur}])
    BY <1>1, <1>4 DEF GoalKept, SavePlaces, StillToSave, Places, Resting, Process, Regenerate, At
  <2>2. QED
    BY <1>4, <2>1, GoalStep DEF Regenerate
<1>5. CASE Restarted(a)
  <2>1. GoalKept([act[a] EXCEPT !.at = act[a].in, !.cur = None])
    BY <1>1, <1>5 DEF GoalKept, SavePlaces, StillToSave, Places, Resting, Process, Restarted, At
  <2>2. QED
    BY <1>5, <2>1, GoalStep DEF Restarted
<1>6. CASE RegenerateFails(a)
  <2>1. GoalKept([act[a] EXCEPT !.at = act[a].in, !.cur = None, !.failed = TRUE])
    BY <1>1, <1>6 DEF GoalKept, SavePlaces, StillToSave, Places, Resting, Process, RegenerateFails, At
  <2>2. QED
    BY <1>6, <1>0, <2>1, GoalStep DEF RegenerateFails
<1>7. CASE StartPost(a)
  <2>1. GoalKept([act[a] EXCEPT !.at = "post", !.in = "post"])
    BY <1>1, <1>7 DEF GoalKept, SavePlaces, StillToSave, Places, Resting, Process, StartPost, At
  <2>2. QED
    BY <1>7, <2>1, GoalStep DEF StartPost
<1>8. CASE PostSave(a)
  <2>1. act[a].at = "post" /\ act[a].work = {}
    BY <1>1, <1>8 DEF PostSave, At, GoalKept, SavePlaces, Places, Resting
  <2>2. Head(post) \in Module /\ act[a].work \ {Head(post)} = {}
    BY <1>8, <2>1, HeadTailProperties DEF PostSave, GoalInv, TypeOK
  <2>3. TryLock(a, Head(post), "post", act[a].work \ {Head(post)})
    BY <1>8, <2>2 DEF PostSave
  <2>4. QED
    BY <2>1, <2>2, <2>3, TryLockGoal
<1>9. CASE PostLoopEnds(a)
  <2>1. GoalKept([act[a] EXCEPT !.at = "unsetting"])
    BY <1>1, <1>9 DEF GoalKept, SavePlaces, StillToSave, Places, Resting, Process, PostLoopEnds, At
  <2>2. QED
    BY <1>9, <2>1, GoalStep DEF PostLoopEnds
<1>10. CASE Report(a)
  <2>1. ~act[a].failed => GoalKept([act[a] EXCEPT !.at = "asserting"])
    BY <1>1, <1>10 DEF GoalKept, SavePlaces, StillToSave, Places, Resting, Process, Report, At
  <2>2. QED
    BY <1>10, <1>0, <2>1, GoalStep DEF Report
<1>11. CASE AssertNotChanges(a)
  <2> DEFINE to == IF Modified = {} THEN "ok" ELSE "unsaved"
             p == [Rested(to) EXCEPT !.goal = act[a].goal]
  <2>1. act[a].goal = {}
    BY <1>1, <1>11 DEF GoalKept, SavePlaces, StillToSave, Places, Resting, AssertNotChanges, At
  <2>2. p.at \in {"ok", "unsaved"} /\ p.goal = {}
    BY <2>1 DEF Rested
  <2>3. GoalKept(p)
    <3> HIDE DEF p
    <3>1. QED
      BY <2>2 DEF GoalKept, SavePlaces, Resting
  <2>4. QED
    BY <1>11, <2>3, GoalStep DEF AssertNotChanges
<1>12. ASSUME NEW m \in Module, SaveOther(a, m) PROVE GoalsKept'
  <2>1. GoalKept([act[a] EXCEPT !.others = act[a].others \ {m}])
    BY <1>1, <1>12 DEF GoalKept, SavePlaces, StillToSave, Places, Resting, Process, SaveOther, At
  <2>2. QED
    BY <1>12, <2>1, GoalStep DEF SaveOther
<1>13. ASSUME NEW m \in Module, SkipUnconfigured(a, m) PROVE GoalsKept'
  <2>1. m \notin act[a].goal
    BY <1>1, <1>13 DEF SkipUnconfigured, At, GoalKept, SavePlaces, Places, Resting
  <2>2. GoalKept([act[a] EXCEPT !.work = act[a].work \ {m}])
    BY <1>1, <1>13, <2>1
       DEF GoalKept, SavePlaces, StillToSave, Places, Resting, Process, SkipUnconfigured, At
  <2>3. QED
    BY <1>13, <2>2, GoalStep DEF SkipUnconfigured
<1>14. ASSUME NEW m \in Module, SaveNext(a, m) PROVE GoalsKept'
  <2>1. QED
    BY <1>14, TryLockGoal DEF SaveNext, At
<1>15. QED
  BY <1>2, <1>3, <1>4, <1>5, <1>6, <1>7, <1>8, <1>9, <1>10, <1>11, <1>12, <1>13, <1>14
     DEF SaveStep

LEMMA RevokeStepGoal ==
  ASSUME GoalInv, NEW a \in Action, RevokeAll(a) \/ RevokeStep(a) \/ Dies(a)
  PROVE  GoalsKept'
<1>1. act[a] \in Process /\ GoalKept(act[a])
  BY DEF GoalInv, TypeOK, GoalsKept
<1>2. CASE RevokeAll(a)
  <2> DEFINE p == [Rested("revoking") EXCEPT !.work = Module]
  <2>1. p.at = "revoking" /\ p.goal = {}
    BY DEF Rested
  <2>2. GoalKept(p)
    <3> HIDE DEF p
    <3>1. QED
      BY <2>1 DEF GoalKept, SavePlaces
  <2>3. QED
    BY <1>2, <2>2, GoalStep DEF RevokeAll
<1>3. ASSUME NEW m \in Module, Unmark(a, m) PROVE GoalsKept'
  <2>1. /\ GoalKept([act[a] EXCEPT !.at = "revoked", !.cur = m, !.work = act[a].work \ {m}])
        /\ GoalKept([act[a] EXCEPT !.work = act[a].work \ {m}])
    BY <1>1, <1>3 DEF GoalKept, SavePlaces, Process, Unmark, At
  <2>2. QED
    BY <1>3, <2>1, GoalStep DEF Unmark
<1>4. CASE CopyBack(a)
  <2>1. GoalKept([act[a] EXCEPT !.at = "revoking", !.cur = None])
    BY <1>1, <1>4 DEF GoalKept, SavePlaces, Process, CopyBack, At
  <2>2. QED
    BY <1>4, <2>1, GoalStep DEF CopyBack
<1>5. CASE RevokeEnds(a)
  <2>1. GoalKept(Rested("ok")) /\ GoalKept(Rested("unsaved"))
    BY RestedGoal DEF Resting
  <2>2. QED
    BY <1>5, <2>1, GoalStep DEF RevokeEnds
<1>6. CASE Dies(a)
  <2>1. GoalKept(Rested("failed"))
    BY RestedGoal DEF Resting
  <2>2. QED
    BY <1>6, <2>1, GoalStep DEF Dies
<1>7. QED
  BY <1>2, <1>3, <1>4, <1>5, <1>6 DEF RevokeStep

LEMMA EditGoal == ASSUME GoalInv, Edit \/ UNCHANGED vars PROVE GoalsKept'
<1>1. UNCHANGED act
  BY DEF Edit, WebEdit, DaemonSet, Written, DaemonChange, DaemonDies, vars
<1>2. QED
  BY <1>1 DEF GoalInv, GoalsKept, GoalKept, StillToSave

\* When saveAllModules ends well, what was marked when it began, and what
\* depends on it, has been regenerated since: for any dependencies, whatever
\* other saves, revocations, failures and deaths happen meanwhile.
THEOREM SuccessHolds == Spec => []SuccessMeansSaved
<1>1. Init => GoalInv
  <2>1. /\ Rested("idle") \in Process /\ InHand(Rested("idle"))
        /\ GoalKept(Rested("idle"))
    BY RestedIsProcess, RestedGoal DEF Places, Resting
  <2>2. Init => TypeOK /\ AllInHand
    BY <2>1, Bounds, EmptySeq DEF Init, TypeOK, AllInHand
  <2>3. Init => GoalsKept
    BY <2>1 DEF Init, GoalsKept
  <2>4. QED
    BY <2>2, <2>3 DEF GoalInv
<1>2. GoalInv /\ [Next]_vars => GoalInv'
  BY TypeStep, EditGoal, SaveAllGoal, SaveStepGoal, RevokeStepGoal DEF GoalInv, Next
<1>3. GoalInv => SuccessMeansSaved
  BY DEF GoalInv, GoalsKept, GoalKept, SuccessMeansSaved, At
<1>4. QED
  BY <1>1, <1>2, <1>3, PTL DEF Spec

=============================================================================
