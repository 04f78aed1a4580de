----------------------------- MODULE SaveChanges -----------------------------
(***************************************************************************)
(* Saving and revoking the changes of the modules: saveAllModules and      *)
(* revokeAllModules of EBox::GlobalImpl, save of EBox::Module::Base and    *)
(* revokeConfig, _saveConfig, set of EBox::Module::Config.                 *)
(*                                                                         *)
(* A module edits its configuration under <module>/conf, in 'conf'; saving *)
(* copies it to <module>/ro, in 'ro', and regenerates the files and        *)
(* daemons of the module.  modules/<module>/changed in the global module   *)
(* tells whether there is something to save.  Saving and revoking run in a *)
(* global-action process outside any Redis transaction, while web requests *)
(* and daemons go on editing: each copy, each change of a flag and each    *)
(* regeneration is a step.  A web request is one transaction and one step; *)
(* a daemon writes the value and the flag in two transactions.             *)
(*                                                                         *)
(* A configuration is the number of the edit that wrote it.  The order of  *)
(* the modules is any that module DependencySort may end with.             *)
(***************************************************************************)
EXTENDS Integers, Sequences, SequencesExt

CONSTANTS Action,       \* global-action processes
          Module,       \* modules with configuration
          Depends,      \* the modules each one depends on
          Firewall,     \* a module, saved whenever another one is
          WebAdmin,     \* a module, saved when the others are
          Unconfigured, \* services whose changes nobody has accepted yet
          PostSaves,    \* what regenerating a module adds to the post-save list
          None,         \* no module
          MaxEdits,     \* bound: edits of the configuration
          MaxFaults     \* bound: failures and deaths of processes

ASSUME ModulesNamed == /\ Firewall \in Module
                       /\ WebAdmin \in Module
                       /\ None \notin Module
                       /\ None \notin [module : Module, cached : BOOLEAN]
                       /\ Unconfigured \subseteq Module
ASSUME Relations == /\ Depends \in [Module -> SUBSET Module]
                    /\ PostSaves \in [Module -> SUBSET Module]
ASSUME FewModules == IsFiniteSet(Module)
ASSUME Bounds == MaxEdits \in Nat /\ MaxFaults \in Nat

VARIABLES conf,      \* configuration being edited
          ro,        \* configuration saved
          changed,   \* the modules marked as changed
          post,      \* post_save_modules
          daemon,    \* what a daemon has written but not yet marked
          act,       \* the global-action processes
          edits,     \* edits so far
          faults,    \* failures so far
          unflagged  \* history: modules that lost their mark, see FlagLost

vars == <<conf, ro, changed, post, daemon, act, edits, faults, unflagged>>

Resting == {"idle", "ok", "failed", "unsaved"}
Places == Resting \union {"others", "main", "post", "asserting", "locked",
                          "copied", "regenerated", "unsetting", "revoking",
                          "revoked"}

\* at: where the process is; in: the loop that it saves a module for; work:
\* modules of the loop; others: the rest, to be copied; cur: the module in
\* hand; failed: $failed is not empty; goal: history, what is still to be saved.
Process == [at : Places, in : {"main", "post"}, work : SUBSET Module,
            others : SUBSET Module, cur : Module \union {None},
            failed : BOOLEAN, goal : SUBSET Module]

Rested(where) == [at |-> where, in |-> "main", work |-> {}, others |-> {},
                  cur |-> None, failed |-> FALSE, goal |-> {}]

Init == /\ conf = [m \in Module |-> 0]
        /\ ro = conf
        /\ changed = {}
        /\ post = <<>>
        /\ daemon = None
        /\ act = [a \in Action |-> Rested("idle")]
        /\ edits = 0
        /\ faults = 0
        /\ unflagged = {}

Go(a, process) == act' = [act EXCEPT ![a] = process]
At(a, places) == act[a].at \in places
Busy == {a \in Action : act[a].at \notin Resting}

-----------------------------------------------------------------------------
(* Edits of the configuration.                                             *)

\* The flag of m is cleared after its configuration was copied: an edit in
\* between is neither saved nor marked.
Saving(m) == \E a \in Action : act[a].cur = m /\ At(a, {"copied", "regenerated"})

Written(m) ==
    /\ edits < MaxEdits
    /\ edits' = edits + 1
    /\ conf' = [conf EXCEPT ![m] = edits + 1]
    /\ unflagged' = IF Saving(m) THEN unflagged \union {m} ELSE unflagged \ {m}
    /\ UNCHANGED <<ro, post, act, faults>>

\* set() of a module in a web request
WebEdit(m) == /\ Written(m)
              /\ changed' = changed \union {m}
              /\ UNCHANGED daemon

\* set() of a module in a process with no transaction: _set(), then _change(),
\* which looks at the mark first, in the server or in the cache of the process.
DaemonSet(m) == /\ daemon = None
                /\ Written(m)
                /\ \E cached \in BOOLEAN :
                      /\ cached => m \in changed
                      /\ daemon' = [module |-> m, cached |-> cached]
                /\ UNCHANGED changed

DaemonChange == /\ daemon # None
                /\ changed' = IF daemon.cached THEN changed
                              ELSE changed \union {daemon.module}
                /\ daemon' = None
                /\ UNCHANGED <<conf, ro, post, act, edits, faults, unflagged>>

DaemonDies == /\ daemon # None
              /\ faults < MaxFaults
              /\ faults' = faults + 1
              /\ unflagged' = unflagged \union {daemon.module}
              /\ daemon' = None
              /\ UNCHANGED <<conf, ro, changed, post, act, edits>>

-----------------------------------------------------------------------------
(* What is to be saved.                                                    *)

RevDepends(m) == {n \in Module : m \in Depends[n]}

ModifiedUnchecked == \* mutant
    IF changed = {} THEN {} ELSE {Firewall, None} \union changed

\* modifiedModules(): what is marked, what depends on it and the firewall.
Modified ==
    IF changed = {} THEN {}
    ELSE {Firewall} \union changed \union UNION {RevDepends(m) : m \in changed}

\* The next module of the loop, webadmin when the others are done.
NextOf(work) == {m \in work : /\ Depends[m] \intersect work \subseteq {WebAdmin}
                              /\ m = WebAdmin => work = {WebAdmin}}

\* A run of saveAllModules, asked for in the web interface: the list of modules
\* is drawn up once.  What is marked then, and what depends on it, has to be
\* saved, unless it is a service that is not configured.
SaveAll(a) ==
    /\ At(a, Resting)
    /\ LET toSave == {m \in Module : ({m} \union Depends[m]) \intersect changed # {}}
       IN  Go(a, [Rested("others") EXCEPT
                    !.work = Modified, !.others = Module \ Modified,
                    !.goal = toSave \ (Unconfigured \ {WebAdmin})])
    /\ UNCHANGED <<conf, ro, changed, post, daemon, edits, faults, unflagged>>

\* _saveConfig() of a module that is not in the list, with no lock
SaveOther(a, m) ==
    /\ At(a, {"others"})
    /\ m \in act[a].others
    /\ ro' = [ro EXCEPT ![m] = conf[m]]
    /\ unflagged' = unflagged \ {m}
    /\ Go(a, [act[a] EXCEPT !.others = act[a].others \ {m}])
    /\ UNCHANGED <<conf, changed, post, daemon, edits, faults>>

StartLoop(a) ==
    /\ At(a, {"others"})
    /\ act[a].others = {}
    /\ Go(a, [act[a] EXCEPT !.at = "main"])
    /\ UNCHANGED <<conf, ro, changed, post, daemon, edits, faults, unflagged>>

\* A service that is not configured is only marked as not changed.
SkipUnconfigured(a, m) ==
    /\ At(a, {"main"})
    /\ m \in NextOf(act[a].work) \intersect Unconfigured
    /\ m # WebAdmin
    /\ changed' = changed \ {m}
    /\ unflagged' = IF conf[m] = ro[m] THEN unflagged ELSE unflagged \union {m}
    /\ Go(a, [act[a] EXCEPT !.work = act[a].work \ {m}])
    /\ UNCHANGED <<conf, ro, post, daemon, edits, faults>>

-----------------------------------------------------------------------------
(* save() of a module: _lock, _saveConfig, _regenConfig, modRestarted.     *)

LockedBySomeone(m) == \E a \in Action :
    act[a].cur = m /\ At(a, {"locked", "copied", "regenerated"})

TryLockOrSkip(a, m, loop, work) == \* mutant
    /\ IF LockedBySomeone(m)
       THEN Go(a, [act[a] EXCEPT !.at = loop, !.in = loop, !.work = work])
       ELSE Go(a, [act[a] EXCEPT !.at = "locked", !.in = loop, !.work = work,
                                 !.cur = m])
    /\ UNCHANGED <<conf, ro, changed, daemon, edits, faults, unflagged>>

\* _lock() of the module, or its exception: the module failed.
TryLock(a, m, loop, work) ==
    /\ IF LockedBySomeone(m)
       THEN Go(a, [act[a] EXCEPT !.at = loop, !.in = loop, !.work = work, !.failed = TRUE])
       ELSE Go(a, [act[a] EXCEPT !.at = "locked", !.in = loop, !.work = work, !.cur = m])
    /\ UNCHANGED <<conf, ro, changed, daemon, edits, faults, unflagged>>

SaveNext(a, m) ==
    /\ At(a, {"main"})
    /\ m \in NextOf(act[a].work)
    /\ m \in Unconfigured => m = WebAdmin
    /\ TryLock(a, m, "main", act[a].work \ {m})
    /\ UNCHANGED post

Copy(a) ==
    /\ At(a, {"locked"})
    /\ LET m == act[a].cur
       IN  /\ ro' = [ro EXCEPT ![m] = conf[m]]
           /\ unflagged' = unflagged \ {m}
    /\ Go(a, [act[a] EXCEPT !.at = "copied"])
    /\ UNCHANGED <<conf, changed, post, daemon, edits, faults>>

Appended(s, ms) == s \o SetToSeq(ms \ ToSet(s))

Regenerate(a) ==
    /\ At(a, {"copied"})
    /\ post' = Appended(post, PostSaves[act[a].cur])
    /\ Go(a, [act[a] EXCEPT !.at = "regenerated", !.goal = act[a].goal \ {act[a].cur}])
    /\ UNCHANGED <<conf, ro, changed, daemon, edits, faults, unflagged>>

RestartedAll(a) == \* mutant
    /\ At(a, {"regenerated"})
    /\ changed' = {}
    /\ Go(a, [act[a] EXCEPT !.at = act[a].in, !.cur = None])
    /\ UNCHANGED <<conf, ro, post, daemon, edits, faults, unflagged>>

\* modRestarted(), _unlock(); after a module of the post-save loop whatever is
\* marked by now is appended to its list.
Restarted(a) ==
    /\ At(a, {"regenerated"})
    /\ changed' = changed \ {act[a].cur}
    /\ Go(a, [act[a] EXCEPT !.at = act[a].in, !.cur = None])
    /\ UNCHANGED <<conf, ro, daemon, edits, faults, unflagged>>
    /\ post' = IF act[a].in = "post" THEN Appended(post, Modified') ELSE post

RegenerateFailsSilently(a) == \* mutant
    /\ At(a, {"copied"})
    /\ faults < MaxFaults
    /\ faults' = faults + 1
    /\ changed' = changed \ {act[a].cur}
    /\ Go(a, [act[a] EXCEPT !.at = act[a].in, !.cur = None])
    /\ UNCHANGED <<conf, ro, post, daemon, edits, unflagged>>

\* _regenConfig() throws: the module is marked as not changed all the same; an
\* External exception ends saveAllModules, others are noted down.
RegenerateFails(a) ==
    /\ At(a, {"copied"})
    /\ faults < MaxFaults
    /\ faults' = faults + 1
    /\ changed' = changed \ {act[a].cur}
    /\ \/ Go(a, [act[a] EXCEPT !.at = act[a].in, !.cur = None, !.failed = TRUE])
       \/ Go(a, Rested("failed"))
    /\ UNCHANGED <<conf, ro, post, daemon, edits, unflagged>>

-----------------------------------------------------------------------------
(* The end of saveAllModules.                                              *)

StartPost(a) ==
    /\ At(a, {"main"})
    /\ act[a].work = {}
    /\ Go(a, [act[a] EXCEPT !.at = "post", !.in = "post"])
    /\ UNCHANGED <<conf, ro, changed, post, daemon, edits, faults, unflagged>>

PostSavePeeks(a) == \* mutant
    /\ At(a, {"post"})
    /\ post # <<>>
    /\ UNCHANGED post
    /\ TryLock(a, Head(post), "post", {})

\* popPostSaveModule() and the save() of what it returns
PostSave(a) ==
    /\ At(a, {"post"})
    /\ post # <<>>
    /\ post' = Tail(post)
    /\ TryLock(a, Head(post), "post", {})

PostLoopEnds(a) ==
    /\ At(a, {"post"})
    /\ post = <<>>
    /\ Go(a, [act[a] EXCEPT !.at = "unsetting"])
    /\ UNCHANGED <<conf, ro, changed, post, daemon, edits, faults, unflagged>>

\* unset('post_save_modules'), with whatever was added since; then the outcome
\* is reported.
Report(a) ==
    /\ At(a, {"unsetting"})
    /\ post' = <<>>
    /\ IF act[a].failed THEN Go(a, Rested("failed"))
                        ELSE Go(a, [act[a] EXCEPT !.at = "asserting"])
    /\ UNCHANGED <<conf, ro, changed, daemon, edits, faults, unflagged>>

\* _assertNotChanges(), when the progress indicator has already said success
AssertNotChanges(a) ==
    /\ At(a, {"asserting"})
    /\ LET to == IF Modified = {} THEN "ok" ELSE "unsaved"
       IN  Go(a, [Rested(to) EXCEPT !.goal = act[a].goal])
    /\ UNCHANGED <<conf, ro, changed, post, daemon, edits, faults, unflagged>>

-----------------------------------------------------------------------------
(* revokeAllModules.                                                       *)

RevokeAll(a) ==
    /\ At(a, Resting)
    /\ Go(a, [Rested("revoking") EXCEPT !.work = Module])
    /\ UNCHANGED <<conf, ro, changed, post, daemon, edits, faults, unflagged>>

\* revokeConfig(): the mark is removed before the configuration is copied back.
Unmark(a, m) ==
    /\ At(a, {"revoking"})
    /\ m \in act[a].work
    /\ IF m \in changed
       THEN Go(a, [act[a] EXCEPT !.at = "revoked", !.cur = m, !.work = act[a].work \ {m}])
       ELSE Go(a, [act[a] EXCEPT !.work = act[a].work \ {m}])
    /\ changed' = changed \ {m}
    /\ UNCHANGED <<conf, ro, post, daemon, edits, faults, unflagged>>

CopyBack(a) ==
    /\ At(a, {"revoked"})
    /\ LET m == act[a].cur
       IN  /\ conf' = [conf EXCEPT ![m] = ro[m]]
           /\ unflagged' = unflagged \ {m}
    /\ Go(a, [act[a] EXCEPT !.at = "revoking", !.cur = None])
    /\ UNCHANGED <<ro, changed, post, daemon, edits, faults>>

RevokeEnds(a) ==
    /\ At(a, {"revoking"})
    /\ act[a].work = {}
    /\ Go(a, Rested(IF Modified = {} THEN "ok" ELSE "unsaved"))
    /\ UNCHANGED <<conf, ro, changed, post, daemon, edits, faults, unflagged>>

\* The process dies; the system releases its lock.
Dies(a) ==
    /\ a \in Busy
    /\ faults < MaxFaults
    /\ faults' = faults + 1
    /\ unflagged' = IF At(a, {"revoked"}) /\ act[a].cur \notin changed
                    THEN unflagged \union {act[a].cur} ELSE unflagged
    /\ Go(a, Rested("failed"))
    /\ UNCHANGED <<conf, ro, changed, post, daemon, edits>>
-----------------------------------------------------------------------------
SaveStep(a) == \/ StartLoop(a) \/ Copy(a) \/ Regenerate(a) \/ Restarted(a)
               \/ RegenerateFails(a) \/ StartPost(a) \/ PostSave(a)
               \/ PostLoopEnds(a) \/ Report(a) \/ AssertNotChanges(a)
               \/ \E m \in Module :
                     SaveOther(a, m) \/ SkipUnconfigured(a, m) \/ SaveNext(a, m)

RevokeStep(a) == \/ CopyBack(a) \/ RevokeEnds(a)
                 \/ \E m \in Module : Unmark(a, m)

Edit == \/ \E m \in Module : WebEdit(m) \/ DaemonSet(m)
        \/ DaemonChange \/ DaemonDies

Next == \/ Edit
        \/ \E a \in Action : \/ SaveAll(a) \/ SaveStep(a)
                             \/ RevokeAll(a) \/ RevokeStep(a) \/ Dies(a)

Spec == Init /\ [][Next]_vars

\* A global-action process runs until it ends.
FairSpec == Spec /\ \A a \in Action : WF_vars(SaveStep(a) \/ RevokeStep(a))

-----------------------------------------------------------------------------
\* Type invariant of the configurations, the marks and the processes.
TypeOK == /\ conf \in [Module -> 0..MaxEdits]
          /\ ro \in [Module -> 0..MaxEdits]
          /\ changed \subseteq Module
          /\ post \in Seq(Module)
          /\ daemon \in [module : Module, cached : BOOLEAN] \union {None}
          /\ act \in [Action -> Process]
          /\ edits \in 0..MaxEdits
          /\ faults \in 0..MaxFaults
          /\ unflagged \subseteq Module

Unmarked(m) == daemon # None /\ daemon.module = m

Revoking(m) == \E a \in Action : At(a, {"revoked"}) /\ act[a].cur = m

\* A module whose edited configuration is not the saved one is marked as
\* changed, or it is one of these: a process is between the two writes of set()
\* or of revokeConfig(), or the mark was lost (unflagged) to an edit between
\* the copy and modRestarted() of a save, to a process that died between two
\* writes or to a save of a service that is not configured.
FlagLost == \A m \in Module : (conf[m] # ro[m] /\ m \notin changed) =>
                m \in unflagged \/ Unmarked(m) \/ Revoking(m)

\* When saveAllModules ends well, every module that was marked when it began,
\* and every one that depends on such a module, has been regenerated since: a
\* module that was locked, failed or was skipped never hides behind a success.
SuccessMeansSaved == \A a \in Action : At(a, {"ok"}) => act[a].goal = {}

\* A save or a revocation ends, whatever the post-save loop adds to its list.
ActionEnds == \A a \in Action : a \in Busy ~> a \notin Busy

\* unsaved() of GlobalImpl: "Tell you if there is at least one unsaved module".
UnsavedTellsAll ==
    (Busy = {} /\ daemon = None) => ((\E m \in Module : conf[m] # ro[m]) => changed # {})
=============================================================================
