---------------------------- MODULE JQueryEffects ----------------------------
(***************************************************************************)
(* The queue of effects of one element (queue, dequeue, delay, stop,       *)
(* finish, promise) and the animations that it plays: showing and hiding   *)
(* by the height, as the menu, the widgets and the notes of the interface  *)
(* do.  One effect at a time: a sentinel at the head of the queue says that *)
(* one is playing, and its end dequeues the next one.                      *)
(***************************************************************************)
EXTENDS Naturals, FiniteSets, Sequences

CONSTANTS
    MaxEffects,   \* bound: effects queued
    MaxFxCalls    \* bound: calls of stop(), finish() and clearQueue()

ASSUME FxAssumption == MaxEffects \in Nat \ {0}

VARIABLES
    fxQueue,     \* effects that wait; Sentinel at the head while one plays
    fxHooks,     \* data of the queue: the current effect, the delay that stop()
                 \* can clear, whether a promise waits for the queue to empty
    fxTimers,    \* animations that play
    delays,      \* delays whose timeout is pending
    effects,     \* the effects queued so far, by number
    dequeues,    \* calls of dequeue() the running script still makes
    box,         \* the element: visible or not, its height, data "fxshow"
    fxCallsLeft,
    promised,    \* promise(): none, waiting or resolved
    interrupted, \* history: an animation was stopped half way
    overlooked   \* history: a queue was emptied under an effect that went on

fxVars == <<fxQueue, fxHooks, fxTimers, delays, effects, dequeues, box, fxCallsLeft,
            promised, interrupted, overlooked>>

Sentinel == 0
NoEffect == 0
NoHooks == [there |-> FALSE, cur |-> NoEffect, stop |-> NoEffect]
IsDelay(e) == effects[e].kind = "delay"

FxInit ==
    /\ fxQueue = <<>> /\ fxHooks = NoHooks /\ fxTimers = {} /\ delays = {} /\ effects = <<>>
    /\ dequeues = 0 /\ fxCallsLeft = MaxFxCalls
    /\ box = [visible |-> TRUE, height |-> "auto", fxshow |-> "none"]
    /\ promised = "none" /\ interrupted = FALSE /\ overlooked = FALSE

FxIdle == dequeues = 0
Ensured == [fxHooks EXCEPT !.there = TRUE]
Playing == fxTimers \union delays

------------------------------------------------------------------------------
\* animate({height: "show" or "hide"}), delay(): the queue starts if none plays.
Queue(kind) ==
    /\ FxIdle /\ Len(effects) < MaxEffects
    /\ effects' = Append(effects, [kind |-> kind, handled |-> FALSE, orig |-> "auto"])
    /\ fxQueue' = Append(fxQueue, Len(effects) + 1)
    /\ fxHooks' = Ensured
    /\ dequeues' = IF fxQueue # <<>> /\ Head(fxQueue) = Sentinel THEN 0 ELSE 1
    /\ UNCHANGED <<fxTimers, delays, box, fxCallsLeft, promised, interrupted, overlooked>>

Waiting == IF fxQueue # <<>> /\ Head(fxQueue) = Sentinel THEN Tail(fxQueue) ELSE fxQueue

\* hooks.empty: the data of the queue goes, the promise is resolved.
EmptyFires ==
    /\ fxQueue' = <<>> /\ fxHooks' = NoHooks
    /\ promised' = IF promised = "waiting" THEN "resolved" ELSE promised

\* defaultPrefilter(): an element already shown, or already hidden, has nothing
\* to do; else its first height is kept until an animation ends.
FxPrefiltered(e) ==
    LET handled == (effects[e].kind = "show") # box.visible
    IN  [effect |-> [effects[e] EXCEPT !.handled = handled,
                                       !.orig = IF box.fxshow = "none" THEN box.height ELSE box.fxshow],
         box |-> IF handled
                 THEN [box EXCEPT !.visible = TRUE, !.fxshow = IF @ = "none" THEN "full" ELSE @]
                 ELSE box]

\* The callbacks of an animation that comes to its end.
FxEnded(b, e) ==
    IF effects[e].handled
    THEN [visible |-> effects[e].kind = "show", height |-> effects[e].orig, fxshow |-> "none"]
    ELSE b

RestUnmarked == Tail(Waiting) \* mutant

\* What waits behind the effect that starts now.
Rest == <<Sentinel>> \o Tail(Waiting)

Dequeue ==
    /\ dequeues > 0
    /\ IF Waiting = <<>>
       THEN /\ EmptyFires
            /\ dequeues' = dequeues - 1
            /\ UNCHANGED <<fxTimers, delays, effects, box>>
       ELSE LET e == Head(Waiting)
                p == FxPrefiltered(e)
            IN  /\ fxQueue' = Rest
                /\ IF IsDelay(e)
                   THEN /\ fxHooks' = [there |-> TRUE, cur |-> e, stop |-> e]
                        /\ delays' = delays \union {e}
                        /\ dequeues' = dequeues - 1
                        /\ UNCHANGED <<fxTimers, effects, box>>
                   ELSE /\ fxHooks' = [there |-> TRUE, cur |-> e, stop |-> NoEffect]
                        /\ effects' = [effects EXCEPT ![e] = p.effect]
                        /\ box' = p.box
                        \* without a tween the first tick ends it
                        /\ fxTimers' = IF p.effect.handled THEN fxTimers \union {e} ELSE fxTimers
                        /\ dequeues' = IF p.effect.handled THEN dequeues - 1 ELSE dequeues
                        /\ UNCHANGED delays
                /\ UNCHANGED promised
    /\ UNCHANGED <<fxCallsLeft, interrupted, overlooked>>

\* The tweens of the animation are run.
Midway(b) == [b EXCEPT !.height = "part"]

\* jQuery.fx.tick(): an animation goes on, or ends and dequeues the next effect.
Tick(e) ==
    /\ FxIdle /\ e \in fxTimers
    /\ \/ /\ box' = Midway(box)
          /\ UNCHANGED <<fxTimers, dequeues>>
       \/ /\ box' = FxEnded(box, e)
          /\ fxTimers' = fxTimers \ {e}
          /\ dequeues' = 1
    /\ UNCHANGED <<fxQueue, fxHooks, delays, effects, fxCallsLeft, promised, interrupted, overlooked>>

DelayEnds(e) ==
    /\ FxIdle /\ e \in delays
    /\ delays' = delays \ {e}
    /\ dequeues' = 1
    /\ UNCHANGED <<fxQueue, fxHooks, fxTimers, effects, box, fxCallsLeft, promised, interrupted, overlooked>>

------------------------------------------------------------------------------
FxCall == FxIdle /\ fxCallsLeft > 0 /\ fxCallsLeft' = fxCallsLeft - 1

\* The timers end from the last to the first.
AllEnded == IF fxTimers = {} THEN box
            ELSE FxEnded(box, CHOOSE e \in fxTimers : \A x \in fxTimers : e <= x)

\* stop(): with clearQueue the queue is set to an empty one, and as that has no
\* sentinel it is dequeued: its data goes, and with it what clears a delay.
Stop(clearQueue, gotoEnd) ==
    /\ FxCall
    /\ IF clearQueue THEN EmptyFires
       ELSE UNCHANGED <<fxQueue, promised>> /\ fxHooks' = [fxHooks EXCEPT !.stop = NoEffect]
    /\ delays' = IF clearQueue THEN delays ELSE delays \ {fxHooks.stop}
    /\ overlooked' = (overlooked \/ (clearQueue /\ delays # {}))
    /\ fxTimers' = {}
    /\ box' = IF gotoEnd THEN AllEnded ELSE box
    /\ interrupted' = (interrupted \/ (~gotoEnd /\ fxTimers # {}))
    \* an animation that ends dequeues, one that is stopped does not
    /\ dequeues' = IF gotoEnd /\ fxTimers # {} THEN Cardinality(fxTimers) ELSE 1
    /\ UNCHANGED effects

\* clearQueue() alone forgets the effect that plays.
ClearQueue ==
    /\ FxCall /\ EmptyFires
    /\ overlooked' = (overlooked \/ Playing # {})
    /\ UNCHANGED <<fxTimers, delays, effects, dequeues, box, interrupted>>

\* An animation that starts while finish() goes on is at its end.
AtOnce(b, kind) ==
    IF (kind = "show") # b.visible
    THEN [visible |-> kind = "show", height |-> IF b.fxshow = "none" THEN b.height ELSE b.fxshow, fxshow |-> "none"]
    ELSE b

\* finish(): what plays and what waits comes to its end at once, in its order; a
\* delay has no finish, so that its timeout stays.
FinishedBox ==
    LET after[i \in 0..Len(Waiting)] ==
            IF i = 0 THEN AllEnded
            ELSE IF IsDelay(Waiting[i]) THEN after[i - 1]
            ELSE AtOnce(after[i - 1], effects[Waiting[i]].kind)
    IN  after[Len(Waiting)]

Finish ==
    /\ FxCall
    /\ box' = FinishedBox
    /\ dequeues' = IF fxTimers # {} \/ \E i \in DOMAIN Waiting : ~IsDelay(Waiting[i]) THEN 1 ELSE 0
    /\ fxQueue' = <<>> /\ fxTimers' = {}
    /\ overlooked' = (overlooked \/ delays # {})
    /\ UNCHANGED <<fxHooks, delays, effects, promised, interrupted>>

\* promise(): resolved at once when the queue has no data.
Promise ==
    /\ FxIdle /\ promised = "none"
    /\ promised' = IF fxHooks.there THEN "waiting" ELSE "resolved"
    /\ UNCHANGED <<fxQueue, fxHooks, fxTimers, delays, effects, dequeues, box, fxCallsLeft, interrupted, overlooked>>

FxNext ==
    \/ \E kind \in {"show", "hide", "delay"} : Queue(kind)
    \/ Dequeue
    \/ \E e \in fxTimers : Tick(e)
    \/ \E e \in delays : DelayEnds(e)
    \/ \E clearQueue, gotoEnd \in BOOLEAN : Stop(clearQueue, gotoEnd)
    \/ ClearQueue \/ Finish \/ Promise

FxSpec == FxInit /\ [][FxNext]_fxVars
------------------------------------------------------------------------------
FxTypeOK ==
    /\ \A i \in DOMAIN fxQueue : fxQueue[i] \in 0..MaxEffects
    /\ fxTimers \subseteq 1..MaxEffects /\ delays \subseteq 1..MaxEffects
    /\ box.height \in {"auto", "part", "full"} /\ dequeues \in 0..MaxEffects

\* Effects of a queue play one at a time and the sentinel stands for as long as
\* one plays, whatever was queued, stopped or finished meanwhile, unless a queue
\* was emptied under an effect that goes on.  When none is left the height of
\* the element is its own again, if every animation came to its end, and whoever
\* waits for the queue has been told.
OneEffectAtATime ==
    ~overlooked =>
        /\ Cardinality(Playing) <= 1
        /\ FxIdle /\ Playing # {} => fxQueue # <<>> /\ Head(fxQueue) = Sentinel
        /\ FxIdle /\ Playing = {} =>
              /\ fxQueue = <<>> /\ promised # "waiting"
              /\ ~interrupted => box.height = "auto" /\ box.fxshow = "none"

==============================================================================
