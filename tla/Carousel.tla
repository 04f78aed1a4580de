------------------------------- MODULE Carousel -------------------------------
(***************************************************************************)
(* The slides shown while a long action runs (progress.mas), moved by a    *)
(* timer and by two controls.  The browser side has no transitions, so a   *)
(* slide is replaced at once; a control that is disabled is not displayed. *)
(***************************************************************************)
EXTENDS Naturals

CONSTANT
    MaxSlides  \* bound: slides

ASSUME CarouselAssumption == MaxSlides \in Nat

VARIABLES
    slides,     \* how many there are
    activeSlide, \* the one that is shown
    sliding,
    cycling,    \* interval
    paused,
    overSlides, \* the pointer is over them
    disabled,   \* controls that are disabled
    endByHand   \* history: a control moved to the last slide while no timer ran

slideVars == <<slides, activeSlide, sliding, cycling, paused, overSlides, disabled, endByHand>>

\* progress.mas: carousel(), which does pause() and cycle().
CarouselInit ==
    /\ slides \in 1..MaxSlides /\ activeSlide = 1 /\ sliding = FALSE
    /\ cycling = TRUE /\ paused = FALSE /\ overSlides = FALSE
    /\ disabled = {"left"} /\ endByHand = FALSE

------------------------------------------------------------------------------
NextSlide == IF activeSlide = slides THEN 1 ELSE activeSlide + 1
PrevSlide == IF activeSlide = 1 THEN slides ELSE activeSlide - 1

\* progress.mas, on "slid"
Controls(i) == IF i = slides THEN {"right"} ELSE IF i = 1 THEN {"left"} ELSE {}

\* After "slid", cycle() starts the timer again when it ran before - also when
\* the page has paused it at the last slide.
StaysPaused(wasCycling, i) == ~wasCycling /\ (paused \/ i = slides)

\* slide()
SlideTo(i) ==
    /\ activeSlide' = i /\ disabled' = Controls(i)
    /\ cycling' = cycling /\ paused' = StaysPaused(cycling, i)
    /\ UNCHANGED sliding

\* ... to the slide that is shown: it returns with sliding set, and the timer
\* stopped.
SlideToItself ==
    /\ sliding' = TRUE /\ cycling' = FALSE /\ paused' = (paused \/ cycling)
    /\ UNCHANGED <<activeSlide, disabled>>

Slide(i) == ~sliding /\ IF i = activeSlide THEN SlideToItself ELSE SlideTo(i)

TimerSlides ==
    /\ cycling /\ Slide(NextSlide)
    /\ UNCHANGED <<slides, overSlides, endByHand>>

\* A click on a control, by the pointer or by the keyboard.
ClickControl(control) ==
    /\ control \notin disabled
    /\ Slide(IF control = "right" THEN NextSlide ELSE PrevSlide)
    /\ endByHand' = (endByHand \/ (~cycling /\ activeSlide' = slides))
    /\ UNCHANGED <<slides, overSlides>>

PointerOverSlides ==
    /\ ~overSlides /\ overSlides' = TRUE /\ cycling' = FALSE
    /\ UNCHANGED <<slides, activeSlide, sliding, paused, disabled, endByHand>>

\* cycle() with an event
PointerOffSlides ==
    /\ overSlides /\ overSlides' = FALSE /\ cycling' = ~paused
    /\ UNCHANGED <<slides, activeSlide, sliding, paused, disabled, endByHand>>

CarouselNext ==
    \/ TimerSlides \/ PointerOverSlides \/ PointerOffSlides
    \/ \E control \in {"left", "right"} : ClickControl(control)

CarouselSpec == CarouselInit /\ [][CarouselNext]_slideVars
------------------------------------------------------------------------------
CarouselTypeOK == activeSlide \in 1..slides /\ disabled \subseteq {"left", "right"}

\* With several slides the controls that are shown are those that lead to another
\* slide without wrapping, nothing is left sliding, and the slides move by
\* themselves exactly while the pointer is away - unless a control was used to
\* reach the last one.
CarouselHolds ==
    slides > 1 =>
        /\ "left" \in disabled <=> activeSlide = 1
        /\ "right" \in disabled <=> activeSlide = slides
        /\ ~sliding
        /\ cycling <=> ~overSlides /\ ~paused
        /\ paused => endByHand

==============================================================================
