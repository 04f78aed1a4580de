------------------------------- MODULE UISlider -------------------------------
(***************************************************************************)
(* A slider of jQuery UI with two handles and the range between them.  The *)
(* mouse moves the nearest handle, keys move the one that has the focus;   *)
(* "change" is told when neither is at work any more.  A value is aligned  *)
(* to the step, and what is stored is trimmed again whenever it is read.   *)
(***************************************************************************)
EXTENDS Integers

CONSTANTS
    SliderMax,  \* the option "max" at first; "min" is 0
    LowerMax,   \* what the page may set it to
    Step,
    Places      \* values the mouse or the page asks for, before they are aligned

ASSUME SliderAssumption ==
    SliderMax \in Nat /\ LowerMax \in Nat /\ Step \in Nat \ {0} /\ Places \subseteq Int

VARIABLES
    sliderMax,     \* options.max
    values,        \* options.values, as stored
    keySliding, mouseSliding,
    handleIndex,   \* the handle the mouse moves, -1 for none
    handleFocus,   \* the handle that has the focus, -1 for none
    lastChanged,   \* _lastChangedValue, -1 for none
    toldValues,    \* of each handle, what "change" told last
    mixedSlide,    \* history: keys, mouse, focus or page interfered
    setByPage      \* history: the page set values, or a larger maximum

sliderVars == <<sliderMax, values, keySliding, mouseSliding, handleIndex, handleFocus,
                lastChanged, toldValues, mixedSlide, setByPage>>

Handle == {0, 1}

SliderInit ==
    /\ sliderMax = SliderMax /\ values = [i \in Handle |-> 0] /\ toldValues = values
    /\ keySliding = FALSE /\ mouseSliding = FALSE /\ handleIndex = -1 /\ handleFocus = -1
    /\ lastChanged = -1 /\ mixedSlide = FALSE /\ setByPage = FALSE
------------------------------------------------------------------------------
\* The aligned value may lie beyond the maximum, when that is not a multiple
\* of the step; reading it trims it.
TrimAlign(v) ==
    IF v <= 0 THEN 0
    ELSE IF v >= sliderMax THEN sliderMax
    ELSE LET off == v % Step IN IF 2 * off >= Step THEN v - off + Step ELSE v - off

ValueOf(i) == TrimAlign(values[i])

Distance(v, i) == IF v > ValueOf(i) THEN v - ValueOf(i) ELSE ValueOf(i) - v

\* The nearest handle; of two that are as near, the second is taken if it
\* changed last or is at the minimum.
Nearest(v) ==
    IF \/ Distance(v, 1) < Distance(v, 0)
       \/ Distance(v, 1) = Distance(v, 0) /\ (lastChanged = 1 \/ ValueOf(1) = 0)
    THEN 1 ELSE 0

SlidPast(i, v, allowed) == \* mutant
    IF v # ValueOf(i) /\ allowed THEN [values EXCEPT ![i] = TrimAlign(v)] ELSE values

\* _slide(): a handle stops at the other one; the page may refuse the step
SlidTo(i, v, allowed) ==
    LET other == ValueOf(1 - i)
        new == IF (i = 0 /\ v > other) \/ (i = 1 /\ v < other) THEN other ELSE v
    IN  IF new # ValueOf(i) /\ allowed THEN [values EXCEPT ![i] = TrimAlign(new)] ELSE values

\* _change() of handle i, once nothing slides
Trimmed(vs, i) == IF vs[i] >= sliderMax THEN sliderMax ELSE vs[i]
Change(i, vs, byKey, byMouse) ==
    IF byKey \/ byMouse THEN UNCHANGED <<toldValues, lastChanged>>
    ELSE toldValues' = [toldValues EXCEPT ![i] = Trimmed(vs, i)] /\ lastChanged' = i

------------------------------------------------------------------------------
\* _mouseCapture(); over a handle the mouse moves nothing yet
PressMouse(p, overHandle, allowed) ==
    LET v == TrimAlign(p)
        i == Nearest(v)
    IN  /\ ~mouseSliding /\ mouseSliding' = TRUE /\ handleIndex' = i /\ handleFocus' = i
        /\ values' = IF overHandle THEN values ELSE SlidTo(i, v, allowed)
        /\ mixedSlide' = (mixedSlide \/ keySliding)
        /\ UNCHANGED <<sliderMax, keySliding, lastChanged, toldValues, setByPage>>

MoveMouse(p, allowed) ==
    /\ mouseSliding /\ values' = SlidTo(handleIndex, TrimAlign(p), allowed)
    /\ UNCHANGED <<sliderMax, keySliding, mouseSliding, handleIndex, handleFocus, lastChanged,
                   toldValues, mixedSlide, setByPage>>

ReleaseMouse ==
    /\ mouseSliding /\ mouseSliding' = FALSE /\ handleIndex' = -1
    /\ Change(handleIndex, values, keySliding, FALSE)
    /\ UNCHANGED <<sliderMax, values, keySliding, handleFocus, mixedSlide, setByPage>>

\* Where a key moves the handle to: Home, End, an arrow; at its end an arrow
\* moves nothing.
KeyTarget(key) ==
    CASE key = "home" -> 0
      [] key = "end" -> sliderMax
      [] key = "up" -> TrimAlign(ValueOf(handleFocus) + Step)
      [] key = "down" -> TrimAlign(ValueOf(handleFocus) - Step)

\* A page that refuses "start" is heard at the first keydown only: those that
\* follow while the key is held slide.
SlideKeyDown(key, starts, allowed) ==
    /\ handleFocus # -1 /\ keySliding' = TRUE
    /\ values' = IF ~keySliding /\ ~starts THEN values ELSE SlidTo(handleFocus, KeyTarget(key), allowed)
    /\ mixedSlide' = (mixedSlide \/ mouseSliding)
    /\ UNCHANGED <<sliderMax, mouseSliding, handleIndex, handleFocus, lastChanged, toldValues, setByPage>>

SlideKeyUp ==
    /\ handleFocus # -1 /\ keySliding /\ keySliding' = FALSE
    /\ Change(handleFocus, values, FALSE, mouseSliding)
    /\ UNCHANGED <<sliderMax, values, mouseSliding, handleIndex, handleFocus, mixedSlide, setByPage>>

FocusMoves(i) ==
    /\ i # handleFocus /\ handleFocus' = i
    /\ mixedSlide' = (mixedSlide \/ keySliding)
    /\ UNCHANGED <<sliderMax, values, keySliding, mouseSliding, handleIndex, lastChanged, toldValues, setByPage>>

\* values(i, v)
SetHandle(i, v) ==
    /\ values' = [values EXCEPT ![i] = TrimAlign(v)] /\ setByPage' = TRUE
    /\ Change(i, values', keySliding, mouseSliding)
    /\ mixedSlide' = (mixedSlide \/ keySliding \/ mouseSliding)
    /\ UNCHANGED <<sliderMax, keySliding, mouseSliding, handleIndex, handleFocus>>

\* option("max"): nothing is told
SetMax(m) ==
    /\ m # sliderMax /\ sliderMax' = m /\ mixedSlide' = TRUE
    /\ setByPage' = (setByPage \/ m > sliderMax)
    /\ UNCHANGED <<values, keySliding, mouseSliding, handleIndex, handleFocus, lastChanged, toldValues>>

SliderNext ==
    \/ \E p \in Places, b, allowed \in BOOLEAN : PressMouse(p, b, allowed)
    \/ \E p \in Places, allowed \in BOOLEAN : MoveMouse(p, allowed)
    \/ ReleaseMouse \/ SlideKeyUp
    \/ \E key \in {"home", "end", "up", "down"}, b, allowed \in BOOLEAN : SlideKeyDown(key, b, allowed)
    \/ \E i \in Handle \union {-1} : FocusMoves(i)
    \/ \E i \in Handle, v \in Places : SetHandle(i, v)
    \/ \E m \in {SliderMax, LowerMax} : SetMax(m)

SliderSpec == SliderInit /\ [][SliderNext]_sliderVars
------------------------------------------------------------------------------
\* Types of the slider.
LargestMax == IF LowerMax > SliderMax THEN LowerMax ELSE SliderMax
SliderTypeOK ==
    /\ values \in [Handle -> 0..(LargestMax + Step)] /\ toldValues \in [Handle -> 0..LargestMax]
    /\ handleIndex \in Handle \union {-1} /\ handleFocus \in Handle \union {-1}
    /\ mouseSliding <=> handleIndex # -1

\* Handles that only keys and mouse move never cross, also when the maximum
\* shrinks under them (when it grows again, what was stored at the smaller one
\* is aligned, and may have crossed); and once nothing slides the page has been
\* told both values, unless keys and mouse were used at the same time, the
\* focus moved under a key or the maximum changed.
SliderHolds ==
    /\ ~setByPage => ValueOf(0) <= ValueOf(1)
    /\ ~mixedSlide /\ ~keySliding /\ ~mouseSliding => \A i \in Handle : toldValues[i] = ValueOf(i)

==============================================================================
