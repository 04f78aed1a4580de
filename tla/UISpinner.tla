------------------------------- MODULE UISpinner -------------------------------
(***************************************************************************)
(* A spinner of jQuery UI: a field for a number with two buttons.  Keys,   *)
(* buttons and the wheel start to spin, a timer goes on, and keyup,        *)
(* mouseup, mouseleave, blur or a second timer stop it; "change" is told   *)
(* when the field is left.                                                 *)
(***************************************************************************)
EXTENDS Integers

CONSTANTS
    SpinMax,     \* the option "max"; "min" is 0 and "step" 1
    ButtonSteps, \* bound: buttons and turns of the wheel, among 1 and -1
    KeySteps     \* bound: keys, among 1 and -1

ASSUME SpinAssumption == SpinMax \in Nat /\ ButtonSteps \subseteq {-1, 1} /\ KeySteps \subseteq {-1, 1}

VARIABLES
    spinField,   \* the number in the field, or NoNumber
    spinFocused, spinPrevious, \* the field has the focus; what it held then
    spinning,
    repeats,     \* the timer of _repeat(): its steps, 0 for none
    wheelTimer,
    blurDelay,   \* cancelBlur, and the value its delay gives back
    held,        \* what the user holds: a key, the mouse over a button
    buttonDown,  \* the button the mouse was pressed on, 0 for none
    spinDisabled,
    toldNumber,  \* what "change" told last
    spinStray    \* history: the spinner was disabled in use or a blur ignored;
                 \* the number changed outside a visit to the field, or the
                 \* page changed it during one

spinVars == <<spinField, spinFocused, spinPrevious, spinning, repeats, wheelTimer, blurDelay,
              held, buttonDown, spinDisabled, toldNumber, spinStray>>

NoNumber == -1
Numbers == 0..SpinMax
NoDelay == [cancel |-> FALSE, pending |-> FALSE, value |-> NoNumber]

SpinInit ==
    /\ spinField = 0 /\ spinFocused = FALSE /\ spinPrevious = NoNumber /\ spinning = FALSE
    /\ repeats = 0 /\ wheelTimer = FALSE /\ blurDelay = NoDelay
    /\ held = {} /\ buttonDown = 0 /\ spinDisabled = FALSE /\ toldNumber = 0
    /\ spinStray = [stopLost |-> FALSE, outside |-> FALSE]
------------------------------------------------------------------------------
Unclamped(v) == v \* mutant

Clamped(v) == IF v < 0 THEN 0 ELSE IF v > SpinMax THEN SpinMax ELSE v

\* _spin(), which the page may refuse; steps grow only after 18 of them
Spins(steps, allowed) ==
    LET from == IF spinField = NoNumber THEN 0 ELSE spinField
    IN  spinField' = IF allowed THEN Clamped(from + steps) ELSE spinField

\* _start() is refused by the page only if nothing spins
Starts(ok) == spinning \/ ok

SpinStopped == spinning' = FALSE /\ repeats' = 0 /\ wheelTimer' = FALSE
Stops == IF spinning THEN SpinStopped ELSE UNCHANGED <<spinning, repeats, wheelTimer>>

FieldUnchanged == UNCHANGED <<spinField, spinFocused, spinPrevious, toldNumber>>
UserUnchanged == UNCHANGED <<held, buttonDown, blurDelay, spinDisabled, spinStray>>

\* Keys: those that spin, repeated while they are held, and any other, which
\* only starts.
SpinKeyDown(steps, ok, allowed) ==
    /\ spinFocused /\ ~spinDisabled /\ held' = held \union {"key"}
    /\ IF Starts(ok)
       THEN /\ spinning' = TRUE
            /\ IF steps = 0
               THEN UNCHANGED <<spinField, repeats>>
               ELSE Spins(steps, allowed) /\ repeats' = steps
       ELSE UNCHANGED <<spinField, spinning, repeats>>
    /\ UNCHANGED <<spinFocused, spinPrevious, wheelTimer, blurDelay, buttonDown, spinDisabled, toldNumber, spinStray>>

SpinKeyUp ==
    /\ "key" \in held /\ held' = held \ {"key"}
    /\ IF spinDisabled \/ ~spinFocused THEN UNCHANGED <<spinning, repeats, wheelTimer>> ELSE Stops
    /\ FieldUnchanged /\ UNCHANGED <<buttonDown, blurDelay, spinDisabled, spinStray>>

TypeNumber(v) ==
    /\ spinFocused /\ ~spinDisabled /\ v # spinField /\ spinField' = v
    /\ UNCHANGED <<spinFocused, spinPrevious, spinning, repeats, wheelTimer, toldNumber>>
    /\ UserUnchanged

FocusNumber ==
    /\ ~spinFocused /\ ~spinDisabled /\ spinFocused' = TRUE /\ spinPrevious' = spinField
    /\ UNCHANGED <<spinField, spinning, repeats, wheelTimer, toldNumber>> /\ UserUnchanged

BlurNumber ==
    /\ spinFocused /\ spinFocused' = FALSE
    /\ IF blurDelay.cancel /\ ~spinDisabled
       THEN /\ blurDelay' = [blurDelay EXCEPT !.cancel = FALSE]
            /\ UNCHANGED <<spinning, repeats, wheelTimer, toldNumber>>
            /\ spinStray' = [spinStray EXCEPT !.stopLost = TRUE]
       ELSE IF spinDisabled
       THEN UNCHANGED <<spinning, repeats, wheelTimer, toldNumber, blurDelay, spinStray>>
       ELSE Stops /\ toldNumber' = (IF spinPrevious # spinField THEN spinField ELSE toldNumber)
            /\ UNCHANGED <<blurDelay, spinStray>>
    /\ UNCHANGED <<spinField, spinPrevious, held, buttonDown, spinDisabled>>

\* The mouse on a button: the field gets the focus.
PressButton(steps, ok, allowed) ==
    LET previous == IF spinFocused THEN spinPrevious ELSE spinField
    IN  /\ buttonDown = 0 /\ ~spinDisabled
        /\ buttonDown' = steps /\ held' = held \union {"button"}
        /\ spinFocused' = TRUE /\ spinPrevious' = previous
        /\ blurDelay' = [cancel |-> TRUE, pending |-> TRUE, value |-> previous]
        /\ IF Starts(ok) THEN spinning' = TRUE /\ Spins(steps, allowed) /\ repeats' = steps
           ELSE UNCHANGED <<spinField, spinning, repeats>>
        /\ UNCHANGED <<wheelTimer, spinDisabled, toldNumber, spinStray>>

BlurDelayEnds ==
    /\ blurDelay.pending /\ blurDelay' = NoDelay
    /\ spinFocused' = (spinFocused \/ ~spinDisabled)
    /\ spinPrevious' = IF spinFocused THEN spinPrevious ELSE blurDelay.value
    /\ UNCHANGED <<spinField, spinning, repeats, wheelTimer, held, buttonDown, spinDisabled,
                   toldNumber, spinStray>>

\* mouseup, or mouseleave while it is held
LeaveButton(releases) ==
    /\ buttonDown # 0 /\ held' = held \ {"button"}
    /\ buttonDown' = IF releases THEN 0 ELSE buttonDown
    /\ IF spinDisabled \/ "button" \notin held THEN UNCHANGED <<spinning, repeats, wheelTimer>> ELSE Stops
    /\ FieldUnchanged /\ UNCHANGED <<blurDelay, spinDisabled, spinStray>>

EnterButton(ok, allowed) ==
    /\ buttonDown # 0 /\ "button" \notin held /\ ~spinDisabled /\ held' = held \union {"button"}
    /\ IF Starts(ok) THEN spinning' = TRUE /\ Spins(buttonDown, allowed) /\ repeats' = buttonDown
       ELSE UNCHANGED <<spinField, spinning, repeats>>
    /\ UNCHANGED <<spinFocused, spinPrevious, wheelTimer, blurDelay, buttonDown, spinDisabled, toldNumber>>
    /\ spinStray' = [spinStray EXCEPT !.outside = @ \/ ~spinFocused]

\* The timers run also when the spinner was disabled.
RepeatTimer(allowed) ==
    /\ repeats # 0 /\ Spins(repeats, allowed)
    /\ UNCHANGED <<spinFocused, spinPrevious, spinning, repeats, wheelTimer, toldNumber>> /\ UserUnchanged

Wheel(steps, ok, allowed) ==
    /\ ~spinDisabled /\ Starts(ok) /\ spinning' = TRUE /\ Spins(steps, allowed) /\ wheelTimer' = TRUE
    /\ spinStray' = [spinStray EXCEPT !.outside = @ \/ ~spinFocused]
    /\ UNCHANGED <<spinFocused, spinPrevious, repeats, held, buttonDown, blurDelay, spinDisabled, toldNumber>>

WheelTimer ==
    /\ wheelTimer /\ Stops
    /\ FieldUnchanged /\ UserUnchanged

\* stepUp() and stepDown(), which also stop what spins; "change" is told at once
PageSteps(steps, ok, allowed) ==
    /\ Starts(ok) /\ \E field \in Numbers \union {NoNumber} :
          /\ field = IF allowed THEN Clamped((IF spinField = NoNumber THEN 0 ELSE spinField) + steps) ELSE spinField
          /\ spinField' = field /\ toldNumber' = IF field # spinField THEN field ELSE toldNumber
          /\ spinStray' = [spinStray EXCEPT !.outside = @ \/ (spinFocused /\ field # spinField)]
    /\ SpinStopped
    /\ UNCHANGED <<spinFocused, spinPrevious, held, buttonDown, blurDelay, spinDisabled>>

\* value() and the options
PageSetsNumber(v) ==
    /\ v # spinField /\ spinField' = v /\ toldNumber' = v
    /\ spinStray' = [spinStray EXCEPT !.outside = @ \/ spinFocused]
    /\ UNCHANGED <<spinFocused, spinPrevious, spinning, repeats, wheelTimer, held, buttonDown,
                   blurDelay, spinDisabled>>

DisableSpinner(b) ==
    /\ spinDisabled # b /\ spinDisabled' = b
    /\ spinStray' = [spinStray EXCEPT !.stopLost = @ \/ (b /\ (spinning \/ spinFocused))]
    /\ UNCHANGED <<spinField, spinFocused, spinPrevious, toldNumber, spinning, repeats, wheelTimer,
                   held, buttonDown, blurDelay>>

SpinNext ==
    \/ \E steps \in KeySteps \union {0}, ok, allowed \in BOOLEAN : SpinKeyDown(steps, ok, allowed)
    \/ \E steps \in ButtonSteps, ok, allowed \in BOOLEAN :
          PressButton(steps, ok, allowed) \/ Wheel(steps, ok, allowed) \/ PageSteps(steps, ok, allowed)
    \/ \E ok, allowed \in BOOLEAN : EnterButton(ok, allowed)
    \/ \E b \in BOOLEAN : LeaveButton(b) \/ DisableSpinner(b) \/ RepeatTimer(b)
    \/ \E v \in Numbers \union {NoNumber} : TypeNumber(v) \/ PageSetsNumber(v)
    \/ SpinKeyUp \/ FocusNumber \/ BlurNumber \/ BlurDelayEnds \/ WheelTimer

SpinSpec == SpinInit /\ [][SpinNext]_spinVars
------------------------------------------------------------------------------
\* Types of the spinner.
SpinTypeOK ==
    /\ spinField \in Numbers \union {NoNumber} /\ toldNumber \in Numbers \union {NoNumber}
    /\ repeats \in {-1, 0, 1} /\ held \subseteq {"key", "button"}

\* The number goes on by itself only while a key or a button is held, and once
\* the field is left and nothing spins the page has been told the number:
\* unless the spinner was disabled in use or a blur ignored, or the number was
\* changed by the wheel or a button while another field had the focus, or by
\* the page while this one had it.
SpinnerHolds ==
    /\ ~spinning => repeats = 0 /\ ~wheelTimer
    /\ ~spinStray.stopLost
          => /\ repeats # 0 => held # {}
             /\ ~spinFocused /\ ~spinning /\ ~spinStray.outside => toldNumber = spinField

==============================================================================
