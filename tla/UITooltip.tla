------------------------------- MODULE UITooltip -------------------------------
(***************************************************************************)
(* The tooltip of the field of a combobox.  combobox.js has the field say  *)
(* what it refused: it sets the title, opens the tooltip, and 2500 ms      *)
(* later closes it and clears the title.  Meanwhile the pointer, the focus *)
(* and the Escape key open and close the same tooltip, tips that are       *)
(* closed fade away, and the page may remove the field.                    *)
(***************************************************************************)
EXTENDS Naturals, FiniteSets

CONSTANTS
    MaxTips,    \* bound: tips that are shown
    MaxMessages \* bound: messages whose time is not over

ASSUME TooltipAssumption == MaxTips \in Nat /\ MaxMessages \in Nat

VARIABLES
    title,       \* of the field: no such attribute, empty, or the message
    dataTitle,   \* "ui-tooltip-title" is the message
    tip,         \* "ui-tooltip-id", 0 for none
    tipsShown, tipsHiding,
    tipsMade,    \* increments
    openFlag,    \* "ui-tooltip-open"
    tipHandlers, \* what closes the tip, as bound to the field
    hovered, focused,
    messageTimers, \* _delay() of 2500 ms that are pending
    fieldThere

tipVars == <<title, dataTitle, tip, tipsShown, tipsHiding, tipsMade, openFlag, tipHandlers,
             hovered, focused, messageTimers, fieldThere>>

TooltipInit ==
    /\ title = "empty" /\ dataTitle = FALSE /\ tip = 0 /\ tipsShown = {} /\ tipsHiding = {} /\ tipsMade = 0
    /\ openFlag = FALSE /\ tipHandlers = {} /\ hovered = FALSE /\ focused = FALSE
    /\ messageTimers = 0 /\ fieldThere = TRUE

------------------------------------------------------------------------------
\* The tooltip as one value, so that a handler may close and open it.
Tooltip == [title |-> title, dataTitle |-> dataTitle, tip |-> tip, shown |-> tipsShown, hiding |-> tipsHiding,
            made |-> tipsMade, open |-> openFlag, handlers |-> tipHandlers]
TooltipIs(s) ==
    /\ title' = s.title /\ dataTitle' = s.dataTitle /\ tip' = s.tip /\ tipsShown' = s.shown
    /\ tipsHiding' = s.hiding /\ tipsMade' = s.made /\ openFlag' = s.open /\ tipHandlers' = s.handlers

\* _open(): the title goes, so that the browser does not show it as well, and
\* what opened the tip says what closes it.
ShowTip(s, event) ==
    LET k == s.made + 1
    IN  [s EXCEPT !.title = IF event = "mouseover" THEN "empty" ELSE "absent",
                  !.made = k, !.tip = k, !.shown = @ \union {k},
                  !.handlers = @ \union {"keyup"}
                      \union (IF event \in {"call", "mouseover"} THEN {"mouseleave"} ELSE {})
                      \union (IF event \in {"call", "focusin"} THEN {"focusout"} ELSE {})]

\* open(), _updateContent(): of a field that has a title, although it be empty,
\* and no tip yet.
OpenTip(s, event) ==
    IF s.title = "absent" \/ s.tip # 0 THEN s
    ELSE IF s.title = "message" THEN ShowTip([s EXCEPT !.dataTitle = TRUE, !.open = TRUE], event)
    ELSE [s EXCEPT !.open = TRUE]

\* close(): also without a tip it gives the title back.
CloseTip(s) ==
    [s EXCEPT !.title = IF s.dataTitle THEN "message" ELSE @, !.tip = 0,
              !.shown = @ \ {s.tip}, !.hiding = IF s.tip = 0 THEN @ ELSE @ \union {s.tip},
              !.open = FALSE, !.handlers = {}]

Heard(s, type) == IF type \in s.handlers THEN CloseTip(s) ELSE s
------------------------------------------------------------------------------
PointerOnField ==
    /\ fieldThere /\ ~hovered /\ tipsMade < MaxTips
    /\ hovered' = TRUE /\ TooltipIs(OpenTip(Tooltip, "mouseover"))
    /\ UNCHANGED <<focused, messageTimers, fieldThere>>

PointerOffField ==
    /\ hovered /\ hovered' = FALSE /\ TooltipIs(Heard(Tooltip, "mouseleave"))
    /\ UNCHANGED <<focused, messageTimers, fieldThere>>

FieldFocused ==
    /\ fieldThere /\ ~focused /\ tipsMade < MaxTips
    /\ focused' = TRUE /\ TooltipIs(OpenTip(Tooltip, "focusin"))
    /\ UNCHANGED <<hovered, messageTimers, fieldThere>>

\* The focus leaves and autocomplete tells that the text changed: _removeIfInvalid()
\* accepts it.
FieldLeft ==
    /\ focused /\ focused' = FALSE /\ TooltipIs(Heard(Tooltip, "focusout"))
    /\ UNCHANGED <<hovered, messageTimers, fieldThere>>

\* ... or it refuses it.
FieldRefused ==
    /\ focused /\ tipsMade < MaxTips /\ messageTimers < MaxMessages
    /\ focused' = FALSE /\ messageTimers' = messageTimers + 1
    /\ TooltipIs(OpenTip([Heard(Tooltip, "focusout") EXCEPT !.title = "message"], "call"))
    /\ UNCHANGED <<hovered, fieldThere>>

TipEscaped ==
    /\ focused /\ "keyup" \in tipHandlers /\ TooltipIs(CloseTip(Tooltip))
    /\ UNCHANGED <<hovered, focused, messageTimers, fieldThere>>

\* The 2500 ms are over.
SwappedTitle(s) == CloseTip([s EXCEPT !.title = "empty"]) \* mutant
ClearedTitle(s) == [CloseTip(s) EXCEPT !.title = "empty"]
MessageOver ==
    /\ messageTimers > 0 /\ messageTimers' = messageTimers - 1
    \* A tooltip that was destroyed throws.
    /\ TooltipIs(IF fieldThere THEN ClearedTitle(Tooltip) ELSE Tooltip)
    /\ UNCHANGED <<hovered, focused, fieldThere>>

\* _removeTooltip(), when the effect has ended.
TipHidden(k) ==
    /\ k \in tipsHiding /\ tipsHiding' = tipsHiding \ {k}
    /\ UNCHANGED <<title, dataTitle, tip, tipsShown, tipsMade, openFlag, tipHandlers,
                   hovered, focused, messageTimers, fieldThere>>

\* _destroy(), on the "remove" of the field: tips go without an effect.
FieldRemoved ==
    /\ fieldThere /\ fieldThere' = FALSE /\ hovered' = FALSE /\ focused' = FALSE
    /\ TooltipIs(IF tipsShown \union tipsHiding = {} THEN [Tooltip EXCEPT !.handlers = {}]
                 ELSE [CloseTip(Tooltip) EXCEPT !.hiding = {}, !.dataTitle = FALSE])
    /\ UNCHANGED messageTimers

TooltipNext ==
    \/ PointerOnField \/ PointerOffField \/ FieldFocused \/ FieldLeft \/ FieldRefused
    \/ TipEscaped \/ MessageOver \/ FieldRemoved
    \/ \E k \in tipsHiding : TipHidden(k)

TooltipSpec == TooltipInit /\ [][TooltipNext]_tipVars
------------------------------------------------------------------------------
TooltipTypeOK ==
    /\ title \in {"absent", "empty", "message"} /\ tip \in 0..MaxTips
    /\ tipHandlers \subseteq {"mouseleave", "focusout", "keyup"} /\ messageTimers \in 0..MaxMessages

\* However the pointer, the focus and the timers come together, the tip that is
\* shown is one and the one that the field knows, it can be closed, and no
\* message outlives its time: while a tip is shown or the title says what was
\* refused, a timer is pending that takes it away.  A field that is gone leaves
\* no tip behind.
TooltipsHold ==
    /\ tipsShown = IF tip = 0 THEN {} ELSE {tip}
    /\ tip \notin tipsHiding
    /\ tip # 0 => openFlag /\ tipHandlers \intersect {"mouseleave", "focusout"} # {}
    /\ fieldThere /\ (tip # 0 \/ title = "message") => messageTimers > 0
    /\ ~fieldThere => tipsShown \union tipsHiding = {}

==============================================================================
