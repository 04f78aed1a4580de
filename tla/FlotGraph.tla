------------------------------- MODULE FlotGraph -------------------------------
(***************************************************************************)
(* The graphs of the dashboard and of the monitor, drawn with Flot.  Every *)
(* new value makes a new plot in the same place, with the canvases of the  *)
(* old one: its axes are fitted to the data, its ticks are labelled, the   *)
(* old plot is shut down, and the point under the pointer is highlighted   *)
(* on the overlay by a timer.  Arithmetic is exact, in units of 1/Scale.   *)
(***************************************************************************)
EXTENDS Integers, Sequences, FiniteSetsExt

CONSTANTS
    Samples,   \* values of a graph ("novalues")
    MaxSample, \* bound: the values
    NoTicks,   \* ticks asked for
    Base,      \* the size of a unit of getBytes(), 1024
    MaxPlots   \* bound: plots made in the place

\* The values are within what Powers reaches.
ASSUME PlotAssumption == /\ Samples \in Nat \ {0} /\ NoTicks \in 1..10 /\ MaxSample \in 0..(500 * NoTicks)
                         /\ Base \in Nat \ {0} /\ MaxPlots \in Nat \ {0}

VARIABLES
    plotNo,      \* "plot" in the data of the placeholder
    graphInfo,   \* the window of values
    yaxis, xaxis,
    textShown,   \* labels in the layers over the canvas, with the tick where they are
    highlighted, \* the point in highlights of the plot, 0 for none
    overlayShows, \* what is drawn on the overlay
    redrawTimeouts, \* plots whose drawOverlay() is to come
    hoverTip     \* the tooltip of graph.mas is shown for this point

plotVars == <<plotNo, graphInfo, yaxis, xaxis, textShown, highlighted, overlayShows, redrawTimeouts, hoverTip>>

Scale == 10000
Powers == {10, 100, 1000, 10000, 100000, 1000000}

------------------------------------------------------------------------------
\* parseOptions(), with the defaults of the axes: graph.mas asks for ticks on
\* both, and only the value axis has a margin.
ParseOptions == [x |-> [autoscale |-> FALSE, ticks |-> NoTicks], y |-> [autoscale |-> TRUE, ticks |-> NoTicks]]

\* processData(), the first pass: a point of each value, and of its index.
Points(g) == [i \in 1..Samples |-> [x |-> (i - 1) * Scale, y |-> g[i] * Scale]]

\* ... and the second: the least and the greatest value of a coordinate.
DataRange(points, c) ==
    LET values == {points[i][c] : i \in 1..Samples} IN [min |-> Min(values), max |-> Max(values)]

\* setRange(): an empty range is widened; another one gets a margin of 2% when
\* the axis is autoscaled, that does not take it over zero.
SetRange(r, autoscale) ==
    LET delta == r.max - r.min
        margin == delta \div 50
    IN  IF delta = 0 THEN [r EXCEPT !.min = @ - IF r.max = 0 THEN Scale ELSE Scale \div 100]
        ELSE IF ~autoscale THEN r
        ELSE [min |-> IF r.min >= 0 THEN Max({0, r.min - margin}) ELSE r.min - margin,
              max |-> IF r.max <= 0 THEN Min({0, r.max + margin}) ELSE r.max + margin]

\* setupTickGeneration(): 1, 2, 2.5, 5 or 10 times a power of ten, and the
\* decimals that it takes, as a power of ten.
TickGeneration(r, ticks) ==
    LET span == r.max - r.min
        magn == Max({p \in Powers : p * ticks <= span})
        one == ticks * magn  \* norm is span / one
        decimals == Max({1, Scale \div magn})
    IN  CASE 2 * span < 3 * one -> [size |-> magn, decimals |-> decimals]
          [] 2 * span >= 3 * one /\ span < 3 * one /\ 4 * span <= 9 * one -> [size |-> 2 * magn, decimals |-> decimals]
          [] span < 3 * one /\ 4 * span > 9 * one ->
                 [size |-> (5 * magn) \div 2, decimals |-> Max({1, (10 * Scale) \div magn})]
          [] span >= 3 * one /\ 2 * span < 15 * one -> [size |-> 5 * magn, decimals |-> decimals]
          [] 2 * span >= 15 * one -> [size |-> 10 * magn, decimals |-> decimals]

\* The tick generator, setTicks(): from the multiple below to the first that
\* reaches the end.
SetTicks(r, g) ==
    LET start == g.size * (r.min \div g.size)
        steps == Min({i \in 0..30 : start + i * g.size >= r.max})
    IN  {start + i * g.size : i \in 0..steps}

\* snapRangeToTicks(), of an autoscaled axis.
Unsnapped(r, ts) == r \* mutant
SnapRangeToTicks(r, ts) == [min |-> Min({r.min} \union ts), max |-> Max({r.max} \union ts)]

\* setupGrid(), of one axis
SetupAxis(points, c) ==
    LET options == ParseOptions[c]
        r == SetRange(DataRange(points, c), options.autoscale)
        g == TickGeneration(r, options.ticks)
        ts == SetTicks(r, g)
        snapped == IF options.autoscale THEN SnapRangeToTicks(r, ts) ELSE r
    IN  [min |-> snapped.min, max |-> snapped.max, ticks |-> ts, decimals |-> g.decimals]

\* getBytes(): rounded to the decimals of the axis, in a unit that fits.
Rounded(a, b) == (2 * a + b) \div (2 * b)
BytesLabel(v, decimals) ==
    IF v > Base * Scale THEN <<"K", Rounded(v * decimals, Base * Scale)>> ELSE <<"", Rounded(v * decimals, Scale)>>

\* tickFormatter: of the values their size, of the times themselves.
TickLabel(axis, c, v) == IF c = "y" THEN BytesLabel(v, axis.decimals) ELSE <<"at", v>>

\* measureTickLabels(), getTextInfo(): the cache has one element for each text.
TextCache(axis, c) == {TickLabel(axis, c, v) : v \in axis.ticks}

\* drawAxisLabels(), addText(): the ticks that place the element of a text; those
\* out of the range do not.
Placed(axis, c, text) ==
    {v \in axis.ticks : axis.min <= v /\ v <= axis.max /\ TickLabel(axis, c, v) = text}

\* render(): texts that were added are shown, where the last tick put them.
Render(axis, c) ==
    {<<text, Max(Placed(axis, c, text))>> : text \in {t \in TextCache(axis, c) : Placed(axis, c, t) # {}}}

Draw(y, x) == Render(y, "y") \union Render(x, "x")
------------------------------------------------------------------------------
FirstGraph == [i \in 1..Samples |-> 0]

PlotInit ==
    /\ plotNo = 1 /\ graphInfo = FirstGraph
    /\ yaxis = SetupAxis(Points(FirstGraph), "y") /\ xaxis = SetupAxis(Points(FirstGraph), "x")
    /\ textShown = Draw(yaxis, xaxis)
    /\ highlighted = 0 /\ overlayShows = 0 /\ redrawTimeouts = {} /\ hoverTip = 0

\* shutdown() of the plot that had the place
TimeoutStays(p, ts) == ts \* mutant
Shutdown(p, ts) == ts \ {p}

\* setupCanvases(): what is in the place goes, but for the canvases, the plot that
\* was there is shut down, and the overlay is cleared.
SetupCanvases ==
    /\ hoverTip' = 0 /\ redrawTimeouts' = Shutdown(plotNo, redrawTimeouts) /\ overlayShows' = 0
    /\ plotNo' = plotNo + 1

\* updateGraph(): the window moves by one, and a plot is made of it.
UpdateGraph(value) ==
    /\ plotNo < MaxPlots /\ SetupCanvases
    /\ graphInfo' = Append(Tail(graphInfo), value)
    /\ yaxis' = SetupAxis(Points(graphInfo'), "y") /\ xaxis' = SetupAxis(Points(graphInfo'), "x")
    /\ textShown' = Draw(yaxis', xaxis') /\ highlighted' = 0

\* unhighlight(), highlight(): of what the pointer was near, and is.
Unhighlight(h, item) == IF h = item THEN h ELSE 0
Highlight(h, item) == IF item = 0 THEN h ELSE item

\* triggerRedrawOverlay()
TriggerRedrawOverlay == redrawTimeouts' = redrawTimeouts \union {plotNo}

\* onMouseMove(), onMouseLeave(): the pointer is near a point or near none.
PointerNear(item) ==
    /\ highlighted' = Highlight(Unhighlight(highlighted, item), item) /\ hoverTip' = item
    /\ IF highlighted' = highlighted THEN UNCHANGED redrawTimeouts ELSE TriggerRedrawOverlay
    /\ UNCHANGED <<plotNo, graphInfo, yaxis, xaxis, textShown, overlayShows>>

\* drawPointHighlight(): of a point that the axes show.
Drawn(item) ==
    IF item = 0 \/ graphInfo[item] * Scale < yaxis.min \/ graphInfo[item] * Scale > yaxis.max THEN 0 ELSE item

DrawOverlay(p) ==
    /\ p \in redrawTimeouts /\ redrawTimeouts' = redrawTimeouts \ {p}
    /\ overlayShows' = IF p = plotNo THEN Drawn(highlighted) ELSE 0
    /\ UNCHANGED <<plotNo, graphInfo, yaxis, xaxis, textShown, highlighted, hoverTip>>

PlotNext ==
    \/ \E value \in 0..MaxSample : UpdateGraph(value)
    \/ \E item \in 0..Samples : PointerNear(item)
    \/ \E p \in redrawTimeouts : DrawOverlay(p)

PlotSpec == PlotInit /\ [][PlotNext]_plotVars
------------------------------------------------------------------------------
PlotTypeOK ==
    /\ graphInfo \in Seq(0..MaxSample) /\ Len(graphInfo) = Samples
    /\ highlighted \in 0..Samples /\ overlayShows \in 0..Samples /\ plotNo \in 1..MaxPlots

\* Whatever the values, no point is beyond the ends of its axis, the ends of the
\* value axis are ticks, the axis goes below zero only when all values are zero,
\* and a text is shown at one place; and however the pointer, the timers and new
\* plots come together, the overlay shows the highlight of the plot that is there
\* or that plot will draw it, and no plot that was shut down draws any more.
GraphHolds ==
    /\ \A i \in 1..Samples : yaxis.min <= graphInfo[i] * Scale /\ graphInfo[i] * Scale <= yaxis.max
    /\ {yaxis.min, yaxis.max} \subseteq yaxis.ticks
    /\ yaxis.min < 0 => \A i \in 1..Samples : graphInfo[i] = 0
    /\ \A s, t \in textShown : s[1] = t[1] => s = t
    /\ overlayShows = highlighted \/ plotNo \in redrawTimeouts
    /\ redrawTimeouts \subseteq {plotNo} /\ hoverTip = highlighted

==============================================================================
