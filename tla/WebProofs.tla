------------------------------ MODULE WebProofs ------------------------------
(***************************************************************************)
(* What the scripts of the pages and the libraries keep, said of the whole *)
(* web interface: only the script of the open page takes steps, each of    *)
(* its steps is a step of that script's own specification, and the others  *)
(* stutter.  So the interface implements each of its parts, and whatever   *)
(* was proved of a part holds of the interface.                            *)
(***************************************************************************)
EXTENDS WebInterface, ListProofs, PagesProofs, JQueryProofs, UIProofs

\* A step while a script is not the open one leaves that script alone.
LEMMA OthersStay ==
  ASSUME [WebNext]_webVars
  PROVE
    /\ page = "table" \/ UNCHANGED tableVars
    /\ page = "wizard" \/ UNCHANGED wizardVars
    /\ page = "progress" \/ UNCHANGED progressVars
    /\ page = "migration" \/ UNCHANGED migrationVars
    /\ page = "sections" \/ UNCHANGED dashboardVars
    /\ page = "widgets" \/ UNCHANGED layoutVars
    /\ page = "tabs" \/ UNCHANGED tabsVars
    /\ page = "modal" \/ UNCHANGED modalVars
    /\ page = "carousel" \/ UNCHANGED slideVars
    /\ page = "scripts" \/ UNCHANGED scriptVars
    /\ page = "combobox" \/ UNCHANGED comboVars
    /\ page = "graph" \/ UNCHANGED plotVars
    /\ page = "tree" \/ UNCHANGED treeVars
    /\ page = "deferred" \/ UNCHANGED deferredVars
    /\ page = "effects" \/ UNCHANGED fxVars
    /\ page = "events" \/ UNCHANGED eventVars
    /\ page = "ajax" \/ UNCHANGED ajaxVars
    /\ page = "data" \/ UNCHANGED dataVars
    /\ page = "drag" \/ UNCHANGED dragVars
    /\ page = "sortable" \/ UNCHANGED sortVars
    /\ page = "dialog" \/ UNCHANGED dialogVars
    /\ page = "widget" \/ UNCHANGED widgetVars
    /\ page = "tooltip" \/ UNCHANGED tipVars
    /\ page = "uitabs" \/ UNCHANGED tabUIVars
    /\ page = "accordion" \/ UNCHANGED accordionVars
    /\ page = "slider" \/ UNCHANGED sliderVars
    /\ page = "spinner" \/ UNCHANGED spinVars
<1>1. CASE UNCHANGED webVars
  BY <1>1 DEF webVars
<1>2. CASE WebNext
  <2>1. OthersRest
    BY <1>2 DEF WebNext
  <2>. QED
    BY <2>1 DEF OthersRest
<1>. QED
  BY <1>1, <1>2

\* And a step while it is the open one is one of its own.
LEMMA OpenSteps ==
  ASSUME [WebNext]_webVars
  PROVE
    /\ page = "table" => [TableNext]_tableVars
    /\ page = "wizard" => [WizardNext]_wizardVars
    /\ page = "progress" => [ProgressNext]_progressVars
    /\ page = "migration" => [MigrationNext]_migrationVars
    /\ page = "sections" => [DashboardNext]_dashboardVars
    /\ page = "widgets" => [LayoutNext]_layoutVars
    /\ page = "tabs" => [TabsNext]_tabsVars
    /\ page = "modal" => [ModalNext]_modalVars
    /\ page = "carousel" => [CarouselNext]_slideVars
    /\ page = "scripts" => [ScriptsNext]_scriptVars
    /\ page = "combobox" => [ComboNext]_comboVars
    /\ page = "graph" => [PlotNext]_plotVars
    /\ page = "tree" => [TreeNext]_treeVars
    /\ page = "deferred" => [DeferredNext]_deferredVars
    /\ page = "effects" => [FxNext]_fxVars
    /\ page = "events" => [EventNext]_eventVars
    /\ page = "ajax" => [AjaxNext]_ajaxVars
    /\ page = "data" => [DataNext]_dataVars
    /\ page = "drag" => [DragNext]_dragVars
    /\ page = "sortable" => [SortNext]_sortVars
    /\ page = "dialog" => [DialogNext]_dialogVars
    /\ page = "widget" => [WidgetNext]_widgetVars
    /\ page = "tooltip" => [TooltipNext]_tipVars
    /\ page = "uitabs" => [TabsUINext]_tabUIVars
    /\ page = "accordion" => [AccordionNext]_accordionVars
    /\ page = "slider" => [SliderNext]_sliderVars
    /\ page = "spinner" => [SpinNext]_spinVars
<1>1. CASE UNCHANGED webVars
  BY <1>1 DEF webVars
<1>2. CASE WebNext
  BY <1>2 DEF WebNext
<1>. QED
  BY <1>1, <1>2

\* Every behaviour of the web interface is one of each of its scripts, which
\* runs while its page is open (WebNext) and rests while another one is.
THEOREM PartsImplemented ==
  WebSpec =>
    /\ TableSpec
    /\ WizardSpec
    /\ ProgressSpec
    /\ MigrationSpec
    /\ DashboardSpec
    /\ LayoutSpec
    /\ TabsSpec
    /\ ModalSpec
    /\ CarouselSpec
    /\ ScriptsSpec
    /\ ComboSpec
    /\ PlotSpec
    /\ TreeSpec
    /\ DeferredSpec
    /\ FxSpec
    /\ EventSpec
    /\ AjaxSpec
    /\ DataSpec
    /\ DragSpec
    /\ SortSpec
    /\ DialogSpec
    /\ WidgetSpec
    /\ TooltipSpec
    /\ TabsUISpec
    /\ AccordionSpec
    /\ SliderSpec
    /\ SpinSpec
<1>1. WebInit =>
    /\ TableInit
    /\ WizardInit
    /\ ProgressInit
    /\ MigrationInit
    /\ DashboardInit
    /\ LayoutInit
    /\ TabsInit
    /\ ModalInit
    /\ CarouselInit
    /\ ScriptsInit
    /\ ComboInit
    /\ PlotInit
    /\ TreeInit
    /\ DeferredInit
    /\ FxInit
    /\ EventInit
    /\ AjaxInit
    /\ DataInit
    /\ DragInit
    /\ SortInit
    /\ DialogInit
    /\ WidgetInit
    /\ TooltipInit
    /\ TabsUIInit
    /\ AccordionInit
    /\ SliderInit
    /\ SpinInit
  BY DEF WebInit
<1>2. [WebNext]_webVars =>
    /\ [TableNext]_tableVars
    /\ [WizardNext]_wizardVars
    /\ [ProgressNext]_progressVars
    /\ [MigrationNext]_migrationVars
    /\ [DashboardNext]_dashboardVars
    /\ [LayoutNext]_layoutVars
    /\ [TabsNext]_tabsVars
    /\ [ModalNext]_modalVars
    /\ [CarouselNext]_slideVars
    /\ [ScriptsNext]_scriptVars
    /\ [ComboNext]_comboVars
    /\ [PlotNext]_plotVars
    /\ [TreeNext]_treeVars
    /\ [DeferredNext]_deferredVars
    /\ [FxNext]_fxVars
    /\ [EventNext]_eventVars
    /\ [AjaxNext]_ajaxVars
    /\ [DataNext]_dataVars
    /\ [DragNext]_dragVars
    /\ [SortNext]_sortVars
    /\ [DialogNext]_dialogVars
    /\ [WidgetNext]_widgetVars
    /\ [TooltipNext]_tipVars
    /\ [TabsUINext]_tabUIVars
    /\ [AccordionNext]_accordionVars
    /\ [SliderNext]_sliderVars
    /\ [SpinNext]_spinVars
  BY OthersStay, OpenSteps
<1>. QED
  BY <1>1, <1>2, PTL DEF WebSpec, TableSpec, WizardSpec, ProgressSpec, MigrationSpec, DashboardSpec, LayoutSpec, TabsSpec, ModalSpec, CarouselSpec, ScriptsSpec, ComboSpec, PlotSpec, TreeSpec, DeferredSpec, FxSpec, EventSpec, AjaxSpec, DataSpec, DragSpec, SortSpec, DialogSpec, WidgetSpec, TooltipSpec, TabsUISpec, AccordionSpec, SliderSpec, SpinSpec

\* The pane of the wizard that is shown is that of its step, the slides go
\* round, the forms and buttons of the small scripts are left as they should
\* be and the server keeps the layout that is shown (PagesHold).
THEOREM PagesKept == WebSpec => []PagesHold
BY PartsImplemented, WizardShowsOnePane, SlidesMove, ScriptsKept, LayoutsKept, PTL DEF PagesHold

\* The same for what the run web_interface checks of each page by itself: the
\* wizard saves in order, the page of a long action says done when it is and
\* never counts more than there is, a mailbox is done once it is copied, a widget is in one
\* place, the tab that was asked for is the one that is shown, the rows that a
\* select offers are those of the server, the value of a combobox is its
\* label's and the files marked in a tree are those that are sent.
THEOREM ScriptsOfPagesKept ==
  WebSpec => /\ []StepsInOrder /\ []DoneMeansDone /\ []TicksWithinTotal /\ []DoneMeansCopied
             /\ []WidgetOnce /\ []TabAskedAndShown /\ []ChoicesAreRows /\ []ChoiceMatches
             /\ []SelectionShown
BY PartsImplemented, WizardInOrder, DoneIsDone, TicksFit, DoneAfterCopying, WidgetsOnce,
   TabsAskRight, ChoicesKept, ChoicesMatch, MarkedIsSent, PTL

\* What jQuery and Flot promise the pages (JQueryHolds): each request is told once,
\* a callback added to a deferred is called once and in its turn, one effect at a
\* time moves an element, the handlers of an event run in order, data and scripts
\* stay with their elements, and a graph shows its values.
THEOREM LibraryKept == WebSpec => []JQueryHolds
BY PartsImplemented, RequestsToldOnce, DeferredsHeard, EffectsInTurn, HandlersRunInOrder,
   DataFollowsElements, GraphShowsValues, PTL DEF JQueryHolds

\* And jQuery UI: a drop leaves nothing highlighted, the page is told the order
\* of a list when it changed, overlays are there while a modal dialog is open,
\* a widget is stored as long as it lives, a tooltip gives its title back, tabs
\* and accordions show the panel of what is active, and sliders and spinners
\* tell the value they come to rest at (UIHolds).
THEOREM WidgetsOfPagesKept == WebSpec => []UIHolds
BY PartsImplemented, DropsSettled, OrdersTold, OverlaysKept, WidgetsKept, TooltipsKept, PanelsShow,
   AccordionsShow, SlidersTell, SpinnersStop, PTL DEF UIHolds

\* And the tables: a page whose requests did not overlap shows the rows of the
\* server, and what spinners replaced comes back.
THEOREM TablesOfPagesKept == WebSpec => []RowsShown /\ []PageComesBack
BY PartsImplemented, RowsShownHolds, PageComesBackHolds, PTL

\* And the interface keeps its type: a script, a library or a widget never has a
\* value beyond what the page, the server and the calls that are made can give,
\* nor an index, a counter or a timer beyond what it is an index or a counter of.
THEOREM TypesKept == WebSpec => []WebTypeOK
<1>1. WebSpec => [](page \in PageScript)
  <2>1. WebInit => page \in PageScript
    BY DEF WebInit
  <2>2. page \in PageScript /\ [WebNext]_webVars => (page \in PageScript)'
    <3>1. SUFFICES ASSUME page \in PageScript, [WebNext]_webVars PROVE page' \in PageScript
      OBVIOUS
    <3>. QED
      BY <3>1 DEF WebNext, OthersRest, webVars
  <2>. QED
    BY <2>1, <2>2, PTL DEF WebSpec
<1>. QED
  BY <1>1, PartsImplemented, TableTypes, WizardTypeCorrect, ProgressTypes, MigrationTyped, SectionsTyped, LayoutTypes,
     TabsTypeCorrect, ModalTypes, SlidesTyped, ScriptsTypes, ComboTyped, PlotTypes, TreeTypes, DeferredTypes, FxTypes,
     EventTypes, AjaxTypes, DataTypesKept, DragTypes, SortTyped, DialogTypes, WidgetTypes, TooltipTyped, TabsUITyped,
     AccordionTypes, SliderTyped, SpinTypes, PTL DEF WebTypeOK
==============================================================================
