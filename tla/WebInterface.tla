----------------------------- MODULE WebInterface -----------------------------
(***************************************************************************)
(* The scripts of the administration pages and the browser libraries they  *)
(* stand on, each as its own module.  A page runs one of them at a time    *)
(* here, chosen when it is opened: they share no variable, and what a      *)
(* script needs of a library is part of its module.                        *)
(***************************************************************************)
EXTENDS TableHelper, SoftwareWizard, ProgressPage, Migration, Dashboard,
        DashboardLayout, Tabs, ModalAdd, Carousel, PageScripts, Combobox,
        FlotGraph, JsTree, JQueryDeferred, JQueryEffects, JQueryEvents,
        JQueryAjax, JQueryData, UIDrag, UISortable, UIDialog, UIWidget,
        UITooltip, UITabs, UIAccordion, UISlider, UISpinner

VARIABLE page  \* the script that runs

PageScript == {"table", "wizard", "progress", "migration", "sections",
               "widgets", "tabs", "modal", "carousel", "scripts", "combobox",
               "graph", "tree", "deferred", "effects", "events", "ajax", "data",
               "drag", "sortable", "dialog", "widget", "tooltip", "uitabs",
               "accordion", "slider", "spinner"}

WebInit ==
    /\ page \in PageScript
    /\ TableInit /\ WizardInit /\ ProgressInit /\ MigrationInit /\ DashboardInit
    /\ LayoutInit /\ TabsInit /\ ModalInit /\ CarouselInit /\ ScriptsInit
    /\ ComboInit /\ PlotInit /\ TreeInit /\ DeferredInit /\ FxInit
    /\ EventInit /\ AjaxInit /\ DataInit /\ DragInit /\ SortInit
    /\ DialogInit /\ WidgetInit /\ TooltipInit /\ TabsUIInit /\ AccordionInit
    /\ SliderInit /\ SpinInit
    /\ page # "carousel" => slides = 1
    /\ page # "scripts" => script = "form"

\* The variables of the other scripts stay as they are.
OthersRest ==
    /\ UNCHANGED page
    /\ IF page = "table" THEN TRUE ELSE UNCHANGED tableVars
    /\ IF page = "wizard" THEN TRUE ELSE UNCHANGED wizardVars
    /\ IF page = "progress" THEN TRUE ELSE UNCHANGED progressVars
    /\ IF page = "migration" THEN TRUE ELSE UNCHANGED migrationVars
    /\ IF page = "sections" THEN TRUE ELSE UNCHANGED dashboardVars
    /\ IF page = "widgets" THEN TRUE ELSE UNCHANGED layoutVars
    /\ IF page = "tabs" THEN TRUE ELSE UNCHANGED tabsVars
    /\ IF page = "modal" THEN TRUE ELSE UNCHANGED modalVars
    /\ IF page = "carousel" THEN TRUE ELSE UNCHANGED slideVars
    /\ IF page = "scripts" THEN TRUE ELSE UNCHANGED scriptVars
    /\ IF page = "combobox" THEN TRUE ELSE UNCHANGED comboVars
    /\ IF page = "graph" THEN TRUE ELSE UNCHANGED plotVars
    /\ IF page = "tree" THEN TRUE ELSE UNCHANGED treeVars
    /\ IF page = "deferred" THEN TRUE ELSE UNCHANGED deferredVars
    /\ IF page = "effects" THEN TRUE ELSE UNCHANGED fxVars
    /\ IF page = "events" THEN TRUE ELSE UNCHANGED eventVars
    /\ IF page = "ajax" THEN TRUE ELSE UNCHANGED ajaxVars
    /\ IF page = "data" THEN TRUE ELSE UNCHANGED dataVars
    /\ IF page = "drag" THEN TRUE ELSE UNCHANGED dragVars
    /\ IF page = "sortable" THEN TRUE ELSE UNCHANGED sortVars
    /\ IF page = "dialog" THEN TRUE ELSE UNCHANGED dialogVars
    /\ IF page = "widget" THEN TRUE ELSE UNCHANGED widgetVars
    /\ IF page = "tooltip" THEN TRUE ELSE UNCHANGED tipVars
    /\ IF page = "uitabs" THEN TRUE ELSE UNCHANGED tabUIVars
    /\ IF page = "accordion" THEN TRUE ELSE UNCHANGED accordionVars
    /\ IF page = "slider" THEN TRUE ELSE UNCHANGED sliderVars
    /\ IF page = "spinner" THEN TRUE ELSE UNCHANGED spinVars

WebNext ==
    \/ page = "table" /\ TableNext /\ OthersRest
    \/ page = "wizard" /\ WizardNext /\ OthersRest
    \/ page = "progress" /\ ProgressNext /\ OthersRest
    \/ page = "migration" /\ MigrationNext /\ OthersRest
    \/ page = "sections" /\ DashboardNext /\ OthersRest
    \/ page = "widgets" /\ LayoutNext /\ OthersRest
    \/ page = "tabs" /\ TabsNext /\ OthersRest
    \/ page = "modal" /\ ModalNext /\ OthersRest
    \/ page = "carousel" /\ CarouselNext /\ OthersRest
    \/ page = "scripts" /\ ScriptsNext /\ OthersRest
    \/ page = "combobox" /\ ComboNext /\ OthersRest
    \/ page = "graph" /\ PlotNext /\ OthersRest
    \/ page = "tree" /\ TreeNext /\ OthersRest
    \/ page = "deferred" /\ DeferredNext /\ OthersRest
    \/ page = "effects" /\ FxNext /\ OthersRest
    \/ page = "events" /\ EventNext /\ OthersRest
    \/ page = "ajax" /\ AjaxNext /\ OthersRest
    \/ page = "data" /\ DataNext /\ OthersRest
    \/ page = "drag" /\ DragNext /\ OthersRest
    \/ page = "sortable" /\ SortNext /\ OthersRest
    \/ page = "dialog" /\ DialogNext /\ OthersRest
    \/ page = "widget" /\ WidgetNext /\ OthersRest
    \/ page = "tooltip" /\ TooltipNext /\ OthersRest
    \/ page = "uitabs" /\ TabsUINext /\ OthersRest
    \/ page = "accordion" /\ AccordionNext /\ OthersRest
    \/ page = "slider" /\ SliderNext /\ OthersRest
    \/ page = "spinner" /\ SpinNext /\ OthersRest

webVars ==
    <<page, tableVars, wizardVars, progressVars, migrationVars, dashboardVars,
      layoutVars, tabsVars, modalVars, slideVars, scriptVars, comboVars, plotVars,
      treeVars, deferredVars, fxVars, eventVars, ajaxVars, dataVars, dragVars,
      sortVars, dialogVars, widgetVars, tipVars, tabUIVars, accordionVars, sliderVars,
      spinVars>>

WebSpec == WebInit /\ [][WebNext]_webVars
------------------------------------------------------------------------------
\* Types of the pages' state and of the libraries'.
WebTypeOK ==
    /\ page \in PageScript
    /\ TableTypeOK /\ WizardTypeOK /\ ProgressTypeOK /\ MigrationTypeOK /\ DashboardTypeOK
    /\ LayoutTypeOK /\ TabsTypeOK /\ ModalTypeOK /\ CarouselTypeOK /\ ScriptsTypeOK /\ ComboTypeOK
    /\ PlotTypeOK /\ TreeTypeOK /\ DeferredTypeOK /\ FxTypeOK /\ EventTypeOK /\ AjaxTypeOK /\ DataTypeOK
    /\ DragTypeOK /\ SortTypeOK /\ DialogTypeOK /\ WidgetTypeOK /\ TooltipTypeOK
    /\ TabsUITypeOK /\ AccordionTypeOK /\ SliderTypeOK /\ SpinTypeOK

\* What scripts rely on in jQuery (jquery-1.9.1.js) and in its plugin for graphs
\* (jquery.flot.js), whatever the page does meanwhile: a callback hears each value
\* in order, one effect plays on an element at a time, handlers run in the order
\* they were bound, a request is told of once, data and scripts follow their
\* element, and a graph shows its values and highlights.
JQueryHolds == HeardInOrder /\ OneEffectAtATime /\ HandlersInOrder /\ ToldOnce /\ DataHolds /\ GraphHolds

\* And in jQuery UI (jquery-ui-1.10.3.js): a drop leaves nothing highlighted,
\* the order of a list is told when it changed, overlays are there while a
\* modal dialog is open, widgets are stored as long as they live, a tooltip
\* gives its title back, tabs and accordions show the panel of the active
\* header, and sliders and spinners tell the value they come to rest at.
UIHolds ==
    /\ DropsSettle /\ OrderTold /\ OverlaysHold /\ WidgetsHold /\ TooltipsHold
    /\ PanelsHold /\ AccordionHolds /\ SliderHolds /\ SpinnerHolds

\* The small scripts of the pages: the pane of the wizard, the slides shown
\* during an action, the forms, uploads and buttons, and the layout of the
\* dashboard that the server keeps.
PagesHold == OnePaneShown /\ CarouselHolds /\ ScriptsHold /\ LayoutKept

===============================================================================
