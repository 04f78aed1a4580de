----------------------------- MODULE PollingPages -----------------------------
(***************************************************************************)
(* The two pages that ask the server again and again, under the fairness   *)
(* of their timers and callbacks: the page of a long action and the        *)
(* dashboard.  They share nothing; a browser shows one of them.            *)
(***************************************************************************)
EXTENDS ProgressPage, Dashboard

VARIABLE followed  \* the page that is shown

pollingVars == <<followed, progressVars, dashboardVars>>

PollingInit == followed \in {"progress", "sections"} /\ ProgressInit /\ DashboardInit

PollingNext ==
    /\ UNCHANGED followed
    /\ \/ followed = "progress" /\ ProgressNext /\ UNCHANGED dashboardVars
       \/ followed = "sections" /\ DashboardNext /\ UNCHANGED progressVars

\* The intervals, the fading and the callbacks run in the end; a server that
\* is asked again and again answers some day, in whatever order.
PollingFairness ==
    /\ \A p \in Poll :
          /\ WF_progressVars(followed = "progress" /\ CallServer(p))
          /\ WF_progressVars(followed = "progress" /\ Complete(p))
          /\ SF_progressVars(followed = "progress" /\ ReadState(p))
    /\ WF_dashboardVars(followed = "sections" /\ UpdateWidgets)
    /\ \A s \in Section : WF_dashboardVars(followed = "sections" /\ FadedOut(s))
    /\ WF_dashboardVars(followed = "sections" /\ \E q \in widgetCalls : UpdateWidget(q))
    /\ SF_dashboardVars(followed = "sections" /\ \E q \in widgetCalls : q.op = "widget" /\ WidgetJSON(q))

PollingSpec == PollingInit /\ [][PollingNext]_pollingVars /\ PollingFairness
------------------------------------------------------------------------------
\* The dashboard comes to show what the server has (DashboardSettles), when
\* its sections are what the browser shows.
SectionsSettle == followed = "sections" => DashboardSettles

===============================================================================
