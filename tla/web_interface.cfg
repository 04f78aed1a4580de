SPECIFICATION WebSpec
CHECK_DEADLOCK FALSE
CONSTANTS
 Row = {r1,r2}
 Table = Table
 MaxRequests = 2
 MaxLost = 1
 LastStep = 3
 MaxWizardFails = 3
 Poll = {p1,p2}
 MaxTicks = 2
 FailLimit = 2
 Mailbox = {u1,u2}
 MaxAsked = 2
 MaxEstimates = 2
 Section = {s1,s2}
 MaxPolls = 2
 MaxServerChanges = 2
 Widget = {w1,w2}
 MaxDrags = 2
 MaxUpdates = 2
 Tab <- MCTab
 OwnParams <- MCOwnParams
 MaxTabCalls = 2
 MaxRows = 2
 MaxModal = 2
 MaxModalLost = 1
 MaxSlides = 3
 Package = {k1,k2}
 MaxSubmits = 3
 Label = {a,b}
 Garbage = Garbage
 NoLabel = NoLabel
 MaxTyped = 1
 MaxFresh = 1
 Samples = 3
 MaxSample = 6
 NoTicks = 3
 Base = 4
 MaxPlots = 3
 MaxRefreshes = 2
 MaxLoadFails = 1
 MaxAdded = 2
 MaxNotified = 2
 MaxEffects = 3
 MaxFxCalls = 2
 MaxBound = 2
 MaxNested = 2
 Ajax = {q1,q2,q3}
 MaxMoves = 3
 MaxKept = 1
 Item = {i1,i2}
 MaxRedraws = 1
 Dialog = {d1,d2}
 MaxOpenings = 2
 MaxHides = 2
 MaxInstances = 2
 BarLimit = 1
 MaxTips = 4
 MaxMessages = 2
 MaxTabs = 2
 RemoteTabs = {2}
 MaxLoads = 1
 MaxPanels = 3
 SliderMax = 7
 LowerMax = 4
 Step = 4
 Places = {0,6}
 SpinMax = 1
 ButtonSteps = {1}
 KeySteps = {1}
INVARIANTS
 WebTypeOK PageComesBack   DoneMeansDone TicksWithinTotal
  WidgetOnce TabAskedAndShown ChoicesAreRows ChoiceMatches SelectionShown
 JQueryHolds UIHolds 
