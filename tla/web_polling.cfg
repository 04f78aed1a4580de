SPECIFICATION PollingSpec
CHECK_DEADLOCK FALSE
CONSTANTS
 Poll = {p1,p2}
 MaxTicks = 2
 FailLimit = 2
 Section = {s1,s2}
 MaxPolls = 2
 MaxServerChanges = 2
PROPERTIES
 PageHearsTheEnd 
