SPECIFICATION FairSpec
CONSTANTS
  Absent = Absent
  Partial = Partial
  Nobody = Nobody
  NoTool = NoTool
  NoMatch = NoMatch
  first = first
  second = second
  child = child
  build = build
  serve = serve
  Processes <- MCProcesses
  Tools <- MCTools
  Nested <- MCNested
  Settled = {serve}
  Ids <- MCIds
  Selectors <- MCSelectors
  Describe <- MCDescribe
  Stored <- MCStored
  Children = {child}
  Calls <- MCCalls
  Times = {1, 2}
  MaxTroubles = 1
INVARIANTS UpdatesAreKept ListingsAreSound HandoversAreClean
PROPERTIES StoreIsAtomic EveryWaitEnds
CHECK_DEADLOCK FALSE
