SPECIFICATION GraphSpec
CONSTANTS
  p = p
  q = q
  Procs = {p, q}
  Never = 2
  Plans <- MCPlans
  Inventory <- MCInventory
  Efforts <- MCEfforts
  CoreTasks <- MCCoreTasks
  NodeActions = 2
  MaxFaults = 2
INVARIANTS HistorySound PublishedStays SeedComplete RetrievalClosed
CHECK_DEADLOCK FALSE
