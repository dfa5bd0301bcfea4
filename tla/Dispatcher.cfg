SPECIFICATION FairSpec
CONSTANTS
  PC = {0, 1, 2}
  Code <- MCCode
  NoBytes = NoBytes
  None = None
  PoolBlocks = 2
  kHaltSentinel = 0
  MaxSteps = 3
INVARIANTS
  FreshExecution StepBudget DispatcherInv
PROPERTY RunReturns
