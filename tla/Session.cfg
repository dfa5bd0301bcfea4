CONSTANTS
  Decoding <- DecodeOneAt
  Meaning <- Exec
  ByteLength <- Length
  Unpublished <- MCUnpublished
  Sessions <- MCSessions
  Fragments <- MCFragments
  FunctionsIR <- MCFunctions
  Fuel = 6
  Probes <- MCProbes
  Origin = 16
  MaxSteps = 5
  SysResults = {1}
SPECIFICATION Spec
INVARIANTS BlockMeansProgram OracleAgrees AtInstructionStart DiscoveryCovers LoopFollowsProgram ControlFlowExact FunctionPreserved
