CONSTANTS
  Decoding <- DecodeOneAt
  Meaning <- Exec
  ByteLength <- Length
  Unpublished <- MCUnpublished
  Sessions <- RingSessions
  Fragments = {}
  FunctionsIR = {}
  Fuel = 6
  Probes <- MCProbes
  Origin = 16
  MaxSteps = 5
  SysResults = {1}
SPECIFICATION Spec
INVARIANT BlockMeansProgram
