SPECIFICATION Spec
CONSTANTS
  Key <- MCKey
  CodeSize <- MCCodeSize
  Pages <- MCPages
  EntryCaps = {0, 1, 2}
  ByteCaps = {0, 2}
  None = None
INVARIANTS FileIsSnapshot
PROPERTIES EvictsOldest PageDropped
