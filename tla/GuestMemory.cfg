SPECIFICATION Spec
CONSTANTS
  U64Max = 7
  ArenaWindow <- MCArenaWindow
  MinAddr = 1
  MaxBytes = 3
  HeapBase = 3
  Layout <- MCLayout
  Hints = {0, 4}
  Bases = {1, 2, 4}
  Lens = {0, 1, 3, 4}
  Stores = {3, 5}
  None = None
INVARIANTS QueriesExact HeapTop
PROPERTIES FreshIsZero RefinesAddressSpace
