CONSTANTS
  CodeLen <- MCCodeLen
  Bytes <- MCBytes
  Stored = {2}
  Values = {0, 1}
  Image <- MCImage
  PCs <- MCPCs
  PageSize = 2
  FetchLen = 2
  Limits <- MCLimits
  MaxCalls = 6
SPECIFICATION Spec
PROPERTIES HitIsCurrent ReportedWritesTakeEffect EvictsLeastRecent LoadRestores
