SPECIFICATION FairSpec
CONSTANTS
  Thread = {t1, t2}
  NumPages = 2
  PagesPerHost = 1
  Unprotectable = {}
  Key = {1, 2}
  Cover <- MCCover
  PendingCap = 1
INVARIANTS ProtectionMatches NoSpuriousFault StaleReported
PROPERTY StaleLeaves
