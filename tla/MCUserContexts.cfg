SPECIFICATION Spec
CONSTANTS
  MaxEntries = 3
  BlockSize = 100
  ann = ann
  Ann = Ann
  Missing = Missing
  Lower <- MCLower
  bob = bob
  s1 = s1
  s2 = s2
  Presents <- MCPresents
  InitPassword <- MCPassword
  Users = {ann, bob}
  Secrets = {s1, s2}
  Calls = {c1, c2}
  MaxCachedUsers = 1
  PoolSize = 1
  NoFolder <- None
  Folder <- Archive
  Path <- ArchivePath
  InitRules <- MCRules
  Requests <- MCRequests
  FirstNew = 10
  MaxContexts = 3
  MaxCalls = 3
CHECK_DEADLOCK FALSE
INVARIANTS ServedAsOneself Released NoneStranded
PROPERTIES HitsWhatWasShown EchoKeeps 
