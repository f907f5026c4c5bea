SPECIFICATION Spec
CONSTANTS
  d1 = d1
  d2 = d2
  e1 = e1
  k1 = k1
  k2 = k2
  Requests = {r1, r2}
  Drafts = {d1}
  Items = {d1}
  Keys = {k1}
  Bodies <- MCBodies
  Blocked <- MCBlocked
  Calls <- DraftCalls
  Switch = {TRUE}
  Ttl = 1
  Cap = 0
  Window = 2
  IdemTtl = 0
  IdemMax = 1
  Threshold = 2
  OpenFor = 2
  Faults = TRUE
  MaxNow = 1
  MaxCalls = 4
  MaxEdits = 1
  NoKey = NoKey
  NoBody = NoBody
  NoCall = NoCall
  NoToken = NoToken
  NoReceipt = NoReceipt
  NoSeen = NoSeen
SYMMETRY MCSymmetry
INVARIANTS NothingIrreversibleUngated DriftOnlyAfterRefetch ReceiptsAreTruthful
PROPERTIES RawReplayAnswered
CHECK_DEADLOCK FALSE
