SPECIFICATION Spec
CONSTANTS
  d1 = d1
  d2 = d2
  e1 = e1
  k1 = k1
  k2 = k2
  Requests = {r1, r2}
  Drafts = {d1, d2}
  Items = {d1, d2, e1}
  Keys = {k1, k2}
  Bodies <- OneBody
  Blocked <- MCBlocked
  Calls <- ClockCalls
  Switch = {TRUE, FALSE}
  Ttl = 1
  Cap = 1
  Window = 2
  IdemTtl = 4
  IdemMax = 1
  Threshold = 2
  OpenFor = 2
  Faults = FALSE
  MaxNow = 6
  MaxCalls = 4
  MaxEdits = 0
  NoKey = NoKey
  NoBody = NoBody
  NoCall = NoCall
  NoToken = NoToken
  NoReceipt = NoReceipt
  NoSeen = NoSeen
SYMMETRY MCSymmetry
INVARIANTS SingleUseUntilExpiry RateCapHolds
CHECK_DEADLOCK FALSE
