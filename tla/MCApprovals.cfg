SPECIFICATION Spec
CONSTANTS
  i1 = i1  i2 = i2  c1 = c1  n1 = n1  w1 = w1  w2 = w2  send = send  book = book
  Ids = {i1, i2}
  Commitments = {c1}
  Names = {n1}
  Workers = {w1, w2}
  Actions = {send, book}
  Registered = {send}
  Key <- MCKey
  Size = {1, 2}
  SmallSize = {1}
  Cap = 2
  Ttls = {1}
  ExecTtl = 1
  Never = Never
  NoTtl = NoTtl
  NoRow = NoRow
  NoJob = NoJob
  Scratch = Scratch
  MaxNow = 2
  MaxCrashes = 1
SYMMETRY MCSymmetry
INVARIANTS Accounted OnceAndApproved AnswersHold
CHECK_DEADLOCK FALSE
