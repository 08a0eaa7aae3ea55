SPECIFICATION Spec
CONSTANTS
  Users = {u1, u2}
  Owner = u1
  Factors = {f1, y1}
  Keys = {y1}
  Challenges = {c1, c2}
  Codes = {x1, x2}
  CodeCount = 1
  Links = {1, 2, 3}
  Calls = {k1, k2}
  MaxFailures = 2
  MaxStep = 3
  MaxLapses = 1
  MaxOps = 6
  None = None
SYMMETRY AccountSymmetry
INVARIANTS TypeOK Administered ProofOnce GuessesBounded CodesFollowFactors AskingAgainInvalidates
CHECK_DEADLOCK FALSE
