SPECIFICATION Spec
CONSTANTS
  c1 = c1
  c2 = c2
  Caller = {c1, c2}
  Key = {"pool", "ns/pool"}
  TTL = 2
  MaxCall = 1
  MaxChanges = 2
  Horizon = 3
SYMMETRY Goroutines
INVARIANTS TypeOK AnswerIsRecent ClearForgets
CHECK_DEADLOCK FALSE
