\* One leadership and its successor over a log of 3 entries, two requests.
SPECIFICATION Spec
CONSTANTS
  Server = {a, b, c}
  Self = a
  InitialCluster = {a, b}
  Nil = Nil
  Conn = {r1, r2}
  server_catch_up_rounds = 2
  MaxLag = 5
  MaxLog = 3
  MaxTerm = 3
SYMMETRY Symmetry
CONSTRAINTS LastTermIsLed NoFailedAppend
CHECK_DEADLOCK FALSE
INVARIANTS
  TypeOK
  ClusterIsLatestConfig
  OneChangeAtATime
  NobodyForgotten
  
  
PROPERTY OkMeansDone
