CONSTANTS
  s1 = s1
  s2 = s2
  o1 = o1
  o2 = o2
  o3 = o3
  None = None
  Store = {s1, s2}
  Orders = {o1, o2, o3}
SPECIFICATION FairSpec
CHECK_DEADLOCK FALSE
INVARIANTS TypeOK AnswersInOrder ReportsAreTrue
PROPERTY Ends
