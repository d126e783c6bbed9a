CONSTANTS
  Worker = {w1, w2}
  Kind <- MCKind
  Headers = {0}
  Manual = {1}
  Forces = {FALSE}
  Answers <- MCAnswers
  MaxRecords = 4
SPECIFICATION Spec
INVARIANTS
  TypeOK
  GreenIsDelivered
  ReportsWhatSiiHas
  
  TracksAreOwn
SYMMETRY Symmetry
CHECK_DEADLOCK FALSE
