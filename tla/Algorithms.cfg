SPECIFICATION Spec
CHECK_DEADLOCK FALSE
CONSTANTS
  ProbeCases <- MCProbeCases
  StudyCases <- MCStudyCases
  BatchCases <- MCBatchCases
  LengthCases <- MCLengthCases
INVARIANTS
  ProbesAreIndependent
  SelectionIsPossible
  TeacherScoresAlign
  PartsAreBalanced
