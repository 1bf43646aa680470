CONSTANTS
  A = A
  B = B
  Bad = Bad
  NoBox = NoBox
  EmptyBox = EmptyBox
  Unparseable <- BadAnswers
  Rollouts <- SomeRollouts
  Defaults <- FewParams
  Requests <- SomeRequests
SPECIFICATION FairSpec
INVARIANTS TypeOK RetriesBounded UsageIsTrue SpendBounded ErrorMeansRoundLost WinnerStands
PROPERTIES EventuallyReplied
