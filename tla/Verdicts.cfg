CONSTANTS
  None = None
  new = new
  old = old
  Submissions = {new, old}
  Archive = {old}
  w1 = w1
  w2 = w2
  Workers = {w1, w2}
  Cases <- MCCases
  Answers <- MCAnswers
  Opinions <- MCOpinions
  Configs <- MCConfigs
  ApproveMin = 2
  RejectMin = 3
  NearDistance = 1
  MaxUtcOffset = 1
  SubmissionGrace = 1
  HashRows = 1
  HashColumns = 2
  MinMinutes = 60
  MaxMinutes = 10080
  MinXp = 20
  MaxXp = 200
  ApproveThreshold = 2
  RejectThreshold = 3
  MinRelevance = 1
SYMMETRY WorkersAreAlike
SPECIFICATION Spec
INVARIANTS
  OneDecider
  RowTellsOneStory
  AppealsStayHuman
PROPERTIES
  ApprovalIsEarned
  RejectionIsGrounded
