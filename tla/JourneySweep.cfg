CONSTANTS
  t1 = t1
  t2 = t2
  retake = retake
  w1 = w1
  w2 = w2
  None = None
  Events = {t1, t2, retake}
  StageOf <- MCStageOf
  Last = 2
  Appealable = {t1}
  MaxRuns = 2
  MaxFailures = 1
  Workers = {w1, w2}
SPECIFICATION Spec
PROPERTIES
  AnsweredIsLeftAlone
CHECK_DEADLOCK FALSE
